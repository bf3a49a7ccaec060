----------------------------- MODULE CartProofs -----------------------------
(***************************************************************************)
(* The safety of Cart for any items, stores, requests and budget: what     *)
(* mongoose's version check keeps when requests overlap and fail.          *)
(*                                                                         *)
(* First what sequences of sets and places in them are, then what each way *)
(* of writing the array does to it (Edits), then the invariant CartInv:    *)
(* a loaded cart of the current version is the current cart.               *)
(***************************************************************************)
EXTENDS Cart, FiniteSetTheorems, TLAPS

\* A set of numbers has a least one.
LEMMA LeastExists ==
  ASSUME NEW S \in SUBSET Nat, S # {}
  PROVE  \E n \in S : \A m \in S : n <= m
<1> DEFINE R == OpToRel(<, Nat)
<1>1. IsWellFoundedOn(R, Nat) /\ S \subseteq Nat /\ S # {}
  BY NatLessThanWellFounded
<1> HIDE DEF R
<1>2. \E n \in S : \A m \in S : ~(<<m, n>> \in R)
  BY <1>1, WFMin
<1>3. PICK n \in S : \A m \in S : ~(<<m, n>> \in R)
  BY <1>2
<1>4. \A m \in S : ~(m < n)
  BY <1>3 DEF R, OpToRel
<1>5. \A m \in S : n <= m
  BY <1>4
<1> QED
  BY <1>5

\* The place of a number in a set of them.
Rank(k, S) == Cardinality({j \in S : j <= k})

\* Larger numbers have later places ...
LEMMA RanksDiffer ==
  ASSUME NEW S \in SUBSET Nat, IsFiniteSet(S), NEW i \in S, NEW j \in S, i < j
  PROVE  Rank(i, S) < Rank(j, S)
<1> DEFINE A == {k \in S : k <= i}
           B == {k \in S : k <= j}
<1>1. i \in Nat /\ j \in Nat
  OBVIOUS
<1>2. IsFiniteSet(B) /\ Cardinality(B) \in Nat
  <2>1. B \in SUBSET S
    OBVIOUS
  <2> HIDE DEF B
  <2> QED
    BY <2>1, FS_Subset, FS_CardinalityType
<1>3. A \in SUBSET B /\ j \in B /\ j \notin A
  <2>1. \A k \in S : k <= i => k <= j
    BY <1>1
  <2>2. j \in B /\ j \notin A
    BY <1>1
  <2> QED
    BY <2>1, <2>2
<1> HIDE DEF A, B
<1>4. Cardinality(A) <= Cardinality(B) /\ Cardinality(A) # Cardinality(B) /\ Cardinality(A) \in Nat
  BY <1>2, <1>3, FS_Subset, FS_CardinalityType
<1>5. Cardinality(A) < Cardinality(B)
  BY <1>2, <1>4
<1> QED
  BY <1>5 DEF Rank, A, B

\* ... between 1 and how many there are.
LEMMA RanksAreCounted ==
  ASSUME NEW S \in SUBSET Nat, IsFiniteSet(S), NEW i \in S
  PROVE  Rank(i, S) \in 1 .. Cardinality(S)
<1> DEFINE A == {k \in S : k <= i}
<1>1. A \in SUBSET S /\ i \in A
  <2>1. i \in Nat
    OBVIOUS
  <2> QED
    BY <2>1
<1> HIDE DEF A
<1>2. IsFiniteSet(A) /\ Cardinality(A) <= Cardinality(S) /\ Cardinality(A) \in Nat /\ Cardinality(S) \in Nat
  BY <1>1, FS_Subset, FS_CardinalityType
<1>3. Cardinality(A) # 0
  BY <1>1, <1>2, FS_EmptySet
<1>4. Cardinality(A) \in 1 .. Cardinality(S)
  BY <1>2, <1>3
<1> QED
  BY <1>4 DEF Rank, A

\* The n-th number of a finite set
Nth(n, S) == CHOOSE k \in S : Rank(k, S) = n

\* There is one for each n, and each number has a place.
LEMMA NthIsThere ==
  ASSUME NEW S \in SUBSET Nat, IsFiniteSet(S)
  PROVE  /\ Cardinality(S) \in Nat
         /\ \A n \in 1 .. Cardinality(S) : Nth(n, S) \in S /\ Rank(Nth(n, S), S) = n
         /\ \A k \in S : Rank(k, S) \in 1 .. Cardinality(S) /\ Nth(Rank(k, S), S) = k
<1> DEFINE T == 1 .. Cardinality(S)
           f == [i \in S |-> Rank(i, S)]
<1>2. Cardinality(S) \in Nat
  BY FS_CardinalityType
<1>3. IsFiniteSet(T) /\ Cardinality(T) = Cardinality(S)
  <2>1. IsFiniteSet(1 .. Cardinality(S))
        /\ Cardinality(1 .. Cardinality(S)) = IF 1 > Cardinality(S) THEN 0 ELSE Cardinality(S) - 1 + 1
    BY <1>2, FS_Interval
  <2> QED
    BY <1>2, <2>1
<1>4. f \in [S -> T]
  BY RanksAreCounted
<1>5. \A i, j \in S : Rank(i, S) = Rank(j, S) => i = j
  <2> SUFFICES ASSUME NEW i \in S, NEW j \in S, i # j PROVE Rank(i, S) # Rank(j, S)
    OBVIOUS
  <2>1. i \in Nat /\ j \in Nat
    OBVIOUS
  <2>2. i < j \/ j < i
    BY <2>1
  <2>3. Rank(i, S) \in 1 .. Cardinality(S) /\ Rank(j, S) \in 1 .. Cardinality(S)
    BY RanksAreCounted
  <2>4. Rank(i, S) < Rank(j, S) \/ Rank(j, S) < Rank(i, S)
    BY <2>2, RanksDiffer
  <2> QED
    BY <2>3, <2>4
<1>6. \A i, j \in S : f[i] = f[j] => i = j
  BY <1>5
<1> HIDE DEF f, T
<1>7. f \in Injection(S, T)
  BY <1>4, <1>6 DEF Injection, IsInjective
<1>8. f \in Surjection(S, T)
  BY <1>3, <1>7, FS_Injection
<1>9. \A n \in T : \E i \in S : f[i] = n
  BY <1>8 DEF Surjection
<1>10. \A n \in T : \E i \in S : Rank(i, S) = n
  BY <1>9 DEF f
<1>11. \A n \in T : Nth(n, S) \in S /\ Rank(Nth(n, S), S) = n
  BY <1>10 DEF Nth
<1>12. \A k \in S : Rank(k, S) \in T /\ Nth(Rank(k, S), S) = k
  <2> SUFFICES ASSUME NEW k \in S PROVE Rank(k, S) \in T /\ Nth(Rank(k, S), S) = k
    OBVIOUS
  <2>1. Rank(k, S) \in T
    BY RanksAreCounted DEF T
  <2> QED
    BY <1>5, <1>11, <2>1
<1> QED
  BY <1>2, <1>11, <1>12 DEF T

-----------------------------------------------------------------------------
\* The community modules' sequence of a set has each of its elements once.
LEMMA SetsAsSequences ==
  ASSUME NEW S, IsFiniteSet(S)
  PROVE  /\ SetToSeq(S) \in Seq(S)
         /\ IsInjective(SetToSeq(S))
         /\ \A x \in S : \E n \in DOMAIN SetToSeq(S) : SetToSeq(S)[n] = x
<1> DEFINE T == 1 .. Cardinality(S)
           f == SetToSeq(S)
<1>1. Cardinality(S) \in Nat /\ ExistsBijection(T, S)
  BY FS_CardinalityType
<1>2. IsFiniteSet(T) /\ Cardinality(T) = Cardinality(S)
  <2>1. IsFiniteSet(1 .. Cardinality(S))
        /\ Cardinality(1 .. Cardinality(S)) = IF 1 > Cardinality(S) THEN 0 ELSE Cardinality(S) - 1 + 1
    BY <1>1, FS_Interval
  <2> QED
    BY <1>1, <2>1
<1>3. \E g \in [T -> S] : IsInjective(g)
  BY <1>1 DEF ExistsBijection, Bijection, Injection
<1>4. f \in [T -> S] /\ IsInjective(f)
  BY <1>3 DEF SetToSeq
<1> HIDE DEF f
<1>5. f \in Seq(S)
  BY <1>1, <1>4
<1>6. f \in Injection(T, S)
  BY <1>4 DEF Injection
<1> HIDE DEF T
<1>7. f \in Surjection(T, S)
  BY <1>2, <1>6, FS_Injection
<1>8. \A x \in S : \E n \in T : f[n] = x
  BY <1>7 DEF Surjection
<1> QED
  BY <1>4, <1>5, <1>8 DEF f

\* There are finitely many stores.
LEMMA StoresAreFinite == IsFiniteSet(CartStores)
<1> DEFINE f == [i \in Items |-> StoreOf[i]]
<1>1. f \in Surjection(Items, CartStores)
  BY DEF Surjection, CartStores
<1> HIDE DEF f
<1> QED
  BY <1>1, CartAssumption, FS_Surjection

\* What a group is.
LEMMA GroupShape ==
  ASSUME NEW g \in Group
  PROVE  /\ g = [store |-> g.store, handoff |-> g.handoff, items |-> g.items]
         /\ g.store \in CartStores /\ g.handoff \in Requests
         /\ DOMAIN g.items \subseteq Items
         /\ g.items \in [DOMAIN g.items -> Requests]
<1>1. /\ g = [store |-> g.store, handoff |-> g.handoff, items |-> g.items]
      /\ g.store \in CartStores /\ g.handoff \in Requests
  BY DEF Group
<1>2. g.items \in Lines
  BY DEF Group
<1>3. PICK D \in SUBSET Items : g.items \in [D -> Requests]
  BY <1>2 DEF Lines
<1> QED
  BY <1>1, <1>3

\* ... and what makes one.
LEMMA GroupMade ==
  ASSUME NEW s \in CartStores, NEW h \in Requests, NEW D \in SUBSET Items, NEW f \in [D -> Requests]
  PROVE  [store |-> s, handoff |-> h, items |-> f] \in Group
<1>1. f \in Lines
  BY DEF Lines
<1> QED
  BY <1>1 DEF Group

-----------------------------------------------------------------------------
\* The first group of a store.
LEMMA FirstIs ==
  ASSUME NEW G \in Seq(Group), NEW s, HasGroup(G, s)
  PROVE  /\ First(G, s) \in DOMAIN G
         /\ G[First(G, s)].store = s
         /\ \A j \in 1 .. First(G, s) - 1 : G[j].store # s
<1> DEFINE S == {k \in DOMAIN G : G[k].store = s}
<1>1. S \in SUBSET Nat /\ S # {}
  BY DEF HasGroup
<1> HIDE DEF S
<1>2. PICK n \in S : \A m \in S : n <= m
  BY <1>1, LeastExists
<1>3. n \in DOMAIN G /\ G[n].store = s /\ n \in Nat
  BY <1>1 DEF S
<1>4. \A j \in 1 .. n - 1 : G[j].store # s
  <2> SUFFICES ASSUME NEW j \in 1 .. n - 1, G[j].store = s PROVE FALSE
    OBVIOUS
  <2>1. j \in DOMAIN G
    BY <1>3
  <2>2. n <= j
    BY <1>2, <2>1 DEF S
  <2> QED
    BY <1>3, <2>2
<1> QED
  BY <1>3, <1>4 DEF First

\* No other group is the first of a store.
LEMMA FirstIsOnly ==
  ASSUME NEW G \in Seq(Group), NEW s, NEW k \in DOMAIN G, G[k].store = s, \A j \in 1 .. k - 1 : G[j].store # s
  PROVE  First(G, s) = k
<1>1. /\ First(G, s) \in DOMAIN G
      /\ G[First(G, s)].store = s
      /\ \A j \in 1 .. First(G, s) - 1 : G[j].store # s
  BY FirstIs DEF HasGroup
<1>2. ~(First(G, s) < k) /\ ~(k < First(G, s))
  BY <1>1
<1> QED
  BY <1>1, <1>2

\* The first group with a line.
LEMMA HolderIs ==
  ASSUME NEW G \in Seq(Group), NEW i, i \in ItemsOf(G)
  PROVE  Holder(G, i) \in DOMAIN G /\ i \in DOMAIN G[Holder(G, i)].items
<1> DEFINE S == {k \in DOMAIN G : i \in DOMAIN G[k].items}
<1>1. S \in SUBSET Nat /\ S # {}
  BY DEF ItemsOf
<1> HIDE DEF S
<1>2. PICK n \in S : \A m \in S : n <= m
  BY <1>1, LeastExists
<1>3. n \in DOMAIN G /\ i \in DOMAIN G[n].items /\ n \in Nat
  BY <1>1 DEF S
<1>4. \A j \in 1 .. n - 1 : i \notin DOMAIN G[j].items
  <2> SUFFICES ASSUME NEW j \in 1 .. n - 1, i \in DOMAIN G[j].items PROVE FALSE
    OBVIOUS
  <2>1. j \in DOMAIN G
    BY <1>3
  <2>2. n <= j
    BY <1>2, <2>1 DEF S
  <2> QED
    BY <1>3, <2>2
<1> QED
  BY <1>3, <1>4 DEF Holder

-----------------------------------------------------------------------------
\* The groups that are appended: one for each store of the items that has none.
LEMMA NewGroupsAre ==
  ASSUME NEW groups, NEW items \in SUBSET Items, NEW r \in Requests
  PROVE  LET N == NewGroups(groups, items, r) IN
         /\ N \in Seq(Group)
         /\ \A k \in DOMAIN N :
              /\ \E i \in items : ~HasGroup(groups, StoreOf[i]) /\ N[k].store = StoreOf[i]
              /\ N[k] = [store |-> N[k].store, handoff |-> r, items |-> [i \in InStore(items, N[k].store) |-> r]]
         /\ \A i \in items : ~HasGroup(groups, StoreOf[i]) => \E k \in DOMAIN N : N[k].store = StoreOf[i]
         /\ \A j, k \in DOMAIN N : N[j].store = N[k].store => j = k
<1> USE CartAssumption
<1> DEFINE new(s) == [store |-> s, handoff |-> r, items |-> [i \in InStore(items, s) |-> r]]
           D == {StoreOf[i] : i \in {j \in items : ~HasGroup(groups, StoreOf[j])}}
           S == {new(s) : s \in D}
           N == SetToSeq(S)
           f == [s \in D |-> new(s)]
<1>1. D \in SUBSET CartStores
  BY DEF CartStores
<1>2. \A i \in items : ~HasGroup(groups, StoreOf[i]) => StoreOf[i] \in D
  OBVIOUS
<1>3. \A s \in D : \E i \in items : ~HasGroup(groups, StoreOf[i]) /\ s = StoreOf[i]
  OBVIOUS
<1>4. NewGroups(groups, items, r) = N
  BY DEF NewGroups
<1>5. f \in Surjection(D, S)
  BY DEF Surjection
<1>6. \A s \in D : new(s) \in Group
  <2> SUFFICES ASSUME NEW s \in D PROVE new(s) \in Group
    OBVIOUS
  <2>1. InStore(items, s) \in SUBSET Items
    BY DEF InStore
  <2>2. [i \in InStore(items, s) |-> r] \in [InStore(items, s) -> Requests]
    OBVIOUS
  <2> QED
    BY <1>1, <2>1, <2>2, GroupMade
<1>7. \A x \in S : x \in Group /\ x.store \in D /\ x = new(x.store)
  BY <1>6
<1>8. \A s \in D : new(s) \in S /\ new(s).store = s
  OBVIOUS
<1> HIDE DEF D, f, S
<1>9. IsFiniteSet(D)
  BY <1>1, StoresAreFinite, FS_Subset
<1>10. IsFiniteSet(S)
  BY <1>5, <1>9, FS_Surjection
<1>11. N \in Seq(S) /\ IsInjective(N) /\ \A x \in S : \E n \in DOMAIN N : N[n] = x
  BY <1>10, SetsAsSequences
<1> HIDE DEF N
<1>12. \A k \in DOMAIN N : N[k] \in S
  BY <1>11
<1>13. N \in Seq(Group)
  BY <1>7, <1>11
<1>14. \A k \in DOMAIN N : N[k].store \in D /\ N[k] = new(N[k].store)
  BY <1>7, <1>12
<1> HIDE DEF new
<1>15. \A i \in items : ~HasGroup(groups, StoreOf[i]) => \E k \in DOMAIN N : N[k].store = StoreOf[i]
  BY <1>2, <1>8, <1>11
<1>16. \A j, k \in DOMAIN N : N[j].store = N[k].store => j = k
  BY <1>11, <1>14 DEF IsInjective
<1> QED
  BY <1>3, <1>4, <1>13, <1>14, <1>15, <1>16 DEF new

-----------------------------------------------------------------------------
\* The array H has every group of G, and then others; the request r chose these lines,
\* and the handoffs that are new, and left the other lines alone.
Edits(G, H, items, r) ==
  /\ H \in Seq(Group) /\ Len(G) <= Len(H)
  /\ \A k \in DOMAIN G :
       /\ H[k].store = G[k].store
       /\ H[k].handoff \in {r, G[k].handoff}
       /\ DOMAIN G[k].items \subseteq DOMAIN H[k].items
       /\ DOMAIN H[k].items \subseteq DOMAIN G[k].items \cup items
       /\ \A i \in DOMAIN G[k].items \ items : H[k].items[i] = G[k].items[i]
  /\ \A k \in DOMAIN H \ DOMAIN G : H[k].handoff = r /\ DOMAIN H[k].items \subseteq items
  /\ \A i \in items : \E k \in DOMAIN H : i \in DOMAIN H[k].items /\ H[k].items[i] = r

\* A store has one group.
Apart(G) == \A j, k \in DOMAIN G : G[j].store = G[k].store => j = k

\* Appending to an array.
LEMMA Appended ==
  ASSUME NEW S, NEW G \in Seq(S), NEW N \in Seq(S)
  PROVE  /\ G \o N \in Seq(S) /\ Len(G) <= Len(G \o N)
         /\ \A k \in DOMAIN G : k \in DOMAIN (G \o N) /\ (G \o N)[k] = G[k]
         /\ \A k \in DOMAIN N : Len(G) + k \in DOMAIN (G \o N) /\ (G \o N)[Len(G) + k] = N[k]
         /\ \A k \in DOMAIN (G \o N) \ DOMAIN G :
              k - Len(G) \in DOMAIN N /\ (G \o N)[k] = N[k - Len(G)]
  OBVIOUS

\* ... groups of stores of which none has one.
LEMMA AppendedApart ==
  ASSUME NEW G \in Seq(Group), NEW N \in Seq(Group), Apart(G), Apart(N),
         \A j \in DOMAIN G, k \in DOMAIN N : G[j].store # N[k].store
  PROVE  Apart(G \o N)
<1> DEFINE H == G \o N
<1>0. Len(G) \in Nat /\ DOMAIN G \subseteq Nat /\ DOMAIN H \subseteq Nat
  OBVIOUS
<1>1. /\ \A k \in DOMAIN G : H[k] = G[k]
      /\ \A k \in DOMAIN H \ DOMAIN G : k - Len(G) \in DOMAIN N /\ H[k] = N[k - Len(G)]
  BY Appended
<1> HIDE DEF H
<1>2. ASSUME NEW j \in DOMAIN H, NEW k \in DOMAIN H, H[j].store = H[k].store PROVE j = k
  <2>1. CASE j \in DOMAIN G /\ k \in DOMAIN G
    BY <1>1, <1>2, <2>1 DEF Apart
  <2>2. CASE j \in DOMAIN G /\ k \notin DOMAIN G
    BY <1>1, <1>2, <2>2
  <2>3. CASE j \notin DOMAIN G /\ k \in DOMAIN G
    BY <1>1, <1>2, <2>3
  <2>4. CASE j \notin DOMAIN G /\ k \notin DOMAIN G
    <3>1. j - Len(G) = k - Len(G)
      BY <1>1, <1>2, <2>4 DEF Apart
    <3> QED
      BY <1>0, <3>1
  <2> QED
    BY <2>1, <2>2, <2>3, <2>4
<1> QED
  BY <1>2 DEF Apart, H

\* ... none of which has a group: the array is only pushed to.
LEMMA PushEdits ==
  ASSUME NEW G \in Seq(Group), NEW L \in Seq(Group), NEW items \in SUBSET Items, NEW r \in Requests,
         OnlyAppends(L, items)
  PROVE  /\ Edits(G, G \o NewGroups(L, items, r), items, r)
         /\ L = G /\ Apart(G) => Apart(G \o NewGroups(L, items, r))
<1> DEFINE N == NewGroups(L, items, r)
           H == G \o N
<1>1. /\ N \in Seq(Group)
      /\ \A k \in DOMAIN N :
           /\ \E i \in items : ~HasGroup(L, StoreOf[i]) /\ N[k].store = StoreOf[i]
           /\ N[k] = [store |-> N[k].store, handoff |-> r, items |-> [i \in InStore(items, N[k].store) |-> r]]
      /\ \A i \in items : ~HasGroup(L, StoreOf[i]) => \E k \in DOMAIN N : N[k].store = StoreOf[i]
      /\ \A j, k \in DOMAIN N : N[j].store = N[k].store => j = k
  BY NewGroupsAre
<1> HIDE DEF N
<1>2. /\ H \in Seq(Group) /\ Len(G) <= Len(H)
      /\ \A k \in DOMAIN G : k \in DOMAIN H /\ H[k] = G[k]
      /\ \A k \in DOMAIN N : Len(G) + k \in DOMAIN H /\ H[Len(G) + k] = N[k]
      /\ \A k \in DOMAIN H \ DOMAIN G : k - Len(G) \in DOMAIN N /\ H[k] = N[k - Len(G)]
  BY <1>1, Appended
<1> HIDE DEF H
<1>3. \A k \in DOMAIN N : N[k].handoff = r /\ DOMAIN N[k].items \subseteq items
  <2>1. \A k \in DOMAIN N : N[k].handoff = r /\ DOMAIN N[k].items = InStore(items, N[k].store)
    BY <1>1
  <2> QED
    BY <2>1 DEF InStore
<1>4. ASSUME NEW i \in items PROVE \E k \in DOMAIN H : i \in DOMAIN H[k].items /\ H[k].items[i] = r
  <2>1. ~HasGroup(L, StoreOf[i])
    BY DEF OnlyAppends
  <2>2. PICK k \in DOMAIN N : N[k].store = StoreOf[i]
    BY <1>1, <2>1
  <2>3. N[k].items = [j \in InStore(items, N[k].store) |-> r]
    BY <1>1
  <2>4. i \in DOMAIN N[k].items /\ N[k].items[i] = r
    BY <2>2, <2>3 DEF InStore
  <2> QED
    BY <1>2, <2>4
<1>5. Edits(G, H, items, r)
  BY <1>2, <1>3, <1>4 DEF Edits
<1>6. ASSUME L = G, Apart(G) PROVE Apart(H)
  <2>1. Apart(N)
    BY <1>1 DEF Apart
  <2>2. \A j \in DOMAIN G, k \in DOMAIN N : G[j].store # N[k].store
    BY <1>1, <1>6 DEF HasGroup
  <2> QED
    BY <1>1, <1>6, <2>1, <2>2, AppendedApart DEF H
<1> QED
  BY <1>5, <1>6 DEF H, N

\* upsertLine, for each line.
LEMMA UpsertEdits ==
  ASSUME NEW G \in Seq(Group), NEW items \in SUBSET Items, NEW r \in Requests
  PROVE  /\ Edits(G, Upsert(G, items, r), items, r)
         /\ Apart(G) => Apart(Upsert(G, items, r))
<1> DEFINE new(k) == InStore(items, G[k].store)
           chosen(k) == [i \in DOMAIN G[k].items \cup new(k) |-> IF i \in new(k) THEN r ELSE G[k].items[i]]
           group(k) == IF new(k) # {} /\ First(G, G[k].store) = k
                       THEN [G[k] EXCEPT !.handoff = r, !.items = chosen(k)]
                       ELSE G[k]
           E == [k \in DOMAIN G |-> group(k)]
           N == NewGroups(G, items, r)
           H == E \o N
<1>0. Upsert(G, items, r) = H
  BY DEF Upsert
<1>1. /\ N \in Seq(Group)
      /\ \A k \in DOMAIN N :
           /\ \E i \in items : ~HasGroup(G, StoreOf[i]) /\ N[k].store = StoreOf[i]
           /\ N[k] = [store |-> N[k].store, handoff |-> r, items |-> [i \in InStore(items, N[k].store) |-> r]]
      /\ \A i \in items : ~HasGroup(G, StoreOf[i]) => \E k \in DOMAIN N : N[k].store = StoreOf[i]
      /\ \A j, k \in DOMAIN N : N[j].store = N[k].store => j = k
  BY NewGroupsAre
<1> HIDE DEF N
<1>2. ASSUME NEW k \in DOMAIN G
      PROVE  /\ group(k) \in Group
             /\ group(k).store = G[k].store /\ group(k).handoff \in {r, G[k].handoff}
             /\ DOMAIN G[k].items \subseteq DOMAIN group(k).items
             /\ DOMAIN group(k).items \subseteq DOMAIN G[k].items \cup items
             /\ \A i \in DOMAIN G[k].items \ items : group(k).items[i] = G[k].items[i]
             /\ First(G, G[k].store) = k => \A i \in new(k) : i \in DOMAIN group(k).items /\ group(k).items[i] = r
  <2>1. /\ G[k] = [store |-> G[k].store, handoff |-> G[k].handoff, items |-> G[k].items]
        /\ G[k].store \in CartStores /\ G[k].handoff \in Requests
        /\ DOMAIN G[k].items \subseteq Items
        /\ G[k].items \in [DOMAIN G[k].items -> Requests]
    <3>1. G[k] \in Group
      OBVIOUS
    <3> QED
      BY <3>1, GroupShape
  <2>2. new(k) \subseteq items
    BY DEF InStore
  <2>3. CASE new(k) # {} /\ First(G, G[k].store) = k
    <3> DEFINE c == chosen(k)
               D == DOMAIN G[k].items \cup new(k)
    <3>1. D \in SUBSET Items /\ c \in [D -> Requests]
      BY <2>1, <2>2
    <3>2. /\ \A i \in DOMAIN G[k].items \ items : c[i] = G[k].items[i]
          /\ \A i \in new(k) : c[i] = r
      BY <2>2
    <3> HIDE DEF c
    <3>3. group(k) = [store |-> G[k].store, handoff |-> r, items |-> c]
      BY <2>1, <2>3 DEF c
    <3>4. group(k) \in Group
      BY <2>1, <3>1, <3>3, GroupMade
    <3> HIDE DEF group, new
    <3> QED
      BY <2>2, <3>1, <3>2, <3>3, <3>4
  <2>4. CASE ~(new(k) # {} /\ First(G, G[k].store) = k)
    BY <2>4
  <2> QED
    BY <2>3, <2>4
<1> HIDE DEF group
<1>3. E \in Seq(Group) /\ Len(E) = Len(G) /\ DOMAIN E = DOMAIN G /\ \A k \in DOMAIN G : E[k] = group(k)
  <2>1. E \in [DOMAIN G -> Group] /\ Len(G) \in Nat /\ DOMAIN G = 1 .. Len(G)
    BY <1>2
  <2> QED
    BY <2>1
<1> HIDE DEF E
<1>4. /\ H \in Seq(Group) /\ Len(G) <= Len(H)
      /\ \A k \in DOMAIN G : k \in DOMAIN H /\ H[k] = group(k)
      /\ \A k \in DOMAIN N : Len(E) + k \in DOMAIN H /\ H[Len(E) + k] = N[k]
      /\ \A k \in DOMAIN H \ DOMAIN G : k - Len(E) \in DOMAIN N /\ H[k] = N[k - Len(E)]
  BY <1>1, <1>3, Appended
<1> HIDE DEF H
<1>5. \A k \in DOMAIN N : N[k].handoff = r /\ DOMAIN N[k].items \subseteq items
  <2>1. \A k \in DOMAIN N : N[k].handoff = r /\ DOMAIN N[k].items = InStore(items, N[k].store)
    BY <1>1
  <2> QED
    BY <2>1 DEF InStore
<1>6. ASSUME NEW i \in items PROVE \E k \in DOMAIN H : i \in DOMAIN H[k].items /\ H[k].items[i] = r
  <2>1. CASE HasGroup(G, StoreOf[i])
    <3> DEFINE k == First(G, StoreOf[i])
    <3>1. k \in DOMAIN G /\ G[k].store = StoreOf[i]
      BY <2>1, FirstIs
    <3>2. First(G, G[k].store) = k /\ i \in new(k)
      BY <3>1 DEF InStore
    <3> HIDE DEF k
    <3> QED
      BY <1>2, <1>4, <3>1, <3>2
  <2>2. CASE ~HasGroup(G, StoreOf[i])
    <3>1. PICK k \in DOMAIN N : N[k].store = StoreOf[i]
      BY <1>1, <2>2
    <3>2. N[k].items = [j \in InStore(items, N[k].store) |-> r]
      BY <1>1
    <3>3. i \in DOMAIN N[k].items /\ N[k].items[i] = r
      BY <3>1, <3>2 DEF InStore
    <3> QED
      BY <1>4, <3>3
  <2> QED
    BY <2>1, <2>2
<1>7. Edits(G, H, items, r)
  BY <1>2, <1>4, <1>5, <1>6 DEF Edits
<1>8. ASSUME Apart(G) PROVE Apart(H)
  <2>1. Apart(N)
    BY <1>1 DEF Apart
  <2>2. Apart(E)
    BY <1>2, <1>3, <1>8 DEF Apart
  <2>3. \A j \in DOMAIN E, k \in DOMAIN N : E[j].store # N[k].store
    <3>1. \A j \in DOMAIN G : E[j].store = G[j].store
      BY <1>2, <1>3
    <3> QED
      BY <1>1, <1>3, <3>1 DEF HasGroup
  <2> QED
    BY <1>1, <1>3, <2>1, <2>2, <2>3, AppendedApart DEF H
<1> QED
  BY <1>0, <1>7, <1>8

\* update: the handoff of a store.
LEMMA HandoffEdits ==
  ASSUME NEW G \in Seq(Group), NEW s, HasGroup(G, s), NEW r \in Requests
  PROVE  /\ Edits(G, [G EXCEPT ![First(G, s)].handoff = r], {}, r)
         /\ Apart(G) => Apart([G EXCEPT ![First(G, s)].handoff = r])
<1> DEFINE n == First(G, s)
           H == [G EXCEPT ![n].handoff = r]
<1>1. n \in DOMAIN G
  BY FirstIs
<1> HIDE DEF n
<1> DEFINE g == [G[n] EXCEPT !.handoff = r]
<1>2. /\ G[n] = [store |-> G[n].store, handoff |-> G[n].handoff, items |-> G[n].items]
      /\ G[n].store \in CartStores
      /\ DOMAIN G[n].items \subseteq Items
      /\ G[n].items \in [DOMAIN G[n].items -> Requests]
  <2>1. G[n] \in Group
    BY <1>1
  <2> QED
    BY <2>1, GroupShape
<1>3. g = [store |-> G[n].store, handoff |-> r, items |-> G[n].items]
  BY <1>2
<1>4. H = [G EXCEPT ![n] = g]
  OBVIOUS
<1> HIDE DEF g, H
<1>5. g \in Group
  BY <1>2, <1>3, GroupMade
<1>6. H \in Seq(Group) /\ Len(H) = Len(G) /\ DOMAIN H = DOMAIN G /\ H[n] = g /\ \A k \in DOMAIN G : k # n => H[k] = G[k]
  BY <1>1, <1>4, <1>5
<1>7. \A k \in DOMAIN G : H[k].store = G[k].store /\ H[k].handoff \in {r, G[k].handoff} /\ H[k].items = G[k].items
  BY <1>3, <1>6
<1>8. Edits(G, H, {}, r)
  BY <1>6, <1>7 DEF Edits
<1>9. Apart(G) => Apart(H)
  BY <1>6, <1>7 DEF Apart
<1> QED
  BY <1>8, <1>9 DEF H, n

\* updateAccessories: the accessories of a line.
LEMMA AccessoriesEdits ==
  ASSUME NEW G \in Seq(Group), NEW i \in Items, i \in ItemsOf(G), NEW r \in Requests
  PROVE  /\ Edits(G, [G EXCEPT ![Holder(G, i)].items[i] = r], {i}, r)
         /\ Apart(G) => Apart([G EXCEPT ![Holder(G, i)].items[i] = r])
<1> DEFINE n == Holder(G, i)
           H == [G EXCEPT ![n].items[i] = r]
<1>1. n \in DOMAIN G /\ i \in DOMAIN G[n].items
  BY HolderIs
<1> HIDE DEF n
<1> DEFINE c == [G[n].items EXCEPT ![i] = r]
           g == [G[n] EXCEPT !.items = c]
<1>2. /\ G[n] = [store |-> G[n].store, handoff |-> G[n].handoff, items |-> G[n].items]
      /\ G[n].store \in CartStores /\ G[n].handoff \in Requests
      /\ DOMAIN G[n].items \subseteq Items
      /\ G[n].items \in [DOMAIN G[n].items -> Requests]
  <2>1. G[n] \in Group
    BY <1>1
  <2> QED
    BY <2>1, GroupShape
<1>3. c \in [DOMAIN G[n].items -> Requests] /\ c[i] = r /\ \A j \in DOMAIN G[n].items : j # i => c[j] = G[n].items[j]
  BY <1>1, <1>2
<1>4. H = [G EXCEPT ![n] = g]
  OBVIOUS
<1> HIDE DEF c, H
<1>5. g = [store |-> G[n].store, handoff |-> G[n].handoff, items |-> c]
  BY <1>2
<1> HIDE DEF g
<1>6. g \in Group
  BY <1>2, <1>3, <1>5, GroupMade
<1>7. H \in Seq(Group) /\ Len(H) = Len(G) /\ DOMAIN H = DOMAIN G /\ H[n] = g /\ \A k \in DOMAIN G : k # n => H[k] = G[k]
  BY <1>1, <1>4, <1>6
<1>8. ASSUME NEW k \in DOMAIN G
      PROVE  /\ H[k].store = G[k].store /\ H[k].handoff = G[k].handoff /\ DOMAIN H[k].items = DOMAIN G[k].items
             /\ \A j \in DOMAIN G[k].items \ {i} : H[k].items[j] = G[k].items[j]
  <2>1. CASE k = n
    <3>1. H[n].store = G[n].store /\ H[n].handoff = G[n].handoff /\ H[n].items = c
      BY <1>5, <1>7
    <3> QED
      BY <1>3, <2>1, <3>1
  <2>2. CASE k # n
    BY <1>7, <2>2
  <2> QED
    BY <2>1, <2>2
<1>9. H[n].items[i] = r /\ i \in DOMAIN H[n].items
  BY <1>1, <1>3, <1>5, <1>7
<1>10. Edits(G, H, {i}, r)
  BY <1>1, <1>7, <1>8, <1>9 DEF Edits
<1>11. Apart(G) => Apart(H)
  BY <1>7, <1>8 DEF Apart
<1> QED
  BY <1>10, <1>11 DEF H, n

-----------------------------------------------------------------------------
\* remove: the groups that keep a line, each with the lines that it keeps.
LEMMA WithoutIs ==
  ASSUME NEW G \in Seq(Group), NEW items
  PROVE  LET W == Without(G, items) IN
         /\ W \in Seq(Group)
         /\ \A n \in DOMAIN W : \E k \in DOMAIN G : DOMAIN W[n].items \subseteq DOMAIN G[k].items \ items
         /\ \A k \in DOMAIN G : \A i \in DOMAIN G[k].items \ items :
              \E n \in DOMAIN W : i \in DOMAIN W[n].items /\ W[n].items[i] = G[k].items[i]
         /\ Apart(G) => Apart(W)
<1> DEFINE kept == {k \in DOMAIN G : DOMAIN G[k].items \ items # {}}
           At(n) == CHOOSE k \in kept : Cardinality({j \in kept : j <= k}) = n
           rest(k) == [G[k] EXCEPT !.items = Restrict(@, DOMAIN @ \ items)]
           W == [n \in 1 .. Cardinality(kept) |-> rest(At(n))]
<1>1. Without(G, items) = W
  BY DEF Without
<1>2. \A n : At(n) = Nth(n, kept)
  BY DEF Nth, Rank
<1>3. kept \in SUBSET Nat /\ kept \in SUBSET DOMAIN G /\ IsFiniteSet(kept)
  <2>1. DOMAIN G = 1 .. Len(G) /\ Len(G) \in Nat
    OBVIOUS
  <2>2. IsFiniteSet(DOMAIN G)
    BY <2>1, FS_Interval
  <2>3. kept \in SUBSET DOMAIN G
    OBVIOUS
  <2> HIDE DEF kept
  <2> QED
    BY <2>1, <2>2, <2>3, FS_Subset
<1>4. \A k \in DOMAIN G : k \in kept <=> DOMAIN G[k].items \ items # {}
  OBVIOUS
<1> HIDE DEF kept, At
<1>5. /\ Cardinality(kept) \in Nat
      /\ \A n \in 1 .. Cardinality(kept) : At(n) \in kept /\ Rank(At(n), kept) = n
      /\ \A k \in kept : Rank(k, kept) \in 1 .. Cardinality(kept) /\ At(Rank(k, kept)) = k
  BY <1>2, <1>3, NthIsThere
<1>6. ASSUME NEW k \in kept
      PROVE  /\ rest(k) \in Group /\ rest(k).store = G[k].store
             /\ DOMAIN rest(k).items = DOMAIN G[k].items \ items
             /\ \A i \in DOMAIN G[k].items \ items : rest(k).items[i] = G[k].items[i]
  <2> DEFINE D == DOMAIN G[k].items \ items
             c == Restrict(G[k].items, D)
  <2>1. /\ G[k] = [store |-> G[k].store, handoff |-> G[k].handoff, items |-> G[k].items]
        /\ G[k].store \in CartStores /\ G[k].handoff \in Requests
        /\ DOMAIN G[k].items \subseteq Items
        /\ G[k].items \in [DOMAIN G[k].items -> Requests]
    <3>1. G[k] \in Group
      BY <1>3
    <3> QED
      BY <3>1, GroupShape
  <2>2. D \in SUBSET Items /\ c \in [D -> Requests] /\ \A i \in D : c[i] = G[k].items[i]
    BY <2>1 DEF Restrict
  <2>3. rest(k) = [G[k] EXCEPT !.items = c]
    OBVIOUS
  <2> HIDE DEF c
  <2>4. rest(k) = [store |-> G[k].store, handoff |-> G[k].handoff, items |-> c]
    BY <2>1, <2>3
  <2> HIDE DEF rest
  <2>5. rest(k) \in Group
    BY <2>1, <2>2, <2>4, GroupMade
  <2> QED
    BY <2>2, <2>4, <2>5
<1> HIDE DEF rest
<1>7. W \in Seq(Group) /\ DOMAIN W = 1 .. Cardinality(kept) /\ \A n \in DOMAIN W : W[n] = rest(At(n))
  BY <1>5, <1>6
<1> HIDE DEF W
<1>8. ASSUME NEW n \in DOMAIN W PROVE \E k \in DOMAIN G : DOMAIN W[n].items \subseteq DOMAIN G[k].items \ items
  <2>1. At(n) \in DOMAIN G /\ DOMAIN W[n].items = DOMAIN G[At(n)].items \ items
    BY <1>3, <1>5, <1>6, <1>7
  <2> QED
    BY <2>1
<1>9. ASSUME NEW k \in DOMAIN G, NEW i \in DOMAIN G[k].items \ items
      PROVE  \E n \in DOMAIN W : i \in DOMAIN W[n].items /\ W[n].items[i] = G[k].items[i]
  <2>1. k \in kept
    BY <1>4
  <2>2. Rank(k, kept) \in DOMAIN W /\ W[Rank(k, kept)] = rest(k)
    BY <1>5, <1>7, <2>1
  <2> QED
    BY <1>6, <2>1, <2>2
<1>10. ASSUME Apart(G) PROVE Apart(W)
  <2> SUFFICES ASSUME NEW j \in DOMAIN W, NEW k \in DOMAIN W, W[j].store = W[k].store PROVE j = k
    BY DEF Apart
  <2>1. At(j) \in DOMAIN G /\ At(k) \in DOMAIN G /\ G[At(j)].store = G[At(k)].store
    BY <1>3, <1>5, <1>6, <1>7
  <2>2. At(j) = At(k)
    BY <1>10, <2>1 DEF Apart
  <2> QED
    BY <1>5, <1>7, <2>2
<1> QED
  BY <1>1, <1>7, <1>8, <1>9, <1>10

\* An edit keeps the handoff of a store, or makes it that of the request.
LEMMA EditsHandoff ==
  ASSUME NEW G \in Seq(Group), NEW H, NEW items, NEW r, Edits(G, H, items, r), NEW s
  PROVE  Handoff(H, s) \in {r, Handoff(G, s)}
<1>0. H \in Seq(Group) /\ Len(G) \in Nat /\ Len(H) \in Nat /\ DOMAIN G = 1 .. Len(G) /\ DOMAIN H = 1 .. Len(H)
  BY DEF Edits
<1>1. /\ Len(G) <= Len(H)
      /\ \A k \in DOMAIN G : k \in DOMAIN H /\ H[k].store = G[k].store /\ H[k].handoff \in {r, G[k].handoff}
      /\ \A k \in DOMAIN H \ DOMAIN G : H[k].handoff = r
  BY <1>0 DEF Edits
<1>2. CASE HasGroup(G, s)
  <2> DEFINE n == First(G, s)
  <2>1. n \in DOMAIN G /\ G[n].store = s /\ \A j \in 1 .. n - 1 : G[j].store # s
    BY <1>2, FirstIs
  <2> HIDE DEF n
  <2>2. n \in DOMAIN H /\ H[n].store = s /\ \A j \in 1 .. n - 1 : H[j].store # s
    <3>1. \A j \in 1 .. n - 1 : j \in DOMAIN G
      BY <1>0, <2>1
    <3> QED
      BY <1>1, <2>1, <3>1
  <2>3. First(H, s) = n
    BY <1>0, <2>2, FirstIsOnly
  <2>4. HasGroup(H, s)
    BY <2>2 DEF HasGroup
  <2> QED
    BY <1>1, <1>2, <2>1, <2>3, <2>4 DEF Handoff, n
<1>3. CASE ~HasGroup(G, s) /\ HasGroup(H, s)
  <2>1. First(H, s) \in DOMAIN H /\ H[First(H, s)].store = s
    BY <1>0, <1>3, FirstIs
  <2>2. First(H, s) \notin DOMAIN G
    BY <1>1, <1>3, <2>1 DEF HasGroup
  <2> QED
    BY <1>1, <1>3, <2>1, <2>2 DEF Handoff
<1>4. CASE ~HasGroup(G, s) /\ ~HasGroup(H, s)
  BY <1>4 DEF Handoff
<1> QED
  BY <1>2, <1>3, <1>4

\* An edit gives its lines what the request chose, and leaves the others what they had.
LEMMA EditsLines ==
  ASSUME NEW G \in Seq(Group), NEW H, NEW items, NEW r, Edits(G, H, items, r), NEW i
  PROVE  /\ i \in items => \E k \in DOMAIN H : i \in DOMAIN H[k].items /\ H[k].items[i] = r
         /\ i \notin items /\ i \notin ItemsOf(G) => i \notin ItemsOf(H)
         /\ i \notin items => \A w : (\E k \in DOMAIN G : i \in DOMAIN G[k].items /\ G[k].items[i] = w)
                                      => \E k \in DOMAIN H : i \in DOMAIN H[k].items /\ H[k].items[i] = w
<1>0. H \in Seq(Group) /\ Len(G) \in Nat /\ Len(H) \in Nat /\ DOMAIN G = 1 .. Len(G) /\ DOMAIN H = 1 .. Len(H)
  BY DEF Edits
<1>1. /\ \A k \in DOMAIN G :
           /\ k \in DOMAIN H
           /\ DOMAIN G[k].items \subseteq DOMAIN H[k].items
           /\ DOMAIN H[k].items \subseteq DOMAIN G[k].items \cup items
           /\ \A j \in DOMAIN G[k].items \ items : H[k].items[j] = G[k].items[j]
      /\ \A k \in DOMAIN H \ DOMAIN G : DOMAIN H[k].items \subseteq items
  BY <1>0 DEF Edits
<1>2. i \in items => \E k \in DOMAIN H : i \in DOMAIN H[k].items /\ H[k].items[i] = r
  BY DEF Edits
<1>3. ASSUME i \notin items, i \notin ItemsOf(G) PROVE i \notin ItemsOf(H)
  <2> SUFFICES ASSUME NEW k \in DOMAIN H, i \in DOMAIN H[k].items PROVE FALSE
    BY DEF ItemsOf
  <2>1. k \in DOMAIN G /\ i \in DOMAIN G[k].items
    BY <1>1, <1>3
  <2> QED
    BY <1>3, <2>1 DEF ItemsOf
<1>4. ASSUME i \notin items, NEW w, NEW k \in DOMAIN G, i \in DOMAIN G[k].items, G[k].items[i] = w
      PROVE  k \in DOMAIN H /\ i \in DOMAIN H[k].items /\ H[k].items[i] = w
  BY <1>1, <1>4
<1> QED
  BY <1>2, <1>3, <1>4

-----------------------------------------------------------------------------
Working == {"save_add", "save_handoff", "save_accessories", "write_removal"}

\* The variables have these types, and finitely many requests are under way.
CartTypes ==
  /\ cart \in CartDocument \cup {None}
  /\ wanted \in [Items -> Requests \cup {None}]
  /\ pc \in [Requests -> Working \cup {"idle", "done"}]
  /\ doc \in [Requests -> CartDocument \cup {None}]
  /\ DOMAIN target = Requests
  /\ IsFiniteSet(Busy)

\* What a request is about was in the cart that it loaded, and carts are never deleted.
Targets ==
  \A r \in Busy :
    /\ pc[r] \in {"save_add", "write_removal"} => target[r] \in SUBSET Items
    /\ pc[r] = "save_handoff" => HasGroup(doc[r].groups, target[r])
    /\ pc[r] = "save_accessories" => \E i \in Items : target[r] = {i} /\ i \in ItemsOf(doc[r].groups)
    /\ pc[r] # "save_add" => doc[r] # None
    /\ doc[r] # None => cart # None

\* Without overlap, the only request has loaded the cart as it is.
Alone ==
  "overlap" \notin faults =>
    /\ \A q, r \in Busy : q = r
    /\ \A r \in Busy : doc[r] = cart

\* Unless a removal overlaps, a loaded cart of the current version is the current cart.
Versioned ==
  LoneRemovals => \A r \in Busy :
    /\ doc[r] # None => doc[r].v <= cart.v /\ (doc[r].v = cart.v => doc[r] = cart)
    /\ pc[r] = "write_removal" => doc[r] = cart /\ \A q \in Busy : q = r

CartInv == CartTypes /\ Targets /\ Alone /\ Versioned /\ OneLinePerItem /\ CartIsWhatWasAsked

\* The array of the cart.
LEMMA GroupsAre == ASSUME CartTypes PROVE Groups \in Seq(Group)
  BY DEF CartTypes, Groups, CartDocument

\* A choice that was made is one.
LEMMA RequestsAreNotNone == ASSUME NEW r \in Requests PROVE r # None
  BY CartAssumption

\* A request that ends is no longer busy.
LEMMA Ends ==
  ASSUME CartTypes, NEW r \in Busy, Goto(r, "done")
  PROVE  /\ Busy' = Busy \ {r} /\ IsFiniteSet(Busy')
         /\ \A q \in Busy' : pc'[q] = pc[q]
         /\ pc' \in [Requests -> Working \cup {"idle", "done"}]
<1>1. pc \in [Requests -> Working \cup {"idle", "done"}] /\ r \in Requests /\ pc' = [pc EXCEPT ![r] = "done"]
  BY DEF CartTypes, Goto, Busy
<1>2. Busy' = Busy \ {r}
  BY <1>1 DEF Busy
<1>3. IsFiniteSet(Busy \ {r})
  BY FS_RemoveElement DEF CartTypes
<1>4. \A q \in Busy' : pc'[q] = pc[q]
  BY <1>1, <1>2 DEF Busy
<1>5. pc' \in [Requests -> Working \cup {"idle", "done"}]
  BY <1>1
<1> QED
  BY <1>2, <1>3, <1>4, <1>5

-----------------------------------------------------------------------------
\* A request loads the cart.
LEMMA BeginStep ==
  ASSUME CartInv, NEW r \in Requests, NEW about, NEW label \in Working, Begin(r, about, label),
         label \in {"save_add", "write_removal"} => about \in SUBSET Items,
         label = "save_handoff" => HasGroup(cart.groups, about),
         label = "save_accessories" => \E i \in Items : about = {i} /\ i \in ItemsOf(cart.groups),
         label # "save_add" => cart # None,
         label = "write_removal" /\ LoneRemovals => Busy = {}
  PROVE  CartInv'
<1>1. /\ pc[r] = "idle" /\ pc' = [pc EXCEPT ![r] = label] /\ doc' = [doc EXCEPT ![r] = cart]
      /\ target' = [target EXCEPT ![r] = about] /\ UNCHANGED <<cart, wanted, faults>>
      /\ LoneRemovals => \A q \in Busy : pc[q] # "write_removal"
      /\ Cardinality(Busy) < IF "overlap" \in faults THEN 3 ELSE 1
  BY DEF Begin, Idle, Goto
<1>2. CartTypes
  BY DEF CartInv
<1>3. Busy' = Busy \cup {r} /\ r \notin Busy /\ Busy \subseteq Requests
  BY <1>1, <1>2 DEF Busy, CartTypes, Working
<1>4. /\ pc'[r] = label /\ doc'[r] = cart /\ target'[r] = about
      /\ \A q \in Busy : pc'[q] = pc[q] /\ doc'[q] = doc[q] /\ target'[q] = target[q]
  BY <1>1, <1>2, <1>3 DEF CartTypes
<1>5. CartTypes'
  <2>1. IsFiniteSet(Busy \cup {r})
    BY <1>2, FS_AddElement DEF CartTypes
  <2>2. IsFiniteSet(Busy')
    BY <1>3, <2>1
  <2>3. /\ cart' \in CartDocument \cup {None}
        /\ wanted' \in [Items -> Requests \cup {None}]
        /\ pc' \in [Requests -> Working \cup {"idle", "done"}]
        /\ doc' \in [Requests -> CartDocument \cup {None}]
        /\ DOMAIN target' = Requests
    BY <1>1, <1>2 DEF CartTypes
  <2> QED
    BY <2>2, <2>3 DEF CartTypes
<1>6. Targets'
  <2> SUFFICES ASSUME NEW q \in Busy'
      PROVE  /\ pc'[q] \in {"save_add", "write_removal"} => target'[q] \in SUBSET Items
             /\ pc'[q] = "save_handoff" => HasGroup(doc'[q].groups, target'[q])
             /\ pc'[q] = "save_accessories" => \E i \in Items : target'[q] = {i} /\ i \in ItemsOf(doc'[q].groups)
             /\ pc'[q] # "save_add" => doc'[q] # None
             /\ doc'[q] # None => cart' # None
    BY DEF Targets
  <2>1. CASE q = r
    BY <1>1, <1>4, <2>1
  <2>2. CASE q # r
    BY <1>1, <1>3, <1>4, <2>2 DEF CartInv, Targets
  <2> QED
    BY <2>1, <2>2
<1>7. Alone'
  <2> SUFFICES ASSUME "overlap" \notin faults PROVE (\A q, p \in Busy' : q = p) /\ \A q \in Busy' : doc'[q] = cart'
    BY <1>1 DEF Alone
  <2>1. Busy = {}
    <3>1. Cardinality(Busy) \in Nat /\ Cardinality(Busy) < 1
      BY <1>1, <1>2, FS_CardinalityType DEF CartTypes
    <3>2. Cardinality(Busy) = 0
      BY <3>1
    <3> QED
      BY <1>2, <3>2, FS_EmptySet DEF CartTypes
  <2> QED
    BY <1>1, <1>3, <1>4, <2>1
<1>8. Versioned'
  <2> SUFFICES ASSUME LoneRemovals, NEW q \in Busy'
      PROVE  /\ doc'[q] # None => doc'[q].v <= cart'.v /\ (doc'[q].v = cart'.v => doc'[q] = cart')
             /\ pc'[q] = "write_removal" => doc'[q] = cart' /\ \A p \in Busy' : p = q
    BY <1>1 DEF Versioned, LoneRemovals
  <2>1. CASE q = r
    <3>1. doc'[q] = cart' /\ (pc'[q] = "write_removal" => Busy = {})
      BY <1>1, <1>4, <2>1
    <3>2. cart' # None => cart'.v <= cart'.v
      BY <1>5 DEF CartTypes, CartDocument
    <3> QED
      BY <1>3, <2>1, <3>1, <3>2
  <2>2. CASE q # r
    BY <1>1, <1>3, <1>4, <2>2 DEF CartInv, Versioned
  <2> QED
    BY <2>1, <2>2
<1>9. OneLinePerItem' /\ CartIsWhatWasAsked'
  BY <1>1 DEF CartInv, OneLinePerItem, CartIsWhatWasAsked, Groups, LoneRemovals
<1> QED
  BY <1>5, <1>6, <1>7, <1>8, <1>9 DEF CartInv

-----------------------------------------------------------------------------
\* A request ends without a trace.
Fruitless(r) == Goto(r, "done") /\ UNCHANGED <<cart, wanted, doc, target>>

\* A request ends and has saved its lines.
Saves(r, items) ==
  /\ Goto(r, "done") /\ UNCHANGED <<doc, target>>
  /\ cart' \in CartDocument
  /\ cart # None => cart'.v = cart.v + 1
  /\ wanted' = [i \in Items |-> IF i \in items THEN r ELSE wanted[i]]
  /\ LoneRemovals => Edits(Groups, cart'.groups, items, r)
  /\ "overlap" \notin faults => Apart(cart'.groups)

\* The requests that are left when one ends.
LEMMA OthersKept ==
  ASSUME CartInv, NEW r \in Busy, Goto(r, "done"), UNCHANGED <<doc, target>>, cart # None => cart' # None
  PROVE  Targets' /\ Alone'
<1>1. /\ Busy' = Busy \ {r} /\ \A q \in Busy' : pc'[q] = pc[q] /\ doc'[q] = doc[q] /\ target'[q] = target[q]
      /\ faults' = faults
  BY Ends DEF CartInv, Goto
<1>2. Targets'
  BY <1>1 DEF CartInv, Targets
<1>3. Alone'
  BY <1>1 DEF CartInv, Alone
<1> QED
  BY <1>2, <1>3

\* CartInv after a request that ends without a trace ...
LEMMA FruitlessStep == ASSUME CartInv, NEW r \in Busy, Fruitless(r) PROVE CartInv'
<1>1. /\ Busy' = Busy \ {r} /\ IsFiniteSet(Busy') /\ \A q \in Busy' : pc'[q] = pc[q]
      /\ pc' \in [Requests -> Working \cup {"idle", "done"}]
      /\ UNCHANGED <<cart, wanted, doc, target, faults>>
  BY Ends DEF CartInv, Goto, Fruitless
<1>2. CartTypes'
  BY <1>1 DEF CartInv, CartTypes
<1>3. Targets' /\ Alone'
  BY <1>1, OthersKept DEF Fruitless
<1>4. Versioned'
  BY <1>1 DEF CartInv, Versioned, LoneRemovals
<1>5. OneLinePerItem' /\ CartIsWhatWasAsked'
  BY <1>1 DEF CartInv, OneLinePerItem, CartIsWhatWasAsked, Groups, LoneRemovals
<1> QED
  BY <1>2, <1>3, <1>4, <1>5 DEF CartInv

\* ... and after one that saves.
LEMMA SavesStep == ASSUME CartInv, NEW r \in Busy, NEW items \in SUBSET Items, Saves(r, items) PROVE CartInv'
<1>1. /\ Busy' = Busy \ {r} /\ IsFiniteSet(Busy') /\ \A q \in Busy' : pc'[q] = pc[q]
      /\ pc' \in [Requests -> Working \cup {"idle", "done"}]
      /\ UNCHANGED <<doc, target, faults>>
  BY Ends DEF CartInv, Goto, Saves
<1>2. cart' \in CartDocument /\ cart' # None /\ r \in Requests /\ r # None
  BY NoneIsNoCart, RequestsAreNotNone DEF Saves, Busy
<1>3. CartTypes'
  BY <1>1, <1>2 DEF CartInv, CartTypes, Saves
<1>4. Targets' /\ Alone'
  BY <1>2, OthersKept DEF Saves
<1>5. Versioned'
  <2> SUFFICES ASSUME LoneRemovals, NEW q \in Busy'
      PROVE  /\ doc'[q] # None => doc'[q].v <= cart'.v /\ (doc'[q].v = cart'.v => doc'[q] = cart')
             /\ pc'[q] = "write_removal" => doc'[q] = cart' /\ \A p \in Busy' : p = q
    BY <1>1 DEF Versioned, LoneRemovals
  <2>1. q \in Busy /\ q # r /\ pc'[q] = pc[q] /\ doc'[q] = doc[q]
    BY <1>1
  <2>2. pc[q] # "write_removal"
    BY <2>1 DEF CartInv, Versioned
  <2>3. ASSUME doc[q] # None PROVE doc[q].v < cart'.v
    <3>1. cart # None /\ doc[q].v <= cart.v
      BY <2>1, <2>3 DEF CartInv, Targets, Versioned
    <3>2. cart \in CartDocument /\ doc[q] \in CartDocument /\ cart'.v = cart.v + 1
      BY <2>1, <2>3, <3>1 DEF CartInv, CartTypes, Saves, Busy
    <3>3. cart.v \in Nat /\ doc[q].v \in Nat
      BY <3>2 DEF CartDocument
    <3> QED
      BY <3>1, <3>2, <3>3
  <2>4. ASSUME doc[q] # None PROVE doc[q].v \in Nat /\ cart'.v \in Nat
    BY <1>2, <2>1, <2>4 DEF CartInv, CartTypes, CartDocument, Busy
  <2> QED
    BY <2>1, <2>2, <2>3, <2>4
<1>6. OneLinePerItem'
  BY <1>1, <1>2 DEF OneLinePerItem, Saves, Groups, Apart
<1>7. CartIsWhatWasAsked'
  <2> SUFFICES ASSUME LoneRemovals, NEW i \in Items
      PROVE  IF wanted'[i] = None THEN i \notin ItemsOf(Groups')
             ELSE \E k \in DOMAIN Groups' : i \in DOMAIN Groups'[k].items /\ Groups'[k].items[i] = wanted'[i]
    BY <1>1 DEF CartIsWhatWasAsked, LoneRemovals
  <2> DEFINE G == Groups
             H == cart'.groups
  <2>1. Groups' = H /\ G \in Seq(Group) /\ Edits(G, H, items, r)
    BY <1>2, GroupsAre DEF Groups, Saves, CartInv
  <2>2. wanted'[i] = IF i \in items THEN r ELSE wanted[i]
    BY DEF Saves
  <2>3. IF wanted[i] = None THEN i \notin ItemsOf(G)
        ELSE \E k \in DOMAIN G : i \in DOMAIN G[k].items /\ G[k].items[i] = wanted[i]
    BY DEF CartInv, CartIsWhatWasAsked
  <2> HIDE DEF G, H
  <2>4. /\ i \in items => \E k \in DOMAIN H : i \in DOMAIN H[k].items /\ H[k].items[i] = r
        /\ i \notin items /\ i \notin ItemsOf(G) => i \notin ItemsOf(H)
        /\ i \notin items => \A w : (\E k \in DOMAIN G : i \in DOMAIN G[k].items /\ G[k].items[i] = w)
                                     => \E k \in DOMAIN H : i \in DOMAIN H[k].items /\ H[k].items[i] = w
    BY <2>1, EditsLines
  <2>5. CASE i \in items
    BY <1>2, <2>1, <2>2, <2>4, <2>5
  <2>6. CASE i \notin items
    BY <2>1, <2>2, <2>3, <2>4, <2>6
  <2> QED
    BY <2>5, <2>6
<1> QED
  BY <1>3, <1>4, <1>5, <1>6, <1>7 DEF CartInv

-----------------------------------------------------------------------------
\* What a save that finds the loaded version knows: the loaded cart, and unless
\* removals overlap the current one.
LEMMA LoadedIsCurrent ==
  ASSUME CartInv, NEW r \in Busy, doc[r] # None, Current(r)
  PROVE  /\ doc[r].groups \in Seq(Group) /\ cart \in CartDocument /\ cart # None /\ cart.v + 1 \in Nat
         /\ LoneRemovals \/ "overlap" \notin faults => doc[r] = cart /\ Groups = doc[r].groups
<1>1. doc[r] \in CartDocument /\ cart \in CartDocument /\ cart # None
  BY DEF CartInv, CartTypes, Targets, Busy
<1>2. LoneRemovals \/ "overlap" \notin faults => doc[r] = cart
  BY <1>1 DEF CartInv, Versioned, Alone, Current
<1> QED
  BY <1>1, <1>2 DEF CartDocument, Groups

\* add
LEMMA SaveAddSaves ==
  ASSUME CartInv, NEW r \in Requests, SaveAdd(r)
  PROVE  r \in Busy /\ (Fruitless(r) \/ \E items \in SUBSET Items : Saves(r, items))
<1>1. r \in Busy /\ pc[r] = "save_add" /\ Goto(r, "done") /\ UNCHANGED <<doc, target>>
  BY DEF SaveAdd, Busy
<1>2. PICK items \in SUBSET Items : items = target[r]
  BY <1>1 DEF CartInv, Targets
<1> DEFINE loaded == doc[r].groups
           ok == IF doc[r] = None THEN cart = None ELSE OnlyAppends(loaded, items) \/ Current(r)
<1>3. CASE ~ok
  BY <1>1, <1>2, <1>3 DEF SaveAdd, Fruitless
<1>4. CASE ok /\ doc[r] = None
  <2> DEFINE H == Upsert(<<>>, items, r)
  <2>1. cart = None /\ cart' = [v |-> 0, groups |-> H] /\ Chosen(r, items)
    BY <1>1, <1>2, <1>4 DEF SaveAdd
  <2>2. <<>> \in Seq(Group) /\ Apart(<<>>)
    BY DEF Apart
  <2>3. Edits(<<>>, H, items, r) /\ Apart(H)
    BY <2>2, UpsertEdits
  <2>4. H \in Seq(Group)
    BY <2>3 DEF Edits
  <2> HIDE DEF H
  <2>5. cart' \in CartDocument /\ cart'.groups = H /\ Groups = <<>>
    BY <2>1, <2>4 DEF CartDocument, Groups
  <2>6. Saves(r, items)
    BY <1>1, <2>1, <2>3, <2>5 DEF Saves, Chosen
  <2> QED
    BY <1>1, <2>6
<1>5. CASE ok /\ doc[r] # None
  <2> DEFINE H == IF OnlyAppends(loaded, items) THEN cart.groups \o NewGroups(loaded, items, r)
                  ELSE Upsert(loaded, items, r)
  <2>1. cart' = [v |-> cart.v + 1, groups |-> H] /\ Chosen(r, items)
    BY <1>1, <1>2, <1>5 DEF SaveAdd, Saved
  <2>2. doc[r] \in CartDocument /\ cart \in CartDocument /\ cart # None
    BY <1>1, <1>5 DEF CartInv, CartTypes, Targets, Busy
  <2>3. loaded \in Seq(Group) /\ cart.groups \in Seq(Group) /\ cart.v + 1 \in Nat /\ Groups = cart.groups
    BY <2>2 DEF CartDocument, Groups
  <2>4. "overlap" \notin faults => loaded = Groups /\ Apart(Groups)
    BY <1>1, <2>2 DEF CartInv, Alone, OneLinePerItem, Apart, Groups
  <2> HIDE DEF loaded
  <2>5. CASE OnlyAppends(loaded, items)
    <3>1. H = Groups \o NewGroups(loaded, items, r)
      BY <2>3, <2>5
    <3>2. Edits(Groups, H, items, r) /\ (loaded = Groups /\ Apart(Groups) => Apart(H))
      <4> HIDE DEF H
      <4>1. Groups \in Seq(Group)
        BY <2>3
      <4> QED
        BY <2>3, <2>5, <3>1, <4>1, PushEdits
    <3> HIDE DEF H
    <3>3. H \in Seq(Group)
      BY <3>2 DEF Edits
    <3>4. cart' \in CartDocument /\ cart'.groups = H /\ cart'.v = cart.v + 1
      BY <2>1, <2>3, <3>3 DEF CartDocument
    <3>5. Saves(r, items)
      BY <1>1, <2>1, <2>4, <3>2, <3>4 DEF Saves, Chosen
    <3> QED
      BY <1>1, <3>5
  <2>6. CASE ~OnlyAppends(loaded, items)
    <3>1. H = Upsert(loaded, items, r)
      BY <2>6
    <3> HIDE DEF H
    <3>2. Edits(loaded, H, items, r) /\ (Apart(loaded) => Apart(H))
      BY <2>3, <3>1, UpsertEdits
    <3>3. LoneRemovals => loaded = Groups
      BY <1>1, <1>5, <2>6, LoadedIsCurrent DEF loaded
    <3>4. H \in Seq(Group)
      BY <3>2 DEF Edits
    <3>5. cart' \in CartDocument /\ cart'.groups = H /\ cart'.v = cart.v + 1
      BY <2>1, <2>3, <3>4 DEF CartDocument
    <3>6. Saves(r, items)
      BY <1>1, <2>1, <2>4, <3>2, <3>3, <3>5 DEF Saves, Chosen
    <3> QED
      BY <1>1, <3>6
  <2> QED
    BY <2>5, <2>6
<1> QED
  BY <1>3, <1>4, <1>5

\* A save of the whole array, edited.
LEMMA CurrentSaves ==
  ASSUME CartInv, NEW r \in Busy, doc[r] # None, Current(r), NEW items \in SUBSET Items, NEW H,
         Edits(doc[r].groups, H, items, r), Apart(doc[r].groups) => Apart(H),
         cart' = [v |-> cart.v + 1, groups |-> H], Chosen(r, items), Goto(r, "done"), UNCHANGED <<doc, target>>
  PROVE  Saves(r, items)
<1>1. /\ cart # None /\ cart.v + 1 \in Nat
      /\ LoneRemovals \/ "overlap" \notin faults => doc[r] = cart /\ Groups = doc[r].groups
  BY LoadedIsCurrent
<1>2. cart' \in CartDocument /\ cart'.groups = H /\ cart'.v = cart.v + 1
  BY <1>1 DEF Edits, CartDocument
<1>3. "overlap" \notin faults => Apart(Groups)
  BY DEF CartInv, OneLinePerItem, Apart
<1> QED
  BY <1>1, <1>2, <1>3 DEF Saves, Chosen

\* update
LEMMA SaveHandoffSaves ==
  ASSUME CartInv, NEW r \in Requests, SaveHandoff(r)
  PROVE  r \in Busy /\ (Fruitless(r) \/ \E items \in SUBSET Items : Saves(r, items))
<1>1. r \in Busy /\ pc[r] = "save_handoff" /\ Goto(r, "done") /\ UNCHANGED <<wanted, doc, target>>
  BY DEF SaveHandoff, Busy
<1>2. doc[r] # None /\ HasGroup(doc[r].groups, target[r])
  BY <1>1 DEF CartInv, Targets
<1>3. CASE ~Current(r)
  BY <1>1, <1>3 DEF SaveHandoff, Fruitless
<1>4. CASE Current(r)
  <2> DEFINE G == doc[r].groups
             H == [G EXCEPT ![First(G, target[r])].handoff = r]
  <2>1. cart' = [v |-> cart.v + 1, groups |-> H]
    BY <1>4 DEF SaveHandoff, Saved
  <2>2. G \in Seq(Group)
    BY <1>1, <1>2, <1>4, LoadedIsCurrent
  <2>3. Edits(G, H, {}, r) /\ (Apart(G) => Apart(H))
    <3> HIDE DEF G
    <3>1. HasGroup(G, target[r])
      BY <1>2 DEF G
    <3> QED
      BY <2>2, <3>1, HandoffEdits
  <2>4. Chosen(r, {})
    <3>1. wanted \in [Items -> Requests \cup {None}]
      BY DEF CartInv, CartTypes
    <3> QED
      BY <1>1, <3>1 DEF Chosen
  <2> HIDE DEF H
  <2>5. Saves(r, {})
    BY <1>1, <1>2, <1>4, <2>1, <2>3, <2>4, CurrentSaves
  <2> QED
    BY <1>1, <2>5
<1> QED
  BY <1>3, <1>4

\* updateAccessories
LEMMA SaveAccessoriesSaves ==
  ASSUME CartInv, NEW r \in Requests, SaveAccessories(r)
  PROVE  r \in Busy /\ (Fruitless(r) \/ \E items \in SUBSET Items : Saves(r, items))
<1>1. r \in Busy /\ pc[r] = "save_accessories" /\ Goto(r, "done") /\ UNCHANGED <<doc, target>>
  BY DEF SaveAccessories, Busy
<1>2. PICK i \in Items : doc[r] # None /\ target[r] = {i} /\ i \in ItemsOf(doc[r].groups)
  BY <1>1 DEF CartInv, Targets
<1>3. i = CHOOSE j \in target[r] : TRUE
  BY <1>2
<1>4. CASE ~Current(r)
  BY <1>1, <1>4 DEF SaveAccessories, Fruitless
<1>5. CASE Current(r)
  <2> DEFINE G == doc[r].groups
             H == [G EXCEPT ![Holder(G, i)].items[i] = r]
  <2>1. cart' = [v |-> cart.v + 1, groups |-> H] /\ Chosen(r, {i})
    BY <1>3, <1>5 DEF SaveAccessories, Saved
  <2>2. G \in Seq(Group)
    BY <1>1, <1>2, <1>5, LoadedIsCurrent
  <2>3. Edits(G, H, {i}, r) /\ (Apart(G) => Apart(H))
    <3> HIDE DEF G
    <3>1. i \in ItemsOf(G)
      BY <1>2 DEF G
    <3> QED
      BY <2>2, <3>1, AccessoriesEdits
  <2> HIDE DEF H
  <2>4. Saves(r, {i})
    BY <1>1, <1>2, <1>5, <2>1, <2>3, CurrentSaves
  <2> QED
    BY <1>1, <2>4
<1> QED
  BY <1>4, <1>5

\* remove
LEMMA RemovalStep == ASSUME CartInv, NEW r \in Requests, WriteRemoval(r) PROVE CartInv'
<1>1. /\ r \in Busy /\ pc[r] = "write_removal" /\ Goto(r, "done") /\ UNCHANGED <<doc, target>>
      /\ cart' = [cart EXCEPT !.groups = Without(doc[r].groups, target[r])]
      /\ wanted' = [i \in Items |-> IF i \in target[r] THEN None ELSE wanted[i]]
  BY DEF WriteRemoval, Busy
<1>2. PICK items \in SUBSET Items : items = target[r]
  BY <1>1 DEF CartInv, Targets
<1> DEFINE G == doc[r].groups
           W == Without(G, items)
<1>3. doc[r] \in CartDocument /\ cart \in CartDocument
  BY <1>1 DEF CartInv, CartTypes, Targets, Busy
<1>4. G \in Seq(Group)
  BY <1>3 DEF CartDocument
<1>5. /\ W \in Seq(Group)
      /\ \A n \in DOMAIN W : \E k \in DOMAIN G : DOMAIN W[n].items \subseteq DOMAIN G[k].items \ items
      /\ \A k \in DOMAIN G : \A i \in DOMAIN G[k].items \ items :
           \E n \in DOMAIN W : i \in DOMAIN W[n].items /\ W[n].items[i] = G[k].items[i]
      /\ Apart(G) => Apart(W)
  <2> HIDE DEF G
  <2> QED
    BY <1>4, WithoutIs
<1>6. cart' = [cart EXCEPT !.groups = W]
  BY <1>1, <1>2
<1> HIDE DEF W
<1>7. cart' \in CartDocument /\ cart'.groups = W /\ cart' # None /\ Groups' = W
  <2>1. cart' \in CartDocument /\ cart'.groups = W
    BY <1>3, <1>5, <1>6 DEF CartDocument
  <2> QED
    BY <2>1, NoneIsNoCart DEF Groups
<1>8. /\ Busy' = Busy \ {r} /\ IsFiniteSet(Busy') /\ \A q \in Busy' : pc'[q] = pc[q]
      /\ pc' \in [Requests -> Working \cup {"idle", "done"}] /\ faults' = faults
  BY <1>1, Ends DEF CartInv, Goto
<1>9. CartTypes'
  BY <1>1, <1>7, <1>8 DEF CartInv, CartTypes
<1>10. Targets' /\ Alone'
  BY <1>1, <1>7, OthersKept
<1>11. Versioned'
  <2>1. LoneRemovals => Busy' = {}
    BY <1>1, <1>8 DEF CartInv, Versioned
  <2> QED
    BY <1>8, <2>1 DEF Versioned, LoneRemovals
<1>12. LoneRemovals \/ "overlap" \notin faults => Groups = G
  <2>1. LoneRemovals \/ "overlap" \notin faults => doc[r] = cart
    BY <1>1 DEF CartInv, Versioned, Alone
  <2>2. cart # None
    BY <1>3, NoneIsNoCart
  <2> QED
    BY <2>1, <2>2 DEF Groups
<1>13. OneLinePerItem'
  BY <1>5, <1>7, <1>8, <1>12 DEF CartInv, OneLinePerItem, Apart
<1>14. CartIsWhatWasAsked'
  <2> SUFFICES ASSUME LoneRemovals, NEW i \in Items
      PROVE  IF wanted'[i] = None THEN i \notin ItemsOf(Groups')
             ELSE \E k \in DOMAIN Groups' : i \in DOMAIN Groups'[k].items /\ Groups'[k].items[i] = wanted'[i]
    BY <1>8 DEF CartIsWhatWasAsked, LoneRemovals
  <2>1. wanted'[i] = IF i \in items THEN None ELSE wanted[i]
    BY <1>1, <1>2
  <2>2. IF wanted[i] = None THEN i \notin ItemsOf(G)
        ELSE \E k \in DOMAIN G : i \in DOMAIN G[k].items /\ G[k].items[i] = wanted[i]
    BY <1>12 DEF CartInv, CartIsWhatWasAsked
  <2> HIDE DEF G
  <2>3. i \in items \/ i \notin ItemsOf(G) => i \notin ItemsOf(W)
    <3> SUFFICES ASSUME NEW n \in DOMAIN W, i \in DOMAIN W[n].items PROVE i \notin items /\ i \in ItemsOf(G)
      BY DEF ItemsOf
    <3> QED
      BY <1>5 DEF ItemsOf
  <2>4. CASE wanted'[i] = None
    BY <1>7, <2>1, <2>2, <2>3, <2>4
  <2>5. CASE wanted'[i] # None
    <3>1. i \notin items /\ wanted'[i] = wanted[i]
      BY <2>1, <2>5
    <3>2. PICK k \in DOMAIN G : i \in DOMAIN G[k].items /\ G[k].items[i] = wanted[i]
      BY <2>2, <2>5, <3>1
    <3> QED
      BY <1>5, <1>7, <2>5, <3>1, <3>2
  <2> QED
    BY <2>4, <2>5
<1> QED
  BY <1>9, <1>10, <1>11, <1>13, <1>14 DEF CartInv

\* The requests begin.
LEMMA BeginsKept ==
  ASSUME CartInv, NEW r \in Requests,
         \/ \E items \in SUBSET Items : BeginAdd(r, items) \/ BeginRemove(r, items)
         \/ \E store \in CartStores : BeginUpdate(r, store)
         \/ \E i \in Items : BeginAccessories(r, i)
  PROVE  CartInv' /\ UNCHANGED cart
<1>1. ASSUME NEW items \in SUBSET Items, BeginAdd(r, items) PROVE CartInv' /\ UNCHANGED cart
  <2>1. Begin(r, items, "save_add") /\ "save_add" \in Working
    BY <1>1 DEF BeginAdd, Working
  <2> QED
    BY <2>1, BeginStep DEF Begin
<1>2. ASSUME NEW items \in SUBSET Items, BeginRemove(r, items) PROVE CartInv' /\ UNCHANGED cart
  <2>1. /\ Begin(r, items, "write_removal") /\ "write_removal" \in Working
        /\ cart # None /\ (LoneRemovals => Busy = {})
    BY <1>2 DEF BeginRemove, Working
  <2> QED
    BY <2>1, BeginStep DEF Begin
<1>3. ASSUME NEW store \in CartStores, BeginUpdate(r, store) PROVE CartInv' /\ UNCHANGED cart
  <2>1. /\ Begin(r, store, "save_handoff") /\ "save_handoff" \in Working
        /\ cart # None /\ HasGroup(cart.groups, store)
    BY <1>3 DEF BeginUpdate, Working
  <2> QED
    BY <2>1, BeginStep DEF Begin
<1>4. ASSUME NEW i \in Items, BeginAccessories(r, i) PROVE CartInv' /\ UNCHANGED cart
  <2>1. /\ Begin(r, {i}, "save_accessories") /\ "save_accessories" \in Working
        /\ cart # None /\ i \in ItemsOf(cart.groups)
    BY <1>4 DEF BeginAccessories, Working
  <2> QED
    BY <2>1, BeginStep DEF Begin
<1> QED
  BY <1>1, <1>2, <1>3, <1>4

\* A request that is under way saves, removes, or ends without a trace.
LEMMA Ending ==
  ASSUME CartInv, NEW r \in Requests,
         SaveAdd(r) \/ SaveHandoff(r) \/ SaveAccessories(r) \/ WriteRemoval(r) \/ RequestFails(r)
  PROVE  r \in Busy /\ (Fruitless(r) \/ WriteRemoval(r) \/ \E items \in SUBSET Items : Saves(r, items))
<1>1. CASE SaveAdd(r)
  BY <1>1, SaveAddSaves
<1>2. CASE SaveHandoff(r)
  BY <1>2, SaveHandoffSaves
<1>3. CASE SaveAccessories(r)
  BY <1>3, SaveAccessoriesSaves
<1>4. CASE WriteRemoval(r)
  BY <1>4 DEF WriteRemoval, Busy
<1>5. CASE RequestFails(r)
  BY <1>5 DEF RequestFails, Busy, Fruitless
<1> QED
  BY <1>1, <1>2, <1>3, <1>4, <1>5

\* CartInv is inductive.
LEMMA CartStep == ASSUME CartInv, [Next]_vars PROVE CartInv'
<1>1. ASSUME NEW r \in Requests,
             SaveAdd(r) \/ SaveHandoff(r) \/ SaveAccessories(r) \/ WriteRemoval(r) \/ RequestFails(r)
      PROVE  CartInv'
  BY <1>1, Ending, FruitlessStep, SavesStep, RemovalStep
<1>2. CASE UNCHANGED vars
  BY <1>2 DEF vars, CartInv, CartTypes, Targets, Alone, Versioned, OneLinePerItem, CartIsWhatWasAsked, Groups,
              LoneRemovals, Busy
<1> QED
  BY <1>1, <1>2, BeginsKept DEF Next

\* CartInv holds in every reachable state.
LEMMA CartKept == Spec => []CartInv
<1>1. Init => CartInv
  <2> SUFFICES ASSUME Init PROVE CartInv
    OBVIOUS
  <2>1. Busy = {}
    BY DEF Init, Busy
  <2>2. IsFiniteSet(Busy)
    BY <2>1, FS_EmptySet
  <2>3. CartTypes
    BY <2>2 DEF Init, CartTypes
  <2>4. Groups = <<>> /\ ItemsOf(Groups) = {}
    BY DEF Init, Groups, ItemsOf
  <2>5. OneLinePerItem /\ CartIsWhatWasAsked
    BY <2>4 DEF Init, OneLinePerItem, CartIsWhatWasAsked
  <2> QED
    BY <2>1, <2>3, <2>5 DEF CartInv, Targets, Alone, Versioned
<1>2. CartInv /\ [Next]_vars => CartInv'
  BY CartStep
<1> QED
  BY <1>1, <1>2, PTL DEF Spec

\* Without overlap, a store has one group in every reachable state, whatever is added, changed or removed.
THEOREM OneLinePerItemAlways == Spec => []OneLinePerItem
<1>1. CartInv => OneLinePerItem
  BY DEF CartInv
<1> QED
  BY <1>1, CartKept, PTL

\* For any items and any number of overlapping requests and failures, unless removals overlap: no write
\* of a stale array loses a line or a choice of accessories, or brings one back.
THEOREM CartIsWhatWasAskedAlways == Spec => []CartIsWhatWasAsked
<1>1. CartInv => CartIsWhatWasAsked
  BY DEF CartInv
<1> QED
  BY <1>1, CartKept, PTL

\* How a step may change a handoff.
HandoffsChange ==
  \A store \in CartStores :
    LET new == Handoff(Groups', store) IN
    LoneRemovals /\ new # Handoff(Groups, store)
      => \E r \in Requests : pc[r] # pc'[r] /\ (new = r \/ pc[r] = "write_removal")

\* No step takes back the handoff of a store: a change is what the request that ends has chosen, or
\* follows from a removal.
THEOREM HandoffsStandAlways == Spec => HandoffsStand
<1>1. CartInv /\ [Next]_vars => [HandoffsChange]_vars
  <2> SUFFICES ASSUME CartInv, Next PROVE HandoffsChange
    OBVIOUS
  <2>1. ASSUME UNCHANGED cart PROVE HandoffsChange
    BY <2>1 DEF HandoffsChange, Groups
  <2>2. ASSUME NEW r \in Requests,
               SaveAdd(r) \/ SaveHandoff(r) \/ SaveAccessories(r) \/ WriteRemoval(r) \/ RequestFails(r)
        PROVE  HandoffsChange
    <3>1. r \in Busy /\ (Fruitless(r) \/ WriteRemoval(r) \/ \E items \in SUBSET Items : Saves(r, items))
      BY <2>2, Ending
    <3>2. CASE Fruitless(r)
      BY <2>1, <3>2 DEF Fruitless
    <3>3. CASE WriteRemoval(r)
      <4>1. pc[r] = "write_removal" /\ pc'[r] # pc[r]
        BY <3>3 DEF WriteRemoval, Goto, CartInv, CartTypes
      <4> QED
        BY <4>1 DEF HandoffsChange
    <3>4. ASSUME NEW items \in SUBSET Items, Saves(r, items) PROVE HandoffsChange
      <4>1. pc'[r] # pc[r]
        BY <3>1, <3>4 DEF Saves, Goto, CartInv, CartTypes, Busy
      <4>2. ASSUME LoneRemovals, NEW store \in CartStores
            PROVE  Handoff(Groups', store) \in {r, Handoff(Groups, store)}
        <5> DEFINE G == Groups
                   H == cart'.groups
        <5>1. Groups' = H
          BY <3>4, NoneIsNoCart DEF Saves, Groups
        <5>2. G \in Seq(Group) /\ Edits(G, H, items, r)
          BY <3>4, <4>2, GroupsAre DEF Saves, CartInv
        <5> HIDE DEF G, H
        <5>3. Handoff(H, store) \in {r, Handoff(G, store)}
          BY <5>2, EditsHandoff
        <5> QED
          BY <5>1, <5>3 DEF G
      <4> QED
        BY <4>1, <4>2 DEF HandoffsChange
    <3> QED
      BY <3>1, <3>2, <3>3, <3>4
  <2> QED
    BY <2>1, <2>2, BeginsKept DEF Next
<1>2. CartInv /\ [Next]_vars => [\A store \in CartStores :
       LET new == Handoff(Groups', store) IN
       LoneRemovals /\ new # Handoff(Groups, store)
         => \E r \in Requests : pc[r] # pc'[r] /\ (new = r \/ pc[r] = "write_removal")]_vars
  BY <1>1 DEF HandoffsChange
<1> QED
  BY <1>2, CartKept, PTL DEF Spec, HandoffsStand
=============================================================================
