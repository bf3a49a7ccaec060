----------------------------- MODULE MoneyProofs -----------------------------
(***************************************************************************)
(* What is proved of the money: charging and paying out (Payments), and    *)
(* what a cart costs (Quotes).                                             *)
(*                                                                         *)
(* Both add amounts over sets.  The first part proves, from the well-      *)
(* foundedness of the subsets of a finite set, what sums of the community  *)
(* modules are.  The second is the safety of Payments for every set of     *)
(* payments, requests, users and stores, every fee, and every combination  *)
(* of the hazards (overlapping requests, failures, reordered and repeated  *)
(* webhooks); the third its refinement of Escrow without them; the fourth  *)
(* the arithmetic of Quotes.                                               *)
(***************************************************************************)
EXTENDS Payments, Quotes, FiniteSetTheorems, TLAPS

-----------------------------------------------------------------------------
\* PART 1: SUMS

\* Induction over the subsets of a finite set.
LEMMA FiniteInduction ==
  ASSUME NEW S, IsFiniteSet(S), NEW G,
         \A T \in SUBSET S : (\A U \in SUBSET T : U # T => U \in G) => T \in G
  PROVE  \A T \in SUBSET S : T \in G
<1> DEFINE Bad == {T \in SUBSET S : T \notin G}
<1> SUFFICES ASSUME Bad # {} PROVE FALSE
  OBVIOUS
<1>1. \E T \in Bad : \A U \in Bad : ~(<<U, T>> \in StrictSubsetOrdering(S))
  <2>1. Bad \subseteq FiniteSubsetsOf(S) /\ Bad # {}
    BY FS_FiniteSubsetsOfFinite
  <2>2. IsWellFoundedOn(StrictSubsetOrdering(S), FiniteSubsetsOf(S))
    BY FS_StrictSubsetOrderingWellFounded
  <2> DEFINE R == StrictSubsetOrdering(S)
             F == FiniteSubsetsOf(S)
  <2>3. IsWellFoundedOn(R, F) /\ Bad \subseteq F /\ Bad # {}
    BY <2>1, <2>2
  <2> HIDE DEF R, F, Bad
  <2>4. \E T \in Bad : \A U \in Bad : ~(<<U, T>> \in R)
    BY <2>3, WFMin
  <2> QED
    BY <2>4 DEF R
<1>2. PICK T \in Bad : \A U \in Bad : ~(<<U, T>> \in StrictSubsetOrdering(S))
  BY <1>1
<1>3. \A U \in SUBSET T : U # T => U \in G
  BY <1>2 DEF StrictSubsetOrdering
<1> QED
  BY <1>2, <1>3

\* ... over the natural numbers.
LEMMA NaturalInduction ==
  ASSUME NEW G, 0 \in G, \A n \in Nat : n \in G => n + 1 \in G
  PROVE  \A n \in Nat : n \in G
<1> DEFINE Bad == {n \in Nat : n \notin G}
<1> SUFFICES ASSUME Bad # {} PROVE FALSE
  OBVIOUS
<1>1. \E n \in Bad : \A m \in Bad : ~(<<m, n>> \in OpToRel(<, Nat))
  <2> DEFINE R == OpToRel(<, Nat)
  <2>1. IsWellFoundedOn(R, Nat) /\ Bad \subseteq Nat /\ Bad # {}
    BY NatLessThanWellFounded
  <2> HIDE DEF R, Bad
  <2>2. \E n \in Bad : \A m \in Bad : ~(<<m, n>> \in R)
    BY <2>1, WFMin
  <2> QED
    BY <2>2 DEF R
<1>2. PICK n \in Bad : \A m \in Bad : ~(<<m, n>> \in OpToRel(<, Nat))
  BY <1>1
<1>3. n \in Bad /\ \A m \in Bad : ~(m < n)
  BY <1>2 DEF OpToRel
<1>4. n # 0 /\ n - 1 \in Nat /\ n - 1 \notin Bad
  BY <1>3
<1> QED
  BY <1>3, <1>4

-----------------------------------------------------------------------------
\* The sum of f over a set, as the models write it.
Sum(f, S) == MapThenSumSet(LAMBDA x : f[x], S)

Pick(s) == CHOOSE x \in s : TRUE
Adds(g, f, s) == IF s = {} THEN 0 ELSE f[Pick(s)] + g[s \ {Pick(s)}]
Sums(f, S) == CHOOSE g : g = [s \in SUBSET S |-> Adds(g, f, s)]

\* The community modules' MapThenSumSet picks an element and recurs on the rest.
LEMMA SumIsRecursive == ASSUME NEW f, NEW S PROVE Sum(f, S) = Sums(f, S)[S]
  BY DEF Sum, Sums, Adds, Pick, MapThenSumSet, MapThenFoldSet

\* Such a recursive function on the subsets of a finite set exists: otherwise there were a
\* least size at which it does not.
LEMMA SumsExist == ASSUME NEW f, NEW S, IsFiniteSet(S) PROVE \E g : g = [s \in SUBSET S |-> Adds(g, f, s)]
<1> DEFINE Small(n) == {s \in SUBSET S : Cardinality(s) <= n}
           G == {n \in Nat : \E g : g = [s \in Small(n) |-> Adds(g, f, s)]}
<1>1. \A s \in SUBSET S : IsFiniteSet(s) /\ Cardinality(s) \in Nat /\ Cardinality(s) <= Cardinality(S)
  BY FS_Subset, FS_CardinalityType
<1>2. 0 \in G
  <2>1. Small(0) = {{}}
    BY <1>1, FS_EmptySet
  <2> DEFINE g == [s \in Small(0) |-> 0]
  <2>2. g = [s \in Small(0) |-> Adds(g, f, s)]
    BY <2>1 DEF Adds
  <2> QED
    BY <2>2
<1>3. ASSUME NEW n \in Nat, n \in G PROVE n + 1 \in G
  <2>1. PICK g : g = [s \in Small(n) |-> Adds(g, f, s)]
    BY <1>3
  <2> DEFINE h == [s \in Small(n + 1) |-> Adds(g, f, s)]
  <2>2. Small(n) \subseteq Small(n + 1)
    BY <1>1
  <2>3. ASSUME NEW s \in Small(n + 1) PROVE Adds(h, f, s) = Adds(g, f, s)
    <3>1. CASE s = {}
      BY <3>1 DEF Adds
    <3>2. CASE s # {}
      <4>1. Pick(s) \in s
        BY <3>2 DEF Pick
      <4>2. s \ {Pick(s)} \in Small(n)
        BY <1>1, <4>1, FS_RemoveElement
      <4> HIDE DEF Small
      <4>3. h[s \ {Pick(s)}] = Adds(g, f, s \ {Pick(s)}) /\ g[s \ {Pick(s)}] = Adds(g, f, s \ {Pick(s)})
        BY <2>1, <2>2, <4>2
      <4> QED
        BY <4>3 DEF Adds
    <3> QED
      BY <3>1, <3>2
  <2>4. h = [s \in Small(n + 1) |-> Adds(h, f, s)]
    BY <2>3
  <2> HIDE DEF h, Small
  <2>5. \E x : x = [s \in Small(n + 1) |-> Adds(x, f, s)]
    BY <2>4
  <2> QED
    BY <2>5
<1>4. \A n \in Nat : n \in G
  <2> HIDE DEF G
  <2> QED
    BY <1>2, <1>3, NaturalInduction
<1>5. Cardinality(S) \in G /\ Small(Cardinality(S)) = SUBSET S
  BY <1>1, <1>4, FS_CardinalityType
<1> QED
  BY <1>5

\* The function that the definition chooses therefore satisfies its equation.
LEMMA SumsUnfold ==
  ASSUME NEW f, NEW S, IsFiniteSet(S)
  PROVE  \A s \in SUBSET S : Sums(f, S)[s] = Adds(Sums(f, S), f, s)
<1> DEFINE P(g) == g = [s \in SUBSET S |-> Adds(g, f, s)]
<1>1. \E g : P(g)
  BY SumsExist
<1>2. P(CHOOSE g : P(g))
  BY <1>1, Zenon
<1>3. Sums(f, S) = [s \in SUBSET S |-> Adds(Sums(f, S), f, s)]
  BY <1>2 DEF Sums
<1> QED
  BY <1>3

\* What an element adds does not depend on the set that is summed up.
LEMMA SumsAgree ==
  ASSUME NEW f, NEW S, IsFiniteSet(S), NEW T \in SUBSET S
  PROVE  \A s \in SUBSET T : Sums(f, S)[s] = Sums(f, T)[s]
<1> DEFINE G == {s \in SUBSET T : Sums(f, S)[s] = Sums(f, T)[s]}
<1>1. IsFiniteSet(T)
  BY FS_Subset
<1>2. ASSUME NEW s \in SUBSET T, \A u \in SUBSET s : u # s => u \in G PROVE s \in G
  <2>1. Sums(f, S)[s] = Adds(Sums(f, S), f, s) /\ Sums(f, T)[s] = Adds(Sums(f, T), f, s)
    BY <1>1, SumsUnfold
  <2>2. CASE s = {}
    BY <2>1, <2>2 DEF Adds
  <2>3. CASE s # {}
    <3>1. Pick(s) \in s
      BY <2>3 DEF Pick
    <3>2. s \ {Pick(s)} \in G
      BY <1>2, <3>1
    <3> QED
      BY <2>1, <3>2 DEF Adds
  <2> QED
    BY <2>2, <2>3
<1>3. \A s \in SUBSET T : s \in G
  <2> HIDE DEF G
  <2> QED
    BY <1>1, <1>2, FiniteInduction
<1> QED
  BY <1>3

\* A sum adds the value of some element to the sum over the others.
LEMMA SumPicks ==
  ASSUME NEW f, NEW S, IsFiniteSet(S)
  PROVE  Sum(f, S) = IF S = {} THEN 0 ELSE f[Pick(S)] + Sum(f, S \ {Pick(S)})
<1>1. Sum(f, S) = Adds(Sums(f, S), f, S)
  BY SumsUnfold, SumIsRecursive
<1>2. Sums(f, S)[S \ {Pick(S)}] = Sums(f, S \ {Pick(S)})[S \ {Pick(S)}]
  BY SumsAgree
<1> QED
  BY <1>1, <1>2, SumIsRecursive DEF Adds

\* Nothing sums to zero.
LEMMA SumEmpty == ASSUME NEW f PROVE Sum(f, {}) = 0
  BY SumPicks, FS_EmptySet

\* A finite sum of integers is an integer.
LEMMA SumInt ==
  ASSUME NEW f, NEW S, IsFiniteSet(S), \A x \in S : f[x] \in Int
  PROVE  \A T \in SUBSET S : Sum(f, T) \in Int
<1> DEFINE G == {T \in SUBSET S : Sum(f, T) \in Int}
<1>1. ASSUME NEW T \in SUBSET S, \A U \in SUBSET T : U # T => U \in G PROVE T \in G
  <2>1. Sum(f, T) = IF T = {} THEN 0 ELSE f[Pick(T)] + Sum(f, T \ {Pick(T)})
    BY SumPicks, FS_Subset
  <2>2. T # {} => Pick(T) \in T
    BY DEF Pick
  <2>3. T # {} => T \ {Pick(T)} \in G
    BY <1>1, <2>2
  <2> QED
    BY <2>1, <2>2, <2>3
<1>2. \A T \in SUBSET S : T \in G
  <2> HIDE DEF G
  <2> QED
    BY <1>1, FiniteInduction
<1> QED
  BY <1>2

\* ... of any element.
LEMMA SumTakes ==
  ASSUME NEW f, NEW S, IsFiniteSet(S), \A x \in S : f[x] \in Int
  PROVE  \A T \in SUBSET S : \A x \in T : Sum(f, T) = f[x] + Sum(f, T \ {x})
<1> DEFINE G == {T \in SUBSET S : \A x \in T : Sum(f, T) = f[x] + Sum(f, T \ {x})}
<1>1. ASSUME NEW T \in SUBSET S, \A U \in SUBSET T : U # T => U \in G PROVE T \in G
  <2> SUFFICES ASSUME NEW x \in T PROVE Sum(f, T) = f[x] + Sum(f, T \ {x})
    OBVIOUS
  <2> DEFINE c == Pick(T)
  <2>1. c \in T
    BY DEF Pick
  <2>2. Sum(f, T) = f[c] + Sum(f, T \ {c})
    BY SumPicks, FS_Subset
  <2> HIDE DEF c
  <2>3. CASE x = c
    BY <2>2, <2>3
  <2>4. CASE x # c
    <3> DEFINE both == (T \ {c}) \ {x}
    <3>1. Sum(f, T \ {c}) = f[x] + Sum(f, both)
      <4>1. T \ {c} \in G
        BY <1>1, <2>1
      <4> QED
        BY <2>4, <4>1
    <3>2. Sum(f, T \ {x}) = f[c] + Sum(f, both)
      <4>1. T \ {x} \in G /\ (T \ {x}) \ {c} = both
        BY <1>1
      <4> QED
        BY <2>1, <2>4, <4>1
    <3>3. f[x] \in Int /\ f[c] \in Int /\ Sum(f, both) \in Int
      <4>1. both \in SUBSET S
        OBVIOUS
      <4> QED
        BY <2>1, <4>1, SumInt
    <3> HIDE DEF both
    <3> QED
      BY <2>2, <3>1, <3>2, <3>3
  <2> QED
    BY <2>3, <2>4
<1>2. \A T \in SUBSET S : T \in G
  <2> HIDE DEF G
  <2> QED
    BY <1>1, FiniteInduction
<1> QED
  BY <1>2

\* Sums of equal values are equal.
LEMMA SumEqual ==
  ASSUME NEW f, NEW g, NEW S, IsFiniteSet(S), \A x \in S : f[x] = g[x]
  PROVE  Sum(f, S) = Sum(g, S)
<1> DEFINE G == {T \in SUBSET S : Sum(f, T) = Sum(g, T)}
<1>1. ASSUME NEW T \in SUBSET S, \A U \in SUBSET T : U # T => U \in G PROVE T \in G
  <2>1. /\ Sum(f, T) = IF T = {} THEN 0 ELSE f[Pick(T)] + Sum(f, T \ {Pick(T)})
        /\ Sum(g, T) = IF T = {} THEN 0 ELSE g[Pick(T)] + Sum(g, T \ {Pick(T)})
    BY SumPicks, FS_Subset
  <2>2. T # {} => Pick(T) \in T
    BY DEF Pick
  <2>3. T # {} => T \ {Pick(T)} \in G
    BY <1>1, <2>2
  <2> QED
    BY <2>1, <2>2, <2>3
<1>2. \A T \in SUBSET S : T \in G
  <2> HIDE DEF G
  <2> QED
    BY <1>1, FiniteInduction
<1> QED
  BY <1>2

\* Induction by one element more.
LEMMA ElementInduction ==
  ASSUME NEW S, IsFiniteSet(S), NEW G, {} \in G,
         \A T \in SUBSET S : \A x \in T : T \ {x} \in G => T \in G
  PROVE  \A T \in SUBSET S : T \in G
<1>1. ASSUME NEW T \in SUBSET S, \A U \in SUBSET T : U # T => U \in G PROVE T \in G
  <2>1. CASE T # {}
    <3>1. PICK x \in T : TRUE
      BY <2>1
    <3>2. T \ {x} \in SUBSET T /\ T \ {x} # T
      OBVIOUS
    <3>3. T \ {x} \in G
      BY <1>1, <3>2
    <3> QED
      BY <3>3
  <2> QED
    BY <2>1
<1> QED
  BY <1>1, FiniteInduction

\* A sum of sums is the sum of the two.
LEMMA SumSplits ==
  ASSUME NEW f, NEW g, NEW h, NEW S, IsFiniteSet(S),
         \A x \in S : f[x] \in Int /\ g[x] \in Int /\ h[x] = f[x] + g[x]
  PROVE  Sum(h, S) = Sum(f, S) + Sum(g, S)
<1> DEFINE G == {T \in SUBSET S : Sum(h, T) = Sum(f, T) + Sum(g, T)}
<1>1. {} \in G
  BY SumEmpty
<1>2. ASSUME NEW T \in SUBSET S, NEW x \in T, T \ {x} \in G PROVE T \in G
  <2>1. \A y \in S : h[y] \in Int
    OBVIOUS
  <2>2. /\ Sum(f, T) = f[x] + Sum(f, T \ {x}) /\ Sum(g, T) = g[x] + Sum(g, T \ {x})
        /\ Sum(h, T) = h[x] + Sum(h, T \ {x})
    BY <2>1, SumTakes
  <2>3. Sum(f, T \ {x}) \in Int /\ Sum(g, T \ {x}) \in Int
    <3>1. T \ {x} \in SUBSET S
      OBVIOUS
    <3> QED
      BY <3>1, SumInt
  <2> QED
    BY <1>2, <2>2, <2>3
<1>3. \A T \in SUBSET S : T \in G
  <2> HIDE DEF G
  <2> QED
    BY <1>1, <1>2, ElementInduction
<1> QED
  BY <1>3

\* Larger terms have a larger sum.
LEMMA SumMonotone ==
  ASSUME NEW f, NEW g, NEW S, IsFiniteSet(S),
         \A x \in S : f[x] \in Int /\ g[x] \in Int /\ f[x] <= g[x]
  PROVE  Sum(f, S) <= Sum(g, S)
<1> DEFINE G == {T \in SUBSET S : Sum(f, T) <= Sum(g, T)}
<1>1. {} \in G
  BY SumEmpty
<1>2. ASSUME NEW T \in SUBSET S, NEW x \in T, T \ {x} \in G PROVE T \in G
  <2>1. /\ Sum(f, T) = f[x] + Sum(f, T \ {x}) /\ Sum(g, T) = g[x] + Sum(g, T \ {x})
    BY SumTakes
  <2>2. Sum(f, T \ {x}) \in Int /\ Sum(g, T \ {x}) \in Int
    <3>1. T \ {x} \in SUBSET S
      OBVIOUS
    <3> QED
      BY <3>1, SumInt
  <2> QED
    BY <1>2, <2>1, <2>2
<1>3. \A T \in SUBSET S : T \in G
  <2> HIDE DEF G
  <2> QED
    BY <1>1, <1>2, ElementInduction
<1> QED
  BY <1>3

\* Zeros sum to zero.
LEMMA SumZero ==
  ASSUME NEW f, NEW S, IsFiniteSet(S), \A x \in S : f[x] = 0
  PROVE  Sum(f, S) = 0
<1> DEFINE G == {T \in SUBSET S : Sum(f, T) = 0}
<1>1. {} \in G
  BY SumEmpty
<1>2. ASSUME NEW T \in SUBSET S, NEW x \in T, T \ {x} \in G PROVE T \in G
  <2>1. Sum(f, T) = f[x] + Sum(f, T \ {x})
    BY SumTakes
  <2> QED
    BY <1>2, <2>1
<1>3. \A T \in SUBSET S : T \in G
  <2> HIDE DEF G
  <2> QED
    BY <1>1, <1>2, ElementInduction
<1> QED
  BY <1>3

\* A finite sum of naturals is a natural.
LEMMA SumNat ==
  ASSUME NEW f, NEW S, IsFiniteSet(S), \A x \in S : f[x] \in Nat
  PROVE  Sum(f, S) \in Nat
<1> DEFINE zero == [x \in S |-> 0]
<1>1. Sum(zero, S) <= Sum(f, S)
  BY SumMonotone
<1>2. Sum(zero, S) = 0
  BY SumZero
<1>3. Sum(f, S) \in Int
  BY SumInt
<1> HIDE DEF zero
<1> QED
  BY <1>1, <1>2, <1>3

\* The sum over two sets without a common element is that of both.
LEMMA SumUnion ==
  ASSUME NEW f, NEW S, IsFiniteSet(S), \A x \in S : f[x] \in Int,
         NEW A \in SUBSET S, NEW B \in SUBSET S, A \cap B = {}
  PROVE  Sum(f, A \cup B) = Sum(f, A) + Sum(f, B)
<1> DEFINE G == {T \in SUBSET A : Sum(f, T \cup B) = Sum(f, T) + Sum(f, B)}
<1>1. IsFiniteSet(A) /\ Sum(f, B) \in Int
  BY FS_Subset, SumInt
<1>2. {} \in G
  BY <1>1, SumEmpty
<1>3. ASSUME NEW T \in SUBSET A, NEW x \in T, T \ {x} \in G PROVE T \in G
  <2>1. T \in SUBSET S /\ T \cup B \in SUBSET S /\ T \ {x} \in SUBSET S /\ x \in T \cup B
    OBVIOUS
  <2>2. Sum(f, T) = f[x] + Sum(f, T \ {x}) /\ Sum(f, T \cup B) = f[x] + Sum(f, (T \cup B) \ {x})
    BY <2>1, SumTakes
  <2>3. (T \cup B) \ {x} = (T \ {x}) \cup B
    OBVIOUS
  <2>4. f[x] \in Int /\ Sum(f, T \ {x}) \in Int
    BY <2>1, SumInt
  <2>5. Sum(f, (T \cup B) \ {x}) = Sum(f, T \ {x}) + Sum(f, B)
    BY <1>3, <2>3
  <2>6. Sum(f, T \cup B) = Sum(f, T) + Sum(f, B)
    BY <1>1, <2>2, <2>4, <2>5
  <2> QED
    BY <2>6
<1>4. \A T \in SUBSET A : T \in G
  <2> HIDE DEF G
  <2> QED
    BY <1>1, <1>2, <1>3, ElementInduction
<1> QED
  BY <1>4

\* The elements with a key.
Under(S, key, k) == {x \in S : key[x] = k}

\* The sum of the sums of each key is the sum of all.
LEMMA SumGrouped ==
  ASSUME NEW f, NEW S, IsFiniteSet(S), \A x \in S : f[x] \in Int,
         NEW K, IsFiniteSet(K), NEW key, \A x \in S : key[x] \in K,
         NEW g, \A k \in K : g[k] = Sum(f, Under(S, key, k))
  PROVE  Sum(g, K) = Sum(f, S)
<1> DEFINE In(L) == {x \in S : key[x] \in L}
           At(k) == {x \in S : key[x] = k}
           G == {L \in SUBSET K : Sum(g, L) = Sum(f, In(L))}
<1> USE DEF Under
<1>1. \A k \in K : g[k] \in Int
  <2> SUFFICES ASSUME NEW k \in K PROVE g[k] \in Int
    OBVIOUS
  <2>1. At(k) \in SUBSET S
    OBVIOUS
  <2>2. Sum(f, At(k)) \in Int
    BY <2>1, SumInt
  <2> QED
    BY <2>2
<1>2. {} \in G
  <2>1. In({}) = {}
    OBVIOUS
  <2> QED
    BY <2>1, SumEmpty
<1>3. ASSUME NEW L \in SUBSET K, NEW k \in L, L \ {k} \in G PROVE L \in G
  <2>1. Sum(g, L) = g[k] + Sum(g, L \ {k})
    BY <1>1, SumTakes
  <2>2. In(L) = At(k) \cup In(L \ {k}) /\ At(k) \cap In(L \ {k}) = {}
    OBVIOUS
  <2>3. Sum(f, In(L)) = Sum(f, At(k)) + Sum(f, In(L \ {k}))
    <3>1. At(k) \in SUBSET S /\ In(L \ {k}) \in SUBSET S
      OBVIOUS
    <3>2. In(L) = At(k) \cup In(L \ {k}) /\ At(k) \cap In(L \ {k}) = {}
      BY <2>2
    <3> DEFINE A == At(k)
               B == In(L \ {k})
    <3>3. A \in SUBSET S /\ B \in SUBSET S /\ A \cap B = {} /\ In(L) = A \cup B
      BY <3>1, <3>2
    <3> HIDE DEF A, B, In
    <3>4. Sum(f, A \cup B) = Sum(f, A) + Sum(f, B)
      BY <3>3, SumUnion
    <3> QED
      BY <3>3, <3>4 DEF A, B
  <2> QED
    BY <1>3, <2>1, <2>3
<1>4. \A L \in SUBSET K : L \in G
  <2> HIDE DEF G
  <2> QED
    BY <1>2, <1>3, ElementInduction
<1>5. In(K) = S
  OBVIOUS
<1> QED
  BY <1>4, <1>5

\* A function on a part of a set sums to what one on the whole does.
LEMMA PartSum ==
  ASSUME NEW M, IsFiniteSet(M), NEW f, NEW T \in SUBSET M, NEW g, \A p \in T : g[p] = f[p]
  PROVE  Sum(g, T) = Sum(f, T)
  BY FS_Subset, SumEqual

-----------------------------------------------------------------------------
\* PART 2: PAYMENTS
\*
\* PayoutsAreCollected, TransferOnRecord and ChargesHaveRecord are not inductive:
\* what a request holds in memory and what a webhook carries can still be written.
\* IInv says what those copies may be.

TransferPCs == {"read_store", "create_transfer", "record_transfer"}
ConfirmPCs == {"confirm_intent", "save_status"}

\* A snapshot of a successful intent is taken after the success, which is final.
EventsAreCollected == \A e \in events : e.status = "succeeded" => Collected(e.pay)

\* A secret is given out for a payment that is in the database, and a document
\* is created for an intent that exists.
RecordsPrecedeSecrets ==
  /\ \A p \in secrets : payment[p] # None
  /\ \A p \in Payments : payment[p] # None => intent[p] # None

\* The request r between its first read and its last write.
CreateInv(r) ==
  /\ pc[r] \in {"create_intent", "insert"} =>
       doc[r] \in Doc /\ doc[r].transfer = None /\ doc[r].status \in Allowed \cup {"failed"}
  /\ pc[r] = "insert" =>
       /\ pay[r] \in Payments
       /\ doc[r].status = "requires_payment_method"
       /\ intent[pay[r]] # None
       /\ payment[pay[r]] = None

TransferInv(r) ==
  /\ pc[r] \in TransferPCs =>
       /\ pay[r] \in Payments /\ doc[r] \in Doc
       /\ payment[pay[r]] # None
       /\ doc[r].store = payment[pay[r]].store
       /\ doc[r].provider = payment[pay[r]].provider
       /\ Collected(pay[r])
  /\ pc[r] = "record_transfer" => transfer[r] = TransferParams(r)
  /\ transfer[r] # None => pc[r] \in {"record_transfer", "done"}

ConfirmInv(r) ==
  /\ pc[r] \in ConfirmPCs =>
       /\ pay[r] \in Payments /\ doc[r] \in Doc
       /\ payment[pay[r]] # None
       /\ doc[r].status # "transferred"
  /\ pc[r] = "save_status" /\ doc[r].status = "succeeded" => Collected(pay[r])

\* Two requests never insert a document for the same intent.
InsertsAreApart ==
  \A q, r \in Requests : pc[q] = "insert" /\ pc[r] = "insert" /\ pay[q] = pay[r] => q = r

IInv ==
  /\ TypeOK
  /\ PayoutsAreCollected
  /\ TransferOnRecord
  /\ ChargesHaveRecord
  /\ EventsAreCollected
  /\ RecordsPrecedeSecrets
  /\ \A r \in Requests : CreateInv(r) /\ TransferInv(r) /\ ConfirmInv(r)
  /\ InsertsAreApart
-----------------------------------------------------------------------------
\* A step that leaves Stripe, the payments and the secrets alone keeps what IInv
\* says of them.
DataInv ==
  /\ PayoutsAreCollected
  /\ TransferOnRecord
  /\ ChargesHaveRecord
  /\ EventsAreCollected
  /\ RecordsPrecedeSecrets

\* Steps that leave Stripe and the database alone keep what relates the two.
LEMMA DataFrame ==
  ASSUME DataInv, UNCHANGED <<stripe, payment, secrets>>
  PROVE  DataInv'
  BY DEF DataInv, stripe, PayoutsAreCollected, TransferOnRecord, ChargesHaveRecord,
         EventsAreCollected, RecordsPrecedeSecrets, Collected, TransfersOf

\* BeginCreate(r, u, s, a) keeps the invariant.
LEMMA BeginCreateStep ==
  ASSUME IInv, NEW r \in Requests, NEW u \in Users, NEW s \in Stores, NEW a \in Amounts, BeginCreate(r, u, s, a)
  PROVE  IInv'
<1>. USE PaymentsAssumption DEF stripe, database
<1>1. TypeOK'
  BY DEF IInv, TypeOK, PC, Doc, PaymentStatus, StripeStatus, Allowed, Transfer, TransferInv, ConfirmInv, CreateInv, TransferPCs, ConfirmPCs, TransferParams, BeginCreate, Idle, Goto, ProviderAmount, PlatformFee
<1>2. DataInv'
  BY DataFrame DEF IInv, DataInv, BeginCreate
<1>3. (\A q \in Requests : CreateInv(q))'
  BY DEF IInv, TypeOK, PC, Doc, PaymentStatus, StripeStatus, Allowed, PayoutsAreCollected, TransferOnRecord, ChargesHaveRecord, EventsAreCollected, RecordsPrecedeSecrets, CreateInv, TransferInv, ConfirmInv, InsertsAreApart, Collected, TransfersOf, TransferParams, TransferPCs, ConfirmPCs, BeginCreate, Idle, Goto, ProviderAmount, PlatformFee
<1>4. (\A q \in Requests : TransferInv(q))'
  BY DEF IInv, TypeOK, PC, Doc, PaymentStatus, StripeStatus, Allowed, PayoutsAreCollected, TransferOnRecord, ChargesHaveRecord, EventsAreCollected, RecordsPrecedeSecrets, CreateInv, TransferInv, ConfirmInv, InsertsAreApart, Collected, TransfersOf, TransferParams, TransferPCs, ConfirmPCs, BeginCreate, Idle, Goto, ProviderAmount, PlatformFee
<1>5. (\A q \in Requests : ConfirmInv(q))'
  BY DEF IInv, TypeOK, PC, Doc, PaymentStatus, StripeStatus, Allowed, PayoutsAreCollected, TransferOnRecord, ChargesHaveRecord, EventsAreCollected, RecordsPrecedeSecrets, CreateInv, TransferInv, ConfirmInv, InsertsAreApart, Collected, TransfersOf, TransferParams, TransferPCs, ConfirmPCs, BeginCreate, Idle, Goto, ProviderAmount, PlatformFee
<1>6. InsertsAreApart'
  BY DEF IInv, TypeOK, PC, Doc, PaymentStatus, StripeStatus, Allowed, PayoutsAreCollected, TransferOnRecord, ChargesHaveRecord, EventsAreCollected, RecordsPrecedeSecrets, CreateInv, TransferInv, ConfirmInv, InsertsAreApart, Collected, TransfersOf, TransferParams, TransferPCs, ConfirmPCs, BeginCreate, Idle, Goto, ProviderAmount, PlatformFee
<1>. QED  BY <1>1, <1>2, <1>3, <1>4, <1>5, <1>6 DEF IInv, DataInv

\* StripeCreatesIntent(r, p) keeps the invariant.
LEMMA StripeCreatesIntentStep ==
  ASSUME IInv, NEW r \in Requests, NEW p \in Payments, StripeCreatesIntent(r, p)
  PROVE  IInv'
<1>. USE PaymentsAssumption DEF stripe, database
<1>1. TypeOK'
  BY DEF IInv, TypeOK, PC, Doc, PaymentStatus, StripeStatus, Allowed, Transfer, TransferInv, ConfirmInv, CreateInv, TransferPCs, ConfirmPCs, TransferParams, StripeCreatesIntent, Goto, MapStatus
<1>2. DataInv'
  <2>1. PayoutsAreCollected'
    BY DEF IInv, TypeOK, PC, Doc, PaymentStatus, StripeStatus, Allowed, PayoutsAreCollected, TransferOnRecord, ChargesHaveRecord, EventsAreCollected, RecordsPrecedeSecrets, CreateInv, TransferInv, ConfirmInv, InsertsAreApart, Collected, TransfersOf, TransferParams, TransferPCs, ConfirmPCs, StripeCreatesIntent, Goto, MapStatus
  <2>2. TransferOnRecord'
    BY DEF IInv, TypeOK, PC, Doc, PaymentStatus, StripeStatus, Allowed, PayoutsAreCollected, TransferOnRecord, ChargesHaveRecord, EventsAreCollected, RecordsPrecedeSecrets, CreateInv, TransferInv, ConfirmInv, InsertsAreApart, Collected, TransfersOf, TransferParams, TransferPCs, ConfirmPCs, StripeCreatesIntent, Goto, MapStatus
  <2>3. ChargesHaveRecord'
    BY DEF IInv, TypeOK, PC, Doc, PaymentStatus, StripeStatus, Allowed, PayoutsAreCollected, TransferOnRecord, ChargesHaveRecord, EventsAreCollected, RecordsPrecedeSecrets, CreateInv, TransferInv, ConfirmInv, InsertsAreApart, Collected, TransfersOf, TransferParams, TransferPCs, ConfirmPCs, StripeCreatesIntent, Goto, MapStatus
  <2>4. EventsAreCollected'
    BY DEF IInv, TypeOK, PC, Doc, PaymentStatus, StripeStatus, Allowed, PayoutsAreCollected, TransferOnRecord, ChargesHaveRecord, EventsAreCollected, RecordsPrecedeSecrets, CreateInv, TransferInv, ConfirmInv, InsertsAreApart, Collected, TransfersOf, TransferParams, TransferPCs, ConfirmPCs, StripeCreatesIntent, Goto, MapStatus
  <2>5. RecordsPrecedeSecrets'
    BY DEF IInv, TypeOK, PC, Doc, PaymentStatus, StripeStatus, Allowed, PayoutsAreCollected, TransferOnRecord, ChargesHaveRecord, EventsAreCollected, RecordsPrecedeSecrets, CreateInv, TransferInv, ConfirmInv, InsertsAreApart, Collected, TransfersOf, TransferParams, TransferPCs, ConfirmPCs, StripeCreatesIntent, Goto, MapStatus
  <2>. QED  BY <2>1, <2>2, <2>3, <2>4, <2>5 DEF DataInv
<1>3. (\A q \in Requests : CreateInv(q))'
  BY DEF IInv, TypeOK, PC, Doc, PaymentStatus, StripeStatus, Allowed, PayoutsAreCollected, TransferOnRecord, ChargesHaveRecord, EventsAreCollected, RecordsPrecedeSecrets, CreateInv, TransferInv, ConfirmInv, InsertsAreApart, Collected, TransfersOf, TransferParams, TransferPCs, ConfirmPCs, StripeCreatesIntent, Goto, MapStatus
<1>4. (\A q \in Requests : TransferInv(q))'
  BY DEF IInv, TypeOK, PC, Doc, PaymentStatus, StripeStatus, Allowed, PayoutsAreCollected, TransferOnRecord, ChargesHaveRecord, EventsAreCollected, RecordsPrecedeSecrets, CreateInv, TransferInv, ConfirmInv, InsertsAreApart, Collected, TransfersOf, TransferParams, TransferPCs, ConfirmPCs, StripeCreatesIntent, Goto, MapStatus
<1>5. (\A q \in Requests : ConfirmInv(q))'
  BY DEF IInv, TypeOK, PC, Doc, PaymentStatus, StripeStatus, Allowed, PayoutsAreCollected, TransferOnRecord, ChargesHaveRecord, EventsAreCollected, RecordsPrecedeSecrets, CreateInv, TransferInv, ConfirmInv, InsertsAreApart, Collected, TransfersOf, TransferParams, TransferPCs, ConfirmPCs, StripeCreatesIntent, Goto, MapStatus
<1>6. InsertsAreApart'
  BY DEF IInv, TypeOK, PC, Doc, PaymentStatus, StripeStatus, Allowed, PayoutsAreCollected, TransferOnRecord, ChargesHaveRecord, EventsAreCollected, RecordsPrecedeSecrets, CreateInv, TransferInv, ConfirmInv, InsertsAreApart, Collected, TransfersOf, TransferParams, TransferPCs, ConfirmPCs, StripeCreatesIntent, Goto, MapStatus
<1>. QED  BY <1>1, <1>2, <1>3, <1>4, <1>5, <1>6 DEF IInv, DataInv

\* InsertPayment(r) keeps the invariant.
LEMMA InsertPaymentStep ==
  ASSUME IInv, NEW r \in Requests, InsertPayment(r)
  PROVE  IInv'
<1>. USE PaymentsAssumption DEF stripe, database
<1>1. TypeOK'
  BY DEF IInv, TypeOK, PC, Doc, PaymentStatus, StripeStatus, Allowed, Transfer, TransferInv, ConfirmInv, CreateInv, TransferPCs, ConfirmPCs, TransferParams, InsertPayment, Goto
<1>2. DataInv'
  <2>1. PayoutsAreCollected'
    BY DEF IInv, TypeOK, PC, Doc, PaymentStatus, StripeStatus, Allowed, PayoutsAreCollected, TransferOnRecord, ChargesHaveRecord, EventsAreCollected, RecordsPrecedeSecrets, CreateInv, TransferInv, ConfirmInv, InsertsAreApart, Collected, TransfersOf, TransferParams, TransferPCs, ConfirmPCs, InsertPayment, Goto
  <2>2. TransferOnRecord'
    BY DEF IInv, TypeOK, PC, Doc, PaymentStatus, StripeStatus, Allowed, PayoutsAreCollected, TransferOnRecord, ChargesHaveRecord, EventsAreCollected, RecordsPrecedeSecrets, CreateInv, TransferInv, ConfirmInv, InsertsAreApart, Collected, TransfersOf, TransferParams, TransferPCs, ConfirmPCs, InsertPayment, Goto
  <2>3. ChargesHaveRecord'
    BY DEF IInv, TypeOK, PC, Doc, PaymentStatus, StripeStatus, Allowed, PayoutsAreCollected, TransferOnRecord, ChargesHaveRecord, EventsAreCollected, RecordsPrecedeSecrets, CreateInv, TransferInv, ConfirmInv, InsertsAreApart, Collected, TransfersOf, TransferParams, TransferPCs, ConfirmPCs, InsertPayment, Goto
  <2>4. EventsAreCollected'
    BY DEF IInv, TypeOK, PC, Doc, PaymentStatus, StripeStatus, Allowed, PayoutsAreCollected, TransferOnRecord, ChargesHaveRecord, EventsAreCollected, RecordsPrecedeSecrets, CreateInv, TransferInv, ConfirmInv, InsertsAreApart, Collected, TransfersOf, TransferParams, TransferPCs, ConfirmPCs, InsertPayment, Goto
  <2>5. RecordsPrecedeSecrets'
    BY DEF IInv, TypeOK, PC, Doc, PaymentStatus, StripeStatus, Allowed, PayoutsAreCollected, TransferOnRecord, ChargesHaveRecord, EventsAreCollected, RecordsPrecedeSecrets, CreateInv, TransferInv, ConfirmInv, InsertsAreApart, Collected, TransfersOf, TransferParams, TransferPCs, ConfirmPCs, InsertPayment, Goto
  <2>. QED  BY <2>1, <2>2, <2>3, <2>4, <2>5 DEF DataInv
<1>3. (\A q \in Requests : CreateInv(q))'
  BY DEF IInv, TypeOK, PC, Doc, PaymentStatus, StripeStatus, Allowed, PayoutsAreCollected, TransferOnRecord, ChargesHaveRecord, EventsAreCollected, RecordsPrecedeSecrets, CreateInv, TransferInv, ConfirmInv, InsertsAreApart, Collected, TransfersOf, TransferParams, TransferPCs, ConfirmPCs, InsertPayment, Goto
<1>4. (\A q \in Requests : TransferInv(q))'
  BY DEF IInv, TypeOK, PC, Doc, PaymentStatus, StripeStatus, Allowed, PayoutsAreCollected, TransferOnRecord, ChargesHaveRecord, EventsAreCollected, RecordsPrecedeSecrets, CreateInv, TransferInv, ConfirmInv, InsertsAreApart, Collected, TransfersOf, TransferParams, TransferPCs, ConfirmPCs, InsertPayment, Goto
<1>5. (\A q \in Requests : ConfirmInv(q))'
  BY DEF IInv, TypeOK, PC, Doc, PaymentStatus, StripeStatus, Allowed, PayoutsAreCollected, TransferOnRecord, ChargesHaveRecord, EventsAreCollected, RecordsPrecedeSecrets, CreateInv, TransferInv, ConfirmInv, InsertsAreApart, Collected, TransfersOf, TransferParams, TransferPCs, ConfirmPCs, InsertPayment, Goto
<1>6. InsertsAreApart'
  BY DEF IInv, TypeOK, PC, Doc, PaymentStatus, StripeStatus, Allowed, PayoutsAreCollected, TransferOnRecord, ChargesHaveRecord, EventsAreCollected, RecordsPrecedeSecrets, CreateInv, TransferInv, ConfirmInv, InsertsAreApart, Collected, TransfersOf, TransferParams, TransferPCs, ConfirmPCs, InsertPayment, Goto
<1>. QED  BY <1>1, <1>2, <1>3, <1>4, <1>5, <1>6 DEF IInv, DataInv

\* BeginTransfer(r, u, p) keeps the invariant.
LEMMA BeginTransferStep ==
  ASSUME IInv, NEW r \in Requests, NEW u \in Users, NEW p \in Payments, BeginTransfer(r, u, p)
  PROVE  IInv'
<1>. USE PaymentsAssumption DEF stripe, database
<1>1. TypeOK'
  BY DEF IInv, TypeOK, PC, Doc, PaymentStatus, StripeStatus, Allowed, Transfer, TransferInv, ConfirmInv, CreateInv, TransferPCs, ConfirmPCs, TransferParams, BeginTransfer, Idle, Goto, Transferable
<1>2. DataInv'
  BY DataFrame DEF IInv, DataInv, BeginTransfer
<1>3. (\A q \in Requests : CreateInv(q))'
  BY DEF IInv, TypeOK, PC, Doc, PaymentStatus, StripeStatus, Allowed, PayoutsAreCollected, TransferOnRecord, ChargesHaveRecord, EventsAreCollected, RecordsPrecedeSecrets, CreateInv, TransferInv, ConfirmInv, InsertsAreApart, Collected, TransfersOf, TransferParams, TransferPCs, ConfirmPCs, BeginTransfer, Idle, Goto, Transferable
<1>4. (\A q \in Requests : TransferInv(q))'
  BY DEF IInv, TypeOK, PC, Doc, PaymentStatus, StripeStatus, Allowed, PayoutsAreCollected, TransferOnRecord, ChargesHaveRecord, EventsAreCollected, RecordsPrecedeSecrets, CreateInv, TransferInv, ConfirmInv, InsertsAreApart, Collected, TransfersOf, TransferParams, TransferPCs, ConfirmPCs, BeginTransfer, Idle, Goto, Transferable
<1>5. (\A q \in Requests : ConfirmInv(q))'
  BY DEF IInv, TypeOK, PC, Doc, PaymentStatus, StripeStatus, Allowed, PayoutsAreCollected, TransferOnRecord, ChargesHaveRecord, EventsAreCollected, RecordsPrecedeSecrets, CreateInv, TransferInv, ConfirmInv, InsertsAreApart, Collected, TransfersOf, TransferParams, TransferPCs, ConfirmPCs, BeginTransfer, Idle, Goto, Transferable
<1>6. InsertsAreApart'
  BY DEF IInv, TypeOK, PC, Doc, PaymentStatus, StripeStatus, Allowed, PayoutsAreCollected, TransferOnRecord, ChargesHaveRecord, EventsAreCollected, RecordsPrecedeSecrets, CreateInv, TransferInv, ConfirmInv, InsertsAreApart, Collected, TransfersOf, TransferParams, TransferPCs, ConfirmPCs, BeginTransfer, Idle, Goto, Transferable
<1>. QED  BY <1>1, <1>2, <1>3, <1>4, <1>5, <1>6 DEF IInv, DataInv

\* ReadStore(r) keeps the invariant.
LEMMA ReadStoreStep ==
  ASSUME IInv, NEW r \in Requests, ReadStore(r)
  PROVE  IInv'
<1>. USE PaymentsAssumption DEF stripe, database
<1>1. TypeOK'
  BY DEF IInv, TypeOK, PC, Doc, PaymentStatus, StripeStatus, Allowed, Transfer, TransferInv, ConfirmInv, CreateInv, TransferPCs, ConfirmPCs, TransferParams, ReadStore, Goto
<1>2. DataInv'
  BY DataFrame DEF IInv, DataInv, ReadStore
<1>3. (\A q \in Requests : CreateInv(q))'
  BY DEF IInv, TypeOK, PC, Doc, PaymentStatus, StripeStatus, Allowed, PayoutsAreCollected, TransferOnRecord, ChargesHaveRecord, EventsAreCollected, RecordsPrecedeSecrets, CreateInv, TransferInv, ConfirmInv, InsertsAreApart, Collected, TransfersOf, TransferParams, TransferPCs, ConfirmPCs, ReadStore, Goto
<1>4. (\A q \in Requests : TransferInv(q))'
  BY DEF IInv, TypeOK, PC, Doc, PaymentStatus, StripeStatus, Allowed, PayoutsAreCollected, TransferOnRecord, ChargesHaveRecord, EventsAreCollected, RecordsPrecedeSecrets, CreateInv, TransferInv, ConfirmInv, InsertsAreApart, Collected, TransfersOf, TransferParams, TransferPCs, ConfirmPCs, ReadStore, Goto
<1>5. (\A q \in Requests : ConfirmInv(q))'
  BY DEF IInv, TypeOK, PC, Doc, PaymentStatus, StripeStatus, Allowed, PayoutsAreCollected, TransferOnRecord, ChargesHaveRecord, EventsAreCollected, RecordsPrecedeSecrets, CreateInv, TransferInv, ConfirmInv, InsertsAreApart, Collected, TransfersOf, TransferParams, TransferPCs, ConfirmPCs, ReadStore, Goto
<1>6. InsertsAreApart'
  BY DEF IInv, TypeOK, PC, Doc, PaymentStatus, StripeStatus, Allowed, PayoutsAreCollected, TransferOnRecord, ChargesHaveRecord, EventsAreCollected, RecordsPrecedeSecrets, CreateInv, TransferInv, ConfirmInv, InsertsAreApart, Collected, TransfersOf, TransferParams, TransferPCs, ConfirmPCs, ReadStore, Goto
<1>. QED  BY <1>1, <1>2, <1>3, <1>4, <1>5, <1>6 DEF IInv, DataInv

\* StripeTransfers(r) keeps the invariant.
LEMMA StripeTransfersStep ==
  ASSUME IInv, NEW r \in Requests, StripeTransfers(r)
  PROVE  IInv'
<1>. USE PaymentsAssumption DEF stripe, database
<1>1. TypeOK'
  BY DEF IInv, TypeOK, PC, Doc, PaymentStatus, StripeStatus, Allowed, Transfer, TransferInv, ConfirmInv, CreateInv, TransferPCs, ConfirmPCs, TransferParams, StripeTransfers, Goto
<1>2. DataInv'
  <2>1. PayoutsAreCollected'
    BY DEF IInv, TypeOK, PC, Doc, PaymentStatus, StripeStatus, Allowed, PayoutsAreCollected, TransferOnRecord, ChargesHaveRecord, EventsAreCollected, RecordsPrecedeSecrets, CreateInv, TransferInv, ConfirmInv, InsertsAreApart, Collected, TransfersOf, TransferParams, TransferPCs, ConfirmPCs, StripeTransfers, Goto
  <2>2. TransferOnRecord'
    BY DEF IInv, TypeOK, PC, Doc, PaymentStatus, StripeStatus, Allowed, PayoutsAreCollected, TransferOnRecord, ChargesHaveRecord, EventsAreCollected, RecordsPrecedeSecrets, CreateInv, TransferInv, ConfirmInv, InsertsAreApart, Collected, TransfersOf, TransferParams, TransferPCs, ConfirmPCs, StripeTransfers, Goto
  <2>3. ChargesHaveRecord'
    BY DEF IInv, TypeOK, PC, Doc, PaymentStatus, StripeStatus, Allowed, PayoutsAreCollected, TransferOnRecord, ChargesHaveRecord, EventsAreCollected, RecordsPrecedeSecrets, CreateInv, TransferInv, ConfirmInv, InsertsAreApart, Collected, TransfersOf, TransferParams, TransferPCs, ConfirmPCs, StripeTransfers, Goto
  <2>4. EventsAreCollected'
    BY DEF IInv, TypeOK, PC, Doc, PaymentStatus, StripeStatus, Allowed, PayoutsAreCollected, TransferOnRecord, ChargesHaveRecord, EventsAreCollected, RecordsPrecedeSecrets, CreateInv, TransferInv, ConfirmInv, InsertsAreApart, Collected, TransfersOf, TransferParams, TransferPCs, ConfirmPCs, StripeTransfers, Goto
  <2>5. RecordsPrecedeSecrets'
    BY DEF IInv, TypeOK, PC, Doc, PaymentStatus, StripeStatus, Allowed, PayoutsAreCollected, TransferOnRecord, ChargesHaveRecord, EventsAreCollected, RecordsPrecedeSecrets, CreateInv, TransferInv, ConfirmInv, InsertsAreApart, Collected, TransfersOf, TransferParams, TransferPCs, ConfirmPCs, StripeTransfers, Goto
  <2>. QED  BY <2>1, <2>2, <2>3, <2>4, <2>5 DEF DataInv
<1>3. (\A q \in Requests : CreateInv(q))'
  BY DEF IInv, TypeOK, PC, Doc, PaymentStatus, StripeStatus, Allowed, PayoutsAreCollected, TransferOnRecord, ChargesHaveRecord, EventsAreCollected, RecordsPrecedeSecrets, CreateInv, TransferInv, ConfirmInv, InsertsAreApart, Collected, TransfersOf, TransferParams, TransferPCs, ConfirmPCs, StripeTransfers, Goto
<1>4. (\A q \in Requests : TransferInv(q))'
  BY DEF IInv, TypeOK, PC, Doc, PaymentStatus, StripeStatus, Allowed, PayoutsAreCollected, TransferOnRecord, ChargesHaveRecord, EventsAreCollected, RecordsPrecedeSecrets, CreateInv, TransferInv, ConfirmInv, InsertsAreApart, Collected, TransfersOf, TransferParams, TransferPCs, ConfirmPCs, StripeTransfers, Goto
<1>5. (\A q \in Requests : ConfirmInv(q))'
  BY DEF IInv, TypeOK, PC, Doc, PaymentStatus, StripeStatus, Allowed, PayoutsAreCollected, TransferOnRecord, ChargesHaveRecord, EventsAreCollected, RecordsPrecedeSecrets, CreateInv, TransferInv, ConfirmInv, InsertsAreApart, Collected, TransfersOf, TransferParams, TransferPCs, ConfirmPCs, StripeTransfers, Goto
<1>6. InsertsAreApart'
  BY DEF IInv, TypeOK, PC, Doc, PaymentStatus, StripeStatus, Allowed, PayoutsAreCollected, TransferOnRecord, ChargesHaveRecord, EventsAreCollected, RecordsPrecedeSecrets, CreateInv, TransferInv, ConfirmInv, InsertsAreApart, Collected, TransfersOf, TransferParams, TransferPCs, ConfirmPCs, StripeTransfers, Goto
<1>. QED  BY <1>1, <1>2, <1>3, <1>4, <1>5, <1>6 DEF IInv, DataInv

\* RecordTransfer(r) keeps the invariant.
LEMMA RecordTransferStep ==
  ASSUME IInv, NEW r \in Requests, RecordTransfer(r)
  PROVE  IInv'
<1>. USE PaymentsAssumption DEF stripe, database
<1>a. pay[r] \in Payments /\ payment[pay[r]] \in Doc
  BY DEF IInv, TypeOK, TransferInv, TransferPCs, RecordTransfer
<1>b. /\ PaidOut(payment[pay[r]], r) \in Doc
      /\ PaidOut(payment[pay[r]], r).status = "transferred"
      /\ PaidOut(payment[pay[r]], r).transfer = r
      /\ PaidOut(payment[pay[r]], r).store = payment[pay[r]].store
      /\ PaidOut(payment[pay[r]], r).provider = payment[pay[r]].provider
  BY <1>a DEF PaidOut, Doc, PaymentStatus
<1>c. payment' = [payment EXCEPT ![pay[r]] = PaidOut(payment[pay[r]], r)]
  BY <1>a DEF RecordTransfer, IInv, TypeOK
<1>1. TypeOK'
  BY <1>a, <1>b, <1>c DEF IInv, TypeOK, PC, Doc, PaymentStatus, StripeStatus, Allowed, Transfer, TransferInv, ConfirmInv, CreateInv, TransferPCs, ConfirmPCs, TransferParams, RecordTransfer, Goto
<1>2. DataInv'
  <2>1. PayoutsAreCollected'
    BY <1>a, <1>b, <1>c DEF IInv, TypeOK, PC, Doc, PaymentStatus, StripeStatus, Allowed, PayoutsAreCollected, TransferOnRecord, ChargesHaveRecord, EventsAreCollected, RecordsPrecedeSecrets, CreateInv, TransferInv, ConfirmInv, InsertsAreApart, Collected, TransfersOf, TransferParams, TransferPCs, ConfirmPCs, RecordTransfer, Goto
  <2>2. TransferOnRecord'
    <3>1. transfer[r] = TransferParams(r) /\ transfer[r] # None
      BY PaymentsAssumption DEF IInv, TypeOK, TransferInv, TransferPCs, TransferParams, Transfer, Doc, RecordTransfer
    <3>2. /\ transfer[r].pay = pay[r]
          /\ transfer[r].to = payment[pay[r]].store
          /\ transfer[r].amount = payment[pay[r]].provider
      BY <3>1 DEF IInv, TransferInv, TransferPCs, TransferParams, RecordTransfer
    <3>3. UNCHANGED transfer
      BY DEF RecordTransfer
    <3>4. payment'[pay[r]] = PaidOut(payment[pay[r]], r)
      BY <1>a, <1>c DEF IInv, TypeOK
    <3>5. ASSUME NEW p \in Payments, p # pay[r]
          PROVE  payment'[p] = payment[p]
      BY <3>5, <1>c DEF IInv, TypeOK
    <3>. QED
      BY <1>b, <3>1, <3>2, <3>3, <3>4, <3>5 DEF IInv, TransferOnRecord, TransfersOf
  <2>3. ChargesHaveRecord'
    BY <1>a, <1>b, <1>c DEF IInv, TypeOK, PC, Doc, PaymentStatus, StripeStatus, Allowed, PayoutsAreCollected, TransferOnRecord, ChargesHaveRecord, EventsAreCollected, RecordsPrecedeSecrets, CreateInv, TransferInv, ConfirmInv, InsertsAreApart, Collected, TransfersOf, TransferParams, TransferPCs, ConfirmPCs, RecordTransfer, Goto
  <2>4. EventsAreCollected'
    BY <1>a, <1>b, <1>c DEF IInv, TypeOK, PC, Doc, PaymentStatus, StripeStatus, Allowed, PayoutsAreCollected, TransferOnRecord, ChargesHaveRecord, EventsAreCollected, RecordsPrecedeSecrets, CreateInv, TransferInv, ConfirmInv, InsertsAreApart, Collected, TransfersOf, TransferParams, TransferPCs, ConfirmPCs, RecordTransfer, Goto
  <2>5. RecordsPrecedeSecrets'
    BY <1>a, <1>b, <1>c DEF IInv, TypeOK, PC, Doc, PaymentStatus, StripeStatus, Allowed, PayoutsAreCollected, TransferOnRecord, ChargesHaveRecord, EventsAreCollected, RecordsPrecedeSecrets, CreateInv, TransferInv, ConfirmInv, InsertsAreApart, Collected, TransfersOf, TransferParams, TransferPCs, ConfirmPCs, RecordTransfer, Goto
  <2>. QED  BY <2>1, <2>2, <2>3, <2>4, <2>5 DEF DataInv
<1>3. (\A q \in Requests : CreateInv(q))'
  BY <1>a, <1>b, <1>c DEF IInv, TypeOK, PC, Doc, PaymentStatus, StripeStatus, Allowed, PayoutsAreCollected, TransferOnRecord, ChargesHaveRecord, EventsAreCollected, RecordsPrecedeSecrets, CreateInv, TransferInv, ConfirmInv, InsertsAreApart, Collected, TransfersOf, TransferParams, TransferPCs, ConfirmPCs, RecordTransfer, Goto
<1>4. (\A q \in Requests : TransferInv(q))'
  BY <1>a, <1>b, <1>c DEF IInv, TypeOK, PC, Doc, PaymentStatus, StripeStatus, Allowed, PayoutsAreCollected, TransferOnRecord, ChargesHaveRecord, EventsAreCollected, RecordsPrecedeSecrets, CreateInv, TransferInv, ConfirmInv, InsertsAreApart, Collected, TransfersOf, TransferParams, TransferPCs, ConfirmPCs, RecordTransfer, Goto
<1>5. (\A q \in Requests : ConfirmInv(q))'
  BY <1>a, <1>b, <1>c DEF IInv, TypeOK, PC, Doc, PaymentStatus, StripeStatus, Allowed, PayoutsAreCollected, TransferOnRecord, ChargesHaveRecord, EventsAreCollected, RecordsPrecedeSecrets, CreateInv, TransferInv, ConfirmInv, InsertsAreApart, Collected, TransfersOf, TransferParams, TransferPCs, ConfirmPCs, RecordTransfer, Goto
<1>6. InsertsAreApart'
  BY <1>a, <1>b, <1>c DEF IInv, TypeOK, PC, Doc, PaymentStatus, StripeStatus, Allowed, PayoutsAreCollected, TransferOnRecord, ChargesHaveRecord, EventsAreCollected, RecordsPrecedeSecrets, CreateInv, TransferInv, ConfirmInv, InsertsAreApart, Collected, TransfersOf, TransferParams, TransferPCs, ConfirmPCs, RecordTransfer, Goto
<1>. QED  BY <1>1, <1>2, <1>3, <1>4, <1>5, <1>6 DEF IInv, DataInv

\* BeginConfirm(r, u, p) keeps the invariant.
LEMMA BeginConfirmStep ==
  ASSUME IInv, NEW r \in Requests, NEW u \in Users, NEW p \in Payments, BeginConfirm(r, u, p)
  PROVE  IInv'
<1>. USE PaymentsAssumption DEF stripe, database
<1>1. TypeOK'
  BY DEF IInv, TypeOK, PC, Doc, PaymentStatus, StripeStatus, Allowed, Transfer, TransferInv, ConfirmInv, CreateInv, TransferPCs, ConfirmPCs, TransferParams, BeginConfirm, Idle, Goto
<1>2. DataInv'
  BY DataFrame DEF IInv, DataInv, BeginConfirm
<1>3. (\A q \in Requests : CreateInv(q))'
  BY DEF IInv, TypeOK, PC, Doc, PaymentStatus, StripeStatus, Allowed, PayoutsAreCollected, TransferOnRecord, ChargesHaveRecord, EventsAreCollected, RecordsPrecedeSecrets, CreateInv, TransferInv, ConfirmInv, InsertsAreApart, Collected, TransfersOf, TransferParams, TransferPCs, ConfirmPCs, BeginConfirm, Idle, Goto
<1>4. (\A q \in Requests : TransferInv(q))'
  BY DEF IInv, TypeOK, PC, Doc, PaymentStatus, StripeStatus, Allowed, PayoutsAreCollected, TransferOnRecord, ChargesHaveRecord, EventsAreCollected, RecordsPrecedeSecrets, CreateInv, TransferInv, ConfirmInv, InsertsAreApart, Collected, TransfersOf, TransferParams, TransferPCs, ConfirmPCs, BeginConfirm, Idle, Goto
<1>5. (\A q \in Requests : ConfirmInv(q))'
  BY DEF IInv, TypeOK, PC, Doc, PaymentStatus, StripeStatus, Allowed, PayoutsAreCollected, TransferOnRecord, ChargesHaveRecord, EventsAreCollected, RecordsPrecedeSecrets, CreateInv, TransferInv, ConfirmInv, InsertsAreApart, Collected, TransfersOf, TransferParams, TransferPCs, ConfirmPCs, BeginConfirm, Idle, Goto
<1>6. InsertsAreApart'
  BY DEF IInv, TypeOK, PC, Doc, PaymentStatus, StripeStatus, Allowed, PayoutsAreCollected, TransferOnRecord, ChargesHaveRecord, EventsAreCollected, RecordsPrecedeSecrets, CreateInv, TransferInv, ConfirmInv, InsertsAreApart, Collected, TransfersOf, TransferParams, TransferPCs, ConfirmPCs, BeginConfirm, Idle, Goto
<1>. QED  BY <1>1, <1>2, <1>3, <1>4, <1>5, <1>6 DEF IInv, DataInv

\* StripeConfirms(r) keeps the invariant.
LEMMA StripeConfirmsStep ==
  ASSUME IInv, NEW r \in Requests, StripeConfirms(r)
  PROVE  IInv'
<1>. USE PaymentsAssumption DEF stripe, database
<1>a. pc[r] = "confirm_intent" /\ pay[r] \in Payments /\ doc[r] \in Doc /\ payment[pay[r]] # None
  BY DEF IInv, ConfirmInv, ConfirmPCs, StripeConfirms
<1>1. CASE intent[pay[r]] \notin Confirmable
  <2>1. Goto(r, "done") /\ UNCHANGED <<stripe, database, secrets, pay, doc>>
    BY <1>1 DEF StripeConfirms
  <2>2. TypeOK'
    BY <2>1 DEF IInv, TypeOK, PC, Goto
  <2>3. DataInv'
    BY <2>1, DataFrame DEF IInv, DataInv
  <2>4. (\A q \in Requests : CreateInv(q))'
    BY <1>a, <2>1 DEF IInv, TypeOK, PC, Goto, CreateInv, TransferInv, ConfirmInv, InsertsAreApart, TransferPCs, ConfirmPCs, TransferParams, Collected
  <2>5. (\A q \in Requests : TransferInv(q))'
    BY <1>a, <2>1 DEF IInv, TypeOK, PC, Goto, CreateInv, TransferInv, ConfirmInv, InsertsAreApart, TransferPCs, ConfirmPCs, TransferParams, Collected
  <2>6. (\A q \in Requests : ConfirmInv(q))'
    BY <1>a, <2>1 DEF IInv, TypeOK, PC, Goto, CreateInv, TransferInv, ConfirmInv, InsertsAreApart, TransferPCs, ConfirmPCs, TransferParams, Collected
  <2>7. (InsertsAreApart)'
    BY <1>a, <2>1 DEF IInv, TypeOK, PC, Goto, CreateInv, TransferInv, ConfirmInv, InsertsAreApart, TransferPCs, ConfirmPCs, TransferParams, Collected
  <2>. QED  BY <2>2, <2>3, <2>4, <2>5, <2>6, <2>7 DEF IInv, DataInv
<1>2. CASE intent[pay[r]] \in Confirmable
  <2>. PICK s \in {"succeeded", "processing", "requires_action"} :
         /\ Settle(pay[r], s)
         /\ doc' = [doc EXCEPT ![r].status = MapStatus(s)]
         /\ Goto(r, IF doc[r].status = MapStatus(s) THEN "done" ELSE "save_status")
    BY <1>2 DEF StripeConfirms
  <2>a. UNCHANGED <<transfer, database, secrets, pay>>
    BY DEF StripeConfirms
  <2>b. s \in Allowed /\ MapStatus(s) = s
    BY DEF MapStatus, Allowed
  <2>c. intent' = [intent EXCEPT ![pay[r]] = s] /\ intent[pay[r]] \notin {"succeeded", None}
    BY <1>2 DEF Settle, Confirmable, StripeStatus, Allowed
  <2>1. TypeOK'
    BY <1>a, <2>a, <2>b, <2>c DEF IInv, TypeOK, PC, Goto, Settle, Emit, Event, Doc, PaymentStatus, StripeStatus
  <2>2. PayoutsAreCollected'
    BY <1>a, <2>a, <2>c DEF IInv, TypeOK, PayoutsAreCollected, Collected, Transfer
  <2>3. TransferOnRecord'
    BY <2>a DEF IInv, TransferOnRecord, TransfersOf
  <2>4. ChargesHaveRecord'
    BY <1>a, <2>a, <2>c DEF IInv, TypeOK, ChargesHaveRecord, Collected
  <2>5. EventsAreCollected'
    BY <1>a, <2>a, <2>c DEF IInv, TypeOK, EventsAreCollected, Collected, Settle, Emit, Event
  <2>6. RecordsPrecedeSecrets'
    BY <1>a, <2>a, <2>b, <2>c DEF IInv, TypeOK, RecordsPrecedeSecrets, StripeStatus, Allowed
  <2>7. (\A q \in Requests : CreateInv(q))'
    BY <1>a, <2>a, <2>b, <2>c DEF IInv, TypeOK, PC, Goto, Doc, PaymentStatus, StripeStatus, Allowed, CreateInv, TransferInv, ConfirmInv, InsertsAreApart, TransferPCs, ConfirmPCs, TransferParams, Collected
  <2>8. (\A q \in Requests : TransferInv(q))'
    BY <1>a, <2>a, <2>b, <2>c DEF IInv, TypeOK, PC, Goto, Doc, PaymentStatus, StripeStatus, Allowed, CreateInv, TransferInv, ConfirmInv, InsertsAreApart, TransferPCs, ConfirmPCs, TransferParams, Collected
  <2>9. (\A q \in Requests : ConfirmInv(q))'
    BY <1>a, <2>a, <2>b, <2>c DEF IInv, TypeOK, PC, Goto, Doc, PaymentStatus, StripeStatus, Allowed, CreateInv, TransferInv, ConfirmInv, InsertsAreApart, TransferPCs, ConfirmPCs, TransferParams, Collected
  <2>10. (InsertsAreApart)'
    BY <1>a, <2>a, <2>b, <2>c DEF IInv, TypeOK, PC, Goto, Doc, PaymentStatus, StripeStatus, Allowed, CreateInv, TransferInv, ConfirmInv, InsertsAreApart, TransferPCs, ConfirmPCs, TransferParams, Collected
  <2>. QED  BY <2>1, <2>2, <2>3, <2>4, <2>5, <2>6, <2>7, <2>8, <2>9, <2>10 DEF IInv
<1>. QED  BY <1>1, <1>2

\* SaveStatus(r) keeps the invariant.
LEMMA SaveStatusStep ==
  ASSUME IInv, NEW r \in Requests, SaveStatus(r)
  PROVE  IInv'
<1>. USE PaymentsAssumption DEF stripe, database
<1>1. TypeOK'
  BY DEF IInv, TypeOK, PC, Doc, PaymentStatus, StripeStatus, Allowed, Transfer, TransferInv, ConfirmInv, CreateInv, TransferPCs, ConfirmPCs, TransferParams, SaveStatus, Goto
<1>2. DataInv'
  <2>1. PayoutsAreCollected'
    BY DEF IInv, TypeOK, PC, Doc, PaymentStatus, StripeStatus, Allowed, PayoutsAreCollected, TransferOnRecord, ChargesHaveRecord, EventsAreCollected, RecordsPrecedeSecrets, CreateInv, TransferInv, ConfirmInv, InsertsAreApart, Collected, TransfersOf, TransferParams, TransferPCs, ConfirmPCs, SaveStatus, Goto
  <2>2. TransferOnRecord'
    BY DEF IInv, TypeOK, PC, Doc, PaymentStatus, StripeStatus, Allowed, PayoutsAreCollected, TransferOnRecord, ChargesHaveRecord, EventsAreCollected, RecordsPrecedeSecrets, CreateInv, TransferInv, ConfirmInv, InsertsAreApart, Collected, TransfersOf, TransferParams, TransferPCs, ConfirmPCs, SaveStatus, Goto
  <2>3. ChargesHaveRecord'
    BY DEF IInv, TypeOK, PC, Doc, PaymentStatus, StripeStatus, Allowed, PayoutsAreCollected, TransferOnRecord, ChargesHaveRecord, EventsAreCollected, RecordsPrecedeSecrets, CreateInv, TransferInv, ConfirmInv, InsertsAreApart, Collected, TransfersOf, TransferParams, TransferPCs, ConfirmPCs, SaveStatus, Goto
  <2>4. EventsAreCollected'
    BY DEF IInv, TypeOK, PC, Doc, PaymentStatus, StripeStatus, Allowed, PayoutsAreCollected, TransferOnRecord, ChargesHaveRecord, EventsAreCollected, RecordsPrecedeSecrets, CreateInv, TransferInv, ConfirmInv, InsertsAreApart, Collected, TransfersOf, TransferParams, TransferPCs, ConfirmPCs, SaveStatus, Goto
  <2>5. RecordsPrecedeSecrets'
    BY DEF IInv, TypeOK, PC, Doc, PaymentStatus, StripeStatus, Allowed, PayoutsAreCollected, TransferOnRecord, ChargesHaveRecord, EventsAreCollected, RecordsPrecedeSecrets, CreateInv, TransferInv, ConfirmInv, InsertsAreApart, Collected, TransfersOf, TransferParams, TransferPCs, ConfirmPCs, SaveStatus, Goto
  <2>. QED  BY <2>1, <2>2, <2>3, <2>4, <2>5 DEF DataInv
<1>3. (\A q \in Requests : CreateInv(q))'
  BY DEF IInv, TypeOK, PC, Doc, PaymentStatus, StripeStatus, Allowed, PayoutsAreCollected, TransferOnRecord, ChargesHaveRecord, EventsAreCollected, RecordsPrecedeSecrets, CreateInv, TransferInv, ConfirmInv, InsertsAreApart, Collected, TransfersOf, TransferParams, TransferPCs, ConfirmPCs, SaveStatus, Goto
<1>4. (\A q \in Requests : TransferInv(q))'
  BY DEF IInv, TypeOK, PC, Doc, PaymentStatus, StripeStatus, Allowed, PayoutsAreCollected, TransferOnRecord, ChargesHaveRecord, EventsAreCollected, RecordsPrecedeSecrets, CreateInv, TransferInv, ConfirmInv, InsertsAreApart, Collected, TransfersOf, TransferParams, TransferPCs, ConfirmPCs, SaveStatus, Goto
<1>5. (\A q \in Requests : ConfirmInv(q))'
  BY DEF IInv, TypeOK, PC, Doc, PaymentStatus, StripeStatus, Allowed, PayoutsAreCollected, TransferOnRecord, ChargesHaveRecord, EventsAreCollected, RecordsPrecedeSecrets, CreateInv, TransferInv, ConfirmInv, InsertsAreApart, Collected, TransfersOf, TransferParams, TransferPCs, ConfirmPCs, SaveStatus, Goto
<1>6. InsertsAreApart'
  BY DEF IInv, TypeOK, PC, Doc, PaymentStatus, StripeStatus, Allowed, PayoutsAreCollected, TransferOnRecord, ChargesHaveRecord, EventsAreCollected, RecordsPrecedeSecrets, CreateInv, TransferInv, ConfirmInv, InsertsAreApart, Collected, TransfersOf, TransferParams, TransferPCs, ConfirmPCs, SaveStatus, Goto
<1>. QED  BY <1>1, <1>2, <1>3, <1>4, <1>5, <1>6 DEF IInv, DataInv

\* CustomerPays(p, s) keeps the invariant.
LEMMA CustomerPaysStep ==
  ASSUME IInv, NEW p \in Payments, NEW s \in StripeStatus, CustomerPays(p, s)
  PROVE  IInv'
<1>. USE PaymentsAssumption DEF stripe, database
<1>1. TypeOK'
  BY DEF IInv, TypeOK, PC, Doc, PaymentStatus, StripeStatus, Allowed, Transfer, TransferInv, ConfirmInv, CreateInv, TransferPCs, ConfirmPCs, TransferParams, CustomerPays, Settle, Emit, Confirmable, Event
<1>2. DataInv'
  <2>1. PayoutsAreCollected'
    BY DEF IInv, TypeOK, PC, Doc, PaymentStatus, StripeStatus, Allowed, PayoutsAreCollected, TransferOnRecord, ChargesHaveRecord, EventsAreCollected, RecordsPrecedeSecrets, CreateInv, TransferInv, ConfirmInv, InsertsAreApart, Collected, TransfersOf, TransferParams, TransferPCs, ConfirmPCs, CustomerPays, Settle, Emit, Confirmable, Event
  <2>2. TransferOnRecord'
    BY DEF IInv, TypeOK, PC, Doc, PaymentStatus, StripeStatus, Allowed, PayoutsAreCollected, TransferOnRecord, ChargesHaveRecord, EventsAreCollected, RecordsPrecedeSecrets, CreateInv, TransferInv, ConfirmInv, InsertsAreApart, Collected, TransfersOf, TransferParams, TransferPCs, ConfirmPCs, CustomerPays, Settle, Emit, Confirmable, Event
  <2>3. ChargesHaveRecord'
    BY DEF IInv, TypeOK, PC, Doc, PaymentStatus, StripeStatus, Allowed, PayoutsAreCollected, TransferOnRecord, ChargesHaveRecord, EventsAreCollected, RecordsPrecedeSecrets, CreateInv, TransferInv, ConfirmInv, InsertsAreApart, Collected, TransfersOf, TransferParams, TransferPCs, ConfirmPCs, CustomerPays, Settle, Emit, Confirmable, Event
  <2>4. EventsAreCollected'
    BY DEF IInv, TypeOK, PC, Doc, PaymentStatus, StripeStatus, Allowed, PayoutsAreCollected, TransferOnRecord, ChargesHaveRecord, EventsAreCollected, RecordsPrecedeSecrets, CreateInv, TransferInv, ConfirmInv, InsertsAreApart, Collected, TransfersOf, TransferParams, TransferPCs, ConfirmPCs, CustomerPays, Settle, Emit, Confirmable, Event
  <2>5. RecordsPrecedeSecrets'
    BY DEF IInv, TypeOK, PC, Doc, PaymentStatus, StripeStatus, Allowed, PayoutsAreCollected, TransferOnRecord, ChargesHaveRecord, EventsAreCollected, RecordsPrecedeSecrets, CreateInv, TransferInv, ConfirmInv, InsertsAreApart, Collected, TransfersOf, TransferParams, TransferPCs, ConfirmPCs, CustomerPays, Settle, Emit, Confirmable, Event
  <2>. QED  BY <2>1, <2>2, <2>3, <2>4, <2>5 DEF DataInv
<1>3. (\A q \in Requests : CreateInv(q))'
  BY DEF IInv, TypeOK, PC, Doc, PaymentStatus, StripeStatus, Allowed, PayoutsAreCollected, TransferOnRecord, ChargesHaveRecord, EventsAreCollected, RecordsPrecedeSecrets, CreateInv, TransferInv, ConfirmInv, InsertsAreApart, Collected, TransfersOf, TransferParams, TransferPCs, ConfirmPCs, CustomerPays, Settle, Emit, Confirmable, Event
<1>4. (\A q \in Requests : TransferInv(q))'
  BY DEF IInv, TypeOK, PC, Doc, PaymentStatus, StripeStatus, Allowed, PayoutsAreCollected, TransferOnRecord, ChargesHaveRecord, EventsAreCollected, RecordsPrecedeSecrets, CreateInv, TransferInv, ConfirmInv, InsertsAreApart, Collected, TransfersOf, TransferParams, TransferPCs, ConfirmPCs, CustomerPays, Settle, Emit, Confirmable, Event
<1>5. (\A q \in Requests : ConfirmInv(q))'
  BY DEF IInv, TypeOK, PC, Doc, PaymentStatus, StripeStatus, Allowed, PayoutsAreCollected, TransferOnRecord, ChargesHaveRecord, EventsAreCollected, RecordsPrecedeSecrets, CreateInv, TransferInv, ConfirmInv, InsertsAreApart, Collected, TransfersOf, TransferParams, TransferPCs, ConfirmPCs, CustomerPays, Settle, Emit, Confirmable, Event
<1>6. InsertsAreApart'
  BY DEF IInv, TypeOK, PC, Doc, PaymentStatus, StripeStatus, Allowed, PayoutsAreCollected, TransferOnRecord, ChargesHaveRecord, EventsAreCollected, RecordsPrecedeSecrets, CreateInv, TransferInv, ConfirmInv, InsertsAreApart, Collected, TransfersOf, TransferParams, TransferPCs, ConfirmPCs, CustomerPays, Settle, Emit, Confirmable, Event
<1>. QED  BY <1>1, <1>2, <1>3, <1>4, <1>5, <1>6 DEF IInv, DataInv

\* PaymentFails(p) keeps the invariant.
LEMMA PaymentFailsStep ==
  ASSUME IInv, NEW p \in Payments, PaymentFails(p)
  PROVE  IInv'
<1>. USE PaymentsAssumption DEF stripe, database
<1>1. TypeOK'
  BY DEF IInv, TypeOK, PC, Doc, PaymentStatus, StripeStatus, Allowed, Transfer, TransferInv, ConfirmInv, CreateInv, TransferPCs, ConfirmPCs, TransferParams, PaymentFails, Emit, Confirmable, Event
<1>2. DataInv'
  <2>1. PayoutsAreCollected'
    BY DEF IInv, TypeOK, PC, Doc, PaymentStatus, StripeStatus, Allowed, PayoutsAreCollected, TransferOnRecord, ChargesHaveRecord, EventsAreCollected, RecordsPrecedeSecrets, CreateInv, TransferInv, ConfirmInv, InsertsAreApart, Collected, TransfersOf, TransferParams, TransferPCs, ConfirmPCs, PaymentFails, Emit, Confirmable, Event
  <2>2. TransferOnRecord'
    BY DEF IInv, TypeOK, PC, Doc, PaymentStatus, StripeStatus, Allowed, PayoutsAreCollected, TransferOnRecord, ChargesHaveRecord, EventsAreCollected, RecordsPrecedeSecrets, CreateInv, TransferInv, ConfirmInv, InsertsAreApart, Collected, TransfersOf, TransferParams, TransferPCs, ConfirmPCs, PaymentFails, Emit, Confirmable, Event
  <2>3. ChargesHaveRecord'
    BY DEF IInv, TypeOK, PC, Doc, PaymentStatus, StripeStatus, Allowed, PayoutsAreCollected, TransferOnRecord, ChargesHaveRecord, EventsAreCollected, RecordsPrecedeSecrets, CreateInv, TransferInv, ConfirmInv, InsertsAreApart, Collected, TransfersOf, TransferParams, TransferPCs, ConfirmPCs, PaymentFails, Emit, Confirmable, Event
  <2>4. EventsAreCollected'
    BY DEF IInv, TypeOK, PC, Doc, PaymentStatus, StripeStatus, Allowed, PayoutsAreCollected, TransferOnRecord, ChargesHaveRecord, EventsAreCollected, RecordsPrecedeSecrets, CreateInv, TransferInv, ConfirmInv, InsertsAreApart, Collected, TransfersOf, TransferParams, TransferPCs, ConfirmPCs, PaymentFails, Emit, Confirmable, Event
  <2>5. RecordsPrecedeSecrets'
    BY DEF IInv, TypeOK, PC, Doc, PaymentStatus, StripeStatus, Allowed, PayoutsAreCollected, TransferOnRecord, ChargesHaveRecord, EventsAreCollected, RecordsPrecedeSecrets, CreateInv, TransferInv, ConfirmInv, InsertsAreApart, Collected, TransfersOf, TransferParams, TransferPCs, ConfirmPCs, PaymentFails, Emit, Confirmable, Event
  <2>. QED  BY <2>1, <2>2, <2>3, <2>4, <2>5 DEF DataInv
<1>3. (\A q \in Requests : CreateInv(q))'
  BY DEF IInv, TypeOK, PC, Doc, PaymentStatus, StripeStatus, Allowed, PayoutsAreCollected, TransferOnRecord, ChargesHaveRecord, EventsAreCollected, RecordsPrecedeSecrets, CreateInv, TransferInv, ConfirmInv, InsertsAreApart, Collected, TransfersOf, TransferParams, TransferPCs, ConfirmPCs, PaymentFails, Emit, Confirmable, Event
<1>4. (\A q \in Requests : TransferInv(q))'
  BY DEF IInv, TypeOK, PC, Doc, PaymentStatus, StripeStatus, Allowed, PayoutsAreCollected, TransferOnRecord, ChargesHaveRecord, EventsAreCollected, RecordsPrecedeSecrets, CreateInv, TransferInv, ConfirmInv, InsertsAreApart, Collected, TransfersOf, TransferParams, TransferPCs, ConfirmPCs, PaymentFails, Emit, Confirmable, Event
<1>5. (\A q \in Requests : ConfirmInv(q))'
  BY DEF IInv, TypeOK, PC, Doc, PaymentStatus, StripeStatus, Allowed, PayoutsAreCollected, TransferOnRecord, ChargesHaveRecord, EventsAreCollected, RecordsPrecedeSecrets, CreateInv, TransferInv, ConfirmInv, InsertsAreApart, Collected, TransfersOf, TransferParams, TransferPCs, ConfirmPCs, PaymentFails, Emit, Confirmable, Event
<1>6. InsertsAreApart'
  BY DEF IInv, TypeOK, PC, Doc, PaymentStatus, StripeStatus, Allowed, PayoutsAreCollected, TransferOnRecord, ChargesHaveRecord, EventsAreCollected, RecordsPrecedeSecrets, CreateInv, TransferInv, ConfirmInv, InsertsAreApart, Collected, TransfersOf, TransferParams, TransferPCs, ConfirmPCs, PaymentFails, Emit, Confirmable, Event
<1>. QED  BY <1>1, <1>2, <1>3, <1>4, <1>5, <1>6 DEF IInv, DataInv

\* IntentCanceled(p) keeps the invariant.
LEMMA IntentCanceledStep ==
  ASSUME IInv, NEW p \in Payments, IntentCanceled(p)
  PROVE  IInv'
<1>. USE PaymentsAssumption DEF stripe, database
<1>1. TypeOK'
  BY DEF IInv, TypeOK, PC, Doc, PaymentStatus, StripeStatus, Allowed, Transfer, TransferInv, ConfirmInv, CreateInv, TransferPCs, ConfirmPCs, TransferParams, IntentCanceled, Emit, Confirmable, Event
<1>2. DataInv'
  <2>1. PayoutsAreCollected'
    BY DEF IInv, TypeOK, PC, Doc, PaymentStatus, StripeStatus, Allowed, PayoutsAreCollected, TransferOnRecord, ChargesHaveRecord, EventsAreCollected, RecordsPrecedeSecrets, CreateInv, TransferInv, ConfirmInv, InsertsAreApart, Collected, TransfersOf, TransferParams, TransferPCs, ConfirmPCs, IntentCanceled, Emit, Confirmable, Event
  <2>2. TransferOnRecord'
    BY DEF IInv, TypeOK, PC, Doc, PaymentStatus, StripeStatus, Allowed, PayoutsAreCollected, TransferOnRecord, ChargesHaveRecord, EventsAreCollected, RecordsPrecedeSecrets, CreateInv, TransferInv, ConfirmInv, InsertsAreApart, Collected, TransfersOf, TransferParams, TransferPCs, ConfirmPCs, IntentCanceled, Emit, Confirmable, Event
  <2>3. ChargesHaveRecord'
    BY DEF IInv, TypeOK, PC, Doc, PaymentStatus, StripeStatus, Allowed, PayoutsAreCollected, TransferOnRecord, ChargesHaveRecord, EventsAreCollected, RecordsPrecedeSecrets, CreateInv, TransferInv, ConfirmInv, InsertsAreApart, Collected, TransfersOf, TransferParams, TransferPCs, ConfirmPCs, IntentCanceled, Emit, Confirmable, Event
  <2>4. EventsAreCollected'
    BY DEF IInv, TypeOK, PC, Doc, PaymentStatus, StripeStatus, Allowed, PayoutsAreCollected, TransferOnRecord, ChargesHaveRecord, EventsAreCollected, RecordsPrecedeSecrets, CreateInv, TransferInv, ConfirmInv, InsertsAreApart, Collected, TransfersOf, TransferParams, TransferPCs, ConfirmPCs, IntentCanceled, Emit, Confirmable, Event
  <2>5. RecordsPrecedeSecrets'
    BY DEF IInv, TypeOK, PC, Doc, PaymentStatus, StripeStatus, Allowed, PayoutsAreCollected, TransferOnRecord, ChargesHaveRecord, EventsAreCollected, RecordsPrecedeSecrets, CreateInv, TransferInv, ConfirmInv, InsertsAreApart, Collected, TransfersOf, TransferParams, TransferPCs, ConfirmPCs, IntentCanceled, Emit, Confirmable, Event
  <2>. QED  BY <2>1, <2>2, <2>3, <2>4, <2>5 DEF DataInv
<1>3. (\A q \in Requests : CreateInv(q))'
  BY DEF IInv, TypeOK, PC, Doc, PaymentStatus, StripeStatus, Allowed, PayoutsAreCollected, TransferOnRecord, ChargesHaveRecord, EventsAreCollected, RecordsPrecedeSecrets, CreateInv, TransferInv, ConfirmInv, InsertsAreApart, Collected, TransfersOf, TransferParams, TransferPCs, ConfirmPCs, IntentCanceled, Emit, Confirmable, Event
<1>4. (\A q \in Requests : TransferInv(q))'
  BY DEF IInv, TypeOK, PC, Doc, PaymentStatus, StripeStatus, Allowed, PayoutsAreCollected, TransferOnRecord, ChargesHaveRecord, EventsAreCollected, RecordsPrecedeSecrets, CreateInv, TransferInv, ConfirmInv, InsertsAreApart, Collected, TransfersOf, TransferParams, TransferPCs, ConfirmPCs, IntentCanceled, Emit, Confirmable, Event
<1>5. (\A q \in Requests : ConfirmInv(q))'
  BY DEF IInv, TypeOK, PC, Doc, PaymentStatus, StripeStatus, Allowed, PayoutsAreCollected, TransferOnRecord, ChargesHaveRecord, EventsAreCollected, RecordsPrecedeSecrets, CreateInv, TransferInv, ConfirmInv, InsertsAreApart, Collected, TransfersOf, TransferParams, TransferPCs, ConfirmPCs, IntentCanceled, Emit, Confirmable, Event
<1>6. InsertsAreApart'
  BY DEF IInv, TypeOK, PC, Doc, PaymentStatus, StripeStatus, Allowed, PayoutsAreCollected, TransferOnRecord, ChargesHaveRecord, EventsAreCollected, RecordsPrecedeSecrets, CreateInv, TransferInv, ConfirmInv, InsertsAreApart, Collected, TransfersOf, TransferParams, TransferPCs, ConfirmPCs, IntentCanceled, Emit, Confirmable, Event
<1>. QED  BY <1>1, <1>2, <1>3, <1>4, <1>5, <1>6 DEF IInv, DataInv

\* DeliverEvent(e) keeps the invariant.
LEMMA DeliverEventStep ==
  ASSUME IInv, NEW e \in events, DeliverEvent(e)
  PROVE  IInv'
<1>. USE PaymentsAssumption DEF stripe, database
<1>1. TypeOK'
  BY DEF IInv, TypeOK, PC, Doc, PaymentStatus, StripeStatus, Allowed, Transfer, TransferInv, ConfirmInv, CreateInv, TransferPCs, ConfirmPCs, TransferParams, DeliverEvent, Synced, MapStatus, Event
<1>2. DataInv'
  <2>1. PayoutsAreCollected'
    BY DEF IInv, TypeOK, PC, Doc, PaymentStatus, StripeStatus, Allowed, PayoutsAreCollected, TransferOnRecord, ChargesHaveRecord, EventsAreCollected, RecordsPrecedeSecrets, CreateInv, TransferInv, ConfirmInv, InsertsAreApart, Collected, TransfersOf, TransferParams, TransferPCs, ConfirmPCs, DeliverEvent, Synced, MapStatus, Event
  <2>2. TransferOnRecord'
    BY DEF IInv, TypeOK, PC, Doc, PaymentStatus, StripeStatus, Allowed, PayoutsAreCollected, TransferOnRecord, ChargesHaveRecord, EventsAreCollected, RecordsPrecedeSecrets, CreateInv, TransferInv, ConfirmInv, InsertsAreApart, Collected, TransfersOf, TransferParams, TransferPCs, ConfirmPCs, DeliverEvent, Synced, MapStatus, Event
  <2>3. ChargesHaveRecord'
    BY DEF IInv, TypeOK, PC, Doc, PaymentStatus, StripeStatus, Allowed, PayoutsAreCollected, TransferOnRecord, ChargesHaveRecord, EventsAreCollected, RecordsPrecedeSecrets, CreateInv, TransferInv, ConfirmInv, InsertsAreApart, Collected, TransfersOf, TransferParams, TransferPCs, ConfirmPCs, DeliverEvent, Synced, MapStatus, Event
  <2>4. EventsAreCollected'
    BY DEF IInv, TypeOK, PC, Doc, PaymentStatus, StripeStatus, Allowed, PayoutsAreCollected, TransferOnRecord, ChargesHaveRecord, EventsAreCollected, RecordsPrecedeSecrets, CreateInv, TransferInv, ConfirmInv, InsertsAreApart, Collected, TransfersOf, TransferParams, TransferPCs, ConfirmPCs, DeliverEvent, Synced, MapStatus, Event
  <2>5. RecordsPrecedeSecrets'
    BY DEF IInv, TypeOK, PC, Doc, PaymentStatus, StripeStatus, Allowed, PayoutsAreCollected, TransferOnRecord, ChargesHaveRecord, EventsAreCollected, RecordsPrecedeSecrets, CreateInv, TransferInv, ConfirmInv, InsertsAreApart, Collected, TransfersOf, TransferParams, TransferPCs, ConfirmPCs, DeliverEvent, Synced, MapStatus, Event
  <2>. QED  BY <2>1, <2>2, <2>3, <2>4, <2>5 DEF DataInv
<1>3. (\A q \in Requests : CreateInv(q))'
  BY DEF IInv, TypeOK, PC, Doc, PaymentStatus, StripeStatus, Allowed, PayoutsAreCollected, TransferOnRecord, ChargesHaveRecord, EventsAreCollected, RecordsPrecedeSecrets, CreateInv, TransferInv, ConfirmInv, InsertsAreApart, Collected, TransfersOf, TransferParams, TransferPCs, ConfirmPCs, DeliverEvent, Synced, MapStatus, Event
<1>4. (\A q \in Requests : TransferInv(q))'
  BY DEF IInv, TypeOK, PC, Doc, PaymentStatus, StripeStatus, Allowed, PayoutsAreCollected, TransferOnRecord, ChargesHaveRecord, EventsAreCollected, RecordsPrecedeSecrets, CreateInv, TransferInv, ConfirmInv, InsertsAreApart, Collected, TransfersOf, TransferParams, TransferPCs, ConfirmPCs, DeliverEvent, Synced, MapStatus, Event
<1>5. (\A q \in Requests : ConfirmInv(q))'
  BY DEF IInv, TypeOK, PC, Doc, PaymentStatus, StripeStatus, Allowed, PayoutsAreCollected, TransferOnRecord, ChargesHaveRecord, EventsAreCollected, RecordsPrecedeSecrets, CreateInv, TransferInv, ConfirmInv, InsertsAreApart, Collected, TransfersOf, TransferParams, TransferPCs, ConfirmPCs, DeliverEvent, Synced, MapStatus, Event
<1>6. InsertsAreApart'
  BY DEF IInv, TypeOK, PC, Doc, PaymentStatus, StripeStatus, Allowed, PayoutsAreCollected, TransferOnRecord, ChargesHaveRecord, EventsAreCollected, RecordsPrecedeSecrets, CreateInv, TransferInv, ConfirmInv, InsertsAreApart, Collected, TransfersOf, TransferParams, TransferPCs, ConfirmPCs, DeliverEvent, Synced, MapStatus, Event
<1>. QED  BY <1>1, <1>2, <1>3, <1>4, <1>5, <1>6 DEF IInv, DataInv

\* OnboardingChanges(s) keeps the invariant.
LEMMA OnboardingChangesStep ==
  ASSUME IInv, NEW s \in Stores, OnboardingChanges(s)
  PROVE  IInv'
<1>. USE PaymentsAssumption DEF stripe, database
<1>1. TypeOK'
  BY DEF IInv, TypeOK, PC, Doc, PaymentStatus, StripeStatus, Allowed, Transfer, TransferInv, ConfirmInv, CreateInv, TransferPCs, ConfirmPCs, TransferParams, OnboardingChanges
<1>2. DataInv'
  BY DataFrame DEF IInv, DataInv, OnboardingChanges
<1>3. (\A q \in Requests : CreateInv(q))'
  BY DEF IInv, TypeOK, PC, Doc, PaymentStatus, StripeStatus, Allowed, PayoutsAreCollected, TransferOnRecord, ChargesHaveRecord, EventsAreCollected, RecordsPrecedeSecrets, CreateInv, TransferInv, ConfirmInv, InsertsAreApart, Collected, TransfersOf, TransferParams, TransferPCs, ConfirmPCs, OnboardingChanges
<1>4. (\A q \in Requests : TransferInv(q))'
  BY DEF IInv, TypeOK, PC, Doc, PaymentStatus, StripeStatus, Allowed, PayoutsAreCollected, TransferOnRecord, ChargesHaveRecord, EventsAreCollected, RecordsPrecedeSecrets, CreateInv, TransferInv, ConfirmInv, InsertsAreApart, Collected, TransfersOf, TransferParams, TransferPCs, ConfirmPCs, OnboardingChanges
<1>5. (\A q \in Requests : ConfirmInv(q))'
  BY DEF IInv, TypeOK, PC, Doc, PaymentStatus, StripeStatus, Allowed, PayoutsAreCollected, TransferOnRecord, ChargesHaveRecord, EventsAreCollected, RecordsPrecedeSecrets, CreateInv, TransferInv, ConfirmInv, InsertsAreApart, Collected, TransfersOf, TransferParams, TransferPCs, ConfirmPCs, OnboardingChanges
<1>6. InsertsAreApart'
  BY DEF IInv, TypeOK, PC, Doc, PaymentStatus, StripeStatus, Allowed, PayoutsAreCollected, TransferOnRecord, ChargesHaveRecord, EventsAreCollected, RecordsPrecedeSecrets, CreateInv, TransferInv, ConfirmInv, InsertsAreApart, Collected, TransfersOf, TransferParams, TransferPCs, ConfirmPCs, OnboardingChanges
<1>. QED  BY <1>1, <1>2, <1>3, <1>4, <1>5, <1>6 DEF IInv, DataInv

\* RequestFails(r) keeps the invariant.
LEMMA RequestFailsStep ==
  ASSUME IInv, NEW r \in Requests, RequestFails(r)
  PROVE  IInv'
<1>. USE PaymentsAssumption DEF stripe, database
<1>1. TypeOK'
  BY DEF IInv, TypeOK, PC, Doc, PaymentStatus, StripeStatus, Allowed, Transfer, TransferInv, ConfirmInv, CreateInv, TransferPCs, ConfirmPCs, TransferParams, RequestFails, Goto
<1>2. DataInv'
  BY DataFrame DEF IInv, DataInv, RequestFails
<1>3. (\A q \in Requests : CreateInv(q))'
  BY DEF IInv, TypeOK, PC, Doc, PaymentStatus, StripeStatus, Allowed, PayoutsAreCollected, TransferOnRecord, ChargesHaveRecord, EventsAreCollected, RecordsPrecedeSecrets, CreateInv, TransferInv, ConfirmInv, InsertsAreApart, Collected, TransfersOf, TransferParams, TransferPCs, ConfirmPCs, RequestFails, Goto
<1>4. (\A q \in Requests : TransferInv(q))'
  BY DEF IInv, TypeOK, PC, Doc, PaymentStatus, StripeStatus, Allowed, PayoutsAreCollected, TransferOnRecord, ChargesHaveRecord, EventsAreCollected, RecordsPrecedeSecrets, CreateInv, TransferInv, ConfirmInv, InsertsAreApart, Collected, TransfersOf, TransferParams, TransferPCs, ConfirmPCs, RequestFails, Goto
<1>5. (\A q \in Requests : ConfirmInv(q))'
  BY DEF IInv, TypeOK, PC, Doc, PaymentStatus, StripeStatus, Allowed, PayoutsAreCollected, TransferOnRecord, ChargesHaveRecord, EventsAreCollected, RecordsPrecedeSecrets, CreateInv, TransferInv, ConfirmInv, InsertsAreApart, Collected, TransfersOf, TransferParams, TransferPCs, ConfirmPCs, RequestFails, Goto
<1>6. InsertsAreApart'
  BY DEF IInv, TypeOK, PC, Doc, PaymentStatus, StripeStatus, Allowed, PayoutsAreCollected, TransferOnRecord, ChargesHaveRecord, EventsAreCollected, RecordsPrecedeSecrets, CreateInv, TransferInv, ConfirmInv, InsertsAreApart, Collected, TransfersOf, TransferParams, TransferPCs, ConfirmPCs, RequestFails, Goto
<1>. QED  BY <1>1, <1>2, <1>3, <1>4, <1>5, <1>6 DEF IInv, DataInv

-----------------------------------------------------------------------------
\* Nothing is wrong in an empty deployment.
THEOREM InitIInv == Init => IInv
  BY PaymentsAssumption DEF Init, IInv, TypeOK, PC, PayoutsAreCollected, TransferOnRecord, ChargesHaveRecord,
     EventsAreCollected, RecordsPrecedeSecrets, CreateInv, TransferInv, ConfirmInv, InsertsAreApart,
     TransferPCs, ConfirmPCs, Collected, Event, StripeStatus, Allowed

\* IInv is about the state only.
LEMMA StutterIInv == IInv /\ UNCHANGED vars => IInv'
  BY DEF vars, IInv, TypeOK, PayoutsAreCollected, TransferOnRecord, ChargesHaveRecord,
     EventsAreCollected, RecordsPrecedeSecrets, CreateInv, TransferInv, ConfirmInv, InsertsAreApart,
     TransferParams, TransfersOf, Collected

\* IInv is inductive: every action of Next keeps it.
THEOREM NextIInv == IInv /\ [Next]_vars => IInv'
<1>. SUFFICES ASSUME IInv, Next PROVE IInv'
  BY StutterIInv
<1>1. ASSUME NEW r \in Requests, RequestStep(r) PROVE IInv'
  BY <1>1, StripeCreatesIntentStep, InsertPaymentStep, ReadStoreStep, StripeTransfersStep,
     RecordTransferStep, StripeConfirmsStep, SaveStatusStep DEF RequestStep
<1>2. ASSUME NEW r \in Requests, RequestFails(r) PROVE IInv'
  BY <1>2, RequestFailsStep
<1>3. ASSUME NEW r \in Requests, NEW u \in Users, NEW s \in Stores, NEW a \in Amounts,
             BeginCreate(r, u, s, a) PROVE IInv'
  BY <1>3, BeginCreateStep
<1>4. ASSUME NEW r \in Requests, NEW u \in Users, NEW p \in Payments,
             BeginTransfer(r, u, p) \/ BeginConfirm(r, u, p) PROVE IInv'
  BY <1>4, BeginTransferStep, BeginConfirmStep
<1>5. ASSUME NEW p \in Payments, NEW s \in StripeStatus, CustomerPays(p, s) PROVE IInv'
  BY <1>5, CustomerPaysStep
<1>6. ASSUME NEW p \in Payments, PaymentFails(p) \/ IntentCanceled(p) PROVE IInv'
  BY <1>6, PaymentFailsStep, IntentCanceledStep
<1>7. ASSUME NEW e \in events, DeliverEvent(e) PROVE IInv'
  BY <1>7, DeliverEventStep
<1>8. ASSUME NEW s \in Stores, OnboardingChanges(s) PROVE IInv'
  BY <1>8, OnboardingChangesStep
<1>. QED  BY <1>1, <1>2, <1>3, <1>4, <1>5, <1>6, <1>7, <1>8 DEF Next

\* The inductive invariant holds in every reachable state.
THEOREM SpecIInv == Spec => []IInv
  BY InitIInv, NextIInv, PTL DEF Spec

\* Every variable keeps its type in every behaviour.
THEOREM TypeCorrect == Spec => []TypeOK
<1>1. IInv => TypeOK  BY DEF IInv
<1>. QED  BY <1>1, SpecIInv, PTL

\* No payout, and no document that reports a collection, precedes the collection
\* at Stripe, however requests, failures and webhooks interleave.
THEOREM PayoutsAreCollectedAlways == Spec => []PayoutsAreCollected
<1>1. IInv => PayoutsAreCollected  BY DEF IInv
<1>. QED  BY <1>1, SpecIInv, PTL

\* A document marked transferred always names its own, exact transfer.
THEOREM TransferOnRecordAlways == Spec => []TransferOnRecord
<1>1. IInv => TransferOnRecord  BY DEF IInv
<1>. QED  BY <1>1, SpecIInv, PTL

\* No customer is charged without a payment document.
THEOREM ChargesHaveRecordAlways == Spec => []ChargesHaveRecord
<1>1. IInv => ChargesHaveRecord  BY DEF IInv
<1>. QED  BY <1>1, SpecIInv, PTL

-----------------------------------------------------------------------------
\* What a document says of the money: the split of an amount that leaves the
\* provider something.
Exact(d) ==
  /\ d.amount \in Amounts
  /\ d.provider = ProviderAmount(d.amount) /\ d.fee = PlatformFee(d.amount)
  /\ d.provider > 0

Paying == {r \in Requests : transfer[r] # None}
Recorded == {p \in Payments : payment[p] # None}

MoneyInv ==
  /\ \A p \in Payments : payment[p] # None => Exact(payment[p])
  /\ \A r \in Requests : doc[r] # None => Exact(doc[r])
  /\ \A r \in Requests : transfer[r] # None => transfer[r].amount \in Nat
  /\ IsFiniteSet(Paying) /\ IsFiniteSet(Recorded)

\* How a step changes the documents: one is inserted, or the status and the
\* transfer of one are written.
LEMMA DocumentsChange ==
  ASSUME IInv, Next
  PROVE  \/ \E r \in Requests : /\ pc[r] = "insert" /\ pay[r] \in Payments /\ doc[r] # None /\ ~Collected(pay[r])
                                /\ payment[pay[r]] = None /\ payment' = [payment EXCEPT ![pay[r]] = doc[r]]
                                /\ UNCHANGED <<intent, transfer>>
         \/ \A p \in Payments :
              IF payment[p] = None THEN payment'[p] = None
              ELSE /\ payment'[p] # None
                   /\ payment'[p].amount = payment[p].amount /\ payment'[p].store = payment[p].store
                   /\ payment'[p].provider = payment[p].provider /\ payment'[p].fee = payment[p].fee
<1> DEFINE Kept == \A p \in Payments :
              IF payment[p] = None THEN payment'[p] = None
              ELSE /\ payment'[p] # None
                   /\ payment'[p].amount = payment[p].amount /\ payment'[p].store = payment[p].store
                   /\ payment'[p].provider = payment[p].provider /\ payment'[p].fee = payment[p].fee
<1> USE PaymentsAssumption
<1>0. /\ payment \in [Payments -> Doc \cup {None}]
      /\ \A p \in Payments : payment[p] # None => payment[p] \in Doc
      /\ None \notin Doc
  BY DEF IInv, TypeOK
<1>1. ASSUME UNCHANGED payment PROVE Kept
  BY <1>1
<1>2. ASSUME NEW p \in Payments, NEW d, payment' = [payment EXCEPT ![p] = d], payment[p] # None,
             d \in Doc, d.amount = payment[p].amount, d.store = payment[p].store,
             d.provider = payment[p].provider, d.fee = payment[p].fee
      PROVE  Kept
  BY <1>0, <1>2
<1>3. ASSUME NEW r \in Requests, InsertPayment(r)
      PROVE  /\ pc[r] = "insert" /\ pay[r] \in Payments /\ doc[r] # None /\ ~Collected(pay[r])
             /\ payment[pay[r]] = None /\ payment' = [payment EXCEPT ![pay[r]] = doc[r]]
             /\ UNCHANGED <<intent, transfer>>
  BY <1>0, <1>3 DEF InsertPayment, IInv, CreateInv, ChargesHaveRecord, stripe
<1>4. ASSUME NEW r \in Requests, RecordTransfer(r) PROVE Kept
  <2> DEFINE d == PaidOut(payment[pay[r]], r)
  <2>1. pay[r] \in Payments /\ payment[pay[r]] # None /\ payment' = [payment EXCEPT ![pay[r]] = d]
    BY <1>4 DEF RecordTransfer, IInv, TransferInv, TransferPCs
  <2>2. payment[pay[r]] \in Doc
    BY <1>0, <2>1
  <2>3. /\ d \in Doc /\ d.amount = payment[pay[r]].amount /\ d.store = payment[pay[r]].store
        /\ d.provider = payment[pay[r]].provider /\ d.fee = payment[pay[r]].fee
    BY <2>2 DEF Doc, PaidOut, PaymentStatus
  <2> HIDE DEF d
  <2> QED
    BY <1>2, <2>1, <2>3
<1>5. ASSUME NEW r \in Requests, SaveStatus(r) PROVE Kept
  <2> DEFINE d == [payment[pay[r]] EXCEPT !.status = doc[r].status]
  <2>1. /\ pay[r] \in Payments /\ payment[pay[r]] # None /\ doc[r] \in Doc
        /\ payment' = [payment EXCEPT ![pay[r]] = d]
    BY <1>5 DEF SaveStatus, IInv, ConfirmInv, ConfirmPCs
  <2>2. payment[pay[r]] \in Doc
    BY <1>0, <2>1
  <2>3. /\ d \in Doc /\ d.amount = payment[pay[r]].amount /\ d.store = payment[pay[r]].store
        /\ d.provider = payment[pay[r]].provider /\ d.fee = payment[pay[r]].fee
    BY <2>1, <2>2 DEF Doc
  <2> HIDE DEF d
  <2> QED
    BY <1>2, <2>1, <2>3
<1>6. ASSUME NEW e \in events, DeliverEvent(e) PROVE Kept
  <2>1. CASE payment[e.pay] = None
    BY <1>1, <1>6, <2>1 DEF DeliverEvent
  <2>2. CASE payment[e.pay] # None
    <3> DEFINE d == Synced(payment[e.pay], e.status)
    <3>1. e.pay \in Payments /\ e.status \in StripeStatus /\ payment' = [payment EXCEPT ![e.pay] = d]
      BY <1>6, <2>2 DEF DeliverEvent, IInv, TypeOK, Event
    <3>2. payment[e.pay] \in Doc
      BY <1>0, <2>2, <3>1
    <3>3. /\ d \in Doc /\ d.amount = payment[e.pay].amount /\ d.store = payment[e.pay].store
          /\ d.provider = payment[e.pay].provider /\ d.fee = payment[e.pay].fee
      BY <3>1, <3>2 DEF Doc, Synced, MapStatus, PaymentStatus
    <3> HIDE DEF d
    <3> QED
      BY <1>2, <2>2, <3>1, <3>3
  <2> QED
    BY <2>1, <2>2
<1>7. \/ \E r \in Requests : InsertPayment(r) \/ RecordTransfer(r) \/ SaveStatus(r)
      \/ \E e \in events : DeliverEvent(e)
      \/ UNCHANGED payment
  BY DEF Next, RequestStep, StripeCreatesIntent, ReadStore, StripeTransfers, StripeConfirms, RequestFails,
         BeginCreate, BeginTransfer, BeginConfirm, CustomerPays, PaymentFails, IntentCanceled,
         OnboardingChanges, database
<1> HIDE DEF Kept
<1>8. (\E r \in Requests : InsertPayment(r)) \/ Kept
  BY <1>1, <1>4, <1>5, <1>6, <1>7
<1> QED
  BY <1>3, <1>8 DEF Kept

\* ... and what a request holds: the copy of a document, a new one, or the one it
\* held with another status.
LEMMA MemoryChange ==
  ASSUME IInv, Next, NEW r \in Requests
  PROVE  \/ doc'[r] = doc[r]
         \/ Exact(doc'[r])
         \/ \E p \in Payments : payment[p] # None /\ doc'[r] = payment[p]
         \/ /\ doc[r] # None /\ doc'[r].amount = doc[r].amount
            /\ doc'[r].provider = doc[r].provider /\ doc'[r].fee = doc[r].fee
<1> DEFINE Goal == \/ doc'[r] = doc[r]
                   \/ Exact(doc'[r])
                   \/ \E p \in Payments : payment[p] # None /\ doc'[r] = payment[p]
                   \/ /\ doc[r] # None /\ doc'[r].amount = doc[r].amount
                      /\ doc'[r].provider = doc[r].provider /\ doc'[r].fee = doc[r].fee
<1> USE PaymentsAssumption
<1>0. doc \in [Requests -> Doc \cup {None}] /\ None \notin Doc
  BY DEF IInv, TypeOK
<1>1. ASSUME UNCHANGED doc PROVE Goal
  BY <1>1
<1>2. ASSUME NEW q \in Requests, NEW u \in Users, NEW s \in Stores, NEW a \in Amounts, BeginCreate(q, u, s, a)
      PROVE  Goal
  <2> DEFINE d == [user |-> u, store |-> s, amount |-> a, provider |-> ProviderAmount(a),
                   fee |-> PlatformFee(a), status |-> "failed", transfer |-> None]
  <2>1. doc' = [doc EXCEPT ![q] = d] /\ Exact(d)
    BY <1>2 DEF BeginCreate, Exact
  <2> HIDE DEF d
  <2> QED
    BY <1>0, <2>1
<1>3. ASSUME NEW q \in Requests, NEW u \in Users, NEW p \in Payments, BeginTransfer(q, u, p) \/ BeginConfirm(q, u, p)
      PROVE  Goal
  BY <1>0, <1>3 DEF BeginTransfer, BeginConfirm
<1>4. ASSUME NEW q \in Requests, NEW st, doc[q] \in Doc, doc' = [doc EXCEPT ![q].status = st] PROVE Goal
  <2> DEFINE d == [doc[q] EXCEPT !.status = st]
  <2>1. doc' = [doc EXCEPT ![q] = d]
    BY <1>4
  <2>2. d.amount = doc[q].amount /\ d.provider = doc[q].provider /\ d.fee = doc[q].fee
    BY <1>4 DEF Doc
  <2> HIDE DEF d
  <2> QED
    BY <1>0, <1>4, <2>1, <2>2
<1>5. ASSUME NEW q \in Requests, NEW p \in Payments, StripeCreatesIntent(q, p) PROVE Goal
  <2>1. doc[q] \in Doc
    BY <1>5 DEF StripeCreatesIntent, IInv, CreateInv
  <2> QED
    BY <1>4, <1>5, <2>1 DEF StripeCreatesIntent
<1>6. ASSUME NEW q \in Requests, StripeConfirms(q) PROVE Goal
  <2>1. doc[q] \in Doc
    BY <1>6 DEF StripeConfirms, IInv, ConfirmInv, ConfirmPCs
  <2> QED
    BY <1>1, <1>4, <1>6, <2>1 DEF StripeConfirms
<1>7. \/ \E q \in Requests : StripeConfirms(q) \/ \E p \in Payments : StripeCreatesIntent(q, p)
      \/ \E q \in Requests, u \in Users, s \in Stores, a \in Amounts : BeginCreate(q, u, s, a)
      \/ \E q \in Requests, u \in Users, p \in Payments : BeginTransfer(q, u, p) \/ BeginConfirm(q, u, p)
      \/ UNCHANGED doc
  BY DEF Next, RequestStep, InsertPayment, ReadStore, StripeTransfers, RecordTransfer, SaveStatus, RequestFails,
         CustomerPays, PaymentFails, IntentCanceled, DeliverEvent, OnboardingChanges
<1> HIDE DEF Goal
<1>8. Goal
  BY <1>1, <1>2, <1>3, <1>5, <1>6, <1>7
<1> QED
  BY <1>8 DEF Goal

\* ... and the transfers: one more, of the share that the request holds.
LEMMA TransfersChange ==
  ASSUME IInv, Next
  PROVE  \/ \E r \in Requests : /\ pc[r] = "create_transfer" /\ transfer[r] = None /\ doc[r] # None /\ pay[r] \in Payments
                                /\ transfer' = [transfer EXCEPT ![r] = TransferParams(r)]
                                /\ UNCHANGED <<intent, payment>>
                                /\ pc' = [pc EXCEPT ![r] = "record_transfer"]
         \/ UNCHANGED transfer
<1>1. ASSUME NEW r \in Requests, StripeTransfers(r)
      PROVE  /\ pc[r] = "create_transfer" /\ transfer[r] = None /\ doc[r] # None /\ pay[r] \in Payments
             /\ transfer' = [transfer EXCEPT ![r] = TransferParams(r)]
             /\ UNCHANGED <<intent, payment>>
             /\ pc' = [pc EXCEPT ![r] = "record_transfer"]
  BY <1>1, PaymentsAssumption DEF StripeTransfers, IInv, TransferInv, TransferPCs, Goto, database
<1>2. (\E r \in Requests : StripeTransfers(r)) \/ UNCHANGED transfer
  BY DEF Next, RequestStep, StripeCreatesIntent, InsertPayment, ReadStore, RecordTransfer, StripeConfirms, SaveStatus,
         RequestFails, BeginCreate, BeginTransfer, BeginConfirm, CustomerPays, PaymentFails, IntentCanceled,
         DeliverEvent, OnboardingChanges, stripe
<1> QED
  BY <1>1, <1>2

\* MoneyInv holds in every reachable state.
LEMMA MoneyKept == ASSUME IInv, MoneyInv, [Next]_vars PROVE MoneyInv'
<1>1. CASE UNCHANGED vars
  BY <1>1 DEF MoneyInv, vars, Exact, Paying, Recorded
<1>2. CASE Next
  <2> USE <1>2, PaymentsAssumption
  <2>0. TypeOK
    BY DEF IInv
  <2>1. (\A p \in Payments : payment[p] # None => Exact(payment[p]))'
    BY <2>0, DocumentsChange DEF MoneyInv, Exact, TypeOK
  <2>2. (\A r \in Requests : doc[r] # None => Exact(doc[r]))'
    BY MemoryChange DEF MoneyInv, Exact
  <2>3. (\A r \in Requests : transfer[r] # None => transfer[r].amount \in Nat)'
    <3>1. \A r \in Requests : doc[r] # None => doc[r].provider \in Int
      BY <2>0 DEF TypeOK, Doc
    <3>2. \A r \in Requests : doc[r] # None => doc[r].provider \in Nat
      BY <3>1 DEF MoneyInv, Exact
    <3> QED
      BY <2>0, <3>2, TransfersChange DEF MoneyInv, TransferParams, TypeOK
  <2>4. IsFiniteSet(Paying)'
    <3>1. \E r : Paying' \subseteq Paying \cup {r}
      BY <2>0, TransfersChange DEF Paying, TypeOK
    <3> QED
      BY <3>1, FS_AddElement, FS_Subset DEF MoneyInv
  <2>5. IsFiniteSet(Recorded)'
    <3>1. \E p : Recorded' \subseteq Recorded \cup {p}
      BY <2>0, DocumentsChange DEF Recorded, TypeOK
    <3> QED
      BY <3>1, FS_AddElement, FS_Subset DEF MoneyInv
  <2> QED
    BY <2>1, <2>2, <2>3, <2>4, <2>5 DEF MoneyInv
<1> QED
  BY <1>1, <1>2

\* MoneyInv holds in every reachable state, with the invariant that it rests on.
LEMMA SpecMoney == Spec => [](IInv /\ MoneyInv)
<1>1. Init => MoneyInv
  <2>1. Init => Paying = {} /\ Recorded = {}
    BY DEF Init, Paying, Recorded
  <2> QED
    BY <2>1, FS_EmptySet DEF Init, MoneyInv
<1> QED
  BY <1>1, InitIInv, NextIInv, MoneyKept, PTL DEF Spec

-----------------------------------------------------------------------------
\* What was sent to the provider of a payment, as a sum over its transfers.
LEMMA SentIsSum ==
  ASSUME NEW p PROVE Sent(p) = Sum([r \in TransfersOf(p) |-> transfer[r].amount], TransfersOf(p))
  BY DEF Sent, Sum, MapThenSumSet, MapThenFoldSet

\* ... which is a natural number, and no transfer exceeds it.
LEMMA SentIsNat ==
  ASSUME MoneyInv, NEW p \in Payments
  PROVE  /\ Sent(p) \in Nat
         /\ \A r \in TransfersOf(p) : transfer[r].amount <= Sent(p)
<1> DEFINE T == TransfersOf(p)
           f == [r \in T |-> transfer[r].amount]
<1>1. IsFiniteSet(T) /\ T \subseteq Requests /\ \A r \in T : f[r] \in Nat
  <2>1. T \subseteq Paying /\ T \subseteq Requests /\ \A r \in T : transfer[r] # None
    BY DEF TransfersOf, Paying
  <2> QED
    BY <2>1, FS_Subset DEF MoneyInv
<1>2. Sent(p) = Sum(f, T)
  BY SentIsSum
<1>3. \A r \in T : f[r] = transfer[r].amount
  OBVIOUS
<1> HIDE DEF T, f
<1>4. Sum(f, T) \in Nat
  BY <1>1, SumNat
<1>5. ASSUME NEW r \in T PROVE f[r] <= Sum(f, T)
  <2>1. Sum(f, T) = f[r] + Sum(f, T \ {r})
    <3>1. T \in SUBSET T /\ \A x \in T : f[x] \in Int
      BY <1>1
    <3> QED
      BY <1>1, <3>1, SumTakes
  <2>2. Sum(f, T \ {r}) \in Nat
    <3>1. IsFiniteSet(T \ {r}) /\ \A x \in T \ {r} : f[x] \in Nat
      BY <1>1, FS_RemoveElement
    <3> QED
      BY <3>1, SumNat
  <2> QED
    BY <1>1, <2>1, <2>2
<1> QED
  BY <1>2, <1>3, <1>4, <1>5 DEF T

\* Each sum of the summary, as the sum of a function over a set.
LEMMA AmountsAsSum ==
  ASSUME NEW T PROVE MapThenSumSet(LAMBDA p : payment[p].amount, T) = Sum([p \in T |-> payment[p].amount], T)
  BY DEF Sum, MapThenSumSet, MapThenFoldSet

\* The summary's three sums over documents, as sums of functions.
LEMMA FeesAsSum ==
  ASSUME NEW T PROVE MapThenSumSet(LAMBDA p : payment[p].fee, T) = Sum([p \in T |-> payment[p].fee], T)
  BY DEF Sum, MapThenSumSet, MapThenFoldSet

\* ... of the providers' shares
LEMMA SharesAsSum ==
  ASSUME NEW T PROVE MapThenSumSet(LAMBDA p : payment[p].provider, T) = Sum([p \in T |-> payment[p].provider], T)
  BY DEF Sum, MapThenSumSet, MapThenFoldSet

\* ... and of what was sent.
LEMMA SentAsSum ==
  ASSUME NEW T PROVE MapThenSumSet(Sent, T) = Sum([p \in T |-> Sent(p)], T)
  BY DEF Sum, MapThenSumSet, MapThenFoldSet

\* The amounts of a document are integers.
LEMMA DocTypes == ASSUME NEW d \in Doc PROVE d.fee \in Int /\ d.provider \in Int /\ d.amount \in Int
<1>1. d.fee \in Int /\ d.provider \in Int /\ d.amount \in Amounts
  BY DEF Doc
<1>2. \A a \in Amounts : a \in Int
  BY PaymentsAssumption
<1> QED
  BY <1>1, <1>2

\* The summary of any stores balances, since the fee and the provider's share of every document
\* add up to its amount, and calls transferred only what Stripe sent, document by document.
LEMMA SummaryBalances ==
  ASSUME IInv, MoneyInv, NEW S \in SUBSET Stores
  PROVE  /\ Summary(S).collected = Summary(S).earningsTransferred + Summary(S).earningsPending + Summary(S).platformFees
         /\ Summary(S).earningsTransferred <= MapThenSumSet(Sent, Movements(S))
<1> DEFINE M == Movements(S)
           Done == WithStatus(S, {"transferred"})
           Due == WithStatus(S, {"succeeded"})
           Both == WithStatus(S, {"succeeded", "transferred"})
           amount == [p \in M |-> payment[p].amount]
           fee == [p \in M |-> payment[p].fee]
           provider == [p \in M |-> payment[p].provider]
           sent == [p \in M |-> Sent(p)]
<1>1. /\ Summary(S).collected = MapThenSumSet(LAMBDA p : payment[p].amount, Both)
      /\ Summary(S).platformFees = MapThenSumSet(LAMBDA p : payment[p].fee, Both)
      /\ Summary(S).earningsTransferred = MapThenSumSet(LAMBDA p : payment[p].provider, Done)
      /\ Summary(S).earningsPending = MapThenSumSet(LAMBDA p : payment[p].provider, Due)
  BY DEF Summary
<1>2. /\ Both = Done \cup Due /\ Done \cap Due = {}
      /\ Done \subseteq Both /\ Due \subseteq Both /\ Both \subseteq M
      /\ M \subseteq Payments /\ \A p \in M : payment[p] # None
  BY DEF WithStatus, Movements
<1>6. \A p \in M : /\ amount[p] = payment[p].amount /\ fee[p] = payment[p].fee
                   /\ provider[p] = payment[p].provider /\ sent[p] = Sent(p)
  OBVIOUS
<1>9. IsFiniteSet(M)
  <2>1. M \subseteq Recorded
    BY <1>2 DEF Recorded
  <2> QED
    BY <2>1, FS_Subset DEF MoneyInv
<1>3. /\ Summary(S).collected = Sum(amount, Both)
      /\ Summary(S).platformFees = Sum(fee, Both)
      /\ Summary(S).earningsTransferred = Sum(provider, Done)
      /\ Summary(S).earningsPending = Sum(provider, Due)
  <2> HIDE DEF M, Done, Due, Both, amount, fee, provider, sent
  <2>1. Sum([p \in Both |-> payment[p].amount], Both) = Sum(amount, Both)
    BY <1>2, <1>6, <1>9, PartSum
  <2>2. Sum([p \in Both |-> payment[p].fee], Both) = Sum(fee, Both)
    BY <1>2, <1>6, <1>9, PartSum
  <2>3. Sum([p \in Done |-> payment[p].provider], Done) = Sum(provider, Done)
    BY <1>2, <1>6, <1>9, PartSum
  <2>4. Sum([p \in Due |-> payment[p].provider], Due) = Sum(provider, Due)
    BY <1>2, <1>6, <1>9, PartSum
  <2> QED
    BY <1>1, <2>1, <2>2, <2>3, <2>4, AmountsAsSum, FeesAsSum, SharesAsSum
<1>5. MapThenSumSet(Sent, M) = Sum(sent, M)
  BY SentAsSum
<1>7. \A p \in M : /\ fee[p] \in Int /\ provider[p] \in Nat /\ sent[p] \in Nat
                   /\ amount[p] = provider[p] + fee[p]
  <2> SUFFICES ASSUME NEW p \in M
               PROVE  /\ payment[p].fee \in Int /\ payment[p].provider \in Nat /\ Sent(p) \in Nat
                      /\ payment[p].amount = payment[p].provider + payment[p].fee
    OBVIOUS
  <2>1. p \in Payments /\ payment[p] # None /\ payment[p] \in Doc
    BY <1>2 DEF IInv, TypeOK
  <2>2. payment[p].fee \in Int /\ payment[p].provider \in Int /\ payment[p].amount \in Int
    <3> HIDE DEF M, Done, Due, Both, amount, fee, provider, sent
    <3> QED
      BY <2>1, DocTypes
  <2>3. Exact(payment[p])
    BY <2>1 DEF MoneyInv
  <2>4. payment[p].amount = payment[p].provider + payment[p].fee
    BY <2>2, <2>3 DEF Exact, ProviderAmount
  <2> QED
    BY <2>1, <2>2, <2>3, <2>4, SentIsNat DEF Exact
<1>8. \A p \in Done : provider[p] <= sent[p]
  <2> SUFFICES ASSUME NEW p \in Done PROVE payment[p].provider <= Sent(p)
    BY <1>2, <1>6
  <2>1. p \in Payments /\ payment[p] # None /\ payment[p].status = "transferred"
    BY <1>2 DEF WithStatus
  <2>2. payment[p].transfer \in TransfersOf(p) /\ transfer[payment[p].transfer].amount = payment[p].provider
    BY <2>1 DEF IInv, TransferOnRecord
  <2> QED
    BY <2>1, <2>2, SentIsNat
<1> HIDE DEF M, Done, Due, Both, amount, fee, provider, sent
<1>10. IsFiniteSet(Done) /\ IsFiniteSet(Both)
  <2>1. Done \in SUBSET M /\ Both \in SUBSET M
    BY <1>2
  <2> QED
    BY <1>9, <2>1, FS_Subset
<1>11. Sum(amount, Both) = Sum(provider, Both) + Sum(fee, Both)
  <2>1. \A p \in Both : provider[p] \in Int /\ fee[p] \in Int /\ amount[p] = provider[p] + fee[p]
    BY <1>2, <1>7
  <2> QED
    BY <1>10, <2>1, SumSplits
<1>12. Sum(provider, Both) = Sum(provider, Done) + Sum(provider, Due)
  <2>1. /\ \A p \in Both : provider[p] \in Int
        /\ Done \in SUBSET Both /\ Due \in SUBSET Both /\ Done \cap Due = {}
    BY <1>2, <1>7
  <2>2. Sum(provider, Done \cup Due) = Sum(provider, Done) + Sum(provider, Due)
    <3>1. IsFiniteSet(Both)
      BY <1>10
    <3> QED
      BY <3>1, <2>1, SumUnion
  <2> QED
    BY <1>2, <2>2
<1>13. Sum(provider, Done) <= Sum(sent, Done)
  <2>1. \A p \in Done : provider[p] \in Int /\ sent[p] \in Int /\ provider[p] <= sent[p]
    BY <1>2, <1>7, <1>8
  <2> QED
    BY <1>10, <2>1, SumMonotone
<1>14. Sum(sent, Done) <= Sum(sent, M)
  <2> DEFINE rest == M \ Done
  <2>1. /\ Done \in SUBSET M /\ rest \in SUBSET M /\ Done \cap rest = {} /\ Done \cup rest = M
        /\ \A p \in M : sent[p] \in Int
    BY <1>2, <1>7
  <2>2. IsFiniteSet(rest) /\ \A p \in rest : sent[p] \in Nat
    BY <1>7, <1>9, FS_Difference
  <2> HIDE DEF rest
  <2>3. Sum(sent, Done \cup rest) = Sum(sent, Done) + Sum(sent, rest)
    BY <1>9, <2>1, SumUnion
  <2>4. Sum(sent, rest) \in Nat /\ Sum(sent, Done) \in Int
    BY <1>9, <2>1, <2>2, SumNat, SumInt
  <2> QED
    <3> DEFINE x == Sum(sent, Done)
               y == Sum(sent, rest)
    <3>1. Sum(sent, M) = x + y
      BY <2>1, <2>3
    <3>2. y \in Nat /\ x \in Int
      BY <2>4
    <3>3. x <= x + y
      <4> HIDE DEF x, y
      <4> QED
        BY <3>2
    <3> QED
      BY <3>1, <3>3
<1>15. /\ Sum(provider, Done) \in Int /\ Sum(provider, Due) \in Int /\ Sum(fee, Both) \in Int
       /\ Sum(sent, Done) \in Int /\ Sum(sent, M) \in Int
  <2>1. /\ Done \in SUBSET M /\ Due \in SUBSET M /\ Both \in SUBSET M /\ M \in SUBSET M
        /\ \A p \in M : sent[p] \in Int /\ provider[p] \in Int /\ fee[p] \in Int
    BY <1>2, <1>7
  <2> QED
    BY <1>9, <2>1, SumInt
<1>16. Summary(S).collected = Summary(S).earningsTransferred + Summary(S).earningsPending + Summary(S).platformFees
  BY <1>3, <1>11, <1>12, <1>15
<1>17. Summary(S).earningsTransferred <= MapThenSumSet(Sent, M)
  BY <1>3, <1>5, <1>13, <1>14, <1>15
<1> QED
  BY <1>16, <1>17 DEF M

\* getProviderMovements: in every reachable state, whatever requests overlap or die, the summary
\* of any stores balances to the cent and what it calls transferred is covered by transfers.
THEOREM SummaryIsSoundAlways == Spec => []SummaryIsSound
<1>1. IInv /\ MoneyInv => SummaryIsSound
  BY SummaryBalances DEF SummaryIsSound
<1> QED
  BY <1>1, SpecMoney, PTL

-----------------------------------------------------------------------------
\* PART 3: PAYMENTS IMPLEMENT ESCROW

\* A calm deployment: one request at a time, which does not fail, webhooks in
\* order and once, and no confirm-test.
Calm == ~Overlap /\ ~MayFail /\ ~Redelivers /\ Ordered /\ IsProduction

Active(r) == pc[r] \notin {"idle", "done"}

OneRequest == \A q, r \in Requests : Active(q) /\ Active(r) => q = r

\* The snapshots of an intent are numbered, and that of its success is the last.
EventsNumbered ==
  /\ \A e \in events : e.n < attempts[e.pay]
  /\ \A e, f \in events : e.pay = f.pay /\ e.status = "succeeded" => f.n <= e.n
  /\ \A e, f \in events : e.pay = f.pay /\ e.n = f.n => e = f

\* No webhook is left of a payment whose document says it is collected.
Reported ==
  \A p \in Payments :
    payment[p] # None /\ payment[p].status \in {"succeeded", "transferred"} => \A e \in events : e.pay # p

\* While a request transfers, the document still says what the request loaded.
TransferPending ==
  \A r \in Requests :
    /\ pc[r] \in TransferPCs => payment[pay[r]].status = "succeeded"
    /\ pc[r] \notin ConfirmPCs

\* A transfer is recorded, or its request is about to record it.
TransferRecorded ==
  \A r \in Requests :
    transfer[r] # None => \/ pc[r] = "record_transfer"
                          \/ payment[transfer[r].pay] # None /\ payment[transfer[r].pay].status = "transferred"

CalmInv == OneRequest /\ EventsNumbered /\ Reported /\ TransferPending /\ TransferRecorded

\* How the steps of a calm deployment move the requests.
LEMMA CalmMoves ==
  ASSUME Calm, IInv, CalmInv, Next
  PROVE  \/ UNCHANGED pc
         \/ \E r \in Requests, l \in PC : /\ pc' = [pc EXCEPT ![r] = l]
                                          /\ Active(r) \/ \A q \in Requests : ~Active(q)
<1> DEFINE Move(r) == \E l \in PC : pc' = [pc EXCEPT ![r] = l] /\ (Active(r) \/ \A q \in Requests : ~Active(q))
<1> USE DEF Active, Goto, PC
<1>1. ASSUME NEW r \in Requests, RequestStep(r) PROVE Move(r)
  BY <1>1 DEF RequestStep, StripeCreatesIntent, InsertPayment, ReadStore, StripeTransfers, RecordTransfer,
              StripeConfirms, SaveStatus
<1>2. ASSUME NEW r \in Requests, NEW u \in Users, NEW s \in Stores, NEW a \in Amounts, BeginCreate(r, u, s, a)
      PROVE  Move(r)
  BY <1>2 DEF BeginCreate, Idle, Calm
<1>3. ASSUME NEW r \in Requests, NEW u \in Users, NEW p \in Payments, BeginTransfer(r, u, p) \/ BeginConfirm(r, u, p)
      PROVE  Move(r)
  BY <1>3 DEF BeginTransfer, BeginConfirm, Idle, Calm
<1>4. ASSUME NEW r \in Requests, RequestFails(r) PROVE FALSE
  BY <1>4 DEF RequestFails, Calm
<1>5. \/ \E r \in Requests : RequestStep(r) \/ RequestFails(r)
      \/ \E r \in Requests, u \in Users, s \in Stores, a \in Amounts : BeginCreate(r, u, s, a)
      \/ \E r \in Requests, u \in Users, p \in Payments : BeginTransfer(r, u, p) \/ BeginConfirm(r, u, p)
      \/ UNCHANGED pc
  BY DEF Next, CustomerPays, PaymentFails, IntentCanceled, DeliverEvent, OnboardingChanges
<1> HIDE DEF Move
<1>6. (\E r \in Requests : Move(r)) \/ UNCHANGED pc
  BY <1>1, <1>2, <1>3, <1>4, <1>5
<1> QED
  BY <1>6 DEF Move

\* No step makes a second request active.
LEMMA OneRequestKept == ASSUME Calm, IInv, CalmInv, Next PROVE OneRequest'
  BY CalmMoves DEF CalmInv, OneRequest, Active, IInv, TypeOK

\* How they move the webhooks: one more of an intent that was not collected, or one less.
LEMMA CalmEvents ==
  ASSUME Calm, IInv, CalmInv, Next
  PROVE  \/ UNCHANGED <<events, attempts>>
         \/ \E p \in Payments, s \in StripeStatus : ~Collected(p) /\ Emit(p, s) /\ UNCHANGED <<payment, pc, pay, transfer>>
         \/ \E e \in events : DeliverEvent(e)
<1> DEFINE Emits == \E p \in Payments, s \in StripeStatus : ~Collected(p) /\ Emit(p, s) /\ UNCHANGED <<payment, pc, pay, transfer>>
<1>1. ASSUME NEW p \in Payments, NEW s \in StripeStatus, CustomerPays(p, s) PROVE Emits \/ UNCHANGED <<events, attempts>>
  BY <1>1 DEF CustomerPays, Settle, Collected, Confirmable, database
<1>2. ASSUME NEW p \in Payments, PaymentFails(p) PROVE Emits
  BY <1>2 DEF PaymentFails, Collected, Confirmable, StripeStatus, Allowed, database
<1>3. ASSUME NEW p \in Payments, IntentCanceled(p) PROVE Emits
  BY <1>3 DEF IntentCanceled, Collected, Confirmable, StripeStatus, Allowed, database
<1>4. ASSUME NEW r \in Requests, StripeConfirms(r) PROVE FALSE
  BY <1>4 DEF StripeConfirms, CalmInv, TransferPending, ConfirmPCs
<1>5. \/ \E p \in Payments : PaymentFails(p) \/ IntentCanceled(p) \/ \E s \in StripeStatus : CustomerPays(p, s)
      \/ \E r \in Requests : StripeConfirms(r)
      \/ \E e \in events : DeliverEvent(e)
      \/ UNCHANGED <<events, attempts>>
  BY DEF Next, RequestStep, StripeCreatesIntent, InsertPayment, ReadStore, StripeTransfers, RecordTransfer,
         SaveStatus, RequestFails, BeginCreate, BeginTransfer, BeginConfirm, OnboardingChanges, stripe
<1> HIDE DEF Emits
<1>6. Emits \/ UNCHANGED <<events, attempts>> \/ \E e \in events : DeliverEvent(e)
  BY <1>1, <1>2, <1>3, <1>4, <1>5
<1> QED
  BY <1>6 DEF Emits

\* The numbers of the webhooks stay distinct, the success the last of its intent.
LEMMA EventsNumberedKept == ASSUME Calm, IInv, CalmInv, Next PROVE EventsNumbered'
<1>0. EventsNumbered /\ EventsAreCollected /\ attempts \in [Payments -> Nat] /\ events \subseteq Event
  BY DEF CalmInv, IInv, TypeOK
<1>1. ASSUME NEW p \in Payments, NEW s \in StripeStatus, ~Collected(p), Emit(p, s) PROVE EventsNumbered'
  <2> DEFINE new == [pay |-> p, n |-> attempts[p], status |-> s]
  <2>1. /\ attempts' = [attempts EXCEPT ![p] = @ + 1] /\ events' = events \cup {new}
        /\ new.pay = p /\ new.n = attempts[p] /\ new.status = s
    BY <1>1 DEF Emit
  <2> HIDE DEF new
  <2>2. \A e \in events : /\ e.n \in Nat /\ e.n < attempts[e.pay] /\ e.pay \in Payments
                          /\ e.status = "succeeded" => e.pay # p
    BY <1>0, <1>1 DEF EventsNumbered, EventsAreCollected, Event
  <2>3. (\A e \in events : e.n < attempts[e.pay])'
    BY <1>0, <2>1, <2>2
  <2>4. (\A e, f \in events : e.pay = f.pay /\ e.status = "succeeded" => f.n <= e.n)'
    BY <1>0, <2>1, <2>2 DEF EventsNumbered
  <2>5. (\A e, f \in events : e.pay = f.pay /\ e.n = f.n => e = f)'
    BY <1>0, <2>1, <2>2 DEF EventsNumbered
  <2> QED
    BY <2>3, <2>4, <2>5 DEF EventsNumbered
<1>2. ASSUME NEW e \in events, DeliverEvent(e) PROVE EventsNumbered'
  BY <1>0, <1>2 DEF DeliverEvent, EventsNumbered
<1>3. ASSUME UNCHANGED <<events, attempts>> PROVE EventsNumbered'
  BY <1>0, <1>3 DEF EventsNumbered
<1> QED
  BY <1>1, <1>2, <1>3, CalmEvents

\* How they move the documents.
LEMMA CalmDocuments ==
  ASSUME Calm, IInv, CalmInv, Next
  PROVE  \/ \E r \in Requests : InsertPayment(r) \/ RecordTransfer(r)
         \/ \E e \in events : DeliverEvent(e)
         \/ UNCHANGED payment
<1>1. ASSUME NEW r \in Requests, SaveStatus(r) PROVE FALSE
  BY <1>1 DEF SaveStatus, CalmInv, TransferPending, ConfirmPCs
<1> QED
  BY <1>1 DEF Next, RequestStep, StripeCreatesIntent, ReadStore, StripeTransfers, StripeConfirms, RequestFails,
         BeginCreate, BeginTransfer, BeginConfirm, CustomerPays, PaymentFails, IntentCanceled,
         OnboardingChanges, database

\* The status a delivered webhook leaves.
LEMMA Delivered ==
  ASSUME Calm, IInv, CalmInv, NEW e \in events, DeliverEvent(e)
  PROVE  /\ events' = events \ {e}
         /\ \A p \in Payments : payment[p] # None =>
              /\ payment'[p] # None
              /\ p # e.pay => payment'[p].status = payment[p].status
              /\ p = e.pay => /\ payment'[p].status = MapStatus(e.status)
                              /\ payment[p].status \notin {"succeeded", "transferred"}
         /\ \A p \in Payments : payment[p] = None => payment'[p] = None
<1>1. /\ e.pay \in Payments /\ payment \in [Payments -> Doc \cup {None}] /\ None \notin Doc
      /\ e.status \in StripeStatus
  BY PaymentsAssumption DEF IInv, TypeOK, Event
<1>2. events' = events \ {e} /\ Reported
  BY DEF DeliverEvent, Calm, CalmInv
<1>3. CASE payment[e.pay] = None
  BY <1>1, <1>2, <1>3 DEF DeliverEvent
<1>4. CASE payment[e.pay] # None
  <2> DEFINE d == Synced(payment[e.pay], e.status)
  <2>1. payment' = [payment EXCEPT ![e.pay] = d]
    BY <1>4 DEF DeliverEvent
  <2>2. payment[e.pay] \in Doc
    BY <1>1, <1>4
  <2>3. d \in Doc /\ d.status = MapStatus(e.status)
    BY <1>1, <2>2 DEF Doc, Synced, MapStatus, PaymentStatus
  <2> HIDE DEF d
  <2>4. payment[e.pay].status \notin {"succeeded", "transferred"}
    BY <1>1, <1>2, <1>4 DEF Reported
  <2> QED
    BY <1>1, <1>2, <1>4, <2>1, <2>3, <2>4
<1> QED
  BY <1>3, <1>4

\* What inserting a document changes.
LEMMA Inserted ==
  ASSUME IInv, NEW r \in Requests, InsertPayment(r)
  PROVE  /\ pay[r] \in Payments /\ payment[pay[r]] = None /\ ~Collected(pay[r])
         /\ payment' = [payment EXCEPT ![pay[r]] = doc[r]]
         /\ doc[r].status = "requires_payment_method"
         /\ UNCHANGED <<events, transfer, pay>>
         /\ pc[r] = "insert" /\ pc' = [pc EXCEPT ![r] = "done"]
  BY DEF InsertPayment, IInv, CreateInv, ChargesHaveRecord, stripe, Goto

\* What recording a transfer changes.
LEMMA Recording ==
  ASSUME IInv, CalmInv, NEW r \in Requests, RecordTransfer(r)
  PROVE  /\ pay[r] \in Payments /\ payment[pay[r]] # None /\ payment[pay[r]].status = "succeeded"
         /\ transfer[r].pay = pay[r]
         /\ payment'[pay[r]] # None /\ payment'[pay[r]].status = "transferred"
         /\ \A p \in Payments : p # pay[r] => payment'[p] = payment[p]
         /\ UNCHANGED <<events, transfer, pay>>
         /\ pc[r] = "record_transfer" /\ pc' = [pc EXCEPT ![r] = "done"]
<1> DEFINE d == PaidOut(payment[pay[r]], r)
<1>1. /\ pay[r] \in Payments /\ payment[pay[r]] # None /\ payment' = [payment EXCEPT ![pay[r]] = d]
      /\ transfer[r] = TransferParams(r)
  BY DEF RecordTransfer, IInv, TransferInv, TransferPCs
<1>2. payment[pay[r]] \in Doc /\ None \notin Doc /\ payment \in [Payments -> Doc \cup {None}]
  BY <1>1, PaymentsAssumption DEF IInv, TypeOK
<1>3. d \in Doc /\ d.status = "transferred"
  BY <1>2 DEF Doc, PaidOut, PaymentStatus
<1> HIDE DEF d
<1>4. payment[pay[r]].status = "succeeded" /\ pc[r] = "record_transfer"
  BY DEF RecordTransfer, CalmInv, TransferPending, TransferPCs
<1>5. transfer[r].pay = pay[r]
  BY <1>1 DEF TransferParams
<1>6. UNCHANGED <<events, transfer, pay>> /\ pc' = [pc EXCEPT ![r] = "done"]
  BY DEF RecordTransfer, stripe, Goto
<1> QED
  BY <1>1, <1>2, <1>3, <1>4, <1>5, <1>6

\* A webhook of a collected payment is delivered before its document says so.
LEMMA ReportedKept == ASSUME Calm, IInv, CalmInv, Next PROVE Reported'
<1>0. /\ Reported /\ EventsAreCollected /\ PayoutsAreCollected /\ events \subseteq Event
      /\ EventsNumbered /\ payment \in [Payments -> Doc \cup {None}]
  BY DEF CalmInv, IInv, TypeOK
<1>1. ASSUME NEW r \in Requests, InsertPayment(r) PROVE Reported'
  BY <1>0, <1>1, Inserted DEF Reported
<1>2. ASSUME NEW r \in Requests, RecordTransfer(r) PROVE Reported'
  BY <1>0, <1>2, Recording DEF Reported
<1>3. ASSUME NEW e \in events, DeliverEvent(e) PROVE Reported'
  <2> SUFFICES ASSUME NEW p \in Payments, payment'[p] # None, payment'[p].status \in {"succeeded", "transferred"},
                      NEW f \in events', f.pay = p
               PROVE  FALSE
    BY DEF Reported
  <2>1. f \in events /\ f # e /\ payment[p] # None
    BY <1>3, Delivered
  <2>2. p = e.pay /\ e.status = "succeeded"
    BY <1>0, <1>3, <2>1, Delivered DEF Reported, MapStatus, Allowed
  <2>3. f.n <= e.n /\ e.n <= f.n /\ f.n \in Nat /\ e.n \in Nat
    <3>1. e.n <= f.n
      BY <1>3, <2>1, <2>2 DEF DeliverEvent, Deliverable, Calm
    <3>2. f.n \in Nat /\ e.n \in Nat
      BY <1>0, <2>1 DEF Event
    <3> QED
      BY <1>0, <2>1, <2>2, <3>1, <3>2 DEF EventsNumbered
  <2> QED
    BY <1>0, <2>1, <2>2, <2>3 DEF EventsNumbered
<1>4. ASSUME NEW p \in Payments, NEW s \in StripeStatus, ~Collected(p), Emit(p, s), UNCHANGED payment PROVE Reported'
  <2> DEFINE new == [pay |-> p, n |-> attempts[p], status |-> s]
  <2>1. events' = events \cup {new} /\ new.pay = p
    BY <1>4 DEF Emit
  <2> HIDE DEF new
  <2> QED
    BY <1>0, <1>4, <2>1 DEF Reported, PayoutsAreCollected
<1>5. ASSUME UNCHANGED <<events, payment>> PROVE Reported'
  BY <1>0, <1>5 DEF Reported
<1>6. ASSUME NEW r \in Requests, InsertPayment(r) \/ RecordTransfer(r) PROVE UNCHANGED <<events, attempts>>
  BY <1>6 DEF InsertPayment, RecordTransfer, stripe
<1> QED
  BY <1>1, <1>2, <1>3, <1>4, <1>5, <1>6, CalmEvents, CalmDocuments

\* Nothing changes the document under a request that transfers.
LEMMA TransferPendingKept == ASSUME Calm, IInv, CalmInv, Next PROVE TransferPending'
<1>0. /\ TransferPending /\ Reported /\ PayoutsAreCollected /\ OneRequest
      /\ pc \in [Requests -> PC] /\ pay \in [Requests -> Payments \cup {None}]
      /\ payment \in [Payments -> Doc \cup {None}]
      /\ \A r \in Requests : pc[r] \in TransferPCs => pay[r] \in Payments /\ payment[pay[r]] # None
  BY DEF CalmInv, IInv, TypeOK, TransferInv
<1>1. ASSUME NEW r \in Requests, InsertPayment(r) PROVE TransferPending'
  BY <1>0, <1>1, Inserted DEF TransferPending, TransferPCs, ConfirmPCs
<1>2. ASSUME NEW r \in Requests, RecordTransfer(r) PROVE TransferPending'
  BY <1>0, <1>2, Recording DEF TransferPending, TransferPCs, ConfirmPCs, OneRequest, Active
<1>3. ASSUME NEW e \in events, DeliverEvent(e) PROVE TransferPending'
  <2>1. UNCHANGED <<pc, pay>>
    BY <1>3 DEF DeliverEvent
  <2>2. \A p \in Payments : payment[p] # None /\ payment[p].status = "succeeded" => payment'[p].status = "succeeded"
    BY <1>3, Delivered
  <2> QED
    BY <1>0, <2>1, <2>2 DEF TransferPending
<1>4. ASSUME UNCHANGED payment, NEW r \in Requests, RequestStep(r), ~InsertPayment(r), ~RecordTransfer(r)
      PROVE  TransferPending'
  BY <1>0, <1>4 DEF TransferPending, TransferPCs, ConfirmPCs, RequestStep, StripeCreatesIntent, ReadStore,
     StripeTransfers, StripeConfirms, SaveStatus, Goto
<1>5. ASSUME NEW r \in Requests, NEW u \in Users, NEW s \in Stores, NEW a \in Amounts, BeginCreate(r, u, s, a)
      PROVE  TransferPending'
  BY <1>0, <1>5 DEF TransferPending, TransferPCs, ConfirmPCs, BeginCreate, Goto, database
<1>6. ASSUME NEW r \in Requests, NEW u \in Users, NEW p \in Payments, BeginTransfer(r, u, p)
      PROVE  TransferPending'
  BY <1>0, <1>6 DEF TransferPending, TransferPCs, ConfirmPCs, BeginTransfer, Goto, database, Transferable
<1>7. ASSUME UNCHANGED <<pc, pay, payment>> PROVE TransferPending'
  BY <1>0, <1>7 DEF TransferPending
<1>8. \A r \in Requests, u \in Users, p \in Payments : ~BeginConfirm(r, u, p)
  BY DEF BeginConfirm, Calm
<1>9. \A r \in Requests : ~RequestFails(r)
  BY DEF RequestFails, Calm
<1>10. \/ UNCHANGED payment
       \/ \E r \in Requests : InsertPayment(r) \/ RecordTransfer(r)
       \/ \E e \in events : DeliverEvent(e)
  BY CalmDocuments
<1>11. \/ \E r \in Requests : RequestStep(r)
       \/ \E r \in Requests, u \in Users, s \in Stores, a \in Amounts : BeginCreate(r, u, s, a)
       \/ \E r \in Requests, u \in Users, p \in Payments : BeginTransfer(r, u, p)
       \/ \E e \in events : DeliverEvent(e)
       \/ UNCHANGED <<pc, pay, payment>>
  BY <1>8, <1>9 DEF Next, CustomerPays, PaymentFails, IntentCanceled, OnboardingChanges, database
<1> QED
  BY <1>1, <1>2, <1>3, <1>4, <1>5, <1>6, <1>7, <1>10, <1>11

\* Every transfer is recorded by the request that made it.
LEMMA TransferRecordedKept == ASSUME Calm, IInv, CalmInv, Next PROVE TransferRecorded'
<1>0. /\ TransferRecorded /\ TransferPending /\ Reported /\ PayoutsAreCollected /\ OneRequest
      /\ pc \in [Requests -> PC] /\ pay \in [Requests -> Payments \cup {None}]
      /\ payment \in [Payments -> Doc \cup {None}]
      /\ transfer \in [Requests -> Transfer \cup {None}] /\ None \notin Transfer
      /\ \A r \in Requests : transfer[r] # None => transfer[r].pay \in Payments /\ pc[r] \in {"record_transfer", "done"}
  <2>1. transfer \in [Requests -> Transfer \cup {None}] /\ None \notin Transfer
    BY PaymentsAssumption DEF IInv, TypeOK
  <2>2. \A t \in Transfer : t.pay \in Payments
    BY DEF Transfer
  <2> QED
    BY <2>1, <2>2 DEF CalmInv, IInv, TypeOK, TransferInv
<1>1. ASSUME NEW r \in Requests, InsertPayment(r) PROVE TransferRecorded'
  BY <1>0, <1>1, Inserted DEF TransferRecorded
<1>2. ASSUME NEW r \in Requests, RecordTransfer(r) PROVE TransferRecorded'
  BY <1>0, <1>2, Recording DEF TransferRecorded
<1>3. ASSUME NEW e \in events, DeliverEvent(e) PROVE TransferRecorded'
  <2>1. UNCHANGED <<pc, transfer>>
    BY <1>3 DEF DeliverEvent
  <2>2. \A p \in Payments : payment[p] # None /\ payment[p].status = "transferred"
           => payment'[p] # None /\ payment'[p].status = "transferred"
    BY <1>3, Delivered
  <2> QED
    BY <1>0, <2>1, <2>2 DEF TransferRecorded
<1>4. ASSUME UNCHANGED payment PROVE TransferRecorded'
  <2>1. ASSUME NEW r \in Requests, transfer'[r] # None, transfer[r] = None PROVE pc'[r] = "record_transfer"
    BY <1>0, <2>1, TransfersChange
  <2>2. ASSUME NEW r \in Requests, transfer[r] # None PROVE transfer'[r] = transfer[r]
    BY <1>0, <2>2, TransfersChange
  <2>3. ASSUME NEW r \in Requests, pc[r] = "record_transfer", pc'[r] # "record_transfer" PROVE RecordTransfer(r)
    <3>1. ASSUME NEW q \in Requests, RequestStep(q), ~RecordTransfer(q) PROVE pc'[r] = pc[r]
      BY <1>0, <2>3, <3>1 DEF RequestStep, StripeCreatesIntent, InsertPayment, ReadStore, StripeTransfers,
         StripeConfirms, SaveStatus, Goto
    <3>2. ASSUME NEW q \in Requests, NEW u \in Users, NEW st \in Stores, NEW a \in Amounts, BeginCreate(q, u, st, a)
          PROVE  pc'[r] = pc[r]
      BY <1>0, <2>3, <3>2 DEF BeginCreate, Idle, Goto
    <3>3. ASSUME NEW q \in Requests, NEW u \in Users, NEW p \in Payments, BeginTransfer(q, u, p) \/ BeginConfirm(q, u, p)
          PROVE  pc'[r] = pc[r]
      BY <1>0, <2>3, <3>3 DEF BeginTransfer, BeginConfirm, Idle, Goto
    <3>4. \A q \in Requests : ~RequestFails(q)
      BY DEF RequestFails, Calm
    <3>5. ASSUME NEW q \in Requests, RecordTransfer(q) PROVE q = r
      BY <1>0, <2>3, <3>5 DEF RecordTransfer, Goto
    <3> QED
      BY <2>3, <3>1, <3>2, <3>3, <3>4, <3>5
      DEF Next, CustomerPays, PaymentFails, IntentCanceled, DeliverEvent, OnboardingChanges
  <2>4. CASE \E r \in Requests : RecordTransfer(r)
    BY <1>2, <2>4
  <2>5. CASE \A r \in Requests : ~RecordTransfer(r)
    BY <1>0, <1>4, <2>1, <2>2, <2>3, <2>5 DEF TransferRecorded
  <2> QED
    BY <2>4, <2>5
<1> QED
  BY <1>1, <1>2, <1>3, <1>4, CalmDocuments

\* CalmInv is inductive in a calm deployment.
LEMMA CalmKept == ASSUME Calm, IInv, CalmInv, [Next]_vars PROVE CalmInv'
<1>1. CASE Next
  BY <1>1, OneRequestKept, EventsNumberedKept, ReportedKept, TransferPendingKept, TransferRecordedKept DEF CalmInv
<1>2. CASE UNCHANGED vars
  BY <1>2 DEF vars, CalmInv, OneRequest, Active, EventsNumbered, Reported, TransferPending, TransferRecorded
<1> QED
  BY <1>1, <1>2

\* CalmInv holds in every reachable state of a calm deployment.
LEMMA SpecCalm == ASSUME Calm PROVE Spec => [](IInv /\ MoneyInv /\ CalmInv)
<1>1. Init => CalmInv
  BY DEF Init, CalmInv, OneRequest, Active, EventsNumbered, Reported, TransferPending, TransferRecorded,
         TransferPCs, ConfirmPCs
<1>2. IInv /\ CalmInv /\ [Next]_vars => CalmInv'
  BY CalmKept
<1> QED
  BY <1>1, <1>2, InitIInv, NextIInv, SpecMoney, PTL DEF Spec

\* ProviderMovement.transferred: where requests neither overlap nor die, once money was sent and no
\* request is about to record it, the document says so.
THEOREM FlagFollowsMoneyAlways ==
  ASSUME Calm
  PROVE  Spec => []FlagFollowsMoney
<1>1. CalmInv => FlagFollowsMoney
  BY DEF CalmInv, TransferRecorded, FlagFollowsMoney, TransfersOf
<1> QED
  BY <1>1, SpecCalm, PTL

-----------------------------------------------------------------------------
charged == [p \in Payments |-> IF Collected(p) THEN payment[p].amount ELSE 0]
paidOut == [p \in Payments |-> Sent(p)]

\* How a step changes the success of an intent.
LEMMA IntentsChange ==
  ASSUME Calm, IInv, CalmInv, Next
  PROVE  \/ \E p \in Payments : /\ payment[p] # None /\ ~Collected(p) /\ Collected(p)'
                                /\ \A q \in Payments : q # p => intent'[q] = intent[q]
                                /\ UNCHANGED <<payment, transfer>>
         \/ \A p \in Payments : Collected(p)' = Collected(p)
<1> DEFINE Same == \A p \in Payments : Collected(p)' = Collected(p)
           Collecting == \E p \in Payments :
                        /\ payment[p] # None /\ ~Collected(p) /\ Collected(p)'
                        /\ \A q \in Payments : q # p => intent'[q] = intent[q]
                        /\ UNCHANGED <<payment, transfer>>
<1> USE PaymentsAssumption
<1>0. intent \in [Payments -> StripeStatus \cup {None}] /\ "succeeded" # None
  BY DEF IInv, TypeOK, StripeStatus, Allowed
<1>1. ASSUME NEW p \in Payments, NEW s \in StripeStatus, CustomerPays(p, s) PROVE Collecting \/ Same
  <2>1. payment[p] # None
    BY <1>1 DEF CustomerPays, IInv, RecordsPrecedeSecrets
  <2> QED
    BY <1>0, <1>1, <2>1 DEF CustomerPays, Settle, Collected, Confirmable, database
<1>2. ASSUME NEW p \in Payments, PaymentFails(p) \/ IntentCanceled(p) PROVE Same
  BY <1>0, <1>2 DEF PaymentFails, IntentCanceled, Collected, Confirmable
<1>3. ASSUME NEW r \in Requests, NEW p \in Payments, StripeCreatesIntent(r, p) PROVE Same
  BY <1>0, <1>3 DEF StripeCreatesIntent, Collected
<1>4. ASSUME UNCHANGED intent PROVE Same
  BY <1>4 DEF Collected
<1>5. ASSUME NEW r \in Requests, StripeConfirms(r) PROVE FALSE
  BY <1>5 DEF StripeConfirms, CalmInv, TransferPending, ConfirmPCs
<1>6. \/ \E p \in Payments : PaymentFails(p) \/ IntentCanceled(p) \/ \E s \in StripeStatus : CustomerPays(p, s)
      \/ \E r \in Requests : StripeConfirms(r) \/ \E p \in Payments : StripeCreatesIntent(r, p)
      \/ UNCHANGED intent
  BY DEF Next, RequestStep, InsertPayment, ReadStore, StripeTransfers, RecordTransfer, DeliverEvent,
         SaveStatus, RequestFails, BeginCreate, BeginTransfer, BeginConfirm, OnboardingChanges, stripe
<1> HIDE DEF Same, Collecting
<1>7. Same \/ Collecting
  BY <1>1, <1>2, <1>3, <1>4, <1>5, <1>6
<1> QED
  <2>1. CASE Same
    BY <2>1 DEF Same
  <2>2. CASE Collecting
    BY <2>2 DEF Collecting
  <2> QED
    BY <1>7, <2>1, <2>2

\* The amount of a collected payment stays.
LEMMA AmountsStay ==
  ASSUME IInv, Next, NEW p \in Payments, Collected(p)
  PROVE  payment'[p].amount = payment[p].amount
<1>1. payment \in [Payments -> Doc \cup {None}] /\ payment[p] # None
  BY DEF IInv, TypeOK, ChargesHaveRecord
<1> QED
  BY <1>1, DocumentsChange

\* SentIsSum after a step.
LEMMA SentIsSumNext ==
  ASSUME NEW p PROVE Sent(p)' = Sum([r \in TransfersOf(p)' |-> transfer'[r].amount], TransfersOf(p)')
  BY DEF Sent, Sum, MapThenSumSet, MapThenFoldSet

\* What was sent stays as long as the payment's transfers do.
LEMMA SentStays ==
  ASSUME NEW p, TransfersOf(p)' = TransfersOf(p), \A r \in TransfersOf(p) : transfer'[r] = transfer[r]
  PROVE  Sent(p)' = Sent(p)
<1>1. [r \in TransfersOf(p)' |-> transfer'[r].amount] = [r \in TransfersOf(p) |-> transfer[r].amount]
  OBVIOUS
<1> QED
  BY <1>1, SentIsSum, SentIsSumNext

\* A charge of the customer is a Charge of the promise.
LEMMA ChargeStep ==
  ASSUME Calm, IInv, MoneyInv, NEW p \in Payments, payment[p] # None, ~Collected(p), Collected(p)',
         \A q \in Payments : q # p => intent'[q] = intent[q], UNCHANGED <<payment, transfer>>
  PROVE  Promise!Charge(p)
<1>1. charged[p] = 0 /\ payment[p].amount \in Amounts
  BY DEF charged, MoneyInv, Exact
<1>2. charged' = [charged EXCEPT ![p] = payment[p].amount]
  BY DEF charged, Collected
<1>3. UNCHANGED paidOut
  <2>1. \A q \in Payments : Sent(q)' = Sent(q)
    BY SentStays DEF TransfersOf
  <2> QED
    BY <2>1 DEF paidOut
<1> QED
  BY <1>1, <1>2, <1>3 DEF Promise!Charge, charged, paidOut


\* The fee is not negative: a share that is positive leaves an amount that is.
LEMMA FeeIsNat == ASSUME NEW a \in Amounts PROVE PlatformFee(a) \in Nat
<1>1. a \in Nat /\ FeePercent \in Nat
  BY PaymentsAssumption
<1>2. a * FeePercent \in Nat
  BY <1>1
<1> DEFINE x == a * FeePercent
<1>3. (x + 50) \div 100 \in Nat
  <2> HIDE DEF x
  <2>1. x \in Nat
    BY <1>2 DEF x
  <2> QED
    BY <2>1
<1> QED
  BY <1>3 DEF PlatformFee

\* The provider's share is an integer ...
LEMMA SharesAreInt == ASSUME NEW a \in Amounts PROVE ProviderAmount(a) \in Int
  BY FeeIsNat, PaymentsAssumption DEF ProviderAmount

\* ... and positive only of a positive amount.
LEMMA SharesArePositive ==
  ASSUME NEW a \in Amounts, ProviderAmount(a) > 0
  PROVE  a > 0 /\ ProviderAmount(a) # 0
<1>1. a \in Nat /\ PlatformFee(a) \in Nat
  BY FeeIsNat, PaymentsAssumption
<1> QED
  BY <1>1 DEF ProviderAmount

\* Nothing is sent without a transfer.
LEMMA NothingSent == ASSUME NEW p, TransfersOf(p) = {} PROVE Sent(p) = 0
  BY SentIsSum, SumEmpty

\* The only transfer is all that was sent.
LEMMA SentOnce ==
  ASSUME NEW p, NEW r, TransfersOf(p)' = {r}, transfer'[r].amount \in Int
  PROVE  Sent(p)' = transfer'[r].amount
<1> DEFINE f == [q \in {r} |-> transfer'[q].amount]
<1>1. Sent(p)' = Sum(f, {r})
  BY SentIsSumNext
<1>2. f[r] = transfer'[r].amount /\ \A q \in {r} : f[q] \in Int
  OBVIOUS
<1> HIDE DEF f
<1>3. IsFiniteSet({r}) /\ {r} \in SUBSET {r} /\ r \in {r} /\ {r} \ {r} = {}
  BY FS_Singleton
<1>4. Sum(f, {r}) = f[r] + Sum(f, {r} \ {r})
  BY <1>2, <1>3, SumTakes
<1>5. Sum(f, {r} \ {r}) = 0
  BY <1>3, SumEmpty
<1> QED
  BY <1>1, <1>2, <1>4, <1>5

\* ... and a transfer of Stripe a PayOut.
LEMMA PayOutStep ==
  ASSUME Calm, IInv, MoneyInv, CalmInv, NEW r \in Requests, NEW p \in Payments, pay[r] = p,
         pc[r] = "create_transfer", transfer[r] = None,
         transfer' = [transfer EXCEPT ![r] = TransferParams(r)], UNCHANGED <<intent, payment>>
  PROVE  Promise!PayOut(p)
<1> DEFINE t == TransferParams(r)
<1>1. /\ p \in Payments /\ payment[p] # None /\ Collected(p) /\ doc[r].provider = payment[p].provider
      /\ payment[p].status = "succeeded"
  BY DEF IInv, TransferInv, TransferPCs, CalmInv, TransferPending
<1>2. /\ payment[p].amount \in Amounts /\ payment[p].provider = ProviderAmount(payment[p].amount)
      /\ ProviderAmount(payment[p].amount) > 0
  BY <1>1 DEF MoneyInv, Exact
<1>3. t.pay = p /\ t.amount = ProviderAmount(payment[p].amount)
  BY <1>1, <1>2 DEF TransferParams
<1>4. transfer \in [Requests -> Transfer \cup {None}]
  BY DEF IInv, TypeOK
<1>5. TransfersOf(p) = {}
  <2> SUFFICES ASSUME NEW q \in Requests, transfer[q] # None, transfer[q].pay = p PROVE FALSE
    BY DEF TransfersOf
  <2>1. pc[q] = "record_transfer"
    BY <1>1 DEF CalmInv, TransferRecorded
  <2> QED
    BY <2>1 DEF CalmInv, OneRequest, Active
<1>6. t # None
  <2>1. doc[r] \in Doc /\ p \in Payments
    BY DEF IInv, TransferInv, TransferPCs
  <2>2. t \in Transfer
    BY <2>1 DEF TransferParams, Transfer, Doc
  <2> QED
    BY <2>2, PaymentsAssumption
<1>7. ProviderAmount(payment[p].amount) \in Int /\ payment[p].amount > 0 /\ ProviderAmount(payment[p].amount) > 0
  BY <1>2, SharesAreInt, SharesArePositive
<1> HIDE DEF t
<1>9. Sent(p) = 0
  BY <1>5, NothingSent
<1>10. Sent(p)' = ProviderAmount(payment[p].amount)
  <2>1. TransfersOf(p)' = {r} /\ transfer'[r] = t
    <3>1. transfer' = [transfer EXCEPT ![r] = t]
      BY DEF t
    <3> QED
      BY <1>3, <1>4, <1>5, <1>6, <3>1 DEF TransfersOf
  <2> QED
    BY <1>3, <1>7, <2>1, SentOnce
<1>11. \A q \in Payments : q # p => Sent(q)' = Sent(q)
  <2> SUFFICES ASSUME NEW q \in Payments, q # p PROVE Sent(q)' = Sent(q)
    OBVIOUS
  <2>1. TransfersOf(q)' = TransfersOf(q) /\ \A s \in TransfersOf(q) : transfer'[s] = transfer[s]
    BY <1>3, <1>4 DEF TransfersOf, t
  <2> QED
    BY <2>1, SentStays
<1>12. charged' = charged /\ charged[p] = payment[p].amount
  BY <1>1 DEF charged, Collected
<1>13. paidOut[p] = 0 /\ paidOut' = [paidOut EXCEPT ![p] = ProviderAmount(charged[p])]
  BY <1>1, <1>9, <1>10, <1>11, <1>12 DEF paidOut
<1> QED
  BY <1>7, <1>12, <1>13 DEF Promise!PayOut, charged, paidOut

\* The initial states of the payments are those of the promise ...
LEMMA EscrowInit == Init => Promise!Init
  BY NothingSent, PaymentsAssumption DEF Init, Promise!Init, Collected, TransfersOf, StripeStatus, Allowed

\* ... and every step of a calm deployment is one of the promise or leaves it alone.
LEMMA EscrowStep ==
  ASSUME Calm, IInv, MoneyInv, CalmInv, [Next]_vars
  PROVE  [Promise!Next]_<<charged, paidOut>>
<1>1. ASSUME NEW p \in Payments, payment[p] # None, ~Collected(p), Collected(p)',
             \A q \in Payments : q # p => intent'[q] = intent[q], UNCHANGED <<payment, transfer>>
      PROVE  Promise!Next
  BY <1>1, ChargeStep DEF Promise!Next
<1>2. ASSUME NEW r \in Requests, NEW p \in Payments, pay[r] = p, pc[r] = "create_transfer", transfer[r] = None,
             transfer' = [transfer EXCEPT ![r] = TransferParams(r)], UNCHANGED <<intent, payment>>
      PROVE  Promise!Next
  BY <1>2, PayOutStep DEF Promise!Next
<1>3. ASSUME UNCHANGED transfer PROVE UNCHANGED paidOut
  <2>1. \A q \in Payments : Sent(q)' = Sent(q)
    BY <1>3, SentStays DEF TransfersOf
  <2> QED
    BY <2>1 DEF paidOut
<1>4. ASSUME Next, \A p \in Payments : Collected(p)' = Collected(p) PROVE UNCHANGED charged
  BY <1>4, AmountsStay DEF charged
<1>5. CASE Next
  <2>1. CASE \A p \in Payments : Collected(p)' = Collected(p)
    BY <1>2, <1>3, <1>4, <1>5, <2>1, TransfersChange
  <2> QED
    BY <1>1, <1>5, <2>1, IntentsChange
<1>6. CASE UNCHANGED vars
  BY <1>3, <1>6 DEF vars, charged, Collected
<1> QED
  BY <1>5, <1>6

\* PaymentsService implements Escrow where requests neither overlap nor die: a payment is charged
\* once, and then at most once the provider's share of it is paid out.
THEOREM ImplementsEscrowAlways ==
  ASSUME Calm
  PROVE  Spec => ImplementsEscrow
  BY EscrowInit, EscrowStep, SpecCalm, PTL DEF Spec, ImplementsEscrow, Promise!Spec, charged, paidOut

\* What the promise keeps: nothing is paid out, or the share of what was charged.
PaidOutOnce ==
  \A p \in Payments : paidOut[p] # 0 => charged[p] > 0 /\ paidOut[p] = ProviderAmount(charged[p])

\* Every step of the promise keeps it.
LEMMA PaidOutOnceKept == ASSUME PaidOutOnce, [Promise!Next]_<<charged, paidOut>> PROVE PaidOutOnce'
<1>1. ASSUME NEW p \in Payments, Promise!Charge(p) PROVE PaidOutOnce'
  <2> SUFFICES ASSUME NEW q \in Payments, paidOut'[q] # 0
               PROVE  charged'[q] > 0 /\ paidOut'[q] = ProviderAmount(charged'[q])
    BY DEF PaidOutOnce
  <2>1. charged[p] = 0 /\ DOMAIN charged = Payments /\ paidOut' = paidOut
        /\ \E a \in Amounts : charged' = [charged EXCEPT ![p] = a]
    BY <1>1 DEF Promise!Charge, charged, paidOut
  <2>2. charged[q] > 0 /\ paidOut[q] = ProviderAmount(charged[q])
    BY <2>1 DEF PaidOutOnce
  <2>3. charged'[q] = charged[q]
    BY <2>1, <2>2
  <2> QED
    BY <2>1, <2>2, <2>3
<1>2. ASSUME NEW p \in Payments, Promise!PayOut(p) PROVE PaidOutOnce'
  BY <1>2 DEF Promise!PayOut, PaidOutOnce, charged, paidOut
<1>3. CASE UNCHANGED <<charged, paidOut>>
  BY <1>3 DEF PaidOutOnce
<1> QED
  BY <1>1, <1>2, <1>3 DEF Promise!Next

\* "La comision de plataforma permanece en la cuenta empresa" holds where requests neither overlap
\* nor die.  (payments_overlap shows how two overlapping transfers break it.)
THEOREM PlatformKeepsFeeWhenCalm ==
  ASSUME Calm
  PROVE  Spec => []PlatformKeepsFee
<1>1. Init => PaidOutOnce
  BY NothingSent DEF Init, PaidOutOnce, TransfersOf, paidOut
<1>2. IInv /\ MoneyInv /\ CalmInv /\ PaidOutOnce /\ [Next]_vars => PaidOutOnce'
  BY EscrowStep, PaidOutOnceKept
<1>3. IInv /\ MoneyInv /\ PaidOutOnce => PlatformKeepsFee
  <2> SUFFICES ASSUME MoneyInv, PaidOutOnce, NEW p \in Payments, payment[p] # None
               PROVE  Sent(p) <= payment[p].amount - payment[p].fee
    BY DEF PlatformKeepsFee
  <2>1. Exact(payment[p])
    BY DEF MoneyInv
  <2>2. /\ payment[p].amount - payment[p].fee = ProviderAmount(payment[p].amount)
        /\ ProviderAmount(payment[p].amount) > 0 /\ ProviderAmount(payment[p].amount) \in Int
    BY <2>1, SharesAreInt DEF Exact, ProviderAmount
  <2>3. Sent(p) = 0 \/ Sent(p) = ProviderAmount(payment[p].amount)
    BY DEF PaidOutOnce, paidOut, charged
  <2> QED
    BY <2>2, <2>3
<1> QED
  BY <1>1, <1>2, <1>3, SpecCalm, PTL DEF Spec

-----------------------------------------------------------------------------
\* PART 4: QUOTES

Of(store) == {i \in Items : StoreOf[i] = store}

LineTotals(lines) == [i \in Items |-> lines[i].lineTotal]
GroupItems(groups) == [s \in QuotedStores |-> groups[s].itemsTotal]
GroupDeliveries(groups) == [s \in QuotedStores |-> groups[s].deliveryCost]
GroupTotals(groups) == [s \in QuotedStores |-> groups[s].total]

\* Prices have passed normalizePrice and periods parsePeriod, the stored ones as the
\* loaded ones; what is loaded is loaded in turn, the products last, at the moment of
\* the answer.
QuoteInv ==
  /\ QuoteTypeOK
  /\ \A i \in Items : Valid(price[i])
  /\ \A e \in Editors : edit[e] # Absent => Valid(edit[e].new)
  /\ bundles # Absent => cart # Absent /\ \A i \in Bundles : Valid(bundles[i].price)
  /\ Answered => /\ bundles # Absent
                 /\ \A i \in Products : Valid(products[i].price) /\ products[i].status = status[i]

\* The sums of the model, as sums of functions over sets.
LEMMA LinesAsSum ==
  ASSUME NEW T, NEW l PROVE MapThenSumSet(LAMBDA i : l[i].lineTotal, T) = Sum([i \in T |-> l[i].lineTotal], T)
  BY DEF Sum, MapThenSumSet, MapThenFoldSet

\* The answer's sums over its stores, as sums of functions: of the items' totals, ...
LEMMA ItemsAsSum ==
  ASSUME NEW T, NEW g PROVE MapThenSumSet(LAMBDA s : g[s].itemsTotal, T) = Sum([s \in T |-> g[s].itemsTotal], T)
  BY DEF Sum, MapThenSumSet, MapThenFoldSet

\* ... the deliveries, ...
LEMMA DeliveriesAsSum ==
  ASSUME NEW T, NEW g PROVE MapThenSumSet(LAMBDA s : g[s].deliveryCost, T) = Sum([s \in T |-> g[s].deliveryCost], T)
  BY DEF Sum, MapThenSumSet, MapThenFoldSet

\* ... the stores' totals ...
LEMMA TotalsAsSum ==
  ASSUME NEW T, NEW g PROVE MapThenSumSet(LAMBDA s : g[s].total, T) = Sum([s \in T |-> g[s].total], T)
  BY DEF Sum, MapThenSumSet, MapThenFoldSet

\* ... and the prices of the deliveries.
LEMMA BasePricesAsSum ==
  ASSUME NEW T PROVE MapThenSumSet(LAMBDA s : BasePrice[s], T) = Sum(BasePrice, T)
  BY DEF Sum

\* There are finitely many items, hence stores and items of a store.
LEMMA StoresAreFinite ==
  /\ IsFiniteSet(Items) /\ IsFiniteSet(QuotedStores)
  /\ \A s : Of(s) \in SUBSET Items
<1>1. IsFiniteSet(Items)
  BY QuotesAssumption
<1> DEFINE f == [i \in Items |-> StoreOf[i]]
<1>2. f \in Surjection(Items, QuotedStores)
  BY DEF Surjection, QuotedStores
<1>3. IsFiniteSet(QuotedStores)
  BY <1>1, <1>2, FS_Surjection
<1> QED
  BY <1>1, <1>3 DEF Of

\* What the answer says of a store.
LEMMA GroupAsSum ==
  ASSUME NEW s, NEW lines
  PROVE  /\ StoreGroup(s, lines).itemsTotal = Sum(LineTotals(lines), Of(s))
         /\ StoreGroup(s, lines).deliveryCost = DeliveryCost(s)
         /\ StoreGroup(s, lines).total = StoreGroup(s, lines).itemsTotal + DeliveryCost(s)
<1>1. /\ StoreGroup(s, lines).itemsTotal = MapThenSumSet(LAMBDA i : lines[i].lineTotal, Of(s))
      /\ StoreGroup(s, lines).deliveryCost = DeliveryCost(s)
      /\ StoreGroup(s, lines).total = StoreGroup(s, lines).itemsTotal + DeliveryCost(s)
  BY DEF StoreGroup, Of
<1> DEFINE g == [i \in Of(s) |-> lines[i].lineTotal]
<1>2. \A i \in Of(s) : g[i] = LineTotals(lines)[i]
  BY DEF Of, LineTotals
<1>3. MapThenSumSet(LAMBDA i : lines[i].lineTotal, Of(s)) = Sum(g, Of(s))
  BY LinesAsSum
<1> HIDE DEF g
<1>4. Sum(g, Of(s)) = Sum(LineTotals(lines), Of(s))
  BY <1>2, StoresAreFinite, PartSum
<1> QED
  BY <1>1, <1>3, <1>4

\* The totals of the answer.
LEMMA AnswerAsSum ==
  ASSUME NEW groups
  PROVE  /\ Totals(groups).days = RentalDays(cart.period)
         /\ Totals(groups).itemsAmount = Sum(GroupItems(groups), QuotedStores)
         /\ Totals(groups).amount = Totals(groups).itemsAmount + Sum(GroupDeliveries(groups), QuotedStores)
<1>1. /\ Totals(groups).days = RentalDays(cart.period)
      /\ Totals(groups).itemsAmount = MapThenSumSet(LAMBDA s : groups[s].itemsTotal, QuotedStores)
      /\ Totals(groups).amount = Totals(groups).itemsAmount
                                  + MapThenSumSet(LAMBDA s : groups[s].deliveryCost, QuotedStores)
  BY DEF Totals
<1> QED
  BY <1>1, ItemsAsSum, DeliveriesAsSum DEF GroupItems, GroupDeliveries

\* What the answer says: its lines, the sums of its stores, and its totals.
LEMMA AnswerSays ==
  /\ \A i \in Items : Lines[i] = Line(i)
  /\ \A s \in QuotedStores :
       /\ Groups[s].itemsTotal = Sum(LineTotals(Lines), Of(s))
       /\ Groups[s].deliveryCost = DeliveryCost(s)
       /\ Groups[s].total = Groups[s].itemsTotal + Groups[s].deliveryCost
  /\ Answer.days = RentalDays(cart.period)
  /\ Answer.itemsAmount = Sum(GroupItems(Groups), QuotedStores)
  /\ Answer.amount = Answer.itemsAmount + Sum(GroupDeliveries(Groups), QuotedStores)
<1>1. \A s \in QuotedStores : Groups[s] = StoreGroup(s, Lines)
  BY DEF Groups
<1> QED
  BY <1>1, GroupAsSum, AnswerAsSum DEF Lines, Answer

\* What a price is made of.
LEMMA PriceParts ==
  ASSUME NEW p \in Price
  PROVE  /\ p = [list |-> p.list, offer |-> p.offer, from |-> p.from, until |-> p.until]
         /\ p.list \in Prices
         /\ \/ p.offer \in Prices /\ p.from \in Dates /\ p.until \in Dates
            \/ p.offer = Absent /\ p.from = Absent /\ p.until = Absent
  BY DEF Price, Offer

\* A price is made of a list price and an offer that is whole or absent.
LEMMA PriceMade ==
  ASSUME NEW l \in Prices, NEW o, NEW f, NEW u,
         \/ o \in Prices /\ f \in Dates /\ u \in Dates
         \/ o = Absent /\ f = Absent /\ u = Absent
  PROVE  [list |-> l, offer |-> o, from |-> f, until |-> u] \in Price
<1>1. [offer |-> o, from |-> f, until |-> u] \in Offer
  BY DEF Offer
<1> DEFINE w == [offer |-> o, from |-> f, until |-> u]
<1>2. [list |-> l, offer |-> w.offer, from |-> w.from, until |-> w.until] \in Price
  <2> HIDE DEF w
  <2> QED
    BY <1>1 DEF Price, w
<1> QED
  BY <1>2

\* A patched price that normalizePrice accepts is a price.
LEMMA PatchedPrice ==
  ASSUME NEW p \in Price, NEW patch \in Patch
  PROVE  /\ patch.offer = Null => WithoutOffer(p, patch) \in Price /\ Valid(WithoutOffer(p, patch))
         /\ patch.offer # Null /\ Valid(Merged(p, patch)) => Merged(p, patch) \in Price
<1>1. /\ patch.list \in Optional(Prices) /\ patch.offer \in Optional(Prices) \cup {Null}
      /\ patch.from \in Optional(Dates) /\ patch.until \in Optional(Dates)
  BY DEF Patch
<1>2. Or(patch.list, p.list) \in Prices
  BY <1>1, PriceParts DEF Or, Optional
<1>3. WithoutOffer(p, patch) \in Price
  BY <1>2, PriceMade DEF WithoutOffer
<1>4. Valid(WithoutOffer(p, patch))
  BY DEF Valid, WithoutOffer
<1>5. ASSUME patch.offer # Null, Valid(Merged(p, patch)) PROVE Merged(p, patch) \in Price
  <2> DEFINE o == Or(patch.offer, p.offer)
             f == IF o = Absent THEN Absent ELSE Or(patch.from, p.from)
             u == IF o = Absent THEN Absent ELSE Or(patch.until, p.until)
             l == Or(patch.list, p.list)
  <2>1. Merged(p, patch) = [list |-> l, offer |-> o, from |-> f, until |-> u]
    BY DEF Merged
  <2>2. o \in Optional(Prices) /\ f \in Optional(Dates) /\ u \in Optional(Dates)
    BY <1>1, <1>5, PriceParts DEF Or, Optional
  <2>3. o = Absent => f = Absent /\ u = Absent
    OBVIOUS
  <2>4. l \in Prices
    BY <1>2
  <2> HIDE DEF o, f, u, l
  <2>5. o # Absent => f # Absent /\ u # Absent
    BY <1>5, <2>1 DEF Valid
  <2> QED
    BY <2>1, <2>2, <2>3, <2>4, <2>5, PriceMade DEF Optional
<1> QED
  BY <1>3, <1>4, <1>5

\* What is written without touching prices or edits keeps the invariant.
LEMMA WriteKeepsQuotes ==
  ASSUME QuoteInv, Counted, Over, UNCHANGED <<price, edit>>,
         status' \in [Items -> Optional(Statuses)], period' \in Optional(Periods), delivery' \in SUBSET QuotedStores
  PROVE  QuoteInv'
<1>1. /\ ~Answered'
      /\ bundles' # Absent => bundles' = bundles /\ cart' = cart
      /\ changes' \in Nat
  BY DEF Over, Answered, Counted, QuoteInv, QuoteTypeOK
<1> QED
  BY <1>1 DEF QuoteInv, QuoteTypeOK, Over, Answered, Optional

\* QuoteInv is inductive: one step for each action.
LEMMA QuoteStep == ASSUME QuoteInv, [QuoteNext]_quoteVars PROVE QuoteInv'
<1> USE QuotesAssumption
<1>0. QuoteTypeOK
  BY DEF QuoteInv
<1>1. ASSUME NEW e \in Editors, NEW i \in Priced, NEW patch \in Patch, BeginPatch(e, i, patch) PROVE QuoteInv'
  <2> DEFINE new == Patched(price[i], patch)
             begun == [item |-> i, old |-> price[i], new |-> new]
  <2>1. /\ edit' = [edit EXCEPT ![e] = begun] /\ Valid(new)
        /\ changes' = changes + 1
        /\ UNCHANGED <<price, status, period, delivery, cart, bundles, products>>
    BY <1>1 DEF BeginPatch, Counted, loaded
  <2>2. i \in Items /\ price[i] \in Price
    BY <1>0 DEF QuoteTypeOK
  <2>3. new \in Price
    BY <2>1, <2>2, PatchedPrice DEF Patched
  <2> HIDE DEF new
  <2>4. begun.new = new /\ begun \in [item: Items, old: Price, new: Price]
    BY <2>2, <2>3
  <2> HIDE DEF begun
  <2>5. QuoteTypeOK'
    BY <1>0, <2>1, <2>4 DEF QuoteTypeOK, Optional
  <2>6. \A q \in Editors : edit'[q] # Absent => Valid(edit'[q].new)
    BY <1>0, <2>1, <2>4 DEF QuoteTypeOK, QuoteInv
  <2> QED
    BY <2>1, <2>5, <2>6 DEF QuoteInv, Answered
<1>2. ASSUME NEW e \in Editors, SavePatch(e) PROVE QuoteInv'
  <2> DEFINE i == edit[e].item
  <2>1. /\ price' = price \/ price' = [price EXCEPT ![i] = edit[e].new]
        /\ edit' = [edit EXCEPT ![e] = Absent]
        /\ Over /\ UNCHANGED <<status, period, delivery, changes>>
        /\ edit[e] # Absent
    BY <1>2 DEF SavePatch, Written
  <2>2. i \in Items /\ edit[e].new \in Price /\ Valid(edit[e].new)
    BY <1>0, <2>1 DEF QuoteInv, QuoteTypeOK
  <2> HIDE DEF i
  <2>3. /\ price' \in [Items -> Price]
        /\ \A k \in Items : Valid(price'[k])
    BY <1>0, <2>1, <2>2 DEF QuoteInv, QuoteTypeOK
  <2>4. /\ edit' \in [Editors -> [item: Items, old: Price, new: Price] \cup {Absent}]
        /\ \A q \in Editors : edit'[q] # Absent => Valid(edit'[q].new)
    BY <1>0, <2>1 DEF QuoteInv, QuoteTypeOK
  <2>5. /\ ~Answered'
        /\ bundles' # Absent => bundles' = bundles /\ cart' = cart
    BY <2>1 DEF Over, Answered
  <2> QED
    BY <1>0, <2>1, <2>3, <2>4, <2>5 DEF QuoteInv, QuoteTypeOK, Over, Answered, Optional
<1>3. ASSUME NEW i \in Items, NEW s \in Optional(Statuses), ChangeStatus(i, s) PROVE QuoteInv'
  <2>1. status' \in [Items -> Optional(Statuses)] /\ period' = period /\ delivery' = delivery
    BY <1>0, <1>3 DEF ChangeStatus, QuoteTypeOK
  <2> QED
    BY <1>0, <1>3, <2>1, WriteKeepsQuotes DEF ChangeStatus, QuoteTypeOK
<1>4. ASSUME NEW start \in Dates, NEW end \in Dates, ChangePeriod(start, end) PROVE QuoteInv'
  <2>1. period' \in Optional(Periods)
    BY <1>4 DEF ChangePeriod, Periods, Optional
  <2> QED
    BY <1>0, <1>4, <2>1, WriteKeepsQuotes DEF ChangePeriod, QuoteTypeOK
<1>5. ASSUME NEW s \in QuotedStores, ChangeHandoff(s) PROVE QuoteInv'
  <2>1. delivery' \in SUBSET QuotedStores
    BY <1>0, <1>5 DEF ChangeHandoff, QuoteTypeOK
  <2> QED
    BY <1>0, <1>5, <2>1, WriteKeepsQuotes DEF ChangeHandoff, QuoteTypeOK
<1>6. ASSUME FindCart PROVE QuoteInv'
  <2>1. cart' \in [period: Optional(Periods), delivery: SUBSET QuotedStores]
    BY <1>0, <1>6 DEF FindCart, QuoteTypeOK
  <2> QED
    BY <1>0, <1>6, <2>1 DEF FindCart, QuoteInv, QuoteTypeOK, Answered, Optional
<1>7. \A S \in SUBSET Items : Documents(S) \in [S -> Document] /\ \A i \in S : Documents(S)[i].price = price[i]
  <2> SUFFICES ASSUME NEW S \in SUBSET Items, NEW i \in S
               PROVE  [price |-> price[i], status |-> status[i]] \in Document
    BY DEF Documents
  <2>1. price[i] \in Price /\ status[i] \in Optional(Statuses)
    BY <1>0 DEF QuoteTypeOK
  <2> QED
    BY <2>1 DEF Document
<1>8. Bundles \in SUBSET Items /\ Products \in SUBSET Items
  BY DEF Items
<1>9. ASSUME FindBundles PROVE QuoteInv'
  <2>1. /\ bundles' \in [Bundles -> Document] /\ \A i \in Bundles : bundles'[i].price = price[i]
        /\ cart # Absent /\ ~Answered
        /\ UNCHANGED <<price, status, period, delivery, edit, changes, cart, products>>
    BY <1>7, <1>8, <1>9 DEF FindBundles, QuoteInv, Answered
  <2> QED
    BY <1>0, <1>8, <2>1 DEF QuoteInv, QuoteTypeOK, Answered, Optional
<1>10. ASSUME FindProducts PROVE QuoteInv'
  <2>1. /\ products' \in [Products -> Document]
        /\ \A i \in Products : products'[i].price = price[i] /\ products'[i].status = status[i]
        /\ bundles # Absent
        /\ UNCHANGED <<price, status, period, delivery, edit, changes, cart, bundles>>
    BY <1>7, <1>8, <1>10 DEF FindProducts, Documents
  <2> QED
    BY <1>0, <1>8, <2>1 DEF QuoteInv, QuoteTypeOK, Answered, Optional
<1>11. ASSUME UNCHANGED quoteVars PROVE QuoteInv'
  BY <1>11 DEF QuoteInv, QuoteTypeOK, quoteVars, loaded, Answered
<1> QED
  BY <1>1, <1>2, <1>3, <1>4, <1>5, <1>6, <1>9, <1>10, <1>11 DEF QuoteNext

\* QuoteInv holds in every reachable state.
LEMMA QuotesKept == QuoteSpec => []QuoteInv
<1>1. QuoteInit => QuoteInv
  <2> SUFFICES ASSUME QuoteInit PROVE QuoteInv
    OBVIOUS
  <2>1. PICK a \in Prices : price = [i \in Items |-> [list |-> a, offer |-> Absent, from |-> Absent, until |-> Absent]]
    BY DEF QuoteInit
  <2>2. \A i \in Items : price[i] \in Price /\ Valid(price[i])
    BY <2>1, PriceMade DEF Valid
  <2> QED
    BY <2>1, <2>2 DEF QuoteInit, QuoteInv, QuoteTypeOK, Statuses, Optional, Answered
<1> QED
  BY <1>1, QuoteStep, PTL DEF QuoteSpec

-----------------------------------------------------------------------------
\* What the answer finds: of a product, its present status.
LEMMA Findings ==
  ASSUME QuoteInv, Answered, NEW i \in Items
  PROVE  /\ Found(i).price \in Price /\ Valid(Found(i).price)
         /\ i \in Products => Found(i).status = status[i]
         /\ cart.period \in Optional(Periods) /\ cart.delivery \in SUBSET QuotedStores
<1>1. /\ bundles \in [Bundles -> Document] /\ products \in [Products -> Document]
      /\ cart \in [period: Optional(Periods), delivery: SUBSET QuotedStores]
  BY DEF QuoteInv, QuoteTypeOK, Answered, Optional
<1>2. i \in Products => i \notin Bundles
  BY QuotesAssumption
<1>3. i \in Bundles \/ i \in Products
  BY DEF Items
<1> QED
  BY <1>1, <1>2, <1>3 DEF QuoteInv, Found, Document

\* The rule of the answer and that of adding an item agree on what is available, if
\* the bundle has the status that was loaded.
LEMMA AddableIsAvailable ==
  ASSUME QuoteInv, Answered, NEW i \in Items
  PROVE  /\ (i \in Bundles => bundles[i].status = status[i]) => (Available(i) <=> Addable(i))
         /\ i \in Bundles /\ Available(i) => \A p \in Members[i] : Addable(p)
<1>1. \A p \in Products : p \in Items /\ p \notin Bundles /\ Found(p).status = status[p]
  BY Findings, QuotesAssumption DEF Items
<1>2. CASE i \notin Bundles
  <2>1. Found(i).status = status[i]
    BY <1>1, <1>2 DEF Items
  <2> QED
    BY <1>2, <2>1 DEF Available, Addable
<1>3. CASE i \in Bundles
  <2>1. Members[i] \subseteq Items /\ \A p \in Members[i] : p \in Products
    BY <1>3, QuotesAssumption DEF Items
  <2>2. Available(i) <=> bundles[i].status = "available" /\ \A p \in Members[i] : status[p] = "available"
    BY <1>1, <1>3, <2>1 DEF Available, Found
  <2>3. IsFiniteSet(Members[i]) /\ AllMembers(i) \subseteq Members[i]
    BY <2>1, StoresAreFinite, FS_Subset DEF AllMembers
  <2>4. Cardinality(AllMembers(i)) = Cardinality(Members[i]) <=> AllMembers(i) = Members[i]
    BY <2>3, FS_Subset
  <2>5. AllMembers(i) = Members[i] <=> \A p \in Members[i] : status[p] # Absent
    BY DEF AllMembers
  <2>6. "available" # Absent
    BY QuotesAssumption DEF Statuses
  <2>7. \A p \in Members[i] : status[p] = "available" => Addable(p)
    BY <1>1, <2>1 DEF Addable
  <2> QED
    BY <1>3, <2>2, <2>4, <2>5, <2>6, <2>7 DEF Addable
<1> QED
  BY <1>2, <1>3

\* The two separately written rules agree, for any items, members and changes while the cart is
\* answered: it charges for exactly the items that a client could still put into it, but for a bundle
\* whose own status changed after it was loaded.
THEOREM ChargedIffAddableAlways == QuoteSpec => []ChargedIffAddable
<1>1. QuoteInv => ChargedIffAddable
  <2> SUFFICES ASSUME QuoteInv, Answered, NEW i \in Items
               PROVE  /\ (i \in Bundles => bundles[i].status = status[i]) => (i \in Charged <=> Addable(i))
                      /\ i \in Charged \cap Bundles => \A p \in Members[i] : Addable(p)
                      /\ i \notin Charged => Lines[i].lineTotal = 0
    BY DEF ChargedIffAddable
  <2>1. Line(i).isAvailable = Available(i) /\ (~Available(i) => Line(i).lineTotal = 0)
    BY DEF Line
  <2>2. i \in Charged <=> Available(i)
    BY <2>1, AnswerSays DEF Charged
  <2> QED
    BY <2>1, <2>2, AnswerSays, AddableIsAvailable
<1> QED
  BY <1>1, QuotesKept, PTL

-----------------------------------------------------------------------------
\* Money rounds: it is monotone, and leaves whole cents alone.
LEMMA MoneyIsMonotone == ASSUME NEW x \in Nat, NEW y \in Nat, x <= y PROVE Money(x) <= Money(y)
  BY DEF Money

\* Rounded to cents, a natural stays one ...
LEMMA MoneyIsNat == ASSUME NEW x \in Nat PROVE Money(x) \in Nat
  BY DEF Money

\* ... and whole cents stay what they are.
LEMMA MoneyOfCents == ASSUME NEW x \in Nat PROVE Money(10 * x) = x
  BY DEF Money

\* The price of a day is at most the list price.
LEMMA DailyIsBargain ==
  ASSUME QuoteInv, Answered, NEW i \in Items
  PROVE  /\ DailyPrice(Found(i).price, cart.period) \in Nat /\ Found(i).price.list \in Nat
         /\ DailyPrice(Found(i).price, cart.period) <= Found(i).price.list
<1> DEFINE p == Found(i).price
<1>1. p \in Price /\ Valid(p)
  BY Findings
<1> HIDE DEF p
<1>2. p.list \in Prices /\ (p.offer # Absent => p.offer \in Prices)
  BY <1>1, PriceParts
<1>3. p.offer # Absent => p.offer <= p.list
  BY <1>1 DEF Valid
<1>4. p.list \in Nat /\ (p.offer # Absent => p.offer \in Nat)
  BY <1>2, QuotesAssumption
<1>5. \/ DailyPrice(p, cart.period) = p.list
      \/ p.offer # Absent /\ DailyPrice(p, cart.period) = p.offer
  BY DEF DailyPrice
<1> QED
  BY <1>3, <1>4, <1>5 DEF p

\* The period the answer found is absent or of days in order.
LEMMA PeriodFound ==
  ASSUME QuoteInv, Answered
  PROVE  cart.period # Absent =>
           cart.period.start \in Nat /\ cart.period.end \in Nat /\ cart.period.start <= cart.period.end
<1>1. cart \in [period: Optional(Periods), delivery: SUBSET QuotedStores]
  BY DEF QuoteInv, QuoteTypeOK, Answered, Optional
<1>2. cart.period # Absent => cart.period \in Periods
  BY <1>1 DEF Optional
<1> QED
  BY <1>2, QuotesAssumption DEF Periods

\* A period has a natural number of days.
LEMMA DaysAreNat == ASSUME QuoteInv, Answered PROVE RentalDays(cart.period) \in Nat
  BY PeriodFound DEF RentalDays

\* A product of naturals
LEMMA TimesIsMonotone ==
  ASSUME NEW a \in Nat, NEW b \in Nat, NEW n \in Nat, a <= b
  PROVE  a * n \in Nat /\ b * n \in Nat /\ a * n <= b * n
<1>1. a * n \in Nat /\ (b - a) * n \in Nat
  OBVIOUS
<1>2. b * n = a * n + (b - a) * n
  OBVIOUS
<1> QED
  BY <1>1, <1>2

\* What the lines of an answer say.
LEMMA LinesSay ==
  ASSUME QuoteInv, Answered, NEW i \in Items
  PROVE  /\ Lines[i].lineTotal \in Nat
         /\ i \notin Charged => Lines[i].lineTotal = 0
         /\ i \in Charged => /\ Lines[i].lineTotal = Money(DailyPrice(Found(i).price, cart.period) * RentalDays(cart.period))
                             /\ Lines[i].price = Money(DailyPrice(Found(i).price, cart.period))
<1>1. Lines[i] = Line(i)
  BY AnswerSays
<1>2. DailyPrice(Found(i).price, cart.period) * RentalDays(cart.period) \in Nat
  BY DailyIsBargain, DaysAreNat, TimesIsMonotone
<1> DEFINE m == Money(DailyPrice(Found(i).price, cart.period) * RentalDays(cart.period))
<1>3. m \in Nat
  BY <1>2, MoneyIsNat
<1>4. /\ Line(i).lineTotal = IF Available(i) THEN m ELSE 0
      /\ Line(i).isAvailable = Available(i)
      /\ Available(i) => Line(i).price = Money(DailyPrice(Found(i).price, cart.period))
  <2>1. Available(i) => Found(i).status # Absent
    BY QuotesAssumption DEF Available, Statuses
  <2> QED
    BY <2>1 DEF Line
<1> HIDE DEF m
<1>5. i \in Charged <=> Available(i)
  BY <1>1, <1>4 DEF Charged
<1> QED
  BY <1>1, <1>3, <1>4, <1>5 DEF m

\* The items of all stores are those that are charged.
LEMMA ItemsOfStores ==
  ASSUME QuoteInv, Answered
  PROVE  /\ Answer.itemsAmount = Sum(LineTotals(Lines), Charged)
         /\ Answer.itemsAmount \in Nat
         /\ Charged \in SUBSET Items
         /\ \A s \in QuotedStores : Groups[s].itemsTotal \in Nat
<1> DEFINE f == LineTotals(Lines)
           g == GroupItems(Groups)
<1>1. \A i \in Items : f[i] \in Nat /\ (i \notin Charged => f[i] = 0)
  BY LinesSay DEF LineTotals
<1>2. \A s \in QuotedStores : g[s] = Sum(f, Under(Items, StoreOf, s))
  BY AnswerSays DEF Under, GroupItems, Of
<1>3. \A i \in Items : StoreOf[i] \in QuotedStores
  BY DEF QuotedStores
<1>4. Answer.itemsAmount = Sum(g, QuotedStores)
  BY AnswerSays
<1>5. \A s \in QuotedStores : Groups[s].itemsTotal = g[s]
  BY DEF GroupItems
<1> HIDE DEF f, g
<1>6. Sum(g, QuotedStores) = Sum(f, Items)
  <2>1. \A i \in Items : f[i] \in Int
    BY <1>1
  <2>2. IsFiniteSet(Items) /\ IsFiniteSet(QuotedStores)
    BY StoresAreFinite
  <2> QED
    BY <1>2, <1>3, <2>1, <2>2, SumGrouped
<1>7. Charged \in SUBSET Items
  BY DEF Charged
<1>8. Sum(f, Items) = Sum(f, Charged)
  <2> DEFINE free == Items \ Charged
  <2>1. free \in SUBSET Items /\ Charged \cap free = {} /\ Charged \cup free = Items /\ \A i \in free : f[i] = 0
    BY <1>1, <1>7
  <2> HIDE DEF free
  <2>2. Sum(f, Charged \cup free) = Sum(f, Charged) + Sum(f, free)
    <3>1. \A i \in Items : f[i] \in Int
      BY <1>1
    <3> QED
      BY <1>7, <2>1, <3>1, StoresAreFinite, SumUnion
  <2>3. Sum(f, free) = 0
    BY <2>1, StoresAreFinite, FS_Subset, SumZero
  <2>4. Sum(f, Charged) \in Int
    <3>1. \A i \in Items : f[i] \in Int
      BY <1>1
    <3> QED
      BY <1>7, <3>1, StoresAreFinite, SumInt
  <2>5. Sum(f, Items) = Sum(f, Charged) + Sum(f, free)
    BY <2>1, <2>2
  <2> QED
    BY <2>3, <2>4, <2>5
<1>9. Sum(f, Items) \in Nat
  BY <1>1, StoresAreFinite, SumNat
<1>10. \A s \in QuotedStores : g[s] \in Nat
  <2> SUFFICES ASSUME NEW s \in QuotedStores PROVE Sum(f, Of(s)) \in Nat
    BY <1>2 DEF Of, Under
  <2>1. IsFiniteSet(Of(s)) /\ \A i \in Of(s) : f[i] \in Nat
    BY <1>1, StoresAreFinite, FS_Subset
  <2> QED
    BY <2>1, SumNat
<1> QED
  BY <1>4, <1>5, <1>6, <1>7, <1>8, <1>9, <1>10 DEF f

\* What is delivered costs the base prices.
LEMMA DeliveriesOfStores ==
  ASSUME QuoteInv, Answered
  PROVE  /\ Sum(GroupDeliveries(Groups), QuotedStores) = Sum(BasePrice, cart.delivery)
         /\ \A s \in QuotedStores : Groups[s].deliveryCost \in Nat
         /\ Sum(BasePrice, cart.delivery) \in Nat
<1> DEFINE g == GroupDeliveries(Groups)
           delivered == cart.delivery
           free == QuotedStores \ delivered
<1>1. \A s \in QuotedStores : /\ BasePrice[s] \in Nat
                              /\ Groups[s].deliveryCost = IF s \in delivered THEN BasePrice[s] ELSE 0
                              /\ g[s] = Groups[s].deliveryCost
  BY AnswerSays, QuotesAssumption DEF DeliveryCost, GroupDeliveries
<1>2. /\ delivered \in SUBSET QuotedStores /\ free \in SUBSET QuotedStores
      /\ delivered \cap free = {} /\ delivered \cup free = QuotedStores
      /\ \A s \in free : s \notin delivered
  <2>1. delivered \in SUBSET QuotedStores
    BY DEF QuoteInv, QuoteTypeOK, Answered, Optional
  <2> QED
    BY <2>1
<1> HIDE DEF g, free, delivered
<1>3. IsFiniteSet(QuotedStores) /\ IsFiniteSet(delivered) /\ IsFiniteSet(free)
  BY <1>2, StoresAreFinite, FS_Subset
<1>4. \A s \in QuotedStores : g[s] \in Int
  BY <1>1
<1>5. Sum(g, delivered \cup free) = Sum(g, delivered) + Sum(g, free)
  BY <1>2, <1>3, <1>4, SumUnion
<1>6. Sum(g, free) = 0
  <2>1. \A s \in free : g[s] = 0
    BY <1>1, <1>2
  <2> QED
    BY <1>3, <2>1, SumZero
<1>7. Sum(g, delivered) = Sum(BasePrice, delivered)
  <2>1. \A s \in delivered : g[s] = BasePrice[s]
    BY <1>1, <1>2
  <2> QED
    BY <1>3, <2>1, SumEqual
<1>8. Sum(BasePrice, delivered) \in Nat
  <2>1. \A s \in delivered : BasePrice[s] \in Nat
    BY <1>1, <1>2
  <2> QED
    BY <1>3, <2>1, SumNat
<1>9. Sum(g, QuotedStores) = Sum(g, delivered) + Sum(g, free)
  BY <1>2, <1>5
<1>10. Sum(g, QuotedStores) = Sum(BasePrice, delivered)
  BY <1>6, <1>7, <1>8, <1>9
<1> QED
  BY <1>1, <1>8, <1>10 DEF g, delivered

\* The days of a period, both ends included, are those that rentalDays counts.
LEMMA DaysCounted ==
  ASSUME QuoteInv, Answered, cart.period # Absent
  PROVE  /\ Cardinality(cart.period.start .. cart.period.end) = RentalDays(cart.period)
         /\ RentalDays(cart.period) \in Nat
<1> DEFINE s == cart.period.start
           e == cart.period.end
<1>2. RentalDays(cart.period) = e - s + 1
  BY DEF RentalDays
<1>3. s \in Nat /\ e \in Nat /\ s <= e
  BY PeriodFound
<1> HIDE DEF s, e
<1>4. Cardinality(s .. e) = IF s > e THEN 0 ELSE e - s + 1
  BY <1>3, FS_Interval
<1> QED
  BY <1>2, <1>3, <1>4 DEF s, e

\* A line is the price of a day times the days, both inclusive.
LEMMA LineIsDaysTimesPrice ==
  ASSUME QuoteInv, Answered, cart.period # Absent, NEW i \in Charged, DailyPrice(Found(i).price, cart.period) % 10 = 0
  PROVE  Lines[i].lineTotal = Lines[i].price * Cardinality(cart.period.start .. cart.period.end)
<1> DEFINE d == DailyPrice(Found(i).price, cart.period)
           n == Cardinality(cart.period.start .. cart.period.end)
           c == d \div 10
<1>1. i \in Items
  BY DEF Charged
<1>2. /\ Lines[i].lineTotal = Money(d * RentalDays(cart.period))
      /\ Lines[i].price = Money(d)
  BY <1>1, LinesSay
<1>3. d \in Nat /\ d % 10 = 0
  BY <1>1, DailyIsBargain
<1>4. n = RentalDays(cart.period) /\ n \in Nat
  BY DaysCounted
<1> HIDE DEF d, n
<1>5. c \in Nat /\ d = 10 * c
  BY <1>3
<1> HIDE DEF c
<1>6. c * n \in Nat /\ d * n = 10 * (c * n)
  BY <1>4, <1>5
<1>7. Money(d) = c
  BY <1>5, MoneyOfCents
<1>8. Money(d * n) = c * n
  <2> DEFINE m == c * n
  <2>1. m \in Nat /\ d * n = 10 * m
    BY <1>6
  <2> HIDE DEF m
  <2>2. Money(10 * m) = m
    BY <2>1, MoneyOfCents
  <2> QED
    BY <2>1, <2>2 DEF m
<1> QED
  BY <1>2, <1>4, <1>7, <1>8 DEF n

\* calculateCartTotals: in every reachable state the total is that of the stores, and that of the
\* lines and one delivery for each store that delivers, and a line is its price times its days.
THEOREM TotalsAddUpAlways == QuoteSpec => []TotalsAddUp
<1>1. ASSUME QuoteInv, Answered PROVE Answer.amount = MapThenSumSet(LAMBDA s : Groups[s].total, QuotedStores)
  <2> DEFINE h == GroupTotals(Groups)
             f == GroupItems(Groups)
             g == GroupDeliveries(Groups)
  <2>1. \A s \in QuotedStores : f[s] \in Int /\ g[s] \in Int /\ h[s] = f[s] + g[s]
    <3>1. \A s \in QuotedStores : /\ f[s] = Groups[s].itemsTotal
                                  /\ g[s] = Groups[s].deliveryCost
                                  /\ h[s] = Groups[s].total
      BY DEF GroupTotals, GroupItems, GroupDeliveries
    <3>2. \A s \in QuotedStores : Groups[s].total = Groups[s].itemsTotal + Groups[s].deliveryCost
      BY AnswerSays
    <3> HIDE DEF f, g, h
    <3> QED
      BY <1>1, <3>1, <3>2, ItemsOfStores, DeliveriesOfStores
  <2>2. MapThenSumSet(LAMBDA s : Groups[s].total, QuotedStores) = Sum(h, QuotedStores)
    BY TotalsAsSum DEF GroupTotals
  <2>3. Answer.amount = Sum(f, QuotedStores) + Sum(g, QuotedStores)
    BY AnswerSays
  <2> HIDE DEF f, g, h
  <2>4. Sum(h, QuotedStores) = Sum(f, QuotedStores) + Sum(g, QuotedStores)
    BY <2>1, StoresAreFinite, SumSplits
  <2> QED
    BY <2>2, <2>3, <2>4
<1>2. ASSUME QuoteInv, Answered
      PROVE  Answer.amount = MapThenSumSet(LAMBDA i : Lines[i].lineTotal, Charged)
                                    + MapThenSumSet(LAMBDA s : BasePrice[s], cart.delivery)
  <2> DEFINE f == LineTotals(Lines)
             g == [i \in Charged |-> Lines[i].lineTotal]
  <2>1. MapThenSumSet(LAMBDA i : Lines[i].lineTotal, Charged) = Sum(g, Charged)
    BY LinesAsSum
  <2>2. Charged \in SUBSET Items
    BY <1>2, ItemsOfStores
  <2>3. \A i \in Charged : g[i] = f[i]
    BY <2>2 DEF LineTotals
  <2> HIDE DEF f, g
  <2>4. Sum(g, Charged) = Sum(f, Charged)
    BY <2>2, <2>3, StoresAreFinite, PartSum
  <2>5. Answer.amount = Answer.itemsAmount + Sum(GroupDeliveries(Groups), QuotedStores)
    BY AnswerSays
  <2>6. Answer.itemsAmount = Sum(f, Charged)
    BY <1>2, ItemsOfStores DEF f
  <2>7. MapThenSumSet(LAMBDA s : BasePrice[s], cart.delivery) = Sum(BasePrice, cart.delivery)
    BY BasePricesAsSum
  <2> QED
    BY <1>2, <2>1, <2>4, <2>5, <2>6, <2>7, DeliveriesOfStores
<1>3. QuoteInv => TotalsAddUp
  BY <1>1, <1>2, LineIsDaysTimesPrice DEF TotalsAddUp
<1> QED
  BY <1>3, QuotesKept, PTL

\* The sum of the list prices, as a sum of a function.
LEMMA BargainsAsSum ==
  ASSUME NEW T, NEW n
  PROVE  MapThenSumSet(LAMBDA i : Money(Found(i).price.list * n), T) = Sum([i \in T |-> Money(Found(i).price.list * n)], T)
  BY DEF Sum, MapThenSumSet, MapThenFoldSet

\* No sequence of patches to list prices and offers makes an answer cost more than the list prices.
THEOREM OffersAreBargainsAlways == QuoteSpec => []OffersAreBargains
<1>1. ASSUME QuoteInv, Answered
      PROVE  Answer.itemsAmount <= MapThenSumSet(LAMBDA i : Money(Found(i).price.list * Answer.days), Charged)
  <2> DEFINE n == Answer.days
             f == LineTotals(Lines)
             g == [i \in Charged |-> Money(Found(i).price.list * n)]
  <2>1. MapThenSumSet(LAMBDA i : Money(Found(i).price.list * Answer.days), Charged) = Sum(g, Charged)
    BY BargainsAsSum
  <2>2. Answer.itemsAmount = Sum(f, Charged) /\ Charged \in SUBSET Items
    BY <1>1, ItemsOfStores
  <2>3. n = RentalDays(cart.period) /\ n \in Nat
    BY <1>1, DaysAreNat, AnswerSays
  <2>4. \A i \in Charged : f[i] = Lines[i].lineTotal /\ g[i] = Money(Found(i).price.list * n)
    BY <2>2 DEF LineTotals
  <2> HIDE DEF n, f, g
  <2>5. ASSUME NEW i \in Charged PROVE f[i] \in Int /\ g[i] \in Int /\ f[i] <= g[i]
    <3> DEFINE d == DailyPrice(Found(i).price, cart.period)
               l == Found(i).price.list
    <3>1. f[i] = Money(d * n) /\ g[i] = Money(l * n)
      BY <1>1, <2>2, <2>3, <2>4, LinesSay
    <3>2. d \in Nat /\ l \in Nat /\ d <= l
      BY <1>1, <2>2, DailyIsBargain
    <3> HIDE DEF d, l
    <3>3. d * n \in Nat /\ l * n \in Nat /\ d * n <= l * n
      BY <2>3, <3>2, TimesIsMonotone
    <3>4. Money(d * n) <= Money(l * n) /\ Money(d * n) \in Nat /\ Money(l * n) \in Nat
      BY <3>3, MoneyIsMonotone, MoneyIsNat
    <3> QED
      BY <3>1, <3>4
  <2>6. IsFiniteSet(Charged)
    BY <2>2, StoresAreFinite, FS_Subset
  <2>7. Sum(f, Charged) <= Sum(g, Charged)
    BY <2>5, <2>6, SumMonotone
  <2> QED
    BY <2>1, <2>2, <2>7
<1>2. QuoteInv => OffersAreBargains
  BY <1>1 DEF OffersAreBargains
<1> QED
  BY <1>2, QuotesKept, PTL
=============================================================================
