--------------------------------- MODULE Cart ---------------------------------
(***************************************************************************)
(* A client's cart: client/cart/cart.service.ts and cart.schema.ts.        *)
(*                                                                         *)
(* A cart is one document whose array `stores` groups the chosen lines by  *)
(* store.  Every operation loads the document, changes the array in        *)
(* memory, and writes it back in one of three ways: mongoose's save()      *)
(* writes the whole array if the document still has the loaded version     *)
(* __v; it pushes groups, whatever the version, when groups were only      *)
(* appended; and removing lines replaces the array, whatever the version,  *)
(* and leaves __v alone.                                                   *)
(*                                                                         *)
(* Requests stop at each await and are numbered as they arrive.  What a    *)
(* request chooses, the handoff of a store or the accessories of a line,   *)
(* bears the request's number.  The rental period is left out.             *)
(***************************************************************************)
EXTENDS Naturals, Sequences, SequencesExt

CONSTANTS Items,     \* available products and bundles
          Bundles,   \* those that are bundles
          StoreOf,   \* the store of each item
          Requests,  \* API requests of one client
          Budget,    \* how many requests are served, for each set of faults
          None       \* no document

CartStores == {StoreOf[i] : i \in Items}

\* Up to three requests overlap, removals among them if so said; an awaited call
\* throws, or the process dies.
Faults == {"overlap", "overlapping removals", "failure"}

ASSUME CartAssumption ==
  /\ \E S \in SUBSET SUBSET Faults : Budget \in [S -> Nat]
  /\ IsFiniteSet(Items) /\ DOMAIN StoreOf = Items /\ Bundles \subseteq Items
  /\ Requests \subseteq Nat /\ None \notin Nat

\* A group maps each of its lines to the request that chose its accessories.
Lines == UNION {[S -> Requests] : S \in SUBSET Items}
Group == [store: CartStores, handoff: Requests, items: Lines]
CartDocument == [v: Nat, groups: Seq(Group)]

ASSUME NoneIsNoCart == None \notin CartDocument

VARIABLES faults,  \* what may go wrong, chosen once
          cart,    \* MongoDB: the client's cart
          wanted,  \* history: the request that last chose each line, None if it is not wanted
          pc,      \* where each request is
          doc,     \* the cart each request loaded
          target   \* what each request is about: some items, or a store

vars == <<faults, cart, wanted, pc, doc, target>>

ItemsOf(groups) == UNION {DOMAIN groups[k].items : k \in DOMAIN groups}

LoneRemovals == "overlapping removals" \notin faults
Busy == {q \in Requests : pc[q] \notin {"idle", "done"}}

\* The request that comes next.
Idle(r) ==
  /\ pc[r] = "idle"
  /\ \A q \in Requests : q < r => pc[q] # "idle"
  /\ Cardinality({q \in Requests : pc[q] # "idle"}) < Budget[faults]
  /\ Cardinality(Busy) < IF "overlap" \in faults THEN 3 ELSE 1
  /\ LoneRemovals => \A q \in Busy : pc[q] # "write_removal"

Goto(r, label) == pc' = [pc EXCEPT ![r] = label] /\ UNCHANGED faults

Begin(r, about, label) ==
  /\ Idle(r)
  /\ doc' = [doc EXCEPT ![r] = cart]
  /\ target' = [target EXCEPT ![r] = about]
  /\ Goto(r, label)
  /\ UNCHANGED <<cart, wanted>>

-----------------------------------------------------------------------------
\* The group that upsertLine and update find for a store.
First(groups, store) == CHOOSE k \in DOMAIN groups :
  groups[k].store = store /\ \A j \in 1 .. k - 1 : groups[j].store # store
InStore(items, store) == {i \in items : StoreOf[i] = store}
HasGroup(groups, store) == \E k \in DOMAIN groups : groups[k].store = store

\* The groups that are appended for the items of stores that have none.
NewGroups(groups, items, r) ==
  SetToSeq({[store |-> s, handoff |-> r, items |-> [i \in InStore(items, s) |-> r]] :
              s \in {StoreOf[i] : i \in {j \in items : ~HasGroup(groups, StoreOf[j])}}})

Upsert_AlwaysAppends(groups, items, r) == groups \o NewGroups(<<>>, items, r)

\* upsertLine, for each line: into the group of its store, whose handoff it
\* replaces, or into a new one.
Upsert(groups, items, r) ==
  [k \in DOMAIN groups |->
     LET new == InStore(items, groups[k].store) IN
     IF new # {} /\ First(groups, groups[k].store) = k
     THEN [groups[k] EXCEPT !.handoff = r,
                            !.items = [i \in DOMAIN @ \cup new |-> IF i \in new THEN r ELSE @[i]]]
     ELSE groups[k]]
  \o NewGroups(groups, items, r)

\* Lines of different stores, none of which has a group: the array is only
\* pushed to, and save() does not ask for the version.
OnlyAppends(groups, items) ==
  \A i \in items : ~HasGroup(groups, StoreOf[i]) /\ InStore(items, StoreOf[i]) = {i}

\* add: the items are available; load the cart.
BeginAdd(r, items) ==
  /\ items # {}
  /\ Begin(r, items, "save_add")

Current_Always(r) == TRUE

\* save() finds the document with the version that was loaded.
Current(r) == cart.v = doc[r].v

Saved(groups) == cart' = [v |-> cart.v + 1, groups |-> groups]
Chosen(r, items) == wanted' = [i \in Items |-> IF i \in items THEN r ELSE wanted[i]]

\* ... create it (one cart per user: a unique index) or save it.
SaveAdd(r) ==
  LET loaded == doc[r].groups
      items == target[r]
      ok == IF doc[r] = None THEN cart = None ELSE OnlyAppends(loaded, items) \/ Current(r)
  IN
  /\ pc[r] = "save_add"
  /\ CASE ~ok                 -> UNCHANGED cart
       [] ok /\ doc[r] = None -> cart' = [v |-> 0, groups |-> Upsert(<<>>, items, r)]
       [] ok /\ doc[r] # None -> Saved(IF OnlyAppends(loaded, items)
                                       THEN cart.groups \o NewGroups(loaded, items, r)
                                       ELSE Upsert(loaded, items, r))
  /\ IF ok THEN Chosen(r, items) ELSE UNCHANGED wanted
  /\ Goto(r, "done")
  /\ UNCHANGED <<doc, target>>

\* update: load the cart; the store has a group.
BeginUpdate(r, store) ==
  /\ cart # None
  /\ HasGroup(cart.groups, store)
  /\ Begin(r, store, "save_handoff")

\* ... save() the whole array with the new handoff.
SaveHandoff(r) ==
  LET groups == doc[r].groups IN
  /\ pc[r] = "save_handoff"
  /\ IF Current(r) THEN Saved([groups EXCEPT ![First(groups, target[r])].handoff = r]) ELSE UNCHANGED cart
  /\ Goto(r, "done")
  /\ UNCHANGED <<wanted, doc, target>>

\* updateAccessories: load the cart; a line of a product is in it.
BeginAccessories(r, i) ==
  /\ cart # None
  /\ i \in ItemsOf(cart.groups) \ Bundles
  /\ Begin(r, {i}, "save_accessories")

\* findProductItem: the first group that has the line.
Holder(groups, i) == CHOOSE k \in DOMAIN groups :
  i \in DOMAIN groups[k].items /\ \A j \in 1 .. k - 1 : i \notin DOMAIN groups[j].items

\* ... save() the whole array with the new accessories.
SaveAccessories(r) ==
  LET i == CHOOSE i \in target[r] : TRUE
      groups == doc[r].groups
  IN
  /\ pc[r] = "save_accessories"
  /\ IF Current(r)
     THEN Saved([groups EXCEPT ![Holder(groups, i)].items[i] = r]) /\ Chosen(r, {i})
     ELSE UNCHANGED <<cart, wanted>>
  /\ Goto(r, "done")
  /\ UNCHANGED <<doc, target>>

\* remove: load the cart; some of the lines are in it.
BeginRemove(r, items) ==
  /\ cart # None
  /\ items \cap ItemsOf(cart.groups) # {}
  /\ LoneRemovals => Busy = {}
  /\ Begin(r, items, "write_removal")

\* The loaded lines but these, in the groups that are left with some, in their order.
Without(groups, items) ==
  LET kept == {k \in DOMAIN groups : DOMAIN groups[k].items \ items # {}}
      At(n) == CHOOSE k \in kept : Cardinality({j \in kept : j <= k}) = n
  IN  [n \in 1 .. Cardinality(kept) |-> [groups[At(n)] EXCEPT !.items = Restrict(@, DOMAIN @ \ items)]]

\* ... updateOne with the new array.
WriteRemoval(r) ==
  /\ pc[r] = "write_removal"
  /\ cart' = [cart EXCEPT !.groups = Without(doc[r].groups, target[r])]
  /\ wanted' = [i \in Items |-> IF i \in target[r] THEN None ELSE wanted[i]]
  /\ Goto(r, "done")
  /\ UNCHANGED <<doc, target>>

\* An awaited call throws or the process dies.
RequestFails(r) ==
  /\ "failure" \in faults
  /\ pc[r] \notin {"idle", "done"}
  /\ Goto(r, "done")
  /\ UNCHANGED <<cart, wanted, doc, target>>

-----------------------------------------------------------------------------
Init ==
  /\ faults \in DOMAIN Budget
  /\ cart = None
  /\ wanted = [i \in Items |-> None]
  /\ pc = [r \in Requests |-> "idle"]
  /\ doc = [r \in Requests |-> None]
  /\ target = [r \in Requests |-> {}]

Next ==
  \/ \E r \in Requests, items \in SUBSET Items : BeginAdd(r, items) \/ BeginRemove(r, items)
  \/ \E r \in Requests, store \in CartStores : BeginUpdate(r, store)
  \/ \E r \in Requests, i \in Items : BeginAccessories(r, i)
  \/ \E r \in Requests :
       SaveAdd(r) \/ SaveHandoff(r) \/ SaveAccessories(r) \/ WriteRemoval(r) \/ RequestFails(r)

Spec == Init /\ [][Next]_vars

-----------------------------------------------------------------------------
Groups == IF cart = None THEN <<>> ELSE cart.groups

\* The variables have the types of the schema.
TypeOK ==
  /\ \A k \in DOMAIN Groups : Groups[k] \in Group
  /\ wanted \in [Items -> Requests \cup {None}]

\* "Si la linea ya esta, actualiza accesorios": unless requests overlap, a line is in
\* the cart once, and a store has one group, whose delivery is charged once.
OneLinePerItem ==
  "overlap" \notin faults =>
    \A j, k \in DOMAIN Groups : j # k => Groups[j].store # Groups[k].store

\* "crea o edita el carrito": the cart holds the lines that were added and not
\* removed since, each with the accessories that were chosen last; unless a
\* removal overlaps, no write of a stale array loses a line or a choice, or
\* brings one back.
CartIsWhatWasAsked ==
  LoneRemovals => \A i \in Items :
    IF wanted[i] = None THEN i \notin ItemsOf(Groups)
    ELSE \E k \in DOMAIN Groups : i \in DOMAIN Groups[k].items /\ Groups[k].items[i] = wanted[i]

\* A save gives a store the handoff that its own request chose, and never takes
\* another store's handoff back to an older one.  (A removal may: it drops a
\* group that has no lines left, which uncovers a second group of the store.)
Handoff(groups, store) == IF HasGroup(groups, store) THEN groups[First(groups, store)].handoff ELSE None
HandoffsStand ==
  [][\A store \in CartStores :
       LET new == Handoff(Groups', store) IN
       LoneRemovals /\ new # Handoff(Groups, store)
         => \E r \in Requests : pc[r] # pc'[r] /\ (new = r \/ pc[r] = "write_removal")]_vars
=============================================================================
