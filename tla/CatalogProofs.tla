---------------------------- MODULE CatalogProofs ----------------------------
(***************************************************************************)
(* The properties of Catalog, for any number of products and requests and  *)
(* every setting of the faults.                                            *)
(***************************************************************************)
EXTENDS Catalog, FiniteSetTheorems, TLAPS

Rest == {"idle", "done"}
Large(ps) == Cardinality(ps) >= 2

\* Products that exist or existed; their ids are never used again.
Known == Existing \cup gone

\* The types of the variables, those of what requests hold left to Held.
Types ==
  /\ faults \subseteq Faults
  /\ product \in [Products -> ProductDoc \cup {None}]
  /\ gone \subseteq Products
  /\ bundle \in [Requests -> BundleDoc \cup {None}]
  /\ pc \in [Requests -> PC]
  /\ target \in [Requests -> Products \cup Requests \cup {None}]
  /\ DOMAIN doc = Requests /\ DOMAIN want = Requests

\* What a patch of a bundle may write, and whether it lists products.
Patches == [status: Statuses, members: SUBSET Products, lists: BOOLEAN]

\* What a request holds at each await.
Held(r) ==
  /\ pc[r] \in {"save_product", "save_status"} => target[r] \in Products /\ doc[r] \in ProductDoc
  /\ pc[r] = "save_product" => want[r].status = "in_review"
  /\ pc[r] = "save_status" => doc[r].status \in ProviderStatuses /\ want[r].status \in ProviderStatuses
  /\ pc[r] \in {"mark_bundles", "delete_product"} => target[r] \in Products
  /\ pc[r] = "pull" => target[r] \in gone
  /\ pc[r] \in {"delete_bundles", "delete_products", "approve"} => doc[r].products \subseteq Products
  /\ pc[r] = "insert_bundle" =>
       want[r] \in BundleDoc /\ Large(want[r].members) /\ want[r].members \subseteq Known
  /\ pc[r] \in {"find_members", "read_members", "save_bundle"} =>
       /\ target[r] \in Requests
       /\ doc[r] \in BundleDoc /\ doc[r].members \subseteq Known
       /\ want[r] \in Patches
       /\ IF PatchesMembers(r) THEN Large(want[r].members) ELSE want[r].members = doc[r].members
  /\ pc[r] \in {"read_members", "save_bundle"} => want[r].members \subseteq Known
  /\ pc[r] = "write_bundles" => \A b \in DOMAIN want[r].bundles : want[r].bundles[b] \in Statuses

\* The products of a bundle exist or existed.
MembersAreKnown == \A b \in Bundles : bundle[b].members \subseteq Known

Data == Types /\ (\A r \in Requests : Held(r)) /\ MembersAreKnown

-----------------------------------------------------------------------------
\* The actions that begin a request.
Begins(r) ==
  \/ \E p \in Products : BeginEdit(r, p) \/ BeginRemove(r, p)
  \/ \E p \in Products, s \in ProviderStatuses : BeginToggle(r, p, s)
  \/ BeginRemoveAll(r) \/ BeginApproveAll(r)
  \/ \E ps \in SUBSET Products : BeginCreateBundle(r, ps) \/ BeginApprove(r, ps)
  \/ \E b \in Requests, s \in ProviderStatuses \cup {None}, ps \in SUBSET Products : BeginPatch(r, b, s, ps)
  \/ \E s \in Statuses : BeginSetStatus(r, s)

\* A step is of one request, or one of the two operations of a single write.
LEMMA NextCases ==
  ASSUME [Next]_vars
  PROVE  \/ \E r \in Requests : Begins(r) \/ RequestStep(r) \/ RequestFails(r)
         \/ \E p \in Products : CreateProduct(p)
         \/ \E b \in Requests : RemoveBundle(b)
         \/ UNCHANGED vars
BY DEF Next, Begins

\* The request q stands where it stood and holds what it held.
Same(q) == pc'[q] = pc[q] /\ target'[q] = target[q] /\ doc'[q] = doc[q] /\ want'[q] = want[q]

\* A request that begins changes nothing of the others.
LEMMA BeginFrame ==
  ASSUME Types, NEW r \in Requests, NEW x, NEW d, NEW w, NEW label \in PC, Begin(r, x, d, w, label),
         x \in Products \cup Requests \cup {None}
  PROVE  /\ pc[r] = "idle" /\ ("overlap" \in faults \/ Quiet)
         /\ pc'[r] = label /\ target'[r] = x /\ doc'[r] = d /\ want'[r] = w
         /\ \A q \in Requests \ {r} : Same(q)
         /\ faults' = faults /\ pc' \in [Requests -> PC]
         /\ target' \in [Requests -> Products \cup Requests \cup {None}]
         /\ DOMAIN doc' = Requests /\ DOMAIN want' = Requests
BY DEF Types, Begin, Idle, Goto, Same

\* Nor does one that goes on.
LEMMA GotoFrame ==
  ASSUME Types, NEW r \in Requests, NEW label \in PC, Goto(r, label)
  PROVE  /\ pc'[r] = label /\ \A q \in Requests \ {r} : pc'[q] = pc[q]
         /\ faults' = faults /\ pc' \in [Requests -> PC]
BY DEF Types, Goto

\* What a request holds stays right when products become known.
LEMMA HeldFrame ==
  ASSUME NEW q \in Requests, Held(q), Same(q), gone \subseteq gone', Known \subseteq Known'
  PROVE  Held(q)'
BY DEF Held, Same, PatchesMembers

\* A request that has ended holds nothing.
LEMMA RestHolds == ASSUME NEW r, pc[r] \in Rest PROVE Held(r)
BY DEF Held, Rest

\* Setting statuses neither creates nor deletes a product.
LEMMA SetStatusFrame ==
  ASSUME Types, NEW ps \in SUBSET Existing, NEW s \in Statuses, SetStatus(ps, s)
  PROVE  /\ product' \in [Products -> ProductDoc \cup {None}]
         /\ Existing' = Existing
         /\ \A p \in ps : product'[p].status = s /\ (s # "in_review" => product'[p].reviewed)
         /\ \A p \in Products \ ps : product'[p] = product[p]
<1>1. \A p \in Existing : product[p] \in ProductDoc
  BY DEF Types, Existing
<1>2. \A p \in ps : [status |-> s, reviewed |-> product[p].reviewed \/ s # "in_review"] \in ProductDoc
  BY <1>1, Zenon DEF ProductDoc
<1>3. /\ \A p \in ps : product'[p] = [status |-> s, reviewed |-> product[p].reviewed \/ s # "in_review"]
      /\ \A p \in Products \ ps : product'[p] = product[p]
  BY DEF SetStatus, Existing
<1>4. product' \in [Products -> ProductDoc \cup {None}]
  BY <1>1, <1>2, <1>3 DEF SetStatus, Types
<1>5. Existing' = Existing
  BY <1>2, <1>3, DocumentAssumption DEF Existing
<1>6. ASSUME NEW p \in ps PROVE product'[p].status = s /\ (s # "in_review" => product'[p].reviewed)
  <2> DEFINE value == product[p].reviewed \/ s # "in_review"
  <2>1. product'[p] = [status |-> s, reviewed |-> value]
    BY <1>3, Zenon
  <2>2. s # "in_review" => value
    OBVIOUS
  <2>3. value \in BOOLEAN
    OBVIOUS
  <2> HIDE DEF value
  <2>4. product'[p].status = s /\ product'[p].reviewed = value
    BY <2>1
  <2> QED
    BY <2>2, <2>4
<1> QED
  BY <1>3, <1>4, <1>5, <1>6

-----------------------------------------------------------------------------
\* What a step of the request r has to show: the others hold what they held.
LEMMA DataFrame ==
  ASSUME Data, NEW r \in Requests, \A q \in Requests \ {r} : Same(q), Held(r)',
         faults' = faults, pc' \in [Requests -> PC],
         target' \in [Requests -> Products \cup Requests \cup {None}],
         DOMAIN doc' = Requests, DOMAIN want' = Requests,
         product' \in [Products -> ProductDoc \cup {None}],
         bundle' \in [Requests -> BundleDoc \cup {None}],
         gone \subseteq gone', gone' \subseteq Products, Known \subseteq Known',
         \A b \in Bundles' : bundle'[b].members \subseteq Known'
  PROVE  Data'
<1>1. \A q \in Requests \ {r} : Held(q)'
  BY HeldFrame DEF Data
<1> QED
  BY <1>1 DEF Data, Types, MembersAreKnown

\* A step that leaves products and bundles alone has nothing to show but what r holds.
LEMMA ReadFrame ==
  ASSUME Data, NEW r \in Requests, \A q \in Requests \ {r} : Same(q), Held(r)',
         faults' = faults, pc' \in [Requests -> PC],
         target' \in [Requests -> Products \cup Requests \cup {None}],
         DOMAIN doc' = Requests, DOMAIN want' = Requests,
         UNCHANGED <<product, gone, bundle>>
  PROVE  Data'
<1>1. Existing' = Existing /\ Bundles' = Bundles /\ Known' = Known
  BY DEF Existing, Bundles, Known
<1> QED
  BY <1>1, DataFrame DEF Data, Types, MembersAreKnown

\* Init satisfies the invariant.
LEMMA InitData == Init => Data
<1> SUFFICES ASSUME Init PROVE Data
  OBVIOUS
<1> USE CatalogAssumption, DocumentAssumption
<1>1. faults \subseteq Faults
  <2>1. PICK S \in SUBSET SUBSET Faults : Budget \in [S -> Nat]
    OBVIOUS
  <2>2. DOMAIN Budget = S
    BY <2>1
  <2> QED
    BY <2>2 DEF Init
<1>2. Types
  BY <1>1 DEF Init, Types, PC
<1>3. \A r \in Requests : Held(r)
  BY RestHolds DEF Init, Rest
<1>4. MembersAreKnown
  BY DEF Init, MembersAreKnown, Bundles
<1> QED
  BY <1>2, <1>3, <1>4 DEF Data

\* Every request begins with what it needs.
LEMMA BeginsKeepData ==
  ASSUME Data, NEW r \in Requests, Begins(r) PROVE Data'
<1> USE CatalogAssumption, DocumentAssumption
<1>t. Types /\ MembersAreKnown
  BY DEF Data
<1>p. /\ \A p \in Existing : product[p] \in ProductDoc /\ p \in Products
      /\ \A b \in Bundles : bundle[b] \in BundleDoc /\ b \in Requests
      /\ Existing \subseteq Products
  BY <1>t DEF Types, Existing, Bundles
<1>k. None \in Products \cup Requests \cup {None} /\ r \in Products \cup Requests \cup {None}
  OBVIOUS
<1>1. ASSUME NEW p \in Products, BeginEdit(r, p) PROVE Data'
  <2>1. p \in Existing /\ UNCHANGED <<product, gone, bundle>>
        /\ Begin(r, p, product[p], [status |-> "in_review"], "save_product")
    BY <1>1 DEF BeginEdit
  <2>2. "save_product" \in PC /\ p \in Products \cup Requests \cup {None}
    BY DEF PC
  <2>3. Held(r)'
    BY <1>t, <1>p, <2>1, <2>2, BeginFrame DEF Held
  <2> QED
    BY <1>t, <2>1, <2>2, <2>3, BeginFrame, ReadFrame
<1>2. ASSUME NEW p \in Products, BeginRemove(r, p) PROVE Data'
  <2>1. p \in Existing /\ UNCHANGED <<product, gone, bundle>>
        /\ Begin(r, p, product[p], None, "delete_product")
    BY <1>2 DEF BeginRemove
  <2>2. "delete_product" \in PC /\ p \in Products \cup Requests \cup {None}
    BY DEF PC
  <2>3. Held(r)'
    BY <1>t, <1>p, <2>1, <2>2, BeginFrame DEF Held
  <2> QED
    BY <1>t, <2>1, <2>2, <2>3, BeginFrame, ReadFrame
<1>3. ASSUME NEW p \in Products, NEW s \in ProviderStatuses, BeginToggle(r, p, s) PROVE Data'
  <2>1. p \in Existing /\ UNCHANGED <<product, gone, bundle>> /\ product[p].status \in ProviderStatuses
        /\ Begin(r, p, product[p], [status |-> s], "save_status")
    BY <1>3 DEF BeginToggle
  <2>2. "save_status" \in PC /\ p \in Products \cup Requests \cup {None}
    BY DEF PC
  <2>3. Held(r)'
    BY <1>t, <1>p, <2>1, <2>2, BeginFrame DEF Held
  <2> QED
    BY <1>t, <2>1, <2>2, <2>3, BeginFrame, ReadFrame
<1>4. CASE BeginRemoveAll(r)
  <2>1. UNCHANGED <<product, gone, bundle>> /\ Begin(r, None, [products |-> Existing], None, "delete_bundles")
    BY <1>4 DEF BeginRemoveAll
  <2>2. "delete_bundles" \in PC
    BY DEF PC
  <2>3. Held(r)'
    BY <1>t, <1>p, <1>k, <2>1, <2>2, BeginFrame DEF Held
  <2> QED
    BY <1>t, <1>k, <2>1, <2>2, <2>3, BeginFrame, ReadFrame
<1>5. ASSUME NEW ps \in SUBSET Existing, NEW s \in Statuses, SetStatus(ps, s),
             Begin(r, None, None, None, "find_bundles"), UNCHANGED <<gone, bundle>>
      PROVE  Data'
  <2>1. "find_bundles" \in PC
    BY DEF PC
  <2>2. Held(r)'
    BY <1>t, <1>k, <1>5, <2>1, BeginFrame DEF Held
  <2>3. /\ product' \in [Products -> ProductDoc \cup {None}]
        /\ Known' = Known /\ Bundles' = Bundles
    BY <1>t, <1>5, SetStatusFrame DEF Known, Bundles
  <2> QED
    BY <1>t, <1>k, <1>5, <2>1, <2>2, <2>3, BeginFrame, DataFrame DEF Types, MembersAreKnown
<1>6. CASE BeginApproveAll(r)
  <2>1. InReview(Products) \subseteq Existing /\ "available" \in Statuses
    BY DEF InReview, Statuses
  <2> QED
    BY <1>5, <1>6, <2>1 DEF BeginApproveAll
<1>7. ASSUME NEW s \in Statuses, BeginSetStatus(r, s) PROVE Data'
  BY <1>5, <1>7 DEF BeginSetStatus
<1>8. ASSUME NEW ps \in SUBSET Products, BeginCreateBundle(r, ps) PROVE Data'
  <2> DEFINE w == [status |-> ReviewStatus(ps), members |-> ps, v |-> 0]
  <2>1. ps \subseteq Existing /\ UNCHANGED <<product, gone, bundle>> /\ Begin(r, r, None, w, "insert_bundle")
        /\ Cardinality(ps) \in 2 .. 10
    BY <1>8 DEF BeginCreateBundle
  <2>2. "insert_bundle" \in PC /\ w \in BundleDoc
    BY DEF PC, BundleDoc, ReviewStatus, Statuses
  <2>3. Large(w.members) /\ w.members \subseteq Known /\ Known' = Known
    BY <2>1 DEF Large, Known, Existing
  <2> HIDE DEF w
  <2>4. Held(r)'
    BY <1>t, <1>k, <2>1, <2>2, <2>3, BeginFrame DEF Held
  <2> QED
    BY <1>t, <1>k, <2>1, <2>2, <2>4, BeginFrame, ReadFrame
<1>9. ASSUME NEW ps \in SUBSET Products, BeginApprove(r, ps) PROVE Data'
  <2>1. UNCHANGED <<product, gone, bundle>> /\ Begin(r, None, [products |-> ps], None, "approve")
    BY <1>9 DEF BeginApprove
  <2>2. "approve" \in PC
    BY DEF PC
  <2>3. Held(r)'
    BY <1>t, <1>k, <2>1, <2>2, BeginFrame DEF Held
  <2> QED
    BY <1>t, <1>k, <2>1, <2>2, <2>3, BeginFrame, ReadFrame
<1>10. ASSUME NEW b \in Requests, NEW s \in ProviderStatuses \cup {None}, NEW ps \in SUBSET Products,
              BeginPatch(r, b, s, ps)
       PROVE  Data'
  <2> DEFINE w == [status |-> IF s = None THEN bundle[b].status ELSE s,
                   members |-> IF ps = {} THEN bundle[b].members ELSE ps,
                   lists |-> ps # {}]
             label == IF ps = {} THEN "read_members" ELSE "find_members"
  <2>1. b \in Bundles /\ UNCHANGED <<product, gone, bundle>> /\ Begin(r, b, bundle[b], w, label)
        /\ (ps # {} => Cardinality(ps) \in 2 .. 10)
    BY <1>10 DEF BeginPatch
  <2>2. label \in PC /\ b \in Products \cup Requests \cup {None}
    BY DEF PC
  <2>3. w \in Patches
    BY <1>p, <2>1 DEF Patches, BundleDoc, Statuses, ProviderStatuses
  <2>4. /\ IF w.lists THEN Large(w.members) ELSE w.members = bundle[b].members
        /\ label \in {"read_members", "find_members"} /\ (label = "read_members" => ~w.lists)
    <3>1. CASE ps = {}
      BY <3>1
    <3>2. CASE ps # {}
      <4>1. w.members = ps /\ w.lists /\ label = "find_members"
        BY <3>2
      <4>2. Large(ps)
        BY <2>1, <3>2 DEF Large
      <4> QED
        BY <4>1, <4>2
    <3> QED
      BY <3>1, <3>2
  <2>5. bundle[b] \in BundleDoc /\ bundle[b].members \subseteq Known /\ Known' = Known
    BY <1>t, <1>p, <2>1 DEF MembersAreKnown, Known, Existing
  <2> HIDE DEF w, label
  <2>6. Held(r)'
    BY <1>t, <1>k, <2>1, <2>2, <2>3, <2>4, <2>5, BeginFrame DEF Held, PatchesMembers
  <2> QED
    BY <1>t, <1>k, <2>1, <2>2, <2>6, BeginFrame, ReadFrame
<1> QED
  BY <1>1, <1>2, <1>3, <1>4, <1>6, <1>7, <1>8, <1>9, <1>10 DEF Begins

\* So does every request that goes on to its end without a write.
LEMMA EndKeepsData ==
  ASSUME Data, NEW r \in Requests, Goto(r, "done"), UNCHANGED <<product, gone, bundle, memory>>
  PROVE  Data'
<1>1. Types /\ "done" \in PC
  BY DEF Data, PC
<1>2. pc'[r] = "done"
  BY <1>1, GotoFrame
<1>3. Held(r)'
  BY <1>2 DEF Held
<1> QED
  BY <1>1, <1>3, GotoFrame, ReadFrame DEF Types, memory, Same

\* A write of products that leaves each of them in the catalog.
LEMMA ProductsFrame ==
  ASSUME Data, NEW r \in Requests, NEW label \in PC, Goto(r, label), Held(r)',
         product' \in [Products -> ProductDoc \cup {None}], Existing' = Existing,
         UNCHANGED <<gone, bundle, memory>>
  PROVE  Data'
<1>1. Known' = Known /\ Bundles' = Bundles
  BY DEF Known, Bundles
<1> QED
  BY <1>1, GotoFrame, DataFrame DEF Data, Types, MembersAreKnown, memory, Same

\* A write of bundles.
LEMMA BundlesFrame ==
  ASSUME Data, NEW r \in Requests, NEW label \in PC, Goto(r, label), Held(r)',
         bundle' \in [Requests -> BundleDoc \cup {None}],
         \A b \in Bundles' : bundle'[b].members \subseteq Known,
         UNCHANGED <<product, gone, memory>>
  PROVE  Data'
<1>1. Known' = Known
  BY DEF Known, Existing
<1> QED
  BY <1>1, GotoFrame, DataFrame DEF Data, Types, memory, Same

\* A save of a product, or an approval, neither creates nor deletes one.
LEMMA SavesKeepProducts ==
  ASSUME Data, NEW r \in Requests, SaveProduct(r) \/ SaveStatus(r) \/ Approve(r)
  PROVE  product' \in [Products -> ProductDoc \cup {None}] /\ Existing' = Existing
<1> USE DocumentAssumption
<1> DEFINE p == target[r]
           value == [product[p] EXCEPT !.status = Saved(@, doc[r].status, want[r].status)]
<1>1. /\ Types /\ Held(r)
      /\ \A q \in Existing : product[q] \in ProductDoc
  BY DEF Data, Types, Existing
<1>2. CASE UNCHANGED product
  BY <1>1, <1>2 DEF Types, Existing
<1>3. ASSUME NEW new \in ProductDoc, p \in Existing, product' = [product EXCEPT ![p] = new]
      PROVE  product' \in [Products -> ProductDoc \cup {None}] /\ Existing' = Existing
  BY <1>1, <1>3 DEF Types, Existing
<1>4. CASE SaveProduct(r)
  <2>1. p \in Existing => Edited(r, product[p]) \in ProductDoc
    BY <1>1, <1>4 DEF SaveProduct, Held, Edited, Saved, ProductDoc, Statuses
  <2> QED
    BY <1>2, <1>3, <1>4, <2>1 DEF SaveProduct
<1>5. CASE SaveStatus(r)
  <2>1. p \in Existing => value \in ProductDoc
    BY <1>1, <1>5 DEF SaveStatus, Held, Saved, ProductDoc, Statuses, ProviderStatuses
  <2> QED
    BY <1>2, <1>3, <1>5, <2>1 DEF SaveStatus
<1>6. CASE Approve(r)
  <2>1. SetStatus(InReview(doc[r].products), "available")
    BY <1>6 DEF Approve
  <2>2. InReview(doc[r].products) \subseteq Existing /\ "available" \in Statuses
    BY DEF InReview, Statuses
  <2> QED
    BY <1>1, <2>1, <2>2, SetStatusFrame
<1> QED
  BY <1>4, <1>5, <1>6

\* Every awaited call keeps the types and what is held.
LEMMA StepsKeepData ==
  ASSUME Data, NEW r \in Requests, RequestStep(r) PROVE Data'
<1> USE CatalogAssumption, DocumentAssumption
<1>t. Types /\ MembersAreKnown /\ Held(r)
  BY DEF Data
<1>p. /\ \A p \in Existing : product[p] \in ProductDoc /\ p \in Products
      /\ \A b \in Bundles : bundle[b] \in BundleDoc /\ bundle[b].members \subseteq Known
      /\ \A b \in Requests : b \notin Bundles => bundle[b] = None
      /\ Existing \subseteq Products /\ Bundles \subseteq Requests
  BY <1>t DEF Types, Existing, Bundles, MembersAreKnown
<1>f. \A label \in PC : Goto(r, label) => pc'[r] = label
  BY <1>t, GotoFrame
<1>l. {"mark_bundles", "pull", "delete_small", "delete_products", "read_members", "save_bundle", "find_bundles",
       "find_products", "write_bundles", "done"} \subseteq PC
  BY DEF PC
<1>1. CASE SaveProduct(r)
  <2>1. product' \in [Products -> ProductDoc \cup {None}] /\ Existing' = Existing
    BY <1>1, SavesKeepProducts
  <2>2. PICK label \in {"mark_bundles", "done"} : Goto(r, label)
    BY <1>1 DEF SaveProduct
  <2>3. pc[r] = "save_product" /\ UNCHANGED <<gone, bundle, memory>>
    BY <1>1 DEF SaveProduct
  <2>4. Held(r)'
    BY <1>t, <1>f, <1>l, <2>2, <2>3 DEF Held, memory
  <2> QED
    BY <1>l, <2>1, <2>2, <2>3, <2>4, ProductsFrame
<1>2. CASE SaveStatus(r)
  <2>1. product' \in [Products -> ProductDoc \cup {None}] /\ Existing' = Existing
    BY <1>2, SavesKeepProducts
  <2>2. UNCHANGED <<gone, bundle, memory>> /\ Goto(r, "done")
    BY <1>2 DEF SaveStatus
  <2>3. Held(r)'
    BY <1>f, <1>l, <2>2 DEF Held
  <2> QED
    BY <1>l, <2>1, <2>2, <2>3, ProductsFrame
<1>3. CASE MarkBundles(r)
  <2>1. pc[r] = "mark_bundles" /\ UNCHANGED <<product, gone, memory>> /\ Goto(r, "done")
        /\ ToReview(Including(target[r]))
    BY <1>3 DEF MarkBundles
  <2>2. \A b \in Requests :
          \/ bundle'[b] = bundle[b]
          \/ b \in Bundles /\ bundle'[b] = [bundle[b] EXCEPT !.status = "in_review"]
    BY <2>1 DEF ToReview, Including
  <2>3. \A b \in Bundles : /\ [bundle[b] EXCEPT !.status = "in_review"] \in BundleDoc
                           /\ [bundle[b] EXCEPT !.status = "in_review"].members = bundle[b].members
    BY <1>p DEF BundleDoc, Statuses
  <2>4. bundle' \in [Requests -> BundleDoc \cup {None}]
    BY <1>t, <2>1, <2>2, <2>3 DEF Types, ToReview
  <2>5. \A b \in Bundles' : bundle'[b].members \subseteq Known
    BY <1>p, <2>2, <2>3 DEF Bundles
  <2>6. Held(r)'
    BY <1>f, <1>l, <2>1 DEF Held
  <2> QED
    BY <1>l, <2>1, <2>4, <2>5, <2>6, BundlesFrame
<1>4. CASE DeleteProduct(r)
  <2> DEFINE p == target[r]
  <2>1. pc[r] = "delete_product" /\ UNCHANGED <<bundle, memory>> /\ p \in Products
    BY <1>t, <1>4 DEF DeleteProduct, Held
  <2>2. CASE UNCHANGED <<product, gone>> /\ Goto(r, "done")
    BY <2>1, <2>2, EndKeepsData
  <2>3. CASE product' = [product EXCEPT ![p] = None] /\ gone' = gone \cup {p} /\ Goto(r, "pull")
    <3>1. /\ product' \in [Products -> ProductDoc \cup {None}]
          /\ Known \subseteq Known' /\ Bundles' = Bundles
      BY <1>t, <2>1, <2>3 DEF Types, Known, Existing, Bundles
    <3>2. Held(r)'
      BY <1>f, <1>l, <2>1, <2>3 DEF Held, memory
    <3> QED
      BY <1>t, <1>l, <2>1, <2>3, <3>1, <3>2, GotoFrame, DataFrame DEF Types, MembersAreKnown, memory, Same
  <2> QED
    BY <1>4, <2>2, <2>3 DEF DeleteProduct
<1>5. CASE Pull(r)
  <2>1. pc[r] = "pull" /\ UNCHANGED <<product, gone, memory>> /\ Goto(r, "delete_small")
    BY <1>5 DEF Pull
  <2>2. \A b \in Bundles :
          /\ [bundle[b] EXCEPT !.members = @ \ {target[r]}] \in BundleDoc
          /\ [bundle[b] EXCEPT !.members = @ \ {target[r]}].members = bundle[b].members \ {target[r]}
    BY <1>p DEF BundleDoc
  <2>3. /\ \A b \in Bundles : bundle'[b] = [bundle[b] EXCEPT !.members = @ \ {target[r]}]
        /\ \A b \in Requests \ Bundles : bundle'[b] = None
    BY <1>p, <1>5 DEF Pull
  <2>4. bundle' \in [Requests -> BundleDoc \cup {None}]
    BY <1>5, <2>2 DEF Pull
  <2>5. \A b \in Bundles : bundle'[b].members = bundle[b].members \ {target[r]}
    BY <2>2, <2>3, Zenon
  <2>6. \A b \in Bundles' : b \in Bundles
    BY <2>3 DEF Bundles
  <2>7. Held(r)'
    BY <1>f, <1>l, <2>1 DEF Held
  <2> QED
    BY <1>l, <1>p, <2>1, <2>4, <2>5, <2>6, <2>7, BundlesFrame
<1>6. CASE DeleteSmall(r)
  <2>1. pc[r] = "delete_small" /\ UNCHANGED <<product, gone, memory>> /\ Goto(r, "done")
        /\ bundle' = [b \in Requests |-> IF b \in Bundles /\ TooSmall(b) THEN None ELSE bundle[b]]
    BY <1>6 DEF DeleteSmall
  <2>2. bundle' \in [Requests -> BundleDoc \cup {None}]
    BY <1>t, <2>1 DEF Types
  <2>3. \A b \in Bundles' : bundle'[b].members \subseteq Known
    BY <1>p, <2>1 DEF Bundles
  <2>4. Held(r)'
    BY <1>f, <1>l, <2>1 DEF Held
  <2> QED
    BY <1>l, <2>1, <2>2, <2>3, <2>4, BundlesFrame
<1>7. CASE DeleteBundles(r)
  <2>1. pc[r] = "delete_bundles" /\ UNCHANGED <<product, gone, memory>> /\ Goto(r, "delete_products")
        /\ bundle' = [b \in Requests |-> None]
    BY <1>7 DEF DeleteBundles
  <2>2. Held(r)'
    BY <1>t, <1>f, <1>l, <2>1 DEF Held, memory
  <2> QED
    BY <1>l, <2>1, <2>2, BundlesFrame DEF Bundles
<1>8. CASE DeleteProducts(r)
  <2>1. /\ pc[r] = "delete_products" /\ UNCHANGED <<bundle, memory>> /\ Goto(r, "done")
        /\ product' = [p \in Products |-> IF p \in doc[r].products THEN None ELSE product[p]]
        /\ gone' = gone \cup doc[r].products /\ doc[r].products \subseteq Products
    BY <1>t, <1>8 DEF DeleteProducts, Held
  <2>2. /\ product' \in [Products -> ProductDoc \cup {None}]
        /\ Known \subseteq Known' /\ Bundles' = Bundles
    BY <1>t, <2>1 DEF Types, Known, Existing, Bundles
  <2>3. Held(r)'
    BY <1>f, <1>l, <2>1 DEF Held
  <2> QED
    BY <1>t, <1>l, <2>1, <2>2, <2>3, GotoFrame, DataFrame DEF Types, MembersAreKnown, memory, Same
<1>9. CASE InsertBundle(r)
  <2>1. /\ pc[r] = "insert_bundle" /\ UNCHANGED <<product, gone, memory>> /\ Goto(r, "done")
        /\ bundle' = [bundle EXCEPT ![r] = want[r]]
        /\ want[r] \in BundleDoc /\ want[r].members \subseteq Known
    BY <1>t, <1>9 DEF InsertBundle, Held
  <2>2. bundle' \in [Requests -> BundleDoc \cup {None}] /\ \A b \in Bundles' : bundle'[b].members \subseteq Known
    BY <1>t, <1>p, <2>1 DEF Types, Bundles
  <2>3. Held(r)'
    BY <1>f, <1>l, <2>1 DEF Held
  <2> QED
    BY <1>l, <2>1, <2>2, <2>3, BundlesFrame
<1>10. CASE ReadMembers(r)
  <2> DEFINE w == [want[r] EXCEPT !.status = IF @ \in Open THEN ReviewStatus(want[r].members) ELSE @]
  <2>1. pc[r] = "read_members" /\ UNCHANGED <<product, gone, bundle, target, doc>>
        /\ want' = [want EXCEPT ![r] = w]
    BY <1>10 DEF ReadMembers
  <2>2. Goto(r, "save_bundle")
    BY <1>10 DEF ReadMembers
  <2>3. want[r] \in Patches /\ want[r].members \subseteq Known
    BY <1>t, <2>1 DEF Held
  <2>4. w \in Patches /\ w.members = want[r].members /\ w.lists = want[r].lists
    BY <2>3 DEF Patches, ReviewStatus, Statuses
  <2> HIDE DEF w
  <2>5. want'[r] = w /\ (\A q \in Requests \ {r} : want'[q] = want[q]) /\ DOMAIN want' = Requests
    BY <1>t, <2>1 DEF Types
  <2>6. PatchesMembers(r)' = PatchesMembers(r) /\ Known' = Known
    BY <2>1, <2>4, <2>5 DEF PatchesMembers, Known, Existing
  <2>7. Held(r)'
    BY <1>t, <1>f, <1>l, <2>1, <2>2, <2>3, <2>4, <2>5, <2>6 DEF Held
  <2> QED
    BY <1>t, <1>l, <2>1, <2>2, <2>5, <2>7, GotoFrame, ReadFrame DEF Types, Same
<1>11. CASE SaveBundle(r)
  <2> DEFINE b == target[r]
             value == [status |-> Saved(bundle[b].status, doc[r].status, want[r].status),
                       members |-> IF PatchesMembers(r) THEN want[r].members ELSE bundle[b].members,
                       v |-> IF PatchesMembers(r) THEN bundle[b].v + 1 ELSE bundle[b].v]
  <2>1. pc[r] = "save_bundle" /\ UNCHANGED <<product, gone, memory>> /\ Goto(r, "done")
    BY <1>11 DEF SaveBundle
  <2>2. CASE UNCHANGED bundle
    BY <2>1, <2>2, EndKeepsData
  <2>3. CASE b \in Bundles /\ bundle' = [bundle EXCEPT ![b] = value]
    <3>1. want[r] \in Patches /\ want[r].members \subseteq Known
          /\ bundle[b] \in BundleDoc /\ bundle[b].members \subseteq Known
      BY <1>t, <1>p, <2>1, <2>3 DEF Held
    <3>2. value \in BundleDoc /\ value.members \subseteq Known
      BY <3>1 DEF Patches, PatchesMembers, BundleDoc, Saved
    <3> HIDE DEF value
    <3>3. bundle' \in [Requests -> BundleDoc \cup {None}] /\ \A c \in Bundles' : bundle'[c].members \subseteq Known
      BY <1>t, <1>p, <2>3, <3>2 DEF Types, Bundles
    <3>4. Held(r)'
      BY <1>f, <1>l, <2>1 DEF Held
    <3> QED
      BY <1>l, <2>1, <3>3, <3>4, BundlesFrame
  <2> QED
    BY <1>11, <2>2, <2>3 DEF SaveBundle
<1>12. CASE Approve(r)
  <2>1. product' \in [Products -> ProductDoc \cup {None}] /\ Existing' = Existing
    BY <1>12, SavesKeepProducts
  <2>2. UNCHANGED <<gone, bundle, memory>> /\ Goto(r, "find_bundles")
    BY <1>12 DEF Approve
  <2>3. Held(r)'
    BY <1>f, <1>l, <2>2 DEF Held
  <2> QED
    BY <1>l, <2>1, <2>2, <2>3, ProductsFrame
<1>13. CASE FindBundles(r)
  <2> DEFINE d == [bundles |-> [b \in {c \in Bundles : Syncable(c)} |-> bundle[b]]]
  <2>1. doc' = [doc EXCEPT ![r] = d] /\ UNCHANGED <<product, gone, bundle, target, want>>
    BY <1>13 DEF FindBundles
  <2>2. PICK label \in {"done", "find_products"} : Goto(r, label)
    BY <1>13 DEF FindBundles
  <2> HIDE DEF d
  <2>3. Held(r)'
    BY <1>f, <1>l, <2>2 DEF Held
  <2> QED
    BY <1>t, <1>l, <2>1, <2>2, <2>3, GotoFrame, ReadFrame DEF Types, Same
<1>14. CASE FindProducts(r)
  <2> DEFINE found == doc[r].bundles
             next(b) == BundleStatusForMembers({StatusOf(p) : p \in found[b].members})
             changed == {b \in DOMAIN found : next(b) # found[b].status}
             w == [bundles |-> [b \in changed |-> next(b)]]
  <2>1. want' = [want EXCEPT ![r] = w] /\ UNCHANGED <<product, gone, bundle, target, doc>>
    BY <1>14 DEF FindProducts
  <2>2. PICK label \in {"done", "write_bundles"} : Goto(r, label)
    BY <1>14 DEF FindProducts
  <2>3. \A statuses : BundleStatusForMembers(statuses) \in Statuses
    BY DEF BundleStatusForMembers, Statuses
  <2>4. \A b \in DOMAIN w.bundles : w.bundles[b] \in Statuses
    BY <2>3
  <2> HIDE DEF w
  <2>5. want'[r] = w /\ (\A q \in Requests \ {r} : want'[q] = want[q]) /\ DOMAIN want' = Requests
    BY <1>t, <2>1 DEF Types
  <2>6. Held(r)'
    BY <1>f, <1>l, <2>2, <2>4, <2>5 DEF Held
  <2> QED
    BY <1>t, <1>l, <2>1, <2>2, <2>5, <2>6, GotoFrame, ReadFrame DEF Types, Same
<1>15. CASE WriteBundles(r)
  <2> DEFINE written == Bundles \cap DOMAIN want[r].bundles
  <2>1. pc[r] = "write_bundles" /\ UNCHANGED <<product, gone, memory>> /\ Goto(r, "done")
        /\ bundle' = [b \in Requests |->
             IF b \in written THEN [bundle[b] EXCEPT !.status = want[r].bundles[b]] ELSE bundle[b]]
    BY <1>15 DEF WriteBundles
  <2>2. \A b \in written : [bundle[b] EXCEPT !.status = want[r].bundles[b]] \in BundleDoc
    BY <1>t, <1>p, <2>1 DEF Held, BundleDoc
  <2>3. bundle' \in [Requests -> BundleDoc \cup {None}]
    BY <1>t, <2>1, <2>2 DEF Types
  <2>4. \A b \in Bundles' : bundle'[b].members \subseteq Known
    BY <1>p, <2>1, <2>2 DEF Bundles, BundleDoc
  <2>5. Held(r)'
    BY <1>f, <1>l, <2>1 DEF Held
  <2> QED
    BY <1>l, <2>1, <2>3, <2>4, <2>5, BundlesFrame
<1>16. CASE FindMembers(r)
  <2>1. pc[r] = "find_members" /\ UNCHANGED <<product, gone, bundle, memory>>
    BY <1>16 DEF FindMembers
  <2>2. CASE Goto(r, "done")
    BY <2>1, <2>2, EndKeepsData
  <2>3. CASE Goto(r, "read_members") /\ want[r].members \subseteq Existing
    <3>1. Held(r)'
      BY <1>t, <1>f, <1>l, <2>1, <2>3 DEF Held, PatchesMembers, Known, memory, Existing
    <3> QED
      BY <1>t, <1>l, <2>1, <2>3, <3>1, GotoFrame, ReadFrame DEF Types, memory, Same
  <2> QED
    BY <1>16, <2>2, <2>3 DEF FindMembers
<1> QED
  BY <1>1, <1>2, <1>3, <1>4, <1>5, <1>6, <1>7, <1>8, <1>9, <1>10, <1>11, <1>12, <1>13, <1>14, <1>15,
     <1>16 DEF RequestStep

\* A product is created and a bundle removed in one write each.
LEMMA SingleWritesKeepData ==
  ASSUME Data, \/ \E p \in Products : CreateProduct(p)
               \/ \E b \in Requests : RemoveBundle(b)
  PROVE  Data'
<1> USE DocumentAssumption
<1>t. Types /\ MembersAreKnown /\ \A q \in Requests : Held(q)
  BY DEF Data
<1>1. ASSUME NEW p \in Products, CreateProduct(p) PROVE Data'
  <2> DEFINE new == [status |-> "in_review", reviewed |-> FALSE]
  <2>1. product' = [product EXCEPT ![p] = new] /\ UNCHANGED <<faults, gone, bundle, pc, memory>>
    BY <1>1 DEF CreateProduct
  <2>2. new \in ProductDoc
    BY DEF ProductDoc, Statuses
  <2> HIDE DEF new
  <2>3. product' \in [Products -> ProductDoc \cup {None}] /\ Known \subseteq Known' /\ Bundles' = Bundles
    BY <1>t, <2>1, <2>2 DEF Types, Known, Existing, Bundles
  <2>4. \A q \in Requests : Held(q)'
    BY <1>t, <2>1, <2>3, HeldFrame DEF Same, memory
  <2> QED
    BY <1>t, <2>1, <2>3, <2>4 DEF Data, Types, MembersAreKnown, memory
<1>2. ASSUME NEW b \in Requests, RemoveBundle(b) PROVE Data'
  <2>1. bundle' = [bundle EXCEPT ![b] = None] /\ UNCHANGED <<faults, product, gone, pc, memory>>
    BY <1>2 DEF RemoveBundle
  <2>2. /\ bundle' \in [Requests -> BundleDoc \cup {None}] /\ Known' = Known
        /\ \A c \in Bundles' : c \in Bundles /\ bundle'[c] = bundle[c]
    BY <1>t, <2>1 DEF Types, Known, Existing, Bundles
  <2>3. \A q \in Requests : Held(q)'
    BY <1>t, <2>1, <2>2, HeldFrame DEF Same, memory
  <2> QED
    BY <1>t, <2>1, <2>2, <2>3 DEF Data, Types, MembersAreKnown, memory
<1> QED
  BY <1>1, <1>2

\* Types, what requests hold, and that members are known are invariants.
THEOREM SpecData == Spec => []Data
<1>1. Data /\ [Next]_vars => Data'
  <2> SUFFICES ASSUME Data, [Next]_vars PROVE Data'
    OBVIOUS
  <2>1. ASSUME NEW r \in Requests, RequestFails(r) PROVE Data'
    BY <2>1, EndKeepsData DEF RequestFails
  <2>2. CASE UNCHANGED vars
    <3>1. UNCHANGED <<product, gone, bundle, faults, pc, target, doc, want>>
      BY <2>2 DEF vars
    <3>2. Known' = Known /\ Bundles' = Bundles
      BY <3>1 DEF Known, Existing, Bundles
    <3>3. \A q \in Requests : Held(q)'
      BY <3>1, <3>2, HeldFrame DEF Same, Data
    <3> QED
      BY <3>1, <3>2, <3>3 DEF Data, Types, MembersAreKnown
  <2> QED
    BY <2>1, <2>2, NextCases, BeginsKeepData, StepsKeepData, SingleWritesKeepData
<1> QED
  BY <1>1, InitData, PTL DEF Spec

\* The variables have the types of the schemas.
THEOREM TypeCorrect == Spec => []TypeOK
<1>1. Data => TypeOK
  BY DEF Data, Types, TypeOK, Bundles
<1> QED
  BY <1>1, SpecData, PTL

-----------------------------------------------------------------------------
\* Only the two deletions take a product away.
LEMMA ProductsStay ==
  ASSUME Data, [Next]_vars, \A r \in Requests : ~DeleteProduct(r) /\ ~DeleteProducts(r)
  PROVE  Existing \subseteq Existing'
<1>1. CASE UNCHANGED product
  BY <1>1 DEF Existing
<1>2. ASSUME NEW p \in Products, CreateProduct(p) PROVE Existing \subseteq Existing'
  BY <1>2, DocumentAssumption DEF CreateProduct, Data, Types, Existing
<1>3. ASSUME NEW ps \in SUBSET Existing, NEW s \in Statuses, SetStatus(ps, s) PROVE Existing \subseteq Existing'
  BY <1>3, SetStatusFrame DEF Data
<1>4. ASSUME NEW r \in Requests, Begins(r) PROVE Existing \subseteq Existing'
  <2>1. InReview(Products) \subseteq Existing /\ "available" \in Statuses
    BY DEF InReview, Statuses
  <2> QED
    BY <1>1, <1>3, <1>4, <2>1 DEF Begins, BeginEdit, BeginRemove, BeginToggle, BeginRemoveAll, BeginApproveAll,
       BeginCreateBundle, BeginApprove, BeginPatch, BeginSetStatus
<1>5. ASSUME NEW r \in Requests, RequestStep(r) PROVE Existing \subseteq Existing'
  BY <1>1, <1>5, SavesKeepProducts DEF RequestStep, MarkBundles, Pull, DeleteSmall, DeleteBundles, InsertBundle,
     FindMembers, ReadMembers, SaveBundle, FindBundles, FindProducts, WriteBundles
<1>6. ASSUME NEW r \in Requests, RequestFails(r) PROVE UNCHANGED product
  BY <1>6 DEF RequestFails
<1>7. ASSUME NEW b \in Requests, RemoveBundle(b) PROVE UNCHANGED product
  BY <1>7 DEF RemoveBundle
<1> QED
  BY <1>1, <1>2, <1>4, <1>5, <1>6, <1>7, NextCases DEF vars

\* Deleting one product never deletes a rented one.
THEOREM RentedProductsStayAlways == Spec => RentedProductsStay
<1>1. ASSUME Data, [Next]_vars, NEW p \in Products, StatusOf(p) = "rented", product'[p] = None
      PROVE  \E r \in Requests : pc[r] = "delete_products" /\ pc'[r] = "done"
  <2>1. p \in Existing /\ p \notin Existing'
    BY <1>1, CatalogAssumption DEF StatusOf, Existing, Statuses
  <2>2. PICK r \in Requests : DeleteProduct(r) \/ DeleteProducts(r)
    BY <1>1, <2>1, ProductsStay
  <2>3. ~DeleteProduct(r)
    BY <1>1, <2>1 DEF DeleteProduct, Deletable, StatusOf, Existing, Data, Types
  <2> QED
    BY <1>1, <2>2, <2>3 DEF DeleteProducts, Goto, Data, Types
<1>2. Data /\ [Next]_vars =>
        [\A p \in Products : StatusOf(p) = "rented" /\ product'[p] = None
           => \E r \in Requests : pc[r] = "delete_products" /\ pc'[r] = "done"]_vars
  BY <1>1
<1> QED
  BY <1>2, SpecData, PTL DEF Spec, RentedProductsStay

-----------------------------------------------------------------------------
\* A step of the request r changes nothing of the others; it begins when no other is
\* under way, unless requests overlap.
LEMMA StepFrame ==
  ASSUME Data, NEW r \in Requests, Begins(r) \/ RequestStep(r) \/ RequestFails(r)
  PROVE  /\ faults' = faults
         /\ \A q \in Requests \ {r} : Same(q)
         /\ pc[r] = "idle" => Begins(r) /\ ("overlap" \in faults \/ Quiet)
         /\ Begins(r) => pc[r] = "idle"
         /\ pc[r] # "done"
<1>t. Types
  BY DEF Data
<1>k. None \in Products \cup Requests \cup {None} /\ \A b \in Requests : b \in Products \cup Requests \cup {None}
  OBVIOUS
<1>l. {"save_product", "save_status", "delete_product", "delete_bundles", "find_bundles",
       "insert_bundle", "approve", "find_members", "read_members"} \subseteq PC
  BY DEF PC
<1>1. CASE Begins(r)
  <2> DEFINE Conclusion == /\ faults' = faults /\ \A q \in Requests \ {r} : Same(q)
                           /\ pc[r] = "idle" /\ ("overlap" \in faults \/ Quiet)
  <2>1. ASSUME NEW x \in Products \cup Requests \cup {None}, NEW d, NEW w, NEW label \in PC,
               Begin(r, x, d, w, label)
        PROVE  Conclusion
    BY <1>t, <2>1, BeginFrame
  <2>2. Conclusion
    BY <1>1, <1>k, <1>l, <2>1 DEF Begins, BeginEdit, BeginRemove, BeginToggle, BeginRemoveAll, BeginApproveAll,
       BeginCreateBundle, BeginApprove, BeginPatch, BeginSetStatus
  <2> QED
    BY <1>1, <2>2
<1>2. ASSUME NEW label \in PC, Goto(r, label), pc[r] \notin Rest,
             \A q \in Requests \ {r} : target'[q] = target[q] /\ doc'[q] = doc[q] /\ want'[q] = want[q]
      PROVE  /\ faults' = faults /\ pc[r] \notin Rest
             /\ \A q \in Requests \ {r} : Same(q)
  BY <1>t, <1>2, GotoFrame DEF Same
<1>3. CASE RequestStep(r) \/ RequestFails(r)
  <2>1. \E label \in PC : Goto(r, label)
    BY <1>3 DEF PC, RequestFails, RequestStep, SaveProduct, SaveStatus, MarkBundles, DeleteProduct, Pull, DeleteSmall,
       DeleteBundles, DeleteProducts, InsertBundle, FindMembers, ReadMembers, SaveBundle, Approve, FindBundles,
       FindProducts,
       WriteBundles
  <2>2. pc[r] \notin Rest
    BY <1>3 DEF Rest, RequestFails, RequestStep, SaveProduct, SaveStatus, MarkBundles, DeleteProduct, Pull,
       DeleteSmall,
       DeleteBundles, DeleteProducts, InsertBundle, FindMembers, ReadMembers, SaveBundle, Approve, FindBundles,
       FindProducts,
       WriteBundles
  <2>3. \A q \in Requests \ {r} : target'[q] = target[q] /\ doc'[q] = doc[q] /\ want'[q] = want[q]
    <3>1. CASE UNCHANGED memory
      BY <3>1 DEF memory
    <3>2. CASE FindBundles(r) \/ FindProducts(r) \/ ReadMembers(r)
      BY <1>t, <3>2 DEF FindBundles, FindProducts, ReadMembers, Types
    <3> QED
      BY <1>3, <3>1, <3>2 DEF RequestFails, RequestStep, SaveProduct, SaveStatus, MarkBundles, DeleteProduct, Pull,
         DeleteSmall, DeleteBundles, DeleteProducts, InsertBundle, FindMembers, SaveBundle, Approve,
         WriteBundles
  <2>4. ~Begins(r)
    BY <2>2 DEF Rest, Begins, BeginEdit, BeginRemove, BeginToggle, BeginRemoveAll, BeginApproveAll,
       BeginCreateBundle, BeginApprove, BeginPatch, BeginSetStatus, Begin, Idle
  <2> QED
    BY <1>2, <2>1, <2>2, <2>3, <2>4 DEF Rest
<1> QED
  BY <1>1, <1>3 DEF Begins

\* Only four of the writes change which products a bundle has, or add a bundle.
LEMMA MembersStay ==
  ASSUME Data, [Next]_vars,
         \A r \in Requests : ~Pull(r) /\ ~InsertBundle(r) /\ ~SaveBundle(r) /\ ~DeleteSmall(r)
  PROVE  \A b \in Bundles' : b \in Bundles /\ bundle'[b].members = bundle[b].members
<1>p. \A b \in Bundles : bundle[b] \in BundleDoc
  BY DEF Data, Types, Bundles
<1>1. CASE UNCHANGED bundle
  BY <1>1 DEF Bundles
<1>2. ASSUME NEW r \in Requests, MarkBundles(r)
      PROVE  \A b \in Bundles' : b \in Bundles /\ bundle'[b].members = bundle[b].members
  <2>1. ToReview(Including(target[r]))
    BY <1>2 DEF MarkBundles
  <2>2. \A b \in Requests :
          \/ bundle'[b] = bundle[b]
          \/ b \in Bundles /\ bundle'[b] = [bundle[b] EXCEPT !.status = "in_review"]
    BY <2>1, Zenon DEF ToReview, Including
  <2>3. \A b \in Bundles : [bundle[b] EXCEPT !.status = "in_review"].members = bundle[b].members
    BY <1>p DEF BundleDoc
  <2> QED
    BY <2>2, <2>3 DEF Bundles
<1>3. ASSUME NEW r \in Requests, WriteBundles(r)
      PROVE  \A b \in Bundles' : b \in Bundles /\ bundle'[b].members = bundle[b].members
  <2>1. \A b \in Requests :
          \/ bundle'[b] = bundle[b]
          \/ b \in Bundles /\ bundle'[b] = [bundle[b] EXCEPT !.status = want[r].bundles[b]]
    BY <1>3, Zenon DEF WriteBundles
  <2>2. \A b \in Bundles : [bundle[b] EXCEPT !.status = want[r].bundles[b]].members = bundle[b].members
    BY <1>p DEF BundleDoc
  <2> QED
    BY <2>1, <2>2 DEF Bundles
<1>4. ASSUME NEW r \in Requests, DeleteBundles(r) PROVE Bundles' = {}
  BY <1>4 DEF DeleteBundles, Bundles
<1>5. ASSUME NEW b \in Requests, RemoveBundle(b) PROVE \A c \in Bundles' : c \in Bundles /\ bundle'[c] = bundle[c]
  BY <1>5 DEF RemoveBundle, Bundles, Data, Types
<1>6. ASSUME NEW p \in Products, CreateProduct(p) PROVE UNCHANGED bundle
  BY <1>6 DEF CreateProduct
<1>7. ASSUME NEW r \in Requests, Begins(r) \/ RequestFails(r) PROVE UNCHANGED bundle
  BY <1>7 DEF Begins, BeginEdit, BeginRemove, BeginToggle, BeginRemoveAll, BeginApproveAll,
     BeginCreateBundle, BeginApprove, BeginPatch, BeginSetStatus, RequestFails
<1>8. ASSUME NEW r \in Requests, RequestStep(r)
      PROVE  UNCHANGED bundle \/ MarkBundles(r) \/ WriteBundles(r) \/ DeleteBundles(r)
  BY <1>8 DEF RequestStep, SaveProduct, SaveStatus, DeleteProduct, DeleteProducts, FindMembers, ReadMembers, Approve,
     FindBundles, FindProducts
<1> QED
  BY <1>1, <1>2, <1>3, <1>4, <1>5, <1>6, <1>7, <1>8, NextCases DEF vars

\* What a save makes of a bundle.
LEMMA SavedMembers ==
  ASSUME Data, NEW r \in Requests, SaveBundle(r)
  PROVE  \A b \in Bundles' :
           /\ b \in Bundles
           /\ \/ bundle'[b].members = bundle[b].members
              \/ b = target[r] /\ PatchesMembers(r) /\ bundle'[b].members = want[r].members
<1> DEFINE t == target[r]
           value == [status |-> Saved(bundle[t].status, doc[r].status, want[r].status),
                     members |-> IF PatchesMembers(r) THEN want[r].members ELSE bundle[t].members,
                     v |-> IF PatchesMembers(r) THEN bundle[t].v + 1 ELSE bundle[t].v]
<1>2. value.members = bundle[t].members \/ (PatchesMembers(r) /\ value.members = want[r].members)
  OBVIOUS
<1>3. CASE UNCHANGED bundle
  BY <1>3 DEF Bundles
<1>4. CASE t \in Bundles /\ bundle' = [bundle EXCEPT ![t] = value]
  <2> HIDE DEF value
  <2> QED
    BY <1>2, <1>4 DEF Bundles, Data, Types
<1> QED
  BY <1>3, <1>4 DEF SaveBundle

\* A bundle that lost too many products waits for the second write of the deletion.
NoSmallBundles ==
  "failure" \notin faults => \A b \in Bundles :
    Large(bundle[b].members) \/ \E r \in Requests : pc[r] = "delete_small"

LEMMA NoSmallBundlesStay ==
  ASSUME Data, NoSmallBundles, [Next]_vars PROVE NoSmallBundles'
<1> SUFFICES ASSUME "failure" \notin faults', NEW b \in Bundles'
             PROVE  Large(bundle'[b].members) \/ \E r \in Requests : pc'[r] = "delete_small"
  BY DEF NoSmallBundles, Large
<1>f. faults' = faults
  BY NextCases, StepFrame DEF CreateProduct, RemoveBundle, vars
<1>s. b \in Bundles => Large(bundle[b].members) \/ \E r \in Requests : pc[r] = "delete_small"
  BY <1>f DEF NoSmallBundles
<1>1. ASSUME NEW r \in Requests, Pull(r) PROVE pc'[r] = "delete_small"
  BY <1>1 DEF Pull, Goto, Data, Types
<1>2. ASSUME NEW r \in Requests, DeleteSmall(r) PROVE Large(bundle'[b].members)
  <2>1. b \in Bundles /\ ~TooSmall(b) /\ bundle'[b] = bundle[b]
    BY <1>2 DEF DeleteSmall, Bundles
  <2>2. bundle[b].members \subseteq Products
    BY <2>1 DEF Data, Types, Bundles, BundleDoc
  <2>3. Cardinality(bundle[b].members) \in Nat
    BY <2>2, CatalogAssumption, FS_Subset, FS_CardinalityType
  <2> QED
    BY <2>1, <2>3 DEF Large, TooSmall
<1>3. ASSUME \A r \in Requests : ~Pull(r) /\ ~DeleteSmall(r), b \in Bundles, bundle'[b].members = bundle[b].members
      PROVE  Large(bundle'[b].members) \/ \E r \in Requests : pc'[r] = "delete_small"
  <2>1. CASE Large(bundle[b].members)
    BY <1>3, <2>1
  <2>2. ASSUME NEW q \in Requests, pc[q] = "delete_small" PROVE pc'[q] = "delete_small"
    <3>1. ~RequestStep(q) /\ ~RequestFails(q) /\ ~Begins(q)
      BY <1>f, <1>3, <2>2, StepFrame DEF RequestFails, RequestStep, SaveProduct, SaveStatus, MarkBundles,
         DeleteProduct,
         DeleteBundles, DeleteProducts, InsertBundle, FindMembers, ReadMembers, SaveBundle, Approve,
         FindBundles, FindProducts,
         WriteBundles
    <3> QED
      BY <2>2, <3>1, NextCases, StepFrame DEF CreateProduct, RemoveBundle, vars, Same
  <2> QED
    BY <1>s, <1>3, <2>1, <2>2
<1>4. ASSUME NEW r \in Requests, InsertBundle(r)
      PROVE  Large(bundle'[b].members) \/ \E q \in Requests : pc'[q] = "delete_small"
  <2>1. bundle' = [bundle EXCEPT ![r] = want[r]] /\ Large(want[r].members) /\ pc[r] = "insert_bundle"
    BY <1>4 DEF InsertBundle, Held, Data
  <2>2. CASE b = r
    BY <2>1, <2>2 DEF Data, Types
  <2>3. CASE b # r
    <3>1. b \in Bundles /\ bundle'[b] = bundle[b]
      BY <2>1, <2>3 DEF Data, Types, Bundles
    <3>2. \A q \in Requests \ {r} : Same(q)
      BY <1>4, StepFrame DEF RequestStep
    <3> QED
      BY <1>s, <2>1, <3>1, <3>2 DEF Same
  <2> QED
    BY <2>2, <2>3
<1>5. ASSUME NEW r \in Requests, SaveBundle(r)
      PROVE  Large(bundle'[b].members) \/ \E q \in Requests : pc'[q] = "delete_small"
  <2>1. pc[r] = "save_bundle" /\ (PatchesMembers(r) => Large(want[r].members))
    BY <1>5 DEF SaveBundle, Held, Data
  <2>2. b \in Bundles /\ (Large(bundle'[b].members) \/ bundle'[b].members = bundle[b].members)
    BY <1>5, <2>1, SavedMembers
  <2>3. \A q \in Requests \ {r} : Same(q)
    BY <1>5, StepFrame DEF RequestStep
  <2> QED
    BY <1>s, <2>1, <2>2, <2>3 DEF Same
<1> QED
  BY <1>1, <1>2, <1>3, <1>4, <1>5, MembersStay

-----------------------------------------------------------------------------
\* Without overlap one request is under way at a time.
Alone == "overlap" \notin faults =>
  \A r, q \in Requests : pc[r] \notin Rest /\ pc[q] \notin Rest => r = q

\* ... and what it loaded is what is stored, but for bundles removed since.
Current(r) == "overlap" \notin faults =>
  /\ pc[r] \in {"save_product", "save_status"} => product[target[r]] = doc[r]
  /\ pc[r] \in {"find_members", "read_members", "save_bundle"} => bundle[target[r]] \in {doc[r], None}
  /\ pc[r] = "find_products" => \A b \in Bundles : b \in DOMAIN doc[r].bundles =>
       bundle[b] = doc[r].bundles[b] /\ bundle[b].status \in Open
  /\ pc[r] = "write_bundles" => \A b \in Bundles : b \in DOMAIN want[r].bundles => bundle[b].status \in Open

\* What left the review was taken out of it, live or not.
LeftReviewed == "overlap" \notin faults =>
  \A p \in Existing : product[p].status # "in_review" => product[p].reviewed

Serial == Alone /\ (\A r \in Requests : Current(r)) /\ LeftReviewed

\* Without overlap the others rest during a step of the request r.
LEMMA SerialFrame ==
  ASSUME Data, Alone, "overlap" \notin faults, NEW r \in Requests,
         Begins(r) \/ RequestStep(r) \/ RequestFails(r)
  PROVE  /\ faults' = faults
         /\ \A q \in Requests \ {r} : pc[q] \in Rest /\ pc'[q] = pc[q]
<1>1. \A q \in Requests \ {r} : pc[q] \in Rest
  BY StepFrame DEF Alone, Quiet, Rest
<1> QED
  BY <1>1, StepFrame DEF Same

\* A request that begins has just loaded what it holds.
LEMMA BeginsCurrent ==
  ASSUME Data, NEW r \in Requests, Begins(r) PROVE Current(r)'
<1> USE CatalogAssumption
<1>t. Types
  BY DEF Data
<1>k. None \in Products \cup Requests \cup {None} /\ \A b \in Requests : b \in Products \cup Requests \cup {None}
  OBVIOUS
<1>l. {"save_product", "save_status", "delete_product", "delete_bundles", "find_bundles",
       "insert_bundle", "approve", "find_members", "read_members"} \subseteq PC
  BY DEF PC
<1>1. ASSUME NEW x \in Products \cup Requests \cup {None}, NEW d, NEW w,
             NEW label \in {"delete_product", "delete_bundles", "find_bundles", "insert_bundle", "approve"},
             Begin(r, x, d, w, label)
      PROVE  Current(r)'
  BY <1>t, <1>l, <1>1, BeginFrame DEF Current
<1>2. ASSUME NEW p \in Products, BeginEdit(r, p) PROVE Current(r)'
  BY <1>t, <1>l, <1>2, BeginFrame DEF BeginEdit, Current
<1>3. ASSUME NEW p \in Products, NEW s \in ProviderStatuses, BeginToggle(r, p, s) PROVE Current(r)'
  BY <1>t, <1>l, <1>3, BeginFrame DEF BeginToggle, Current
<1>4. ASSUME NEW b \in Requests, NEW s \in ProviderStatuses \cup {None}, NEW ps \in SUBSET Products,
             BeginPatch(r, b, s, ps)
      PROVE  Current(r)'
  <2>1. \E w, label : label \in {"find_members", "read_members"} /\ Begin(r, b, bundle[b], w, label)
    <3>1. \E w : Begin(r, b, bundle[b], w, IF ps = {} THEN "read_members" ELSE "find_members")
      BY <1>4, Zenon DEF BeginPatch
    <3>2. (IF ps = {} THEN "read_members" ELSE "find_members") \in {"find_members", "read_members"}
      OBVIOUS
    <3> QED
      BY <3>1, <3>2, Zenon
  <2>2. bundle' = bundle
    BY <1>4 DEF BeginPatch
  <2> QED
    BY <1>t, <1>k, <1>l, <2>1, <2>2, BeginFrame DEF Current
<1> QED
  BY <1>k, <1>1, <1>2, <1>3, <1>4 DEF Begins, BeginRemove, BeginRemoveAll, BeginApproveAll,
     BeginCreateBundle, BeginApprove, BeginSetStatus

\* ... and still is at its next awaits.
LEMMA StepsCurrent ==
  ASSUME Data, NEW r \in Requests, Current(r), RequestStep(r) \/ RequestFails(r), faults' = faults
  PROVE  Current(r)'
<1>t. Types
  BY DEF Data
<1>l. {"mark_bundles", "pull", "delete_small", "delete_products", "read_members", "save_bundle", "find_bundles",
       "find_products", "write_bundles", "done"} \subseteq PC
  BY DEF PC
<1>1. ASSUME NEW label \in {"mark_bundles", "pull", "delete_small", "delete_products", "find_bundles", "done"},
             Goto(r, label)
      PROVE  Current(r)'
  BY <1>t, <1>l, <1>1, GotoFrame DEF Current
<1>2. CASE ReadMembers(r)
  <2>1. pc'[r] = "save_bundle" /\ pc[r] = "read_members" /\ UNCHANGED <<product, bundle, target, doc>>
    BY <1>t, <1>l, <1>2, GotoFrame DEF ReadMembers
  <2> QED
    BY <2>1 DEF Current
<1>3. CASE FindBundles(r)
  <2> DEFINE d == [bundles |-> [b \in {c \in Bundles : Syncable(c)} |-> bundle[b]]]
  <2>1. CASE Goto(r, "find_products")
    <3>1. pc'[r] = "find_products" /\ UNCHANGED <<product, bundle>> /\ doc'[r] = d
      BY <1>t, <1>l, <1>3, <2>1, GotoFrame DEF FindBundles, Types
    <3>2. \A b \in Bundles : b \in DOMAIN d.bundles => bundle[b] = d.bundles[b] /\ bundle[b].status \in Open
      BY DEF Syncable
    <3> HIDE DEF d
    <3> QED
      BY <3>1, <3>2 DEF Current, Bundles
  <2> QED
    BY <1>1, <1>3, <2>1 DEF FindBundles
<1>4. CASE FindProducts(r)
  <2> DEFINE found == doc[r].bundles
             next(b) == BundleStatusForMembers({StatusOf(p) : p \in found[b].members})
             changed == {b \in DOMAIN found : next(b) # found[b].status}
             w == [bundles |-> [b \in changed |-> next(b)]]
  <2>1. CASE Goto(r, "write_bundles")
    <3>1. /\ pc'[r] = "write_bundles" /\ pc[r] = "find_products"
          /\ UNCHANGED <<product, bundle>> /\ want'[r] = w
      BY <1>t, <1>l, <1>4, <2>1, GotoFrame DEF FindProducts, Types
    <3>2. DOMAIN w.bundles \subseteq DOMAIN doc[r].bundles
      OBVIOUS
    <3> HIDE DEF w
    <3> QED
      BY <1>4, <3>1, <3>2 DEF Current, Bundles
  <2> QED
    BY <1>1, <1>4, <2>1 DEF FindProducts
<1>5. CASE FindMembers(r)
  <2>1. CASE Goto(r, "read_members")
    <3>1. pc'[r] = "read_members" /\ pc[r] = "find_members" /\ UNCHANGED <<product, bundle, target, doc>>
      BY <1>t, <1>l, <1>5, <2>1, GotoFrame DEF FindMembers, memory
    <3> QED
      BY <3>1 DEF Current
  <2> QED
    BY <1>1, <1>5, <2>1 DEF FindMembers
<1> QED
  BY <1>1, <1>2, <1>3, <1>4, <1>5 DEF RequestFails, RequestStep, SaveProduct, SaveStatus, MarkBundles,
     DeleteProduct, Pull,
     DeleteSmall, DeleteBundles, DeleteProducts, InsertBundle, SaveBundle, Approve, WriteBundles

\* A product leaves review by an admin; an edit puts it back and asks for a new review.
LEMMA LeftReviewedStays ==
  ASSUME Data, Serial, [Next]_vars, faults' = faults PROVE LeftReviewed'
<1> SUFFICES ASSUME "overlap" \notin faults, NEW p \in Existing', product'[p].status # "in_review"
             PROVE  product'[p].reviewed
  BY DEF LeftReviewed
<1> USE DocumentAssumption
<1>t. /\ Types /\ p \in Products /\ \A r \in Requests : Held(r) /\ Current(r)
      /\ \A q \in Existing : product[q] \in ProductDoc
      /\ \A q \in Existing : product[q].status # "in_review" => product[q].reviewed
  BY DEF Data, Types, Serial, LeftReviewed, Existing
<1>1. CASE product'[p] = product[p]
  BY <1>t, <1>1 DEF Existing
<1>2. ASSUME NEW q \in Products, CreateProduct(q) PROVE product'[p].reviewed
  BY <1>t, <1>1, <1>2 DEF CreateProduct, Types
<1>3. ASSUME NEW ps \in SUBSET Existing, NEW s \in Statuses, SetStatus(ps, s) PROVE product'[p].reviewed
  <2>1. CASE p \in ps
    BY <1>t, <1>3, <2>1, SetStatusFrame
  <2>2. CASE p \notin ps
    BY <1>t, <1>1, <1>3, <2>2, SetStatusFrame
  <2> QED
    BY <2>1, <2>2
<1>4. ASSUME NEW r \in Requests, Begins(r) PROVE product'[p].reviewed
  <2>1. InReview(Products) \subseteq Existing /\ "available" \in Statuses
    BY DEF InReview, Statuses
  <2> QED
    BY <1>1, <1>3, <1>4, <2>1 DEF Begins, BeginEdit, BeginRemove, BeginToggle, BeginRemoveAll, BeginApproveAll,
       BeginCreateBundle, BeginApprove, BeginPatch, BeginSetStatus
<1>5. ASSUME NEW r \in Requests, SaveProduct(r) PROVE product'[p].reviewed
  <2>1. /\ pc[r] = "save_product" /\ doc[r] = product[target[r]] /\ want[r].status = "in_review"
        /\ doc[r] \in ProductDoc /\ target[r] \in Products
    BY <1>t, <1>5 DEF SaveProduct, Held, Current
  <2>2. Edited(r, product[target[r]]).status = "in_review"
    BY <2>1 DEF Edited, Saved
  <2>3. UNCHANGED product \/ product' = [product EXCEPT ![target[r]] = Edited(r, product[target[r]])]
    BY <1>5, Zenon DEF SaveProduct
  <2> QED
    BY <1>t, <1>1, <2>1, <2>2, <2>3 DEF Types
<1>6. ASSUME NEW r \in Requests, SaveStatus(r) PROVE product'[p].reviewed
  <2> DEFINE t == target[r]
             value == [product[t] EXCEPT !.status = Saved(product[t].status, doc[r].status, want[r].status)]
  <2>1. /\ pc[r] = "save_status" /\ doc[r] = product[t] /\ doc[r].status \in ProviderStatuses
        /\ doc[r] \in ProductDoc /\ t \in Products
    BY <1>t, <1>6 DEF SaveStatus, Held, Current
  <2>2. t \in Existing /\ product[t].status # "in_review"
    BY <2>1 DEF Existing, ProviderStatuses
  <2>3. value.reviewed = product[t].reviewed
    BY <2>1 DEF ProductDoc
  <2>4. product'[p] = product[p] \/ (p = t /\ product'[p] = value)
    <3>1. UNCHANGED product \/ product' = [product EXCEPT ![t] = value]
      BY <1>6, Zenon DEF SaveStatus
    <3> HIDE DEF value
    <3> QED
      BY <1>t, <3>1 DEF Types
  <2> HIDE DEF value
  <2> QED
    BY <1>t, <1>1, <2>2, <2>3, <2>4
<1>7. ASSUME NEW r \in Requests, Approve(r) PROVE product'[p].reviewed
  <2>1. InReview(doc[r].products) \subseteq Existing /\ "available" \in Statuses
    BY DEF InReview, Statuses
  <2> QED
    BY <1>3, <1>7, <2>1 DEF Approve
<1>8. ASSUME NEW r \in Requests, DeleteProduct(r) \/ DeleteProducts(r) PROVE product'[p].reviewed
  <2>1. product'[p] = product[p]
    BY <1>t, <1>8 DEF DeleteProduct, DeleteProducts, Existing, Types
  <2> QED
    BY <1>1, <2>1
<1>9. ASSUME NEW r \in Requests, RequestStep(r) PROVE product'[p].reviewed
  BY <1>1, <1>5, <1>6, <1>7, <1>8, <1>9 DEF RequestStep, MarkBundles, Pull, DeleteSmall, DeleteBundles, InsertBundle,
     FindMembers, ReadMembers, SaveBundle, FindBundles, FindProducts, WriteBundles
<1>10. ASSUME NEW r \in Requests, RequestFails(r) PROVE UNCHANGED product
  BY <1>10 DEF RequestFails
<1>11. ASSUME NEW b \in Requests, RemoveBundle(b) PROVE UNCHANGED product
  BY <1>11 DEF RemoveBundle
<1> QED
  BY <1>1, <1>2, <1>4, <1>9, <1>10, <1>11, NextCases DEF vars

\* One request at a time, which holds what is stored: kept by every step.
LEMMA SerialStays ==
  ASSUME Data, Serial, [Next]_vars PROVE Serial'
<1>f. faults' = faults
  BY NextCases, StepFrame DEF CreateProduct, RemoveBundle, vars
<1>1. LeftReviewed'
  BY <1>f, LeftReviewedStays
<1>2. ASSUME NEW r \in Requests, Begins(r) \/ RequestStep(r) \/ RequestFails(r) PROVE Serial'
  <2>1. Current(r)'
    BY <1>f, <1>2, BeginsCurrent, StepsCurrent DEF Serial
  <2>2. CASE "overlap" \in faults
    BY <1>f, <1>1, <2>2 DEF Serial, Alone, Current
  <2>3. CASE "overlap" \notin faults
    <3>1. \A q \in Requests \ {r} : pc'[q] \in Rest
      BY <1>2, <2>3, SerialFrame DEF Serial
    <3>2. \A q \in Requests \ {r} : Current(q)'
      BY <3>1 DEF Current, Rest
    <3> QED
      BY <1>1, <2>1, <3>1, <3>2 DEF Serial, Alone
  <2> QED
    BY <2>2, <2>3
<1>3. ASSUME UNCHANGED <<pc, target, doc, want>>,
             \A p \in Products : product'[p] = product[p] \/ p \notin Existing,
             \A b \in Requests : bundle'[b] \in {bundle[b], None}
      PROVE  Serial'
  <2>1. ASSUME NEW r \in Requests PROVE Current(r)'
    <3> SUFFICES ASSUME "overlap" \notin faults PROVE Current(r)'
      BY <1>f DEF Current
    <3>1. Current(r) /\ Held(r)
      BY DEF Serial, Data
    <3>2. pc[r] \in {"save_product", "save_status"} => target[r] \in Existing
      BY <3>1, DocumentAssumption DEF Current, Held, Existing
    <3>3. pc[r] \in {"find_members", "read_members", "save_bundle"} => target[r] \in Requests
      BY <3>1 DEF Held
    <3> QED
      BY <1>3, <3>1, <3>2, <3>3 DEF Current, Bundles, Existing
  <2> QED
    BY <1>f, <1>1, <1>3, <2>1 DEF Serial, Alone
<1>4. ASSUME NEW p \in Products, CreateProduct(p) PROVE Serial'
  BY <1>3, <1>4 DEF CreateProduct, memory, Data, Types
<1>5. ASSUME NEW b \in Requests, RemoveBundle(b) PROVE Serial'
  BY <1>3, <1>5 DEF RemoveBundle, memory, Data, Types
<1>6. CASE UNCHANGED vars
  BY <1>3, <1>6 DEF vars
<1> QED
  BY <1>2, <1>4, <1>5, <1>6, NextCases

\* Without overlap one request is under way, and holds what is stored.
THEOREM SpecSerial == Spec => []Serial
<1>1. Init => Serial
  BY DEF Init, Serial, Alone, Current, LeftReviewed, Existing, Rest
<1> QED
  BY <1>1, SerialStays, SpecData, PTL DEF Spec

\* Without overlap, what clients see of a product was taken out of review after its
\* last edit, wherever requests fail.
THEOREM OnlyReviewedContentIsLiveAlways == Spec => []OnlyReviewedContentIsLive
<1>1. Serial => OnlyReviewedContentIsLive
  BY DEF Serial, LeftReviewed, OnlyReviewedContentIsLive
<1> QED
  BY <1>1, SpecSerial, PTL

\* Without overlap, an admin's sync leaves inactive and rented bundles alone.
THEOREM LoneAdminSparesClosedBundlesAlways == Spec => LoneAdminSparesClosedBundles
<1>1. ASSUME Data, Serial, [Next]_vars, NEW b \in Bundles, NEW r \in Requests, "overlap" \notin faults,
             bundle[b].status \notin Open, pc[r] = "write_bundles", pc'[r] # pc[r]
      PROVE  bundle'[b] = bundle[b]
  <2>1. \A q \in Requests : Begins(q) \/ RequestStep(q) \/ RequestFails(q) => q = r
    BY <1>1, StepFrame DEF Same
  <2>2. ~Begins(r)
    BY <1>1, StepFrame
  <2>3. RequestFails(r) \/ RequestStep(r)
    BY <1>1, <2>1, <2>2, NextCases DEF CreateProduct, RemoveBundle, vars
  <2>4. WriteBundles(r) \/ RequestFails(r)
    BY <1>1, <2>3 DEF RequestStep, SaveProduct, SaveStatus, MarkBundles, DeleteProduct, Pull, DeleteSmall,
       DeleteBundles, DeleteProducts, InsertBundle, FindMembers, ReadMembers, SaveBundle, Approve, FindBundles,
       FindProducts
  <2>5. b \notin DOMAIN want[r].bundles
    BY <1>1 DEF Serial, Current
  <2> QED
    BY <2>4, <2>5 DEF WriteBundles, RequestFails, Bundles
<1>2. Data /\ Serial /\ [Next]_vars =>
        [\A b \in Bundles, r \in Requests :
           "overlap" \notin faults /\ bundle[b].status \notin Open /\ pc[r] = "write_bundles" /\ pc'[r] # pc[r]
             => bundle'[b] = bundle[b]]_vars
  BY <1>1
<1> QED
  BY <1>2, SpecData, SpecSerial, PTL DEF Spec, LoneAdminSparesClosedBundles

-----------------------------------------------------------------------------
\* Neither overlap nor failure.
Calm == "overlap" \notin faults /\ "failure" \notin faults

NoneInReview(ps) == \A p \in ps : StatusOf(p) # "in_review"
Sound(b) == bundle[b].status = "available" => NoneInReview(bundle[b].members)

\* The request r will still see to the bundle b.
Attended(r, b) ==
  \/ pc[r] = "mark_bundles" /\ target[r] \in bundle[b].members
  \/ pc[r] = "find_bundles"
  \/ pc[r] = "find_products" /\ b \in DOMAIN doc[r].bundles
  \/ pc[r] = "write_bundles" /\ b \in DOMAIN want[r].bundles

\* What a request is about to write is sound and whole.
Ready(r) == Calm =>
  /\ pc[r] = "delete_products" => Bundles = {}
  /\ pc[r] = "insert_bundle" =>
       want[r].members \subseteq Existing /\ (want[r].status = "available" => NoneInReview(want[r].members))
  /\ pc[r] \in {"read_members", "save_bundle"} /\ PatchesMembers(r) => want[r].members \subseteq Existing
  /\ pc[r] = "save_bundle" /\ want[r].status = "available" => NoneInReview(want[r].members)
  /\ pc[r] = "write_bundles" => \A b \in Bundles : b \in DOMAIN want[r].bundles =>
       (want[r].bundles[b] = "available" => NoneInReview(bundle[b].members))

\* A bundle that is not sound is attended to, and so is a product that it has lost.
SoundOrAttended == Calm => \A b \in Bundles : Sound(b) \/ \E r \in Requests : Attended(r, b)
WholeOrAttended == Calm => \A b \in Bundles : \A p \in bundle[b].members :
  p \in Existing \/ \E r \in Requests : pc[r] = "pull" /\ target[r] = p

Tidy == (\A r \in Requests : Ready(r)) /\ SoundOrAttended /\ WholeOrAttended

\* What a step of the request r has to show when the others rest.
LEMMA TidyFrame ==
  ASSUME Data, Serial, Calm, NEW r \in Requests, Begins(r) \/ RequestStep(r) \/ RequestFails(r), Ready(r)',
         \A b \in Bundles' : Sound(b)' \/ Attended(r, b)',
         \A b \in Bundles' : \A p \in bundle'[b].members :
           p \in Existing' \/ (pc'[r] = "pull" /\ target'[r] = p)
  PROVE  Tidy'
<1>1. \A q \in Requests \ {r} : pc'[q] \in Rest
  BY SerialFrame DEF Serial, Calm
<1>2. \A q \in Requests \ {r} : Ready(q)'
  BY <1>1 DEF Ready, Rest
<1>3. \A b \in Bundles' : Sound(b)' \/ \E q \in Requests : Attended(q, b)'
  OBVIOUS
<1> QED
  BY <1>2, <1>3 DEF Tidy, SoundOrAttended, WholeOrAttended

\* ... and, when it began, every bundle was sound and whole.
LEMMA TidyBefore ==
  ASSUME Data, Serial, Tidy, Calm, NEW r \in Requests, Begins(r) \/ RequestStep(r) \/ RequestFails(r)
  PROVE  /\ \A b \in Bundles : Sound(b) \/ Attended(r, b)
         /\ \A b \in Bundles : \A p \in bundle[b].members : p \in Existing \/ (pc[r] = "pull" /\ target[r] = p)
         /\ Ready(r) /\ Current(r) /\ Held(r)
<1>1. \A q \in Requests \ {r} : pc[q] \in Rest
  BY SerialFrame DEF Serial, Calm
<1>2. \A q \in Requests \ {r}, b \in Bundles : ~Attended(q, b)
  BY <1>1 DEF Attended, Rest
<1> QED
  BY <1>1, <1>2 DEF Tidy, SoundOrAttended, WholeOrAttended, Serial, Data, Rest

\* Where nothing is written, bundles are as sound as before.
LEMMA UnwrittenFrame ==
  ASSUME UNCHANGED <<product, bundle>>
  PROVE  /\ Bundles' = Bundles /\ Existing' = Existing
         /\ \A b : Sound(b)' <=> Sound(b)
         /\ \A ps : NoneInReview(ps)' <=> NoneInReview(ps)
BY DEF Bundles, Existing, Sound, NoneInReview, StatusOf

\* Where no product goes into review, bundles that were sound are.
LEMMA SoundFrame ==
  ASSUME Data, UNCHANGED bundle, NEW b \in Bundles, Sound(b),
         \A p \in bundle[b].members : StatusOf(p)' # "in_review" \/ StatusOf(p)' = StatusOf(p)
  PROVE  Sound(b)'
BY DEF Sound, NoneInReview

\* A request begins with everything sound and whole; what it will write is so, or it
\* will attend to the bundles.
LEMMA BeginsTidy ==
  ASSUME Data, Serial, Tidy, Calm, NEW r \in Requests, Begins(r) PROVE Tidy'
<1> USE CatalogAssumption
<1>t. Types
  BY DEF Data
<1>k. None \in Products \cup Requests \cup {None} /\ \A b \in Requests : b \in Products \cup Requests \cup {None}
  OBVIOUS
<1>l. {"save_product", "save_status", "delete_product", "delete_bundles", "find_bundles",
       "insert_bundle", "approve", "find_members", "read_members"} \subseteq PC
  BY DEF PC
<1>b. pc[r] = "idle" /\ (\A b \in Bundles : Sound(b) /\ bundle[b].members \subseteq Existing)
  BY StepFrame, TidyBefore DEF Attended
<1>1. ASSUME NEW x \in Products \cup Requests \cup {None}, NEW d, NEW w,
             NEW label \in {"save_product", "save_status", "delete_product", "delete_bundles", "approve",
                           "find_members", "read_members"},
             label = "read_members" => ~w.lists,
             Begin(r, x, d, w, label), UNCHANGED <<product, bundle>>
      PROVE  Tidy'
  <2>1. Ready(r)'
    BY <1>t, <1>l, <1>1, BeginFrame DEF Ready, PatchesMembers
  <2> QED
    BY <1>b, <1>1, <2>1, UnwrittenFrame, TidyFrame
<1>2. ASSUME NEW ps \in SUBSET Existing, NEW s \in Statuses, SetStatus(ps, s),
             Begin(r, None, None, None, "find_bundles"), UNCHANGED bundle
      PROVE  Tidy'
  <2>1. pc'[r] = "find_bundles" /\ Existing' = Existing /\ Bundles' = Bundles
    <3>1. pc'[r] = "find_bundles"
      BY <1>t, <1>k, <1>l, <1>2, BeginFrame
    <3>2. Existing' = Existing
      BY <1>t, <1>2, SetStatusFrame
    <3> QED
      BY <1>2, <3>1, <3>2 DEF Bundles
  <2>2. Ready(r)' /\ \A b : Attended(r, b)'
    BY <2>1 DEF Ready, Attended
  <2> QED
    BY <1>b, <1>2, <2>1, <2>2, TidyFrame
<1>3. ASSUME NEW ps \in SUBSET Products, BeginCreateBundle(r, ps) PROVE Tidy'
  <2> DEFINE w == [status |-> ReviewStatus(ps), members |-> ps, v |-> 0]
  <2>1. ps \subseteq Existing /\ UNCHANGED <<product, bundle>> /\ Begin(r, r, None, w, "insert_bundle")
    BY <1>3 DEF BeginCreateBundle
  <2>2. w.members = ps /\ (w.status = "available" => NoneInReview(w.members))
    BY DEF ReviewStatus, NoneInReview
  <2> HIDE DEF w
  <2>3. pc'[r] = "insert_bundle" /\ want'[r] = w
    BY <1>t, <1>k, <1>l, <2>1, BeginFrame
  <2>4. Ready(r)'
    BY <2>1, <2>2, <2>3, UnwrittenFrame DEF Ready
  <2> QED
    BY <1>b, <1>3, <2>1, <2>4, UnwrittenFrame, TidyFrame
<1>4. CASE BeginApproveAll(r) \/ \E s \in Statuses : BeginSetStatus(r, s)
  <2>1. InReview(Products) \subseteq Existing /\ "available" \in Statuses
    BY DEF InReview, Statuses
  <2> QED
    BY <1>2, <1>4, <2>1 DEF BeginApproveAll, BeginSetStatus
<1>5. ASSUME NEW b \in Requests, NEW s \in ProviderStatuses \cup {None}, NEW ps \in SUBSET Products,
             BeginPatch(r, b, s, ps)
      PROVE  Tidy'
  <2> DEFINE w == [status |-> IF s = None THEN bundle[b].status ELSE s,
                   members |-> IF ps = {} THEN bundle[b].members ELSE ps,
                   lists |-> ps # {}]
             label == IF ps = {} THEN "read_members" ELSE "find_members"
  <2>1. Begin(r, b, bundle[b], w, label) /\ UNCHANGED <<product, bundle>>
    BY <1>5 DEF BeginPatch
  <2>2. label \in {"find_members", "read_members"} /\ (label = "read_members" => ~w.lists)
    OBVIOUS
  <2> HIDE DEF w, label
  <2> QED
    BY <1>k, <1>1, <2>1, <2>2
<1> QED
  BY <1>k, <1>1, <1>3, <1>4, <1>5 DEF Begins, BeginEdit, BeginRemove, BeginToggle, BeginRemoveAll, BeginApprove

\* A write of one product, or the end of a request that writes nothing.
LEMMA ProductStepsTidy ==
  ASSUME Data, Serial, Tidy, Calm, NEW r \in Requests,
         SaveProduct(r) \/ SaveStatus(r) \/ DeleteProduct(r) \/ DeleteProducts(r) \/ Approve(r)
  PROVE  Tidy'
<1> USE CatalogAssumption, DocumentAssumption
<1>t. Types /\ Held(r) /\ Current(r)
  BY DEF Data, Serial
<1>l. {"mark_bundles", "pull", "find_bundles", "done"} \subseteq PC
  BY DEF PC
<1>s. RequestStep(r) /\ UNCHANGED bundle /\ Bundles' = Bundles
  BY DEF RequestStep, SaveProduct, SaveStatus, DeleteProduct, DeleteProducts, Approve, Bundles
<1>r. Ready(r)'
  BY <1>t, <1>l, GotoFrame DEF Ready, SaveProduct, SaveStatus, DeleteProduct, DeleteProducts, Approve
<1>b. /\ \A b \in Bundles : pc[r] # "delete_products" /\ Sound(b) /\ bundle[b].members \subseteq Existing
      /\ \A b \in Bundles : bundle[b].members \subseteq Products
  <2>1. pc[r] \in {"save_product", "save_status", "delete_product", "delete_products", "approve"}
    BY DEF SaveProduct, SaveStatus, DeleteProduct, DeleteProducts, Approve
  <2>2. pc[r] = "delete_products" => Bundles = {}
    BY <1>s, TidyBefore DEF Ready
  <2>3. \A b \in Bundles : Sound(b) /\ bundle[b].members \subseteq Existing
    BY <1>s, <2>1, TidyBefore DEF Attended
  <2> QED
    BY <2>2, <2>3 DEF Existing
<1>1. ASSUME Existing' = Existing, \A b \in Bundles : Sound(b)' \/ Attended(r, b)' PROVE Tidy'
  BY <1>1, <1>s, <1>r, <1>b, TidyFrame
<1>2. CASE SaveProduct(r)
  <2>1. Existing' = Existing
    BY <1>2, SavesKeepProducts
  <2>2. CASE UNCHANGED product
    BY <1>1, <1>b, <1>s, <2>1, <2>2, UnwrittenFrame
  <2>3. CASE product' = [product EXCEPT ![target[r]] = Edited(r, @)] /\ Goto(r, "mark_bundles")
    <3>1. pc'[r] = "mark_bundles" /\ target' = target
      BY <1>2, <1>t, <1>l, <2>3, GotoFrame DEF SaveProduct, memory
    <3>2. \A p \in Products : p # target[r] => StatusOf(p)' = StatusOf(p)
      BY <1>t, <2>3 DEF StatusOf, Types
    <3>3. ASSUME NEW b \in Bundles PROVE Sound(b)' \/ Attended(r, b)'
      BY <1>s, <1>b, <3>1, <3>2, SoundFrame DEF Attended
    <3> QED
      BY <1>1, <2>1, <3>3
  <2> QED
    BY <1>2, <2>2, <2>3 DEF SaveProduct
<1>3. CASE SaveStatus(r)
  <2> DEFINE t == target[r]
             value == [product[t] EXCEPT !.status = Saved(product[t].status, doc[r].status, want[r].status)]
  <2>1. /\ pc[r] = "save_status" /\ doc[r] = product[t] /\ doc[r] \in ProductDoc /\ t \in Products
        /\ doc[r].status \in ProviderStatuses /\ want[r].status \in ProviderStatuses
    BY <1>t, <1>3 DEF SaveStatus, Held, Current, Calm
  <2>2. value.status \in ProviderStatuses /\ value \in ProductDoc
    BY <2>1 DEF Saved, ProductDoc, Statuses, ProviderStatuses
  <2>3. UNCHANGED product \/ product' = [product EXCEPT ![t] = value]
    BY <1>3, Zenon DEF SaveStatus
  <2> HIDE DEF value
  <2>4. \A p \in Products : StatusOf(p)' # "in_review" \/ StatusOf(p)' = StatusOf(p)
    BY <1>t, <2>1, <2>2, <2>3 DEF StatusOf, Types, ProviderStatuses
  <2>5. Existing' = Existing
    BY <1>3, SavesKeepProducts
  <2> QED
    BY <1>1, <1>s, <1>b, <2>4, <2>5, SoundFrame
<1>4. CASE DeleteProduct(r)
  <2> DEFINE p == target[r]
  <2>1. p \in Products
    BY <1>t, <1>4 DEF DeleteProduct, Held
  <2>2. CASE UNCHANGED product
    BY <1>1, <1>b, <1>s, <2>2, UnwrittenFrame
  <2>3. CASE product' = [product EXCEPT ![p] = None] /\ Goto(r, "pull")
    <3>1. pc'[r] = "pull" /\ target'[r] = p
      BY <1>4, <1>t, <1>l, <2>3, GotoFrame DEF DeleteProduct, memory
    <3>2. \A q \in Products : StatusOf(q)' # "in_review" \/ StatusOf(q)' = StatusOf(q)
      BY <1>t, <2>1, <2>3 DEF StatusOf, Types, Statuses
    <3>3. \A q \in Existing : q \in Existing' \/ q = p
      BY <1>t, <2>3 DEF Existing, Types
    <3>4. \A b \in Bundles : Sound(b)'
      BY <1>s, <1>b, <3>2, SoundFrame
    <3>5. \A b \in Bundles' : Sound(b)' \/ Attended(r, b)'
      BY <1>s, <3>4
    <3>6. \A b \in Bundles' : \A q \in bundle'[b].members : q \in Existing' \/ (pc'[r] = "pull" /\ target'[r] = q)
      BY <1>s, <1>b, <3>1, <3>3
    <3> QED
      BY <1>s, <1>r, <3>5, <3>6, TidyFrame
  <2> QED
    BY <1>4, <2>2, <2>3 DEF DeleteProduct
<1>5. CASE DeleteProducts(r)
  <2>1. Bundles = {}
    BY <1>5, <1>b DEF DeleteProducts
  <2> QED
    BY <1>s, <1>r, <2>1, TidyFrame
<1>6. CASE Approve(r)
  <2>1. Existing' = Existing
    BY <1>6, SavesKeepProducts
  <2>2. pc'[r] = "find_bundles"
    BY <1>6, <1>t, <1>l, GotoFrame DEF Approve
  <2> QED
    BY <1>1, <2>1, <2>2 DEF Attended
<1> QED
  BY <1>2, <1>3, <1>4, <1>5, <1>6

\* A write of bundles, or a read before it.
LEMMA BundleStepsTidy ==
  ASSUME Data, Serial, Tidy, Calm, NEW r \in Requests,
         \/ MarkBundles(r) \/ Pull(r) \/ DeleteSmall(r) \/ DeleteBundles(r) \/ InsertBundle(r)
         \/ FindMembers(r) \/ ReadMembers(r) \/ SaveBundle(r)
         \/ FindBundles(r) \/ FindProducts(r) \/ WriteBundles(r)
  PROVE  Tidy'
<1> USE CatalogAssumption, DocumentAssumption
<1>t. Types /\ Held(r) /\ Current(r) /\ Ready(r)
  BY DEF Data, Serial, Tidy
<1>l. {"delete_small", "delete_products", "read_members", "save_bundle", "find_products", "write_bundles",
       "done"} \subseteq PC
  BY DEF PC
<1>s. /\ RequestStep(r) /\ UNCHANGED product /\ Existing' = Existing
      /\ \A ps : NoneInReview(ps)' <=> NoneInReview(ps)
  BY DEF RequestStep, MarkBundles, Pull, DeleteSmall, DeleteBundles, InsertBundle, FindMembers, ReadMembers,
     SaveBundle,
     FindBundles, FindProducts, WriteBundles, Existing, NoneInReview, StatusOf
<1>b. /\ \A b \in Bundles : Sound(b) \/ Attended(r, b)
      /\ pc[r] # "pull" => \A b \in Bundles : bundle[b].members \subseteq Existing
  BY <1>s, TidyBefore
<1>d. \A b \in Bundles : bundle[b] \in BundleDoc
  BY <1>t DEF Types, Bundles
<1>1. ASSUME Ready(r)', \A b \in Bundles' : Sound(b)' \/ Attended(r, b)',
             \A b \in Bundles' : bundle'[b].members \subseteq Existing
      PROVE  Tidy'
  BY <1>1, <1>s, TidyFrame
<1>2. CASE MarkBundles(r)
  <2>1. pc[r] = "mark_bundles" /\ pc'[r] = "done" /\ ToReview(Including(target[r]))
    BY <1>2, <1>t, <1>l, GotoFrame DEF MarkBundles
  <2>2. Ready(r)'
    BY <2>1 DEF Ready
  <2>3. ASSUME NEW b \in Bundles' PROVE b \in Bundles /\ Sound(b)' /\ bundle'[b].members \subseteq Existing
    <3>1. \/ bundle'[b] = bundle[b] /\ (target[r] \in bundle[b].members => bundle[b].status # "available")
          \/ b \in Bundles /\ bundle'[b] = [bundle[b] EXCEPT !.status = "in_review"]
      BY <2>1, <2>3, Zenon DEF ToReview, Including, Bundles
    <3>2. b \in Bundles
      BY <3>1, <2>3 DEF Bundles
    <3>3. CASE bundle'[b] = bundle[b] /\ (target[r] \in bundle[b].members => bundle[b].status # "available")
      BY <1>b, <1>s, <2>1, <3>2, <3>3 DEF Sound, Attended
    <3>4. CASE bundle'[b] = [bundle[b] EXCEPT !.status = "in_review"]
      <4>1. bundle'[b].status = "in_review" /\ bundle'[b].members = bundle[b].members
        BY <1>d, <3>2, <3>4 DEF BundleDoc
      <4> QED
        BY <1>b, <2>1, <3>2, <4>1 DEF Sound
    <3> QED
      BY <3>1, <3>2, <3>3, <3>4
  <2> QED
    BY <1>1, <2>2, <2>3
<1>3. CASE Pull(r)
  <2>1. pc[r] = "pull" /\ pc'[r] = "delete_small"
    BY <1>3, <1>t, <1>l, GotoFrame DEF Pull
  <2>2. Ready(r)'
    BY <2>1 DEF Ready
  <2>3. ASSUME NEW b \in Bundles' PROVE Sound(b)' /\ bundle'[b].members \subseteq Existing
    <3>1. b \in Bundles /\ bundle'[b] = [bundle[b] EXCEPT !.members = bundle[b].members \ {target[r]}]
      BY <1>3, <2>3 DEF Pull, Bundles
    <3>2. bundle'[b].status = bundle[b].status /\ bundle'[b].members = bundle[b].members \ {target[r]}
      BY <1>d, <3>1 DEF BundleDoc
    <3>3. Sound(b) /\ \A p \in bundle[b].members : p \in Existing \/ target[r] = p
      BY <1>s, <2>1, <3>1, TidyBefore DEF Attended
    <3> QED
      BY <1>s, <3>2, <3>3 DEF Sound, NoneInReview
  <2> QED
    BY <1>1, <2>2, <2>3
<1>4. ASSUME \A b \in Bundles' : b \in Bundles /\ bundle'[b] = bundle[b] /\ ~Attended(r, b), pc[r] # "pull", Ready(r)'
      PROVE  Tidy'
  BY <1>1, <1>4, <1>b, <1>s DEF Sound
<1>5. CASE DeleteSmall(r)
  <2>1. pc[r] = "delete_small" /\ pc'[r] = "done"
    BY <1>5, <1>t, <1>l, GotoFrame DEF DeleteSmall
  <2>2. \A b \in Bundles' : b \in Bundles /\ bundle'[b] = bundle[b]
    BY <1>5 DEF DeleteSmall, Bundles
  <2> QED
    BY <1>4, <2>1, <2>2 DEF Ready, Attended
<1>6. CASE DeleteBundles(r)
  <2>1. pc[r] = "delete_bundles" /\ pc'[r] = "delete_products" /\ Bundles' = {}
    BY <1>6, <1>t, <1>l, GotoFrame DEF DeleteBundles, Bundles
  <2> QED
    BY <1>4, <2>1 DEF Ready
<1>7. CASE InsertBundle(r)
  <2>1. pc[r] = "insert_bundle" /\ pc'[r] = "done" /\ bundle' = [bundle EXCEPT ![r] = want[r]]
    BY <1>7, <1>t, <1>l, GotoFrame DEF InsertBundle
  <2>2. Ready(r)'
    BY <2>1 DEF Ready
  <2>3. want[r].members \subseteq Existing /\ (want[r].status = "available" => NoneInReview(want[r].members))
    BY <1>t, <2>1 DEF Ready
  <2>4. ASSUME NEW b \in Bundles' PROVE Sound(b)' /\ bundle'[b].members \subseteq Existing
    <3>1. CASE b = r
      BY <1>t, <1>s, <2>1, <2>3, <3>1 DEF Sound, Types
    <3>2. CASE b # r
      <4>1. b \in Bundles /\ bundle'[b] = bundle[b]
        BY <1>t, <2>1, <2>4, <3>2 DEF Bundles, Types
      <4> QED
        BY <1>b, <1>s, <2>1, <4>1 DEF Sound, Attended
    <3> QED
      BY <3>1, <3>2
  <2> QED
    BY <1>1, <2>2, <2>4
<1>8. CASE ReadMembers(r)
  <2> DEFINE w == [want[r] EXCEPT !.status =
                     IF want[r].status \in Open THEN ReviewStatus(want[r].members) ELSE want[r].status]
  <2>1. /\ pc[r] = "read_members" /\ pc'[r] = "save_bundle" /\ UNCHANGED bundle
        /\ want'[r] = w /\ want[r] \in Patches
    BY <1>8, <1>t, <1>l, GotoFrame DEF ReadMembers, Types, Held
  <2>2. w.members = want[r].members /\ w.lists = want[r].lists /\ (w.status = "available" => NoneInReview(w.members))
    BY <2>1 DEF Patches, ReviewStatus, NoneInReview, Open
  <2> HIDE DEF w
  <2>3. Ready(r)'
    BY <1>t, <1>s, <2>1, <2>2 DEF Ready, PatchesMembers
  <2> QED
    BY <1>4, <2>1, <2>3 DEF Attended, Bundles
<1>9. CASE SaveBundle(r)
  <2> DEFINE t == target[r]
             value == [status |-> Saved(bundle[t].status, doc[r].status, want[r].status),
                       members |-> IF PatchesMembers(r) THEN want[r].members ELSE bundle[t].members,
                       v |-> IF PatchesMembers(r) THEN bundle[t].v + 1 ELSE bundle[t].v]
  <2>1. pc[r] = "save_bundle" /\ pc'[r] = "done"
    BY <1>9, <1>t, <1>l, GotoFrame DEF SaveBundle
  <2>2. Ready(r)'
    BY <2>1 DEF Ready
  <2>3. CASE UNCHANGED bundle
    BY <1>4, <2>1, <2>2, <2>3 DEF Attended, Bundles
  <2>4. CASE t \in Bundles /\ bundle' = [bundle EXCEPT ![t] = value]
    <3>1. bundle[t] = doc[r]
      BY <1>t, <2>1, <2>4 DEF Current, Bundles, Calm
    <3>2. value.status = want[r].status /\ value.members = want[r].members
      BY <1>t, <2>1, <3>1 DEF Saved, Held
    <3>3. (value.status = "available" => NoneInReview(value.members)) /\ value.members \subseteq Existing
      BY <1>t, <1>b, <2>1, <2>4, <3>1, <3>2 DEF Ready, PatchesMembers
    <3> HIDE DEF value
    <3>4. ASSUME NEW b \in Bundles' PROVE Sound(b)' /\ bundle'[b].members \subseteq Existing
      <4>1. CASE b = t
        BY <1>t, <1>s, <2>4, <3>3, <4>1 DEF Sound, Types, Bundles
      <4>2. CASE b # t
        <5>1. b \in Bundles /\ bundle'[b] = bundle[b]
          BY <1>t, <2>4, <3>4, <4>2 DEF Bundles, Types
        <5> QED
          BY <1>b, <1>s, <2>1, <5>1 DEF Sound, Attended
      <4> QED
        BY <4>1, <4>2
    <3> QED
      BY <1>1, <2>2, <3>4
  <2> QED
    BY <1>9, <2>3, <2>4 DEF SaveBundle
<1>10. CASE FindBundles(r)
  <2> DEFINE open == {b \in Bundles : Syncable(b)}
             d == [bundles |-> [b \in open |-> bundle[b]]]
  <2>1. pc[r] = "find_bundles" /\ UNCHANGED bundle /\ doc'[r] = d
        /\ Goto(r, IF open = {} THEN "done" ELSE "find_products")
    BY <1>10, <1>t DEF FindBundles, Types
  <2>2. DOMAIN d.bundles = open
    OBVIOUS
  <2> HIDE DEF d
  <2>3. pc'[r] = IF open = {} THEN "done" ELSE "find_products"
    BY <1>t, <1>l, <2>1, GotoFrame
  <2>4. ASSUME NEW b \in Bundles' PROVE (Sound(b)' \/ Attended(r, b)') /\ bundle'[b].members \subseteq Existing
    <3>1. b \in Bundles /\ bundle'[b].members \subseteq Existing
      BY <1>b, <2>1, <2>4 DEF Bundles
    <3>2. CASE b \in open
      <4>1. pc'[r] = "find_products"
        BY <2>3, <3>2
      <4>2. b \in DOMAIN doc'[r].bundles
        BY <2>1, <2>2, <3>2
      <4> QED
        BY <3>1, <4>1, <4>2 DEF Attended
    <3>3. CASE b \notin open
      BY <2>1, <3>1, <3>3 DEF Syncable, Open, Sound
    <3> QED
      BY <3>1, <3>2, <3>3
  <2>5. Ready(r)'
    BY <2>3 DEF Ready
  <2> QED
    BY <1>1, <2>4, <2>5
<1>11. CASE FindProducts(r)
  <2> DEFINE found == doc[r].bundles
             next(b) == BundleStatusForMembers({StatusOf(p) : p \in found[b].members})
             changed == {b \in DOMAIN found : next(b) # found[b].status}
             w == [bundles |-> [b \in changed |-> next(b)]]
  <2>1. pc[r] = "find_products" /\ UNCHANGED bundle /\ want'[r] = w
        /\ Goto(r, IF changed = {} THEN "done" ELSE "write_bundles")
    BY <1>11, <1>t DEF FindProducts, Types
  <2>2. DOMAIN w.bundles = changed /\ \A b \in changed : w.bundles[b] = next(b)
    OBVIOUS
  <2>3. ASSUME NEW b \in DOMAIN found, next(b) = "available" PROVE NoneInReview(found[b].members)
    <3> DEFINE statuses == {StatusOf(p) : p \in found[b].members}
    <3>1. \E s \in Statuses : statuses = {s}
      BY <2>3 DEF BundleStatusForMembers
    <3>2. statuses = {"available"}
      BY <2>3, <3>1 DEF BundleStatusForMembers
    <3> QED
      BY <3>2 DEF NoneInReview
  <2>4. \A b \in Bundles : b \in DOMAIN found => bundle[b] = found[b]
    BY <1>t, <2>1 DEF Current, Calm
  <2>5. \A b \in Bundles : b \in changed => (w.bundles[b] = "available" => NoneInReview(bundle[b].members))
    BY <2>2, <2>3, <2>4
  <2>6. \A b \in Bundles : b \notin changed => Sound(b)
    BY <1>b, <2>1, <2>3, <2>4 DEF Attended, Sound
  <2> HIDE DEF w, changed
  <2>7. pc'[r] = IF changed = {} THEN "done" ELSE "write_bundles"
    BY <1>t, <1>l, <2>1, GotoFrame
  <2>8. ASSUME NEW b \in Bundles' PROVE (Sound(b)' \/ Attended(r, b)') /\ bundle'[b].members \subseteq Existing
    <3>1. b \in Bundles /\ bundle'[b] = bundle[b]
      BY <2>1, <2>8 DEF Bundles
    <3>2. CASE b \in changed
      BY <1>b, <2>1, <2>2, <2>7, <3>1, <3>2 DEF Attended
    <3>3. CASE b \notin changed
      BY <1>b, <1>s, <2>1, <2>6, <3>1, <3>3 DEF Sound
    <3> QED
      BY <3>2, <3>3
  <2>9. Ready(r)'
    BY <1>s, <2>1, <2>2, <2>5, <2>7 DEF Ready, Bundles
  <2> QED
    BY <1>1, <2>8, <2>9
<1>12. CASE WriteBundles(r)
  <2> DEFINE written == Bundles \cap DOMAIN want[r].bundles
  <2>1. pc[r] = "write_bundles" /\ pc'[r] = "done"
        /\ bundle' = [b \in Requests |->
             IF b \in written THEN [bundle[b] EXCEPT !.status = want[r].bundles[b]] ELSE bundle[b]]
    BY <1>12, <1>t, <1>l, GotoFrame DEF WriteBundles
  <2>2. Ready(r)'
    BY <2>1 DEF Ready
  <2>3. ASSUME NEW b \in Bundles' PROVE Sound(b)' /\ bundle'[b].members \subseteq Existing
    <3>1. CASE b \in written
      <4>1. bundle'[b] = [bundle[b] EXCEPT !.status = want[r].bundles[b]]
        BY <2>1, <2>3, <3>1 DEF Bundles
      <4>2. bundle'[b].status = want[r].bundles[b] /\ bundle'[b].members = bundle[b].members
        BY <1>d, <3>1, <4>1 DEF BundleDoc
      <4> QED
        BY <1>t, <1>b, <1>s, <2>1, <3>1, <4>2 DEF Sound, Ready
    <3>2. CASE b \notin written
      <4>1. b \in Bundles /\ bundle'[b] = bundle[b]
        BY <2>1, <2>3, <3>2 DEF Bundles
      <4> QED
        BY <1>b, <1>s, <2>1, <3>2, <4>1 DEF Sound, Attended
    <3> QED
      BY <3>1, <3>2
  <2> QED
    BY <1>1, <2>2, <2>3
<1>13. CASE FindMembers(r)
  <2>1. pc[r] = "find_members" /\ UNCHANGED <<bundle, target, doc, want>>
    BY <1>13 DEF FindMembers, memory
  <2>2. \/ pc'[r] = "done"
        \/ pc'[r] = "read_members" /\ want[r].members \subseteq Existing
    BY <1>13, <1>t, <1>l, GotoFrame DEF FindMembers
  <2>3. Ready(r)'
    BY <1>s, <2>1, <2>2 DEF Ready
  <2> QED
    BY <1>4, <2>1, <2>3 DEF Attended, Bundles
<1> QED
  BY <1>2, <1>3, <1>5, <1>6, <1>7, <1>8, <1>9, <1>10, <1>11, <1>12, <1>13

\* A product that is created is in no bundle; a bundle that is removed needs no attention.
LEMMA SingleWritesTidy ==
  ASSUME Data, Tidy, Calm, \/ \E p \in Products : CreateProduct(p)
                           \/ \E b \in Requests : RemoveBundle(b)
                           \/ UNCHANGED vars
  PROVE  Tidy'
<1> USE CatalogAssumption, DocumentAssumption
<1>t. Types /\ (\A b \in Bundles : bundle[b].members \subseteq Known) /\ \A r \in Requests : Held(r) /\ Ready(r)
  BY DEF Data, MembersAreKnown, Tidy
<1>1. ASSUME UNCHANGED <<pc, target, doc, want>>,
             \A p \in Products : product'[p] = product[p] \/ p \notin Known,
             \A b \in Requests : bundle'[b] \in {bundle[b], None}
      PROVE  Tidy'
  <2>1. \A b \in Bundles' : b \in Bundles /\ bundle'[b] = bundle[b]
    BY <1>1 DEF Bundles
  <2>2. \A p \in Known : StatusOf(p)' = StatusOf(p) /\ (p \in Existing => p \in Existing')
    BY <1>t, <1>1 DEF StatusOf, Known, Existing, Types
  <2>3. \A ps \in SUBSET Known : NoneInReview(ps)' <=> NoneInReview(ps)
    BY <2>2 DEF NoneInReview
  <2>4. \A b \in Bundles' : (Sound(b)' <=> Sound(b)) /\ \A r : (Attended(r, b)' <=> Attended(r, b))
    BY <1>t, <1>1, <2>1, <2>3 DEF Sound, Attended
  <2>5. ASSUME NEW r \in Requests PROVE Ready(r)'
    <3> SUFFICES ASSUME Calm PROVE Ready(r)'
      OBVIOUS
    <3>1. CASE pc[r] = "delete_products"
      BY <1>t, <1>1, <2>1, <3>1 DEF Ready
    <3>2. CASE pc[r] = "insert_bundle"
      <4>1. want[r].members \subseteq Known /\ want[r].members \subseteq Existing
            /\ (want[r].status = "available" => NoneInReview(want[r].members))
        BY <1>t, <3>2 DEF Held, Ready
      <4> QED
        BY <1>1, <2>2, <2>3, <3>2, <4>1 DEF Ready
    <3>3. CASE pc[r] = "save_bundle"
      <4>1. want[r].members \subseteq Known /\ (PatchesMembers(r) => want[r].members \subseteq Existing)
            /\ (want[r].status = "available" => NoneInReview(want[r].members))
        BY <1>t, <3>3 DEF Held, Ready
      <4>2. PatchesMembers(r)' <=> PatchesMembers(r)
        BY <1>1 DEF PatchesMembers
      <4> QED
        BY <1>1, <2>2, <2>3, <3>3, <4>1, <4>2 DEF Ready
    <3>4. CASE pc[r] = "write_bundles"
      BY <1>t, <1>1, <2>1, <2>3, <3>4 DEF Ready
    <3>5. CASE pc[r] = "read_members"
      <4>1. want[r].members \subseteq Known /\ (PatchesMembers(r) => want[r].members \subseteq Existing)
        BY <1>t, <3>5 DEF Held, Ready
      <4> QED
        BY <1>1, <2>2, <3>5, <4>1 DEF Ready, PatchesMembers
    <3> QED
      BY <1>1, <3>1, <3>2, <3>3, <3>4, <3>5 DEF Ready
  <2>6. SoundOrAttended'
    BY <1>1, <2>1, <2>4 DEF Tidy, SoundOrAttended
  <2>7. WholeOrAttended'
    BY <1>t, <1>1, <2>1, <2>2 DEF Tidy, WholeOrAttended
  <2> QED
    BY <2>5, <2>6, <2>7 DEF Tidy
<1>2. ASSUME NEW p \in Products, CreateProduct(p) PROVE Tidy'
  BY <1>t, <1>1, <1>2 DEF CreateProduct, memory, Types, Known
<1>3. ASSUME NEW b \in Requests, RemoveBundle(b) PROVE Tidy'
  BY <1>t, <1>1, <1>3 DEF RemoveBundle, memory, Types
<1>4. CASE UNCHANGED vars
  BY <1>1, <1>4 DEF vars
<1> QED
  BY <1>2, <1>3, <1>4

\* Bundles are sound and whole, or attended to: kept by every step.
LEMMA TidyStays ==
  ASSUME Data, Serial, Tidy, [Next]_vars PROVE Tidy'
<1>f. faults' = faults
  BY NextCases, StepFrame DEF CreateProduct, RemoveBundle, vars
<1>1. CASE ~Calm
  BY <1>f, <1>1 DEF Tidy, Calm, Ready, SoundOrAttended, WholeOrAttended
<1>2. CASE Calm
  <2>1. ASSUME NEW r \in Requests, RequestStep(r) PROVE Tidy'
    BY <1>2, <2>1, ProductStepsTidy, BundleStepsTidy DEF RequestStep
  <2>2. \A r \in Requests : ~RequestFails(r)
    BY <1>2 DEF RequestFails, Calm
  <2> QED
    BY <1>2, <2>1, <2>2, NextCases, BeginsTidy, SingleWritesTidy
<1> QED
  BY <1>1, <1>2

\* In calm, bundles are sound and whole whenever no request attends to them.
THEOREM SpecTidy == Spec => []Tidy
<1>1. Init => Tidy
  BY DEF Init, Tidy, Ready, SoundOrAttended, WholeOrAttended, Bundles
<1> QED
  BY <1>1, TidyStays, SpecData, SpecSerial, PTL DEF Spec

\* After requests that neither overlapped nor failed, no bundle that clients can rent
\* holds content that waits for review.
THEOREM OpenBundlesAreReviewedAlways == Spec => []OpenBundlesAreReviewed
<1>1. Tidy => OpenBundlesAreReviewed
  <2>1. Quiet => \A r \in Requests, b \in Bundles : ~Attended(r, b)
    BY DEF Quiet, Attended
  <2> QED
    BY <2>1 DEF Tidy, SoundOrAttended, Sound, NoneInReview, Calm, OpenBundlesAreReviewed
<1> QED
  BY <1>1, SpecTidy, PTL

\* Once requests are done without a failure, no bundle is small; and its products
\* exist, unless the requests overlapped.
THEOREM BundlesAreWholeAlways == Spec => []BundlesAreWhole
<1>1. Init => NoSmallBundles
  BY DEF Init, NoSmallBundles, Bundles
<1>2. Spec => []NoSmallBundles
  BY <1>1, NoSmallBundlesStay, SpecData, PTL DEF Spec
<1>3. NoSmallBundles /\ Tidy => BundlesAreWhole
  BY DEF NoSmallBundles, Large, Quiet, Tidy, WholeOrAttended, Calm, BundlesAreWhole
<1> QED
  BY <1>2, <1>3, SpecTidy, PTL
=============================================================================
