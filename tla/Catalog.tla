------------------------------- MODULE Catalog -------------------------------
(***************************************************************************)
(* A provider's products and bundles: provider/product/product.service.ts, *)
(* provider/bundle/bundle.service.ts and admin/admin.service.ts.           *)
(*                                                                         *)
(* New or edited content waits in review until an admin approves it.  A    *)
(* bundle's status is derived from its members' and stored: editing a      *)
(* product, patching a bundle and every admin operation recompute it.      *)
(* Deleting a product takes it out of the bundles, in a second write.      *)
(*                                                                         *)
(* Requests stop at each await, as in Payments; a bundle bears the name of *)
(* the request that created it.  A write to several documents is one step. *)
(* Titles, texts and prices are left out: they change no status.           *)
(***************************************************************************)
EXTENDS Naturals, FiniteSets

CONSTANTS Products,  \* product ids
          Requests,  \* API requests
          Budget,    \* how many requests are served, for each set of faults
          None       \* no document, no value

Statuses == {"available", "rented", "in_review", "inactive"}
ProviderStatuses == {"available", "inactive"}
Open == {"available", "in_review"}

\* Requests overlap; an awaited call throws, or the process dies.
Faults == {"overlap", "failure"}

ASSUME CatalogAssumption ==
  /\ \E S \in SUBSET SUBSET Faults : Budget \in [S -> Nat]
  /\ IsFiniteSet(Products)
  /\ Products \cap Requests = {}
  /\ None \notin Products \cup Requests \cup Statuses

\* `reviewed`: an admin took the product out of review after its last edit; the code
\* does not store it.  `v` is mongoose's __v.
ProductDoc == [status: Statuses, reviewed: BOOLEAN]
BundleDoc == [status: Statuses, members: SUBSET Products, v: Nat]

ASSUME DocumentAssumption == None \notin ProductDoc \cup BundleDoc

VARIABLES faults,   \* what may go wrong, chosen once
          product,  \* MongoDB: products, None before creation and after deletion
          gone,     \* ids of deleted products
          bundle,   \* MongoDB: bundles, by the request that created them
          pc,       \* where each request is
          target,   \* the product or bundle each request works on
          doc,      \* what each request loaded
          want      \* what each request will write

vars == <<faults, product, gone, bundle, pc, target, doc, want>>
memory == <<target, doc, want>>

PC == {"idle", "save_product", "save_status", "mark_bundles", "delete_product", "pull",
       "delete_small", "delete_bundles", "delete_products", "insert_bundle", "find_members",
       "read_members", "save_bundle", "approve", "find_bundles", "find_products", "write_bundles", "done"}

Existing == {p \in Products : product[p] # None}
Bundles == {b \in Requests : bundle[b] # None}
Including(p) == {b \in Bundles : p \in bundle[b].members}
StatusOf(p) == IF product[p] = None THEN None ELSE product[p].status
Quiet == \A r \in Requests : pc[r] \in {"idle", "done"}

Idle(r) ==
  /\ pc[r] = "idle"
  /\ Cardinality({q \in Requests : pc[q] # "idle"}) < Budget[faults]
  /\ "overlap" \in faults \/ Quiet

Goto(r, label) == pc' = [pc EXCEPT ![r] = label] /\ UNCHANGED faults

Begin(r, x, d, w, label) ==
  /\ Idle(r)
  /\ target' = [target EXCEPT ![r] = x]
  /\ doc' = [doc EXCEPT ![r] = d]
  /\ want' = [want EXCEPT ![r] = w]
  /\ Goto(r, label)

-----------------------------------------------------------------------------
\* ProductService.create
CreateProduct(p) ==
  /\ p \notin Existing \cup gone
  /\ product' = [product EXCEPT ![p] = [status |-> "in_review", reviewed |-> FALSE]]
  /\ UNCHANGED <<faults, gone, bundle, pc, memory>>

\* update with content fields, addMedia, replaceMedia and deleteMedia: load the
\* product; the title check or the upload follows.
BeginEdit(r, p) ==
  /\ p \in Existing
  /\ Begin(r, p, product[p], [status |-> "in_review"], "save_product")
  /\ UNCHANGED <<product, gone, bundle>>

\* save() writes the paths that were assigned a value other than the loaded one.
Saved(now, loaded, value) == IF value = loaded THEN now ELSE value

Edited_KeepsStatus(r, d) == [d EXCEPT !.reviewed = FALSE]
Edited(r, d) == [status |-> Saved(d.status, doc[r].status, want[r].status), reviewed |-> FALSE]

\* update and saveInReview: write the content and the status; save() of a gallery is
\* refused if another request wrote the gallery since (see Gallery).
SaveProduct(r) ==
  /\ pc[r] = "save_product"
  /\ \E refused \in {FALSE, "overlap" \in faults} :
       IF target[r] \in Existing /\ ~refused
       THEN product' = [product EXCEPT ![target[r]] = Edited(r, @)] /\ Goto(r, "mark_bundles")
       ELSE UNCHANGED product /\ Goto(r, "done")
  /\ UNCHANGED <<gone, bundle, memory>>

ToReview_Nothing(bs) == UNCHANGED bundle
ToReview(bs) ==
  bundle' = [b \in Requests |->
    IF b \in bs /\ bundle[b].status = "available" THEN [bundle[b] EXCEPT !.status = "in_review"]
    ELSE bundle[b]]

\* markBundlesInReview
MarkBundles(r) ==
  /\ pc[r] = "mark_bundles"
  /\ ToReview(Including(target[r]))
  /\ Goto(r, "done")
  /\ UNCHANGED <<product, gone, memory>>

\* update with a status and no content; assertProviderStatusTransition looks at
\* the loaded status.
BeginToggle(r, p, s) ==
  /\ p \in Existing
  /\ product[p].status \in ProviderStatuses
  /\ Begin(r, p, product[p], [status |-> s], "save_status")
  /\ UNCHANGED <<product, gone, bundle>>

SaveStatus(r) ==
  LET p == target[r] IN
  /\ pc[r] = "save_status"
  /\ product' = IF p \in Existing
                THEN [product EXCEPT ![p].status = Saved(@, doc[r].status, want[r].status)]
                ELSE product
  /\ Goto(r, "done")
  /\ UNCHANGED <<gone, bundle, memory>>

-----------------------------------------------------------------------------
\* remove: load the product; a rented one is refused.
BeginRemove(r, p) ==
  /\ p \in Existing
  /\ product[p].status # "rented"
  /\ Begin(r, p, product[p], None, "delete_product")
  /\ UNCHANGED <<product, gone, bundle>>

Deletable_Always(p) == p \in Existing
Deletable(p) == p \in Existing /\ product[p].status # "rented"

\* ... then delete it, unless it was rented or deleted since.
DeleteProduct(r) ==
  LET p == target[r] IN
  /\ pc[r] = "delete_product"
  /\ IF Deletable(p)
     THEN product' = [product EXCEPT ![p] = None] /\ gone' = gone \cup {p} /\ Goto(r, "pull")
     ELSE UNCHANGED <<product, gone>> /\ Goto(r, "done")
  /\ UNCHANGED <<bundle, memory>>

\* detachProductFromBundles: $pull, which leaves __v alone ...
Pull(r) ==
  /\ pc[r] = "pull"
  /\ bundle' = [b \in Requests |->
       IF b \in Bundles THEN [bundle[b] EXCEPT !.members = @ \ {target[r]}] ELSE None]
  /\ Goto(r, "delete_small")
  /\ UNCHANGED <<product, gone, memory>>

TooSmall(b) == Cardinality(bundle[b].members) < 2

\* ... then delete the bundles left with fewer than two products.
DeleteSmall(r) ==
  /\ pc[r] = "delete_small"
  /\ bundle' = [b \in Requests |-> IF b \in Bundles /\ TooSmall(b) THEN None ELSE bundle[b]]
  /\ Goto(r, "done")
  /\ UNCHANGED <<product, gone, memory>>

\* removeAll: find the products, delete every bundle, delete the products found.
BeginRemoveAll(r) ==
  /\ Begin(r, None, [products |-> Existing], None, "delete_bundles")
  /\ UNCHANGED <<product, gone, bundle>>

DeleteBundles_Skipped(r) ==
  /\ pc[r] = "delete_bundles"
  /\ Goto(r, "delete_products")
  /\ UNCHANGED <<product, gone, bundle, memory>>

DeleteBundles(r) ==
  /\ pc[r] = "delete_bundles"
  /\ bundle' = [b \in Requests |-> None]
  /\ Goto(r, "delete_products")
  /\ UNCHANGED <<product, gone, memory>>

DeleteProducts(r) ==
  /\ pc[r] = "delete_products"
  /\ product' = [p \in Products |-> IF p \in doc[r].products THEN None ELSE product[p]]
  /\ gone' = gone \cup doc[r].products
  /\ Goto(r, "done")
  /\ UNCHANGED <<bundle, memory>>

-----------------------------------------------------------------------------
\* reviewStatus, of the members that were found
ReviewStatus(ps) == IF \E p \in ps : StatusOf(p) = "in_review" THEN "in_review" ELSE "available"

\* BundleService.create: the products must exist; the status is theirs.
BeginCreateBundle(r, ps) ==
  /\ ps \subseteq Existing
  /\ Cardinality(ps) \in 2 .. 10
  /\ Begin(r, r, None, [status |-> ReviewStatus(ps), members |-> ps, v |-> 0], "insert_bundle")
  /\ UNCHANGED <<product, gone, bundle>>

InsertBundle(r) ==
  /\ pc[r] = "insert_bundle"
  /\ bundle' = [bundle EXCEPT ![r] = want[r]]
  /\ Goto(r, "done")
  /\ UNCHANGED <<product, gone, memory>>

\* BundleService.update: load the bundle.  The patch may hold a status (refused
\* when the loaded one is not the provider's to change) and a list of products.
BeginPatch(r, b, s, ps) ==
  /\ b \in Bundles
  /\ s # None => bundle[b].status \in ProviderStatuses
  /\ ps # {} => Cardinality(ps) \in 2 .. 10
  /\ Begin(r, b, bundle[b],
           [status |-> IF s = None THEN bundle[b].status ELSE s,
            members |-> IF ps = {} THEN bundle[b].members ELSE ps,
            lists |-> ps # {}],
           IF ps = {} THEN "read_members" ELSE "find_members")
  /\ UNCHANGED <<product, gone, bundle>>

\* The patch lists products, though they may be those that the bundle has.
PatchesMembers(r) == want[r].lists

\* ... then the products of the list must exist ...
FindMembers(r) ==
  /\ pc[r] = "find_members"
  /\ Goto(r, IF want[r].members \subseteq Existing THEN "read_members" ELSE "done")
  /\ UNCHANGED <<product, gone, bundle, memory>>

\* ... then load the products: an open bundle takes the status of its members.
ReadMembers(r) ==
  /\ pc[r] = "read_members"
  /\ want' = [want EXCEPT ![r].status = IF @ \in Open THEN ReviewStatus(want[r].members) ELSE @]
  /\ Goto(r, "save_bundle")
  /\ UNCHANGED <<product, gone, bundle, target, doc>>

\* ... then save().  An array that was marked is written whole, if __v is still
\* the loaded one.
SaveBundle(r) ==
  LET b == target[r]
      stale == PatchesMembers(r) /\ bundle[b].v # doc[r].v
  IN
  /\ pc[r] = "save_bundle"
  /\ bundle' = IF b \notin Bundles \/ stale THEN bundle
               ELSE [bundle EXCEPT ![b] =
                 [status |-> Saved(@.status, doc[r].status, want[r].status),
                  members |-> IF PatchesMembers(r) THEN want[r].members ELSE @.members,
                  v |-> IF PatchesMembers(r) THEN @.v + 1 ELSE @.v]]
  /\ Goto(r, "done")
  /\ UNCHANGED <<product, gone, memory>>

\* BundleService.remove
RemoveBundle(b) ==
  /\ b \in Bundles
  /\ bundle' = [bundle EXCEPT ![b] = None]
  /\ UNCHANGED <<faults, product, gone, pc, memory>>

-----------------------------------------------------------------------------
SetStatus(ps, s) ==
  product' = [p \in Products |->
    IF p \in ps THEN [status |-> s, reviewed |-> product[p].reviewed \/ s # "in_review"] ELSE product[p]]

InReview(ps) == {p \in ps \cap Existing : product[p].status = "in_review"}

\* setProviderProductsStatus
BeginSetStatus(r, s) ==
  /\ SetStatus(Existing, s)
  /\ Begin(r, None, None, None, "find_bundles")
  /\ UNCHANGED <<gone, bundle>>

\* approveProviderProducts
BeginApproveAll(r) ==
  /\ SetStatus(InReview(Products), "available")
  /\ Begin(r, None, None, None, "find_bundles")
  /\ UNCHANGED <<gone, bundle>>

\* approveProducts: all of them must be in review; those that still are get approved.
BeginApprove(r, ps) ==
  /\ ps # {}
  /\ InReview(ps) = ps
  /\ Begin(r, None, [products |-> ps], None, "approve")
  /\ UNCHANGED <<product, gone, bundle>>

Approve(r) ==
  /\ pc[r] = "approve"
  /\ SetStatus(InReview(doc[r].products), "available")
  /\ Goto(r, "find_bundles")
  /\ UNCHANGED <<gone, bundle, memory>>

Syncable_All(b) == TRUE
Syncable(b) == bundle[b].status \in Open

\* syncOpenBundles: find the open bundles ...
FindBundles(r) ==
  LET open == {b \in Bundles : Syncable(b)} IN
  /\ pc[r] = "find_bundles"
  /\ doc' = [doc EXCEPT ![r] = [bundles |-> [b \in open |-> bundle[b]]]]
  /\ Goto(r, IF open = {} THEN "done" ELSE "find_products")
  /\ UNCHANGED <<product, gone, bundle, target, want>>

\* bundleStatusForMembers: the status all the members share; in review when they
\* differ or one is missing.
BundleStatusForMembers(statuses) ==
  IF \E s \in Statuses : statuses = {s} THEN CHOOSE s \in Statuses : statuses = {s} ELSE "in_review"

\* ... then their members, and compute the statuses that change ...
FindProducts(r) ==
  LET found == doc[r].bundles
      next(b) == BundleStatusForMembers({StatusOf(p) : p \in found[b].members})
      changed == {b \in DOMAIN found : next(b) # found[b].status}
  IN
  /\ pc[r] = "find_products"
  /\ want' = [want EXCEPT ![r] = [bundles |-> [b \in changed |-> next(b)]]]
  /\ Goto(r, IF changed = {} THEN "done" ELSE "write_bundles")
  /\ UNCHANGED <<product, gone, bundle, target, doc>>

\* ... then bulkWrite them, by id alone.
WriteBundles(r) ==
  /\ pc[r] = "write_bundles"
  /\ bundle' = [b \in Requests |->
       IF b \in Bundles \cap DOMAIN want[r].bundles THEN [bundle[b] EXCEPT !.status = want[r].bundles[b]] ELSE bundle[b]]
  /\ Goto(r, "done")
  /\ UNCHANGED <<product, gone, memory>>

\* An awaited call throws or the process dies; what was written stays written.
RequestFails(r) ==
  /\ "failure" \in faults
  /\ pc[r] \notin {"idle", "done"}
  /\ Goto(r, "done")
  /\ UNCHANGED <<product, gone, bundle, memory>>

-----------------------------------------------------------------------------
Init ==
  /\ faults \in DOMAIN Budget
  /\ product = [p \in Products |-> None]
  /\ gone = {}
  /\ bundle = [b \in Requests |-> None]
  /\ pc = [r \in Requests |-> "idle"]
  /\ target = [r \in Requests |-> None]
  /\ doc = [r \in Requests |-> None]
  /\ want = [r \in Requests |-> None]

RequestStep(r) ==
  \/ SaveProduct(r) \/ SaveStatus(r) \/ MarkBundles(r)
  \/ DeleteProduct(r) \/ Pull(r) \/ DeleteSmall(r)
  \/ DeleteBundles(r) \/ DeleteProducts(r)
  \/ InsertBundle(r) \/ FindMembers(r) \/ ReadMembers(r) \/ SaveBundle(r)
  \/ Approve(r) \/ FindBundles(r) \/ FindProducts(r) \/ WriteBundles(r)

Next ==
  \/ \E r \in Requests : RequestStep(r) \/ RequestFails(r)
  \/ \E p \in Products : CreateProduct(p)
  \/ \E r \in Requests, p \in Products : BeginEdit(r, p) \/ BeginRemove(r, p)
  \/ \E r \in Requests, p \in Products, s \in ProviderStatuses : BeginToggle(r, p, s)
  \/ \E r \in Requests : BeginRemoveAll(r) \/ BeginApproveAll(r)
  \/ \E r \in Requests, ps \in SUBSET Products : BeginCreateBundle(r, ps) \/ BeginApprove(r, ps)
  \/ \E r, b \in Requests, s \in ProviderStatuses \cup {None}, ps \in SUBSET Products :
       BeginPatch(r, b, s, ps)
  \/ \E b \in Requests : RemoveBundle(b)
  \/ \E r \in Requests, s \in Statuses : BeginSetStatus(r, s)

Spec == Init /\ [][Next]_vars

-----------------------------------------------------------------------------
\* The variables have the types of the schemas.
TypeOK ==
  /\ product \in [Products -> ProductDoc \cup {None}]
  /\ gone \subseteq Products
  /\ \A b \in Bundles : bundle[b] \in BundleDoc
  /\ pc \in [Requests -> PC]
  /\ target \in [Requests -> Products \cup Requests \cup {None}]

\* "Si esta rented ... no se borra nada": deleting one product never deletes a
\* rented one, though it was not rented when the request looked.  (Deleting the
\* whole catalog does.)
RentedProductsStay ==
  [][\A p \in Products :
       StatusOf(p) = "rented" /\ product'[p] = None
         => \E r \in Requests : pc[r] = "delete_products" /\ pc'[r] = "done"]_vars

\* "Un bundle esta in_review si al menos uno de sus productos esta in_review": after
\* requests that neither overlapped nor failed, no bundle that clients can rent holds
\* content that waits for review.
OpenBundlesAreReviewed ==
  faults = {} /\ Quiet => \A b \in Bundles : bundle[b].status = "available" =>
    \A p \in bundle[b].members : StatusOf(p) # "in_review"

\* "borra bundles que queden con <2 productos": whatever requests overlap, once they
\* are done without a failure no bundle is left with fewer than two products; and, if
\* they did not overlap, the products of every bundle exist.
BundlesAreWhole ==
  "failure" \notin faults /\ Quiet => \A b \in Bundles :
    /\ Cardinality(bundle[b].members) >= 2
    /\ "overlap" \notin faults => bundle[b].members \subseteq Existing

\* "estado in_review hasta que un admin lo apruebe": unless requests overlap, what
\* clients see of a product is what an admin took out of review, even if some of
\* the requests that edited it failed half way.
OnlyReviewedContentIsLive ==
  "overlap" \notin faults => \A p \in Existing : product[p].status = "available" => product[p].reviewed

\* "inactive y rented los dejo el provider y no se tocan": an admin's request
\* changes the status of no bundle that is inactive or rented, unless it overlaps
\* another request: the bulk write is by id alone.
LoneAdminSparesClosedBundles ==
  [][\A b \in Bundles, r \in Requests :
       "overlap" \notin faults /\ bundle[b].status \notin Open /\ pc[r] = "write_bundles" /\ pc'[r] # pc[r]
         => bundle'[b] = bundle[b]]_vars
=============================================================================
