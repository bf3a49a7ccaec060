-------------------------------- MODULE Gallery --------------------------------
(***************************************************************************)
(* Photos: the gallery of a product (provider/product/product.service.ts)  *)
(* and the avatar of a store (provider/store/store.service.ts), with       *)
(* shared/storage/storage.service.ts.                                      *)
(*                                                                         *)
(* A photo is a file in a bucket (Cloudinary) and an entry in a document.  *)
(* No write covers both: a file is uploaded before its entry is saved and  *)
(* destroyed before its entry is removed.  Adding a photo pushes it, at    *)
(* whatever version the document has; the other operations write the whole *)
(* array if the document still has the version that was loaded.            *)
(*                                                                         *)
(* Requests stop at each await and are numbered as they arrive; a photo    *)
(* bears the name of the request that uploaded it.  The avatar of a store  *)
(* is one file, whatever its content.  The status of the product, its      *)
(* review and its bundles are in Catalog.                                  *)
(***************************************************************************)
EXTENDS Naturals, Sequences, SequencesExt

CONSTANTS Requests,   \* API requests
          MaxPhotos,  \* MAX_PRODUCT_MEDIAS
          Budget,     \* how many requests are served, for each set of faults
          None        \* no document, no photo

\* Two requests overlap; an awaited call throws, or the process dies.
Faults == {"overlap", "failure"}

ASSUME GalleryAssumption ==
  /\ \E S \in SUBSET SUBSET Faults : Budget \in [S -> Nat]
  /\ Requests \subseteq Nat
  /\ MaxPhotos \in Nat
  /\ None \notin Requests /\ None \notin [v: Nat, photos: Seq(Requests)]

VARIABLES faults,    \* what may go wrong, chosen once
          product,   \* MongoDB: the product's version and photos, None once deleted
          bucket,    \* Cloudinary: the files of the product's photos
          unlisted,  \* history: photos that were taken out of the gallery
          avatar,    \* MongoDB: the photo that the store shows
          file,      \* Cloudinary: the store's one avatar file
          pc,        \* where each request is
          doc,       \* the product or avatar each request loaded
          photos     \* the gallery that each request will save

vars == <<faults, product, bucket, unlisted, avatar, file, pc, doc, photos>>
gallery == <<product, bucket, unlisted>>
portrait == <<avatar, file>>
memory == <<doc, photos>>

PC == {"idle", "upload", "push", "destroy", "replace", "save", "delete_product",
       "destroy_all", "destroy_first", "delete_last", "destroy_avatar", "upload_avatar", "save_avatar",
       "destroy_last", "unset_avatar", "done"}

Busy == {q \in Requests : pc[q] \notin {"idle", "done"}}
Quiet == Busy = {}
Listed == IF product = None THEN {} ELSE ToSet(product.photos)

\* The request that comes next.
Idle(r) ==
  /\ pc[r] = "idle"
  /\ \A q \in Requests : q < r => pc[q] # "idle"
  /\ Cardinality({q \in Requests : pc[q] # "idle"}) < Budget[faults]
  /\ IF "overlap" \in faults THEN Cardinality(Busy) < 2 ELSE Quiet

Goto(r, label) == pc' = [pc EXCEPT ![r] = label] /\ UNCHANGED faults

Begin(r, d, seq, label) ==
  /\ Idle(r)
  /\ doc' = [doc EXCEPT ![r] = d]
  /\ photos' = [photos EXCEPT ![r] = seq]
  /\ Goto(r, label)
  /\ UNCHANGED <<gallery, portrait>>

-----------------------------------------------------------------------------
HasRoom(seq) == Len(seq) < MaxPhotos

\* addMedia: load the product; there is room for a photo.
BeginAdd(r) ==
  /\ product # None
  /\ HasRoom(product.photos)
  /\ Begin(r, product, <<>>, "upload")

Upload(r) ==
  /\ pc[r] = "upload"
  /\ bucket' = bucket \cup {r}
  /\ Goto(r, "push")
  /\ UNCHANGED <<product, unlisted, portrait, memory>>

Pushed(r) == Append(product.photos, r)

\* save(): $push, which increments the version and does not ask for it.
Push(r) ==
  /\ pc[r] = "push"
  /\ product' = IF product = None THEN None
                ELSE [v |-> product.v + 1, photos |-> Pushed(r)]
  /\ Goto(r, "done")
  /\ UNCHANGED <<bucket, unlisted, portrait, memory>>

\* replaceMedia and deleteMedia: load the product, which has the photo at i.
BeginReplace(r, i) ==
  /\ product # None
  /\ i \in DOMAIN product.photos
  /\ Begin(r, product, [product.photos EXCEPT ![i] = r], "destroy")

BeginDelete(r, i) ==
  /\ product # None
  /\ i \in DOMAIN product.photos
  /\ Begin(r, product, RemoveAt(product.photos, i), "destroy")

\* The photos that a request takes out of the gallery it loaded.
Dropped(r) == ToSet(doc[r].photos) \ ToSet(photos[r])

Destroyed_Nothing(files) == UNCHANGED bucket

\* StorageService.delete: a failure is logged and nothing more.
Destroyed(files) ==
  \/ bucket' = bucket \ files
  \/ "failure" \in faults /\ UNCHANGED bucket

\* ... destroy its file; a replacement goes on to upload the new one.
Destroy(r) ==
  /\ pc[r] = "destroy"
  /\ Destroyed(Dropped(r))
  /\ Goto(r, IF r \in ToSet(photos[r]) THEN "replace" ELSE "save")
  /\ UNCHANGED <<product, unlisted, portrait, memory>>

UploadReplacement(r) ==
  /\ pc[r] = "replace"
  /\ bucket' = bucket \cup {r}
  /\ Goto(r, "save")
  /\ UNCHANGED <<product, unlisted, portrait, memory>>

\* reorderMedias: another order of the photos.
BeginReorder(r, order) ==
  /\ product # None
  /\ LET reordered == [i \in DOMAIN order |-> product.photos[order[i]]]
     IN reordered # product.photos /\ Begin(r, product, reordered, "save")

Current_Always(r) == product # None

\* save() of the whole array finds the document with the version that was loaded.
Current(r) == product # None /\ product.v = doc[r].v

Save(r) ==
  /\ pc[r] = "save"
  /\ IF Current(r)
     THEN product' = [v |-> product.v + 1, photos |-> photos[r]] /\ unlisted' = unlisted \cup Dropped(r)
     ELSE UNCHANGED <<product, unlisted>>
  /\ Goto(r, "done")
  /\ UNCHANGED <<bucket, portrait, memory>>

\* remove: load the product, delete it, then destroy the files that were loaded.
\* removeAll destroys first.
BeginRemove(r) ==
  /\ product # None
  /\ \E first \in {"delete_product", "destroy_first"} : Begin(r, product, <<>>, first)

DeleteProduct(r) ==
  /\ pc[r] \in {"delete_product", "delete_last"}
  /\ product' = None
  /\ Goto(r, IF pc[r] = "delete_product" /\ product # None THEN "destroy_all" ELSE "done")
  /\ UNCHANGED <<bucket, unlisted, portrait, memory>>

DestroyAll(r) ==
  /\ pc[r] \in {"destroy_all", "destroy_first"}
  /\ Destroyed(Dropped(r))
  /\ Goto(r, IF pc[r] = "destroy_first" THEN "delete_last" ELSE "done")
  /\ UNCHANGED <<product, unlisted, portrait, memory>>

-----------------------------------------------------------------------------
\* uploadAvatar: load the store ...
BeginAvatar(r) == Begin(r, avatar, <<>>, IF avatar = None THEN "upload_avatar" ELSE "destroy_avatar")

\* deleteAvatar: load the store ...
BeginDeleteAvatar(r) == Begin(r, avatar, <<>>, IF avatar = None THEN "unset_avatar" ELSE "destroy_last")

FileDestroyed == file' = None \/ ("failure" \in faults /\ UNCHANGED file)

\* ... destroy the file it shows ...
DestroyAvatar(r) ==
  /\ pc[r] \in {"destroy_avatar", "destroy_last"}
  /\ FileDestroyed
  /\ Goto(r, IF pc[r] = "destroy_avatar" THEN "upload_avatar" ELSE "unset_avatar")
  /\ UNCHANGED <<gallery, avatar, memory>>

\* ... upload the new one under the same name ...
UploadAvatar(r) ==
  /\ pc[r] = "upload_avatar"
  /\ file' = r
  /\ Goto(r, "save_avatar")
  /\ UNCHANGED <<gallery, avatar, memory>>

\* ... and write the store's avatar.
NewAvatar(r) == IF pc[r] = "save_avatar" THEN r ELSE None

WriteAvatar(r) ==
  /\ pc[r] \in {"save_avatar", "unset_avatar"}
  /\ avatar' = NewAvatar(r)
  /\ Goto(r, "done")
  /\ UNCHANGED <<gallery, file, memory>>

\* An awaited call throws or the process dies.
RequestFails(r) ==
  /\ "failure" \in faults
  /\ r \in Busy
  /\ Goto(r, "done")
  /\ UNCHANGED <<gallery, portrait, memory>>

-----------------------------------------------------------------------------
Init ==
  /\ faults \in DOMAIN Budget
  /\ product = [v |-> 0, photos |-> <<>>]
  /\ bucket = {}
  /\ unlisted = {}
  /\ avatar = None
  /\ file = None
  /\ pc = [r \in Requests |-> "idle"]
  /\ doc = [r \in Requests |-> None]
  /\ photos = [r \in Requests |-> <<>>]

GalleryStep(r) ==
  \/ Upload(r) \/ Push(r) \/ Destroy(r) \/ UploadReplacement(r) \/ Save(r)
  \/ DeleteProduct(r) \/ DestroyAll(r)

AvatarStep(r) == DestroyAvatar(r) \/ UploadAvatar(r) \/ WriteAvatar(r)

Positions == 1 .. MaxPhotos + 1
Orders == Bijection(DOMAIN product.photos, DOMAIN product.photos)

Next ==
  \/ \E r \in Requests : BeginAdd(r) \/ BeginRemove(r) \/ GalleryStep(r) \/ RequestFails(r)
  \/ \E r \in Requests, i \in Positions : BeginReplace(r, i) \/ BeginDelete(r, i)
  \/ product # None /\ \E r \in Requests, order \in Orders : BeginReorder(r, order)
  \/ \E r \in Requests : BeginAvatar(r) \/ BeginDeleteAvatar(r) \/ AvatarStep(r)

Spec == Init /\ [][Next]_vars

-----------------------------------------------------------------------------
\* The variables have the types of the schemas.
TypeOK ==
  /\ product # None => product.v \in Nat /\ product.photos \in Seq(Requests)
  /\ bucket \subseteq Requests
  /\ unlisted \subseteq Requests
  /\ {avatar, file} \subseteq Requests \cup {None}
  /\ pc \in [Requests -> PC]
  /\ photos \in [Requests -> Seq(Requests)]

\* A photo that was deleted or replaced is never listed again, whatever copy of
\* the gallery a slower request still holds; and no photo is listed twice.
DeletedPhotosStayDeleted ==
  product # None => Listed \cap unlisted = {} /\ IsInjective(product.photos)

\* "borra DB + bucket", "Elimina el avatar del bucket y de la store": when requests
\* neither overlapped nor failed and none is in flight, every listed photo and the
\* avatar can be shown, and no other file is kept.
PhotosAreTheFiles == faults = {} /\ Quiet => Listed = bucket /\ avatar = file
=============================================================================
