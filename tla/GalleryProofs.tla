---------------------------- MODULE GalleryProofs ----------------------------
(***************************************************************************)
(* The properties of Gallery, for any number of requests and photos and    *)
(* any budget.                                                             *)
(***************************************************************************)
EXTENDS Gallery, SequenceTheorems, TLAPS

-----------------------------------------------------------------------------
\* What the operations on galleries do to a sequence and to the set of its elements.

\* The elements of a sequence over T are in T.
LEMMA ElementsOf == ASSUME NEW T, NEW es \in Seq(T) PROVE ToSet(es) \subseteq T
<1>1. \A j \in DOMAIN es : es[j] \in T
  OBVIOUS
<1> QED
  BY <1>1 DEF ToSet

\* What remains of a sequence when one element is taken out.
LEMMA Removal ==
  ASSUME NEW T, NEW es \in Seq(T), NEW i \in DOMAIN es
  PROVE  /\ RemoveAt(es, i) \in Seq(T)
         /\ Len(RemoveAt(es, i)) = Len(es) - 1
         /\ \A j \in 1 .. Len(es) - 1 : RemoveAt(es, i)[j] = es[IF j < i THEN j ELSE j + 1]
<1> DEFINE before == SubSeq(es, 1, i - 1)
           after == SubSeq(es, i + 1, Len(es))
<1>1. i \in 1 .. Len(es) /\ Len(es) \in Nat /\ \A j \in 1 .. Len(es) : es[j] \in T
  OBVIOUS
<1>2. /\ before \in Seq(T) /\ Len(before) = i - 1
      /\ \A j \in 1 .. i - 1 : before[j] = es[j]
  <2>1. \A j \in 1 .. i - 1 : es[j] \in T
    BY <1>1
  <2> QED
    BY <1>1, <2>1, SubSeqProperties
<1>3. /\ after \in Seq(T) /\ Len(after) = Len(es) - i
      /\ \A j \in 1 .. Len(es) - i : after[j] = es[i + j]
  <2>1. \A j \in i + 1 .. Len(es) : es[j] \in T
    BY <1>1
  <2> QED
    BY <1>1, <2>1, SubSeqProperties
<1>4. RemoveAt(es, i) = before \o after
  BY DEF RemoveAt
<1> HIDE DEF before, after
<1>5. /\ before \o after \in Seq(T) /\ Len(before \o after) = Len(before) + Len(after)
      /\ \A j \in 1 .. Len(before) + Len(after) :
           (before \o after)[j] = IF j <= Len(before) THEN before[j] ELSE after[j - Len(before)]
  <2>1. before \in Seq(T) /\ after \in Seq(T)
    BY <1>2, <1>3
  <2> QED
    BY <2>1, ConcatProperties, Zenon
<1>6. ASSUME NEW j \in 1 .. Len(es) - 1 PROVE RemoveAt(es, i)[j] = es[IF j < i THEN j ELSE j + 1]
  <2>1. CASE j < i
    BY <1>1, <1>2, <1>3, <1>4, <1>5, <2>1
  <2>2. CASE j >= i
    <3>1. j \in 1 .. Len(before) + Len(after) /\ ~(j <= Len(before))
      BY <1>1, <1>2, <1>3, <2>2
    <3>2. j - Len(before) \in 1 .. Len(es) - i /\ i + (j - Len(before)) = j + 1
      BY <1>1, <1>2, <1>3, <2>2
    <3> QED
      BY <1>1, <1>3, <1>4, <1>5, <2>2, <3>1, <3>2
  <2> QED
    BY <1>1, <2>1, <2>2
<1> QED
  BY <1>1, <1>2, <1>3, <1>4, <1>5, <1>6

\* ... its elements were there, and no two are equal if no two were.
LEMMA RemovalKeeps ==
  ASSUME NEW T, NEW es \in Seq(T), NEW i \in DOMAIN es, IsInjective(es)
  PROVE  IsInjective(RemoveAt(es, i)) /\ ToSet(RemoveAt(es, i)) \subseteq ToSet(es)
<1> DEFINE rest == RemoveAt(es, i)
<1>1. /\ rest \in Seq(T) /\ Len(rest) = Len(es) - 1 /\ Len(es) \in Nat
      /\ \A j \in 1 .. Len(es) - 1 : rest[j] = es[IF j < i THEN j ELSE j + 1]
  BY Removal
<1>2. DOMAIN rest = 1 .. Len(es) - 1 /\ DOMAIN es = 1 .. Len(es) /\ i \in 1 .. Len(es)
  BY <1>1
<1> HIDE DEF rest
<1>3. \A j \in DOMAIN rest : (IF j < i THEN j ELSE j + 1) \in DOMAIN es
  BY <1>1, <1>2
<1>4. ASSUME NEW j \in DOMAIN rest, NEW k \in DOMAIN rest, rest[j] = rest[k] PROVE j = k
  <2>1. (IF j < i THEN j ELSE j + 1) = (IF k < i THEN k ELSE k + 1)
    BY <1>1, <1>2, <1>3, <1>4 DEF IsInjective
  <2> QED
    BY <1>1, <1>2, <2>1
<1>5. \A j \in DOMAIN rest : \E k \in DOMAIN es : rest[j] = es[k]
  BY <1>1, <1>2, <1>3
<1> QED
  BY <1>4, <1>5 DEF IsInjective, ToSet, rest

\* A new element at the end.
LEMMA AppendKeeps ==
  ASSUME NEW T, NEW es \in Seq(T), NEW e \in T, e \notin ToSet(es), IsInjective(es)
  PROVE  /\ Append(es, e) \in Seq(T)
         /\ IsInjective(Append(es, e))
         /\ ToSet(Append(es, e)) = ToSet(es) \cup {e}
<1> DEFINE more == Append(es, e)
<1>1. /\ more \in Seq(T) /\ Len(es) \in Nat
      /\ DOMAIN es = 1 .. Len(es) /\ DOMAIN more = 1 .. Len(es) + 1
      /\ more[Len(es) + 1] = e /\ \A j \in 1 .. Len(es) : more[j] = es[j]
  OBVIOUS
<1> HIDE DEF more
<1>2. \A j \in DOMAIN more : j = Len(es) + 1 \/ j \in DOMAIN es
  BY <1>1
<1>3. IsInjective(more)
  BY <1>1, <1>2 DEF IsInjective, ToSet
<1>4. ToSet(more) = ToSet(es) \cup {e}
  <2>1. Len(es) + 1 \in DOMAIN more /\ DOMAIN es \subseteq DOMAIN more
    BY <1>1
  <2> QED
    BY <1>1, <1>2, <2>1 DEF ToSet
<1> QED
  BY <1>1, <1>3, <1>4 DEF more

\* A new element in the place of another.
LEMMA ReplacementKeeps ==
  ASSUME NEW T, NEW es \in Seq(T), NEW i \in DOMAIN es, NEW e \in T, e \notin ToSet(es), IsInjective(es)
  PROVE  /\ [es EXCEPT ![i] = e] \in Seq(T)
         /\ IsInjective([es EXCEPT ![i] = e])
         /\ ToSet([es EXCEPT ![i] = e]) \subseteq ToSet(es) \cup {e}
         /\ e \in ToSet([es EXCEPT ![i] = e])
<1> DEFINE new == [es EXCEPT ![i] = e]
<1>1. /\ new \in Seq(T) /\ DOMAIN new = DOMAIN es
      /\ new[i] = e /\ \A j \in DOMAIN es : j # i => new[j] = es[j]
  OBVIOUS
<1> HIDE DEF new
<1>2. IsInjective(new)
  BY <1>1 DEF IsInjective, ToSet
<1>3. ToSet(new) \subseteq ToSet(es) \cup {e} /\ e \in ToSet(new)
  BY <1>1 DEF ToSet
<1> QED
  BY <1>1, <1>2, <1>3 DEF new

\* The same elements in another order.
LEMMA ReorderingKeeps ==
  ASSUME NEW T, NEW es \in Seq(T), NEW order \in Bijection(DOMAIN es, DOMAIN es), IsInjective(es)
  PROVE  LET new == [i \in DOMAIN order |-> es[order[i]]] IN
         new \in Seq(T) /\ IsInjective(new) /\ ToSet(new) = ToSet(es)
<1> DEFINE new == [i \in DOMAIN order |-> es[order[i]]]
<1>1. /\ order \in [DOMAIN es -> DOMAIN es] /\ IsInjective(order)
      /\ \A t \in DOMAIN es : \E s \in DOMAIN es : order[s] = t
  BY DEF Bijection, Injection, Surjection
<1>2. /\ DOMAIN new = DOMAIN es /\ DOMAIN order = DOMAIN es
      /\ \A i \in DOMAIN es : new[i] = es[order[i]] /\ order[i] \in DOMAIN es
  BY <1>1
<1>3. new \in Seq(T)
  <2>1. Len(es) \in Nat /\ DOMAIN es = 1 .. Len(es) /\ \A i \in DOMAIN es : es[i] \in T
    OBVIOUS
  <2>2. new \in [1 .. Len(es) -> T]
    BY <1>2, <2>1
  <2> QED
    BY <2>1, <2>2, SeqDef
<1> HIDE DEF new
<1>4. IsInjective(new)
  BY <1>1, <1>2 DEF IsInjective
<1>5. ToSet(new) = ToSet(es)
  BY <1>1, <1>2 DEF ToSet
<1> QED
  BY <1>3, <1>4, <1>5 DEF new

-----------------------------------------------------------------------------

\* Requests that hold a copy of the product, and those that will save a gallery.
WithCopy == {"upload", "push", "destroy", "replace", "save", "delete_product", "destroy_all",
             "destroy_first", "delete_last"}
Saving == {"destroy", "replace", "save"}
OfAvatar == {"destroy_avatar", "upload_avatar", "save_avatar", "destroy_last", "unset_avatar"}

\* What a request holds at each of its awaits: the copy it loaded, and a gallery made
\* of the photos in it and its own.
Contexts ==
  /\ doc = [r \in Requests |-> doc[r]]
  /\ \A r \in Requests :
    /\ pc[r] \in WithCopy => doc[r] # None /\ doc[r].v \in Nat /\ doc[r].photos \in Seq(Requests)
    /\ pc[r] \in Saving => /\ ToSet(photos[r]) \subseteq ToSet(doc[r].photos) \cup {r}
                           /\ IsInjective(photos[r])
    /\ pc[r] \in {"delete_product", "destroy_all", "destroy_first"} => photos[r] = <<>>

\* A photo that is or was listed bears the name of a request that has ended.
Names ==
  /\ \A q \in Listed \cup unlisted : pc[q] = "done"
  /\ \A r \in Requests : pc[r] \in WithCopy => \A q \in ToSet(doc[r].photos) : pc[q] = "done"

\* The version tells whether a copy is the present gallery.
Versions ==
  \A r \in Requests : product # None /\ pc[r] \in Saving =>
    /\ doc[r].v <= product.v
    /\ doc[r].v = product.v => doc[r].photos = product.photos

\* One request at a time, if requests do not overlap.
Alone == "overlap" \notin faults => \A q, r \in Busy : q = r

\* Without faults, what is in the bucket while a request is on its way.
Files ==
  faults = {} =>
    /\ Quiet => Listed = bucket /\ avatar = file
    /\ \A r \in Requests : pc[r] \in WithCopy => avatar = file
    /\ \A r \in Requests : pc[r] \in WithCopy \ {"destroy_all"} => product # None /\ doc[r] = product
    /\ \A r \in Requests : pc[r] \in OfAvatar \cup {"upload", "destroy", "delete_product", "destroy_first"}
         => Listed = bucket
    /\ \A r \in Requests : pc[r] = "push" => bucket = Listed \cup {r}
    /\ \A r \in Requests : pc[r] = "replace" => bucket = Listed \ Dropped(r) /\ r \in ToSet(photos[r])
    /\ \A r \in Requests : pc[r] = "save" => bucket = ToSet(photos[r])
    /\ \A r \in Requests : pc[r] = "destroy_all" => product = None /\ bucket = ToSet(doc[r].photos)
    /\ \A r \in Requests : pc[r] = "delete_last" => bucket = {}
    /\ \A r \in Requests : pc[r] \in {"destroy_avatar", "destroy_last"} => avatar = file
    /\ \A r \in Requests : pc[r] \in {"unset_avatar"} => file = None
    /\ \A r \in Requests : pc[r] = "save_avatar" => file = r

IInv == TypeOK /\ Contexts /\ Names /\ Versions /\ DeletedPhotosStayDeleted /\ Alone /\ Files

-----------------------------------------------------------------------------
\* Photos bear the names of requests.
LEMMA NamesAreRequests ==
  ASSUME IInv
  PROVE  /\ Listed \cup unlisted \subseteq Requests
         /\ \A r \in Requests : pc[r] \in WithCopy => ToSet(doc[r].photos) \subseteq Requests
<1>1. /\ product # None => product.photos \in Seq(Requests)
      /\ unlisted \subseteq Requests
      /\ \A r \in Requests : pc[r] \in WithCopy => doc[r].photos \in Seq(Requests)
  BY DEF IInv, TypeOK, Contexts
<1>2. product # None => ToSet(product.photos) \subseteq Requests
  BY <1>1, ElementsOf
<1>3. \A r \in Requests : pc[r] \in WithCopy => ToSet(doc[r].photos) \subseteq Requests
  BY <1>1, ElementsOf
<1> QED
  BY <1>1, <1>2, <1>3 DEF Listed

\* The first step of a request that loads the product.
LEMMA BeginKeeps ==
  ASSUME IInv, NEW r \in Requests, NEW seq \in Seq(Requests), NEW label, product # None,
         Begin(r, product, seq, label),
         label \in {"upload", "destroy", "save", "delete_product", "destroy_first"},
         label \in Saving => ToSet(seq) \subseteq ToSet(product.photos) \cup {r} /\ IsInjective(seq),
         label = "save" => ToSet(seq) = ToSet(product.photos),
         label \in {"delete_product", "destroy_first"} => seq = <<>>
  PROVE  IInv'
<1> USE GalleryAssumption
<1>1. /\ TypeOK /\ pc[r] = "idle" /\ product.v \in Nat /\ product.photos \in Seq(Requests)
      /\ UNCHANGED <<faults, product, bucket, unlisted, avatar, file>>
      /\ pc' = [pc EXCEPT ![r] = label] /\ photos' = [photos EXCEPT ![r] = seq]
      /\ doc' = [doc EXCEPT ![r] = product] /\ doc = [q \in Requests |-> doc[q]]
      /\ "overlap" \notin faults => Quiet
      /\ label \in PC /\ Listed = ToSet(product.photos)
  BY DEF Begin, Idle, Goto, gallery, portrait, IInv, TypeOK, Contexts, PC, Listed
<1>2. /\ pc'[r] = label /\ photos'[r] = seq /\ doc'[r] = product
      /\ doc' = [q \in Requests |-> doc'[q]]
      /\ \A q \in Requests : q # r => pc'[q] = pc[q] /\ photos'[q] = photos[q] /\ doc'[q] = doc[q]
      /\ Listed' = Listed
  BY <1>1 DEF TypeOK, Listed
<1>3. TypeOK'
  BY <1>1 DEF TypeOK
<1>4. Contexts'
  BY <1>1, <1>2 DEF IInv, Contexts, WithCopy, Saving
<1>5. Names'
  BY <1>1, <1>2 DEF IInv, Names
<1>6. Versions'
  BY <1>1, <1>2 DEF IInv, Versions
<1>7. DeletedPhotosStayDeleted'
  BY <1>1, <1>2 DEF IInv, DeletedPhotosStayDeleted
<1>8. Alone'
  BY <1>1, <1>2 DEF Alone, Busy, Quiet
<1>9. Files'
  <2> SUFFICES ASSUME faults = {} PROVE Files'
    BY <1>1 DEF Files
  <2>1. \A q \in Requests : q # r => pc'[q] \in {"idle", "done"}
    BY <1>1, <1>2 DEF Quiet, Busy
  <2>2. ~Quiet'
    BY <1>2 DEF Quiet, Busy
  <2>3. Listed = bucket /\ avatar = file
    BY <1>1 DEF IInv, Files
  <2> QED
    BY <1>1, <1>2, <2>1, <2>2, <2>3 DEF Files, WithCopy, OfAvatar
<1> QED
  BY <1>3, <1>4, <1>5, <1>6, <1>7, <1>8, <1>9 DEF IInv

-----------------------------------------------------------------------------
\* The invariant but for what the files are.
Records == TypeOK /\ Contexts /\ Names /\ Versions /\ DeletedPhotosStayDeleted /\ Alone

\* A request goes on and leaves the product alone.
GoesOn(r, label) ==
  /\ r \in Busy
  /\ pc' = [pc EXCEPT ![r] = label]
  /\ UNCHANGED <<faults, product, unlisted, doc, photos>>
  /\ bucket' \subseteq Requests
  /\ {avatar', file'} \subseteq Requests \cup {None}
  /\ label \in PC \ {"idle", "delete_product", "destroy_all", "destroy_first"}
  /\ label \in WithCopy => pc[r] \in WithCopy
  /\ label \in Saving => pc[r] \in Saving

\* Such a step keeps the records.
LEMMA GoesOnKeeps ==
  ASSUME IInv, NEW r \in Requests, NEW label, GoesOn(r, label)
  PROVE  /\ Records'
         /\ pc'[r] = label /\ \A q \in Requests : q # r => pc'[q] = pc[q]
         /\ Listed' = Listed
         /\ \A q \in Requests : Dropped(q)' = Dropped(q)
         /\ "overlap" \notin faults => \A q \in Requests : q # r => pc[q] \in {"idle", "done"}
<1>1. /\ TypeOK /\ r \in Busy
      /\ UNCHANGED <<faults, product, unlisted, doc, photos>>
      /\ pc'[r] = label /\ \A q \in Requests : q # r => pc'[q] = pc[q]
      /\ Listed' = Listed
      /\ pc[r] \notin {"idle", "done"}
  BY DEF GoesOn, IInv, TypeOK, Listed, Busy
<1>2. TypeOK'
  BY <1>1 DEF GoesOn, TypeOK
<1>3. Contexts'
  BY <1>1 DEF GoesOn, IInv, Contexts
<1>4. Names'
  BY <1>1 DEF GoesOn, IInv, Names
<1>5. Versions'
  BY <1>1 DEF GoesOn, IInv, Versions
<1>6. DeletedPhotosStayDeleted'
  BY <1>1 DEF IInv, DeletedPhotosStayDeleted
<1>7. Alone'
  BY <1>1 DEF IInv, Alone, Busy
<1>8. "overlap" \notin faults => \A q \in Requests : q # r => pc[q] \in {"idle", "done"}
  BY <1>1 DEF IInv, Alone, Busy
<1>9. \A q \in Requests : Dropped(q)' = Dropped(q)
  BY <1>1 DEF Dropped
<1> QED
  BY <1>1, <1>2, <1>3, <1>4, <1>5, <1>6, <1>7, <1>8, <1>9 DEF Records

\* The steps of the bucket.
LEMMA BucketStepKeeps ==
  ASSUME IInv, NEW r \in Requests, Upload(r) \/ Destroy(r) \/ UploadReplacement(r) \/ DestroyAll(r)
  PROVE  IInv'
<1> USE GalleryAssumption
<1> DEFINE next == IF pc[r] = "upload" THEN "push"
                   ELSE IF pc[r] = "destroy" THEN IF r \in ToSet(photos[r]) THEN "replace" ELSE "save"
                   ELSE IF pc[r] = "replace" THEN "save"
                   ELSE IF pc[r] = "destroy_first" THEN "delete_last" ELSE "done"
<1>1. /\ TypeOK /\ r \in Busy /\ pc[r] \in {"upload", "destroy", "replace", "destroy_all", "destroy_first"}
      /\ UNCHANGED <<faults, product, unlisted, avatar, file, doc, photos>>
      /\ pc' = [pc EXCEPT ![r] = next]
      /\ bucket' \subseteq bucket \cup {r}
      /\ "failure" \notin faults =>
           bucket' = IF pc[r] \in {"upload", "replace"} THEN bucket \cup {r} ELSE bucket \ Dropped(r)
  BY DEF Upload, Destroy, UploadReplacement, DestroyAll, Destroyed, Goto, portrait, memory, IInv, Busy
<1>2. next \in {"push", "replace", "save", "delete_last", "done"}
  OBVIOUS
<1>3. GoesOn(r, next)
  BY <1>1 DEF GoesOn, TypeOK, PC, WithCopy, Saving
<1>4. /\ Records' /\ pc'[r] = next /\ \A q \in Requests : q # r => pc'[q] = pc[q]
      /\ Listed' = Listed /\ \A q \in Requests : Dropped(q)' = Dropped(q)
      /\ "overlap" \notin faults => \A q \in Requests : q # r => pc[q] \in {"idle", "done"}
  <2> HIDE DEF next
  <2> QED
    BY <1>3, GoesOnKeeps
<1>5. Files'
  <2> SUFFICES ASSUME faults = {} PROVE Files'
    BY <1>1 DEF Files
  <2>1. \A q \in Requests : q # r => pc'[q] \in {"idle", "done"}
    BY <1>4
  <2>2. bucket' = IF pc[r] \in {"upload", "replace"} THEN bucket \cup {r} ELSE bucket \ Dropped(r)
    BY <1>1
  <2>3. avatar = file
    BY <1>1 DEF IInv, Files, WithCopy
  <2>4. CASE pc[r] = "upload"
    <3>1. ~Quiet' /\ pc'[r] = "push"
      BY <1>4, <2>4 DEF Quiet, Busy
    <3>2. Listed = bucket /\ product # None /\ doc[r] = product
      BY <2>4 DEF IInv, Files, WithCopy
    <3> QED
      BY <1>1, <1>4, <2>1, <2>2, <2>3, <2>4, <3>1, <3>2 DEF Files, WithCopy, OfAvatar
  <2>5. CASE pc[r] = "destroy" \/ pc[r] = "replace"
    <3>1. /\ product # None /\ doc[r] = product
          /\ ToSet(photos[r]) \subseteq ToSet(doc[r].photos) \cup {r}
          /\ Listed = ToSet(doc[r].photos) /\ r \notin Listed
      BY <2>5 DEF IInv, Files, Contexts, Names, WithCopy, Saving, Listed
    <3>2. ~Quiet'
      BY <1>4, <2>5 DEF Quiet, Busy
    <3>3. CASE pc'[r] = "replace"
      <4>1. r \in ToSet(photos[r]) /\ bucket' = Listed \ Dropped(r)
        BY <1>4, <2>2, <2>5, <3>3 DEF IInv, Files
      <4> QED
        BY <1>1, <1>4, <2>1, <2>3, <3>1, <3>2, <3>3, <4>1 DEF Files, WithCopy, OfAvatar
    <3>4. CASE pc'[r] = "save"
      <4>1. bucket' = ToSet(photos[r])
        <5>1. CASE pc[r] = "destroy"
          <6>1. r \notin ToSet(photos[r]) /\ bucket' = Listed \ Dropped(r)
            BY <1>4, <2>2, <3>4, <5>1 DEF IInv, Files
          <6> QED
            BY <3>1, <6>1 DEF Dropped
        <5>2. CASE pc[r] = "replace"
          <6>1. r \in ToSet(photos[r]) /\ bucket' = (Listed \ Dropped(r)) \cup {r}
            BY <2>2, <5>2 DEF IInv, Files
          <6> QED
            BY <3>1, <6>1 DEF Dropped
        <5> QED
          BY <2>5, <5>1, <5>2
      <4> QED
        BY <1>1, <1>4, <2>1, <2>3, <3>1, <3>2, <3>4, <4>1 DEF Files, WithCopy, OfAvatar
    <3> QED
      BY <1>4, <2>5, <3>3, <3>4
  <2>6. CASE pc[r] = "destroy_first"
    <3>1. ~Quiet' /\ pc'[r] = "delete_last"
      BY <1>4, <2>6 DEF Quiet, Busy
    <3>2. product # None /\ doc[r] = product /\ Listed = bucket /\ photos[r] = <<>>
      BY <2>6 DEF IInv, Files, Contexts, WithCopy
    <3>3. bucket' = {}
      BY <2>2, <2>6, <3>2 DEF Dropped, Listed, ToSet
    <3> QED
      BY <1>1, <1>4, <2>1, <2>3, <3>1, <3>2, <3>3 DEF Files, WithCopy, OfAvatar
  <2>7. CASE pc[r] = "destroy_all"
    <3>1. pc'[r] = "done"
      BY <1>4, <2>7
    <3>2. product = None /\ bucket = ToSet(doc[r].photos) /\ photos[r] = <<>>
      BY <2>7 DEF IInv, Files, Contexts
    <3>3. bucket' = {} /\ Listed = {}
      BY <2>2, <2>7, <3>2 DEF Dropped, Listed, ToSet
    <3> QED
      BY <1>1, <1>4, <2>1, <2>3, <3>1, <3>3 DEF Files, WithCopy, OfAvatar
  <2> QED
    BY <1>1, <2>4, <2>5, <2>6, <2>7
<1> QED
  BY <1>4, <1>5 DEF IInv, Records

-----------------------------------------------------------------------------
\* The product changes: a request at its last step writes it.
LEMMA PushKeeps == ASSUME IInv, NEW r \in Requests, Push(r) PROVE IInv'
<1> USE GalleryAssumption
<1>1. /\ TypeOK /\ pc[r] = "push" /\ r \in Busy
      /\ UNCHANGED <<faults, bucket, unlisted, avatar, file, doc, photos>>
      /\ pc' = [pc EXCEPT ![r] = "done"]
      /\ pc'[r] = "done" /\ \A q \in Requests : q # r => pc'[q] = pc[q]
  BY DEF Push, Goto, portrait, memory, IInv, TypeOK, Busy
<1>2. "overlap" \notin faults => \A q \in Requests : q # r => pc[q] \in {"idle", "done"}
  BY <1>1 DEF IInv, Alone, Busy
<1>3. CASE product = None
  <2>1. product' = None
    BY <1>3 DEF Push
  <2>2. GoesOn(r, "done")
    BY <1>1, <1>3, <2>1 DEF GoesOn, TypeOK, PC, WithCopy, Saving
  <2>3. Records'
    BY <2>2, GoesOnKeeps
  <2>4. Files'
    BY <1>1, <1>3 DEF Files, IInv, WithCopy
  <2> QED
    BY <2>3, <2>4 DEF IInv, Records
<1>4. CASE product # None
  <2>1. /\ product.v \in Nat /\ product.photos \in Seq(Requests) /\ IsInjective(product.photos)
        /\ Listed = ToSet(product.photos) /\ Listed \cap unlisted = {}
    BY <1>1, <1>4 DEF IInv, TypeOK, DeletedPhotosStayDeleted, Listed
  <2>2. r \notin Listed \cup unlisted
    BY <1>1 DEF IInv, Names
  <2>3. PICK more : more = Append(product.photos, r)
    OBVIOUS
  <2>4. more \in Seq(Requests) /\ IsInjective(more) /\ ToSet(more) = Listed \cup {r}
    BY <2>1, <2>2, <2>3, AppendKeeps
  <2>5. product' = [v |-> product.v + 1, photos |-> more]
    BY <1>4, <2>3 DEF Push, Pushed
  <2>6. product'.v = product.v + 1 /\ product'.photos = more
    BY <2>5
  <2>7. Listed' = (IF product' = None THEN {} ELSE Listed \cup {r})
    BY <2>4, <2>6 DEF Listed
  <2>8. TypeOK'
    BY <1>1, <2>1, <2>4, <2>6 DEF TypeOK, PC
  <2>9. Contexts'
    BY <1>1 DEF IInv, Contexts, WithCopy, Saving
  <2>10. Names'
    BY <1>1, <2>7 DEF IInv, Names, WithCopy
  <2>11. Versions'
    <3> SUFFICES ASSUME NEW q \in Requests, pc'[q] \in Saving
                 PROVE  doc[q].v <= product.v + 1 /\ doc[q].v # product.v + 1
      BY <1>1, <2>6 DEF Versions
    <3>1. doc[q].v \in Nat /\ doc[q].v <= product.v
      BY <1>1, <1>4 DEF IInv, Contexts, Versions, WithCopy, Saving
    <3> QED
      BY <2>1, <3>1
  <2>12. DeletedPhotosStayDeleted'
    BY <1>1, <2>1, <2>2, <2>4, <2>6, <2>7 DEF DeletedPhotosStayDeleted
  <2>13. Alone'
    BY <1>1 DEF IInv, Alone, Busy
  <2>14. Files'
    <3> SUFFICES ASSUME faults = {} PROVE Files'
      BY <1>1 DEF Files
    <3>1. bucket = Listed \cup {r} /\ avatar = file
      BY <1>1 DEF IInv, Files, WithCopy
    <3>2. product' # None
      BY <2>1, <2>4, <2>5
    <3> QED
      BY <1>1, <1>2, <2>7, <3>1, <3>2 DEF Files, WithCopy, OfAvatar
  <2> QED
    BY <2>8, <2>9, <2>10, <2>11, <2>12, <2>13, <2>14 DEF IInv
<1> QED
  BY <1>3, <1>4

LEMMA SaveKeeps == ASSUME IInv, NEW r \in Requests, Save(r) PROVE IInv'
<1> USE GalleryAssumption
<1>1. /\ TypeOK /\ pc[r] = "save" /\ r \in Busy
      /\ UNCHANGED <<faults, bucket, avatar, file, doc, photos>>
      /\ pc' = [pc EXCEPT ![r] = "done"]
      /\ pc'[r] = "done" /\ \A q \in Requests : q # r => pc'[q] = pc[q]
  BY DEF Save, Goto, portrait, memory, IInv, TypeOK, Busy
<1>2. "overlap" \notin faults => \A q \in Requests : q # r => pc[q] \in {"idle", "done"}
  BY <1>1 DEF IInv, Alone, Busy
<1>3. CASE ~Current(r)
  <2>1. UNCHANGED <<product, unlisted>>
    BY <1>3 DEF Save
  <2>2. GoesOn(r, "done")
    BY <1>1, <2>1 DEF GoesOn, TypeOK, PC, WithCopy, Saving
  <2>3. Records'
    BY <2>2, GoesOnKeeps
  <2>4. Files'
    BY <1>1, <1>3 DEF Files, IInv, WithCopy, Current
  <2> QED
    BY <2>3, <2>4 DEF IInv, Records
<1>4. CASE Current(r)
  <2>1. /\ product # None /\ product.v \in Nat /\ photos[r] \in Seq(Requests)
        /\ product.photos = doc[r].photos /\ Listed = ToSet(product.photos)
        /\ Listed \cap unlisted = {}
        /\ ToSet(photos[r]) \subseteq Listed \cup {r} /\ IsInjective(photos[r])
    BY <1>1, <1>4 DEF Current, IInv, TypeOK, Contexts, Versions, DeletedPhotosStayDeleted, Listed, Saving
  <2>2. r \notin Listed \cup unlisted
    BY <1>1 DEF IInv, Names
  <2>3. /\ product' = [v |-> product.v + 1, photos |-> photos[r]]
        /\ product' # None
        /\ product'.v = product.v + 1 /\ product'.photos = photos[r]
        /\ unlisted' = unlisted \cup (Listed \ ToSet(photos[r]))
    BY <1>4, <2>1 DEF Save, Dropped
  <2>4. Listed' = ToSet(photos[r])
    BY <2>3 DEF Listed
  <2>5. Listed \subseteq Requests
    BY NamesAreRequests
  <2>6. TypeOK'
    <3>1. unlisted' \subseteq Requests
      BY <1>1, <2>3, <2>5 DEF TypeOK
    <3>2. product'.v \in Nat
      BY <2>1, <2>3
    <3>3. product'.photos \in Seq(Requests)
      BY <2>1, <2>3
    <3> QED
      BY <1>1, <3>1, <3>2, <3>3 DEF TypeOK, PC
  <2>7. Contexts'
    BY <1>1 DEF IInv, Contexts, WithCopy, Saving
  <2>8. Names'
    BY <1>1, <2>1, <2>3, <2>4 DEF IInv, Names, WithCopy
  <2>9. Versions'
    <3> SUFFICES ASSUME NEW q \in Requests, pc'[q] \in Saving
                 PROVE  doc[q].v <= product.v + 1 /\ doc[q].v # product.v + 1
      BY <1>1, <2>3 DEF Versions
    <3>1. doc[q].v \in Nat /\ doc[q].v <= product.v
      BY <1>1, <2>1 DEF IInv, Contexts, Versions, WithCopy, Saving
    <3> QED
      BY <2>1, <3>1
  <2>10. DeletedPhotosStayDeleted'
    BY <2>1, <2>2, <2>3, <2>4 DEF DeletedPhotosStayDeleted
  <2>11. Alone'
    BY <1>1 DEF IInv, Alone, Busy
  <2>12. Files'
    <3> SUFFICES ASSUME faults = {} PROVE Files'
      BY <1>1 DEF Files
    <3>1. bucket = ToSet(photos[r]) /\ avatar = file
      BY <1>1 DEF IInv, Files, WithCopy
    <3> QED
      BY <1>1, <1>2, <2>4, <3>1 DEF Files, WithCopy, OfAvatar
  <2> QED
    BY <2>6, <2>7, <2>8, <2>9, <2>10, <2>11, <2>12 DEF IInv
<1> QED
  BY <1>3, <1>4

LEMMA DeleteProductKeeps == ASSUME IInv, NEW r \in Requests, DeleteProduct(r) PROVE IInv'
<1> USE GalleryAssumption
<1>1. /\ TypeOK /\ pc[r] \in {"delete_product", "delete_last"} /\ r \in Busy
      /\ product' = None
      /\ UNCHANGED <<faults, bucket, unlisted, avatar, file, doc, photos>>
      /\ pc'[r] \in {"done", "destroy_all"} /\ \A q \in Requests : q # r => pc'[q] = pc[q]
      /\ pc' = [pc EXCEPT ![r] = pc'[r]] /\ pc' \in [Requests -> PC]
      /\ pc'[r] = IF pc[r] = "delete_product" /\ product # None THEN "destroy_all" ELSE "done"
      /\ Listed' = {}
  BY DEF DeleteProduct, Goto, portrait, memory, IInv, TypeOK, Busy, PC, Listed
<1>2. "overlap" \notin faults => \A q \in Requests : q # r => pc[q] \in {"idle", "done"}
  BY <1>1 DEF IInv, Alone, Busy
<1>3. TypeOK'
  BY <1>1 DEF TypeOK
<1>4. Contexts'
  BY <1>1 DEF IInv, Contexts, WithCopy, Saving
<1>5. Names'
  <2>1. \A q \in Requests : pc[q] = "done" => pc'[q] = "done"
    BY <1>1
  <2> QED
    BY <1>1, <2>1, NamesAreRequests DEF IInv, Names, WithCopy
<1>6. Versions' /\ DeletedPhotosStayDeleted'
  BY <1>1 DEF Versions, DeletedPhotosStayDeleted
<1>7. Alone'
  BY <1>1 DEF IInv, Alone, Busy
<1>8. Files'
  <2> SUFFICES ASSUME faults = {} PROVE Files'
    BY <1>1 DEF Files
  <2>1. avatar = file /\ product # None /\ doc[r] = product
    BY <1>1 DEF IInv, Files, WithCopy
  <2>2. CASE pc[r] = "delete_product"
    <3>1. bucket = ToSet(doc[r].photos)
      BY <2>1, <2>2 DEF IInv, Files, Listed
    <3>2. pc'[r] = "destroy_all" /\ ~Quiet'
      BY <1>1, <2>1, <2>2 DEF Quiet, Busy
    <3> QED
      BY <1>1, <1>2, <2>1, <3>1, <3>2 DEF Files, WithCopy, OfAvatar
  <2>3. CASE pc[r] = "delete_last"
    <3>1. bucket = {} /\ pc'[r] = "done"
      BY <1>1, <2>3 DEF IInv, Files
    <3> QED
      BY <1>1, <1>2, <2>1, <3>1 DEF Files, WithCopy, OfAvatar
  <2> QED
    BY <1>1, <2>2, <2>3
<1> QED
  BY <1>3, <1>4, <1>5, <1>6, <1>7, <1>8 DEF IInv

-----------------------------------------------------------------------------
\* The avatar, whose requests leave the product alone, and a request that fails.
LEMMA BeginAvatarKeeps ==
  ASSUME IInv, NEW r \in Requests, BeginAvatar(r) \/ BeginDeleteAvatar(r) PROVE IInv'
<1> USE GalleryAssumption
<1>1. /\ TypeOK /\ pc[r] = "idle"
      /\ UNCHANGED <<faults, product, bucket, unlisted, avatar, file>>
      /\ pc' = [pc EXCEPT ![r] = pc'[r]] /\ pc' \in [Requests -> PC]
      /\ pc'[r] \in {"upload_avatar", "destroy_avatar", "unset_avatar", "destroy_last"}
      /\ pc'[r] = "unset_avatar" => avatar = None
      /\ photos' = [photos EXCEPT ![r] = <<>>] /\ photos' \in [Requests -> Seq(Requests)]
      /\ doc' = [doc EXCEPT ![r] = avatar] /\ doc = [q \in Requests |-> doc[q]]
      /\ \A q \in Requests : q # r => pc'[q] = pc[q]
      /\ "overlap" \notin faults => Quiet
  <2>1. PICK label \in {"upload_avatar", "destroy_avatar", "unset_avatar", "destroy_last"} :
          Begin(r, avatar, <<>>, label) /\ (label = "unset_avatar" => avatar = None)
    <3> USE DEF BeginAvatar, BeginDeleteAvatar
    <3>1. CASE BeginAvatar(r) /\ avatar = None
      BY <3>1
    <3>2. CASE BeginAvatar(r) /\ avatar # None
      BY <3>2
    <3>3. CASE BeginDeleteAvatar(r) /\ avatar = None
      BY <3>3
    <3>4. CASE BeginDeleteAvatar(r) /\ avatar # None
      BY <3>4
    <3> QED
      BY <3>1, <3>2, <3>3, <3>4
  <2>2. /\ TypeOK /\ pc \in [Requests -> PC] /\ photos \in [Requests -> Seq(Requests)]
        /\ doc = [q \in Requests |-> doc[q]] /\ label \in PC
    BY DEF IInv, TypeOK, Contexts, PC
  <2>3. /\ pc[r] = "idle" /\ UNCHANGED <<faults, product, bucket, unlisted, avatar, file>>
        /\ pc' = [pc EXCEPT ![r] = label] /\ doc' = [doc EXCEPT ![r] = avatar]
        /\ photos' = [photos EXCEPT ![r] = <<>>] /\ ("overlap" \notin faults => Quiet)
    BY <2>1 DEF Begin, Idle, Goto, gallery, portrait
  <2>4. <<>> \in Seq(Requests)
    OBVIOUS
  <2> QED
    BY <2>1, <2>2, <2>3, <2>4
<1>2. /\ \A q \in Requests : q # r => photos'[q] = photos[q] /\ doc'[q] = doc[q]
      /\ doc' = [q \in Requests |-> doc'[q]] /\ Listed' = Listed
  BY <1>1 DEF TypeOK, Listed
<1>3. TypeOK'
  BY <1>1 DEF TypeOK
<1>4. Contexts'
  BY <1>1, <1>2 DEF IInv, Contexts, WithCopy, Saving
<1>5. Names'
  <2>1. \A q \in Requests : pc[q] = "done" => pc'[q] = "done"
    BY <1>1
  <2> QED
    BY <1>1, <1>2, <2>1, NamesAreRequests DEF IInv, Names, WithCopy
<1>6. Versions' /\ DeletedPhotosStayDeleted'
  BY <1>1, <1>2 DEF IInv, Versions, DeletedPhotosStayDeleted, Saving
<1>7. Alone'
  BY <1>1, <1>2 DEF Alone, Busy, Quiet
<1>8. Files'
  <2> SUFFICES ASSUME faults = {} PROVE Files'
    BY <1>1 DEF Files
  <2>1. \A q \in Requests : q # r => pc'[q] \in {"idle", "done"}
    BY <1>1 DEF Quiet, Busy
  <2>2. ~Quiet'
    BY <1>1 DEF Quiet, Busy
  <2>3. Listed = bucket /\ avatar = file
    BY <1>1 DEF IInv, Files
  <2> QED
    BY <1>1, <1>2, <2>1, <2>2, <2>3 DEF Files, WithCopy, OfAvatar
<1> QED
  BY <1>3, <1>4, <1>5, <1>6, <1>7, <1>8 DEF IInv

LEMMA AvatarStepKeeps == ASSUME IInv, NEW r \in Requests, AvatarStep(r) PROVE IInv'
<1> USE GalleryAssumption
<1> DEFINE next == IF pc[r] = "destroy_avatar" THEN "upload_avatar"
                   ELSE IF pc[r] = "destroy_last" THEN "unset_avatar"
                   ELSE IF pc[r] = "upload_avatar" THEN "save_avatar" ELSE "done"
<1>1. /\ TypeOK /\ r \in Busy /\ pc[r] \in OfAvatar
      /\ UNCHANGED <<faults, product, bucket, unlisted, doc, photos>>
      /\ pc' = [pc EXCEPT ![r] = next]
      /\ {avatar', file'} \subseteq Requests \cup {None}
  BY DEF AvatarStep, DestroyAvatar, UploadAvatar, WriteAvatar, NewAvatar, FileDestroyed, Goto,
         gallery, memory, IInv, Busy, TypeOK, OfAvatar
<1>2. /\ pc[r] = "upload_avatar" => file' = r
      /\ pc[r] \in {"save_avatar", "unset_avatar"} => avatar' = NewAvatar(r) /\ file' = file
      /\ faults = {} /\ pc[r] \in {"destroy_avatar", "destroy_last"} => file' = None
  BY DEF AvatarStep, DestroyAvatar, UploadAvatar, WriteAvatar, FileDestroyed
<1>3. next \in {"upload_avatar", "unset_avatar", "save_avatar", "done"}
  OBVIOUS
<1>4. GoesOn(r, next)
  BY <1>1, <1>3 DEF GoesOn, TypeOK, PC, WithCopy, Saving
<1>5. /\ Records' /\ pc'[r] = next /\ \A q \in Requests : q # r => pc'[q] = pc[q]
      /\ Listed' = Listed /\ \A q \in Requests : Dropped(q)' = Dropped(q)
      /\ "overlap" \notin faults => \A q \in Requests : q # r => pc[q] \in {"idle", "done"}
  <2> HIDE DEF next
  <2> QED
    BY <1>4, GoesOnKeeps
<1>6. Files'
  <2> SUFFICES ASSUME faults = {} PROVE Files'
    BY <1>1 DEF Files
  <2>1. \A q \in Requests : q # r => pc'[q] \in {"idle", "done"}
    BY <1>5
  <2>2. Listed = bucket
    BY <1>1 DEF IInv, Files
  <2>3. CASE pc[r] \in {"destroy_avatar", "destroy_last", "upload_avatar"}
    <3>1. ~Quiet'
      BY <1>5, <2>3 DEF Quiet, Busy
    <3> QED
      BY <1>1, <1>2, <1>5, <2>1, <2>2, <2>3, <3>1 DEF Files, WithCopy, OfAvatar
  <2>4. CASE pc[r] \in {"save_avatar", "unset_avatar"}
    <3>1. avatar' = file'
      BY <1>2, <2>4 DEF IInv, Files, NewAvatar
    <3> QED
      BY <1>1, <1>5, <2>1, <2>2, <2>4, <3>1 DEF Files, WithCopy, OfAvatar
  <2> QED
    BY <1>1, <2>3, <2>4 DEF OfAvatar
<1> QED
  BY <1>5, <1>6 DEF IInv, Records

LEMMA RequestFailsKeeps == ASSUME IInv, NEW r \in Requests, RequestFails(r) PROVE IInv'
<1>1. GoesOn(r, "done") /\ "failure" \in faults /\ UNCHANGED faults
  BY DEF RequestFails, GoesOn, Goto, gallery, portrait, memory, IInv, TypeOK, PC, WithCopy, Saving
<1>2. Records'
  BY <1>1, GoesOnKeeps
<1>3. Files'
  BY <1>1 DEF Files
<1> QED
  BY <1>2, <1>3 DEF IInv, Records

-----------------------------------------------------------------------------
\* The requests on photos that begin: what they will save is made of the photos they
\* loaded and their own, each once.
LEMMA BeginsKeep ==
  ASSUME IInv, NEW r \in Requests,
         \/ BeginAdd(r) \/ BeginRemove(r)
         \/ \E i \in Positions : BeginReplace(r, i) \/ BeginDelete(r, i)
         \/ \E order \in Orders : BeginReorder(r, order)
  PROVE  IInv'
<1> USE GalleryAssumption
<1>1. product # None
  BY DEF BeginAdd, BeginRemove, BeginReplace, BeginDelete, BeginReorder
<1>2. /\ product.photos \in Seq(Requests) /\ IsInjective(product.photos) /\ pc[r] = "idle"
      /\ <<>> \in Seq(Requests)
  <2>1. pc[r] = "idle"
    BY DEF BeginAdd, BeginRemove, BeginReplace, BeginDelete, BeginReorder, Begin, Idle
  <2> QED
    BY <1>1, <2>1 DEF IInv, TypeOK, DeletedPhotosStayDeleted
<1>3. r \notin ToSet(product.photos)
  BY <1>1, <1>2 DEF IInv, Names, Listed
<1>4. CASE BeginAdd(r)
  <2>1. Begin(r, product, <<>>, "upload")
    BY <1>4 DEF BeginAdd
  <2> QED
    BY <1>1, <1>2, <2>1, BeginKeeps DEF Saving
<1>5. CASE BeginRemove(r)
  <2>1. PICK first \in {"delete_product", "destroy_first"} : Begin(r, product, <<>>, first)
    BY <1>5 DEF BeginRemove
  <2> QED
    BY <1>1, <1>2, <2>1, BeginKeeps DEF Saving
<1>6. ASSUME NEW i \in Positions, BeginReplace(r, i) PROVE IInv'
  <2>1. PICK seq : seq = [product.photos EXCEPT ![i] = r]
    OBVIOUS
  <2>2. i \in DOMAIN product.photos /\ Begin(r, product, seq, "destroy")
    BY <1>6, <2>1 DEF BeginReplace
  <2>3. seq \in Seq(Requests) /\ IsInjective(seq) /\ ToSet(seq) \subseteq ToSet(product.photos) \cup {r}
    BY <1>2, <1>3, <2>1, <2>2, ReplacementKeeps
  <2> QED
    BY <1>1, <2>2, <2>3, BeginKeeps
<1>7. ASSUME NEW i \in Positions, BeginDelete(r, i) PROVE IInv'
  <2>1. PICK seq : seq = RemoveAt(product.photos, i)
    OBVIOUS
  <2>2. i \in DOMAIN product.photos /\ Begin(r, product, seq, "destroy")
    BY <1>7, <2>1 DEF BeginDelete
  <2>3. seq \in Seq(Requests) /\ IsInjective(seq) /\ ToSet(seq) \subseteq ToSet(product.photos)
    BY <1>2, <2>1, <2>2, Removal, RemovalKeeps
  <2> QED
    BY <1>1, <2>2, <2>3, BeginKeeps
<1>8. ASSUME NEW order \in Orders, BeginReorder(r, order) PROVE IInv'
  <2>1. PICK seq : seq = [i \in DOMAIN order |-> product.photos[order[i]]]
    OBVIOUS
  <2>2. Begin(r, product, seq, "save")
    BY <1>8, <2>1 DEF BeginReorder
  <2>3. order \in Bijection(DOMAIN product.photos, DOMAIN product.photos)
    BY DEF Orders
  <2>4. seq \in Seq(Requests) /\ IsInjective(seq) /\ ToSet(seq) = ToSet(product.photos)
    BY <1>2, <2>1, <2>3, ReorderingKeeps
  <2> QED
    BY <1>1, <2>2, <2>4, BeginKeeps
<1> QED
  BY <1>4, <1>5, <1>6, <1>7, <1>8

-----------------------------------------------------------------------------
\* The invariant holds at first.
THEOREM InitIInv == Init => IInv
<1> SUFFICES ASSUME Init PROVE IInv
  OBVIOUS
<1> USE GalleryAssumption DEF Init
<1>1. /\ product.v = 0 /\ product.photos = <<>> /\ <<>> \in Seq(Requests)
      /\ product \in [v: Nat, photos: Seq(Requests)]
  OBVIOUS
<1>2. product # None /\ DOMAIN product.photos = {}
  <2>1. DOMAIN product.photos = {}
    BY <1>1
  <2>2. None \notin [v: Nat, photos: Seq(Requests)]
    OBVIOUS
  <2> QED
    BY <1>1, <2>1, <2>2, Zenon
<1>3. Listed = {}
  BY <1>2 DEF Listed, ToSet
<1>4. Quiet
  BY DEF Quiet, Busy
<1>5. TypeOK
  BY <1>1, <1>2 DEF TypeOK, PC
<1>6. Contexts /\ Names /\ Versions /\ Alone
  BY <1>3, <1>4 DEF Contexts, Names, Versions, Alone, Quiet, WithCopy, Saving
<1>7. DeletedPhotosStayDeleted
  BY <1>2, <1>3 DEF DeletedPhotosStayDeleted, IsInjective
<1>8. Files
  BY <1>3 DEF Files, WithCopy, OfAvatar
<1> QED
  BY <1>5, <1>6, <1>7, <1>8 DEF IInv

\* Every step keeps the invariant.
THEOREM NextIInv == IInv /\ [Next]_vars => IInv'
<1> SUFFICES ASSUME IInv, [Next]_vars PROVE IInv'
  OBVIOUS
<1>1. ASSUME NEW r \in Requests, BeginAdd(r) \/ BeginRemove(r) PROVE IInv'
  BY <1>1, BeginsKeep
<1>2. ASSUME NEW r \in Requests, NEW i \in Positions, BeginReplace(r, i) \/ BeginDelete(r, i) PROVE IInv'
  BY <1>2, BeginsKeep
<1>3. ASSUME NEW r \in Requests, NEW order \in Orders, BeginReorder(r, order) PROVE IInv'
  BY <1>3, BeginsKeep
<1>4. ASSUME NEW r \in Requests, GalleryStep(r) PROVE IInv'
  BY <1>4, BucketStepKeeps, PushKeeps, SaveKeeps, DeleteProductKeeps DEF GalleryStep
<1>5. ASSUME NEW r \in Requests, BeginAvatar(r) \/ BeginDeleteAvatar(r) PROVE IInv'
  BY <1>5, BeginAvatarKeeps
<1>6. CASE UNCHANGED vars
  BY <1>6 DEF vars, IInv, TypeOK, Contexts, Names, Versions, DeletedPhotosStayDeleted, Alone, Files,
             Listed, Quiet, Busy, Dropped
<1> QED
  BY <1>1, <1>2, <1>3, <1>4, <1>5, <1>6, AvatarStepKeeps, RequestFailsKeeps DEF Next

\* The invariant always holds.
THEOREM SpecIInv == Spec => []IInv
BY InitIInv, NextIInv, PTL DEF Spec

\* The variables have the types of the schemas.
THEOREM TypeCorrect == Spec => []TypeOK
<1>1. IInv => TypeOK
  BY DEF IInv
<1> QED
  BY <1>1, SpecIInv, PTL

\* A photo that was deleted or replaced is never listed again, and none is listed twice,
\* however many requests overlap or fail: a save of the whole array asks for the version
\* it loaded, and a push adds only its own photo.
THEOREM DeletedPhotosStayDeletedAlways == Spec => []DeletedPhotosStayDeleted
<1>1. IInv => DeletedPhotosStayDeleted
  BY DEF IInv
<1> QED
  BY <1>1, SpecIInv, PTL

\* When requests neither overlapped nor failed and none is in flight, the files are
\* those of the listed photos and of the avatar.
THEOREM PhotosAreTheFilesAlways == Spec => []PhotosAreTheFiles
<1>1. IInv => PhotosAreTheFiles
  BY DEF IInv, Files, PhotosAreTheFiles
<1> QED
  BY <1>1, SpecIInv, PTL
=============================================================================
