---------------------------- MODULE StoresProofs ----------------------------
(***************************************************************************)
(* The properties of Stores, for any number of providers, phones, requests *)
(* and events in flight and any budget.                                    *)
(***************************************************************************)
EXTENDS Stores, SequenceTheorems, TLAPS

\* What remains of a sequence when one element is taken out.
LEMMA Removal ==
  ASSUME NEW T, NEW es \in Seq(T), NEW i \in DOMAIN es
  PROVE  /\ RemoveAt(es, i) \in Seq(T)
         /\ Len(RemoveAt(es, i)) = Len(es) - 1
         /\ \A j \in 1 .. Len(es) - 1 : RemoveAt(es, i)[j] = es[IF j < i THEN j ELSE j + 1]
<1> DEFINE before == SubSeq(es, 1, i - 1)
           after == SubSeq(es, i + 1, Len(es))
<1>1. i \in 1 .. Len(es) /\ Len(es) \in Nat /\ \A j \in 1 .. Len(es) : es[j] \in T
  OBVIOUS
<1>2. /\ before \in Seq(T) /\ Len(before) = i - 1
      /\ \A j \in 1 .. i - 1 : before[j] = es[j]
  <2>1. \A j \in 1 .. i - 1 : es[j] \in T
    BY <1>1
  <2> QED
    BY <1>1, <2>1, SubSeqProperties
<1>3. /\ after \in Seq(T) /\ Len(after) = Len(es) - i
      /\ \A j \in 1 .. Len(es) - i : after[j] = es[i + j]
  <2>1. \A j \in i + 1 .. Len(es) : es[j] \in T
    BY <1>1
  <2> QED
    BY <1>1, <2>1, SubSeqProperties
<1>4. RemoveAt(es, i) = before \o after
  BY DEF RemoveAt
<1> HIDE DEF before, after
<1>5. /\ before \o after \in Seq(T) /\ Len(before \o after) = Len(before) + Len(after)
      /\ \A j \in 1 .. Len(before) + Len(after) :
           (before \o after)[j] = IF j <= Len(before) THEN before[j] ELSE after[j - Len(before)]
  <2>1. before \in Seq(T) /\ after \in Seq(T)
    BY <1>2, <1>3
  <2> QED
    BY <2>1, ConcatProperties, Zenon
<1>6. ASSUME NEW j \in 1 .. Len(es) - 1 PROVE RemoveAt(es, i)[j] = es[IF j < i THEN j ELSE j + 1]
  <2>1. CASE j < i
    BY <1>1, <1>2, <1>3, <1>4, <1>5, <2>1
  <2>2. CASE j >= i
    <3>1. j \in 1 .. Len(before) + Len(after) /\ ~(j <= Len(before))
      BY <1>1, <1>2, <1>3, <2>2
    <3>2. j - Len(before) \in 1 .. Len(es) - i /\ i + (j - Len(before)) = j + 1
      BY <1>1, <1>2, <1>3, <2>2
    <3> QED
      BY <1>1, <1>3, <1>4, <1>5, <2>2, <3>1, <3>2
  <2> QED
    BY <1>1, <2>1, <2>2
<1> QED
  BY <1>1, <1>2, <1>3, <1>4, <1>5, <1>6

-----------------------------------------------------------------------------

Busy(r) == pc[r] \notin {"idle", "done"}

\* Requests that made a Stripe account and are past saving it.
Settled == {a \in Requests : pc[a] \in {"create_link", "done"}}

\* An event of the account is in flight.
Pending(a) == \E i \in DOMAIN events : events[i].account = a

\* No later event in flight is of the same account.
Newest(i) == \A j \in DOMAIN events : j > i => events[j].account # events[i].account

\* Some request is about to write the copy of the store.
Saving(s) == \E r \in Requests : pc[r] = "save_connect" /\ target[r] = s

-----------------------------------------------------------------------------
\* What a request holds at each of its awaits.
Contexts ==
  \A r \in Requests :
    /\ Busy(r) => target[r] \in Requests
    /\ pc[r] = "insert_store" => target[r] = r /\ doc[r] \in [owner: Providers, phone: Phones]
    /\ pc[r] \in {"store_code", "send_code"} => doc[r].phone \in Phones
    /\ pc[r] = "save_phone" => want[r] \in Phones
    /\ pc[r] \in {"mark_validated", "save_schedule", "save_pricing"} => doc[r] \in StoreDoc
    /\ pc[r] = "mark_validated" => doc[r].code # None
    /\ pc[r] = "save_pricing" => doc[r].delivery # None
    /\ pc[r] \in {"create_account", "save_account"} => want[r] = [account |-> r, level |-> "created"]
    /\ pc[r] \in {"create_link", "retrieve", "save_connect"} => want[r] \in Connect

\* A store or an account bears the name of a request that has made it, and is only
\* mentioned after that.
Names ==
  /\ \A s \in Stores : pc[s] \notin {"idle", "insert_store"}
  /\ \A r \in Requests : target[r] \in Requests =>
       pc[r] # "idle" /\ (target[r] # r => pc[target[r]] \notin {"idle", "insert_store"})
  /\ \A a \in Requests : level[a] # None => pc[a] \in {"save_account", "create_link", "done"}
  /\ \A s \in Stores : store[s].connect # None => AccountOf(s) \in Settled
  /\ \A r \in Requests : pc[r] \in {"create_link", "retrieve", "save_connect"} => want[r].account \in Settled
  /\ linked \subseteq Settled
  /\ \A i \in DOMAIN events : events[i].account \in linked

\* An account stays as it was created until the provider is given its form.
Forms == \A a \in Requests : level[a] # None /\ a \notin linked => level[a] = "created"

\* Only the store an account was made for has it.
Belongs ==
  /\ \A s \in Stores : store[s].connect # None => target[AccountOf(s)] = s
  /\ \A r \in Requests :
       pc[r] \in {"create_link", "retrieve", "save_connect"} => target[want[r].account] = target[r]

\* A pair of an account and a level is one that Stripe has declared, wherever it is.
Evidence ==
  /\ PayoutAccountWasReady
  /\ \A a \in Requests : level[a] # None \/ reached[a] # {} => level[a] \in reached[a]
  /\ \A i \in DOMAIN events : events[i].level \in reached[events[i].account]
  /\ \A r \in Requests : pc[r] \in {"save_account", "create_link", "retrieve", "save_connect"}
       => want[r].level \in reached[want[r].account]

\* One request at a time, if requests do not overlap.
Alone == "overlap" \notin faults => \A q, r \in Requests : Busy(q) /\ Busy(r) => q = r

\* ... so that a loaded delivery is the present one.
Halves ==
  "overlap" \notin faults => \A r \in Requests :
    pc[r] \in {"save_schedule", "save_pricing"} /\ target[r] \in Stores
      => store[target[r]].delivery = doc[r].delivery

\* ... and, if requests do not fail either, a store with an account gets no other.
Accounts ==
  faults \cap {"overlap", "failure"} = {} =>
    /\ \A a, b \in Requests : level[a] # None /\ level[b] # None /\ target[a] = target[b] => a = b
    /\ \A a \in Requests : level[a] # None /\ target[a] \in Stores /\ pc[a] # "save_account"
         => store[target[a]].connect # None
    /\ \A r, a \in Requests : pc[r] = "create_account" /\ level[a] # None => target[a] # target[r]

\* Without faults, the last word on an account is in its newest event, else in the
\* request that is about to write the copy, else in the copy.
Words ==
  faults = {} =>
    /\ \A i \in DOMAIN events : Newest(i) => events[i].level = level[events[i].account]
    /\ \A r \in Requests : pc[r] \in {"retrieve", "save_connect"} /\ target[r] \in Stores =>
         /\ store[target[r]].connect # None
         /\ doc[r].connect = store[target[r]].connect
         /\ want[r].account = AccountOf(target[r])
    /\ \A r \in Requests : pc[r] = "save_connect" /\ ~Pending(want[r].account)
         => target[r] \notin Stores \/ want[r].level = level[want[r].account]
    /\ \A s \in Stores : store[s].connect # None /\ ~Saving(s) /\ ~Pending(AccountOf(s))
         => store[s].connect.level = level[AccountOf(s)]

IInv ==
  /\ TypeOK /\ Contexts /\ OwnersAndPhonesAreUnique /\ Names /\ Forms /\ Belongs /\ Evidence
  /\ Alone /\ Halves /\ Accounts /\ Words
-----------------------------------------------------------------------------
\* What a request that begins may hold.
Fits(r, s, d, w, label) ==
  /\ label \in PC \ {"idle", "done", "send_code", "save_account", "save_connect"}
  /\ IF label = "insert_store" THEN s = r /\ d \in [owner: Providers, phone: Phones]
     ELSE s \in Stores /\ d = store[s]
  /\ label = "save_phone" => w \in Phones
  /\ label = "mark_validated" => d.code # None
  /\ label = "save_pricing" => d.delivery # None
  /\ label = "create_account" => d.connect = None /\ w = [account |-> r, level |-> "created"]
  /\ label \in {"create_link", "retrieve"} => w # None /\ w = d.connect

\* A request that begins with what it may hold keeps the invariant.
LEMMA BeginKeeps ==
  ASSUME IInv, UNCHANGED stripe,
         NEW r \in Requests, NEW s \in Requests, NEW label,
         NEW d \in StoreDoc \cup [owner: Providers, phone: Phones],
         NEW w \in Phones \cup Connect \cup {None},
         Fits(r, s, d, w, label), Begin(r, s, d, w, label)
  PROVE  IInv'
<1> USE StoresAssumption
<1>1. /\ pc[r] = "idle"
      /\ pc' = [pc EXCEPT ![r] = label]
      /\ target' = [target EXCEPT ![r] = s]
      /\ doc' = [doc EXCEPT ![r] = d]
      /\ want' = [want EXCEPT ![r] = w]
      /\ UNCHANGED <<faults, store, sent, level, reached, linked, events>>
      /\ "overlap" \notin faults => \A q \in Requests : ~Busy(q)
      /\ label \in PC \ {"idle", "done", "send_code", "save_account", "save_connect"}
  BY DEF Begin, Idle, Goto, stripe, Fits, Quiet, InFlight, Busy
<1>2. TypeOK
  BY DEF IInv
<1>3. TypeOK'
  BY <1>1, <1>2 DEF TypeOK
<1>4. s \in Stores => store[s] \in StoreDoc
  BY <1>2 DEF TypeOK, Stores
<1>5. Contexts'
  BY <1>1, <1>2, <1>4 DEF IInv, TypeOK, Contexts, Busy, Fits, StoreDoc
<1>6. OwnersAndPhonesAreUnique'
  BY <1>1 DEF IInv, OwnersAndPhonesAreUnique, Stores
<1>7. Settled \subseteq Settled'
  BY <1>1, <1>2 DEF TypeOK, Settled
<1>8. Names'
  BY <1>1, <1>2, <1>7 DEF IInv, TypeOK, Names, Fits, Stores, AccountOf
<1>9. r \notin Settled
  BY <1>1 DEF Settled
<1>10. Belongs'
  BY <1>1, <1>2, <1>9 DEF IInv, TypeOK, Names, Belongs, Fits, Stores, AccountOf
<1>11. Evidence'
  BY <1>1, <1>2 DEF IInv, TypeOK, Evidence, PayoutAccountWasReady, Fits, Stores, AccountOf
<1>12. Alone'
  BY <1>1 DEF Alone, Busy
<1>13. Halves'
  BY <1>1, <1>2 DEF IInv, TypeOK, Halves, Fits, Stores
<1>14. Accounts'
  <2> SUFFICES ASSUME faults \cap {"overlap", "failure"} = {} PROVE Accounts'
    BY <1>1 DEF Accounts
  <2>1. level[r] = None /\ \A q \in Requests : ~Busy(q)
    BY <1>1 DEF IInv, Names
  <2>2. \A a \in Requests : level[a] # None => target'[a] = target[a] /\ pc'[a] = pc[a] /\ pc[a] # "save_account"
    BY <1>1, <1>2, <2>1 DEF TypeOK, Busy
  <2>3. \A a, b \in Requests : level[a] # None /\ level[b] # None /\ target[a] = target[b] => a = b
    BY DEF IInv, Accounts
  <2>4. \A a \in Requests : level[a] # None /\ target[a] \in Stores => store[target[a]].connect # None
    BY <2>2 DEF IInv, Accounts
  <2>5. label = "create_account" => s \in Stores /\ store[s].connect = None
    BY DEF Fits
  <2>6. \A q \in Requests : pc'[q] = "create_account" => q = r /\ label = "create_account" /\ target'[q] = s
    BY <1>1, <1>2, <2>1 DEF TypeOK, Busy
  <2> QED
    BY <1>1, <2>2, <2>3, <2>4, <2>5, <2>6 DEF Accounts, Stores
<1>15. Words'
  <2> SUFFICES ASSUME faults = {} PROVE Words'
    BY <1>1 DEF Words
  <2>1. \A q \in Requests : pc'[q] # "save_connect" /\ pc[q] # "save_connect"
    BY <1>1, <1>2 DEF TypeOK, Busy
  <2>2. \A q \in Requests : pc'[q] = "retrieve" => q = r /\ label = "retrieve"
    BY <1>1, <1>2 DEF TypeOK, Busy
  <2>3. target'[r] = s /\ doc'[r] = d /\ want'[r] = w
    BY <1>1, <1>2 DEF TypeOK
  <2>4. label = "retrieve" => s \in Stores /\ d = store[s] /\ d.connect # None /\ w = d.connect
    BY DEF Fits
  <2>5. \A i \in DOMAIN events : Newest(i)' <=> Newest(i)
    BY <1>1 DEF Newest
  <2>6. \A q : Pending(q)' <=> Pending(q)
    BY <1>1 DEF Pending
  <2>7. \A q : ~Saving(q) /\ ~Saving(q)'
    BY <2>1 DEF Saving
  <2>8. /\ \A i \in DOMAIN events : Newest(i) => events[i].level = level[events[i].account]
        /\ \A q \in Stores : store[q].connect # None /\ ~Saving(q) /\ ~Pending(AccountOf(q))
             => store[q].connect.level = level[AccountOf(q)]
    BY DEF IInv, Words
  <2> QED
    BY <1>1, <2>1, <2>2, <2>3, <2>4, <2>5, <2>6, <2>7, <2>8 DEF Words, Stores, AccountOf
<1>16. Forms'
  BY <1>1 DEF IInv, Forms
<1> QED
  BY <1>3, <1>5, <1>6, <1>8, <1>10, <1>11, <1>12, <1>13, <1>14, <1>15, <1>16 DEF IInv

-----------------------------------------------------------------------------
\* What a request may write to the store s, with the document v, before it goes on to label.
Edits(r, s, v, label) ==
  /\ v \in StoreDoc
  /\ v.owner = store[s].owner
  /\ v.phone = store[s].phone \/ ~PhoneTaken(v.phone, s)
  /\ \/ v.connect = store[s].connect
     \/ pc[r] \in {"save_account", "save_connect"} /\ v.connect = want[r]
  /\ pc[r] = "save_connect" /\ faults = {} => v.connect = want[r]
  /\ pc[r] = "save_account" /\ "failure" \notin faults => v.connect = want[r]
  /\ pc[r] = "save_account" /\ v.connect = want[r] => label = "create_link"

\* The account a request is about to make or save is its own.
LEMMA OwnAccount ==
  ASSUME IInv, NEW r \in Requests, pc[r] \in {"create_account", "save_account"}
  PROVE  want[r] \in Connect /\ want[r].account = r /\ want[r].level = "created"
<1>1. [account |-> r, level |-> "created"] \in Connect
  BY DEF Connect, Levels
<1> QED
  BY <1>1 DEF IInv, Contexts

\* Whatever is mentioned as a store or an account bears the name of a request.
LEMMA Referents ==
  ASSUME IInv
  PROVE  /\ Stores \subseteq Requests
         /\ \A s \in Stores : store[s].connect # None => AccountOf(s) \in Requests
         /\ \A i \in DOMAIN events : events[i].account \in Requests
         /\ \A r \in Requests : pc[r] \in {"save_account", "create_link", "retrieve", "save_connect"}
              => want[r].account \in Requests
<1>1. \A r \in Requests : pc[r] = "save_account" => want[r].account = r
  BY OwnAccount
<1> QED
  BY <1>1 DEF IInv, Names, Settled, Stores

\* A request that writes to its store, or to nothing, and goes on keeps the invariant.
LEMMA WriteKeeps ==
  ASSUME IInv, NEW r \in Requests, Busy(r), NEW v, NEW label \in {"done", "send_code", "create_link"},
         target[r] \in Stores => Edits(r, target[r], v, label),
         label = "send_code" => pc[r] = "store_code",
         label = "create_link" => pc[r] = "save_account",
         store' = IF target[r] \in Stores THEN [store EXCEPT ![target[r]] = v] ELSE store,
         sent' \in [Requests -> Phones \cup {None}],
         pc' = [pc EXCEPT ![r] = label], UNCHANGED <<faults, stripe, memory>>
  PROVE  IInv'
<1> USE StoresAssumption
<1> DEFINE s == target[r]
<1>1. TypeOK /\ s \in Requests
  BY DEF IInv, Contexts
<1>2. /\ UNCHANGED <<level, reached, linked, events, target, doc, want>>
      /\ Stores' \subseteq Stores
      /\ \A t \in Stores : t # s => store'[t] = store[t]
      /\ s \in Stores => store'[s] = v /\ Edits(r, s, v, label)
      /\ pc'[r] = label /\ \A q \in Requests : q # r => pc'[q] = pc[q]
  BY <1>1 DEF TypeOK, Stores, stripe, memory
<1>3. /\ \A t \in Stores : store[t] \in StoreDoc
      /\ \A t \in Stores' : t \in Requests /\ store'[t] \in StoreDoc /\ store'[t].owner = store[t].owner
      /\ \A t \in Stores' :
           \/ store'[t].connect = store[t].connect
           \/ t = s /\ pc[r] \in {"save_account", "save_connect"} /\ store'[t].connect = want[r]
  BY <1>1, <1>2 DEF TypeOK, Stores, Edits
<1>4. TypeOK'
  BY <1>1, <1>2 DEF TypeOK, PC, Stores, Edits
<1>5. pc[r] = "save_account" => want[r] \in Connect /\ want[r].account = r /\ want[r].level = "created"
  BY OwnAccount
<1>6. Contexts'
  <2>1. label = "send_code" => doc[r].phone \in Phones
    BY DEF IInv, Contexts
  <2>2. label = "create_link" => want[r] \in Connect
    BY <1>5
  <2> QED
    BY <1>2, <2>1, <2>2 DEF IInv, Contexts, Busy
<1>7. OwnersAndPhonesAreUnique'
  BY <1>1, <1>2, <1>3 DEF IInv, OwnersAndPhonesAreUnique, Edits, PhoneTaken
<1>8. Settled \subseteq Settled'
  BY <1>2 DEF Settled, Busy
<1>9. pc[r] = "save_account" /\ label = "create_link" => r \in Settled'
  BY <1>2 DEF Settled
<1>10. Names'
  <2>1. \A t \in Stores' : store'[t].connect # None => AccountOf(t)' \in Settled'
    <3> SUFFICES ASSUME NEW t \in Stores', store'[t].connect # None PROVE store'[t].connect.account \in Settled'
      BY DEF AccountOf
    <3>1. CASE store'[t].connect = store[t].connect
      BY <1>2, <1>8, <3>1 DEF IInv, Names, AccountOf
    <3>2. CASE t = s /\ pc[r] \in {"save_account", "save_connect"} /\ store'[t].connect = want[r]
      BY <1>2, <1>5, <1>8, <1>9, <3>2 DEF IInv, Names, Edits
    <3> QED
      BY <1>3, <3>1, <3>2
  <2>2. \A q \in Requests : pc'[q] \in {"create_link", "retrieve", "save_connect"} => want[q].account \in Settled'
    BY <1>2, <1>5, <1>8, <1>9 DEF IInv, Names
  <2>3. linked \subseteq Settled'
    BY <1>8 DEF IInv, Names
  <2> QED
    BY <1>2, <2>1, <2>2, <2>3 DEF IInv, Names, Busy
<1>11. Belongs'
  BY <1>2, <1>3, <1>5 DEF IInv, Belongs, AccountOf
<1>12. Evidence'
  <2>1. \A t \in Stores' : store'[t].connect # None => store'[t].connect.level \in reached[store'[t].connect.account]
    BY <1>2, <1>3 DEF IInv, Evidence, PayoutAccountWasReady, AccountOf
  <2> QED
    BY <1>2, <2>1 DEF IInv, Evidence, PayoutAccountWasReady, AccountOf
<1>13. Alone'
  BY <1>2 DEF IInv, Alone, Busy
<1>14. "overlap" \notin faults => \A q \in Requests : Busy(q) => q = r
  BY DEF IInv, Alone
<1>15. Halves'
  BY <1>2, <1>14 DEF Halves, Busy
<1>16. want[r] \in Connect => want[r] # None
  BY DEF Connect
<1>17. Accounts'
  <2> SUFFICES ASSUME faults \cap {"overlap", "failure"} = {} PROVE Accounts'
    BY <1>2 DEF Accounts
  <2>1. ASSUME NEW a \in Requests, level[a] # None, target[a] \in Stores', pc'[a] # "save_account"
        PROVE  store'[target[a]].connect # None
    <3>1. CASE pc[a] = "save_account"
      BY <1>2, <1>5, <1>16, <2>1, <3>1 DEF Edits
    <3>2. CASE pc[a] # "save_account"
      <4>1. store[target[a]].connect # None
        BY <1>2, <2>1, <3>2 DEF IInv, Accounts
      <4>2. pc[r] = "save_connect" => want[r] \in Connect
        BY DEF IInv, Contexts
      <4> QED
        BY <1>3, <1>5, <1>16, <2>1, <4>1, <4>2
    <3> QED
      BY <3>1, <3>2
  <2>2. \A q \in Requests : pc'[q] = "create_account" => pc[q] = "create_account"
    BY <1>2
  <2> QED
    BY <1>2, <2>1, <2>2 DEF IInv, Accounts
<1>18. Words'
  <2> SUFFICES ASSUME faults = {} PROVE Words'
    BY <1>2 DEF Words
  <2>1. \A q \in Requests : pc'[q] \notin {"retrieve", "save_connect"}
    BY <1>2, <1>14 DEF Busy
  <2>2. \A i \in DOMAIN events : Newest(i)' <=> Newest(i)
    BY <1>2 DEF Newest
  <2>3. \A a : Pending(a)' <=> Pending(a)
    BY <1>2 DEF Pending
  <2>4. ASSUME NEW t \in Stores', store'[t].connect # None, ~Pending(store'[t].connect.account)
        PROVE  store'[t].connect.level = level[store'[t].connect.account]
    <3>1. CASE Saving(t)
      <4>1. t = s /\ pc[r] = "save_connect"
        BY <1>14, <3>1 DEF Saving, Busy
      <4>2. store'[t].connect = want[r]
        BY <1>2, <2>4, <4>1 DEF Edits
      <4> QED
        BY <1>2, <2>4, <4>1, <4>2 DEF IInv, Words
    <3>2. CASE ~Saving(t) /\ store'[t].connect = store[t].connect
      BY <1>2, <2>4, <3>2 DEF IInv, Words, AccountOf
    <3>3. CASE ~Saving(t) /\ store'[t].connect # store[t].connect
      <4>1. pc[r] = "save_account" /\ store'[t].connect = want[r]
        BY <1>3, <2>4, <3>3 DEF Saving
      <4>2. level[r] # None
        BY <1>1, <1>5, <4>1 DEF IInv, Evidence, TypeOK
      <4>3. r \notin linked
        BY <4>1 DEF IInv, Names, Settled
      <4>4. level[r] = "created"
        BY <4>2, <4>3 DEF IInv, Forms
      <4> QED
        BY <1>5, <4>1, <4>4
    <3> QED
      BY <3>1, <3>2, <3>3
  <2> QED
    BY <1>2, <2>1, <2>2, <2>3, <2>4 DEF IInv, Words, AccountOf
<1>19. Forms'
  BY <1>2 DEF IInv, Forms
<1> QED
  BY <1>4, <1>6, <1>7, <1>10, <1>11, <1>12, <1>13, <1>15, <1>17, <1>18, <1>19 DEF IInv

-----------------------------------------------------------------------------
\* The document of a new store.
LEMMA NewStoreTyped ==
  ASSUME NEW u \in Providers, NEW phone \in Phones
  PROVE  /\ NewStore(u, phone) \in StoreDoc
         /\ NewStore(u, phone).owner = u /\ NewStore(u, phone).phone = phone
         /\ NewStore(u, phone).connect = None
BY DEF NewStore, StoreDoc

\* A store appears: neither its owner nor its phone had one.
LEMMA InsertStoreKeeps == ASSUME IInv, NEW r \in Requests, InsertStore(r) PROVE IInv'
<1> USE StoresAssumption
<1> DEFINE v == NewStore(doc[r].owner, doc[r].phone)
<1>1. /\ pc[r] = "insert_store" /\ TypeOK /\ target[r] = r /\ Busy(r)
      /\ doc[r] \in [owner: Providers, phone: Phones]
      /\ UNCHANGED <<faults, sent, stripe, memory>>
  BY DEF InsertStore, Goto, IInv, Contexts, Busy
<1>2. CASE ~Insertable(doc[r])
  <2>1. r \notin Stores
    BY <1>1 DEF IInv, Names
  <2>2. store' = store /\ pc' = [pc EXCEPT ![r] = "done"] /\ sent' \in [Requests -> Phones \cup {None}]
    BY <1>1, <1>2 DEF InsertStore, Goto, TypeOK
  <2> QED
    BY <1>1, <2>1, <2>2, WriteKeeps
<1>3. CASE Insertable(doc[r])
  <2>1. /\ UNCHANGED <<faults, sent, level, reached, linked, events, target, doc, want>>
        /\ pc'[r] = "store_code" /\ \A q \in Requests : q # r => pc'[q] = pc[q]
        /\ store'[r] = v /\ \A t \in Requests : t # r => store'[t] = store[t]
        /\ Stores' \subseteq Stores \cup {r}
    BY <1>1, <1>3 DEF InsertStore, Goto, TypeOK, Stores, stripe, memory
  <2>2. v \in StoreDoc /\ v.owner = doc[r].owner /\ v.phone = doc[r].phone /\ v.connect = None
    BY <1>1, NewStoreTyped
  <2> HIDE DEF v
  <2>3. /\ \A t \in Stores' : t \in Requests /\ (t = r \/ (t \in Stores /\ store'[t] = store[t]))
        /\ \A t \in Stores' : store'[t].connect # None => t \in Stores /\ store'[t] = store[t]
    <3>1. Stores' \subseteq Requests
      BY DEF Stores
    <3> QED
      BY <2>1, <2>2, <3>1
  <2>4. TypeOK'
    <3>1. store' = [store EXCEPT ![r] = v] /\ pc' = [pc EXCEPT ![r] = "store_code"]
      BY <1>1, <1>3 DEF InsertStore, Goto, v
    <3> QED
      BY <1>1, <2>1, <2>2, <3>1 DEF TypeOK, PC
  <2>5. Contexts'
    BY <1>1, <2>1 DEF IInv, Contexts, Busy
  <2>6. OwnersAndPhonesAreUnique'
    <3>1. \A t \in Stores : store[t].owner # v.owner /\ store[t].phone # v.phone
      BY <1>1, <1>3, <2>2 DEF Insertable, HasStore, PhoneTaken, Stores
    <3> QED
      BY <2>1, <2>3, <3>1 DEF IInv, OwnersAndPhonesAreUnique
  <2>7. Settled' = Settled
    BY <1>1, <2>1 DEF Settled
  <2>8. Names'
    BY <1>1, <2>1, <2>3, <2>7 DEF IInv, Names, AccountOf
  <2>9. Belongs'
    BY <1>1, <2>1, <2>3 DEF IInv, Belongs, AccountOf
  <2>10. Evidence'
    BY <1>1, <2>1, <2>3 DEF IInv, Evidence, PayoutAccountWasReady, AccountOf
  <2>11. Alone'
    BY <1>1, <2>1 DEF IInv, Alone, Busy
  <2>12. \A q \in Requests : Busy(q) /\ "overlap" \notin faults => q = r
    BY <1>1 DEF IInv, Alone
  <2>13. Halves'
    BY <2>1, <2>12 DEF Halves, Busy
  <2>14. Accounts'
    <3>1. \A a \in Requests : level[a] # None => target[a] # r
      BY <1>1 DEF IInv, Names
    <3>2. \A q \in Requests : pc'[q] = "create_account" => pc[q] = "create_account"
      BY <2>1
    <3>3. \A a \in Requests : level[a] # None => pc'[a] = pc[a]
      BY <1>1, <2>1 DEF IInv, Names
    <3> QED
      BY <2>1, <3>1, <3>2, <3>3 DEF IInv, Accounts, Stores
  <2>15. Words'
    <3> SUFFICES ASSUME faults = {} PROVE Words'
      BY <2>1 DEF Words
    <3>1. \A q \in Requests : pc[q] \notin {"retrieve", "save_connect"} /\ pc'[q] \notin {"retrieve", "save_connect"}
      BY <1>1, <2>1, <2>12 DEF Busy
    <3>2. \A t : ~Saving(t) /\ ~Saving(t)'
      BY <3>1 DEF Saving
    <3> QED
      BY <2>1, <2>3, <3>1, <3>2 DEF IInv, Words, AccountOf, Newest, Pending
  <2>16. Forms'
    BY <2>1 DEF IInv, Forms
  <2> QED
    BY <2>4, <2>5, <2>6, <2>8, <2>9, <2>10, <2>11, <2>13, <2>14, <2>15, <2>16 DEF IInv
<1> QED
  BY <1>2, <1>3

\* A store disappears.
LEMMA RemoveStoreKeeps == ASSUME IInv, NEW s \in Requests, RemoveStore(s) PROVE IInv'
<1> USE StoresAssumption
<1>1. /\ TypeOK /\ UNCHANGED <<faults, sent, level, reached, linked, events, pc, target, doc, want>>
      /\ Stores' \subseteq Stores /\ \A t \in Stores' : store'[t] = store[t]
  BY DEF RemoveStore, IInv, TypeOK, Stores, stripe, memory
<1>2. TypeOK'
  BY <1>1 DEF RemoveStore, TypeOK
<1>3. Contexts' /\ Alone'
  BY <1>1 DEF IInv, Contexts, Alone, Busy
<1>4. OwnersAndPhonesAreUnique'
  BY <1>1 DEF IInv, OwnersAndPhonesAreUnique
<1>5. Settled' = Settled
  BY <1>1 DEF Settled
<1>6. Names' /\ Belongs' /\ Evidence'
  BY <1>1, <1>5 DEF IInv, Names, Belongs, Evidence, PayoutAccountWasReady, AccountOf
<1>7. Halves' /\ Accounts'
  BY <1>1 DEF IInv, Halves, Accounts
<1>8. Words'
  <2>1. \A i \in DOMAIN events : Newest(i)' <=> Newest(i)
    BY <1>1 DEF Newest
  <2>2. \A a : Pending(a)' <=> Pending(a)
    BY <1>1 DEF Pending
  <2>3. \A t \in Stores : Saving(t)' <=> Saving(t)
    BY <1>1 DEF Saving
  <2> QED
    BY <1>1, <2>1, <2>2, <2>3 DEF IInv, Words, AccountOf
<1>9. Forms'
  BY <1>1 DEF IInv, Forms
<1> QED
  BY <1>2, <1>3, <1>4, <1>6, <1>7, <1>8, <1>9 DEF IInv

-----------------------------------------------------------------------------
\* A Stripe account appears: nobody has it yet.
LEMMA CreateAccountKeeps == ASSUME IInv, NEW r \in Requests, CreateAccount(r) PROVE IInv'
<1> USE StoresAssumption
<1>1. /\ TypeOK /\ pc[r] = "create_account" /\ Busy(r)
      /\ UNCHANGED <<faults, store, sent, linked, events, target, doc, want>>
      /\ Stores' = Stores
      /\ pc'[r] = "save_account" /\ \A q \in Requests : q # r => pc'[q] = pc[q]
      /\ level'[r] = "created" /\ \A a \in Requests : a # r => level'[a] = level[a]
      /\ reached'[r] = reached[r] \cup {"created"} /\ \A a \in Requests : a # r => reached'[a] = reached[a]
      /\ level[r] = None
  BY DEF CreateAccount, Goto, IInv, TypeOK, Names, Stores, memory, Busy
<1>2. TypeOK'
  BY <1>1 DEF CreateAccount, Goto, TypeOK, PC, Levels
<1>3. Contexts' /\ OwnersAndPhonesAreUnique'
  BY <1>1 DEF IInv, Contexts, Busy, OwnersAndPhonesAreUnique
<1>4. Settled' = Settled /\ r \notin Settled
  BY <1>1 DEF Settled
<1>5. Names'
  <2>1. \A s \in Stores : pc'[s] \notin {"idle", "insert_store"}
    BY <1>1, Referents DEF IInv, Names
  <2>2. \A q \in Requests : target[q] \in Requests =>
           pc'[q] # "idle" /\ (target[q] # q => pc'[target[q]] \notin {"idle", "insert_store"})
    <3>1. \A q \in Requests : /\ pc[q] # "idle" => pc'[q] # "idle"
                              /\ pc[q] \notin {"idle", "insert_store"} => pc'[q] \notin {"idle", "insert_store"}
      BY <1>1
    <3> QED
      BY <3>1 DEF IInv, Names
  <2>3. \A a \in Requests : level'[a] # None => pc'[a] \in {"save_account", "create_link", "done"}
    BY <1>1 DEF IInv, Names
  <2>4. \A q \in Requests : pc'[q] \in {"create_link", "retrieve", "save_connect"} => want[q].account \in Settled
    BY <1>1 DEF IInv, Names
  <2> QED
    BY <1>1, <1>4, <2>1, <2>2, <2>3, <2>4 DEF IInv, Names, AccountOf
<1>6. Belongs'
  BY <1>1, <1>4 DEF IInv, Belongs, AccountOf
<1>7. Evidence'
  <2>1. want[r].level = "created" /\ want[r].account = r
    BY <1>1, OwnAccount
  <2>2. \A a \in Requests : reached[a] \subseteq reached'[a]
    BY <1>1
  <2>3. PayoutAccountWasReady'
    BY <1>1, <2>2, Referents DEF IInv, Evidence, PayoutAccountWasReady, AccountOf
  <2>4. \A a \in Requests : level'[a] # None \/ reached'[a] # {} => level'[a] \in reached'[a]
    BY <1>1 DEF IInv, Evidence
  <2> QED
    BY <1>1, <2>1, <2>2, <2>3, <2>4, Referents DEF IInv, Evidence
<1>8. Alone'
  BY <1>1 DEF IInv, Alone, Busy
<1>9. "overlap" \notin faults => \A q \in Requests : Busy(q) => q = r
  BY <1>1 DEF IInv, Alone
<1>10. Halves'
  BY <1>1, <1>9 DEF Halves, Busy
<1>11. Accounts'
  <2> SUFFICES ASSUME faults \cap {"overlap", "failure"} = {} PROVE Accounts'
    BY <1>1 DEF Accounts
  <2>1. \A a \in Requests : level[a] # None => target[a] # target[r]
    BY <1>1 DEF IInv, Accounts
  <2>2. \A q \in Requests : pc'[q] # "create_account"
    BY <1>1, <1>9 DEF Busy
  <2> QED
    BY <1>1, <2>1, <2>2 DEF IInv, Accounts
<1>12. Words'
  <2> SUFFICES ASSUME faults = {} PROVE Words'
    BY <1>1 DEF Words
  <2>1. \A q \in Requests : pc[q] \notin {"retrieve", "save_connect"} /\ pc'[q] \notin {"retrieve", "save_connect"}
    BY <1>1, <1>9 DEF Busy
  <2>2. \A s : ~Saving(s) /\ ~Saving(s)'
    BY <2>1 DEF Saving
  <2>3. \A i \in DOMAIN events : events[i].account # r
    BY <1>4 DEF IInv, Names
  <2>4. \A s \in Stores : store[s].connect # None => AccountOf(s) # r
    BY <1>4 DEF IInv, Names
  <2>5. \A i \in DOMAIN events : Newest(i)' <=> Newest(i)
    BY <1>1 DEF Newest
  <2>6. \A a : Pending(a)' <=> Pending(a)
    BY <1>1 DEF Pending
  <2>7. \A s \in Stores : store'[s] = store[s] /\ AccountOf(s)' = AccountOf(s)
    BY <1>1 DEF AccountOf
  <2>9. \A i \in DOMAIN events : Newest(i) => events[i].level = level'[events[i].account]
    BY <1>1, <2>3, Referents DEF IInv, Words
  <2>10. \A s \in Stores : store[s].connect # None /\ ~Pending(AccountOf(s))
           => store[s].connect.level = level'[AccountOf(s)]
    BY <1>1, <2>2, <2>4, Referents DEF IInv, Words
  <2> QED
    BY <1>1, <2>1, <2>2, <2>5, <2>6, <2>7, <2>9, <2>10 DEF Words
<1>13. Forms'
  BY <1>1 DEF IInv, Forms
<1> QED
  BY <1>2, <1>3, <1>5, <1>6, <1>7, <1>8, <1>10, <1>11, <1>12, <1>13 DEF IInv

\* The provider is given the form of an account, or refused the redirect.
LEMMA CreateLinkKeeps == ASSUME IInv, NEW r \in Requests, CreateLink(r) PROVE IInv'
<1> USE StoresAssumption
<1> DEFINE a == want[r].account
<1>1. /\ TypeOK /\ pc[r] = "create_link" /\ Busy(r) /\ a \in Settled
      /\ UNCHANGED <<faults, store, sent, level, reached, events, target, doc, want>>
      /\ Stores' = Stores /\ linked' \in {linked, linked \cup {a}}
      /\ pc'[r] = "done" /\ \A q \in Requests : q # r => pc'[q] = pc[q]
  BY DEF CreateLink, Goto, IInv, TypeOK, Names, Stores, memory, Busy
<1>2. Settled' = Settled
  BY <1>1 DEF Settled
<1>3. TypeOK'
  BY <1>1 DEF CreateLink, Goto, TypeOK, PC, Settled
<1>4. Contexts' /\ OwnersAndPhonesAreUnique'
  BY <1>1 DEF IInv, Contexts, Busy, OwnersAndPhonesAreUnique
<1>5. Names'
  BY <1>1, <1>2, Referents DEF IInv, Names, AccountOf
<1>6. Belongs'
  BY <1>1, <1>2 DEF IInv, Belongs, AccountOf
<1>7. Evidence' /\ Alone'
  BY <1>1 DEF IInv, Evidence, PayoutAccountWasReady, AccountOf, Alone, Busy
<1>8. Halves' /\ Accounts'
  BY <1>1 DEF IInv, Halves, Accounts
<1>9. Words'
  BY <1>1 DEF IInv, Words, AccountOf, Newest, Pending, Saving
<1>10. Forms'
  BY <1>1 DEF IInv, Forms
<1> QED
  BY <1>3, <1>4, <1>5, <1>6, <1>7, <1>8, <1>9, <1>10 DEF IInv

\* Stripe answers with the level of the account.
LEMMA RetrieveKeeps == ASSUME IInv, NEW r \in Requests, Retrieve(r) PROVE IInv'
<1> USE StoresAssumption
<1>1. /\ TypeOK /\ pc[r] = "retrieve" /\ Busy(r) /\ want[r] \in Connect
      /\ UNCHANGED <<faults, store, sent, level, reached, linked, events, target, doc>>
      /\ Stores' = Stores
      /\ pc'[r] = "save_connect" /\ \A q \in Requests : q # r => pc'[q] = pc[q] /\ want'[q] = want[q]
      /\ want'[r] = [want[r] EXCEPT !.level = level[want[r].account]]
  BY DEF Retrieve, Goto, IInv, TypeOK, Contexts, Stores, stripe, Busy
<1>2. want[r].account \in Requests /\ level[want[r].account] \in reached[want[r].account]
  BY <1>1 DEF IInv, Evidence, Connect
<1>3. /\ want'[r] \in Connect
      /\ want'[r].account = want[r].account /\ want'[r].level = level[want[r].account]
  BY <1>1, <1>2 DEF Connect, TypeOK
<1>4. TypeOK'
  BY <1>1, <1>3 DEF Retrieve, Goto, TypeOK, PC
<1>5. Contexts' /\ OwnersAndPhonesAreUnique'
  BY <1>1, <1>3 DEF IInv, Contexts, Busy, OwnersAndPhonesAreUnique
<1>6. Settled' = Settled
  BY <1>1 DEF Settled
<1>7. Names'
  <2>1. /\ \A s \in Stores : pc'[s] \notin {"idle", "insert_store"}
        /\ \A a \in Requests : level[a] # None => pc'[a] \in {"save_account", "create_link", "done"}
    BY <1>1, Referents DEF IInv, Names
  <2>2. \A q \in Requests : target[q] \in Requests =>
           pc'[q] # "idle" /\ (target[q] # q => pc'[target[q]] \notin {"idle", "insert_store"})
    <3>1. \A q \in Requests : /\ pc[q] # "idle" => pc'[q] # "idle"
                              /\ pc[q] \notin {"idle", "insert_store"} => pc'[q] \notin {"idle", "insert_store"}
      BY <1>1
    <3> QED
      BY <3>1 DEF IInv, Names
  <2>3. \A q \in Requests : pc'[q] \in {"create_link", "retrieve", "save_connect"} => want'[q].account \in Settled
    BY <1>1, <1>3 DEF IInv, Names
  <2> QED
    BY <1>1, <1>6, <2>1, <2>2, <2>3 DEF IInv, Names, AccountOf
<1>8. Belongs'
  BY <1>1, <1>3 DEF IInv, Belongs, AccountOf
<1>9. Evidence' /\ Alone'
  BY <1>1, <1>2, <1>3 DEF IInv, Evidence, PayoutAccountWasReady, AccountOf, Alone, Busy
<1>10. Halves' /\ Accounts'
  BY <1>1 DEF IInv, Halves, Accounts
<1>11. Words'
  <2>1. \A s : Saving(s)' => Saving(s) \/ s = target[r]
    BY <1>1 DEF Saving
  <2>2. \A s : Saving(s) => Saving(s)'
    BY <1>1 DEF Saving
  <2>3. \A i \in DOMAIN events : Newest(i)' <=> Newest(i)
    BY <1>1 DEF Newest
  <2>4. \A a : Pending(a)' <=> Pending(a)
    BY <1>1 DEF Pending
  <2>5. \A s \in Stores : store'[s] = store[s] /\ AccountOf(s)' = AccountOf(s)
    BY <1>1 DEF AccountOf
  <2> SUFFICES ASSUME faults = {} PROVE Words'
    BY <1>1 DEF Words
  <2>6. \A q \in Requests : pc'[q] \in {"retrieve", "save_connect"} /\ target[q] \in Stores =>
          /\ store[target[q]].connect # None
          /\ doc[q].connect = store[target[q]].connect
          /\ want'[q].account = AccountOf(target[q])
    BY <1>1, <1>3 DEF IInv, Words
  <2>7. \A q \in Requests : pc'[q] = "save_connect" /\ ~Pending(want'[q].account)
          => target[q] \notin Stores \/ want'[q].level = level[want'[q].account]
    BY <1>1, <1>3 DEF IInv, Words
  <2>8. \A s \in Stores : store[s].connect # None /\ ~Saving(s)' /\ ~Pending(AccountOf(s))
          => store[s].connect.level = level[AccountOf(s)]
    BY <2>2 DEF IInv, Words
  <2>9. \A i \in DOMAIN events : Newest(i) => events[i].level = level[events[i].account]
    BY DEF IInv, Words
  <2> QED
    BY <1>1, <2>3, <2>4, <2>5, <2>6, <2>7, <2>8, <2>9 DEF Words
<1>12. Forms'
  BY <1>1 DEF IInv, Forms
<1> QED
  BY <1>4, <1>5, <1>7, <1>8, <1>9, <1>10, <1>11, <1>12 DEF IInv

-----------------------------------------------------------------------------
\* Taking out the oldest event: the newest of each account stay the newest.
LEMMA OldestTaken ==
  ASSUME TypeOK, 1 \in DOMAIN events, events' = RemoveAt(events, 1)
  PROVE  /\ \A j \in DOMAIN events' : j + 1 \in DOMAIN events /\ events'[j] = events[j + 1]
         /\ \A j \in DOMAIN events' : Newest(j)' => Newest(j + 1)
         /\ \A a : Pending(a) => Pending(a)' \/ a = events[1].account
         /\ \A a : a = events[1].account /\ ~Pending(a)' => Newest(1)
<1>1. events \in Seq(Connect)
  BY DEF TypeOK
<1>2. /\ events' \in Seq(Connect) /\ Len(events') = Len(events) - 1 /\ Len(events) \in Nat
      /\ DOMAIN events = 1 .. Len(events) /\ DOMAIN events' = 1 .. Len(events) - 1
  BY <1>1, Removal
<1>3. \A j \in DOMAIN events' : j + 1 \in DOMAIN events /\ events'[j] = events[j + 1]
  <2>1. \A j \in 1 .. Len(events) - 1 : events'[j] = events[IF j < 1 THEN j ELSE j + 1]
    BY <1>1, Removal
  <2> QED
    BY <1>2, <2>1
<1>4. \A k \in DOMAIN events : k = 1 \/ (k - 1 \in DOMAIN events' /\ events'[k - 1] = events[k])
  BY <1>2, <1>3
<1>5. ASSUME NEW j \in DOMAIN events', Newest(j)' PROVE Newest(j + 1)
  <2> SUFFICES ASSUME NEW k \in DOMAIN events, k > j + 1 PROVE events[k].account # events[j + 1].account
    BY DEF Newest
  <2>1. k - 1 \in DOMAIN events' /\ k - 1 > j /\ events'[k - 1] = events[k]
    BY <1>2, <1>4
  <2> QED
    BY <1>3, <1>5, <2>1 DEF Newest
<1>6. \A a : Pending(a) => Pending(a)' \/ a = events[1].account
  BY <1>4 DEF Pending
<1>7. \A a : a = events[1].account /\ ~Pending(a)' => Newest(1)
  BY <1>2, <1>4 DEF Pending, Newest
<1> QED
  BY <1>3, <1>5, <1>6, <1>7

\* Taking out any event leaves events that were there.
LEMMA OneTaken ==
  ASSUME TypeOK, NEW i \in DOMAIN events, events' = RemoveAt(events, i)
  PROVE  /\ events' \in Seq(Connect)
         /\ \A j \in DOMAIN events' : \E k \in DOMAIN events : events'[j] = events[k]
<1>1. /\ events \in Seq(Connect) /\ Len(events) \in Nat /\ DOMAIN events = 1 .. Len(events)
      /\ i \in 1 .. Len(events)
  BY DEF TypeOK
<1>2. /\ events' \in Seq(Connect) /\ Len(events') = Len(events) - 1
      /\ \A j \in 1 .. Len(events) - 1 : events'[j] = events[IF j < i THEN j ELSE j + 1]
  BY <1>1, Removal
<1>3. DOMAIN events' = 1 .. Len(events) - 1
  BY <1>1, <1>2
<1>4. \A j \in 1 .. Len(events) - 1 : (IF j < i THEN j ELSE j + 1) \in DOMAIN events
  BY <1>1
<1> QED
  BY <1>2, <1>3, <1>4

\* A webhook delivery begins: it will write what its event says.
LEMMA AccountEventKeeps ==
  ASSUME IInv, NEW r \in Requests, NEW i \in 1 .. MaxEvents, BeginAccountEvent(r, i)
  PROVE  IInv'
<1> USE StoresAssumption
<1>1. PICK e : e = events[i]
  OBVIOUS
<1>2. PICK s \in Stores : AccountOf(s) = e.account /\ Begin(r, s, store[s], e, "save_connect")
  BY <1>1 DEF BeginAccountEvent
<1>3. /\ TypeOK /\ i \in DOMAIN events /\ s \in Requests /\ store[s] \in StoreDoc /\ e \in Connect
      /\ store[s].connect # None
  <2>1. TypeOK /\ i \in DOMAIN events
    BY DEF BeginAccountEvent, IInv
  <2>2. s \in Requests /\ store[s] \in StoreDoc
    BY <2>1 DEF Stores, TypeOK
  <2>3. e \in Connect
    BY <1>1, <2>1 DEF TypeOK
  <2>4. e.account \in Requests
    BY <2>3 DEF Connect
  <2> QED
    BY <1>2, <2>1, <2>2, <2>3, <2>4 DEF AccountOf
<1>4. /\ pc[r] = "idle" /\ target' = [target EXCEPT ![r] = s] /\ doc' = [doc EXCEPT ![r] = store[s]]
      /\ want' = [want EXCEPT ![r] = e] /\ pc' = [pc EXCEPT ![r] = "save_connect"]
      /\ UNCHANGED <<faults, store, sent, level, reached, linked>>
      /\ "overlap" \notin faults => \A q \in Requests : ~Busy(q)
  BY <1>2 DEF Begin, Idle, Goto, Quiet, InFlight, Busy, BeginAccountEvent
<1>5. /\ pc'[r] = "save_connect" /\ target'[r] = s /\ doc'[r] = store[s] /\ want'[r] = e
      /\ \A q \in Requests : q # r =>
           pc'[q] = pc[q] /\ target'[q] = target[q] /\ doc'[q] = doc[q] /\ want'[q] = want[q]
      /\ Stores' = Stores /\ Settled \subseteq Settled' /\ r \notin Settled
  BY <1>3, <1>4 DEF TypeOK, Stores, Settled
<1>6. /\ events' \in Seq(Connect)
      /\ \A j \in DOMAIN events' : \E k \in DOMAIN events : events'[j] = events[k]
      /\ "failure" \notin faults => events' = RemoveAt(events, i)
  BY <1>3, OneTaken DEF BeginAccountEvent, TypeOK
<1>7. TypeOK'
  BY <1>3, <1>4, <1>6 DEF TypeOK, PC
<1>8. Contexts' /\ OwnersAndPhonesAreUnique'
  BY <1>3, <1>4, <1>5 DEF IInv, Contexts, Busy, OwnersAndPhonesAreUnique
<1>9. e.account \in linked /\ e.account \in Settled /\ e.level \in reached[e.account]
  BY <1>1, <1>3 DEF IInv, Names, Evidence
<1>10. Names'
  BY <1>3, <1>4, <1>5, <1>6, <1>9, Referents DEF IInv, Names, AccountOf
<1>11. target[e.account] = s /\ e.account # r /\ e.account \in Requests
  BY <1>2, <1>3, <1>5, <1>9 DEF IInv, Belongs, Settled
<1>12. Belongs'
  BY <1>3, <1>4, <1>5, <1>11, Referents DEF IInv, Belongs, Names, AccountOf
<1>13. Evidence'
  BY <1>4, <1>5, <1>6, <1>9 DEF IInv, Evidence, PayoutAccountWasReady, AccountOf
<1>14. Alone'
  BY <1>4, <1>5 DEF Alone, Busy
<1>15. Halves'
  BY <1>4, <1>5 DEF Halves, Busy
<1>16. Accounts'
  <2> SUFFICES ASSUME faults \cap {"overlap", "failure"} = {} PROVE Accounts'
    BY <1>4 DEF Accounts
  <2>1. \A q \in Requests : level[q] # None => target'[q] = target[q] /\ pc'[q] = pc[q]
    BY <1>4, <1>5 DEF IInv, Names
  <2>2. \A q \in Requests : pc'[q] # "create_account"
    BY <1>4, <1>5 DEF Busy
  <2> QED
    BY <1>4, <1>5, <2>1, <2>2 DEF IInv, Accounts
<1>17. Words'
  <2> SUFFICES ASSUME faults = {} PROVE Words'
    BY <1>4 DEF Words
  <2>1. i = 1 /\ events' = RemoveAt(events, 1) /\ 1 \in DOMAIN events /\ e = events[1]
    BY <1>1, <1>3, <1>6 DEF BeginAccountEvent
  <2>2. /\ \A j \in DOMAIN events' : j + 1 \in DOMAIN events /\ events'[j] = events[j + 1]
        /\ \A j \in DOMAIN events' : Newest(j)' => Newest(j + 1)
        /\ \A a : Pending(a) => Pending(a)' \/ a = e.account
        /\ ~Pending(e.account)' => Newest(1)
    BY <1>3, <2>1, OldestTaken
  <2>3. \A q \in Requests : pc'[q] \in {"retrieve", "save_connect"} => q = r
    BY <1>4, <1>5 DEF Busy
  <2>4. \A t : ~Saving(t)
    BY <1>4 DEF Saving, Busy
  <2>5. Saving(s)'
    BY <1>5 DEF Saving
  <2>6. /\ \A j \in DOMAIN events : Newest(j) => events[j].level = level[events[j].account]
        /\ \A t \in Stores : store[t].connect # None /\ ~Pending(AccountOf(t))
             => store[t].connect.level = level[AccountOf(t)]
    BY <2>4 DEF IInv, Words
  <2>7. \A j \in DOMAIN events' : Newest(j)' => events'[j].level = level[events'[j].account]
    BY <2>2, <2>6
  <2>8. ~Pending(e.account)' => e.level = level[e.account]
    BY <2>1, <2>2, <2>6
  <2>9. ASSUME NEW t \in Stores, store[t].connect # None, ~Saving(t)', ~Pending(AccountOf(t))'
        PROVE  store[t].connect.level = level[AccountOf(t)]
    <3>1. t # s
      BY <2>5, <2>9
    <3>2. AccountOf(t) # e.account
      BY <1>2, <1>3, <2>9, <3>1 DEF IInv, Belongs
    <3>3. ~Pending(AccountOf(t))
      BY <1>4, <2>2, <2>9, <3>2 DEF AccountOf
    <3> QED
      BY <2>6, <2>9, <3>3
  <2>10. store[s].connect # None /\ e.account = AccountOf(s)
    BY <1>2, <1>3
  <2> QED
    BY <1>4, <1>5, <2>3, <2>6, <2>7, <2>8, <2>9, <2>10 DEF Words, AccountOf
<1>18. Forms'
  BY <1>4 DEF IInv, Forms
<1> QED
  BY <1>7, <1>8, <1>10, <1>12, <1>13, <1>14, <1>15, <1>16, <1>17, <1>18 DEF IInv

\* An event of an account that no store has is dropped.
LEMMA DropKeeps == ASSUME IInv, NEW i \in 1 .. MaxEvents, DropEvent(i) PROVE IInv'
<1> USE StoresAssumption
<1>1. /\ TypeOK /\ i \in DOMAIN events /\ events' = RemoveAt(events, i)
      /\ UNCHANGED <<faults, store, sent, level, reached, linked, pc, target, doc, want>>
      /\ Stores' = Stores /\ Settled' = Settled
      /\ \A s \in Stores : AccountOf(s) # events[i].account
  BY DEF DropEvent, IInv, Stores, Settled, memory
<1>2. /\ events' \in Seq(Connect)
      /\ \A j \in DOMAIN events' : \E k \in DOMAIN events : events'[j] = events[k]
  BY <1>1, OneTaken
<1>3. TypeOK'
  BY <1>1, <1>2 DEF TypeOK
<1>4. Contexts' /\ OwnersAndPhonesAreUnique' /\ Alone' /\ Halves' /\ Accounts'
  BY <1>1 DEF IInv, Contexts, Busy, OwnersAndPhonesAreUnique, Alone, Halves, Accounts
<1>5. Names' /\ Belongs' /\ Evidence'
  BY <1>1, <1>2 DEF IInv, Names, Belongs, Evidence, PayoutAccountWasReady, AccountOf
<1>6. Words'
  <2> SUFFICES ASSUME faults = {} PROVE Words'
    BY <1>1 DEF Words
  <2>1. i = 1 /\ 1 \in DOMAIN events /\ events' = RemoveAt(events, 1)
    BY <1>1 DEF DropEvent
  <2>2. /\ \A j \in DOMAIN events' : j + 1 \in DOMAIN events /\ events'[j] = events[j + 1]
        /\ \A j \in DOMAIN events' : Newest(j)' => Newest(j + 1)
        /\ \A a : Pending(a) => Pending(a)' \/ a = events[1].account
    BY <1>1, <2>1, OldestTaken
  <2>3. \A j \in DOMAIN events' : Newest(j)' => events'[j].level = level[events'[j].account]
    BY <2>2 DEF IInv, Words
  <2>4. \A s \in Stores : Pending(AccountOf(s)) => Pending(AccountOf(s))'
    BY <1>1, <2>1, <2>2 DEF AccountOf
  <2>5. \A q \in Requests : pc[q] = "save_connect" /\ target[q] \in Stores =>
          want[q].account = AccountOf(target[q])
    BY DEF IInv, Words
  <2>6. \A q \in Requests : pc[q] = "save_connect" /\ target[q] \in Stores /\ ~Pending(want[q].account)'
          => ~Pending(want[q].account)
    BY <1>1, <2>1, <2>2, <2>5
  <2>7. \A s : Saving(s)' <=> Saving(s)
    BY <1>1 DEF Saving
  <2> QED
    BY <1>1, <2>3, <2>4, <2>6, <2>7 DEF IInv, Words, AccountOf
<1>7. Forms'
  BY <1>1 DEF IInv, Forms
<1> QED
  BY <1>3, <1>4, <1>5, <1>6, <1>7 DEF IInv

\* Stripe changes the level of an account and announces it.
LEMMA StripeKeeps ==
  ASSUME IInv, NEW a \in Requests, NEW from \in Levels, NEW to \in Levels, StripeUpdates(a, from, to)
  PROVE  IInv'
<1> USE StoresAssumption
<1>1. /\ TypeOK /\ level[a] = from /\ a \in linked
      /\ UNCHANGED <<faults, store, sent, linked, pc, target, doc, want>>
      /\ Stores' = Stores /\ Settled' = Settled
      /\ level'[a] = to /\ \A b \in Requests : b # a => level'[b] = level[b]
      /\ reached'[a] = reached[a] \cup {to} /\ \A b \in Requests : b # a => reached'[b] = reached[b]
  BY DEF StripeUpdates, IInv, TypeOK, Forms, Stores, Settled, memory
<1>2. PICK e : e = [account |-> a, level |-> to]
  OBVIOUS
<1>3. e \in Connect /\ e.account = a /\ e.level = to
  BY <1>2 DEF Connect
<1>4. PICK n \in Nat : n = Len(events) /\ DOMAIN events = 1 .. n
  BY <1>1 DEF TypeOK
<1>5. /\ events' \in Seq(Connect) /\ DOMAIN events' = 1 .. n + 1 /\ events'[n + 1] = e
      /\ \A i \in 1 .. n : events'[i] = events[i]
  BY <1>1, <1>2, <1>3, <1>4 DEF StripeUpdates, TypeOK
<1>6. \A i \in DOMAIN events' : (i \in DOMAIN events /\ events'[i] = events[i]) \/ (i = n + 1 /\ events'[i] = e)
  BY <1>4, <1>5
<1>7. TypeOK'
  BY <1>1, <1>5 DEF StripeUpdates, TypeOK
<1>8. Contexts' /\ OwnersAndPhonesAreUnique' /\ Alone' /\ Halves'
  BY <1>1 DEF IInv, Contexts, Busy, OwnersAndPhonesAreUnique, Alone, Halves
<1>9. Names' /\ Belongs'
  BY <1>1, <1>3, <1>6 DEF IInv, Names, Belongs, AccountOf
<1>10. \A b \in Requests : reached[b] \subseteq reached'[b]
  BY <1>1
<1>11. Evidence'
  <2>1. PayoutAccountWasReady'
    BY <1>1, <1>10, Referents DEF IInv, Evidence, PayoutAccountWasReady, AccountOf
  <2>2. \A b \in Requests : level'[b] # None \/ reached'[b] # {} => level'[b] \in reached'[b]
    BY <1>1 DEF IInv, Evidence
  <2>3. ASSUME NEW i \in DOMAIN events' PROVE events'[i].level \in reached'[events'[i].account]
    <3>1. CASE i \in DOMAIN events /\ events'[i] = events[i]
      <4>1. events[i].level \in reached[events[i].account] /\ events[i].account \in Requests
        BY <3>1, Referents DEF IInv, Evidence
      <4> QED
        BY <1>10, <3>1, <4>1
    <3>2. CASE i = n + 1 /\ events'[i] = e
      BY <1>1, <1>3, <3>2
    <3> QED
      BY <1>6, <3>1, <3>2
  <2> QED
    BY <1>1, <1>10, <2>1, <2>2, <2>3, Referents DEF IInv, Evidence
<1>12. Accounts'
  BY <1>1 DEF IInv, Accounts
<1>13. Words'
  <2> SUFFICES ASSUME faults = {} PROVE Words'
    BY <1>1 DEF Words
  <2>1. Pending(a)'
    BY <1>3, <1>5 DEF Pending
  <2>2. \A b : Pending(b) => Pending(b)'
    BY <1>4, <1>5 DEF Pending
  <2>3. ASSUME NEW i \in DOMAIN events', Newest(i)' PROVE events'[i].level = level'[events'[i].account]
    <3>1. CASE i = n + 1
      BY <1>1, <1>3, <1>5, <3>1
    <3>2. CASE i \in DOMAIN events /\ events'[i] = events[i]
      <4>1. events[i].account # a
        BY <1>3, <1>4, <1>5, <2>3, <3>2 DEF Newest
      <4>2. Newest(i)
        BY <1>4, <1>5, <2>3, <3>2 DEF Newest
      <4> QED
        <5>1. events[i].level = level[events[i].account]
          BY <3>2, <4>2 DEF IInv, Words
        <5>2. events[i].account \in Requests
          BY <3>2, Referents
        <5> QED
          BY <1>1, <3>2, <4>1, <5>1, <5>2
    <3> QED
      BY <1>6, <3>1, <3>2
  <2>4. \A s : Saving(s)' <=> Saving(s)
    BY <1>1 DEF Saving
  <2>5. \A q \in Requests : pc[q] = "save_connect" /\ ~Pending(want[q].account)'
          => target[q] \notin Stores \/ want[q].level = level'[want[q].account]
    BY <1>1, <2>1, <2>2, Referents DEF IInv, Words
  <2>6. \A s \in Stores : store[s].connect # None /\ ~Saving(s) /\ ~Pending(AccountOf(s))'
          => store[s].connect.level = level'[AccountOf(s)]
    BY <1>1, <2>1, <2>2, Referents DEF IInv, Words, AccountOf
  <2> QED
    BY <1>1, <2>3, <2>4, <2>5, <2>6 DEF IInv, Words, AccountOf
<1>14. Forms'
  BY <1>1 DEF IInv, Forms
<1> QED
  BY <1>7, <1>8, <1>9, <1>11, <1>12, <1>13, <1>14 DEF IInv

-----------------------------------------------------------------------------
\* A request that begins keeps the invariant, whatever its kind.
LEMMA SomeBegin ==
  ASSUME IInv, NEW r \in Requests, NEW s \in Requests, NEW u \in Providers, NEW phone \in Phones,
         \/ BeginCreate(r, u, phone) \/ BeginUpdatePhone(r, s, phone)
         \/ BeginResend(r, s) \/ BeginValidate(r, s) \/ BeginSchedule(r, s) \/ BeginPricing(r, s)
         \/ BeginConfirm(r, s) \/ BeginLink(r, s) \/ BeginSync(r, s)
  PROVE  IInv'
<1>1. TypeOK /\ \A t \in Stores : store[t] \in StoreDoc
  BY DEF IInv, TypeOK, Stores
<1>2. \A t \in Stores : store[t].connect # None => store[t].connect \in Connect
  BY <1>1 DEF StoreDoc
<1>3. CASE BeginCreate(r, u, phone)
  <2> DEFINE d == [owner |-> u, phone |-> phone]
  <2>1. Fits(r, r, d, None, "insert_store")
    BY DEF Fits, PC
  <2> QED
    BY <1>3, <2>1, BeginKeeps DEF BeginCreate
<1>4. CASE BeginUpdatePhone(r, s, phone)
  <2>1. Fits(r, s, store[s], phone, "save_phone")
    BY <1>4 DEF Fits, PC, BeginUpdatePhone
  <2> QED
    BY <1>1, <1>4, <2>1, BeginKeeps DEF BeginUpdatePhone
<1>5. CASE BeginResend(r, s)
  <2>1. Fits(r, s, store[s], None, "store_code")
    BY <1>5 DEF Fits, PC, BeginResend
  <2> QED
    BY <1>1, <1>5, <2>1, BeginKeeps DEF BeginResend
<1>6. CASE BeginValidate(r, s)
  <2>1. Fits(r, s, store[s], None, "mark_validated")
    BY <1>6 DEF Fits, PC, BeginValidate
  <2> QED
    BY <1>1, <1>6, <2>1, BeginKeeps DEF BeginValidate
<1>7. CASE BeginSchedule(r, s)
  <2>1. Fits(r, s, store[s], None, "save_schedule")
    BY <1>7 DEF Fits, PC, BeginSchedule
  <2> QED
    BY <1>1, <1>7, <2>1, BeginKeeps DEF BeginSchedule
<1>8. CASE BeginPricing(r, s)
  <2>1. Fits(r, s, store[s], None, "save_pricing")
    BY <1>8 DEF Fits, PC, BeginPricing
  <2> QED
    BY <1>1, <1>8, <2>1, BeginKeeps DEF BeginPricing
<1>9. CASE BeginConfirm(r, s)
  <2>1. Fits(r, s, store[s], None, "save_confirmation")
    BY <1>9 DEF Fits, PC, BeginConfirm
  <2> QED
    BY <1>1, <1>9, <2>1, BeginKeeps DEF BeginConfirm
<1>10. CASE BeginLink(r, s) /\ HasAccount(store[s])
  <2>1. s \in Stores /\ store[s].connect # None
    BY <1>10 DEF BeginLink, HasAccount
  <2>2. Fits(r, s, store[s], store[s].connect, "create_link")
    BY <2>1 DEF Fits, PC
  <2> QED
    BY <1>1, <1>2, <1>10, <2>1, <2>2, BeginKeeps DEF BeginLink
<1>11. CASE BeginLink(r, s) /\ ~HasAccount(store[s])
  <2> DEFINE w == [account |-> r, level |-> "created"]
  <2>1. s \in Stores /\ store[s].connect = None /\ w \in Connect
    BY <1>11 DEF BeginLink, HasAccount, Connect, Levels
  <2>2. Fits(r, s, store[s], w, "create_account")
    BY <2>1 DEF Fits, PC
  <2>3. Begin(r, s, store[s], w, "create_account") /\ UNCHANGED stripe
    BY <1>11 DEF BeginLink
  <2> QED
    BY <1>1, <2>1, <2>2, <2>3, BeginKeeps
<1>12. CASE BeginSync(r, s)
  <2>1. s \in Stores /\ store[s].connect # None
    BY <1>12 DEF BeginSync
  <2>2. Fits(r, s, store[s], store[s].connect, "retrieve")
    BY <2>1 DEF Fits, PC
  <2> QED
    BY <1>1, <1>2, <1>12, <2>1, <2>2, BeginKeeps DEF BeginSync
<1> QED
  BY <1>3, <1>4, <1>5, <1>6, <1>7, <1>8, <1>9, <1>10, <1>11, <1>12

\* A write keeps the invariant if it writes what its request may write.
LEMMA WritingKeeps ==
  ASSUME IInv, NEW r \in Requests, NEW label, NEW v, NEW next \in {"done", "create_link"},
         Write(r, label, v, next), label \in PC \ {"idle", "done"},
         target[r] \in Stores => Edits(r, target[r], v, next),
         next = "create_link" => label = "save_account"
  PROVE  IInv'
<1> DEFINE n == IF target[r] \in Stores THEN next ELSE "done"
<1>1. sent' \in [Requests -> Phones \cup {None}]
  BY DEF Write, IInv, TypeOK
<1>2. Busy(r) /\ pc' = [pc EXCEPT ![r] = n] /\ UNCHANGED <<faults, stripe, memory>>
  BY DEF Write, Goto, Busy
<1>3. target[r] \in Stores => Edits(r, target[r], v, n)
  OBVIOUS
<1>4. n = "create_link" => pc[r] = "save_account"
  BY DEF Write
<1>5. n \in {"done", "send_code", "create_link"} /\ n # "send_code"
  OBVIOUS
<1>6. store' = IF target[r] \in Stores THEN [store EXCEPT ![target[r]] = v] ELSE store
  BY DEF Write
<1> HIDE DEF n
<1> QED
  BY <1>1, <1>2, <1>3, <1>4, <1>5, <1>6, WriteKeeps

\* The writes of the funnel: each writes a document, and leaves the account to the
\* requests that deal with it.
LEMMA WritesKeep ==
  ASSUME IInv, NEW r \in Requests,
         \/ SavePhone(r) \/ MarkValidated(r) \/ SaveSchedule(r) \/ SavePricing(r)
         \/ SaveConfirmation(r) \/ SaveAccount(r) \/ SaveConnect(r)
  PROVE  IInv'
<1> USE StoresAssumption
<1> DEFINE s == target[r]
           old == store[s]
<1>1. TypeOK /\ (s \in Stores => s \in Requests /\ old \in StoreDoc)
  BY DEF IInv, TypeOK, Stores
<1>2. \A d \in StoreDoc : d.owner \in Providers /\ d.phone \in Phones /\ d.code \in Requests \cup {None}
                          /\ d.delivery \in Delivery \cup {None}
  BY DEF StoreDoc
<1>3. CASE SavePhone(r)
  <2>1. CASE PhoneTaken(want[r], target[r])
    <3>1. /\ pc[r] = "save_phone" /\ pc' = [pc EXCEPT ![r] = "done"]
          /\ UNCHANGED <<faults, store, sent, stripe, memory>>
      BY <1>3, <2>1 DEF SavePhone, Goto
    <3>2. sent' \in [Requests -> Phones \cup {None}] /\ Busy(r)
      BY <1>1, <3>1 DEF TypeOK, Busy
    <3>3. store' = IF target[r] \in Stores THEN [store EXCEPT ![target[r]] = old] ELSE store
      BY <1>1, <3>1 DEF TypeOK
    <3>4. target[r] \in Stores => Edits(r, target[r], old, "done")
      BY <1>1, <3>1 DEF Edits
    <3> QED
      BY <3>1, <3>2, <3>3, <3>4, WriteKeeps
  <2>2. CASE ~PhoneTaken(want[r], target[r])
    <3> DEFINE v == [old EXCEPT !.phone = want[r], !.validated = @ /\ want[r] = doc[r].phone]
    <3>1. Write(r, "save_phone", v, "done") /\ pc[r] = "save_phone"
      BY <1>3, <2>2 DEF SavePhone, Write
    <3>2. want[r] \in Phones
      BY <3>1 DEF IInv, Contexts
    <3>3. s \in Stores => /\ v \in StoreDoc /\ v.owner = old.owner /\ v.phone = want[r] /\ v.connect = old.connect
      BY <1>1, <3>2 DEF StoreDoc
    <3>4. s \in Stores => Edits(r, s, v, "done")
      BY <2>2, <3>1, <3>3 DEF Edits
    <3> HIDE DEF v
    <3> QED
      BY <3>1, <3>4, WritingKeeps DEF PC
  <2> QED
    BY <2>1, <2>2
<1>4. CASE MarkValidated(r)
  <2> DEFINE v == [old EXCEPT !.validated = TRUE, !.code = None, !.proof = sent[doc[r].code]]
  <2>1. Write(r, "mark_validated", v, "done") /\ pc[r] = "mark_validated"
    BY <1>4 DEF MarkValidated, Write
  <2>2. sent[doc[r].code] \in Phones \cup {None}
    BY <1>1, <1>2, <2>1 DEF IInv, Contexts, TypeOK
  <2>3. s \in Stores => /\ v \in StoreDoc /\ v.owner = old.owner /\ v.phone = old.phone /\ v.connect = old.connect
    BY <1>1, <2>2 DEF StoreDoc
  <2>4. s \in Stores => Edits(r, s, v, "done")
    BY <2>1, <2>3 DEF Edits
  <2> HIDE DEF v
  <2> QED
    BY <2>1, <2>4, WritingKeeps DEF PC
<1>5. ASSUME NEW half \in Delivery
      PROVE  LET v == [old EXCEPT !.delivery = half] IN
             s \in Stores => /\ v \in StoreDoc /\ v.owner = old.owner /\ v.phone = old.phone
                            /\ v.connect = old.connect
  BY <1>1 DEF StoreDoc
<1>6. CASE SaveSchedule(r)
  <2> DEFINE half == [schedule |-> r, pricing |-> LoadedPricing(r)]
             v == [old EXCEPT !.delivery = half]
  <2>1. Write(r, "save_schedule", v, "done") /\ pc[r] = "save_schedule"
    BY <1>6 DEF SaveSchedule, Write
  <2>2. half \in Delivery
    <3>1. doc[r].delivery \in Delivery \cup {None}
      BY <1>2, <2>1 DEF IInv, Contexts
    <3>2. LoadedPricing(r) \in Requests \cup {None}
      BY <3>1 DEF LoadedPricing, Delivery
    <3> QED
      BY <3>2 DEF Delivery
  <2>3. s \in Stores => Edits(r, s, v, "done")
    BY <1>5, <2>1, <2>2 DEF Edits
  <2> HIDE DEF v
  <2> QED
    BY <2>1, <2>3, WritingKeeps DEF PC
<1>7. CASE SavePricing(r)
  <2> DEFINE half == [schedule |-> doc[r].delivery.schedule, pricing |-> r]
             v == [old EXCEPT !.delivery = half]
  <2>1. Write(r, "save_pricing", v, "done") /\ pc[r] = "save_pricing"
    BY <1>7 DEF SavePricing, Write
  <2>2. half \in Delivery
    <3>1. doc[r].delivery \in Delivery
      BY <1>2, <2>1 DEF IInv, Contexts
    <3> QED
      BY <3>1 DEF Delivery
  <2>3. s \in Stores => Edits(r, s, v, "done")
    BY <1>5, <2>1, <2>2 DEF Edits
  <2> HIDE DEF v
  <2> QED
    BY <2>1, <2>3, WritingKeeps DEF PC
<1>8. CASE SaveConfirmation(r)
  <2> DEFINE v == [old EXCEPT !.state = "pending-review"]
  <2>1. Write(r, "save_confirmation", v, "done") /\ pc[r] = "save_confirmation"
    BY <1>8 DEF SaveConfirmation, Write
  <2>2. s \in Stores => /\ v \in StoreDoc /\ v.owner = old.owner /\ v.phone = old.phone /\ v.connect = old.connect
    BY <1>1 DEF StoreDoc
  <2>3. s \in Stores => Edits(r, s, v, "done")
    BY <2>1, <2>2 DEF Edits
  <2> HIDE DEF v
  <2> QED
    BY <2>1, <2>3, WritingKeeps DEF PC
<1>9. ASSUME NEW c \in Connect \cup {None}
      PROVE  LET v == [old EXCEPT !.connect = c] IN
             s \in Stores => v \in StoreDoc /\ v.owner = old.owner /\ v.phone = old.phone /\ v.connect = c
  BY <1>1 DEF StoreDoc
<1>10. CASE SaveAccount(r)
  <2> DEFINE v == [old EXCEPT !.connect = want[r]]
  <2>1. Write(r, "save_account", v, "create_link") /\ pc[r] = "save_account"
    BY <1>10 DEF SaveAccount, Write
  <2>2. want[r] \in Connect
    BY <2>1, OwnAccount
  <2>3. s \in Stores => Edits(r, s, v, "create_link")
    BY <1>9, <2>1, <2>2 DEF Edits
  <2> HIDE DEF v
  <2> QED
    BY <2>1, <2>3, WritingKeeps DEF PC
<1>11. CASE SaveConnect(r)
  <2> DEFINE c == NewConnect(r)
             v == [old EXCEPT !.connect = c]
  <2>1. Write(r, "save_connect", v, "done") /\ pc[r] = "save_connect"
    BY <1>11 DEF SaveConnect, Write
  <2>2. want[r] \in Connect
    BY <2>1 DEF IInv, Contexts
  <2>3. s \in Stores => old.connect \in Connect \cup {None}
    BY <1>1 DEF StoreDoc
  <2>4. s \in Stores => c \in Connect \cup {None} /\ c \in {old.connect, want[r]}
    BY <2>2, <2>3 DEF NewConnect
  <2>5. s \in Stores /\ faults = {} => c = want[r]
    BY <2>1 DEF NewConnect, IInv, Words
  <2>6. s \in Stores => Edits(r, s, v, "done")
    <3> HIDE DEF c
    <3> QED
      BY <1>9, <2>1, <2>4, <2>5 DEF Edits
  <2> HIDE DEF v
  <2> QED
    BY <2>1, <2>6, WritingKeeps DEF PC
<1> QED
  BY <1>3, <1>4, <1>6, <1>7, <1>8, <1>10, <1>11

\* Storing a code, sending it, or failing.
LEMMA OtherStepsKeep ==
  ASSUME IInv, NEW r \in Requests, StoreCode(r) \/ SendCode(r) \/ RequestFails(r)
  PROVE  IInv'
<1> DEFINE s == target[r]
           old == store[s]
<1>1. TypeOK /\ (s \in Stores => s \in Requests /\ old \in StoreDoc)
  BY DEF IInv, TypeOK, Stores
<1>2. s \in Stores /\ store' = store => store' = [store EXCEPT ![s] = old]
  BY <1>1 DEF TypeOK
<1>3. CASE StoreCode(r)
  <2> DEFINE v == [old EXCEPT !.code = r]
  <2>1. /\ pc[r] = "store_code" /\ Busy(r) /\ pc' = [pc EXCEPT ![r] = "send_code"]
        /\ UNCHANGED <<faults, sent, stripe, memory>>
    BY <1>3 DEF StoreCode, Goto, Busy
  <2>2. sent' \in [Requests -> Phones \cup {None}]
    BY <1>1, <2>1 DEF TypeOK
  <2>3. s \in Stores => store' = [store EXCEPT ![s] = v]
    BY <1>1, <1>3 DEF StoreCode, TypeOK
  <2>4. s \notin Stores => store' = store
    BY <1>3 DEF StoreCode
  <2>5. s \in Stores => /\ v \in StoreDoc /\ v.owner = old.owner /\ v.phone = old.phone /\ v.connect = old.connect
    BY <1>1 DEF StoreDoc
  <2>6. s \in Stores => Edits(r, s, v, "send_code")
    BY <2>1, <2>5 DEF Edits
  <2> HIDE DEF v
  <2> QED
    BY <2>1, <2>2, <2>3, <2>4, <2>6, WriteKeeps
<1>4. CASE SendCode(r)
  <2>1. /\ pc[r] = "send_code" /\ Busy(r) /\ pc' = [pc EXCEPT ![r] = "done"]
        /\ UNCHANGED <<faults, store, stripe, memory>>
    BY <1>4 DEF SendCode, Goto, Busy
  <2>2. doc[r].phone \in Phones
    BY <2>1 DEF IInv, Contexts
  <2>3. sent' \in [Requests -> Phones \cup {None}]
    BY <1>1, <1>4, <2>2 DEF SendCode, TypeOK
  <2>4. s \in Stores => Edits(r, s, old, "done")
    BY <1>1, <2>1 DEF Edits
  <2> QED
    BY <1>2, <2>1, <2>3, <2>4, WriteKeeps
<1>5. CASE RequestFails(r)
  <2>1. /\ "failure" \in faults /\ Busy(r) /\ pc' = [pc EXCEPT ![r] = "done"]
        /\ UNCHANGED <<faults, store, sent, stripe, memory>>
    BY <1>5 DEF RequestFails, Goto, Busy
  <2>2. sent' \in [Requests -> Phones \cup {None}]
    BY <1>1, <2>1 DEF TypeOK
  <2>3. ASSUME s \in Stores, pc[r] = "save_account" PROVE old.connect # want[r]
    <3>1. want[r] # None /\ want[r].account = r
      BY <2>3, StoresAssumption, OwnAccount DEF Connect
    <3>2. r \notin Settled
      BY <2>3 DEF Settled
    <3> QED
      BY <2>3, <3>1, <3>2 DEF IInv, Names, AccountOf
  <2>4. s \in Stores => Edits(r, s, old, "done")
    BY <1>1, <2>1, <2>3 DEF Edits
  <2> QED
    BY <1>2, <2>1, <2>2, <2>4, WriteKeeps
<1> QED
  BY <1>3, <1>4, <1>5

\* The inductive invariant holds when the process starts.
THEOREM InitIInv == Init => IInv
<1> SUFFICES ASSUME Init PROVE IInv
  OBVIOUS
<1> USE StoresAssumption
<1>1. /\ store = [s \in Requests |-> None] /\ sent = [r \in Requests |-> None]
      /\ level = [a \in Requests |-> None] /\ reached = [a \in Requests |-> {}]
      /\ linked = {} /\ events = <<>> /\ pc = [r \in Requests |-> "idle"]
      /\ target = [r \in Requests |-> None] /\ doc = [r \in Requests |-> None]
      /\ want = [r \in Requests |-> None]
      /\ Stores = {} /\ DOMAIN events = {}
  BY DEF Init, Stores
<1>2. TypeOK
  BY <1>1 DEF TypeOK, PC
<1>3. Contexts /\ OwnersAndPhonesAreUnique /\ Names /\ Forms /\ Belongs
  BY <1>1 DEF Contexts, Busy, OwnersAndPhonesAreUnique, Names, Forms, Belongs
<1>4. Evidence /\ Alone /\ Halves /\ Accounts
  BY <1>1 DEF Evidence, PayoutAccountWasReady, Alone, Busy, Halves, Accounts
<1>5. Words
  BY <1>1 DEF Words
<1> QED
  BY <1>2, <1>3, <1>4, <1>5 DEF IInv

\* Every step keeps the inductive invariant.
THEOREM NextIInv == IInv /\ [Next]_vars => IInv'
<1> SUFFICES ASSUME IInv, [Next]_vars PROVE IInv'
  OBVIOUS
<1>1. ASSUME NEW r \in Requests, RequestStep(r) \/ RequestFails(r) PROVE IInv'
  BY <1>1, InsertStoreKeeps, OtherStepsKeep, WritesKeep, CreateAccountKeeps, CreateLinkKeeps, RetrieveKeeps
     DEF RequestStep
<1>2. ASSUME NEW r \in Requests, NEW s \in Requests,
             \/ \E u \in Providers, phone \in Phones : BeginCreate(r, u, phone)
             \/ \E phone \in Phones : BeginUpdatePhone(r, s, phone)
             \/ BeginResend(r, s) \/ BeginValidate(r, s) \/ BeginSchedule(r, s) \/ BeginPricing(r, s)
             \/ BeginConfirm(r, s) \/ BeginLink(r, s) \/ BeginSync(r, s)
      PROVE  IInv'
  <2>1. CASE \E u \in Providers, phone \in Phones : BeginCreate(r, u, phone)
    BY <2>1, SomeBegin
  <2>2. CASE \E q \in Stores : TRUE
    <3>1. PICK q \in Stores : TRUE
      BY <2>2
    <3>2. store[q].owner \in Providers /\ store[q].phone \in Phones
      BY <3>1 DEF IInv, TypeOK, Stores, StoreDoc
    <3> QED
      BY <1>2, <3>2, SomeBegin
  <2>3. CASE ~(\E q \in Stores : TRUE)
    BY <1>2, <2>1, <2>3 DEF BeginUpdatePhone, BeginResend, BeginValidate, BeginSchedule, BeginPricing,
       BeginConfirm, BeginLink, BeginSync
  <2> QED
    BY <2>2, <2>3
<1>3. ASSUME NEW a \in Requests,
             \/ StripeUpdates(a, "created", "submitted")
             \/ StripeUpdates(a, "submitted", "complete")
             \/ StripeUpdates(a, "complete", "submitted")
      PROVE  IInv'
  BY <1>3, StripeKeeps DEF Levels
<1>4. CASE UNCHANGED vars
  BY <1>4 DEF vars, stripe, memory, IInv, TypeOK, Contexts, OwnersAndPhonesAreUnique, Names, Forms, Belongs,
     Evidence, PayoutAccountWasReady, Alone, Halves, Accounts, Words, Stores, Settled, Busy, AccountOf,
     Newest, Pending, Saving
<1>5. CASE Next
  BY <1>1, <1>2, <1>3, <1>5, AccountEventKeeps, DropKeeps, RemoveStoreKeeps DEF Next
<1> QED
  BY <1>4, <1>5

\* The inductive invariant holds in every reachable state.
THEOREM SpecIInv == Spec => []IInv
BY InitIInv, NextIInv, PTL DEF Spec

\* Every variable keeps its type in every behaviour.
THEOREM TypeCorrect == Spec => []TypeOK
<1>1. IInv => TypeOK
  BY DEF IInv
<1> QED
  BY <1>1, SpecIInv, PTL

\* Whatever overlaps or fails, no two stores have one owner or one phone.
THEOREM OwnersAndPhonesAreUniqueAlways == Spec => []OwnersAndPhonesAreUnique
<1>1. IInv => OwnersAndPhonesAreUnique
  BY DEF IInv
<1> QED
  BY <1>1, SpecIInv, PTL

\* Whatever overlaps, fails or arrives out of order, a store only has an account at a
\* level that Stripe declared of this account.
THEOREM PayoutAccountWasReadyAlways == Spec => []PayoutAccountWasReady
<1>1. IInv => PayoutAccountWasReady
  BY DEF IInv, Evidence
<1> QED
  BY <1>1, SpecIInv, PTL

\* A store gets one Stripe account unless requests overlap or fail.
THEOREM OneAccountPerStoreAlways == Spec => []OneAccountPerStore
<1>1. IInv => OneAccountPerStore
  BY DEF IInv, Accounts, OneAccountPerStore
<1> QED
  BY <1>1, SpecIInv, PTL

\* Without faults the copy catches up with Stripe as soon as nothing is in flight.
THEOREM CopyIsCurrentAlways == Spec => []CopyIsCurrent
<1>1. IInv => CopyIsCurrent
  <2> SUFFICES ASSUME IInv, faults = {}, Quiet, NEW s \in Stores, store[s].connect # None,
                      \A i \in DOMAIN events : events[i].account # AccountOf(s)
               PROVE  store[s].connect.level = level[AccountOf(s)]
    BY DEF CopyIsCurrent
  <2>1. ~Saving(s)
    BY DEF Saving, Quiet, InFlight
  <2>2. ~Pending(AccountOf(s))
    BY DEF Pending
  <2> QED
    BY <2>1, <2>2 DEF IInv, Words
<1> QED
  BY <1>1, SpecIInv, PTL

\* Only the requests for hours and prices touch the delivery of a store that stays.
LEMMA DeliveryStays ==
  ASSUME IInv, [Next]_vars, NEW s \in Stores, store'[s] # None,
         store'[s].delivery # store[s].delivery
  PROVE  \E r \in Requests : s = target[r] /\ (SaveSchedule(r) \/ SavePricing(r))
<1> USE StoresAssumption
<1>1. TypeOK /\ s \in Requests /\ store[s] \in StoreDoc
  BY DEF IInv, TypeOK, Stores
<1>2. store' # store
  OBVIOUS
<1>3. PICK r \in Requests :
        \/ InsertStore(r) \/ StoreCode(r) \/ SavePhone(r) \/ MarkValidated(r) \/ SaveSchedule(r)
        \/ SavePricing(r) \/ SaveConfirmation(r) \/ SaveAccount(r) \/ SaveConnect(r) \/ RemoveStore(r)
  BY <1>2 DEF Next, vars, RequestStep, RequestFails, SendCode, CreateAccount, CreateLink, Retrieve,
     BeginCreate, BeginUpdatePhone, BeginResend, BeginValidate, BeginSchedule, BeginPricing,
     BeginConfirm, BeginLink, BeginSync, BeginAccountEvent, DropEvent, StripeUpdates, Begin
<1>4. ~InsertStore(r)
  <2> SUFFICES ASSUME InsertStore(r) PROVE FALSE
    OBVIOUS
  <2>1. s # r
    BY DEF InsertStore, IInv, Names
  <2> QED
    BY <1>1, <1>2, <2>1 DEF InsertStore, TypeOK
<1>5. ~RemoveStore(r)
  BY <1>1 DEF RemoveStore, TypeOK
<1> DEFINE old == store[target[r]]
<1>6. ASSUME NEW v, store' = IF target[r] \in Stores THEN [store EXCEPT ![target[r]] = v] ELSE store
      PROVE  s = target[r] /\ store'[s] = v
  BY <1>1, <1>2, <1>6 DEF TypeOK
<1>7. ~StoreCode(r)
  <2> SUFFICES ASSUME StoreCode(r) PROVE FALSE
    OBVIOUS
  <2> DEFINE v == [old EXCEPT !.code = r]
  <2>1. s = target[r] /\ store'[s] = v
    BY <1>2, <1>6 DEF StoreCode
  <2>2. v.delivery = old.delivery
    BY <1>1, <2>1 DEF StoreDoc
  <2> QED
    BY <2>1, <2>2
<1>8. ~SavePhone(r)
  <2> SUFFICES ASSUME SavePhone(r) PROVE FALSE
    OBVIOUS
  <2> DEFINE v == [old EXCEPT !.phone = want[r], !.validated = @ /\ want[r] = doc[r].phone]
  <2>1. s = target[r] /\ store'[s] = v
    BY <1>2, <1>6 DEF SavePhone, Write
  <2>2. v.delivery = old.delivery
    BY <1>1, <2>1 DEF StoreDoc
  <2> QED
    BY <2>1, <2>2
<1>9. ~MarkValidated(r)
  <2> SUFFICES ASSUME MarkValidated(r) PROVE FALSE
    OBVIOUS
  <2> DEFINE v == [old EXCEPT !.validated = TRUE, !.code = None, !.proof = sent[doc[r].code]]
  <2>1. s = target[r] /\ store'[s] = v
    BY <1>2, <1>6 DEF MarkValidated, Write
  <2>2. v.delivery = old.delivery
    BY <1>1, <2>1 DEF StoreDoc
  <2> QED
    BY <2>1, <2>2
<1>10. ~SaveConfirmation(r)
  <2> SUFFICES ASSUME SaveConfirmation(r) PROVE FALSE
    OBVIOUS
  <2> DEFINE v == [old EXCEPT !.state = "pending-review"]
  <2>1. s = target[r] /\ store'[s] = v
    BY <1>2, <1>6 DEF SaveConfirmation, Write
  <2>2. v.delivery = old.delivery
    BY <1>1, <2>1 DEF StoreDoc
  <2> QED
    BY <2>1, <2>2
<1>11. ~SaveAccount(r)
  <2> SUFFICES ASSUME SaveAccount(r) PROVE FALSE
    OBVIOUS
  <2> DEFINE v == [old EXCEPT !.connect = want[r]]
  <2>1. s = target[r] /\ store'[s] = v
    BY <1>2, <1>6 DEF SaveAccount, Write
  <2>2. v.delivery = old.delivery
    BY <1>1, <2>1 DEF StoreDoc
  <2> QED
    BY <2>1, <2>2
<1>12. ~SaveConnect(r)
  <2> SUFFICES ASSUME SaveConnect(r) PROVE FALSE
    OBVIOUS
  <2> DEFINE v == [old EXCEPT !.connect = NewConnect(r)]
  <2>1. s = target[r] /\ store'[s] = v
    BY <1>2, <1>6 DEF SaveConnect, Write
  <2>2. v.delivery = old.delivery
    BY <1>1, <2>1 DEF StoreDoc
  <2> QED
    BY <2>1, <2>2
<1>13. SaveSchedule(r) \/ SavePricing(r)
  BY <1>3, <1>4, <1>5, <1>7, <1>8, <1>9, <1>10, <1>11, <1>12
<1>14. s = target[r]
  BY <1>1, <1>13 DEF SaveSchedule, SavePricing, Write, TypeOK
<1> QED
  BY <1>13, <1>14

\* Unless requests overlap, a change of the hours keeps the prices, and conversely.
THEOREM DeliveryHalvesAreIndependentAlways == Spec => DeliveryHalvesAreIndependent
<1> DEFINE Kept == \A s \in Stores :
             "overlap" \notin faults /\ store[s].delivery # None /\ store'[s] # None =>
               LET old == store[s].delivery
                   new == store'[s].delivery
               IN  old.pricing = new.pricing \/ old.schedule = new.schedule
<1>1. IInv /\ [Next]_vars => [Kept]_vars
  <2> SUFFICES ASSUME IInv, [Next]_vars, NEW s \in Stores, "overlap" \notin faults,
                      store[s].delivery # None, store'[s] # None
               PROVE  \/ store[s].delivery.pricing = store'[s].delivery.pricing
                      \/ store[s].delivery.schedule = store'[s].delivery.schedule
    OBVIOUS
  <2>1. CASE store'[s].delivery = store[s].delivery
    BY <2>1
  <2>2. CASE store'[s].delivery # store[s].delivery
    <3>1. PICK r \in Requests : s = target[r] /\ (SaveSchedule(r) \/ SavePricing(r))
      BY <2>2, DeliveryStays
    <3>2. pc[r] \in {"save_schedule", "save_pricing"}
      BY <3>1 DEF SaveSchedule, SavePricing, Write
    <3>3. store[s].delivery = doc[r].delivery
      BY <3>1, <3>2 DEF IInv, Halves
    <3>4. s \in Requests /\ store[s] \in StoreDoc /\ store \in [Requests -> StoreDoc \cup {None}]
      BY DEF IInv, TypeOK, Stores
    <3>5. CASE SaveSchedule(r)
      <4>1. store'[s].delivery = [schedule |-> r, pricing |-> LoadedPricing(r)]
        BY <3>1, <3>4, <3>5 DEF SaveSchedule, Write, StoreDoc
      <4> QED
        BY <3>3, <4>1 DEF LoadedPricing
    <3>6. CASE SavePricing(r)
      <4>1. store'[s].delivery = [schedule |-> doc[r].delivery.schedule, pricing |-> r]
        BY <3>1, <3>4, <3>6 DEF SavePricing, Write, StoreDoc
      <4> QED
        BY <3>3, <4>1
    <3> QED
      BY <3>1, <3>5, <3>6
  <2> QED
    BY <2>1, <2>2
<1> QED
  BY <1>1, SpecIInv, PTL DEF Spec, DeliveryHalvesAreIndependent
=============================================================================
