-------------------------------- MODULE Stores --------------------------------
(***************************************************************************)
(* A provider's store and its Stripe Connect account:                      *)
(* provider/store/store.service.ts and payments/stripe-connect.service.ts. *)
(*                                                                         *)
(* Opening a store is a funnel: profile, verified phone, delivery hours    *)
(* and prices, Stripe onboarding, confirmation.  Each step loads the       *)
(* store, decides, and writes.  Stripe keeps the account; the store keeps  *)
(* a copy of its flags, refreshed by polling and by webhook events.        *)
(*                                                                         *)
(* Requests stop at each await, as in Payments.  A store, a code, a        *)
(* schedule, a price list and a Stripe account bear the name of the        *)
(* request that made them.  Name, address, avatar and pickup hours take no *)
(* part in what follows and are left out.                                  *)
(***************************************************************************)
EXTENDS Naturals, Sequences, SequencesExt

CONSTANTS Providers,  \* users
          Phones,     \* cell phone numbers
          Requests,   \* API requests and webhook deliveries, numbered as they arrive
          MaxEvents,  \* bound on the Stripe events in flight
          Budget,     \* how many requests are served, for each set of faults
          None        \* no document, no value

\* How far Stripe is with an account: nothing, details_submitted, and also
\* payouts_enabled with the transfers capability (onboardingComplete).
Levels == {"created", "submitted", "complete"}

\* Two requests overlap; an awaited call throws, or the process dies; Stripe delivers
\* events out of order.
Faults == {"overlap", "failure", "reordering"}

ASSUME StoresAssumption ==
  /\ \E S \in SUBSET SUBSET Faults : Budget \in [S -> Nat]
  /\ Requests \subseteq Nat
  /\ MaxEvents \in Nat
  /\ None \notin Requests \cup Phones \cup Providers
  /\ None \notin Levels /\ None \notin [account: Requests, level: Levels]

\* `proof` is the phone that the entered code was sent to; the code does not store it.
Delivery == [schedule: Requests, pricing: Requests \cup {None}]
Connect == [account: Requests, level: Levels]
StoreDoc == [owner: Providers, phone: Phones, validated: BOOLEAN, proof: Phones \cup {None},
             code: Requests \cup {None}, delivery: Delivery \cup {None},
             connect: Connect \cup {None}, state: {"missing-info", "pending-review"}]

VARIABLES faults,   \* what may go wrong, chosen once
          store,    \* MongoDB: stores, by the request that created them
          sent,     \* the phone each request sent its code to
          level,    \* Stripe: accounts
          reached,  \* history: the levels each account has had
          linked,   \* accounts whose onboarding form the provider was given
          events,   \* account.updated events in flight
          pc,       \* where each request is
          target,   \* the store each request works on
          doc,      \* the store document each request loaded
          want      \* what each request will write

vars == <<faults, store, sent, level, reached, linked, events, pc, target, doc, want>>
stripe == <<level, reached, linked, events>>
memory == <<target, doc, want>>

PC == {"idle", "insert_store", "store_code", "send_code", "save_phone", "mark_validated",
       "save_schedule", "save_pricing", "save_confirmation", "create_account", "save_account",
       "create_link", "retrieve", "save_connect", "done"}

Stores == {s \in Requests : store[s] # None}
InFlight == {r \in Requests : pc[r] \notin {"idle", "done"}}
Quiet == InFlight = {}
AccountOf(s) == IF store[s].connect = None THEN None ELSE store[s].connect.account

\* The request that comes next.
Idle(r) ==
  /\ pc[r] = "idle"
  /\ \A q \in Requests : q < r => pc[q] # "idle"
  /\ Cardinality({q \in Requests : pc[q] # "idle"}) < Budget[faults]
  /\ IF "overlap" \in faults THEN Cardinality(InFlight) < 2 ELSE Quiet

Goto(r, label) == pc' = [pc EXCEPT ![r] = label] /\ UNCHANGED faults

Begin(r, s, d, w, label) ==
  /\ Idle(r)
  /\ target' = [target EXCEPT ![r] = s]
  /\ doc' = [doc EXCEPT ![r] = d]
  /\ want' = [want EXCEPT ![r] = w]
  /\ Goto(r, label)
  /\ UNCHANGED <<store, sent>>

\* A write to the target store and to nothing else; it finds nothing if the store
\* was deleted.
Write(r, label, value, next) ==
  LET s == target[r] IN
  /\ pc[r] = label
  /\ store' = IF s \in Stores THEN [store EXCEPT ![s] = value] ELSE store
  /\ Goto(r, IF s \in Stores THEN next ELSE "done")
  /\ UNCHANGED <<sent, stripe, memory>>

-----------------------------------------------------------------------------
PhoneTaken(phone, except) == \E s \in Stores \ {except} : store[s].phone = phone
HasStore(u) == \E s \in Stores : store[s].owner = u

\* createProfile: neither the provider nor the phone has a store yet.  The code looks
\* for the one, then for the other; the unique indexes decide at the insertion.
BeginCreate(r, u, phone) ==
  /\ ~HasStore(u)
  /\ ~PhoneTaken(phone, None)
  /\ Begin(r, r, [owner |-> u, phone |-> phone], None, "insert_store")
  /\ UNCHANGED stripe

NewStore(u, phone) ==
  [owner |-> u, phone |-> phone, validated |-> FALSE, proof |-> None, code |-> None,
   delivery |-> None, connect |-> None, state |-> "missing-info"]

Insertable_OneOwner(d) == ~HasStore(d.owner)

\* The unique indexes of store.schema.ts.
Insertable(d) == ~HasStore(d.owner) /\ ~PhoneTaken(d.phone, None)

InsertStore(r) ==
  /\ pc[r] = "insert_store"
  /\ IF Insertable(doc[r])
     THEN store' = [store EXCEPT ![r] = NewStore(doc[r].owner, doc[r].phone)] /\ Goto(r, "store_code")
     ELSE UNCHANGED store /\ Goto(r, "done")
  /\ UNCHANGED <<sent, stripe, memory>>

\* sendCellVerificationCode: load the store's phone.
BeginResend(r, s) ==
  /\ s \in Stores
  /\ Begin(r, s, store[s], None, "store_code")
  /\ UNCHANGED stripe

\* setVerificationCodeForStore: store a new code ...
StoreCode(r) ==
  /\ pc[r] = "store_code"
  /\ store' = IF target[r] \in Stores THEN [store EXCEPT ![target[r]].code = r] ELSE store
  /\ Goto(r, "send_code")
  /\ UNCHANGED <<sent, stripe, memory>>

\* ... then send it to the phone that was loaded.
SendCode(r) ==
  /\ pc[r] = "send_code"
  /\ sent' = [sent EXCEPT ![r] = doc[r].phone]
  /\ Goto(r, "done")
  /\ UNCHANGED <<store, stripe, memory>>

\* updateProfile with a phone: it is no other store's.  The store is loaded before that
\* is looked up; the unique index decides at the write.
BeginUpdatePhone(r, s, phone) ==
  /\ s \in Stores
  /\ ~PhoneTaken(phone, s)
  /\ Begin(r, s, store[s], phone, "save_phone")
  /\ UNCHANGED stripe

\* ... then $set; a phone other than the loaded one is not validated.
SavePhone(r) ==
  /\ IF PhoneTaken(want[r], target[r])
     THEN pc[r] = "save_phone" /\ Goto(r, "done") /\ UNCHANGED <<store, sent, stripe, memory>>
     ELSE Write(r, "save_phone",
                [store[target[r]] EXCEPT !.phone = want[r],
                                         !.validated = @ /\ want[r] = doc[r].phone],
                "done")

\* validateCellCode: the caller presents the stored code.
BeginValidate(r, s) ==
  /\ s \in Stores
  /\ store[s].code # None
  /\ sent[store[s].code] # None
  /\ Begin(r, s, store[s], None, "mark_validated")
  /\ UNCHANGED stripe

MarkValidated(r) ==
  Write(r, "mark_validated",
        [store[target[r]] EXCEPT !.validated = TRUE, !.code = None, !.proof = sent[doc[r].code]],
        "done")

-----------------------------------------------------------------------------
\* updateDelivery: the hours are new, the prices those loaded (preserveDeliveryPricing).
BeginSchedule(r, s) ==
  /\ s \in Stores
  /\ Begin(r, s, store[s], None, "save_schedule")
  /\ UNCHANGED stripe

LoadedPricing_Dropped(r) == None
LoadedPricing(r) == IF doc[r].delivery = None THEN None ELSE doc[r].delivery.pricing

SaveSchedule(r) ==
  Write(r, "save_schedule",
        [store[target[r]] EXCEPT !.delivery = [schedule |-> r, pricing |-> LoadedPricing(r)]], "done")

\* updateDeliveryPricing: the prices are new, the hours those loaded.
BeginPricing(r, s) ==
  /\ s \in Stores
  /\ store[s].delivery # None
  /\ Begin(r, s, store[s], None, "save_pricing")
  /\ UNCHANGED stripe

SavePricing(r) ==
  Write(r, "save_pricing",
        [store[target[r]] EXCEPT !.delivery = [schedule |-> doc[r].delivery.schedule, pricing |-> r]], "done")

-----------------------------------------------------------------------------
\* confirmStore: once, with a validated phone and a submitted Stripe form.
Confirmable(s) ==
  /\ store[s].state = "missing-info"
  /\ store[s].validated
  /\ store[s].connect # None /\ store[s].connect.level # "created"

BeginConfirm(r, s) ==
  /\ s \in Stores
  /\ Confirmable(s)
  /\ Begin(r, s, store[s], None, "save_confirmation")
  /\ UNCHANGED stripe

SaveConfirmation(r) ==
  Write(r, "save_confirmation", [store[target[r]] EXCEPT !.state = "pending-review"], "done")

-----------------------------------------------------------------------------
HasAccount_Never(d) == FALSE
HasAccount(d) == d.connect # None

\* createAccountLink: load the store; make an account if it has none.
BeginLink(r, s) ==
  /\ s \in Stores
  /\ Begin(r, s, store[s],
           IF HasAccount(store[s]) THEN store[s].connect ELSE [account |-> r, level |-> "created"],
           IF HasAccount(store[s]) THEN "create_link" ELSE "create_account")
  /\ UNCHANGED stripe

CreateAccount(r) ==
  /\ pc[r] = "create_account"
  /\ level' = [level EXCEPT ![r] = "created"]
  /\ reached' = [reached EXCEPT ![r] = @ \cup {"created"}]
  /\ Goto(r, "save_account")
  /\ UNCHANGED <<store, sent, linked, events, memory>>

\* save() with emptyConnectStatus
SaveAccount(r) == Write(r, "save_account", [store[target[r]] EXCEPT !.connect = want[r]], "create_link")

\* The provider gets the link to Stripe's form, unless the request named an invalid
\* redirect: it is refused when the account is already made.
CreateLink(r) ==
  /\ pc[r] = "create_link"
  /\ linked' \in {linked, linked \cup {want[r].account}}
  /\ Goto(r, "done")
  /\ UNCHANGED <<store, sent, level, reached, events, memory>>

\* syncConnectStatus, and syncAccountByStripeId on capability.updated: load the
\* store, then ask Stripe.
BeginSync(r, s) ==
  /\ s \in Stores
  /\ store[s].connect # None
  /\ Begin(r, s, store[s], store[s].connect, "retrieve")
  /\ UNCHANGED stripe

Retrieve(r) ==
  /\ pc[r] = "retrieve"
  /\ want' = [want EXCEPT ![r].level = level[want[r].account]]
  /\ Goto(r, "save_connect")
  /\ UNCHANGED <<store, sent, stripe, target, doc>>

\* handleAccountUpdated: find the account's store; the flags are the event's.  An
\* event whose delivery fails is sent again.
BeginAccountEvent(r, i) ==
  /\ i \in DOMAIN events
  /\ "reordering" \in faults \/ i = 1
  /\ \E s \in Stores :
       /\ AccountOf(s) = events[i].account
       /\ Begin(r, s, store[s], events[i], "save_connect")
  /\ \/ events' = RemoveAt(events, i)
     \/ "failure" \in faults /\ UNCHANGED events
  /\ UNCHANGED <<level, reached, linked>>

\* ... an event of an unknown account is dropped.
DropEvent(i) ==
  /\ i \in DOMAIN events
  /\ "reordering" \in faults \/ i = 1
  /\ \A s \in Stores : AccountOf(s) # events[i].account
  /\ events' = RemoveAt(events, i)
  /\ UNCHANGED <<store, sent, level, reached, linked, pc, faults, memory>>

NewConnect_LevelOnly(r) ==
  IF store[target[r]].connect = None THEN want[r] ELSE [store[target[r]].connect EXCEPT !.level = want[r].level]
NewConnect_Unsynced(r) == store[target[r]].connect

\* save() writes the whole status if it differs from the loaded one.
NewConnect(r) == IF want[r] = doc[r].connect THEN store[target[r]].connect ELSE want[r]

SaveConnect(r) ==
  Write(r, "save_connect", [store[target[r]] EXCEPT !.connect = NewConnect(r)], "done")

\* Stripe: the provider submits the form; Stripe completes the onboarding, and may
\* ask for more.  Each change is announced.
StripeUpdates(a, from, to) ==
  /\ level[a] = from
  /\ from = "created" => a \in linked
  /\ Len(events) < MaxEvents
  /\ level' = [level EXCEPT ![a] = to]
  /\ reached' = [reached EXCEPT ![a] = @ \cup {to}]
  /\ events' = Append(events, [account |-> a, level |-> to])
  /\ UNCHANGED <<store, sent, linked, pc, faults, memory>>

-----------------------------------------------------------------------------
\* remove: the store's document; its Stripe account stays.
RemoveStore(s) ==
  /\ s \in Stores
  /\ store' = [store EXCEPT ![s] = None]
  /\ UNCHANGED <<faults, sent, stripe, pc, memory>>

\* An awaited call throws or the process dies; what was written stays written.
RequestFails(r) ==
  /\ "failure" \in faults
  /\ pc[r] \notin {"idle", "done"}
  /\ Goto(r, "done")
  /\ UNCHANGED <<store, sent, stripe, memory>>

Init ==
  /\ faults \in DOMAIN Budget
  /\ store = [s \in Requests |-> None]
  /\ sent = [r \in Requests |-> None]
  /\ level = [a \in Requests |-> None]
  /\ reached = [a \in Requests |-> {}]
  /\ linked = {}
  /\ events = <<>>
  /\ pc = [r \in Requests |-> "idle"]
  /\ target = [r \in Requests |-> None]
  /\ doc = [r \in Requests |-> None]
  /\ want = [r \in Requests |-> None]

RequestStep(r) ==
  \/ InsertStore(r) \/ StoreCode(r) \/ SendCode(r) \/ SavePhone(r) \/ MarkValidated(r)
  \/ SaveSchedule(r) \/ SavePricing(r) \/ SaveConfirmation(r)
  \/ CreateAccount(r) \/ SaveAccount(r) \/ CreateLink(r) \/ Retrieve(r) \/ SaveConnect(r)

Next ==
  \/ \E r \in Requests : RequestStep(r) \/ RequestFails(r)
  \/ \E r \in Requests, u \in Providers, phone \in Phones : BeginCreate(r, u, phone)
  \/ \E r, s \in Requests, phone \in Phones : BeginUpdatePhone(r, s, phone)
  \/ \E r, s \in Requests :
       \/ BeginResend(r, s) \/ BeginValidate(r, s) \/ BeginSchedule(r, s) \/ BeginPricing(r, s)
       \/ BeginConfirm(r, s) \/ BeginLink(r, s) \/ BeginSync(r, s)
  \/ \E r \in Requests, i \in 1 .. MaxEvents : BeginAccountEvent(r, i)
  \/ \E i \in 1 .. MaxEvents : DropEvent(i)
  \/ \E a \in Requests :
       \/ StripeUpdates(a, "created", "submitted")
       \/ StripeUpdates(a, "submitted", "complete")
       \/ StripeUpdates(a, "complete", "submitted")
  \/ \E s \in Requests : RemoveStore(s)

Spec == Init /\ [][Next]_vars

-----------------------------------------------------------------------------
\* The variables have the types of the schemas.
TypeOK ==
  /\ store \in [Requests -> StoreDoc \cup {None}]
  /\ sent \in [Requests -> Phones \cup {None}]
  /\ level \in [Requests -> Levels \cup {None}]
  /\ reached \in [Requests -> SUBSET Levels]
  /\ linked \subseteq Requests
  /\ events \in Seq(Connect)
  /\ pc \in [Requests -> PC]
  /\ target \in [Requests -> Requests \cup {None}]
  /\ doc \in [Requests -> StoreDoc \cup [owner: Providers, phone: Phones] \cup {None}]
  /\ want \in [Requests -> Phones \cup Connect \cup {None}]

\* "This provider already has a store (1:1)" and CELL_NOT_AVAILABLE, whatever
\* requests overlap between the checks and the writes.
OwnersAndPhonesAreUnique ==
  \A s, t \in Stores :
    store[s].owner = store[t].owner \/ store[s].phone = store[t].phone => s = t

\* Money is only ever sent to an account that Stripe declared complete: the copy
\* pairs an account with a level that this very account has had.
PayoutAccountWasReady ==
  \A s \in Stores : store[s].connect # None => store[s].connect.level \in reached[AccountOf(s)]

\* "Crea (si no existe) cuenta Connect": after requests that neither overlapped nor
\* failed, a store has one Stripe account.
OneAccountPerStore ==
  faults \cap {"overlap", "failure"} = {} => \A a, b \in Requests :
    level[a] # None /\ level[b] # None /\ target[a] = target[b] => a = b

\* "se sincroniza por webhook account.updated": when nothing is in flight and nothing
\* went wrong, the copy is what Stripe says.
CopyIsCurrent ==
  faults = {} /\ Quiet => \A s \in Stores :
    store[s].connect # None /\ (\A i \in DOMAIN events : events[i].account # AccountOf(s))
      => store[s].connect.level = level[AccountOf(s)]

\* Unless requests overlap, changing the delivery hours leaves the prices as they
\* are, and conversely.
DeliveryHalvesAreIndependent ==
  [][\A s \in Stores :
       "overlap" \notin faults /\ store[s].delivery # None /\ store'[s] # None =>
         LET old == store[s].delivery
             new == store'[s].delivery
         IN  old.pricing = new.pricing \/ old.schedule = new.schedule]_vars

\* "Valida el codigo y marca cellValidated en true": a validated phone is the one its
\* code was sent to.
ValidatedPhoneGotTheCode ==
  \A s \in Stores : store[s].validated => store[s].proof = store[s].phone
=============================================================================
