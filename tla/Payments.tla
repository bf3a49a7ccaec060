------------------------------ MODULE Payments ------------------------------
(***************************************************************************)
(* Charging a customer and paying the provider out:                        *)
(* contexts/payments/payment.service.ts and stripe-webhook.service.ts.     *)
(*                                                                         *)
(* The customer's money is held by the platform in a Stripe PaymentIntent; *)
(* MongoDB keeps one payment document per intent.  Every API request is a  *)
(* process that stops at each `await`: it keeps the document it loaded in  *)
(* memory (`doc`) while other requests and webhooks write the database.    *)
(* Stripe (intent, transfer, events) is external and is modelled from what *)
(* the code asks of it.                                                    *)
(*                                                                         *)
(* A definition named X_Y, next to X, is X with a plausible bug: replacing *)
(* X by it must break a property (PROJECT.json, "mutants").                *)
(***************************************************************************)
EXTENDS Integers, FiniteSets, FiniteSetsExt

CONSTANTS Payments,     \* names of PaymentIntents; a payment document has its intent's name
          Requests,     \* API requests; each one runs one operation
          Users,        \* customers
          Stores,       \* provider stores
          Amounts,      \* amounts a customer may be charged, in cents
          FeePercent,   \* STRIPE_PLATFORM_FEE_PERCENT
          MaxAttempts,  \* bound on the failed attempts to pay one intent
          None          \* "no document", "no intent", "no transfer"

CONSTANTS IsProduction, \* NODE_ENV is production: no confirm-test
          Overlap,      \* two API requests may be in flight at once
          MayFail,      \* an awaited call may throw, or the process may die
          Ordered,      \* webhooks of an intent arrive in the order of its events
          Redelivers    \* a webhook may be delivered again (Stripe: at least once)

Allowed == {"requires_payment_method", "requires_confirmation",
            "requires_action", "processing", "succeeded", "canceled"}
StripeStatus == Allowed \cup {"requires_capture"}
PaymentStatus == Allowed \cup {"failed", "transferred"}

Doc == [user: Users, store: Stores, amount: Amounts, provider: Int, fee: Int,
        status: PaymentStatus, transfer: Requests \cup {None}]
Transfer == [pay: Payments, to: Stores, amount: Int]
Event == [pay: Payments, n: Nat, status: StripeStatus]

ASSUME PaymentsAssumption ==
  /\ Amounts \subseteq Nat
  /\ FeePercent \in Nat
  /\ MaxAttempts \in Nat
  /\ {IsProduction, Overlap, MayFail, Ordered, Redelivers} \subseteq BOOLEAN
  /\ None \notin Payments \cup Requests \cup StripeStatus
  /\ None \notin Doc
  /\ None \notin Transfer

VARIABLES intent,     \* Stripe: status of each PaymentIntent, None before it exists
          attempts,   \* Stripe: number of events an intent has emitted
          events,     \* Stripe: webhook deliveries that may still arrive
          transfer,   \* Stripe: the transfer each request obtained, named by the request
          payment,    \* MongoDB: the payments collection
          onboarded,  \* MongoDB: stores that exist, with accountId and onboardingComplete
          secrets,    \* intents whose client secret a customer's app holds
          pc,         \* where each request is
          pay,        \* the payment each request works on
          doc         \* the document each request holds in memory

vars == <<intent, attempts, events, transfer, payment, onboarded, secrets, pc, pay, doc>>
stripe == <<intent, attempts, events, transfer>>
database == <<payment, onboarded>>

PC == {"idle", "create_intent", "insert", "read_store", "create_transfer",
       "record_transfer", "confirm_intent", "save_status", "done"}

-----------------------------------------------------------------------------
\* splitAmounts: Math.round of a non-negative quotient rounds halves up.
PlatformFee(a) == (a * FeePercent + 50) \div 100
ProviderAmount_RoundsBothParts(a) == (a * (100 - FeePercent) + 50) \div 100
ProviderAmount(a) == a - PlatformFee(a)

\* mapStripeStatus
MapStatus(s) == IF s \in Allowed THEN s ELSE "failed"

-----------------------------------------------------------------------------
\* Request lifecycle: a handler runs to its next await, or ends.
Idle(r) ==
  /\ pc[r] = "idle"
  /\ Overlap \/ \A q \in Requests : pc[q] \in {"idle", "done"}

Goto(r, label) == pc' = [pc EXCEPT ![r] = label]

\* createPaymentIntent up to its first call to Stripe: the store must be ready
\* and the provider's share positive.  A refused request changes nothing.
BeginCreate(r, u, s, a) ==
  /\ Idle(r)
  /\ s \in onboarded
  /\ ProviderAmount(a) > 0
  /\ doc' = [doc EXCEPT ![r] =
       [user |-> u, store |-> s, amount |-> a, provider |-> ProviderAmount(a),
        fee |-> PlatformFee(a), status |-> "failed", transfer |-> None]]
  /\ Goto(r, "create_intent")
  /\ UNCHANGED <<stripe, database, secrets, pay>>

\* stripe.createPaymentIntent: a new intent, without a payment method.
StripeCreatesIntent(r, p) ==
  /\ pc[r] = "create_intent"
  /\ intent[p] = None
  /\ intent' = [intent EXCEPT ![p] = "requires_payment_method"]
  /\ pay' = [pay EXCEPT ![r] = p]
  /\ doc' = [doc EXCEPT ![r].status = MapStatus("requires_payment_method")]
  /\ Goto(r, "insert")
  /\ UNCHANGED <<attempts, events, transfer, database, secrets>>

InsertPayment_NotAwaited(r) ==
  /\ pc[r] = "insert"
  /\ payment' \in {payment, [payment EXCEPT ![pay[r]] = doc[r]]}
  /\ secrets' = secrets \cup {pay[r]}
  /\ Goto(r, "done")
  /\ UNCHANGED <<stripe, onboarded, pay, doc>>

\* paymentModel.create; the answer then carries the client secret.
InsertPayment(r) ==
  /\ pc[r] = "insert"
  /\ payment' = [payment EXCEPT ![pay[r]] = doc[r]]
  /\ secrets' = secrets \cup {pay[r]}
  /\ Goto(r, "done")
  /\ UNCHANGED <<stripe, onboarded, pay, doc>>

-----------------------------------------------------------------------------
\* transferToProvider: the statuses it does not refuse, and the two paths it saves.
Transferable_Uncollected(d) == d.status # "transferred"
Transferable_Twice(d) == d.status \in {"succeeded", "transferred"}
Transferable(d) == d.status = "succeeded"

PaidOut_StatusOnly(d, t) == [d EXCEPT !.status = "transferred"]
PaidOut_IdOnly(d, t) == [d EXCEPT !.transfer = t]
PaidOut_BadStatus(d, t) == [d EXCEPT !.status = "paid", !.transfer = t]
PaidOut(d, t) == [d EXCEPT !.status = "transferred", !.transfer = t]

\* transferToProvider: load the payment, check owner and status.
BeginTransfer(r, u, p) ==
  /\ Idle(r)
  /\ payment[p] # None
  /\ payment[p].user = u
  /\ Transferable(payment[p])
  /\ pay' = [pay EXCEPT ![r] = p]
  /\ doc' = [doc EXCEPT ![r] = payment[p]]
  /\ Goto(r, "read_store")
  /\ UNCHANGED <<stripe, database, secrets>>

\* transferToProvider: load the store; a store that is not ready ends the request.
ReadStore(r) ==
  /\ pc[r] = "read_store"
  /\ Goto(r, IF doc[r].store \in onboarded THEN "create_transfer" ELSE "done")
  /\ UNCHANGED <<stripe, database, secrets, pay, doc>>

\* The arguments of stripe.createTransfer, from the copy the request loaded.
TransferParams(r) == [pay |-> pay[r], to |-> doc[r].store, amount |-> doc[r].provider]

\* stripe.createTransfer, called without an idempotency key: each call moves money.
StripeTransfers(r) ==
  /\ pc[r] = "create_transfer"
  /\ transfer' = [transfer EXCEPT ![r] = TransferParams(r)]
  /\ Goto(r, "record_transfer")
  /\ UNCHANGED <<intent, attempts, events, database, secrets, pay, doc>>

\* payment.save() writes the two paths the handler assigned, filtered by _id only.
RecordTransfer(r) ==
  /\ pc[r] = "record_transfer"
  /\ payment' = [payment EXCEPT ![pay[r]] = PaidOut(@, r)]
  /\ Goto(r, "done")
  /\ UNCHANGED <<stripe, onboarded, secrets, pay, doc>>

-----------------------------------------------------------------------------
\* confirmPaymentForDev: refused in production; a payment already collected is
\* answered as it is, without a call to Stripe.
BeginConfirm(r, u, p) ==
  /\ ~IsProduction
  /\ Idle(r)
  /\ payment[p] # None
  /\ payment[p].user = u
  /\ payment[p].status \notin {"succeeded", "transferred"}
  /\ pay' = [pay EXCEPT ![r] = p]
  /\ doc' = [doc EXCEPT ![r] = payment[p]]
  /\ Goto(r, "confirm_intent")
  /\ UNCHANGED <<stripe, database, secrets>>

-----------------------------------------------------------------------------
\* What a PaymentIntent emits: the events the webhook subscribes to, each with
\* a snapshot of the intent taken when the event happened.
Emit(p, s) ==
  /\ attempts' = [attempts EXCEPT ![p] = @ + 1]
  /\ events' = events \cup {[pay |-> p, n |-> attempts[p], status |-> s]}

Confirmable == {"requires_payment_method", "requires_confirmation", "requires_action"}

\* An intent that is confirmed is collected, or waits for the customer's bank.
Settle(p, s) ==
  /\ intent[p] \in Confirmable \cup {"processing"}
  /\ s \in {"succeeded", "processing", "requires_action"}
  /\ intent' = [intent EXCEPT ![p] = s]
  /\ IF s = "succeeded" THEN Emit(p, s) ELSE UNCHANGED <<attempts, events>>

\* stripe.confirmPaymentIntent with the test card; Stripe throws when the intent
\* can no longer be confirmed, and the request ends there.
StripeConfirms(r) ==
  /\ pc[r] = "confirm_intent"
  /\ IF intent[pay[r]] \in Confirmable
     THEN \E s \in {"succeeded", "processing", "requires_action"} :
            /\ Settle(pay[r], s)
            \* payment.status is assigned; the path is dirty only if it changed
            /\ doc' = [doc EXCEPT ![r].status = MapStatus(s)]
            /\ Goto(r, IF doc[r].status = MapStatus(s) THEN "done" ELSE "save_status")
     ELSE Goto(r, "done") /\ UNCHANGED <<intent, attempts, events, doc>>
  /\ UNCHANGED <<transfer, database, secrets, pay>>

SaveStatus(r) ==
  /\ pc[r] = "save_status"
  /\ payment' = [payment EXCEPT ![pay[r]].status = doc[r].status]
  /\ Goto(r, "done")
  /\ UNCHANGED <<stripe, onboarded, secrets, pay, doc>>

\* The customer's app pays with the client secret, or the bank answers.
CustomerPays(p, s) ==
  /\ p \in secrets
  /\ intent[p] \in StripeStatus
  /\ Settle(p, s)
  /\ UNCHANGED <<transfer, database, secrets, pc, pay, doc>>

\* An attempt to pay is declined: payment_intent.payment_failed.
PaymentFails(p) ==
  /\ p \in secrets
  /\ intent[p] \in Confirmable \cup {"processing"}
  /\ attempts[p] < MaxAttempts
  /\ intent' = [intent EXCEPT ![p] = "requires_payment_method"]
  /\ Emit(p, "requires_payment_method")
  /\ UNCHANGED <<transfer, database, secrets, pc, pay, doc>>

\* The intent is canceled at Stripe (dashboard, or abandoned).
IntentCanceled(p) ==
  /\ intent[p] \in Confirmable \cup {"processing"}
  /\ intent' = [intent EXCEPT ![p] = "canceled"]
  /\ Emit(p, "canceled")
  /\ UNCHANGED <<transfer, database, secrets, pc, pay, doc>>

-----------------------------------------------------------------------------
\* $set: {status} of syncPaymentIntentStatus
Synced_NotSucceeded(d, s) == IF s = "succeeded" THEN d ELSE [d EXCEPT !.status = MapStatus(s)]
Synced(d, s) == [d EXCEPT !.status = MapStatus(s)]

Deliverable(e) == Ordered => \A f \in events : f.pay = e.pay => e.n <= f.n

\* handleEvent -> syncPaymentIntentStatus: updateOne by intent id with the status
\* of the snapshot, whatever the document's status is; no document, no effect.
DeliverEvent(e) ==
  /\ e \in events
  /\ Deliverable(e)
  /\ events' = IF Redelivers THEN events ELSE events \ {e}
  /\ payment' = IF payment[e.pay] = None THEN payment
                ELSE [payment EXCEPT ![e.pay] = Synced(@, e.status)]
  /\ UNCHANGED <<intent, attempts, transfer, onboarded, secrets, pc, pay, doc>>

\* An account.updated webhook, a status sync or a deletion of the store changes
\* whether the store is ready to be paid.
OnboardingChanges(s) ==
  /\ onboarded' = IF s \in onboarded THEN onboarded \ {s} ELSE onboarded \cup {s}
  /\ UNCHANGED <<stripe, payment, secrets, pc, pay, doc>>

\* An awaited call throws or the process dies: the request writes nothing more.
\* What the call did at Stripe, or in the database, stays done.
RequestFails(r) ==
  /\ MayFail
  /\ pc[r] \notin {"idle", "done"}
  /\ Goto(r, "done")
  /\ UNCHANGED <<stripe, database, secrets, pay, doc>>

-----------------------------------------------------------------------------
Init ==
  /\ intent = [p \in Payments |-> None]
  /\ attempts = [p \in Payments |-> 0]
  /\ events = {}
  /\ transfer = [r \in Requests |-> None]
  /\ payment = [p \in Payments |-> None]
  /\ onboarded \in SUBSET Stores
  /\ secrets = {}
  /\ pc = [r \in Requests |-> "idle"]
  /\ pay = [r \in Requests |-> None]
  /\ doc = [r \in Requests |-> None]

RequestStep(r) ==
  \/ \E p \in Payments : StripeCreatesIntent(r, p)
  \/ InsertPayment(r)
  \/ ReadStore(r)
  \/ StripeTransfers(r)
  \/ RecordTransfer(r)
  \/ StripeConfirms(r)
  \/ SaveStatus(r)

Next ==
  \/ \E r \in Requests : RequestStep(r) \/ RequestFails(r)
  \/ \E r \in Requests, u \in Users, s \in Stores, a \in Amounts : BeginCreate(r, u, s, a)
  \/ \E r \in Requests, u \in Users, p \in Payments : BeginTransfer(r, u, p) \/ BeginConfirm(r, u, p)
  \/ \E p \in Payments, s \in StripeStatus : CustomerPays(p, s)
  \/ \E p \in Payments : PaymentFails(p) \/ IntentCanceled(p)
  \/ \E e \in events : DeliverEvent(e)
  \/ \E s \in Stores : OnboardingChanges(s)

Spec == Init /\ [][Next]_vars

\* Node runs a handler to its end unless it fails; Stripe retries a webhook
\* until the endpoint answers 2xx.
FairSpec ==
  /\ Spec
  /\ \A r \in Requests : WF_vars(RequestStep(r))
  /\ \A p \in Payments : WF_vars(\E e \in events : e.pay = p /\ DeliverEvent(e))

-----------------------------------------------------------------------------
\* The variables have the types of the schema, and Stripe's objects those of its API.
TypeOK ==
  /\ intent \in [Payments -> StripeStatus \cup {None}]
  /\ attempts \in [Payments -> Nat]
  /\ events \subseteq Event
  /\ transfer \in [Requests -> Transfer \cup {None}]
  /\ payment \in [Payments -> Doc \cup {None}]
  /\ onboarded \subseteq Stores
  /\ secrets \subseteq Payments
  /\ pc \in [Requests -> PC]
  /\ pay \in [Requests -> Payments \cup {None}]
  /\ doc \in [Requests -> Doc \cup {None}]

Collected(p) == intent[p] = "succeeded"
TransfersOf(p) == {r \in Requests : transfer[r] # None /\ transfer[r].pay = p}
Sent(p) == MapThenSumSet(LAMBDA r : transfer[r].amount, TransfersOf(p))

\* No money leaves the platform for a payment the customer has not completed,
\* and no document says succeeded or transferred of one: every snapshot, loaded
\* copy and webhook that can still be written is as old as the collection.
PayoutsAreCollected ==
  /\ \A r \in Requests : transfer[r] # None => Collected(transfer[r].pay)
  /\ \A p \in Payments :
       payment[p] # None /\ payment[p].status \in {"succeeded", "transferred"} => Collected(p)

\* A document that says transferred names a transfer that exists at Stripe, made
\* for this payment, to its store, of exactly the provider's share.
TransferOnRecord ==
  \A p \in Payments :
    payment[p] # None /\ payment[p].status = "transferred" =>
      /\ payment[p].transfer \in TransfersOf(p)
      /\ LET t == transfer[payment[p].transfer]
         IN t.to = payment[p].store /\ t.amount = payment[p].provider

\* A customer can only be charged for an intent that has a payment document,
\* although the intent is created first and the insertion can fail.
ChargesHaveRecord == \A p \in Payments : Collected(p) => payment[p] # None

\* buildMovementsSummary over the payments of the stores in S.
Movements(S) == {p \in Payments : payment[p] # None /\ payment[p].store \in S}
WithStatus(S, st) == {p \in Movements(S) : payment[p].status \in st}
Summary(S) ==
  [collected    |-> MapThenSumSet(LAMBDA p : payment[p].amount, WithStatus(S, {"succeeded", "transferred"})),
   platformFees |-> MapThenSumSet(LAMBDA p : payment[p].fee, WithStatus(S, {"succeeded", "transferred"})),
   earningsTransferred |-> MapThenSumSet(LAMBDA p : payment[p].provider, WithStatus(S, {"transferred"})),
   earningsPending     |-> MapThenSumSet(LAMBDA p : payment[p].provider, WithStatus(S, {"succeeded"}))]

\* Whatever stores a provider owns, the summary of getProviderMovements balances
\* to the cent, and what it calls transferred is covered by transfers at Stripe.
SummaryIsSound ==
  \A S \in SUBSET Stores :
    LET sum == Summary(S)
    IN /\ sum.collected = sum.earningsTransferred + sum.earningsPending + sum.platformFees
       /\ sum.earningsTransferred <= MapThenSumSet(Sent, Movements(S))

\* "La comision de plataforma permanece en la cuenta empresa": whatever is sent
\* to the provider of a payment leaves at least the fee with the platform.
PlatformKeepsFee ==
  \A p \in Payments : payment[p] # None => Sent(p) <= payment[p].amount - payment[p].fee

\* ProviderMovement.transferred, "true cuando los fondos ya fueron transferidos
\* al proveedor": once money was sent and no request is about to record it, the
\* document says so.
FlagFollowsMoney ==
  \A p \in Payments :
    TransfersOf(p) # {} /\ (\A r \in TransfersOf(p) : pc[r] # "record_transfer")
      => payment[p].status = "transferred"

\* The database eventually learns that a payment was collected.
ChargeIsReported ==
  \A p \in Payments :
    Collected(p) ~> (payment[p] # None /\ payment[p].status \in {"succeeded", "transferred"})

-----------------------------------------------------------------------------
\* What the platform promises to customer and provider, without documents,
\* webhooks or requests.
Promise == INSTANCE Escrow WITH
  Share <- ProviderAmount,
  charged <- [p \in Payments |-> IF Collected(p) THEN payment[p].amount ELSE 0],
  paidOut <- [p \in Payments |-> Sent(p)]

\* Collected, then paid out, once, exactly the provider's share.
ImplementsEscrow == Promise!Spec
=============================================================================
