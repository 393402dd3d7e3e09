--------------------------- MODULE BillingPayments ---------------------------
(***************************************************************************)
(* Payment creation of the billing service: the request handler            *)
(* POST /payments/create, the lazily created Stripe customer, and the      *)
(* payment half of POST /webhooks/stripe.                                  *)
(*                                                                         *)
(* A request runs two database transactions with a Stripe call between     *)
(* them, so other requests and webhooks run between its steps.  A step     *)
(* below is what happens between two points where another session can      *)
(* interfere; a row lock held over several steps is a variable.  Stripe is *)
(* external: it is modelled by what the code relies on (idempotency keys,  *)
(* events that may be repeated and reordered).                             *)
(***************************************************************************)
EXTENDS Naturals, UnitOfWork

CONSTANTS
  User,         \* users who pay
  Operation,    \* operation ids a client may send
  Request,      \* concurrent executions of the request handler
  Amount,       \* amounts (with their currency) a request may carry
  MaxFailures,  \* bound: failed attempts to confirm one payment intent
  JunkType,     \* kinds of payload the dispatcher stores and ignores
  None          \* an absent value

ASSUME AmountAssumption == Amount \subseteq Nat
ASSUME MaxFailuresAssumption == MaxFailures \in Nat
ASSUME JunkTypeAssumption == JunkType \subseteq {"no_id", "unsupported"}
VARIABLES
  profile,      \* billing_profiles: user -> committed Stripe customer, or None
  profileLock,  \* user -> request whose transaction holds the profile row
  payment,      \* payments: operation id -> row, or NoPayment
  pc,           \* request -> the step it is about to take
  req,          \* request -> its local variables
  customers,    \* Stripe: customers created
  intents,      \* Stripe: payment intents created
  events,       \* Stripe: events emitted (each may be delivered many times)
  secrets,      \* payment intents whose client secret was handed to a client
  processed,    \* webhook_events with status processed
  ignored       \* webhook_events with status ignored

dbVars     == <<profile, profileLock, payment>>
stripeVars == <<customers, intents, events>>
hookVars   == <<processed, ignored>>
vars == <<profile, profileLock, payment, pc, req, customers, intents, events,
          secrets, processed, ignored>>

-----------------------------------------------------------------------------
(* Records *)

Status == {"pending", "succeeded", "failed", "canceled"}

\* A Stripe customer is identified by the idempotency key that created it.
Customer == User \X Operation

\* A payment intent carries the idempotency key of the call and its arguments.
Intent == [key : Operation, op : Operation, amount : Amount, customer : Customer]

Event == [intent : Intent,
          type   : {"succeeded", "payment_failed", "canceled"},
          n      : 0..MaxFailures]

\* Payloads without an event id and event types the dispatcher does not know.
JunkEvent == [intent : {None}, type : JunkType, n : {0}]

NoPayment == [user |-> None, amount |-> 0, customer |-> None, intent |-> None,
              status |-> "pending"]

PaymentRow == [user : User, amount : Amount, customer : Customer,
               intent : Intent \cup {None}, status : Status]

NoReq == [user |-> None, op |-> None, amount |-> 0, customer |-> None,
          intent |-> None, status |-> "pending"]

ASSUME NoneAssumption == /\ None \notin User \cup Request
                         /\ None \notin Customer \cup Intent

Exists(op) == payment[op] # NoPayment

\* The event by which Stripe reports the outcome of an intent.
Outcome(i, type) == [intent |-> i, type |-> type, n |-> 0]

\* An intent that succeeded or was canceled accepts nothing further.
Closed(i) == Outcome(i, "succeeded") \in events \/ Outcome(i, "canceled") \in events

Init ==
  /\ profile = [u \in User |-> None]
  /\ profileLock = [u \in User |-> None]
  /\ payment = [op \in Operation |-> NoPayment]
  /\ pc = [r \in Request |-> "idle"]
  /\ req = [r \in Request |-> NoReq]
  /\ customers = {}
  /\ intents = {}
  /\ events = {}
  /\ secrets = {}
  /\ processed = {}
  /\ ignored = {}

Goto(r, step) == pc' = [pc EXCEPT ![r] = step]

\* The handler returns or raises: its local variables are gone.
EndRequest(r) == Goto(r, "idle") /\ req' = [req EXCEPT ![r] = NoReq]

Unlock_Forgotten(u) == UNCHANGED profileLock

\* Commit or rollback gives the profile row back.
Unlock(u) == profileLock' = [profileLock EXCEPT ![u] = None]

-----------------------------------------------------------------------------
(* create_payment_intent_for_user *)

\* A request arrives; a non-positive amount is refused before any effect.
Begin(r, u, op, amount) ==
  /\ pc[r] = "idle"
  /\ amount >= 1
  /\ req' = [req EXCEPT ![r] = [NoReq EXCEPT !.user = u, !.op = op, !.amount = amount]]
  /\ Goto(r, "profile")
  /\ UNCHANGED <<dbVars, stripeVars, secrets, hookVars>>

\* SELECT ... FOR UPDATE on the profile row waits for the transaction that holds it.
ProfileRowFree(u) == profileLock[u] = None

\* Transaction 1 opens: insert the profile if missing, lock it, look for a customer.
LockProfile(r) ==
  LET u == req[r].user IN
  /\ pc[r] = "profile"
  /\ ProfileRowFree(u)
  /\ profileLock' = [profileLock EXCEPT ![u] = r]
  /\ req' = [req EXCEPT ![r].customer = profile[u]]
  /\ Goto(r, IF profile[u] = None THEN "customer" ELSE "draft")
  /\ UNCHANGED <<profile, payment, stripeVars, secrets, hookVars>>

\* stripe.Customer.create inside transaction 1, keyed by user and operation.
CreateCustomer(r) ==
  LET c == <<req[r].user, req[r].op>> IN
  /\ pc[r] = "customer"
  /\ customers' = customers \cup {c}
  /\ req' = [req EXCEPT ![r].customer = c]
  /\ Goto(r, "draft")
  /\ UNCHANGED <<dbVars, intents, events, secrets, hookVars>>

\* The stored row belongs to this user and carries this amount.
SameTerms(r) == /\ payment[req[r].op].user = req[r].user
                /\ payment[req[r].op].amount = req[r].amount

\* The operation id is taken on other terms: transaction 1 rolls back, and with
\* it a customer id it has just stored.
RefuseReuse(r) ==
  /\ pc[r] = "draft"
  /\ Exists(req[r].op) /\ ~SameTerms(r)
  /\ Unlock(req[r].user)
  /\ EndRequest(r)
  /\ UNCHANGED <<profile, payment, stripeVars, secrets, hookVars>>

\* Transaction 1 commits: the customer id and, for a new operation, the draft row.
\* An operation that already has its intent is answered without a client secret.
DraftPayment(r) ==
  LET op    == req[r].op
      draft == [user |-> req[r].user, amount |-> req[r].amount,
                customer |-> req[r].customer, intent |-> None, status |-> "pending"]
  IN
  /\ pc[r] = "draft"
  /\ Exists(op) => SameTerms(r)
  /\ profile' = [profile EXCEPT ![req[r].user] = req[r].customer]
  /\ Unlock(req[r].user)
  /\ payment' = IF Exists(op) THEN payment ELSE [payment EXCEPT ![op] = draft]
  /\ IF payment'[op].intent = None
       THEN /\ Goto(r, "stripe")
            /\ req' = [req EXCEPT ![r].status = payment'[op].status]
       ELSE EndRequest(r)
  /\ UNCHANGED <<stripeVars, secrets, hookVars>>

IntentKey_PerRequest(r) == <<req[r].op, r>>

\* The idempotency key of stripe.PaymentIntent.create.
IntentKey(r) == req[r].op

\* stripe.PaymentIntent.create outside any transaction.  Stripe answers a key it
\* knows with the first result and refuses it with other arguments.
CreateStripeIntent(r) ==
  LET wanted == [key |-> IntentKey(r), op |-> req[r].op,
                 amount |-> payment[req[r].op].amount, customer |-> req[r].customer]
  IN
  /\ pc[r] = "stripe"
  /\ \A i \in intents : i.key = wanted.key => i = wanted
  /\ intents' = intents \cup {wanted}
  /\ req' = [req EXCEPT ![r].intent = wanted]
  /\ Goto(r, "finalize")
  /\ UNCHANGED <<dbVars, customers, events, secrets, hookVars>>

\* Transaction 2: store the intent and assign PENDING to the object transaction 1
\* loaded.  The response carries the client secret; it may get lost on its way.
FinalizePaymentIntent(r) ==
  LET op == req[r].op IN
  /\ pc[r] = "finalize"
  /\ \A other \in Operation \ {op} : payment[other].intent # req[r].intent
  /\ payment' = [payment EXCEPT
       ![op].intent = Flushed(@, None, req[r].intent),
       ![op].status = Flushed(@, req[r].status, "pending")]
  /\ secrets' \in {secrets, secrets \cup {req[r].intent}}
  /\ EndRequest(r)
  /\ UNCHANGED <<profile, profileLock, stripeVars, hookVars>>

\* A Stripe error, a lost database connection or the death of the process: the
\* open transaction is rolled back, calls made to Stripe stay made.
Abandon(r) ==
  /\ pc[r] # "idle"
  /\ EndRequest(r)
  /\ profileLock' = [u \in User |-> IF profileLock[u] = r THEN None ELSE profileLock[u]]
  /\ UNCHANGED <<profile, payment, stripeVars, secrets, hookVars>>

-----------------------------------------------------------------------------
(* Stripe and the paying client (external) *)

Emit(e) == /\ events' = events \cup {e}
           /\ UNCHANGED <<dbVars, pc, req, customers, intents, secrets, hookVars>>

\* Confirming needs the client secret, which only FinalizePaymentIntent hands out.
ConfirmSucceeds(i) ==
  /\ i \in secrets
  /\ ~Closed(i)
  /\ Emit(Outcome(i, "succeeded"))

\* A declined card or an abandoned 3DS check; the client may confirm again.
ConfirmFails(i) ==
  /\ i \in secrets
  /\ ~Closed(i)
  /\ \E n \in 1..MaxFailures :
       LET e == [intent |-> i, type |-> "payment_failed", n |-> n]
       IN  e \notin events /\ Emit(e)

\* Canceled from the Stripe side, possibly before transaction 2.
CancelIntent(i) ==
  /\ i \in intents
  /\ ~Closed(i)
  /\ Emit(Outcome(i, "canceled"))

-----------------------------------------------------------------------------
(* process_stripe_event, payment events *)

\* webhook_events has a row for this event id: the delivery is skipped.
AlreadyStored(e) == e \in processed \cup ignored

PaymentStatusAfter_FailureWins(type, status) ==
  IF type = "succeeded" THEN "succeeded"
  ELSE IF type = "canceled" THEN "canceled" ELSE "failed"

PaymentStatusAfter_RawType(type, status) == type

PaymentStatusAfter_Swapped(type, status) ==
  IF type = "payment_failed" THEN "succeeded" ELSE status

\* Success always wins; failure and cancellation only leave an undecided status.
PaymentStatusAfter(type, status) ==
  IF type = "succeeded" THEN "succeeded"
  ELSE IF status # "pending" THEN status
  ELSE IF type = "canceled" THEN "canceled" ELSE "failed"

\* One transaction: store the event, lock the payment by intent id, move its status.
\* An event whose intent no row carries yet is stored as ignored, for good.
PaymentWebhook(e) ==
  LET matches == {op \in Operation : payment[op].intent = e.intent} IN
  /\ e \in events
  /\ ~AlreadyStored(e)
  /\ IF matches = {}
       THEN /\ ignored' = ignored \cup {e}
            /\ UNCHANGED <<payment, processed>>
       ELSE /\ payment' = [op \in Operation |->
                 IF op \in matches
                   THEN [payment[op] EXCEPT !.status = PaymentStatusAfter(e.type, @)]
                   ELSE payment[op]]
            /\ processed' = processed \cup {e}
            /\ UNCHANGED ignored
  /\ UNCHANGED <<profile, profileLock, pc, req, stripeVars, secrets>>

\* A payload without an event id, or of a type the service does not know.
IgnoreWebhook(e) ==
  /\ ~AlreadyStored(e)
  /\ ignored' = ignored \cup {e}
  /\ UNCHANGED <<dbVars, pc, req, stripeVars, secrets, processed>>

-----------------------------------------------------------------------------
Next ==
  \/ \E r \in Request, u \in User, op \in Operation, amount \in Amount :
       Begin(r, u, op, amount)
  \/ \E r \in Request : \/ LockProfile(r)
                        \/ CreateCustomer(r)
                        \/ RefuseReuse(r)
                        \/ DraftPayment(r)
                        \/ CreateStripeIntent(r)
                        \/ FinalizePaymentIntent(r)
                        \/ Abandon(r)
  \/ \E i \in intents : ConfirmSucceeds(i) \/ ConfirmFails(i) \/ CancelIntent(i)
  \/ \E e \in events : PaymentWebhook(e)
  \/ \E e \in JunkEvent : IgnoreWebhook(e)

Spec == Init /\ [][Next]_vars

\* A running handler keeps running (PostgreSQL queues lock waiters, hence SF for
\* the profile row) and Stripe redelivers an event until it is answered.  Clients
\* owe nothing: arrivals, confirmations, cancellations and crashes are not fair.
Fairness ==
  /\ \A r \in Request : /\ SF_vars(LockProfile(r))
                        /\ WF_vars(CreateCustomer(r))
                        /\ WF_vars(RefuseReuse(r))
                        /\ WF_vars(DraftPayment(r))
                        /\ WF_vars(CreateStripeIntent(r))
                        /\ WF_vars(FinalizePaymentIntent(r))
  /\ WF_vars(\E e \in events : PaymentWebhook(e))

FairSpec == Spec /\ Fairness

-----------------------------------------------------------------------------
(* Properties *)

Steps == {"idle", "profile", "customer", "draft", "stripe", "finalize"}

\* Every variable keeps the shape its table, local variable or Stripe object has.
TypeOK ==
  /\ profile \in [User -> Customer \cup {None}]
  /\ profileLock \in [User -> Request \cup {None}]
  /\ payment \in [Operation -> PaymentRow \cup {NoPayment}]
  /\ pc \in [Request -> Steps]
  /\ req \in [Request -> [user : User \cup {None}, op : Operation \cup {None},
                          amount : Amount \cup {0}, customer : Customer \cup {None},
                          intent : Intent \cup {None}, status : Status]]
  /\ customers \subseteq Customer
  /\ intents \subseteq Intent
  /\ events \subseteq Event
  /\ secrets \subseteq Intent
  /\ processed \subseteq Event
  /\ ignored \subseteq Event \cup JunkEvent

\* No double charge: however often and however concurrently an operation id is
\* submitted, Stripe holds at most one intent for it, so it is charged at most once
\* (create_payment_intent_for_user; billing README UW-3).
OneChargePerOperation ==
  \A i, j \in intents : i.op = j.op => i = j

\* What Stripe will charge is what the database recorded: the row's amount, on the
\* one customer the row and its owner's profile both name, even when another
\* request recovered the draft (create_payment_intent_for_user; UW-0).
ChargeMatchesPayment ==
  \A i \in intents :
    LET p == payment[i.op] IN
    /\ Exists(i.op)
    /\ i.amount = p.amount
    /\ i.customer = p.customer
    /\ i.customer = profile[p.user]

\* A user keeps one customer: once the profile names a Stripe customer no later
\* request, retry or rollback changes it (create_or_get_customer_for_user; UW-0).
CustomerIsStable ==
  [][\A u \in User : profile[u] # None => profile'[u] = profile[u]]_vars

\* A payment is only shown succeeded, failed or canceled after an event of Stripe
\* that says so about its own intent was processed (_handle_payment_event; UW-2).
StatusConfirmedByStripe ==
  \A op \in Operation :
    payment[op].status # "pending" =>
      \E e \in processed :
        /\ e.intent = payment[op].intent
        /\ e.type = IF payment[op].status = "failed" THEN "payment_failed"
                                                     ELSE payment[op].status

\* The news that a client paid always finds its row: a success event can not
\* overtake transaction 2, because the client needs the secret it returns.
SuccessNeverIgnored == \A e \in ignored : e.type # "succeeded"

\* A decided payment never goes back: neither a late or repeated webhook nor a late
\* transaction 2 of a concurrent retry takes it out of SUCCEEDED, and FAILED or
\* CANCELED only give way to SUCCEEDED (README: "protection from invalid state
\* downgrades"; _handle_payment_event, _finalize_payment_intent).
StatusNeverDowngrades ==
  [][\A op \in Operation :
       payment[op].status # "pending" =>
         payment'[op].status \in {payment[op].status, "succeeded"}]_vars

\* However often it is delivered, an event has one verdict in the audit trail: it
\* is not applied after it was ignored, nor the reverse (process_stripe_event; UW-6).
OneVerdictPerEvent == processed \cap ignored = {}

\* The charge of an operation as Stripe sees it.
ChargeOf(op) ==
  LET mine == {i \in intents : i.op = op}
      Ended(type) == \E i \in mine : Outcome(i, type) \in events
  IN  IF mine = {} THEN "none"
      ELSE IF Ended("succeeded") THEN "succeeded"
      ELSE IF Ended("canceled") THEN "canceled" ELSE "open"

Promise == INSTANCE PaymentPromise WITH
  charge   <- [op \in Operation |-> ChargeOf(op)],
  declined <- {e.intent.op : e \in {f \in events : f.type = "payment_failed"}},
  shown    <- [op \in Operation |-> payment[op].status]

\* The handlers keep the promise to the paying client, including that a payment that
\* went through is in the end shown succeeded, without manual repair (UW-1 to UW-4).
KeepsPromise == Promise!Spec

\* Every request is answered: none waits for ever for the profile row or for Stripe.
RequestsEnd == \A r \in Request : pc[r] # "idle" ~> pc[r] = "idle"

\* The README's "Retries/double clicks do not create duplicate customers".
OneStripeCustomerPerUser == \A c, d \in customers : c[1] = d[1] => c = d
=============================================================================
