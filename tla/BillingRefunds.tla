---------------------------- MODULE BillingRefunds ----------------------------
(***************************************************************************)
(* Refund creation of the billing service: the request handler             *)
(* POST /refunds/create, the Django admin's action that calls it, and the  *)
(* refund half of POST /webhooks/stripe.                                   *)
(*                                                                         *)
(* Transaction 1 reserves the amount under the payment's row lock, the     *)
(* Stripe call runs outside any transaction, transaction 2 stores its      *)
(* result.  Stripe refuses refunds beyond the charge; the reservation is   *)
(* the service's own guard before it asks Stripe.                          *)
(***************************************************************************)
EXTENDS Naturals, FiniteSetsExt, UnitOfWork

CONSTANTS
  Payment,    \* payments of the calling user
  Price,      \* the amount of a payment
  Operation,  \* refund operation ids
  Request,    \* concurrent executions of the request handler
  Amount,     \* amounts a request may ask for
  Report,     \* bound: what Stripe reports about a refund
  None        \* an absent value; as an amount: the full price

ASSUME PriceAssumption == Price \in Nat \ {0}
ASSUME AmountAssumption == Amount \subseteq Nat \ {0}
ASSUME ReportAssumption == Report \subseteq {"pending", "succeeded", "failed", "charge.refunded"}

VARIABLES
  paid,          \* payments whose status is SUCCEEDED
  paymentLock,   \* payment -> request whose transaction holds the row, or None
  refund,        \* refunds: operation id -> row, or NoRefund
  pc,            \* request -> the step it is about to take
  req,           \* request -> its local variables
  stripeRefunds, \* Stripe: refunds created
  events,        \* Stripe: events emitted (each may be delivered many times)
  processed,     \* webhook_events with status processed
  ignored,       \* webhook_events with status ignored
  failedOnce     \* history: operations whose row was FAILED at some time

stripeVars == <<stripeRefunds, events>>
hookVars   == <<processed, ignored>>
vars == <<paid, paymentLock, refund, pc, req, stripeRefunds, events, processed,
          ignored, failedOnce>>

-----------------------------------------------------------------------------
Status == {"new", "pending", "succeeded", "failed"}

StripeRefund == [key : Operation, op : Operation, payment : Payment,
                 amount : Amount \cup {Price}]

\* refund.updated with the status it reports, or charge.refunded naming this refund
\* as the charge's latest (None: the payload lists no refunds).
Event == [refund : StripeRefund \cup {None},
          type   : Report]

NoRefund == [payment |-> None, amount |-> 0, stripeId |-> None, status |-> "new"]

RefundRow == [payment : Payment, amount : Amount \cup {Price},
              stripeId : StripeRefund \cup {None}, status : Status]

\* loaded is the status the session's refund object carries since transaction 1.
NoReq == [payment |-> None, op |-> None, amount |-> 0, available |-> 0,
          loaded |-> "new"]

ASSUME NoneAssumption == None \notin Payment \cup Request \cup StripeRefund \cup Amount

Exists(op) == refund[op] # NoRefund

About(f, type) == [refund |-> f, type |-> type]

\* The operations of a set whose refunds count against a payment.
Live(p, ops) == {op \in ops : /\ refund[op].payment = p
                              /\ refund[op].status # "failed"}

Total(ops) == MapThenSumSet(LAMBDA op : refund[op].amount, ops)

Init ==
  /\ paid = {}
  /\ paymentLock = [p \in Payment |-> None]
  /\ refund = [op \in Operation |-> NoRefund]
  /\ pc = [r \in Request |-> "idle"]
  /\ req = [r \in Request |-> NoReq]
  /\ stripeRefunds = {}
  /\ events = {}
  /\ processed = {}
  /\ ignored = {}
  /\ failedOnce = {}

Goto(r, step) == pc' = [pc EXCEPT ![r] = step]

\* The handler returns or raises: its local variables are gone.
EndRequest(r) == Goto(r, "idle") /\ req' = [req EXCEPT ![r] = NoReq]

\* Commit or rollback gives the payment row back.
Unlock(r) == paymentLock' = [paymentLock EXCEPT ![req[r].payment] = None]

-----------------------------------------------------------------------------
(* create_refund_for_payment *)

\* A request arrives; no amount stands for the full price.
Begin(r, p, op, amount) ==
  /\ pc[r] = "idle"
  /\ req' = [req EXCEPT ![r] = [NoReq EXCEPT
       !.payment = p, !.op = op, !.amount = IF amount = None THEN Price ELSE amount]]
  /\ Goto(r, "payment")
  /\ UNCHANGED <<paid, paymentLock, refund, stripeVars, hookVars, failedOnce>>

\* The Django admin's action: a full refund of a payment it sees succeeded, under an
\* operation id made up for the click.  It waits ten seconds for the answer; when none
\* comes the request goes on without it, and a second click is another operation.
InitiateFullRefund(r, p, op) ==
  /\ p \in paid
  /\ ~Exists(op) /\ \A s \in Request : req[s].op # op
  /\ Begin(r, p, op, None)

PaymentRowFree_NoLock(p) == TRUE

\* SELECT ... FOR UPDATE on the payment waits for the transaction that holds it.
PaymentRowFree(p) == paymentLock[p] = None

\* _validate_payment_for_refund
Refundable(r) == req[r].payment \in paid /\ req[r].amount <= Price

\* Transaction 1 opens: lock the payment and validate it.
LockPayment(r) ==
  /\ pc[r] = "payment"
  /\ PaymentRowFree(req[r].payment)
  /\ Refundable(r)
  /\ paymentLock' = [paymentLock EXCEPT ![req[r].payment] = r]
  /\ Goto(r, "reserve")
  /\ UNCHANGED <<paid, refund, req, stripeVars, hookVars, failedOnce>>

RefusePayment(r) ==
  /\ pc[r] = "payment"
  /\ PaymentRowFree(req[r].payment)
  /\ ~Refundable(r)
  /\ EndRequest(r)
  /\ UNCHANGED <<paid, paymentLock, refund, stripeVars, hookVars, failedOnce>>

\* The operation has a row: of another payment it is refused, with a Stripe id it is
\* answered as it is, else the request takes up its recovery - whatever its status.
FindRefund(r) ==
  LET row == refund[req[r].op] IN
  /\ pc[r] = "reserve"
  /\ Exists(req[r].op)
  /\ Unlock(r)
  /\ IF row.payment # req[r].payment \/ row.stripeId # None
       THEN EndRequest(r)
       ELSE /\ req' = [req EXCEPT ![r].loaded = row.status]
            /\ Goto(r, "stripe")
  /\ UNCHANGED <<paid, refund, stripeVars, hookVars, failedOnce>>

\* A new operation: the sum of the live refunds tells what is still available.
ReadReserved(r) ==
  LET available == Price - Total(Live(req[r].payment, Operation)) IN
  /\ pc[r] = "reserve"
  /\ ~Exists(req[r].op)
  /\ IF req[r].amount > available
       THEN EndRequest(r) /\ Unlock(r)
       ELSE /\ req' = [req EXCEPT ![r].available = available]
            /\ Goto(r, "insert")
            /\ UNCHANGED paymentLock
  /\ UNCHANGED <<paid, refund, stripeVars, hookVars, failedOnce>>

\* Insert the NEW row and commit; the unique operation id refuses a second row.
InsertRefund(r) ==
  /\ pc[r] = "insert"
  /\ ~Exists(req[r].op)
  /\ refund' = [refund EXCEPT ![req[r].op] =
       [payment |-> req[r].payment, amount |-> req[r].amount,
        stripeId |-> None, status |-> "new"]]
  /\ req' = [req EXCEPT ![r].loaded = "new"]
  /\ Unlock(r)
  /\ Goto(r, "stripe")
  /\ UNCHANGED <<paid, stripeVars, hookVars, failedOnce>>

RefundKey_PerRequest(r) == <<req[r].op, r>>

\* The idempotency key of stripe.Refund.create.
RefundKey(r) == req[r].op

\* The arguments of stripe.Refund.create: the stored row's amount, not the request's.
RefundArguments(r) ==
  [key |-> RefundKey(r), op |-> req[r].op, payment |-> req[r].payment,
   amount |-> refund[req[r].op].amount]

\* Money Stripe has given back or is about to, for a payment (external).
Refunded(p) ==
  MapThenSumSet(LAMBDA f : f.amount,
    {f \in stripeRefunds : f.payment = p /\ About(f, "failed") \notin events})

\* Stripe repeats its answer to a known key, and refuses other arguments under it
\* and refunds beyond the charge (external).
StripeAccepts(f) ==
  IF \E g \in stripeRefunds : g.key = f.key
  THEN f \in stripeRefunds
  ELSE Refunded(f.payment) + f.amount <= Price

CreateStripeRefund(r) ==
  LET f == RefundArguments(r) IN
  /\ pc[r] = "stripe"
  /\ StripeAccepts(f)
  /\ stripeRefunds' = stripeRefunds \cup {f}
  /\ Goto(r, "finalize")
  /\ UNCHANGED <<paid, paymentLock, refund, req, events, hookVars, failedOnce>>

\* A StripeError reaches the handler: Stripe refused, or the answer was lost after
\* the refund was made.
StripeError(r) ==
  LET f == RefundArguments(r) IN
  /\ pc[r] = "stripe"
  /\ \/ UNCHANGED stripeRefunds
     \/ StripeAccepts(f) /\ stripeRefunds' = stripeRefunds \cup {f}
  /\ Goto(r, "markfailed")
  /\ UNCHANGED <<paid, paymentLock, refund, req, events, hookVars, failedOnce>>

\* _mark_refund_failed assigns FAILED to the object transaction 1 loaded.
MarkRefundFailed(r) ==
  LET op == req[r].op IN
  /\ pc[r] = "markfailed"
  /\ refund' = [refund EXCEPT ![op].status = Flushed(@, req[r].loaded, "failed")]
  /\ failedOnce' = IF refund'[op].status = "failed" THEN failedOnce \cup {op}
                                                    ELSE failedOnce
  /\ EndRequest(r)
  /\ UNCHANGED <<paid, paymentLock, stripeVars, hookVars>>

\* _finalize_refund_pending stores the Stripe id and assigns PENDING, which differs
\* from what was loaded (NEW or FAILED), so it is written over any newer status.
FinalizeRefundPending(r) ==
  LET op == req[r].op IN
  /\ pc[r] = "finalize"
  /\ refund' = [refund EXCEPT ![op].stripeId = RefundArguments(r),
                              ![op].status = Flushed(@, req[r].loaded, "pending")]
  /\ EndRequest(r)
  /\ UNCHANGED <<paid, paymentLock, stripeVars, hookVars, failedOnce>>

\* Any other exception, or the death of the process, rolls back an open transaction.
Abandon(r) ==
  /\ pc[r] # "idle"
  /\ EndRequest(r)
  /\ paymentLock' = [p \in Payment |->
                      IF paymentLock[p] = r THEN None ELSE paymentLock[p]]
  /\ UNCHANGED <<paid, refund, stripeVars, hookVars, failedOnce>>

-----------------------------------------------------------------------------
(* The payments side (see BillingPayments) and Stripe (external) *)

\* A payment of this user reaches SUCCEEDED, which it never leaves.
PaymentSucceeds(p) ==
  /\ p \notin paid
  /\ paid' = paid \cup {p}
  /\ UNCHANGED <<paymentLock, refund, pc, req, stripeVars, hookVars, failedOnce>>

Emit(e) == /\ e \notin events
           /\ events' = events \cup {e}
           /\ UNCHANGED <<paid, paymentLock, refund, pc, req, stripeRefunds, hookVars,
                          failedOnce>>

Settled(f) == About(f, "succeeded") \in events \/ About(f, "failed") \in events

RefundSettles(f) ==
  ~Settled(f) /\ \E type \in Report \ {"charge.refunded"} : Emit(About(f, type))

\* The charge's own event, sent when a refund is made: it may precede the refund's
\* outcome, and newer payloads carry no list of refunds.
ChargeRefunded(f) ==
  /\ "charge.refunded" \in Report
  /\ About(f, "failed") \notin events
  /\ Emit(About(f, "charge.refunded")) \/ Emit(About(None, "charge.refunded"))

-----------------------------------------------------------------------------
(* process_stripe_event, refund events *)

\* webhook_events has a row for this event id: the delivery is skipped.
AlreadyStored(e) == e \in processed \cup ignored

RefundStatusAfter_FailureWins(type, status) ==
  IF type = "failed" THEN "failed" ELSE "succeeded"

RefundStatusAfter_StripeWord(type, status) ==
  IF type = "failed" THEN "canceled" ELSE "succeeded"

RefundStatusAfter_AnyUpdate(type, status) == "succeeded"

RefundStatusAfter_ChargeOnly(type, status) ==
  IF type = "charge.refunded" THEN "succeeded"
  ELSE IF type = "failed" /\ status # "succeeded" THEN "failed" ELSE status

\* Success always wins; failure does not take back a success.
RefundStatusAfter(type, status) ==
  IF type = "failed" /\ status # "succeeded" THEN "failed" ELSE "succeeded"

\* One transaction: store the event, lock the refund by its Stripe id, move its
\* status.  Without a refund id, a matching row or a decided status it is stored as
\* ignored, for good.
RefundWebhook(e) ==
  LET matches == {op \in Operation :
                    e.refund # None /\ e.type # "pending" /\ refund[op].stripeId = e.refund}
  IN
  /\ e \in events
  /\ ~AlreadyStored(e)
  /\ IF matches = {}
       THEN /\ ignored' = ignored \cup {e}
            /\ UNCHANGED <<refund, processed, failedOnce>>
       ELSE /\ refund' = [op \in Operation |->
                 IF op \in matches
                   THEN [refund[op] EXCEPT !.status = RefundStatusAfter(e.type, @)]
                   ELSE refund[op]]
            /\ processed' = processed \cup {e}
            /\ failedOnce' = failedOnce \cup
                              {op \in matches : refund'[op].status = "failed"}
            /\ UNCHANGED ignored
  /\ UNCHANGED <<paid, paymentLock, pc, req, stripeVars>>

-----------------------------------------------------------------------------
Next ==
  \/ \E r \in Request, p \in Payment, op \in Operation, amount \in Amount \cup {None} :
       Begin(r, p, op, amount)
  \/ \E r \in Request, p \in Payment, op \in Operation : InitiateFullRefund(r, p, op)
  \/ \E r \in Request : \/ LockPayment(r)
                        \/ RefusePayment(r)
                        \/ FindRefund(r)
                        \/ ReadReserved(r)
                        \/ InsertRefund(r)
                        \/ CreateStripeRefund(r)
                        \/ StripeError(r)
                        \/ MarkRefundFailed(r)
                        \/ FinalizeRefundPending(r)
                        \/ Abandon(r)
  \/ \E p \in Payment : PaymentSucceeds(p)
  \/ \E f \in stripeRefunds : RefundSettles(f) \/ ChargeRefunded(f)
  \/ \E e \in events : RefundWebhook(e)

Spec == Init /\ [][Next]_vars

\* A running handler keeps running (PostgreSQL queues lock waiters, hence SF for the
\* payment row), the Stripe library answers or raises, and Stripe redelivers an event
\* until it is answered.  Arrivals, crashes and refund outcomes are not fair.
Fairness ==
  /\ \A r \in Request : /\ SF_vars(LockPayment(r) \/ RefusePayment(r))
                        /\ WF_vars(FindRefund(r) \/ ReadReserved(r))
                        /\ WF_vars(InsertRefund(r))
                        /\ WF_vars(CreateStripeRefund(r) \/ StripeError(r))
                        /\ WF_vars(MarkRefundFailed(r))
                        /\ WF_vars(FinalizeRefundPending(r))
  /\ WF_vars(\E e \in events : RefundWebhook(e))

FairSpec == Spec /\ Fairness

-----------------------------------------------------------------------------
(* Properties *)

Steps == {"idle", "payment", "reserve", "insert", "stripe", "finalize", "markfailed"}

\* Every variable keeps the shape its table, local variable or Stripe object has.
TypeOK ==
  /\ paid \subseteq Payment
  /\ paymentLock \in [Payment -> Request \cup {None}]
  /\ refund \in [Operation -> RefundRow \cup {NoRefund}]
  /\ pc \in [Request -> Steps]
  /\ req \in [Request -> [payment : Payment \cup {None}, op : Operation \cup {None},
                          amount : Amount \cup {0, Price}, available : 0..Price,
                          loaded : Status]]
  /\ stripeRefunds \subseteq StripeRefund
  /\ events \subseteq Event
  /\ processed \subseteq Event
  /\ ignored \subseteq Event
  /\ failedOnce \subseteq Operation

\* A refund operation moves money once, and the money that was reserved: however often it
\* is retried, also after it was marked FAILED and by a request for another amount, Stripe
\* holds at most one refund for it, on the row's payment and of the row's amount
\* (create_refund_for_payment; README "operation-level idempotency").
OneRefundPerOperation ==
  /\ \A f, g \in stripeRefunds : f.op = g.op => f = g
  /\ \A f \in stripeRefunds : f.payment = refund[f.op].payment /\ f.amount = refund[f.op].amount
  /\ \A op \in Operation : refund[op].stripeId # None =>
       refund[op].stripeId \in stripeRefunds /\ refund[op].stripeId.op = op

\* Concurrent refunds of different operations (an admin clicking twice) never reserve
\* more than was paid: the row lock makes sum and insert one step.  Operations that
\* were FAILED at some time are left out (see ReservedWithinPayment).
FreshReservationsWithinPayment ==
  \A p \in Payment : Total(Live(p, Operation \ failedOnce)) <= Price

\* A refund is only shown succeeded after an event of Stripe that says so about
\* that very refund was processed (_handle_refund_event).
SuccessConfirmedByStripe ==
  \A op \in Operation :
    refund[op].status = "succeeded" =>
      \E e \in processed : /\ e.refund = refund[op].stripeId
                           /\ e.type \in {"succeeded", "charge.refunded"}

\* No webhook takes a refund out of SUCCEEDED, in whatever order the events of the
\* refund and of its charge arrive: only a handler's last transaction can.
WebhooksNeverDowngrade ==
  [][\A op \in Operation :
       refund[op].status = "succeeded" /\ refund'[op].status # "succeeded" =>
         \E r \in Request : /\ req[r].op = op /\ pc'[r] = "idle"
                            /\ pc[r] \in {"finalize", "markfailed"}]_vars

\* The operation is never submitted again while a request for it is still running.
NeverSubmittedTwice ==
  [](\A r, s \in Request : r # s /\ req[r].op # None => req[r].op # req[s].op)

\* A success Stripe reports about a refund whose id is already stored is in the end
\* shown and stays, as long as no operation is submitted twice at a time: whatever
\* failed attempts, crashes and other events came before
\* (_finalize_refund_pending, _handle_refund_event).
RecordedRefundSettles ==
  NeverSubmittedTwice =>
    \A op \in Operation :
      (\E e \in events \ ignored : /\ e.refund = refund[op].stripeId
                                  /\ e.type = "succeeded")
        ~> [](refund[op].status = "succeeded")

-----------------------------------------------------------------------------
(* What the README promises and the code does not keep *)

\* "Validate cumulative refundable amount": live refunds never exceed the payment.
ReservedWithinPayment ==
  \A p \in Payment : Total(Live(p, Operation)) <= Price

\* "Webhook deduplication and protection from invalid state downgrades".
NoStatusDowngrade ==
  [][\A op \in Operation :
       refund[op].status = "succeeded" => refund'[op].status = "succeeded"]_vars

\* "Service marks refund final status" after Stripe sent the refund webhook.
RefundReachesFinalStatus ==
  \A op \in Operation :
    (\E e \in events : e.type = "succeeded" /\ e.refund.op = op)
      ~> (refund[op].status = "succeeded")
=============================================================================
