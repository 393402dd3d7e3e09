------------------------ MODULE BillingPaymentsProofs ------------------------
(***************************************************************************)
(* The safety properties of BillingPayments, proved for any number of      *)
(* users, operations, requests and amounts.                                *)
(*                                                                         *)
(* IInv strengthens the properties by what a running request may rely on:  *)
(* the profile lock makes the customer it holds the profile's, the row it  *)
(* found or drafted carries its terms, the intent it created is the        *)
(* operation's only one, and a secret leaves only after the row names its  *)
(* intent.  With it every step is one of PaymentPromise, or none of its    *)
(* business.                                                               *)
(***************************************************************************)
EXTENDS BillingPayments, TLAPS

\* A request that is under way has its arguments.
RequestHasArguments ==
  \A r \in Request : pc[r] # "idle" =>
    req[r].user \in User /\ req[r].op \in Operation /\ req[r].amount \in Amount

\* In transaction 1, after the lock, a request holds the profile row, and the
\* customer it looked up or created does not contradict the profile.
LockHeld ==
  \A r \in Request :
    /\ pc[r] \in {"customer", "draft"} => profileLock[req[r].user] = r
    /\ pc[r] = "customer" => profile[req[r].user] = None
    /\ pc[r] = "draft" => /\ req[r].customer \in Customer
                          /\ profile[req[r].user] \in {None, req[r].customer}

\* After transaction 1 the operation has a row on the request's terms, undecided
\* when it was loaded, and the request holds the profile's customer.
Drafted ==
  \A r \in Request : pc[r] \in {"stripe", "finalize"} =>
    /\ Exists(req[r].op)
    /\ SameTerms(r)
    /\ req[r].customer = profile[req[r].user]
    /\ req[r].customer \in Customer
    /\ req[r].status = "pending"

\* After the Stripe call the request holds an intent of its operation.
IntentHeld ==
  \A r \in Request : pc[r] = "finalize" =>
    req[r].intent \in intents /\ req[r].intent.op = req[r].op

\* A row names its owner's customer; without an intent it is undecided, and its
\* intent is one that was created for it.
RowConsistent ==
  \A op \in Operation : Exists(op) =>
    /\ payment[op].customer = profile[payment[op].user]
    /\ payment[op].intent = None => payment[op].status = "pending"
    /\ payment[op].intent # None =>
         payment[op].intent \in intents /\ payment[op].intent.op = op

\* An intent is keyed by its operation, whose row has its amount and customer.
IntentMatchesRow ==
  \A i \in intents :
    /\ i.key = i.op
    /\ Exists(i.op)
    /\ i.amount = payment[i.op].amount
    /\ i.customer = payment[i.op].customer

\* A secret is out only of an intent its row names, and only its holder can succeed.
SecretRecorded ==
  /\ \A i \in secrets : i \in intents /\ payment[i.op].intent = i
  /\ \A e \in events : e.type = "succeeded" => e.intent \in secrets

IInv ==
  /\ TypeOK
  /\ RequestHasArguments
  /\ LockHeld
  /\ Drafted
  /\ IntentHeld
  /\ RowConsistent
  /\ IntentMatchesRow
  /\ OneChargePerOperation
  /\ SecretRecorded
  /\ SuccessNeverIgnored
  /\ OneVerdictPerEvent
  /\ StatusConfirmedByStripe

\* Only request r moves, to the given step with the given local variables.
Moves(r, step, locals) ==
  \A s \in Request : /\ pc'[s] = IF s = r THEN step ELSE pc[s]
                     /\ req'[s] = IF s = r THEN locals ELSE req[s]

LEMMA EndRequestMoves ==
  ASSUME TypeOK, NEW r \in Request, EndRequest(r)
  PROVE  Moves(r, "idle", NoReq)
  BY DEF TypeOK, EndRequest, Goto, Moves

LEMMA BeginInv ==
  ASSUME IInv, NEW r \in Request, NEW u \in User, NEW op \in Operation,
         NEW amount \in Amount, Begin(r, u, op, amount)
  PROVE  IInv'
<1> DEFINE locals == [NoReq EXCEPT !.user = u, !.op = op, !.amount = amount]
<1> USE DEF IInv
<1>0. UNCHANGED <<profile, profileLock, payment, customers, intents, events, secrets,
                  processed, ignored>>
  BY DEF Begin, dbVars, stripeVars, hookVars
<1>1. Moves(r, "profile", locals)
  BY DEF Begin, Goto, Moves, TypeOK, NoReq
<1>2. TypeOK'
  BY <1>0 DEF Begin, Goto, TypeOK, NoReq, Steps, Status
<1>3. RequestHasArguments' /\ LockHeld' /\ IntentHeld'
  BY <1>0, <1>1 DEF Moves, RequestHasArguments, LockHeld, IntentHeld, NoReq
<1>4. Drafted'
  BY <1>0, <1>1 DEF Moves, Drafted, Exists, SameTerms
<1>5. RowConsistent' /\ IntentMatchesRow' /\ OneChargePerOperation' /\ SecretRecorded'
      /\ SuccessNeverIgnored' /\ OneVerdictPerEvent' /\ StatusConfirmedByStripe'
  BY <1>0 DEF RowConsistent, IntentMatchesRow, OneChargePerOperation, SecretRecorded,
     SuccessNeverIgnored, OneVerdictPerEvent, StatusConfirmedByStripe, Exists
<1> QED BY <1>2, <1>3, <1>4, <1>5

LEMMA LockProfileInv ==
  ASSUME IInv, NEW r \in Request, LockProfile(r)
  PROVE  IInv'
<1> DEFINE u == req[r].user
           step == IF profile[u] = None THEN "customer" ELSE "draft"
           locals == [req[r] EXCEPT !.customer = profile[u]]
<1> USE DEF IInv
<1>0. /\ UNCHANGED <<profile, payment, customers, intents, events, secrets, processed, ignored>>
      /\ pc[r] = "profile"
      /\ profileLock[u] = None
      /\ u \in User
      /\ \A v \in User : profileLock'[v] = IF v = u THEN r ELSE profileLock[v]
      /\ profile[u] \in Customer \cup {None}
  BY DEF LockProfile, ProfileRowFree, dbVars, stripeVars, hookVars, TypeOK, RequestHasArguments
<1>1. Moves(r, step, locals)
  BY DEF LockProfile, Goto, Moves, TypeOK
<1>2. TypeOK'
  <2>1. pc' \in [Request -> Steps]
    BY DEF LockProfile, Goto, TypeOK, Steps
  <2>2. profileLock' \in [User -> Request \cup {None}]
    BY DEF LockProfile, TypeOK
  <2>3. req' \in [Request -> [user : User \cup {None}, op : Operation \cup {None},
                          amount : Amount \cup {0}, customer : Customer \cup {None},
                          intent : Intent \cup {None}, status : Status]]
    BY <1>0 DEF LockProfile, TypeOK
  <2> QED BY <1>0, <2>1, <2>2, <2>3 DEF TypeOK
<1>3. RequestHasArguments'
  BY <1>0, <1>1 DEF Moves, RequestHasArguments, TypeOK
<1>4. LockHeld'
  <2> SUFFICES ASSUME NEW s \in Request
               PROVE /\ pc'[s] \in {"customer", "draft"} => profileLock'[req'[s].user] = s
                     /\ pc'[s] = "customer" => profile[req'[s].user] = None
                     /\ pc'[s] = "draft" => /\ req'[s].customer \in Customer
                                            /\ profile[req'[s].user] \in {None, req'[s].customer}
    BY <1>0 DEF LockHeld
  <2>1. CASE s = r
    BY <2>1, <1>0, <1>1 DEF Moves, TypeOK
  <2>2. CASE s # r
    BY <2>2, <1>0, <1>1, NoneAssumption DEF Moves, LockHeld, RequestHasArguments
  <2> QED BY <2>1, <2>2
<1>5. Drafted' /\ IntentHeld'
  BY <1>0, <1>1 DEF Moves, Drafted, Exists, SameTerms, IntentHeld
<1>6. RowConsistent' /\ IntentMatchesRow' /\ OneChargePerOperation' /\ SecretRecorded'
      /\ SuccessNeverIgnored' /\ OneVerdictPerEvent' /\ StatusConfirmedByStripe'
  BY <1>0 DEF RowConsistent, IntentMatchesRow, OneChargePerOperation, SecretRecorded,
     SuccessNeverIgnored, OneVerdictPerEvent, StatusConfirmedByStripe, Exists
<1> QED BY <1>2, <1>3, <1>4, <1>5, <1>6

LEMMA CreateCustomerInv ==
  ASSUME IInv, NEW r \in Request, CreateCustomer(r)
  PROVE  IInv'
<1> DEFINE c == <<req[r].user, req[r].op>>
           locals == [req[r] EXCEPT !.customer = c]
<1> USE DEF IInv
<1>0. /\ UNCHANGED <<profile, profileLock, payment, intents, events, secrets, processed, ignored>>
      /\ pc[r] = "customer"
      /\ c \in Customer
  BY DEF CreateCustomer, dbVars, hookVars, RequestHasArguments, Customer
<1>1. Moves(r, "draft", locals)
  BY DEF CreateCustomer, Goto, Moves, TypeOK
<1>2. TypeOK'
  <2>1. pc' \in [Request -> Steps]
    BY DEF CreateCustomer, Goto, TypeOK, Steps
  <2>2. customers' \subseteq Customer
    BY <1>0 DEF CreateCustomer, TypeOK
  <2>3. req' \in [Request -> [user : User \cup {None}, op : Operation \cup {None},
                          amount : Amount \cup {0}, customer : Customer \cup {None},
                          intent : Intent \cup {None}, status : Status]]
    BY <1>0 DEF CreateCustomer, TypeOK
  <2> QED BY <1>0, <2>1, <2>2, <2>3 DEF TypeOK
<1>3. RequestHasArguments'
  BY <1>0, <1>1 DEF Moves, RequestHasArguments, TypeOK
<1>4. LockHeld'
  BY <1>0, <1>1 DEF Moves, LockHeld, TypeOK
<1>5. Drafted' /\ IntentHeld'
  BY <1>0, <1>1 DEF Moves, Drafted, Exists, SameTerms, IntentHeld
<1>6. RowConsistent' /\ IntentMatchesRow' /\ OneChargePerOperation' /\ SecretRecorded'
      /\ SuccessNeverIgnored' /\ OneVerdictPerEvent' /\ StatusConfirmedByStripe'
  BY <1>0 DEF RowConsistent, IntentMatchesRow, OneChargePerOperation, SecretRecorded,
     SuccessNeverIgnored, OneVerdictPerEvent, StatusConfirmedByStripe, Exists
<1> QED BY <1>2, <1>3, <1>4, <1>5, <1>6

LEMMA RefuseReuseInv ==
  ASSUME IInv, NEW r \in Request, RefuseReuse(r)
  PROVE  IInv'
<1> DEFINE u == req[r].user
<1> USE DEF IInv
<1>0. /\ UNCHANGED <<profile, payment, customers, intents, events, secrets, processed, ignored>>
      /\ u \in User
      /\ profileLock[u] = r
      /\ \A v \in User : profileLock'[v] = IF v = u THEN None ELSE profileLock[v]
  BY DEF RefuseReuse, Unlock, stripeVars, hookVars, TypeOK, RequestHasArguments, LockHeld
<1>1. Moves(r, "idle", NoReq)
  BY EndRequestMoves DEF RefuseReuse
<1>2. TypeOK'
  BY <1>0 DEF RefuseReuse, Unlock, EndRequest, Goto, TypeOK, NoReq, Steps, Status
<1>3. RequestHasArguments' /\ IntentHeld'
  BY <1>0, <1>1 DEF Moves, RequestHasArguments, IntentHeld
<1>4. LockHeld'
  BY <1>0, <1>1 DEF Moves, LockHeld, RequestHasArguments
<1>5. Drafted'
  BY <1>0, <1>1 DEF Moves, Drafted, Exists, SameTerms
<1>6. RowConsistent' /\ IntentMatchesRow' /\ OneChargePerOperation' /\ SecretRecorded'
      /\ SuccessNeverIgnored' /\ OneVerdictPerEvent' /\ StatusConfirmedByStripe'
  BY <1>0 DEF RowConsistent, IntentMatchesRow, OneChargePerOperation, SecretRecorded,
     SuccessNeverIgnored, OneVerdictPerEvent, StatusConfirmedByStripe, Exists
<1> QED BY <1>2, <1>3, <1>4, <1>5, <1>6

LEMMA AbandonInv ==
  ASSUME IInv, NEW r \in Request, Abandon(r)
  PROVE  IInv'
<1> USE DEF IInv
<1>0. /\ UNCHANGED <<profile, payment, customers, intents, events, secrets, processed, ignored>>
      /\ \A v \in User : profileLock'[v] = IF profileLock[v] = r THEN None ELSE profileLock[v]
  BY DEF Abandon, stripeVars, hookVars
<1>1. Moves(r, "idle", NoReq)
  BY EndRequestMoves DEF Abandon
<1>2. TypeOK'
  BY <1>0 DEF Abandon, EndRequest, Goto, TypeOK, NoReq, Steps, Status
<1>3. RequestHasArguments' /\ IntentHeld'
  BY <1>0, <1>1 DEF Moves, RequestHasArguments, IntentHeld
<1>4. LockHeld'
  BY <1>0, <1>1 DEF Moves, LockHeld, RequestHasArguments
<1>5. Drafted'
  BY <1>0, <1>1 DEF Moves, Drafted, Exists, SameTerms
<1>6. RowConsistent' /\ IntentMatchesRow' /\ OneChargePerOperation' /\ SecretRecorded'
      /\ SuccessNeverIgnored' /\ OneVerdictPerEvent' /\ StatusConfirmedByStripe'
  BY <1>0 DEF RowConsistent, IntentMatchesRow, OneChargePerOperation, SecretRecorded,
     SuccessNeverIgnored, OneVerdictPerEvent, StatusConfirmedByStripe, Exists
<1> QED BY <1>2, <1>3, <1>4, <1>5, <1>6

LEMMA DraftPaymentInv ==
  ASSUME IInv, NEW r \in Request, DraftPayment(r)
  PROVE  IInv'
<1> DEFINE u  == req[r].user
           op == req[r].op
           draft == [user |-> u, amount |-> req[r].amount, customer |-> req[r].customer,
                     intent |-> None, status |-> "pending"]
<1> USE DEF IInv
<1>0. /\ UNCHANGED <<customers, intents, events, secrets, processed, ignored>>
      /\ pc[r] = "draft"
      /\ u \in User /\ op \in Operation /\ req[r].amount \in Amount
      /\ req[r].customer \in Customer /\ req[r].customer # None
      /\ profile[u] \in {None, req[r].customer}
      /\ profileLock[u] = r
  BY NoneAssumption DEF DraftPayment, stripeVars, hookVars, RequestHasArguments, LockHeld
<1>1. \A v \in User :
        /\ profile'[v] = IF v = u THEN req[r].customer ELSE profile[v]
        /\ profileLock'[v] = IF v = u THEN None ELSE profileLock[v]
  BY <1>0 DEF DraftPayment, Unlock, TypeOK
<1>2. \A o \in Operation :
        payment'[o] = IF o = op /\ ~Exists(op) THEN draft ELSE payment[o]
  BY <1>0 DEF DraftPayment, TypeOK
<1>3. /\ payment'[op] # NoPayment
      /\ payment'[op].user = u /\ payment'[op].amount = req[r].amount
      /\ payment'[op].intent = None => payment'[op].status = "pending"
  BY <1>0, <1>2, NoneAssumption DEF DraftPayment, Exists, SameTerms, NoPayment, RowConsistent
<1>4. \A o \in Operation : Exists(o) =>
        /\ payment'[o] = payment[o]
        /\ payment[o].user \in User /\ payment[o].customer \in Customer
  BY <1>2 DEF Exists, TypeOK, PaymentRow
<1>5. \/ /\ payment'[op].intent = None
         /\ Moves(r, "stripe", [req[r] EXCEPT !.status = payment'[op].status])
      \/ Moves(r, "idle", NoReq)
  BY EndRequestMoves DEF DraftPayment, Goto, Moves, TypeOK
<1>6. TypeOK'
  <2>1. profile' \in [User -> Customer \cup {None}] /\ profileLock' \in [User -> Request \cup {None}]
    BY <1>0 DEF DraftPayment, Unlock, TypeOK
  <2>2. draft \in PaymentRow
    BY <1>0 DEF PaymentRow, Status
  <2>3. payment' \in [Operation -> PaymentRow \cup {NoPayment}]
    BY <1>0, <2>2 DEF DraftPayment, TypeOK
  <2>4. pc' \in [Request -> Steps]
    BY DEF DraftPayment, EndRequest, Goto, TypeOK, Steps
  <2>5. payment'[op].status \in Status
    BY <1>0, <2>3 DEF PaymentRow, NoPayment, Status
  <2>6. req' \in [Request -> [user : User \cup {None}, op : Operation \cup {None},
                          amount : Amount \cup {0}, customer : Customer \cup {None},
                          intent : Intent \cup {None}, status : Status]]
    BY <2>5 DEF DraftPayment, EndRequest, NoReq, Status, TypeOK
  <2> QED BY <1>0, <2>1, <2>3, <2>4, <2>6 DEF TypeOK
<1>7. RequestHasArguments'
  BY <1>0, <1>5 DEF Moves, RequestHasArguments, TypeOK
<1>8. LockHeld'
  BY <1>0, <1>1, <1>5 DEF Moves, LockHeld, RequestHasArguments
<1>9. Drafted'
  <2> SUFFICES ASSUME NEW s \in Request, pc'[s] \in {"stripe", "finalize"}
               PROVE  /\ payment'[req'[s].op] # NoPayment
                      /\ payment'[req'[s].op].user = req'[s].user
                      /\ payment'[req'[s].op].amount = req'[s].amount
                      /\ req'[s].customer = profile'[req'[s].user]
                      /\ req'[s].customer \in Customer
                      /\ req'[s].status = "pending"
    BY DEF Drafted, Exists, SameTerms
  <2>1. CASE s = r
    BY <2>1, <1>0, <1>1, <1>3, <1>5 DEF Moves, TypeOK
  <2>2. CASE s # r
    BY <2>2, <1>0, <1>1, <1>4, <1>5, NoneAssumption
       DEF Moves, Drafted, Exists, SameTerms, RequestHasArguments
  <2> QED BY <2>1, <2>2
<1>10. IntentHeld'
  BY <1>0, <1>5 DEF Moves, IntentHeld
<1>11. RowConsistent'
  <2> SUFFICES ASSUME NEW o \in Operation, payment'[o] # NoPayment
               PROVE  /\ payment'[o].customer = profile'[payment'[o].user]
                      /\ payment'[o].intent = None => payment'[o].status = "pending"
                      /\ payment'[o].intent # None =>
                           payment'[o].intent \in intents /\ payment'[o].intent.op = o
    BY <1>0 DEF RowConsistent, Exists
  <2>1. CASE Exists(o)
    BY <2>1, <1>0, <1>1, <1>4, NoneAssumption DEF RowConsistent
  <2>2. CASE ~Exists(o)
    BY <2>2, <1>0, <1>1, <1>2 DEF Exists
  <2> QED BY <2>1, <2>2
<1>12. IntentMatchesRow'
  BY <1>0, <1>4 DEF IntentMatchesRow, Exists, TypeOK, Intent
<1>13. SecretRecorded'
  BY <1>0, <1>4 DEF SecretRecorded, IntentMatchesRow, TypeOK, Intent
<1>14. StatusConfirmedByStripe'
  BY <1>0, <1>2 DEF StatusConfirmedByStripe
<1>15. OneChargePerOperation' /\ SuccessNeverIgnored' /\ OneVerdictPerEvent'
  BY <1>0 DEF OneChargePerOperation, SuccessNeverIgnored, OneVerdictPerEvent
<1> QED BY <1>6, <1>7, <1>8, <1>9, <1>10, <1>11, <1>12, <1>13, <1>14, <1>15

LEMMA CreateStripeIntentInv ==
  ASSUME IInv, NEW r \in Request, CreateStripeIntent(r)
  PROVE  IInv'
<1> DEFINE op == req[r].op
           wanted == [key |-> op, op |-> op, amount |-> payment[op].amount,
                      customer |-> req[r].customer]
<1> USE DEF IInv
<1>0. /\ UNCHANGED <<profile, profileLock, payment, customers, events, secrets,
                     processed, ignored>>
      /\ pc[r] = "stripe"
      /\ intents' = intents \cup {wanted}
      /\ \A i \in intents : i.key = op => i = wanted
  BY DEF CreateStripeIntent, IntentKey, dbVars, hookVars
<1>1. Moves(r, "finalize", [req[r] EXCEPT !.intent = wanted])
  BY DEF CreateStripeIntent, IntentKey, Goto, Moves, TypeOK
<1>2. /\ op \in Operation
      /\ Exists(op)
      /\ payment[op] \in PaymentRow
      /\ payment[op].customer = req[r].customer
  BY <1>0 DEF RequestHasArguments, Drafted, SameTerms, RowConsistent, TypeOK, Exists
<1>3. wanted \in Intent
  BY <1>2 DEF Intent, PaymentRow
<1>4. TypeOK'
  <2>1. pc' \in [Request -> Steps]
    BY DEF CreateStripeIntent, Goto, TypeOK, Steps
  <2>2. intents' \subseteq Intent
    BY <1>0, <1>3 DEF TypeOK
  <2>3. req' \in [Request -> [user : User \cup {None}, op : Operation \cup {None},
                          amount : Amount \cup {0}, customer : Customer \cup {None},
                          intent : Intent \cup {None}, status : Status]]
    BY <1>3 DEF CreateStripeIntent, IntentKey, TypeOK
  <2> QED BY <1>0, <2>1, <2>2, <2>3 DEF TypeOK
<1>5. RequestHasArguments' /\ LockHeld'
  BY <1>0, <1>1 DEF Moves, RequestHasArguments, LockHeld, TypeOK
<1>6. Drafted'
  BY <1>0, <1>1 DEF Moves, Drafted, Exists, SameTerms, TypeOK
<1>7. IntentHeld'
  BY <1>0, <1>1 DEF Moves, IntentHeld, TypeOK
<1>8. RowConsistent' /\ SecretRecorded'
  BY <1>0 DEF RowConsistent, Exists, SecretRecorded
<1>9. IntentMatchesRow'
  BY <1>0, <1>2 DEF IntentMatchesRow, Exists
<1>10. OneChargePerOperation'
  BY <1>0 DEF OneChargePerOperation, IntentMatchesRow
<1>11. SuccessNeverIgnored' /\ OneVerdictPerEvent' /\ StatusConfirmedByStripe'
  BY <1>0 DEF SuccessNeverIgnored, OneVerdictPerEvent, StatusConfirmedByStripe
<1> QED BY <1>4, <1>5, <1>6, <1>7, <1>8, <1>9, <1>10, <1>11

\* What transaction 2 writes: the intent, and no status, because it assigns the status
\* it loaded.
LEMMA FinalizeWrites ==
  ASSUME IInv, NEW r \in Request, FinalizePaymentIntent(r)
  PROVE  /\ pc[r] = "finalize"
         /\ req[r].op \in Operation
         /\ req[r].intent \in intents /\ req[r].intent # None
         /\ req[r].intent.op = req[r].op
         /\ payment' = [payment EXCEPT ![req[r].op].intent = req[r].intent]
<1> USE DEF IInv
<1>1. pc[r] = "finalize" /\ req[r].op \in Operation /\ req[r].status = "pending"
  BY DEF FinalizePaymentIntent, RequestHasArguments, Drafted
<1>2. req[r].intent \in intents /\ req[r].intent # None /\ req[r].intent.op = req[r].op
  BY <1>1, NoneAssumption DEF IntentHeld, TypeOK
<1>3. payment' = [payment EXCEPT ![req[r].op].intent = req[r].intent,
                                 ![req[r].op].status = @]
  BY <1>1, <1>2 DEF FinalizePaymentIntent, Flushed
<1>4. payment[req[r].op] = [payment[req[r].op] EXCEPT !.status = @]
  BY <1>1 DEF TypeOK, PaymentRow, NoPayment
<1>5. payment' = [payment EXCEPT ![req[r].op].intent = req[r].intent]
  BY <1>1, <1>3, <1>4 DEF TypeOK, PaymentRow, NoPayment
<1> QED BY <1>1, <1>2, <1>5

LEMMA FinalizePaymentIntentInv ==
  ASSUME IInv, NEW r \in Request, FinalizePaymentIntent(r)
  PROVE  IInv'
<1> DEFINE op == req[r].op
           i  == req[r].intent
<1> USE DEF IInv
<1>0. /\ UNCHANGED <<profile, profileLock, customers, intents, events, processed, ignored>>
      /\ secrets \subseteq secrets' /\ secrets' \subseteq secrets \cup {i}
  BY DEF FinalizePaymentIntent, stripeVars, hookVars
<1>1. Moves(r, "idle", NoReq)
  BY EndRequestMoves DEF FinalizePaymentIntent
<1>2. /\ op \in Operation /\ i \in intents /\ i.op = op /\ i # None
      /\ Exists(op) /\ payment[op] \in PaymentRow
      /\ payment[op].intent # None => payment[op].intent = i
  <2>1. op \in Operation /\ i \in intents /\ i.op = op /\ i # None /\ pc[r] = "finalize"
    BY FinalizeWrites
  <2>2. Exists(op) /\ payment[op] \in PaymentRow
    BY <2>1 DEF Drafted, Exists, TypeOK
  <2>3. payment[op].intent # None => payment[op].intent = i
    BY <2>1, <2>2 DEF RowConsistent, OneChargePerOperation
  <2> QED BY <2>1, <2>2, <2>3
<1>3. \A o \in Operation :
        payment'[o] = IF o = op THEN [payment[op] EXCEPT !.intent = i] ELSE payment[o]
  BY <1>2, FinalizeWrites DEF TypeOK
<1>4. /\ payment'[op].user = payment[op].user /\ payment'[op].amount = payment[op].amount
      /\ payment'[op].customer = payment[op].customer
      /\ payment'[op].intent = i /\ payment'[op].status = payment[op].status
      /\ payment'[op] # NoPayment
  BY <1>2, <1>3, NoneAssumption DEF PaymentRow, NoPayment
<1>5. TypeOK'
  <2>1. payment' \in [Operation -> PaymentRow \cup {NoPayment}]
    <3>1. [payment[op] EXCEPT !.intent = i] \in PaymentRow
      BY <1>2 DEF TypeOK, PaymentRow
    <3> QED BY <1>2, <3>1, FinalizeWrites DEF TypeOK
  <2>2. pc' \in [Request -> Steps]
    BY DEF FinalizePaymentIntent, EndRequest, Goto, TypeOK, Steps
  <2>3. req' \in [Request -> [user : User \cup {None}, op : Operation \cup {None},
                          amount : Amount \cup {0}, customer : Customer \cup {None},
                          intent : Intent \cup {None}, status : Status]]
    BY DEF FinalizePaymentIntent, EndRequest, NoReq, Status, TypeOK
  <2> QED BY <1>0, <1>2, <2>1, <2>2, <2>3 DEF TypeOK
<1>6. RequestHasArguments' /\ LockHeld' /\ IntentHeld'
  BY <1>0, <1>1 DEF Moves, RequestHasArguments, LockHeld, IntentHeld
<1>7. Drafted'
  BY <1>0, <1>1, <1>3, <1>4 DEF Moves, Drafted, Exists, SameTerms, RequestHasArguments
<1>8. RowConsistent'
  BY <1>0, <1>2, <1>3, <1>4 DEF RowConsistent, Exists
<1>9. IntentMatchesRow'
  BY <1>0, <1>3, <1>4 DEF IntentMatchesRow, Exists, TypeOK, Intent
<1>10. SecretRecorded'
  BY <1>0, <1>2, <1>3, <1>4 DEF SecretRecorded, OneChargePerOperation, TypeOK, Intent
<1>11. StatusConfirmedByStripe'
  BY <1>0, <1>2, <1>3, <1>4 DEF StatusConfirmedByStripe, RowConsistent
<1>12. OneChargePerOperation' /\ SuccessNeverIgnored' /\ OneVerdictPerEvent'
  BY <1>0 DEF OneChargePerOperation, SuccessNeverIgnored, OneVerdictPerEvent
<1> QED BY <1>5, <1>6, <1>7, <1>8, <1>9, <1>10, <1>11, <1>12

LEMMA StripeInv ==
  ASSUME IInv, NEW i \in intents, ConfirmSucceeds(i) \/ ConfirmFails(i) \/ CancelIntent(i)
  PROVE  IInv'
<1> USE DEF IInv
<1>0. UNCHANGED <<profile, profileLock, payment, pc, req, customers, intents, secrets,
                  processed, ignored>>
  BY DEF ConfirmSucceeds, ConfirmFails, CancelIntent, Emit, dbVars, hookVars
<1>1. PICK e : /\ events' = events \cup {e}
               /\ e \in Event
               /\ e.type = "succeeded" => e.intent \in secrets
  <2>1. CASE ConfirmSucceeds(i)
    <3>1. Outcome(i, "succeeded") \in Event
      BY MaxFailuresAssumption DEF Outcome, Event, TypeOK
    <3> QED BY <2>1, <3>1 DEF ConfirmSucceeds, Emit, Outcome
  <2>2. CASE CancelIntent(i)
    <3>1. Outcome(i, "canceled") \in Event
      BY MaxFailuresAssumption DEF Outcome, Event, TypeOK
    <3> QED BY <2>2, <3>1 DEF CancelIntent, Emit, Outcome
  <2>3. CASE ConfirmFails(i)
    <3>1. PICK n \in 1..MaxFailures :
            Emit([intent |-> i, type |-> "payment_failed", n |-> n])
      BY <2>3 DEF ConfirmFails
    <3>2. [intent |-> i, type |-> "payment_failed", n |-> n] \in Event
      BY <3>1, MaxFailuresAssumption DEF Event, TypeOK
    <3> QED BY <3>1, <3>2 DEF Emit
  <2> QED BY <2>1, <2>2, <2>3
<1>2. TypeOK' /\ SecretRecorded'
  BY <1>0, <1>1 DEF TypeOK, SecretRecorded
<1>3. RequestHasArguments' /\ LockHeld' /\ Drafted' /\ IntentHeld' /\ RowConsistent'
      /\ IntentMatchesRow' /\ OneChargePerOperation' /\ SuccessNeverIgnored'
      /\ OneVerdictPerEvent' /\ StatusConfirmedByStripe'
  BY <1>0 DEF RequestHasArguments, LockHeld, Drafted, SameTerms, IntentHeld, RowConsistent,
     IntentMatchesRow, OneChargePerOperation, SuccessNeverIgnored, OneVerdictPerEvent,
     StatusConfirmedByStripe, Exists
<1> QED BY <1>2, <1>3

\* What a payment webhook changes in the table: statuses of rows with the event's
\* intent, nothing else.
LEMMA WebhookWrites ==
  ASSUME IInv, NEW e \in events, PaymentWebhook(e)
  PROVE  \A op \in Operation :
           /\ payment'[op].user = payment[op].user
           /\ payment'[op].amount = payment[op].amount
           /\ payment'[op].customer = payment[op].customer
           /\ payment'[op].intent = payment[op].intent
           /\ payment'[op].status = IF payment[op].intent = e.intent
                                      THEN PaymentStatusAfter(e.type, payment[op].status)
                                      ELSE payment[op].status
           /\ payment[op].intent = e.intent => Exists(op)
           /\ payment'[op] = NoPayment <=> payment[op] = NoPayment
           /\ payment'[op] \in PaymentRow \cup {NoPayment}
<1> USE DEF IInv
<1> SUFFICES ASSUME NEW op \in Operation
             PROVE  /\ payment'[op].user = payment[op].user
                    /\ payment'[op].amount = payment[op].amount
                    /\ payment'[op].customer = payment[op].customer
                    /\ payment'[op].intent = payment[op].intent
                    /\ payment'[op].status = IF payment[op].intent = e.intent
                                      THEN PaymentStatusAfter(e.type, payment[op].status)
                                      ELSE payment[op].status
                    /\ payment[op].intent = e.intent => Exists(op)
                    /\ payment'[op] = NoPayment <=> payment[op] = NoPayment
                    /\ payment'[op] \in PaymentRow \cup {NoPayment}
  OBVIOUS
<1>1. e \in Event /\ e.intent # None
  BY NoneAssumption DEF TypeOK, Event
<1>2. CASE payment[op].intent = e.intent
  <2>1. payment[op] # NoPayment /\ payment[op] \in PaymentRow
    BY <1>1, <1>2 DEF TypeOK, NoPayment
  <2>2. payment'[op] = [payment[op] EXCEPT !.status = PaymentStatusAfter(e.type, @)]
    BY <1>2 DEF PaymentWebhook
  <2>3. PaymentStatusAfter(e.type, payment[op].status) \in Status
    BY <2>1 DEF PaymentStatusAfter, Status, PaymentRow
  <2>4. payment'[op] \in PaymentRow
    BY <2>1, <2>2, <2>3 DEF PaymentRow
  <2>5. payment'[op].intent = e.intent /\ payment'[op] # NoPayment
    BY <1>1, <1>2, <2>1, <2>2 DEF PaymentRow, NoPayment
  <2> QED BY <1>2, <2>1, <2>2, <2>4, <2>5 DEF PaymentRow, Exists
<1>3. CASE payment[op].intent # e.intent
  <2>1. payment'[op] = payment[op]
    BY <1>3 DEF PaymentWebhook
  <2> QED BY <1>3, <2>1 DEF TypeOK
<1> QED BY <1>2, <1>3

LEMMA PaymentWebhookInv ==
  ASSUME IInv, NEW e \in events, PaymentWebhook(e)
  PROVE  IInv'
<1> USE DEF IInv
<1>0. UNCHANGED <<profile, profileLock, pc, req, customers, intents, events, secrets>>
  BY DEF PaymentWebhook, stripeVars
<1>1. /\ e \notin processed /\ e \notin ignored
      /\ e \in Event
      /\ \/ processed' = processed \cup {e} /\ ignored' = ignored
         \/ /\ processed' = processed /\ ignored' = ignored \cup {e}
            /\ \A op \in Operation : payment[op].intent # e.intent
  BY DEF PaymentWebhook, AlreadyStored, TypeOK
<1>2. TypeOK'
  <2>1. payment' \in [Operation -> PaymentRow \cup {NoPayment}]
    <3>1. \E f : payment' = [op \in Operation |-> f[op]]
      BY DEF PaymentWebhook, TypeOK
    <3> QED BY <3>1, WebhookWrites
  <2> QED BY <1>0, <1>1, <2>1 DEF TypeOK
<1>3. RequestHasArguments' /\ LockHeld' /\ IntentHeld'
  BY <1>0 DEF RequestHasArguments, LockHeld, IntentHeld
<1>4. Drafted'
  BY <1>0, WebhookWrites DEF Drafted, SameTerms, Exists, RequestHasArguments
<1>5. RowConsistent'
  BY <1>0, <1>1, WebhookWrites, NoneAssumption DEF RowConsistent, Exists, Event
<1>6. IntentMatchesRow' /\ OneChargePerOperation'
  BY <1>0, WebhookWrites DEF IntentMatchesRow, OneChargePerOperation, Exists, TypeOK, Intent
<1>7. SecretRecorded'
  BY <1>0, WebhookWrites DEF SecretRecorded, TypeOK, Intent
<1>8. SuccessNeverIgnored'
  BY <1>1 DEF SuccessNeverIgnored, SecretRecorded, TypeOK, Intent
<1>9. OneVerdictPerEvent'
  BY <1>1 DEF OneVerdictPerEvent
<1>10. StatusConfirmedByStripe'
  <2> SUFFICES ASSUME NEW op \in Operation, payment'[op].status # "pending"
               PROVE  \E f \in processed' :
                        /\ f.intent = payment'[op].intent
                        /\ f.type = IF payment'[op].status = "failed" THEN "payment_failed"
                                                              ELSE payment'[op].status
    BY DEF StatusConfirmedByStripe
  <2>1. CASE payment'[op].status = payment[op].status
    BY <2>1, <1>1, WebhookWrites DEF StatusConfirmedByStripe
  <2>2. CASE payment'[op].status # payment[op].status
    <3>1. /\ payment[op].intent = e.intent
          /\ payment'[op].status = PaymentStatusAfter(e.type, payment[op].status)
          /\ e \in processed'
      BY <2>2, <1>1, WebhookWrites
    <3> QED BY <2>2, <3>1, <1>1, WebhookWrites DEF PaymentStatusAfter, Event
  <2> QED BY <2>1, <2>2
<1> QED BY <1>2, <1>3, <1>4, <1>5, <1>6, <1>7, <1>8, <1>9, <1>10

LEMMA IgnoreWebhookInv ==
  ASSUME IInv, NEW e \in JunkEvent, IgnoreWebhook(e)
  PROVE  IInv'
<1> USE DEF IInv
<1>0. /\ UNCHANGED <<profile, profileLock, payment, pc, req, customers, intents, events,
                     secrets, processed>>
      /\ ignored' = ignored \cup {e} /\ e \notin processed
  BY DEF IgnoreWebhook, AlreadyStored, dbVars, stripeVars
<1>1. e.type # "succeeded"
  BY JunkTypeAssumption DEF JunkEvent
<1>2. TypeOK' /\ SuccessNeverIgnored' /\ OneVerdictPerEvent'
  BY <1>0, <1>1 DEF TypeOK, SuccessNeverIgnored, OneVerdictPerEvent
<1>3. RequestHasArguments' /\ LockHeld' /\ Drafted' /\ IntentHeld' /\ RowConsistent'
      /\ IntentMatchesRow' /\ OneChargePerOperation' /\ SecretRecorded'
      /\ StatusConfirmedByStripe'
  BY <1>0 DEF RequestHasArguments, LockHeld, Drafted, SameTerms, IntentHeld, RowConsistent,
     IntentMatchesRow, OneChargePerOperation, SecretRecorded, StatusConfirmedByStripe, Exists
<1> QED BY <1>2, <1>3

-----------------------------------------------------------------------------
LEMMA InitInv == Init => IInv
  BY NoneAssumption
     DEF Init, IInv, TypeOK, Steps, Status, NoReq, NoPayment, RequestHasArguments, LockHeld,
         Drafted, IntentHeld, RowConsistent, IntentMatchesRow, OneChargePerOperation,
         SecretRecorded, SuccessNeverIgnored, OneVerdictPerEvent, StatusConfirmedByStripe,
         Exists

LEMMA StutterInv == IInv /\ UNCHANGED vars => IInv'
  BY DEF vars, IInv, TypeOK, RequestHasArguments, LockHeld, Drafted, SameTerms, IntentHeld,
         RowConsistent, IntentMatchesRow, OneChargePerOperation, SecretRecorded,
         SuccessNeverIgnored, OneVerdictPerEvent, StatusConfirmedByStripe, Exists

LEMMA NextInv == IInv /\ [Next]_vars => IInv'
  BY StutterInv, BeginInv, LockProfileInv, CreateCustomerInv, RefuseReuseInv, DraftPaymentInv,
     CreateStripeIntentInv, FinalizePaymentIntentInv, AbandonInv, StripeInv,
     PaymentWebhookInv, IgnoreWebhookInv
     DEF Next

LEMMA Invariant == Spec => []IInv
  BY InitInv, NextInv, PTL DEF Spec

\* Tables, local variables and Stripe objects keep their shape.
THEOREM TypeCorrect == Spec => []TypeOK
<1>1. IInv => TypeOK
  BY DEF IInv
<1> QED BY <1>1, Invariant, PTL

\* However often, by however many requests and with whatever crashes an operation id
\* is submitted, Stripe never holds two intents for it (create_payment_intent_for_user).
THEOREM NoDoubleCharge == Spec => []OneChargePerOperation
<1>1. IInv => OneChargePerOperation
  BY DEF IInv
<1> QED BY <1>1, Invariant, PTL

\* Stripe charges the amount and the customer the database recorded
\* (create_payment_intent_for_user).
THEOREM ChargesMatch == Spec => []ChargeMatchesPayment
<1>1. IInv => ChargeMatchesPayment
  BY DEF IInv, ChargeMatchesPayment, IntentMatchesRow, RowConsistent, TypeOK, Intent
<1> QED BY <1>1, Invariant, PTL

\* A shown outcome was reported by Stripe about the payment's own intent
\* (_handle_payment_event).
THEOREM OutcomesConfirmed == Spec => []StatusConfirmedByStripe
<1>1. IInv => StatusConfirmedByStripe
  BY DEF IInv
<1> QED BY <1>1, Invariant, PTL

\* The event that says a client paid is never put aside as unknown
\* (process_stripe_event, _finalize_payment_intent).
THEOREM SuccessFindsItsRow == Spec => []SuccessNeverIgnored
<1>1. IInv => SuccessNeverIgnored
  BY DEF IInv
<1> QED BY <1>1, Invariant, PTL

\* No event is both applied and ignored (process_stripe_event).
THEOREM OneVerdict == Spec => []OneVerdictPerEvent
<1>1. IInv => OneVerdictPerEvent
  BY DEF IInv
<1> QED BY <1>1, Invariant, PTL

-----------------------------------------------------------------------------
\* Once stored, a user's Stripe customer never changes: the row lock makes the look-up
\* and the update one step (create_or_get_customer_for_user).
THEOREM CustomerStable == Spec => CustomerIsStable
<1>1. ASSUME IInv, [Next]_vars
      PROVE  \A u \in User : profile[u] # None => profile'[u] = profile[u]
  <2>1. CASE \E r \in Request : DraftPayment(r)
    <3>1. PICK r \in Request : DraftPayment(r)
      BY <2>1
    <3>2. /\ profile[req[r].user] \in {None, req[r].customer}
          /\ profile' = [profile EXCEPT ![req[r].user] = req[r].customer]
      BY <1>1, <3>1 DEF DraftPayment, IInv, LockHeld
    <3> QED BY <1>1, <3>2 DEF IInv, TypeOK
  <2>2. CASE UNCHANGED profile
    BY <2>2
  <2>3. (\E r \in Request : DraftPayment(r)) \/ UNCHANGED profile
    BY <1>1 DEF Next, vars, dbVars, Begin, LockProfile, CreateCustomer, RefuseReuse,
       CreateStripeIntent, FinalizePaymentIntent, Abandon, ConfirmSucceeds, ConfirmFails,
       CancelIntent, Emit, PaymentWebhook, IgnoreWebhook
  <2> QED BY <2>1, <2>2, <2>3
<1>2. IInv /\ [Next]_vars =>
        [\A u \in User : profile[u] # None => profile'[u] = profile[u]]_vars
  BY <1>1
<1> QED BY <1>2, Invariant, PTL DEF Spec, CustomerIsStable

\* SUCCEEDED is for ever and FAILED or CANCELED only give way to it, also against the
\* last transaction of a concurrent retry (_handle_payment_event,
\* _finalize_payment_intent).
THEOREM NoDowngrade == Spec => StatusNeverDowngrades
<1> DEFINE Kept == \A op \in Operation :
                     payment[op].status # "pending" =>
                       payment'[op].status \in {payment[op].status, "succeeded"}
<1>1. ASSUME IInv, [Next]_vars
      PROVE  Kept
  <2>1. CASE \E r \in Request : DraftPayment(r)
    BY <1>1, <2>1 DEF DraftPayment, IInv, TypeOK, Exists, NoPayment
  <2>2. CASE \E r \in Request : FinalizePaymentIntent(r)
    <3>1. PICK r \in Request : FinalizePaymentIntent(r)
      BY <2>2
    <3>2. /\ req[r].op \in Operation
          /\ payment' = [payment EXCEPT ![req[r].op].intent = req[r].intent]
      BY <1>1, <3>1, FinalizeWrites
    <3> QED BY <1>1, <3>2 DEF IInv, TypeOK, PaymentRow, NoPayment
  <2>3. CASE \E e \in events : PaymentWebhook(e)
    BY <1>1, <2>3, WebhookWrites DEF PaymentStatusAfter
  <2>4. CASE UNCHANGED payment
    BY <2>4
  <2>5. \/ \E r \in Request : DraftPayment(r) \/ FinalizePaymentIntent(r)
        \/ \E e \in events : PaymentWebhook(e)
        \/ UNCHANGED payment
    BY <1>1 DEF Next, vars, dbVars, Begin, LockProfile, CreateCustomer, RefuseReuse,
       CreateStripeIntent, Abandon, ConfirmSucceeds, ConfirmFails, CancelIntent, Emit,
       IgnoreWebhook
  <2> QED BY <2>1, <2>2, <2>3, <2>4, <2>5
<1>2. IInv /\ [Next]_vars => [Kept]_vars
  BY <1>1
<1> QED BY <1>2, Invariant, PTL DEF Spec, StatusNeverDowngrades

-----------------------------------------------------------------------------
(* BillingPayments implements the safety of PaymentPromise *)

\* Stripe's events are about intents it has, and an intent ends once.
EventsCoherent ==
  /\ \A e \in events : /\ e.intent \in intents
                       /\ e.type # "payment_failed" => e = Outcome(e.intent, e.type)
  /\ \A i \in intents : ~(Outcome(i, "succeeded") \in events /\ Outcome(i, "canceled") \in events)

LEMMA IntentEvents ==
  ASSUME IInv, NEW i \in intents, ConfirmSucceeds(i) \/ ConfirmFails(i) \/ CancelIntent(i)
  PROVE  /\ ~Closed(i) /\ UNCHANGED <<payment, intents>>
         /\ \E e : /\ events' = events \cup {e} /\ e.intent = i
                   /\ \/ e.type = "payment_failed"
                      \/ e = Outcome(i, "succeeded") /\ e.type = "succeeded"
                      \/ e = Outcome(i, "canceled") /\ e.type = "canceled"
<1>0. /\ Outcome(i, "succeeded").intent = i /\ Outcome(i, "succeeded").type = "succeeded"
      /\ Outcome(i, "canceled").intent = i /\ Outcome(i, "canceled").type = "canceled"
  BY DEF Outcome
<1>1. CASE ConfirmSucceeds(i)
  <2>1. ~Closed(i) /\ UNCHANGED <<payment, intents>> /\ events' = events \cup {Outcome(i, "succeeded")}
    BY <1>1 DEF ConfirmSucceeds, Emit, dbVars
  <2> QED BY <1>0, <2>1
<1>2. CASE CancelIntent(i)
  <2>1. ~Closed(i) /\ UNCHANGED <<payment, intents>> /\ events' = events \cup {Outcome(i, "canceled")}
    BY <1>2 DEF CancelIntent, Emit, dbVars
  <2> QED BY <1>0, <2>1
<1>3. CASE ConfirmFails(i)
  <2>1. PICK n \in 1..MaxFailures : Emit([intent |-> i, type |-> "payment_failed", n |-> n])
    BY <1>3 DEF ConfirmFails
  <2> QED BY <1>3, <2>1 DEF ConfirmFails, Emit, dbVars
<1> QED BY <1>1, <1>2, <1>3

\* Steps that are neither Stripe's nor a client's leave the events alone.
LEMMA EventsFrame ==
  ASSUME [Next]_vars
  PROVE  \/ \E i \in intents : ConfirmSucceeds(i) \/ ConfirmFails(i) \/ CancelIntent(i)
         \/ events' = events /\ intents \subseteq intents'
  BY DEF Next, vars, stripeVars, Begin, LockProfile, CreateCustomer, RefuseReuse, DraftPayment,
     CreateStripeIntent, FinalizePaymentIntent, Abandon, PaymentWebhook, IgnoreWebhook

LEMMA EventsStayCoherent ==
  ASSUME IInv, EventsCoherent, [Next]_vars
  PROVE  EventsCoherent'
<1>1. CASE \E i \in intents : ConfirmSucceeds(i) \/ ConfirmFails(i) \/ CancelIntent(i)
  <2>1. PICK i \in intents : ConfirmSucceeds(i) \/ ConfirmFails(i) \/ CancelIntent(i)
    BY <1>1
  <2>2. PICK e : /\ events' = events \cup {e} /\ e.intent = i
                 /\ \/ e.type = "payment_failed"
                    \/ e = Outcome(i, "succeeded") /\ e.type = "succeeded"
                    \/ e = Outcome(i, "canceled") /\ e.type = "canceled"
    BY <2>1, IntentEvents
  <2>3. ~Closed(i) /\ intents' = intents
    BY <2>1, IntentEvents
  <2>4. \A j, type : Outcome(j, type) = e => j = i /\ type = e.type
    BY <2>2 DEF Outcome
  <2>5. \A j \in intents : ~(Outcome(j, "succeeded") \in events' /\ Outcome(j, "canceled") \in events')
    BY <2>2, <2>3, <2>4 DEF EventsCoherent, Closed
  <2> QED BY <2>2, <2>3, <2>5 DEF EventsCoherent, Outcome
<1>2. CASE events' = events /\ intents \subseteq intents'
  <2>1. \A i, type : Outcome(i, type) \in events => i \in intents
    BY DEF EventsCoherent, Outcome
  <2> QED BY <1>2, <2>1 DEF EventsCoherent, Outcome
<1> QED BY <1>1, <1>2, EventsFrame

LEMMA EventsAlwaysCoherent == Spec => []EventsCoherent
<1>1. Init => EventsCoherent
  BY DEF Init, EventsCoherent
<1> QED BY <1>1, EventsStayCoherent, Invariant, PTL DEF Spec

\* The charge of an operation, from Stripe's intents and events.
ChargeAt(ints, evs, op) ==
  LET mine == {i \in ints : i.op = op}
      Ended(type) == \E i \in mine : Outcome(i, type) \in evs
  IN  IF mine = {} THEN "none"
      ELSE IF Ended("succeeded") THEN "succeeded"
      ELSE IF Ended("canceled") THEN "canceled" ELSE "open"

LEMMA ChargeOfIntent ==
  ASSUME NEW ints, NEW evs, NEW i \in ints, \A j \in ints : j.op = i.op => j = i
  PROVE  ChargeAt(ints, evs, i.op) =
           IF Outcome(i, "succeeded") \in evs THEN "succeeded"
           ELSE IF Outcome(i, "canceled") \in evs THEN "canceled" ELSE "open"
<1>1. {j \in ints : j.op = i.op} = {i}
  OBVIOUS
<1> QED BY <1>1 DEF ChargeAt

LEMMA ChargeOfOthers ==
  ASSUME NEW ints, NEW evs, NEW ints2, NEW evs2, NEW op,
         \A i : i \in ints /\ i.op = op <=> i \in ints2 /\ i.op = op,
         \A i \in ints : \A type : i.op = op => (Outcome(i, type) \in evs2 <=> Outcome(i, type) \in evs)
  PROVE  ChargeAt(ints2, evs2, op) = ChargeAt(ints, evs, op)
<1>1. {i \in ints2 : i.op = op} = {i \in ints : i.op = op}
  OBVIOUS
<1> QED BY <1>1 DEF ChargeAt

LEMMA NoCharge ==
  ASSUME NEW ints, NEW evs, NEW op, \A i \in ints : i.op # op
  PROVE  ChargeAt(ints, evs, op) = "none"
<1>1. {i \in ints : i.op = op} = {}
  OBVIOUS
<1> QED BY <1>1 DEF ChargeAt

Charge == [op \in Operation |-> ChargeOf(op)]
Declined == {e.intent.op : e \in {f \in events : f.type = "payment_failed"}}
Shown == [op \in Operation |-> payment[op].status]

\* The steps of the promise, by what happens to one operation.
LEMMA ChargeMoves ==
  ASSUME NEW op \in Operation, Shown' = Shown, Declined' = Declined,
         \A o \in Operation : o # op => ChargeOf(o)' = ChargeOf(o),
         \/ ChargeOf(op) = "none" /\ ChargeOf(op)' = "open"
         \/ ChargeOf(op) = "open" /\ ChargeOf(op)' \in {"succeeded", "canceled"}
  PROVE  Promise!Next
<1>1. Charge[op] = ChargeOf(op) /\ Charge' = [Charge EXCEPT ![op] = ChargeOf(op)']
  BY DEF Charge
<1>2. Promise!Open(op) \/ Promise!Settle(op)
  BY <1>1 DEF Charge, Declined, Shown, Promise!Open, Promise!Settle
<1> QED BY <1>2 DEF Promise!Next

LEMMA ShownMoves ==
  ASSUME NEW op \in Operation, Charge' = Charge, Declined' = Declined,
         \A o \in Operation : o # op => payment'[o].status = payment[o].status,
         \/ ChargeOf(op) = "succeeded" /\ payment'[op].status = "succeeded"
         \/ /\ ChargeOf(op) = "canceled" /\ payment[op].status = "pending"
            /\ payment'[op].status = "canceled"
         \/ op \in Declined /\ payment[op].status = "pending" /\ payment'[op].status = "failed"
  PROVE  Promise!Next
<1>1. /\ Charge[op] = ChargeOf(op) /\ Shown[op] = payment[op].status
      /\ Shown' = [Shown EXCEPT ![op] = payment'[op].status]
  BY DEF Charge, Shown
<1>2. Promise!ShowSuccess(op) \/ Promise!ShowCanceled(op) \/ Promise!ShowFailed(op)
  BY <1>1 DEF Charge, Declined, Shown, Promise!ShowSuccess, Promise!ShowCanceled,
     Promise!ShowFailed, Promise!Show
<1> QED BY <1>2 DEF Promise!Next

LEMMA DeclinedMoves ==
  ASSUME NEW op \in Operation, Charge' = Charge, Shown' = Shown, ChargeOf(op) = "open",
         Declined' = Declined \cup {op}
  PROVE  Promise!Next
<1>1. Charge[op] = ChargeOf(op)
  BY DEF Charge
<1>2. Promise!Decline(op)
  BY <1>1 DEF Charge, Declined, Shown, Promise!Decline
<1> QED BY <1>2 DEF Promise!Next

LEMMA PromiseStutters ==
  ASSUME Charge' = Charge, Shown' = Shown, Declined' = Declined
  PROVE  UNCHANGED Promise!vars
  BY DEF Charge, Declined, Shown, Promise!vars

LEMMA ChargesAre ==
  ASSUME NEW op
  PROVE  /\ ChargeOf(op) = ChargeAt(intents, events, op)
         /\ ChargeOf(op)' = ChargeAt(intents', events', op)
  BY DEF ChargeOf, ChargeAt

\* Stripe creates an intent: the operation had none, or had this one.
LEMMA CreateIntentPromise ==
  ASSUME IInv, EventsCoherent, NEW r \in Request, CreateStripeIntent(r)
  PROVE  Promise!Next \/ UNCHANGED Promise!vars
<1> DEFINE op == req[r].op
           wanted == [key |-> op, op |-> op, amount |-> payment[op].amount,
                      customer |-> req[r].customer]
<1>1. /\ UNCHANGED <<payment, events>>
      /\ intents' = intents \cup {wanted} /\ op \in Operation
      /\ \A i \in intents : i.key = op => i = wanted
  BY DEF CreateStripeIntent, IntentKey, dbVars, IInv, RequestHasArguments
<1>2. \A i \in intents : i.op = op => i = wanted
  BY <1>1 DEF IInv, IntentMatchesRow
<1>3. wanted.op = op
  OBVIOUS
<1>4. PICK o, w : o = op /\ w = wanted
  OBVIOUS
<1> HIDE DEF wanted, op
<1>5. Shown' = Shown /\ Declined' = Declined
  BY <1>1 DEF Shown, Declined
<1>6. CASE wanted \in intents
  <2>1. intents' = intents
    BY <1>1, <1>6
  <2>2. Charge' = Charge
    BY <1>1, <2>1 DEF Charge, ChargeOf
  <2> QED BY <1>5, <2>2, PromiseStutters
<1>7. CASE wanted \notin intents
  <2>1. \A i \in intents : i.op # o
    BY <1>2, <1>4, <1>7
  <2>2. ChargeOf(o) = "none"
    BY <2>1, NoCharge, ChargesAre
  <2>3. \A type : Outcome(w, type) \notin events
    BY <1>4, <1>7 DEF Outcome, EventsCoherent
  <2>4. ChargeOf(o)' = "open"
    <3>1. w \in intents' /\ w.op = o /\ \A j \in intents' : j.op = w.op => j = w
      BY <1>1, <1>3, <1>4, <2>1
    <3>2. ChargeAt(intents', events', w.op) =
            IF Outcome(w, "succeeded") \in events' THEN "succeeded"
            ELSE IF Outcome(w, "canceled") \in events' THEN "canceled" ELSE "open"
      BY <3>1, ChargeOfIntent
    <3> QED BY <1>1, <2>3, <3>1, <3>2, ChargesAre
  <2>5. ASSUME NEW p \in Operation, p # o PROVE ChargeOf(p)' = ChargeOf(p)
    <3>1. \A i : i \in intents /\ i.op = p <=> i \in intents' /\ i.op = p
      BY <1>1, <1>3, <1>4, <2>5
    <3>2. ChargeAt(intents', events', p) = ChargeAt(intents, events, p)
      BY <1>1, <3>1, ChargeOfOthers
    <3> QED BY <3>2, ChargesAre
  <2> QED BY <1>1, <1>4, <1>5, <2>2, <2>4, <2>5, ChargeMoves
<1> QED BY <1>6, <1>7

\* Stripe reports about an intent.
LEMMA StripePromise ==
  ASSUME IInv, EventsCoherent, NEW i \in intents, ConfirmSucceeds(i) \/ ConfirmFails(i) \/ CancelIntent(i)
  PROVE  Promise!Next \/ UNCHANGED Promise!vars
<1>1. PICK e : /\ events' = events \cup {e} /\ e.intent = i
               /\ \/ e.type = "payment_failed"
                  \/ e = Outcome(i, "succeeded") /\ e.type = "succeeded"
                  \/ e = Outcome(i, "canceled") /\ e.type = "canceled"
  BY IntentEvents
<1>2. ~Closed(i) /\ UNCHANGED <<payment, intents>>
  BY IntentEvents
<1>3. i.op \in Operation /\ \A j \in intents : j.op = i.op => j = i
  BY DEF IInv, TypeOK, Intent, OneChargePerOperation
<1>4. Shown' = Shown
  BY <1>2 DEF Shown
<1>5. ChargeOf(i.op) = "open"
  BY <1>2, <1>3, ChargeOfIntent, ChargesAre DEF Closed
<1>6. CASE e.type = "payment_failed"
  <2>1. Declined' = Declined \cup {i.op}
    <3>1. {f \in events' : f.type = "payment_failed"} = {f \in events : f.type = "payment_failed"} \cup {e}
      BY <1>1, <1>6
    <3> QED BY <1>1, <3>1 DEF Declined
  <2>2. \A j, type : type # "payment_failed" => (Outcome(j, type) \in events' <=> Outcome(j, type) \in events)
    BY <1>1, <1>6 DEF Outcome
  <2>3. ASSUME NEW p PROVE ChargeOf(p)' = ChargeOf(p)
    BY <1>2, <2>2 DEF ChargeOf
  <2>4. Charge' = Charge
    BY <2>3 DEF Charge
  <2> QED BY <1>3, <1>4, <1>5, <2>1, <2>4, DeclinedMoves
<1>7. CASE e.type # "payment_failed"
  <2>1. Declined' = Declined
    <3>1. {f \in events' : f.type = "payment_failed"} = {f \in events : f.type = "payment_failed"}
      BY <1>1, <1>7
    <3> QED BY <3>1 DEF Declined
  <2>2. ChargeOf(i.op)' \in {"succeeded", "canceled"}
    <3>1. Outcome(i, "succeeded") \in events' \/ Outcome(i, "canceled") \in events'
      BY <1>1, <1>7
    <3>2. ChargeAt(intents', events', i.op) =
            IF Outcome(i, "succeeded") \in events' THEN "succeeded"
            ELSE IF Outcome(i, "canceled") \in events' THEN "canceled" ELSE "open"
      BY <1>2, <1>3, ChargeOfIntent
    <3> QED BY <3>1, <3>2, ChargesAre
  <2>3. ASSUME NEW p \in Operation, p # i.op PROVE ChargeOf(p)' = ChargeOf(p)
    <3>1. \A j \in intents : \A type : j.op = p => (Outcome(j, type) \in events' <=> Outcome(j, type) \in events)
      BY <1>1, <2>3 DEF Outcome
    <3>2. ChargeAt(intents', events', p) = ChargeAt(intents, events, p)
      BY <1>2, <3>1, ChargeOfOthers
    <3> QED BY <3>2, ChargesAre
  <2> QED BY <1>3, <1>4, <1>5, <2>1, <2>2, <2>3, ChargeMoves
<1> QED BY <1>6, <1>7

\* A payment webhook is processed: it moves the one row that names its intent.
LEMMA WebhookPromise ==
  ASSUME IInv, EventsCoherent, NEW e \in events, PaymentWebhook(e)
  PROVE  Promise!Next \/ UNCHANGED Promise!vars
<1>1. UNCHANGED <<intents, events>>
  BY DEF PaymentWebhook, stripeVars
<1>2. Charge' = Charge /\ Declined' = Declined
  BY <1>1 DEF Charge, ChargeOf, Declined
<1>3. /\ e.intent \in intents /\ e.intent # None
      /\ e.type \in {"succeeded", "payment_failed", "canceled"}
  BY NoneAssumption DEF IInv, TypeOK, Event, EventsCoherent
<1>4. \A op \in Operation : payment[op].intent = e.intent => op = e.intent.op
  BY <1>3, WebhookWrites DEF IInv, RowConsistent
<1>5. CASE \A op \in Operation : payment'[op].status = payment[op].status
  <2>1. Shown' = Shown
    BY <1>5 DEF Shown
  <2> QED BY <1>2, <2>1, PromiseStutters
<1>6. CASE \E op \in Operation : payment'[op].status # payment[op].status
  <2>1. PICK op \in Operation : payment'[op].status # payment[op].status
    BY <1>6
  <2>2. /\ payment[op].intent = e.intent /\ op = e.intent.op
        /\ payment'[op].status = PaymentStatusAfter(e.type, payment[op].status)
        /\ \A o \in Operation : o # op => payment'[o].status = payment[o].status
    BY <1>4, <2>1, WebhookWrites
  <2>3. \/ e.type = "succeeded" /\ payment'[op].status = "succeeded"
        \/ e.type = "canceled" /\ payment[op].status = "pending" /\ payment'[op].status = "canceled"
        \/ e.type = "payment_failed" /\ payment[op].status = "pending" /\ payment'[op].status = "failed"
    BY <1>3, <2>1, <2>2 DEF PaymentStatusAfter
  <2>4. e.type # "payment_failed" => ChargeOf(op) = e.type
    <3> SUFFICES ASSUME e.type # "payment_failed" PROVE ChargeOf(op) = e.type
      OBVIOUS
    <3>1. Outcome(e.intent, e.type) \in events /\ e.type \in {"succeeded", "canceled"}
      BY <1>3 DEF EventsCoherent
    <3>2. ~(Outcome(e.intent, "succeeded") \in events /\ Outcome(e.intent, "canceled") \in events)
      BY <1>3 DEF EventsCoherent
    <3>3. \A j \in intents : j.op = e.intent.op => j = e.intent
      BY <1>3 DEF IInv, OneChargePerOperation
    <3>4. ChargeAt(intents, events, e.intent.op) =
            IF Outcome(e.intent, "succeeded") \in events THEN "succeeded"
            ELSE IF Outcome(e.intent, "canceled") \in events THEN "canceled" ELSE "open"
      BY <1>3, <3>3, ChargeOfIntent
    <3> QED BY <2>2, <3>1, <3>2, <3>4, ChargesAre
  <2>5. e.type = "payment_failed" => op \in Declined
    BY <2>2 DEF Declined
  <2> QED BY <1>2, <2>2, <2>3, <2>4, <2>5, ShownMoves
<1> QED BY <1>5, <1>6

\* The other steps change nothing of what is promised.
LEMMA QuietPromise ==
  ASSUME IInv, [Next]_vars
  PROVE  \/ \E r \in Request : CreateStripeIntent(r)
         \/ \E i \in intents : ConfirmSucceeds(i) \/ ConfirmFails(i) \/ CancelIntent(i)
         \/ \E e \in events : PaymentWebhook(e)
         \/ UNCHANGED Promise!vars
<1>1. ASSUME UNCHANGED <<intents, events>>, \A op \in Operation : payment'[op].status = payment[op].status
      PROVE  UNCHANGED Promise!vars
  <2>1. Charge' = Charge /\ Declined' = Declined /\ Shown' = Shown
    BY <1>1 DEF Charge, ChargeOf, Declined, Shown
  <2> QED BY <2>1, PromiseStutters
<1>2. ASSUME NEW r \in Request, DraftPayment(r)
      PROVE  UNCHANGED Promise!vars
  <2>1. UNCHANGED <<intents, events>>
    BY <1>2 DEF DraftPayment, stripeVars
  <2>2. \A op \in Operation : payment'[op].status = payment[op].status
    BY <1>2 DEF DraftPayment, IInv, TypeOK, Exists, NoPayment
  <2> QED BY <1>1, <2>1, <2>2
<1>3. ASSUME NEW r \in Request, FinalizePaymentIntent(r)
      PROVE  UNCHANGED Promise!vars
  <2>1. UNCHANGED <<intents, events>>
    BY <1>3 DEF FinalizePaymentIntent, stripeVars
  <2>2. /\ req[r].op \in Operation
        /\ payment' = [payment EXCEPT ![req[r].op].intent = req[r].intent]
    BY <1>3, FinalizeWrites
  <2>3. \A op \in Operation : payment'[op].status = payment[op].status
    BY <2>2 DEF IInv, TypeOK, PaymentRow, NoPayment
  <2> QED BY <1>1, <2>1, <2>3
<1>4. \/ \E r \in Request : CreateStripeIntent(r) \/ DraftPayment(r) \/ FinalizePaymentIntent(r)
      \/ \E i \in intents : ConfirmSucceeds(i) \/ ConfirmFails(i) \/ CancelIntent(i)
      \/ \E e \in events : PaymentWebhook(e)
      \/ UNCHANGED <<payment, intents, events>>
  BY DEF Next, vars, dbVars, stripeVars, Begin, LockProfile, CreateCustomer, RefuseReuse,
     Abandon, IgnoreWebhook
<1> QED BY <1>1, <1>2, <1>3, <1>4

\* Whatever requests, retries, crashes and webhooks do, every step is one of the promise
\* or none of its business: an operation gets one charge, which is settled once, and the
\* status shown moves only to what Stripe has reported and never back
\* (create_payment_intent_for_user, _finalize_payment_intent, _handle_payment_event).
THEOREM PromiseKeptSafely == Spec => Promise!Safety
<1>1. Init => Promise!Init
  <2> SUFFICES ASSUME Init PROVE Promise!Init
    OBVIOUS
  <2>1. \A op \in Operation : ChargeOf(op) = "none" /\ payment[op].status = "pending"
    BY DEF Init, ChargeOf, NoPayment
  <2>2. Declined = {}
    BY DEF Init, Declined
  <2> QED BY <2>1, <2>2 DEF Declined, Promise!Init
<1>2. IInv /\ EventsCoherent /\ [Next]_vars => [Promise!Next]_(Promise!vars)
  BY CreateIntentPromise, StripePromise, WebhookPromise, QuietPromise
<1> QED BY <1>1, <1>2, Invariant, EventsAlwaysCoherent, PTL DEF Spec, Promise!Safety
=============================================================================
