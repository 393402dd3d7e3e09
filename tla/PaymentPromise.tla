---------------------------- MODULE PaymentPromise ----------------------------
(***************************************************************************)
(* What the billing service promises about a payment, whatever requests,   *)
(* retries, crashes and webhooks happen behind it: an operation is charged *)
(* at most once, and the status shown to the client follows Stripe's       *)
(* outcome and never runs ahead of it or back.                             *)
(***************************************************************************)
CONSTANT Operation

VARIABLES
  charge,    \* operation -> "none", "open", "succeeded" or "canceled"
  declined,  \* operations with a failed attempt to pay
  shown      \* operation -> the status the service shows

vars == <<charge, declined, shown>>

Init == /\ charge = [op \in Operation |-> "none"]
        /\ declined = {}
        /\ shown = [op \in Operation |-> "pending"]

\* The operation gets its one charge.
Open(op) == /\ charge[op] = "none"
            /\ charge' = [charge EXCEPT ![op] = "open"]
            /\ UNCHANGED <<declined, shown>>

\* The charge is settled, once.
Settle(op) == /\ charge[op] = "open"
              /\ \E outcome \in {"succeeded", "canceled"} :
                   charge' = [charge EXCEPT ![op] = outcome]
              /\ UNCHANGED <<declined, shown>>

Decline(op) == /\ charge[op] = "open"
               /\ declined' = declined \cup {op}
               /\ UNCHANGED <<charge, shown>>

Show(op, status) == shown' = [shown EXCEPT ![op] = status] /\ UNCHANGED <<charge, declined>>

ShowSuccess(op) == charge[op] = "succeeded" /\ Show(op, "succeeded")

ShowCanceled(op) == /\ charge[op] = "canceled" /\ shown[op] = "pending"
                    /\ Show(op, "canceled")

ShowFailed(op) == /\ op \in declined /\ shown[op] = "pending"
                  /\ Show(op, "failed")

Next == \E op \in Operation : \/ Open(op) \/ Settle(op) \/ Decline(op)
                              \/ ShowSuccess(op) \/ ShowCanceled(op) \/ ShowFailed(op)

\* What is never shown or charged.
Safety == Init /\ [][Next]_vars

\* A payment that went through is shown as such in the end.
Spec == Safety /\ \A op \in Operation : WF_vars(ShowSuccess(op))
=============================================================================
