-------------------------------- MODULE Mailbox --------------------------------
(***************************************************************************)
(* What the delivery worker promises to those who publish messages: of all *)
(* the messages with one idempotency key, at most one email is sent, and   *)
(* the key's row tells the outcome and then stays.  It does not promise    *)
(* that an email is sent.                                                  *)
(***************************************************************************)
EXTENDS Naturals

CONSTANT Key

VARIABLES
  published,  \* keys of the messages in the topic
  delivery,   \* key -> "none", "PENDING", "SENT" or "FAILED"
  emails      \* key -> emails sent for it

vars == <<published, delivery, emails>>

Init == /\ published = {}
        /\ delivery = [k \in Key |-> "none"]
        /\ emails = [k \in Key |-> 0]

Publish(keys) == /\ published' = published \cup keys
                 /\ UNCHANGED <<delivery, emails>>

Reserve(k) == /\ k \in published
              /\ delivery[k] = "none"
              /\ delivery' = [delivery EXCEPT ![k] = "PENDING"]
              /\ UNCHANGED <<published, emails>>

Email(k) == /\ delivery[k] = "PENDING"
            /\ emails[k] = 0
            /\ emails' = [emails EXCEPT ![k] = 1]
            /\ UNCHANGED <<published, delivery>>

Finish(k) == /\ delivery[k] = "PENDING"
             /\ \/ emails[k] = 1 /\ delivery' = [delivery EXCEPT ![k] = "SENT"]
                \/ delivery' = [delivery EXCEPT ![k] = "FAILED"]
             /\ UNCHANGED <<published, emails>>

Handle(k) == Reserve(k) \/ Email(k) \/ Finish(k)

Next == \/ \E keys \in SUBSET Key : Publish(keys)
        \/ \E k \in Key : Handle(k)

Spec == Init /\ [][Next]_vars
=============================================================================
