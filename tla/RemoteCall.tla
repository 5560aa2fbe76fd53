----------------------------- MODULE RemoteCall -----------------------------
(***************************************************************************)
(* What a module that sends an inter-module message may rely on, whatever  *)
(* carries the message: the request takes effect at most once, the answer  *)
(* Ok is given only after it took effect, and after the answer Err it has  *)
(* had, and will have, no effect.                                          *)
(***************************************************************************)
EXTENDS Naturals

CONSTANT Requests

VARIABLE status   \* status[m]: was m sent, how often did it take effect, what was answered

Unsent == [sent |-> FALSE, effects |-> 0, answer |-> "none"]
Pending == [sent |-> TRUE, effects |-> 0, answer |-> "none"]
Effective == [sent |-> TRUE, effects |-> 1, answer |-> "none"]
Confirmed == [sent |-> TRUE, effects |-> 1, answer |-> "Ok"]
Refused == [sent |-> TRUE, effects |-> 0, answer |-> "Err"]

RCInit == status = [m \in Requests |-> Unsent]

Becomes(m, next) == status' = [status EXCEPT ![m] = next]

(***************************************************************************)
(* A broadcast sends several requests at once.                             *)
(***************************************************************************)
Request(sent) ==
    /\ \A m \in sent : status[m] = Unsent
    /\ status' = [m \in Requests |-> IF m \in sent THEN Pending ELSE status[m]]

TakeEffect(m) == status[m] = Pending /\ Becomes(m, Effective)
Confirm(m) == status[m] = Effective /\ Becomes(m, Confirmed)
Refuse(m) == status[m] = Pending /\ Becomes(m, Refused)

RCNext ==
    \/ \E sent \in SUBSET Requests : Request(sent)
    \/ \E m \in Requests : TakeEffect(m) \/ Confirm(m) \/ Refuse(m)

Spec == RCInit /\ [][RCNext]_status

=============================================================================
