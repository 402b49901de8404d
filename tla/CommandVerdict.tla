---------------------------- MODULE CommandVerdict ----------------------------
(***************************************************************************)
(* What the business host promises about a command it has accepted for the *)
(* agent: the verdict the business data gets from it.  A result is applied *)
(* or refused, an analysis may be cancelled by the buyer, also after it    *)
(* failed, and a verdict of success is never taken back.  Delivery,        *)
(* retries, redelivery and restarts do not show here.                      *)
(***************************************************************************)
CONSTANT Op
VARIABLE verdict

Verdicts == {"none", "open", "applied", "failed", "cancelled"}

Init == verdict = [op \in Op |-> "none"]

Give(op, from, to) ==
    /\ verdict[op] \in from
    /\ verdict' = [verdict EXCEPT ![op] = to]

Accept(op) == Give(op, {"none"}, "open")
Apply(op) == Give(op, {"open"}, "applied")
Refuse(op) == Give(op, {"open"}, "failed")
Cancel(op) == Give(op, {"open", "failed"}, "cancelled")

Next == \E op \in Op : Accept(op) \/ Apply(op) \/ Refuse(op) \/ Cancel(op)

Spec == Init /\ [][Next]_verdict

===============================================================================
