----------------------------- MODULE Application -----------------------------
(***************************************************************************)
(* What an application to drive promises: the stages it passes through,    *)
(* whoever acts on it.  An account that two requests worked on at once is  *)
(* "contested": the code promises nothing about its stage.                 *)
(***************************************************************************)
CONSTANT Drivers

VARIABLE stage

Stages == {"none", "draft", "submitted", "review", "approved", "rejected", "deleted", "contested"}

Move(d, from, to) == stage[d] \in from /\ stage' = [stage EXCEPT ![d] = to]

Open(d)    == Move(d, {"none"}, "draft")
Hire(d)    == Move(d, {"none"}, "approved")
Submit(d)  == Move(d, {"draft"}, "submitted")
Review(d)  == Move(d, {"submitted"}, "review")
Approve(d) == Move(d, {"submitted", "review"}, "approved")
Reject(d)  == Move(d, {"draft", "submitted", "review"}, "rejected")
Reopen(d)  == Move(d, {"rejected"}, "draft")
Delete(d)  == Move(d, Stages \ {"none", "deleted"}, "deleted")
Contest(d) == Move(d, Stages \ {"deleted"}, "contested")

Init == stage = [d \in Drivers |-> "none"]
Next == \E d \in Drivers : \/ Open(d) \/ Hire(d) \/ Submit(d) \/ Review(d) \/ Approve(d)
                           \/ Reject(d) \/ Reopen(d) \/ Delete(d) \/ Contest(d)
Spec == Init /\ [][Next]_stage
=============================================================================
