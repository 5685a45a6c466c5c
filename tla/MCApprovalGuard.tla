-------------------------- MODULE MCApprovalGuard --------------------------
(***************************************************************************)
(* ApprovalGuard on small instances.                                       *)
(***************************************************************************)
EXTENDS ApprovalGuard, TLC

\* Calls of one kind differ by nothing but their name, and so do commits.
Symmetry == Permutations(Guards) \cup Permutations(Freezes) \cup Permutations(Heads)

\* The appends of setFreezeState come after it has written the freeze file; where
\* only that file matters they need not fail.
FreezesRecorded == torn \notin Freezes /\ \A f \in Freezes : result[f] # "failed"
FreezeSpec == Init /\ [][Next /\ FreezesRecorded']_vars

DeployOnly      == {{"deploy"}}
DeployEmergency == {{"deploy"}, {"emergency"}}
=============================================================================
