---------------------------- MODULE MCPaidRoute ----------------------------
(***************************************************************************)
(* PaidRoute on small instances.                                           *)
(***************************************************************************)
EXTENDS PaidRoute, TLC

\* The numbered requests, which come one after the other.
Burst == Requests \cap (1..5)
Core == Requests \ Burst

\* The other requests, proofs, keys, agents and processes differ by nothing but
\* their names.
Symmetry == Permutations(Core) \cup Permutations(Proofs) \cup Permutations(Keys)
            \cup Permutations(Agents) \cup Permutations(Processes)

\* All routes match one rule.
OneRule == [u \in Routes |-> CHOOSE rule \in Rules : TRUE]

-----------------------------------------------------------------------------
(* A bound on a whole behaviour, one of three:                              *)
(*   - two requests with one proof between them, under any keys, edits and  *)
(*     crashes;                                                             *)
(*   - any number of requests, each with a proof and without a key, all     *)
(*     under one trace, while nothing is edited and nothing dies;           *)
(*   - a burst: requests without proof and key, under one trace, to any     *)
(*     route, one after the other, that all come as far as the limiter.     *)

Made == {r \in Requests : arg[r] # None}

TracesUsed == {arg[r].trace : r \in Made}
ProofsUsed == {arg[r].proof : r \in Made} \ {None}

InBounds ==
  /\ now <= 1
  /\ \A r \in Made : arg[r].route = CHOOSE u \in Routes : TRUE
  /\ \/ Cardinality(Made) <= 2 /\ Cardinality(ProofsUsed) <= 1
     \/ /\ \A r \in Made : arg[r].proof # None /\ arg[r].key = None
        /\ Cardinality(TracesUsed) <= 1 /\ edits = 0 /\ crashes = 0

\* The next of the burst may come.
NextOfBurst(r) ==
  /\ edits = 0 /\ crashes = 0
  /\ Made = {s \in Burst : s < r}
  /\ \A s \in Made : pc[s] = "done"

InBurst ==
  /\ \A r \in Made : /\ arg[r].proof = None /\ arg[r].key = None
                     /\ result[r] \in {"none", "payment_required", "throttled"}
  /\ Cardinality(TracesUsed) <= 1

BoundedNext ==
  \/ \E r \in Core : Made \subseteq Core /\ Arrive(r) /\ InBounds'
  \/ \E r \in Burst : NextOfBurst(r) /\ Arrive(r) /\ InBurst'
  \/ \E r \in Core : Step(r)
  \/ \E r \in Burst : Step(r) /\ InBurst'
  \/ Made \subseteq Core /\ \E p \in Processes : Crash(p) /\ InBounds'
  \/ Made \subseteq Core /\ (EditPolicy \/ EditStop) /\ InBounds'
  \/ Tick /\ (Made \subseteq Burst \/ InBounds')

BoundedSpec == Init /\ [][BoundedNext]_vars
=============================================================================
