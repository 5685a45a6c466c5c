---------------------------- MODULE ActionNames ----------------------------
(***************************************************************************)
(* ActionClass on every set of keywords, reached one keyword at a time.    *)
(***************************************************************************)
EXTENDS ActionClass

VARIABLE action

ActionInit == action = {}

AddWord == \E w \in Words \ action : action' = action \cup {w}

ActionSpec == ActionInit /\ [][AddWord]_action

\* Spelling more into the name of an action never makes it one that needs no
\* approval: the order of the rules cannot be played against the guard.
NoTalkDown ==
  [][actionRequiresApproval(action) => actionRequiresApproval(action')]_action

\* Every verb that writes to production asks for approval wherever it stands in
\* the name, and so does a change of environment, secrets, domains or payments.
MutationsNeedApproval ==
  \/ Mentions(action, {"write", "commit", "push", "deploy", "vercel", "publish", "npm"})
  \/ "domain" \in action /\ "change" \in action
  \/ Mentions(action, {"env", "secret"}) /\ "set" \in action
  => actionRequiresApproval(action)
=============================================================================
