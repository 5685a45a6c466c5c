---------------------------- MODULE ActionClass ----------------------------
(***************************************************************************)
(* How the guard classifies an action (packages/guard/src/index.ts).       *)
(*                                                                         *)
(* The code lower-cases the action, turns "_" and ":" into "." and asks    *)
(* which keywords it contains.  An action is therefore the SET of keywords *)
(* found in it; the first rule whose keywords are present names the class. *)
(* No keyword is a substring of another, so every set of keywords is the   *)
(* set of some action string.                                              *)
(***************************************************************************)

\* The keywords classifyGuardAction looks for.
Words == {"emergency", "contract", "deploy", "payment", "write", "config",
          "domain", "change", "env", "secret", "set", "publish", "npm",
          "vercel", "push", "commit", "pull", "fetch.fast-forward", "summar"}

GuardActionClass == {"read", "summarize", "pull", "write", "push", "deploy",
                     "publish", "env_write", "domain_write",
                     "payment_config_write", "smart_contract_deploy",
                     "emergency_override"}

MUTATING_ACTIONS == {"write", "push", "deploy", "publish", "env_write",
                     "domain_write", "payment_config_write",
                     "smart_contract_deploy", "emergency_override"}

\* "a" contains one of the keywords in "some".
Mentions(a, some) == a \cap some # {}

\* Slip: the low-risk verbs are tried before the mutating ones.
PullFirst(a) ==
  IF Mentions(a, {"pull", "fetch.fast-forward"}) THEN "pull"
  ELSE IF Mentions(a, {"emergency", "publish", "npm", "deploy", "vercel", "push",
                       "write", "commit", "config"}) THEN "write"
  ELSE "read"

\* The rules in the order of the code: the first that applies wins.
classifyGuardAction(a) ==
  IF "emergency" \in a THEN "emergency_override"
  ELSE IF {"contract", "deploy"} \subseteq a THEN "smart_contract_deploy"
  ELSE IF "payment" \in a /\ Mentions(a, {"write", "config"}) THEN "payment_config_write"
  ELSE IF "domain" \in a /\ Mentions(a, {"write", "change"}) THEN "domain_write"
  ELSE IF Mentions(a, {"env", "secret"}) /\ Mentions(a, {"write", "set"}) THEN "env_write"
  ELSE IF Mentions(a, {"publish", "npm"}) THEN "publish"
  ELSE IF Mentions(a, {"deploy", "vercel"}) THEN "deploy"
  ELSE IF "push" \in a THEN "push"
  ELSE IF Mentions(a, {"write", "commit", "config"}) THEN "write"
  ELSE IF Mentions(a, {"pull", "fetch.fast-forward"}) THEN "pull"
  ELSE IF "summar" \in a THEN "summarize"
  ELSE "read"

actionRequiresApproval(a) == classifyGuardAction(a) \in MUTATING_ACTIONS
=============================================================================
