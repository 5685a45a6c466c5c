-------------------------- MODULE OneTimeApproval --------------------------
(***************************************************************************)
(* What the guard promises of approval tokens, whatever calls run, crash   *)
(* or time out: a token is approved for one scope, is claimed by one user  *)
(* at most, and lets that user do what was approved and nothing else.      *)
(* A claim may be lost (the user never gets its grant), never repeated.    *)
(***************************************************************************)
CONSTANTS
  Tokens,  \* the approval tokens
  Users,   \* who may present one
  Scopes,  \* what a token may be approved for
  None     \* no scope, no user

VARIABLES
  scope,   \* scope[t]: what token t was approved for, None before approval
  holder,  \* holder[t]: the user that claimed t, or None
  granted  \* granted[u]: what user u was allowed to do, or None

vars == <<scope, holder, granted>>

Init ==
  /\ scope = [t \in Tokens |-> None]
  /\ holder = [t \in Tokens |-> None]
  /\ granted = [u \in Users |-> None]

Approve(t) ==
  /\ scope[t] = None
  /\ \E s \in Scopes : scope' = [scope EXCEPT ![t] = s]
  /\ UNCHANGED <<holder, granted>>

Claim(t, u) ==
  /\ scope[t] # None
  /\ holder[t] = None
  /\ \A x \in Tokens : holder[x] # u
  /\ holder' = [holder EXCEPT ![t] = u]
  /\ UNCHANGED <<scope, granted>>

Grant(t, u) ==
  /\ holder[t] = u
  /\ granted[u] = None
  /\ granted' = [granted EXCEPT ![u] = scope[t]]
  /\ UNCHANGED <<scope, holder>>

Next == \E t \in Tokens :
  \/ Approve(t)
  \/ \E u \in Users : Claim(t, u) \/ Grant(t, u)

Spec == Init /\ [][Next]_vars
=============================================================================
