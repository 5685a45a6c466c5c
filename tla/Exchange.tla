------------------------------ MODULE Exchange ------------------------------
(***************************************************************************)
(* Fetches of the agent client (packages/core/src/client.ts), the site     *)
(* that answers them, the receipt ledger each of them keeps, and one       *)
(* reconciliation of the two ledgers (packages/core/src/receipts.ts) that  *)
(* runs while they are being written.                                      *)
(*                                                                         *)
(* An append is one step here that either adds a receipt or throws;        *)
(* ReceiptLedger models what is inside it.  The site is the middleware of  *)
(* PaidRoute, reduced to the decision it takes and the receipt it writes.  *)
(* A fetch also names its trace id.                                        *)
(***************************************************************************)
EXTENDS Integers, Sequences

CONSTANTS
  Fetches,        \* calls of client.fetch
  None,           \* no value
  RuleDecision,   \* RuleDecision[v]: decision of the rule that matches, in version v of the policy
  RuleNetwork,    \* RuleNetwork[v]: its payment.network, or None
  DefaultNetwork, \* options.algorandX402.network of the middleware, or None
  Fragile         \* the ledgers ("agent", "site") that may become unreadable

Decisions == {"allow", "charge", "deny", "review", "throttle"}

Versions == 1 .. Len(RuleDecision)

Networks == {RuleNetwork[v] : v \in Versions} \cup {DefaultNetwork, None}

ASSUME ExchangeAssumption ==
  /\ RuleDecision \in Seq(Decisions) /\ RuleDecision # <<>>
  /\ DOMAIN RuleNetwork = Versions
  /\ Fragile \subseteq {"agent", "site"}
  /\ None \notin Fetches

VARIABLES
  served,    \* version of the policy the site has loaded
  broken,    \* ledgers that no longer parse
  ledger,    \* ledger["agent"], ledger["site"]: the receipts
  pc,        \* where each fetch is
  ask,       \* options of each fetch
  saw,       \* version of the policy each fetch discovered (0: none)
  proof,     \* the fetch has paid and sends X-PAYMENT
  site,      \* where the site is with each fetch's request
  entry,     \* the receipt the site is about to append for each fetch
  audit,     \* the reconciliation
  returned,  \* history: the fetches that had returned when it began
  before     \* history: the traces in either ledger when it began

siteVars == <<served, site, entry>>
auditVars == <<audit, returned, before>>
vars == <<served, broken, ledger, pc, ask, saw, proof, site, entry, audit, returned, before>>

Ledgers == {"agent", "site"}

Receipts == [trace : Fetches \cup {None}, decision : Decisions, policy : Versions,
             network : Networks]

NoReceipt == [trace |-> None, decision |-> RuleDecision[1], policy |-> 1, network |-> None]

\* within: budgetAllowsPrice; pays: payments.algorandX402.enabled.
Asks == [within : BOOLEAN, dryRun : BOOLEAN, pays : BOOLEAN]

ClientPlaces == {"idle", "decide", "wait", "record", "returned", "thrown"}

SitePlaces == {"away", "arrived", "write", "payment_required", "answered"}

AuditPlaces == {"idle", "verify", "read", "done", "thrown"}

Init ==
  /\ served = 1
  /\ broken = {}
  /\ ledger = [l \in Ledgers |-> <<>>]
  /\ pc = [f \in Fetches |-> "idle"]
  /\ ask = [f \in Fetches |-> [within |-> FALSE, dryRun |-> FALSE, pays |-> FALSE]]
  /\ saw = [f \in Fetches |-> 0]
  /\ proof = [f \in Fetches |-> FALSE]
  /\ site = [f \in Fetches |-> "away"]
  /\ entry = [f \in Fetches |-> NoReceipt]
  /\ audit = [pc |-> "idle", toVerify |-> Ledgers, valid |-> {}, read |-> 0,
              ledger |-> [l \in Ledgers |-> <<>>]]
  /\ returned = {}
  /\ before = {}

-----------------------------------------------------------------------------
\* client.fetch.

\* discoverPolicy: the site serves the policy it has loaded.
Discover(f) ==
  /\ pc[f] = "idle"
  /\ \E a \in Asks : ask' = [ask EXCEPT ![f] = a]
  /\ saw' = [saw EXCEPT ![f] = served]
  /\ pc' = [pc EXCEPT ![f] = "decide"]
  /\ UNCHANGED <<broken, ledger, proof, siteVars, auditVars>>

\* Over budget, a decision that ends the fetch, or a dry run: no request is made.
StaysLocal(f) ==
  LET d == RuleDecision[saw[f]]
  IN \/ d = "charge" /\ ~ ask[f].within
     \/ d \in {"deny", "review"}
     \/ ask[f].dryRun

Decide(f) ==
  /\ pc[f] = "decide"
  /\ IF StaysLocal(f)
     THEN pc' = [pc EXCEPT ![f] = "record"] /\ UNCHANGED site
     ELSE pc' = [pc EXCEPT ![f] = "wait"] /\ site' = [site EXCEPT ![f] = "arrived"]
  /\ UNCHANGED <<served, broken, ledger, ask, saw, proof, entry, auditVars>>

\* The paying fetch answers 402 by a second request with the same headers, once.
Pay(f) ==
  /\ pc[f] = "wait"
  /\ site[f] = "payment_required"
  /\ RuleDecision[saw[f]] = "charge" /\ ask[f].pays /\ ~ proof[f]
  /\ proof' = [proof EXCEPT ![f] = TRUE]
  /\ site' = [site EXCEPT ![f] = "arrived"]
  /\ UNCHANGED <<served, broken, ledger, pc, ask, saw, entry, auditVars>>

Receive(f) ==
  /\ pc[f] = "wait"
  /\ site[f] \in {"payment_required", "answered"}
  /\ site[f] = "payment_required" =>
       RuleDecision[saw[f]] # "charge" \/ ~ ask[f].pays \/ proof[f]
  /\ site' = [site EXCEPT ![f] = "away"]
  /\ pc' = [pc EXCEPT ![f] = "record"]
  /\ UNCHANGED <<served, broken, ledger, ask, saw, proof, entry, auditVars>>

\* Discovery, payment or the request fails, or its answer is lost: fetch throws
\* before it has written a receipt, and the site goes on by itself.
Lose(f) ==
  /\ pc[f] \in {"idle", "decide", "wait"}
  /\ pc' = [pc EXCEPT ![f] = "thrown"]
  /\ UNCHANGED <<broken, ledger, ask, saw, proof, siteVars, auditVars>>

AgentReceipt(f) ==
  [trace |-> f, decision |-> RuleDecision[saw[f]], policy |-> saw[f],
   network |-> RuleNetwork[saw[f]]]

\* A slip: a ledger that refuses the receipt is ignored.
Record_Ignored(f) ==
  /\ pc[f] = "record"
  /\ \/ ledger' = [ledger EXCEPT !["agent"] = Append(@, AgentReceipt(f))]
     \/ UNCHANGED ledger
  /\ pc' = [pc EXCEPT ![f] = "returned"]
  /\ UNCHANGED <<broken, ask, saw, proof, siteVars, auditVars>>

\* maybeWriteReceipt: fetch returns once the receipt is in the ledger, and throws
\* if it cannot be written.
Record(f) ==
  /\ pc[f] = "record"
  /\ \/ /\ "agent" \notin broken
        /\ ledger' = [ledger EXCEPT !["agent"] = Append(@, AgentReceipt(f))]
        /\ pc' = [pc EXCEPT ![f] = "returned"]
     \/ pc' = [pc EXCEPT ![f] = "thrown"] /\ UNCHANGED ledger
  /\ UNCHANGED <<broken, ask, saw, proof, siteVars, auditVars>>

-----------------------------------------------------------------------------
\* The site.

\* A slip: the site's receipt has a trace id of its own.
SiteReceipt_OwnTrace(f, d) ==
  [trace |-> None, decision |-> d, policy |-> served,
   network |-> IF RuleNetwork[served] # None THEN RuleNetwork[served] ELSE DefaultNetwork]

\* The decision enforced, and the terms of the rule of the loaded policy.
SiteReceipt(f, d) ==
  [trace |-> f, decision |-> d, policy |-> served,
   network |-> IF RuleNetwork[served] # None THEN RuleNetwork[served] ELSE DefaultNetwork]

\* The rule's decision, or what replaces it: a rate limit or a paid-route lock
\* (throttle), a missing idempotency key (review), a replayed proof (deny).
Enforceable(f) ==
  LET d == RuleDecision[served]
  IN {d, "throttle"} \cup (IF d = "charge" THEN {"review"} ELSE {})
                     \cup (IF d = "charge" /\ proof[f] THEN {"deny"} ELSE {})

SiteDecide(f) ==
  /\ site[f] = "arrived"
  /\ \E d \in Enforceable(f) : entry' = [entry EXCEPT ![f] = SiteReceipt(f, d)]
  /\ site' = [site EXCEPT ![f] = "write"]
  /\ UNCHANGED <<served, broken, ledger, pc, ask, saw, proof, auditVars>>

\* Unverified identity, an emergency stop: answered without a receipt.
SitePreempt(f) ==
  /\ site[f] = "arrived"
  /\ site' = [site EXCEPT ![f] = "answered"]
  /\ UNCHANGED <<served, broken, ledger, pc, ask, saw, proof, entry, auditVars>>

\* writeSiteReceipt precedes the answer.  A charge that is not paid is answered
\* 402; one that is paid may be, if the proof is not trusted.
SiteWrite(f) ==
  /\ site[f] = "write"
  /\ "site" \notin broken
  /\ ledger' = [ledger EXCEPT !["site"] = Append(@, entry[f])]
  /\ \E answer \in {"payment_required", "answered"} :
       /\ answer = "payment_required" => entry[f].decision = "charge"
       /\ answer = "answered" => entry[f].decision # "charge" \/ proof[f]
       /\ site' = [site EXCEPT ![f] = answer]
  /\ UNCHANGED <<served, broken, pc, ask, saw, proof, entry, auditVars>>

\* The append throws: answered 500.
SiteWriteFails(f) ==
  /\ site[f] = "write"
  /\ site' = [site EXCEPT ![f] = "answered"]
  /\ UNCHANGED <<served, broken, ledger, pc, ask, saw, proof, entry, auditVars>>

\* The site restarts with a newer policy; the requests it was serving are lost, and
\* its answers may be lost or still arrive.
Redeploy ==
  /\ served < Len(RuleDecision)
  /\ served' = served + 1
  /\ \E arriving \in SUBSET {f \in Fetches : site[f] \in {"payment_required", "answered"}} :
       site' = [f \in Fetches |-> IF f \in arriving THEN site[f] ELSE "away"]
  /\ UNCHANGED <<broken, ledger, pc, ask, saw, proof, entry, auditVars>>

\* An append of some call fails halfway (ReceiptLedger).
BreakLedger(l) ==
  /\ l \in Fragile \ broken
  /\ broken' = broken \cup {l}
  /\ UNCHANGED <<ledger, pc, ask, saw, proof, siteVars, auditVars>>

-----------------------------------------------------------------------------
\* reconcileReceiptLedgers.

Traces(l) == {ledger[l][i].trace : i \in 1 .. Len(ledger[l])}

BeginAudit ==
  /\ audit.pc = "idle"
  /\ audit' = [audit EXCEPT !.pc = "verify"]
  /\ returned' = {f \in Fetches : pc[f] = "returned"}
  /\ before' = Traces("agent") \cup Traces("site")
  /\ UNCHANGED <<broken, ledger, pc, ask, saw, proof, siteVars>>

\* A read may find a line that does not parse: an append is going on, or one failed.
MayThrow(l) ==
  \/ l \in broken
  \/ l = "agent" /\ \E f \in Fetches : pc[f] = "record"
  \/ l = "site" /\ \E f \in Fetches : site[f] = "write"

\* verifyReceiptChain of both ledgers at once, in either order.
Verify(l) ==
  /\ audit.pc = "verify"
  /\ l \in audit.toVerify
  /\ \E valids \in (IF l \in broken THEN {} ELSE {audit.valid \cup {l}})
                   \cup (IF MayThrow(l) THEN {audit.valid} ELSE {}) :
       audit' = [audit EXCEPT !.toVerify = @ \ {l}, !.valid = valids,
                              !.pc = IF audit.toVerify = {l} THEN "read" ELSE @]
  /\ UNCHANGED <<broken, ledger, pc, ask, saw, proof, siteVars, returned, before>>

\* A slip: the site's ledger is read first.
ReadOrder_SiteFirst == <<"site", "agent">>

ReadOrder == <<"agent", "site">>

\* A slip: nothing at all, instead of no receipts, for a ledger that did not verify.
Readings_Undefined(l) ==
  IF l \notin audit.valid THEN {None} ELSE IF l \in broken THEN {} ELSE {ledger[l]}

\* What reading ledger l gives: no receipts if it did not verify, and no value at
\* all if readReceiptLedger throws.
Readings(l) ==
  IF l \notin audit.valid THEN {<<>>} ELSE IF l \in broken THEN {} ELSE {ledger[l]}

\* Each ledger is read again, and the second time it may throw.
ReadAgain ==
  LET l == ReadOrder[audit.read + 1]
  IN /\ audit.pc = "read"
     /\ \/ \E r \in Readings(l) :
             audit' = [audit EXCEPT !.read = @ + 1, !.ledger[l] = r,
                                    !.pc = IF @ = "read" /\ audit.read = 1 THEN "done" ELSE @]
        \/ /\ l \in audit.valid /\ MayThrow(l)
           /\ audit' = [audit EXCEPT !.pc = "thrown"]
     /\ UNCHANGED <<broken, ledger, pc, ask, saw, proof, siteVars, returned, before>>

\* Of the receipts of one trace, the last in the ledger is compared.
IsLast(r, i) == \A j \in i + 1 .. Len(r) : r[j].trace # r[i].trace

Indexed(r) == {r[i] : i \in {i \in 1 .. Len(r) : IsLast(r, i)}}

AllReceipts(l) == {audit.ledger[l][i] : i \in 1 .. Len(audit.ledger[l])}

missingSiteReceipts ==
  {a.trace : a \in {a \in AllReceipts("agent") : \A s \in AllReceipts("site") : s.trace # a.trace}}

missingAgentReceipts ==
  {s.trace : s \in {s \in AllReceipts("site") : \A a \in AllReceipts("agent") : a.trace # s.trace}}

\* A slip: only the policy hash is compared.
Agree_PolicyOnly(a, s) == a.policy = s.policy

\* compareReceiptField of every field the model has.
Agree(a, s) == a.decision = s.decision /\ a.policy = s.policy /\ a.network = s.network

mismatches ==
  {a.trace : a \in {a \in AllReceipts("agent") :
     \E s \in Indexed(audit.ledger["site"]) : s.trace = a.trace /\ ~ Agree(a, s)}}

valid ==
  /\ audit.valid = Ledgers
  /\ missingSiteReceipts = {} /\ missingAgentReceipts = {} /\ mismatches = {}

-----------------------------------------------------------------------------
Next ==
  \/ \E f \in Fetches :
       \/ Discover(f) \/ Decide(f) \/ Pay(f) \/ Receive(f) \/ Lose(f) \/ Record(f)
       \/ SiteDecide(f) \/ SitePreempt(f) \/ SiteWrite(f) \/ SiteWriteFails(f)
  \/ Redeploy
  \/ \E l \in Ledgers : BreakLedger(l) \/ Verify(l)
  \/ BeginAudit
  \/ ReadAgain

Spec == Init /\ [][Next]_vars

-----------------------------------------------------------------------------
\* Properties.

\* Every variable keeps its type.
TypeOK ==
  /\ served \in Versions
  /\ broken \subseteq Fragile
  /\ ledger \in [Ledgers -> Seq(Receipts)]
  /\ pc \in [Fetches -> ClientPlaces]
  /\ ask \in [Fetches -> Asks]
  /\ saw \in [Fetches -> Versions \cup {0}]
  /\ proof \in [Fetches -> BOOLEAN]
  /\ site \in [Fetches -> SitePlaces]
  /\ entry \in [Fetches -> Receipts]
  /\ audit \in [pc : AuditPlaces, toVerify : SUBSET Ledgers, valid : SUBSET Ledgers,
                read : 0 .. 2, ledger : [Ledgers -> Seq(Receipts)]]
  /\ returned \subseteq Fetches
  /\ before \subseteq Fetches \cup {None}

Reported == audit.pc = "done" /\ audit.valid = Ledgers

\* A trace reported as missing on the site has no site receipt, then or ever: the
\* agent writes last, and its ledger is read first.
MissingSiteIsMissing == Reported => missingSiteReceipts \cap Traces("site") = {}

\* A fetch that returned before the reconciliation began is found in the agent's
\* ledger: it is neither missing there, nor overlooked.
ReturnedIsFound ==
  Reported => \A f \in returned :
    f \notin missingAgentReceipts /\ \E a \in AllReceipts("agent") : a.trace = f

\* "valid" speaks for everything that either ledger held when the reconciliation
\* began: each such trace has a receipt on both sides, and the agent's agrees with
\* the last of the site's, although ledgers grow while they are read.
ValidMeansPaired ==
  audit.pc = "done" /\ valid =>
    \A f \in before :
      /\ f \in Traces("agent") /\ f \in Traces("site")
      /\ \A a \in Indexed(ledger["agent"]), s \in Indexed(ledger["site"]) :
           a.trace = f /\ s.trace = f => a.decision = s.decision /\ a.policy = s.policy

\* An exchange nothing went wrong with: not begun, or returned, after the site
\* recorded, last, the decision of the rule of the policy the client had seen.
Smooth(f) ==
  \/ pc[f] = "idle"
  \/ /\ f \in returned /\ ~ StaysLocal(f)
     /\ entry[f] \in Indexed(ledger["site"])
     /\ entry[f].policy = saw[f] /\ entry[f].decision = RuleDecision[saw[f]]

\* Agent and site receipts of such traffic reconcile.
SmokeReconciles == Reported /\ (\A f \in Fetches : Smooth(f)) => valid
=============================================================================
