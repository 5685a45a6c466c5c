--------------------------- MODULE ExchangeProofs ---------------------------
(***************************************************************************)
(* What reconciliation tells of any number of fetches, under any sequence  *)
(* of policies, while both ledgers grow.                                   *)
(***************************************************************************)
EXTENDS Exchange, TLAPS

-----------------------------------------------------------------------------
\* Types.

\* A fetch on its way has seen a policy, and receipts are of fetches.
Typed ==
  /\ TypeOK
  /\ \A f \in Fetches :
       /\ pc[f] \in {"decide", "wait", "record", "returned"} => saw[f] \in Versions
       /\ site[f] = "write" => entry[f].trace = f
  /\ \A l \in Ledgers : \A i \in 1 .. Len(ledger[l]) : ledger[l][i].trace \in Fetches

\* A version of the policy has a decision and perhaps a network.
LEMMA PolicyTypes ==
  ASSUME NEW v \in Versions
  PROVE  RuleDecision[v] \in Decisions /\ RuleNetwork[v] \in Networks
         /\ DefaultNetwork \in Networks /\ None \in Networks
  BY ExchangeAssumption DEF Versions, Networks

\* The first version is one.
LEMMA FirstVersion == 1 \in Versions
  BY ExchangeAssumption DEF Versions

\* The receipts of the two parties are receipts.
LEMMA ReceiptTypes ==
  ASSUME NEW f \in Fetches
  PROVE  /\ saw[f] \in Versions => AgentReceipt(f) \in Receipts
         /\ \A d \in Decisions : served \in Versions => SiteReceipt(f, d) \in Receipts
  BY PolicyTypes DEF AgentReceipt, SiteReceipt, Receipts

\* What the site may enforce is a decision.
LEMMA EnforceableType ==
  ASSUME NEW f \in Fetches, served \in Versions
  PROVE  Enforceable(f) \subseteq Decisions
  BY PolicyTypes DEF Enforceable, Decisions

\* A ledger with one receipt more.
LEMMA OneMore ==
  ASSUME ledger \in [Ledgers -> Seq(Receipts)], NEW l \in {"agent", "site"}, NEW r \in Receipts,
         NEW ledger2, ledger2 = [ledger EXCEPT ![l] = Append(@, r)]
  PROVE  /\ ledger2 \in [Ledgers -> Seq(Receipts)]
         /\ \A m \in Ledgers : m # l => ledger2[m] = ledger[m]
         /\ Len(ledger2[l]) = Len(ledger[l]) + 1 /\ Len(ledger[l]) \in Nat
         /\ \A i \in 1 .. Len(ledger[l]) : ledger2[l][i] = ledger[l][i]
         /\ ledger2[l][Len(ledger[l]) + 1] = r
<1>1. l \in Ledgers /\ ledger[l] \in Seq(Receipts)
  BY DEF Ledgers
<1>2. /\ Append(ledger[l], r) \in Seq(Receipts)
      /\ Len(Append(ledger[l], r)) = Len(ledger[l]) + 1
      /\ \A i \in 1 .. Len(ledger[l]) : Append(ledger[l], r)[i] = ledger[l][i]
      /\ Append(ledger[l], r)[Len(ledger[l]) + 1] = r
  BY <1>1
<1>3. /\ ledger2[l] = Append(ledger[l], r) /\ ledger2 \in [Ledgers -> Seq(Receipts)]
      /\ \A m \in Ledgers : m # l => ledger2[m] = ledger[m]
  BY <1>1, <1>2
<1> QED
  BY <1>1, <1>2, <1>3

\* One more receipt of a fetch, and the ledgers still hold receipts of fetches.
LEMMA StillOfFetches ==
  ASSUME ledger \in [Ledgers -> Seq(Receipts)],
         \A m \in Ledgers : \A i \in 1 .. Len(ledger[m]) : ledger[m][i].trace \in Fetches,
         NEW l \in {"agent", "site"}, NEW r \in Receipts, r.trace \in Fetches,
         NEW ledger2, ledger2 = [ledger EXCEPT ![l] = Append(@, r)]
  PROVE  /\ ledger2 \in [Ledgers -> Seq(Receipts)]
         /\ \A m \in Ledgers : \A i \in 1 .. Len(ledger2[m]) : ledger2[m][i].trace \in Fetches
<1> USE OneMore
<1>1. ledger2 \in [Ledgers -> Seq(Receipts)]
  OBVIOUS
<1>2. ASSUME NEW m \in Ledgers, NEW i \in 1 .. Len(ledger2[m])
      PROVE  ledger2[m][i].trace \in Fetches
  <2>1. CASE m = l /\ i = Len(ledger[l]) + 1
    BY <2>1
  <2>2. CASE m = l /\ i # Len(ledger[l]) + 1
    <3>1. i \in 1 .. Len(ledger[l]) /\ l \in Ledgers
      BY <2>2 DEF Ledgers
    <3> QED
      BY <2>2, <3>1
  <2>3. CASE m # l
    BY <2>3
  <2> QED
    BY <2>1, <2>2, <2>3
<1> QED
  BY <1>1, <1>2

\* At first nothing has happened.
LEMMA InitTyped == Init => Typed
<1> SUFFICES ASSUME Init PROVE Typed
  OBVIOUS
<1>1. 1 \in Versions /\ NoReceipt \in Receipts
  BY FirstVersion, PolicyTypes DEF NoReceipt, Receipts
<1>2. <<>> \in Seq(Receipts)
  OBVIOUS
<1>3. audit \in [pc : AuditPlaces, toVerify : SUBSET Ledgers, valid : SUBSET Ledgers,
                 read : 0 .. 2, ledger : [Ledgers -> Seq(Receipts)]]
  BY <1>2 DEF Init, AuditPlaces
<1>4. ledger \in [Ledgers -> Seq(Receipts)]
  BY <1>2 DEF Init
<1> QED
  BY <1>1, <1>3, <1>4 DEF Init, Typed, TypeOK, ClientPlaces, SitePlaces, Asks

\* The reconciliation is where it can be, and reads at most twice.
Reads ==
  /\ audit.pc \in {"idle", "verify"} => audit.read = 0
  /\ audit.pc = "read" => audit.read \in {0, 1}
  /\ audit.pc = "done" => audit.read = 2

\* Each step keeps the types.
LEMMA NextTyped == Typed /\ Reads /\ [Next]_vars => Typed' /\ Reads'
<1> SUFFICES ASSUME Typed, Reads, [Next]_vars PROVE Typed' /\ Reads'
  OBVIOUS
<1> USE DEF Typed, TypeOK, siteVars, auditVars
<1>1. ASSUME NEW f \in Fetches, Discover(f) \/ Decide(f) \/ Pay(f) \/ Receive(f) \/ Lose(f)
      PROVE  Typed' /\ Reads'
  <2>1. CASE Discover(f)
    BY <2>1 DEF Discover, ClientPlaces, Reads
  <2>2. CASE Decide(f)
    BY <2>2 DEF Decide, ClientPlaces, SitePlaces, Reads
  <2>3. CASE Pay(f)
    BY <2>3 DEF Pay, SitePlaces, Reads
  <2>4. CASE Receive(f)
    BY <2>4 DEF Receive, ClientPlaces, SitePlaces, Reads
  <2>5. CASE Lose(f)
    BY <2>5 DEF Lose, ClientPlaces, Reads
  <2> QED
    BY <1>1, <2>1, <2>2, <2>3, <2>4, <2>5
<1>2. ASSUME NEW f \in Fetches, Record(f) PROVE Typed' /\ Reads'
  <2>1. AgentReceipt(f) \in Receipts
    BY <1>2, ReceiptTypes DEF Record
  <2>2. ledger' = ledger \/ ledger' = [ledger EXCEPT !["agent"] = Append(@, AgentReceipt(f))]
    BY <1>2 DEF Record
  <2>5. AgentReceipt(f).trace = f
    BY DEF AgentReceipt
  <2>3. ledger' \in [Ledgers -> Seq(Receipts)]
        /\ \A l \in Ledgers : \A i \in 1 .. Len(ledger'[l]) : ledger'[l][i].trace \in Fetches
    BY ZenonT(40), <2>1, <2>2, <2>5, StillOfFetches
  <2>4. pc' \in [Fetches -> ClientPlaces]
        /\ \A g \in Fetches : pc'[g] \in {"decide", "wait", "record", "returned"} =>
             pc[g] \in {"decide", "wait", "record", "returned"}
    BY <1>2 DEF Record, ClientPlaces
  <2> QED
    BY <1>2, <2>3, <2>4 DEF Record, Reads
<1>3. ASSUME NEW f \in Fetches, SiteDecide(f) \/ SitePreempt(f) \/ SiteWrite(f) \/ SiteWriteFails(f)
      PROVE  Typed' /\ Reads'
  <2>1. CASE SiteDecide(f)
    <3>1. entry' \in [Fetches -> Receipts]
          /\ entry'[f].trace = f /\ \A g \in Fetches \ {f} : entry'[g] = entry[g]
      <4>1. PICK d \in Decisions : entry' = [entry EXCEPT ![f] = SiteReceipt(f, d)]
        BY <2>1, EnforceableType DEF SiteDecide
      <4>2. SiteReceipt(f, d) \in Receipts /\ SiteReceipt(f, d).trace = f
        BY ReceiptTypes DEF SiteReceipt
      <4> QED
        BY <4>1, <4>2
    <3>2. site' \in [Fetches -> SitePlaces] /\ \A g \in Fetches \ {f} : site'[g] = site[g]
      BY <2>1 DEF SiteDecide, SitePlaces
    <3>3. UNCHANGED <<served, broken, ledger, pc, ask, saw, proof, audit, returned, before>>
      BY <2>1 DEF SiteDecide
    <3> QED
      BY <3>1, <3>2, <3>3 DEF Reads
  <2>2. CASE SitePreempt(f) \/ SiteWriteFails(f)
    BY <2>2 DEF SitePreempt, SiteWriteFails, SitePlaces, Reads
  <2>3. CASE SiteWrite(f)
    <3>1. /\ entry[f] \in Receipts /\ entry[f].trace = f
          /\ ledger' = [ledger EXCEPT !["site"] = Append(@, entry[f])]
          /\ ledger \in [Ledgers -> Seq(Receipts)]
          /\ \A m \in Ledgers : \A i \in 1 .. Len(ledger[m]) : ledger[m][i].trace \in Fetches
          /\ entry[f].trace \in Fetches
      BY <2>3 DEF SiteWrite
    <3>2. ledger' \in [Ledgers -> Seq(Receipts)]
          /\ \A l \in Ledgers : \A i \in 1 .. Len(ledger'[l]) : ledger'[l][i].trace \in Fetches
      <4> HIDE DEF Typed, TypeOK
      <4> QED
        BY <3>1, StillOfFetches
    <3>3. site' \in [Fetches -> SitePlaces]
          /\ \A g \in Fetches : site'[g] = "write" => site[g] = "write"
      BY <2>3 DEF SiteWrite, SitePlaces
    <3>4. UNCHANGED <<served, broken, pc, ask, saw, proof, entry, audit, returned, before>>
      BY <2>3 DEF SiteWrite
    <3> QED
      BY <3>2, <3>3, <3>4 DEF Reads
  <2> QED
    BY <1>3, <2>1, <2>2, <2>3
<1>4. CASE Redeploy \/ \E l \in Ledgers : BreakLedger(l)
  <2>1. CASE Redeploy
    <3>1. served' \in Versions
      BY <2>1 DEF Redeploy, Versions
    <3> QED
      BY <2>1, <3>1 DEF Redeploy, SitePlaces, Reads
  <2>2. CASE \E l \in Ledgers : BreakLedger(l)
    BY <2>2 DEF BreakLedger, Reads
  <2> QED
    BY <1>4, <2>1, <2>2
<1>5. CASE BeginAudit
  <2>1. before' \subseteq Fetches
    BY <1>5 DEF BeginAudit, Traces, Ledgers
  <2> QED
    BY <1>5, <2>1 DEF BeginAudit, AuditPlaces, Reads
<1>6. ASSUME NEW l \in Ledgers, Verify(l) PROVE Typed' /\ Reads'
  <2>1. PICK valids \in SUBSET Ledgers :
          audit' = [audit EXCEPT !.toVerify = @ \ {l}, !.valid = valids,
                                 !.pc = IF audit.toVerify = {l} THEN "read" ELSE @]
    BY <1>6 DEF Verify
  <2>2. audit.pc = "verify"
    BY <1>6 DEF Verify
  <2>3. /\ audit'.pc \in {"read", "verify"} /\ audit'.read = audit.read
        /\ audit'.ledger = audit.ledger /\ audit'.valid \in SUBSET Ledgers
        /\ audit'.toVerify \in SUBSET Ledgers
        /\ audit' = [pc |-> audit'.pc, toVerify |-> audit'.toVerify, valid |-> audit'.valid,
                     read |-> audit'.read, ledger |-> audit'.ledger]
    BY <2>1, <2>2
  <2>4. audit' \in [pc : AuditPlaces, toVerify : SUBSET Ledgers, valid : SUBSET Ledgers,
                    read : 0 .. 2, ledger : [Ledgers -> Seq(Receipts)]]
    BY <2>3 DEF AuditPlaces
  <2> QED
    BY <1>6, <2>2, <2>3, <2>4 DEF Verify, Reads
<1>7. CASE ReadAgain
  <2>1. audit.pc = "read" /\ audit.read \in {0, 1}
    BY <1>7 DEF ReadAgain, Reads
  <2>0. ReadOrder[1] = "agent" /\ ReadOrder[2] = "site"
    BY DEF ReadOrder
  <2>2. PICK l \in Ledgers :
          \/ \E r \in Readings(l) :
               audit' = [audit EXCEPT !.read = @ + 1, !.ledger[l] = r,
                                      !.pc = IF @ = "read" /\ audit.read = 1 THEN "done" ELSE @]
          \/ audit' = [audit EXCEPT !.pc = "thrown"]
    <3> DEFINE k == ReadOrder[audit.read + 1]
    <3>1. k \in Ledgers
      BY <2>0, <2>1 DEF Ledgers
    <3> QED
      BY <1>7, <3>1 DEF ReadAgain
  <2>3. Readings(l) \subseteq Seq(Receipts)
    <3>1. <<>> \in Seq(Receipts) /\ ledger[l] \in Seq(Receipts)
      OBVIOUS
    <3> QED
      BY <3>1 DEF Readings
  <2>4. /\ audit'.pc \in {"read", "done", "thrown"}
        /\ audit'.read \in 0 .. 2
        /\ (audit'.pc = "read" => audit'.read = 1)
        /\ (audit'.pc = "done" => audit'.read = 2)
        /\ audit'.ledger \in [Ledgers -> Seq(Receipts)]
        /\ audit'.valid = audit.valid
        /\ audit'.toVerify = audit.toVerify
        /\ audit' = [pc |-> audit'.pc, toVerify |-> audit'.toVerify, valid |-> audit'.valid,
                     read |-> audit'.read, ledger |-> audit'.ledger]
    <3>1. CASE audit' = [audit EXCEPT !.pc = "thrown"]
      BY <2>1, <3>1
    <3>2. ASSUME NEW r \in Readings(l),
                 audit' = [audit EXCEPT !.read = @ + 1, !.ledger[l] = r,
                             !.pc = IF @ = "read" /\ audit.read = 1 THEN "done" ELSE @]
          PROVE  /\ audit'.pc = (IF audit.read = 1 THEN "done" ELSE "read")
                 /\ audit'.read = audit.read + 1
                 /\ audit'.ledger = [audit.ledger EXCEPT ![l] = r]
                 /\ audit'.ledger \in [Ledgers -> Seq(Receipts)]
                 /\ audit'.valid = audit.valid
                 /\ audit'.toVerify = audit.toVerify
                 /\ audit' = [pc |-> audit'.pc, toVerify |-> audit'.toVerify, valid |-> audit'.valid,
                              read |-> audit'.read, ledger |-> audit'.ledger]
      BY <2>1, <2>3, <3>2
    <3>3. CASE \E r \in Readings(l) :
               audit' = [audit EXCEPT !.read = @ + 1, !.ledger[l] = r,
                                      !.pc = IF @ = "read" /\ audit.read = 1 THEN "done" ELSE @]
      <4>1. /\ audit'.pc = (IF audit.read = 1 THEN "done" ELSE "read")
            /\ audit'.read = audit.read + 1
        BY <3>2, <3>3
      <4>2. /\ audit'.ledger \in [Ledgers -> Seq(Receipts)]
            /\ audit'.valid = audit.valid
            /\ audit'.toVerify = audit.toVerify
            /\ audit' = [pc |-> audit'.pc, toVerify |-> audit'.toVerify, valid |-> audit'.valid,
                         read |-> audit'.read, ledger |-> audit'.ledger]
        BY <3>2, <3>3
      <4>3. /\ audit'.pc \in {"read", "done", "thrown"}
            /\ audit'.read \in 0 .. 2
            /\ (audit'.pc = "read" => audit'.read = 1)
            /\ (audit'.pc = "done" => audit'.read = 2)
        BY <2>1, <4>1
      <4> QED
        BY <4>2, <4>3
    <3> QED
      BY <2>2, <3>1, <3>3
  <2>5. audit' \in [pc : AuditPlaces, toVerify : SUBSET Ledgers, valid : SUBSET Ledgers,
                    read : 0 .. 2, ledger : [Ledgers -> Seq(Receipts)]]
    BY <2>4 DEF AuditPlaces
  <2> QED
    BY <1>7, <2>4, <2>5 DEF ReadAgain, Reads
<1>8. CASE UNCHANGED vars
  BY <1>8 DEF vars, Reads
<1> QED
  BY <1>1, <1>2, <1>3, <1>4, <1>5, <1>6, <1>7, <1>8 DEF Next

\* Every variable keeps its type.
THEOREM ExchangeTyped == Spec => []TypeOK
<1>1. Init => Typed /\ Reads
  BY InitTyped DEF Init, Reads
<1>2. Typed => TypeOK
  BY DEF Typed
<1> QED
  BY <1>1, <1>2, NextTyped, PTL DEF Spec

-----------------------------------------------------------------------------
\* The ledgers.

\* A ledger that grows keeps what it holds.
Extends(r, s) == Len(s) <= Len(r) /\ \A i \in 1 .. Len(s) : r[i] = s[i]

\* A fetch that the client has not sent, or has done with, is away from the site;
\* what the site is about to write for it carries the terms of its policy.
FlowInv ==
  \A f \in Fetches :
    /\ pc[f] \in {"idle", "decide", "record", "returned"} => site[f] = "away"
    /\ entry[f].trace \in {f, None}
    /\ entry[f].trace = f =>
         entry[f].network = (IF RuleNetwork[entry[f].policy] # None
                             THEN RuleNetwork[entry[f].policy] ELSE DefaultNetwork)

\* The receipt of a fetch that has seen a version of the policy.
Of(f, v) ==
  [trace |-> f, decision |-> RuleDecision[v], policy |-> v, network |-> RuleNetwork[v]]

\* The agent's ledger holds one receipt of every fetch that returned, and no other;
\* the site's ledger holds none of a fetch that has not begun.
LedgerInv ==
  /\ \A i \in 1 .. Len(ledger["agent"]) :
       LET f == ledger["agent"][i].trace
       IN pc[f] = "returned" /\ ledger["agent"][i] = Of(f, saw[f])
  /\ \A i, j \in 1 .. Len(ledger["agent"]) :
       ledger["agent"][i].trace = ledger["agent"][j].trace => i = j
  /\ \A f \in Fetches : pc[f] = "returned" => f \in Traces("agent")
  /\ \A i \in 1 .. Len(ledger["site"]) : pc[ledger["site"][i].trace] # "idle"

\* Each step keeps a fetch where it belongs.
LEMMA NextFlow == Typed /\ FlowInv /\ [Next]_vars => FlowInv'
<1> SUFFICES ASSUME Typed, FlowInv, [Next]_vars PROVE FlowInv'
  OBVIOUS
<1> USE DEF Typed, TypeOK, siteVars, auditVars
<1>1. ASSUME NEW f \in Fetches, Discover(f) \/ Decide(f) \/ Pay(f) \/ Receive(f) \/ Lose(f)
      PROVE  FlowInv'
  <2>1. CASE Discover(f)
    BY <2>1 DEF Discover, FlowInv
  <2>2. CASE Decide(f)
    BY <2>2 DEF Decide, FlowInv
  <2>3. CASE Pay(f)
    BY <2>3 DEF Pay, FlowInv
  <2>4. CASE Receive(f)
    BY <2>4 DEF Receive, FlowInv
  <2>5. CASE Lose(f)
    BY <2>5 DEF Lose, FlowInv
  <2> QED
    BY <1>1, <2>1, <2>2, <2>3, <2>4, <2>5
<1>2. ASSUME NEW f \in Fetches, Record(f) PROVE FlowInv'
  BY <1>2 DEF Record, FlowInv
<1>3. ASSUME NEW f \in Fetches, SiteDecide(f) PROVE FlowInv'
  <2>1. PICK d \in Decisions : entry' = [entry EXCEPT ![f] = SiteReceipt(f, d)]
    BY <1>3, EnforceableType DEF SiteDecide
  <2>2. /\ SiteReceipt(f, d).trace = f
        /\ SiteReceipt(f, d).policy = served
        /\ SiteReceipt(f, d).network = (IF RuleNetwork[served] # None
                                        THEN RuleNetwork[served] ELSE DefaultNetwork)
    BY DEF SiteReceipt
  <2>3. entry'[f] = SiteReceipt(f, d) /\ \A g \in Fetches : g # f => entry'[g] = entry[g]
    BY <2>1
  <2>4. /\ pc' = pc /\ \A g \in Fetches : g # f => site'[g] = site[g]
        /\ site[f] = "arrived"
    BY <1>3 DEF SiteDecide
  <2>5. pc'[f] \notin {"idle", "decide", "record", "returned"}
    BY <2>4 DEF FlowInv
  <2>6. ASSUME NEW g \in Fetches
        PROVE  /\ pc'[g] \in {"idle", "decide", "record", "returned"} => site'[g] = "away"
               /\ entry'[g].trace \in {g, None}
               /\ entry'[g].trace = g =>
                    entry'[g].network = (IF RuleNetwork[entry'[g].policy] # None
                                         THEN RuleNetwork[entry'[g].policy] ELSE DefaultNetwork)
    <3>1. CASE g = f
      BY <2>2, <2>3, <2>5, <3>1
    <3>2. CASE g # f
      BY <2>3, <2>4, <3>2 DEF FlowInv
    <3> QED
      BY <3>1, <3>2
  <2> QED
    BY <2>6 DEF FlowInv
<1>4. ASSUME NEW f \in Fetches, SitePreempt(f) \/ SiteWrite(f) \/ SiteWriteFails(f)
      PROVE  FlowInv'
  BY <1>4 DEF SitePreempt, SiteWrite, SiteWriteFails, FlowInv
<1>5. CASE Redeploy
  BY <1>5 DEF Redeploy, FlowInv
<1>6. CASE BeginAudit \/ ReadAgain \/ \E l \in Ledgers : BreakLedger(l) \/ Verify(l)
  <2>1. UNCHANGED <<pc, site, entry>>
    BY <1>6 DEF BeginAudit, ReadAgain, BreakLedger, Verify
  <2> QED
    BY <2>1 DEF FlowInv
<1>7. CASE UNCHANGED vars
  BY <1>7 DEF vars, FlowInv
<1> QED
  BY <1>1, <1>2, <1>3, <1>4, <1>5, <1>6, <1>7 DEF Next

\* A step writes at most one receipt: the agent's, of a fetch that returns, or the
\* site's, of a fetch that is not done; and no fetch un-returns.
LEMMA OneWrite ==
  ASSUME Typed, FlowInv, [Next]_vars
  PROVE  /\ \A f \in Fetches : pc[f] = "returned" => pc'[f] = "returned" /\ saw'[f] = saw[f]
         /\ \A f \in Fetches : pc[f] # "idle" => pc'[f] # "idle"
         /\ \/ UNCHANGED ledger /\ \A f \in Fetches : pc'[f] = "returned" => pc[f] = "returned"
            \/ \E f \in Fetches :
                 /\ pc[f] = "record" /\ pc' = [pc EXCEPT ![f] = "returned"]
                 /\ ledger' = [ledger EXCEPT !["agent"] = Append(@, AgentReceipt(f))]
                 /\ UNCHANGED <<saw, audit, returned, before>>
            \/ \E f \in Fetches :
                 /\ pc[f] \notin {"idle", "returned"} /\ entry[f].trace = f
                 /\ ledger' = [ledger EXCEPT !["site"] = Append(@, entry[f])]
                 /\ UNCHANGED <<pc, saw, audit, returned, before>>
<1> DEFINE Claim ==
      /\ \A f \in Fetches : pc[f] = "returned" => pc'[f] = "returned" /\ saw'[f] = saw[f]
      /\ \A f \in Fetches : pc[f] # "idle" => pc'[f] # "idle"
      /\ \/ UNCHANGED ledger /\ \A f \in Fetches : pc'[f] = "returned" => pc[f] = "returned"
         \/ \E f \in Fetches :
              /\ pc[f] = "record" /\ pc' = [pc EXCEPT ![f] = "returned"]
              /\ ledger' = [ledger EXCEPT !["agent"] = Append(@, AgentReceipt(f))]
              /\ UNCHANGED <<saw, audit, returned, before>>
         \/ \E f \in Fetches :
              /\ pc[f] \notin {"idle", "returned"} /\ entry[f].trace = f
              /\ ledger' = [ledger EXCEPT !["site"] = Append(@, entry[f])]
              /\ UNCHANGED <<pc, saw, audit, returned, before>>
<1> USE DEF Typed, TypeOK, siteVars, auditVars
<1>1. ASSUME NEW f \in Fetches, Discover(f) \/ Decide(f) \/ Pay(f) \/ Receive(f) \/ Lose(f)
      PROVE  Claim
  <2>1. /\ UNCHANGED ledger
        /\ pc' = pc \/ \E p \in {"decide", "wait", "record", "thrown"} : pc' = [pc EXCEPT ![f] = p]
        /\ pc[f] # "returned"
        /\ saw' = saw \/ \E v \in Versions : saw' = [saw EXCEPT ![f] = v]
    BY <1>1 DEF Discover, Decide, Pay, Receive, Lose
  <2> QED
    BY <2>1
<1>2. ASSUME NEW f \in Fetches, Record(f) PROVE Claim
  BY <1>2 DEF Record
<1>3. ASSUME NEW f \in Fetches, SiteWrite(f) PROVE Claim
  <2>1. pc[f] \notin {"idle", "returned"} /\ entry[f].trace = f
    BY <1>3 DEF SiteWrite, FlowInv
  <2> QED
    BY <1>3, <2>1 DEF SiteWrite
<1>4. ASSUME NEW f \in Fetches, SiteDecide(f) \/ SitePreempt(f) \/ SiteWriteFails(f)
      PROVE  Claim
  BY <1>4 DEF SiteDecide, SitePreempt, SiteWriteFails
<1>5. CASE Redeploy \/ BeginAudit \/ ReadAgain \/ \E l \in Ledgers : BreakLedger(l) \/ Verify(l)
  BY <1>5 DEF Redeploy, BeginAudit, ReadAgain, BreakLedger, Verify
<1>6. CASE UNCHANGED vars
  BY <1>6 DEF vars
<1> QED
  BY <1>1, <1>2, <1>3, <1>4, <1>5, <1>6 DEF Next

\* Each step keeps what the ledgers tell of the fetches.
LEMMA NextLedger == Typed /\ FlowInv /\ LedgerInv /\ [Next]_vars => LedgerInv'
<1> SUFFICES ASSUME Typed, FlowInv, LedgerInv, [Next]_vars PROVE LedgerInv'
  OBVIOUS
<1> DEFINE n == Len(ledger["agent"])
           m == Len(ledger["site"])
<1>1. /\ ledger \in [Ledgers -> Seq(Receipts)] /\ pc \in [Fetches -> ClientPlaces]
      /\ "agent" \in Ledgers /\ "site" \in Ledgers /\ n \in Nat /\ m \in Nat
      /\ \A i \in 1 .. n : ledger["agent"][i].trace \in Fetches
      /\ \A i \in 1 .. m : ledger["site"][i].trace \in Fetches
  BY DEF Typed, TypeOK, Ledgers
<1>2. /\ \A i \in 1 .. n : pc[ledger["agent"][i].trace] = "returned"
      /\ \A i \in 1 .. n : ledger["agent"][i] = Of(ledger["agent"][i].trace, saw[ledger["agent"][i].trace])
      /\ \A i, j \in 1 .. n : ledger["agent"][i].trace = ledger["agent"][j].trace => i = j
      /\ \A f \in Fetches : pc[f] = "returned" => \E i \in 1 .. n : ledger["agent"][i].trace = f
      /\ \A i \in 1 .. m : pc[ledger["site"][i].trace] # "idle"
  BY DEF LedgerInv, Traces
<1>3. /\ \A f \in Fetches : pc[f] = "returned" => pc'[f] = "returned" /\ saw'[f] = saw[f]
      /\ \A f \in Fetches : pc[f] # "idle" => pc'[f] # "idle"
  BY OneWrite
<1>5. CASE UNCHANGED ledger /\ \A f \in Fetches : pc'[f] = "returned" => pc[f] = "returned"
  <2>1. /\ \A i \in 1 .. n : pc'[ledger["agent"][i].trace] = "returned"
        /\ \A i \in 1 .. n : ledger["agent"][i] = Of(ledger["agent"][i].trace, saw'[ledger["agent"][i].trace])
        /\ \A i \in 1 .. m : pc'[ledger["site"][i].trace] # "idle"
        /\ \A f \in Fetches : pc'[f] = "returned" => \E i \in 1 .. n : ledger["agent"][i].trace = f
    BY <1>1, <1>2, <1>3, <1>5
  <2> QED
    BY <1>2, <1>5, <2>1 DEF LedgerInv, Traces
<1>6. ASSUME NEW f \in Fetches, pc[f] = "record", pc' = [pc EXCEPT ![f] = "returned"],
             ledger' = [ledger EXCEPT !["agent"] = Append(@, AgentReceipt(f))], saw' = saw
      PROVE  LedgerInv'
  <2>1. AgentReceipt(f) \in Receipts /\ AgentReceipt(f).trace = f
    BY <1>6, ReceiptTypes DEF Typed, AgentReceipt
  <2>2. /\ ledger'["site"] = ledger["site"]
        /\ Len(ledger'["agent"]) = n + 1
        /\ \A i \in 1 .. n : ledger'["agent"][i] = ledger["agent"][i]
        /\ ledger'["agent"][n + 1] = AgentReceipt(f)
    BY <1>1, <1>6, <2>1, OneMore
  <2>3. \A i \in 1 .. n : ledger["agent"][i].trace # f
    BY <1>2, <1>6
  <2>4. \A i \in 1 .. n + 1 : i \in 1 .. n \/ i = n + 1
    BY <1>1
  <2> HIDE DEF n, m
  <2>5. \A i \in 1 .. n + 1 :
          /\ pc'[ledger'["agent"][i].trace] = "returned"
          /\ ledger'["agent"][i] = Of(ledger'["agent"][i].trace, saw'[ledger'["agent"][i].trace])
    <3>1. ASSUME NEW i \in 1 .. n
          PROVE  /\ pc'[ledger'["agent"][i].trace] = "returned"
                 /\ ledger'["agent"][i] = Of(ledger'["agent"][i].trace, saw'[ledger'["agent"][i].trace])
      <4>1. ledger'["agent"][i] = ledger["agent"][i] /\ ledger["agent"][i].trace \in Fetches
        BY <1>1, <2>2
      <4>2. pc'[ledger["agent"][i].trace] = "returned"
        BY <1>2, <1>3, <4>1
      <4>3. ledger["agent"][i] = Of(ledger["agent"][i].trace, saw[ledger["agent"][i].trace])
        BY <1>2
      <4> QED
        BY <1>6, <4>1, <4>2, <4>3
    <3>2. pc'[f] = "returned" /\ AgentReceipt(f) = Of(f, saw'[f])
      BY <1>1, <1>6 DEF AgentReceipt, Of
    <3>3. /\ pc'[ledger'["agent"][n + 1].trace] = "returned"
          /\ ledger'["agent"][n + 1] = Of(ledger'["agent"][n + 1].trace, saw'[ledger'["agent"][n + 1].trace])
      BY <1>6, <2>1, <2>2, <3>2
    <3> QED
      BY <2>4, <3>1, <3>3
  <2>6. \A i, j \in 1 .. n + 1 : ledger'["agent"][i].trace = ledger'["agent"][j].trace => i = j
    BY <1>2, <2>1, <2>2, <2>3, <2>4
  <2>7. ASSUME NEW g \in Fetches, pc'[g] = "returned"
        PROVE  \E i \in 1 .. n + 1 : ledger'["agent"][i].trace = g
    <3>1. CASE g = f
      BY <1>1, <2>1, <2>2, <3>1
    <3>2. CASE g # f
      <4>1. pc[g] = "returned"
        BY <1>6, <2>7, <3>2
      <4>2. PICK i \in 1 .. n : ledger["agent"][i].trace = g
        BY <1>2, <4>1
      <4> QED
        BY SMTT(30), <1>1, <2>2, <4>2
    <3> QED
      BY <3>1, <3>2
  <2>8. \A i \in 1 .. m : pc'[ledger["site"][i].trace] # "idle"
    BY <1>1, <1>2, <1>3
  <2> QED
    BY <2>2, <2>5, <2>6, <2>7, <2>8 DEF LedgerInv, Traces, m
<1>7. ASSUME NEW f \in Fetches, pc[f] \notin {"idle", "returned"}, entry[f].trace = f,
             ledger' = [ledger EXCEPT !["site"] = Append(@, entry[f])], pc' = pc, saw' = saw
      PROVE  LedgerInv'
  <2>1. entry[f] \in Receipts
    BY DEF Typed, TypeOK
  <2>2. /\ ledger'["agent"] = ledger["agent"]
        /\ Len(ledger'["site"]) = m + 1
        /\ \A i \in 1 .. m : ledger'["site"][i] = ledger["site"][i]
        /\ ledger'["site"][m + 1] = entry[f]
    BY <1>1, <1>7, <2>1, OneMore
  <2>3. \A i \in 1 .. m + 1 : i \in 1 .. m \/ i = m + 1
    BY <1>1
  <2>4. \A i \in 1 .. m + 1 : pc'[ledger'["site"][i].trace] # "idle"
    BY <1>2, <1>7, <2>2, <2>3
  <2> QED
    BY <1>2, <1>7, <2>2, <2>4 DEF LedgerInv, Traces
<1> QED
  BY <1>5, <1>6, <1>7, OneWrite

-----------------------------------------------------------------------------
\* The reconciliation.

TracesOf(r) == {r[i].trace : i \in 1 .. Len(r)}

\* What has been read of a ledger is what it began with; every fetch that had
\* returned, and every trace either ledger held, is in what is read after; and a
\* trace read in the agent's ledger has no site receipt after those that are read.
AuditInv ==
  /\ \A l \in Ledgers : Extends(ledger[l], audit.ledger[l])
  /\ \A f \in returned : pc[f] = "returned"
  /\ before \subseteq Traces("agent") \cup Traces("site")
  /\ audit.read # 0 /\ "agent" \in audit.valid =>
       /\ returned \subseteq TracesOf(audit.ledger["agent"])
       /\ before \subseteq TracesOf(audit.ledger["agent"]) \cup Traces("site")
  /\ Reported =>
       /\ before \subseteq TracesOf(audit.ledger["agent"]) \cup TracesOf(audit.ledger["site"])
       /\ \A i \in 1 .. Len(ledger["site"]) :
            ledger["site"][i].trace \in TracesOf(audit.ledger["agent"]) =>
              i <= Len(audit.ledger["site"])

\* What extends a ledger extends what it extends.
LEMMA ExtendsAgain ==
  ASSUME NEW r \in Seq(Receipts), NEW s \in Seq(Receipts), NEW t \in Seq(Receipts),
         Extends(r, s), Extends(s, t)
  PROVE  Extends(r, t)
  BY DEF Extends

\* Ledgers only grow.
LEMMA Growth ==
  ASSUME Typed, Typed', FlowInv, [Next]_vars, NEW l \in Ledgers
  PROVE  Extends(ledger'[l], ledger[l]) /\ TracesOf(ledger[l]) \subseteq TracesOf(ledger'[l])
<1>1. ledger \in [Ledgers -> Seq(Receipts)] /\ ledger[l] \in Seq(Receipts)
      /\ Len(ledger[l]) \in Nat
  BY DEF Typed, TypeOK
<1>2. Extends(ledger'[l], ledger[l])
  <2>1. CASE UNCHANGED ledger
    BY <1>1, <2>1 DEF Extends
  <2>2. ASSUME NEW m \in {"agent", "site"}, NEW r \in Receipts,
               ledger' = [ledger EXCEPT ![m] = Append(@, r)]
        PROVE  Extends(ledger'[l], ledger[l])
    <3>1. CASE l = m
      BY <1>1, <2>2, <3>1, OneMore DEF Extends
    <3>2. CASE l # m
      BY <1>1, <2>2, <3>2, OneMore DEF Extends
    <3> QED
      BY <3>1, <3>2
  <2>3. ASSUME NEW f \in Fetches, pc[f] = "record",
               ledger' = [ledger EXCEPT !["agent"] = Append(@, AgentReceipt(f))]
        PROVE  Extends(ledger'[l], ledger[l])
    <3>1. AgentReceipt(f) \in Receipts
      BY <2>3, ReceiptTypes DEF Typed
    <3> QED
      BY <2>2, <2>3, <3>1
  <2>4. ASSUME NEW f \in Fetches,
               ledger' = [ledger EXCEPT !["site"] = Append(@, entry[f])]
        PROVE  Extends(ledger'[l], ledger[l])
    <3>1. entry[f] \in Receipts
      BY DEF Typed, TypeOK
    <3> QED
      BY <2>2, <2>4, <3>1
  <2> QED
    BY <2>1, <2>3, <2>4, OneWrite
<1>3. ledger'[l] \in Seq(Receipts)
  BY DEF Typed, TypeOK
<1> QED
  BY <1>1, <1>2, <1>3 DEF Extends, TracesOf

\* At first the ledgers are empty.
LEMMA InitAudit == Init => FlowInv /\ LedgerInv /\ AuditInv
<1> SUFFICES ASSUME Init PROVE FlowInv /\ LedgerInv /\ AuditInv
  OBVIOUS
<1>1. FlowInv
  BY ExchangeAssumption DEF Init, FlowInv, NoReceipt
<1>2. ledger["agent"] = <<>> /\ ledger["site"] = <<>>
  BY DEF Init, Ledgers
<1>3. LedgerInv
  BY <1>2 DEF Init, LedgerInv
<1>4. AuditInv
  BY <1>2 DEF Init, AuditInv, Extends, Reported, Ledgers
<1> QED
  BY <1>1, <1>3, <1>4

\* Steps of the fetches and of the site leave the reconciliation alone.
LEMMA OthersAudit ==
  ASSUME Typed, Typed', FlowInv, LedgerInv, AuditInv, [Next]_vars,
         UNCHANGED <<audit, returned, before>>
  PROVE  AuditInv'
<1>1. /\ \A l \in Ledgers : Extends(ledger'[l], ledger[l])
      /\ \A l \in Ledgers : TracesOf(ledger[l]) \subseteq TracesOf(ledger'[l])
      /\ "agent" \in Ledgers /\ "site" \in Ledgers
  BY Growth DEF Ledgers
<1>2. \A l \in Ledgers : ledger[l] \in Seq(Receipts) /\ ledger'[l] \in Seq(Receipts)
                         /\ audit.ledger[l] \in Seq(Receipts)
  BY DEF Typed, TypeOK
<1>3. \A l \in Ledgers : Extends(ledger'[l], audit'.ledger[l])
  BY <1>1, <1>2, ExtendsAgain DEF AuditInv
<1>4. \A f \in returned' : pc'[f] = "returned"
  BY OneWrite DEF AuditInv, Typed, TypeOK
<1>5. /\ Traces("agent") = TracesOf(ledger["agent"]) /\ Traces("site") = TracesOf(ledger["site"])
      /\ Traces("agent")' = TracesOf(ledger'["agent"])
      /\ Traces("site")' = TracesOf(ledger'["site"])
  BY DEF Traces, TracesOf
<1>6. ASSUME Reported, NEW i \in 1 .. Len(ledger'["site"]),
             ledger'["site"][i].trace \in TracesOf(audit.ledger["agent"])
      PROVE  i <= Len(audit.ledger["site"])
  <2>1. \A k \in 1 .. Len(ledger["site"]) :
          ledger["site"][k].trace \in TracesOf(audit.ledger["agent"]) =>
            k <= Len(audit.ledger["site"])
    BY <1>6 DEF AuditInv
  <2>2. CASE i \in 1 .. Len(ledger["site"])
    BY <1>1, <1>6, <2>1, <2>2 DEF Extends
  <2>3. CASE i \notin 1 .. Len(ledger["site"])
    <3>1. ledger'["site"] # ledger["site"]
      BY <1>6, <2>3
    <3>2. PICK f \in Fetches :
            /\ pc[f] \notin {"idle", "returned"} /\ entry[f].trace = f
            /\ ledger' = [ledger EXCEPT !["site"] = Append(@, entry[f])]
      <4>1. ASSUME NEW r, ledger' = [ledger EXCEPT !["agent"] = r]
            PROVE  FALSE
        BY <1>1, <3>1, <4>1 DEF Typed, TypeOK
      <4> QED
        BY <3>1, <4>1, OneWrite
    <3>3. entry[f] \in Receipts /\ ledger \in [Ledgers -> Seq(Receipts)]
      BY DEF Typed, TypeOK
    <3>4. /\ Len(ledger'["site"]) = Len(ledger["site"]) + 1 /\ Len(ledger["site"]) \in Nat
          /\ ledger'["site"][Len(ledger["site"]) + 1] = entry[f]
      BY <3>2, <3>3, OneMore
    <3>5. ledger'["site"][i].trace = f
      BY <1>6, <2>3, <3>2, <3>4
    <3>6. PICK k \in 1 .. Len(audit.ledger["agent"]) : audit.ledger["agent"][k].trace = f
      BY <1>6, <3>5 DEF TracesOf
    <3>7. k \in 1 .. Len(ledger["agent"]) /\ ledger["agent"][k].trace = f
      BY <1>1, <1>2, <3>6 DEF AuditInv, Extends
    <3>8. pc[f] = "returned"
      BY <3>7 DEF LedgerInv
    <3> QED
      BY <3>2, <3>8
  <2> QED
    BY <2>2, <2>3
<1>7. Reported' = Reported
  BY DEF Reported
<1> QED
  BY <1>1, <1>3, <1>4, <1>5, <1>6, <1>7 DEF AuditInv

\* The reconciliation begins: what it has to find is in the ledgers.
LEMMA BeginKeepsAudit ==
  ASSUME Typed, Reads, LedgerInv, AuditInv, BeginAudit
  PROVE  AuditInv'
<1>1. /\ ledger' = ledger /\ pc' = pc /\ audit.read = 0
      /\ audit'.ledger = audit.ledger /\ audit'.valid = audit.valid /\ audit'.read = audit.read
      /\ audit'.pc = "verify"
      /\ returned' = {f \in Fetches : pc[f] = "returned"}
      /\ before' = Traces("agent") \cup Traces("site")
  BY DEF BeginAudit, Typed, TypeOK, Reads
<1>2. Traces("agent")' = Traces("agent") /\ Traces("site")' = Traces("site")
  BY <1>1 DEF Traces
<1>3. ~ Reported'
  BY <1>1 DEF Reported
<1> QED
  BY <1>1, <1>2, <1>3 DEF AuditInv

\* So do the two verifications.
LEMMA VerifyKeepsAudit ==
  ASSUME Typed, Reads, LedgerInv, AuditInv, NEW l \in Ledgers, Verify(l)
  PROVE  AuditInv'
<1>1. /\ UNCHANGED <<ledger, pc, returned, before>>
      /\ audit.pc = "verify"
      /\ \E valids, at :
           audit' = [audit EXCEPT !.toVerify = @ \ {l}, !.valid = valids, !.pc = at]
             /\ at \in {"read", "verify"}
  BY DEF Verify
<1>2. /\ audit.read = 0 /\ audit'.ledger = audit.ledger /\ audit'.read = 0
      /\ audit'.pc # "done"
  BY <1>1 DEF Typed, TypeOK, Reads
<1>3. Traces("agent")' = Traces("agent") /\ Traces("site")' = Traces("site")
  BY <1>1 DEF Traces
<1>4. ~ Reported'
  BY <1>2 DEF Reported
<1> QED
  BY <1>1, <1>2, <1>3, <1>4 DEF AuditInv

\* The agent's ledger is read first, the site's after it.
LEMMA ReadKeepsAudit ==
  ASSUME Typed, Reads, LedgerInv, AuditInv, ReadAgain
  PROVE  AuditInv'
<1>1. /\ UNCHANGED <<ledger, pc, returned, before>>
      /\ audit.pc = "read" /\ audit.read \in {0, 1}
  BY DEF ReadAgain, Reads
<1>2. /\ ledger["agent"] \in Seq(Receipts) /\ ledger["site"] \in Seq(Receipts)
      /\ audit.ledger \in [Ledgers -> Seq(Receipts)] /\ "agent" \in Ledgers /\ "site" \in Ledgers
      /\ audit \in [pc : AuditPlaces, toVerify : SUBSET Ledgers, valid : SUBSET Ledgers,
                    read : 0 .. 2, ledger : [Ledgers -> Seq(Receipts)]]
  BY DEF Typed, TypeOK, Ledgers
<1>3. /\ Traces("agent") = TracesOf(ledger["agent"]) /\ Traces("site") = TracesOf(ledger["site"])
      /\ Traces("agent")' = Traces("agent") /\ Traces("site")' = Traces("site")
  BY <1>1 DEF Traces, TracesOf
<1>4. /\ \A f \in Fetches : pc[f] = "returned" => f \in Traces("agent")
      /\ \A f \in returned : pc[f] = "returned"
      /\ returned \subseteq Traces("agent")
      /\ before \subseteq Traces("agent") \cup Traces("site")
      /\ \A l \in Ledgers : Extends(ledger[l], audit.ledger[l])
  BY DEF Typed, TypeOK, LedgerInv, AuditInv
<1>5. ReadOrder[1] = "agent" /\ ReadOrder[2] = "site"
  BY DEF ReadOrder
<1>6. CASE audit' = [audit EXCEPT !.pc = "thrown"]
  <2>1. /\ audit'.ledger = audit.ledger /\ audit'.read = audit.read
        /\ audit'.valid = audit.valid /\ audit'.pc = "thrown"
    BY <1>2, <1>6
  <2> QED
    BY <1>1, <1>3, <2>1 DEF AuditInv, Reported
<1>7. ASSUME NEW l \in Ledgers, NEW r \in Readings(l), l = ReadOrder[audit.read + 1],
             audit' = [audit EXCEPT !.read = @ + 1, !.ledger[l] = r,
                         !.pc = IF @ = "read" /\ audit.read = 1 THEN "done" ELSE @]
      PROVE  AuditInv'
  <2>1. /\ audit'.read = audit.read + 1 /\ audit'.valid = audit.valid
        /\ audit'.ledger = [audit.ledger EXCEPT ![l] = r]
        /\ audit'.pc = (IF audit.read = 1 THEN "done" ELSE "read")
    BY <1>1, <1>2, <1>7
  <2>2. r = <<>> \/ r = ledger[l]
    BY <1>7 DEF Readings
  <2>3. l \in audit.valid => r = ledger[l]
    BY <1>7 DEF Readings
  <2>4. /\ audit'.ledger[l] = r
        /\ \A k \in Ledgers : k # l => audit'.ledger[k] = audit.ledger[k]
    BY <1>2, <2>1
  <2>5. Extends(ledger[l], r)
    <3>1. ledger[l] \in Seq(Receipts)
      BY <1>7, <1>2 DEF Ledgers
    <3> QED
      BY <2>2, <3>1 DEF Extends
  <2>6. \A k \in Ledgers : Extends(ledger'[k], audit'.ledger[k])
    BY <1>1, <1>4, <2>4, <2>5
  <2>7. CASE audit.read = 0
    <3>1. l = "agent" /\ audit'.pc = "read"
      BY <1>5, <1>7, <2>1, <2>7
    <3>2. "agent" \in audit'.valid => TracesOf(audit'.ledger["agent"]) = Traces("agent")
      BY <1>3, <2>1, <2>3, <2>4, <3>1
    <3>3. ~ Reported'
      BY <3>1 DEF Reported
    <3> QED
      BY <1>1, <1>3, <1>4, <2>6, <3>2, <3>3 DEF AuditInv
  <2>8. CASE audit.read = 1
    <3>1. l = "site" /\ audit'.pc = "done" /\ "agent" # "site"
      BY <1>5, <1>7, <2>1, <2>8
    <3>2. audit'.ledger["agent"] = audit.ledger["agent"]
      BY <1>2, <2>4, <3>1
    <3>3. "site" \in audit.valid => audit'.ledger["site"] = ledger["site"]
      BY <2>3, <2>4, <3>1
    <3>4. "agent" \in audit.valid =>
            /\ returned \subseteq TracesOf(audit.ledger["agent"])
            /\ before \subseteq TracesOf(audit.ledger["agent"]) \cup Traces("site")
      BY <2>8 DEF AuditInv
    <3>5. Reported' =>
            /\ before \subseteq TracesOf(audit'.ledger["agent"]) \cup TracesOf(audit'.ledger["site"])
            /\ \A i \in 1 .. Len(ledger["site"]) : i <= Len(audit'.ledger["site"])
      <4>1. Reported' => "agent" \in audit.valid /\ "site" \in audit.valid
        BY <2>1 DEF Reported, Ledgers
      <4>2. Len(ledger["site"]) \in Nat
        BY <1>2
      <4> QED
        BY <1>3, <3>2, <3>3, <3>4, <4>1, <4>2
    <3> QED
      BY <1>1, <1>3, <1>4, <2>1, <2>6, <3>2, <3>4, <3>5 DEF AuditInv
  <2> QED
    BY <1>1, <2>7, <2>8
<1>8. ReadOrder[audit.read + 1] \in Ledgers
  BY <1>1, <1>2, <1>5
<1>9. \/ \E r \in Readings(ReadOrder[audit.read + 1]) :
           audit' = [audit EXCEPT !.read = @ + 1, !.ledger[ReadOrder[audit.read + 1]] = r,
                       !.pc = IF @ = "read" /\ audit.read = 1 THEN "done" ELSE @]
      \/ audit' = [audit EXCEPT !.pc = "thrown"]
  BY DEF ReadAgain
<1> QED
  BY <1>6, <1>7, <1>8, <1>9

\* Each step keeps what the reconciliation tells of the ledgers.
LEMMA NextAudit ==
  Typed /\ Typed' /\ Reads /\ FlowInv /\ LedgerInv /\ AuditInv /\ [Next]_vars => AuditInv'
<1> SUFFICES ASSUME Typed, Typed', Reads, FlowInv, LedgerInv, AuditInv, [Next]_vars
             PROVE  AuditInv'
  OBVIOUS
<1>1. ASSUME NEW f \in Fetches,
             \/ Discover(f) \/ Decide(f) \/ Pay(f) \/ Receive(f) \/ Lose(f) \/ Record(f)
             \/ SiteDecide(f) \/ SitePreempt(f) \/ SiteWrite(f) \/ SiteWriteFails(f)
      PROVE  AuditInv'
  <2>1. UNCHANGED <<audit, returned, before>>
    BY <1>1 DEF Discover, Decide, Pay, Receive, Lose, Record, SiteDecide, SitePreempt,
                SiteWrite, SiteWriteFails, auditVars
  <2> QED
    BY <2>1, OthersAudit
<1>2. CASE Redeploy \/ (\E l \in Ledgers : BreakLedger(l)) \/ UNCHANGED vars
  <2>1. UNCHANGED <<audit, returned, before>>
    BY <1>2 DEF Redeploy, BreakLedger, vars, auditVars
  <2> QED
    BY <2>1, OthersAudit
<1> QED
  BY <1>1, <1>2, BeginKeepsAudit, VerifyKeepsAudit, ReadKeepsAudit DEF Next

ExchangeInv == Typed /\ Reads /\ FlowInv /\ LedgerInv /\ AuditInv

\* The invariant of the exchange is inductive.
LEMMA ExchangeInvariant == Spec => []ExchangeInv
<1>1. Init => ExchangeInv
  BY InitTyped, InitAudit DEF Init, Reads, ExchangeInv
<1>2. ExchangeInv /\ [Next]_vars => ExchangeInv'
  BY NextTyped, NextFlow, NextLedger, NextAudit DEF ExchangeInv
<1> QED
  BY <1>1, <1>2, PTL DEF Spec

-----------------------------------------------------------------------------
\* What a finished reconciliation tells.

\* What it read, when both ledgers verified.
LEMMA Evidenced ==
  ASSUME ExchangeInv, Reported
  PROVE  /\ \A l \in Ledgers :
              /\ ledger[l] \in Seq(Receipts) /\ audit.ledger[l] \in Seq(Receipts)
              /\ Extends(ledger[l], audit.ledger[l])
              /\ TracesOf(audit.ledger[l]) \subseteq Traces(l)
              /\ TracesOf(audit.ledger[l]) = {r.trace : r \in AllReceipts(l)}
         /\ returned \subseteq TracesOf(audit.ledger["agent"])
         /\ before \subseteq TracesOf(audit.ledger["agent"]) \cup TracesOf(audit.ledger["site"])
         /\ \A i \in 1 .. Len(ledger["site"]) :
              ledger["site"][i].trace \in TracesOf(audit.ledger["agent"]) =>
                i \in 1 .. Len(audit.ledger["site"])
<1>1. \A l \in Ledgers :
        /\ ledger[l] \in Seq(Receipts) /\ audit.ledger[l] \in Seq(Receipts)
        /\ Extends(ledger[l], audit.ledger[l])
  BY DEF ExchangeInv, Typed, TypeOK, AuditInv
<1>2. ASSUME NEW l \in Ledgers
      PROVE  /\ TracesOf(audit.ledger[l]) \subseteq Traces(l)
             /\ TracesOf(audit.ledger[l]) = {r.trace : r \in AllReceipts(l)}
  BY <1>1 DEF Extends, TracesOf, Traces, AllReceipts
<1>3. audit.read = 2 /\ "agent" \in audit.valid /\ "site" \in Ledgers
  BY DEF ExchangeInv, Reads, Reported, Ledgers
<1>4. /\ returned \subseteq TracesOf(audit.ledger["agent"])
      /\ before \subseteq TracesOf(audit.ledger["agent"]) \cup TracesOf(audit.ledger["site"])
      /\ \A i \in 1 .. Len(ledger["site"]) :
           ledger["site"][i].trace \in TracesOf(audit.ledger["agent"]) =>
             i <= Len(audit.ledger["site"])
  BY <1>3 DEF ExchangeInv, AuditInv
<1>5. Len(audit.ledger["site"]) \in Nat
  BY <1>1, <1>3
<1>6. \A i \in 1 .. Len(ledger["site"]) :
        ledger["site"][i].trace \in TracesOf(audit.ledger["agent"]) =>
          i \in 1 .. Len(audit.ledger["site"])
  BY <1>4, <1>5
<1> QED
  BY <1>1, <1>2, <1>4, <1>6, Zenon

\* A trace it reports as missing on the site has no site receipt, then or ever.
THEOREM MissingIsAlwaysMissing == Spec => []MissingSiteIsMissing
<1>1. ExchangeInv => MissingSiteIsMissing
  <2> SUFFICES ASSUME ExchangeInv, Reported,
                      NEW t, t \in missingSiteReceipts, t \in Traces("site")
               PROVE  FALSE
    BY DEF MissingSiteIsMissing
  <2>1. t \in TracesOf(audit.ledger["agent"]) /\ \A s \in AllReceipts("site") : s.trace # t
    BY Evidenced DEF missingSiteReceipts, Ledgers
  <2>2. PICK i \in 1 .. Len(ledger["site"]) : ledger["site"][i].trace = t
    BY DEF Traces
  <2>3. i \in 1 .. Len(audit.ledger["site"])
    BY <2>1, <2>2, Evidenced
  <2>4. audit.ledger["site"][i].trace = t
    BY <2>2, <2>3, Evidenced DEF Extends, Ledgers
  <2> QED
    BY <2>1, <2>3, <2>4 DEF AllReceipts
<1> QED
  BY <1>1, ExchangeInvariant, PTL

\* A fetch that had returned before it began is found in the agent's ledger.
THEOREM ReturnedAlwaysFound == Spec => []ReturnedIsFound
<1>1. ExchangeInv => ReturnedIsFound
  <2> SUFFICES ASSUME ExchangeInv, Reported, NEW f \in returned
               PROVE  f \notin missingAgentReceipts /\ \E a \in AllReceipts("agent") : a.trace = f
    BY DEF ReturnedIsFound
  <2>1. \E a \in AllReceipts("agent") : a.trace = f
    BY Evidenced DEF Ledgers
  <2> QED
    BY <2>1 DEF missingAgentReceipts
<1> QED
  BY <1>1, ExchangeInvariant, PTL

\* The last receipt of a trace read in both ledgers is the last that the site has
\* written for it, and is among those read.
LEMMA LastIsRead ==
  ASSUME ExchangeInv, Reported, NEW s \in Indexed(ledger["site"]),
         s.trace \in TracesOf(audit.ledger["agent"])
  PROVE  /\ s \in Indexed(audit.ledger["site"])
         /\ \A r \in Indexed(audit.ledger["site"]) : r.trace = s.trace => r = s
<1>1. PICK i \in 1 .. Len(ledger["site"]) :
        s = ledger["site"][i] /\ IsLast(ledger["site"], i)
  BY DEF Indexed
<1> DEFINE r == audit.ledger["site"]
<1>2. /\ ledger["site"] \in Seq(Receipts) /\ r \in Seq(Receipts) /\ Extends(ledger["site"], r)
      /\ i \in 1 .. Len(r)
  BY <1>1, Evidenced DEF Ledgers
<1> HIDE DEF r
<1>3. /\ Len(r) \in Nat /\ Len(ledger["site"]) \in Nat /\ Len(r) <= Len(ledger["site"])
      /\ \A j \in 1 .. Len(r) : r[j] = ledger["site"][j]
  BY <1>2 DEF Extends
<1>4. \A j \in i + 1 .. Len(r) : r[j].trace # r[i].trace
  BY <1>1, <1>2, <1>3 DEF IsLast
<1>5. s = r[i] /\ IsLast(r, i)
  BY <1>1, <1>2, <1>3, <1>4 DEF IsLast
<1>6. ASSUME NEW q \in Indexed(r), q.trace = s.trace
      PROVE  q = s
  <2>1. PICK k \in 1 .. Len(r) : q = r[k] /\ IsLast(r, k)
    BY <1>6 DEF Indexed
  <2>2. ~ (k < i) /\ ~ (i < k)
    BY <1>2, <1>3, <1>5, <1>6, <2>1 DEF IsLast
  <2>3. k = i
    BY <1>2, <1>3, <2>1, <2>2
  <2> QED
    BY <1>5, <2>1, <2>3
<1>7. s \in Indexed(r)
  BY <1>2, <1>5 DEF Indexed
<1> QED
  BY <1>6, <1>7 DEF r

\* A receipt of the agent's ledger, of a trace that was read there, was read.
LEMMA AgentIsRead ==
  ASSUME ExchangeInv, Reported, NEW a \in Indexed(ledger["agent"]),
         a.trace \in TracesOf(audit.ledger["agent"])
  PROVE  a \in AllReceipts("agent")
<1>1. PICK i \in 1 .. Len(ledger["agent"]) : a = ledger["agent"][i]
  BY DEF Indexed
<1>2. PICK k \in 1 .. Len(audit.ledger["agent"]) : audit.ledger["agent"][k].trace = a.trace
  BY DEF TracesOf
<1>3. k \in 1 .. Len(ledger["agent"]) /\ audit.ledger["agent"][k] = ledger["agent"][k]
  BY <1>2, Evidenced DEF Extends, Ledgers
<1>4. k = i
  BY <1>1, <1>2, <1>3 DEF ExchangeInv, LedgerInv
<1> QED
  BY <1>1, <1>2, <1>3, <1>4 DEF AllReceipts

\* "valid" speaks for every trace that either ledger held when it began.
THEOREM ValidAlwaysMeansPaired == Spec => []ValidMeansPaired
<1>1. ExchangeInv => ValidMeansPaired
  <2> SUFFICES ASSUME ExchangeInv, audit.pc = "done", valid, NEW f \in before
               PROVE  /\ f \in Traces("agent") /\ f \in Traces("site")
                      /\ \A a \in Indexed(ledger["agent"]), s \in Indexed(ledger["site"]) :
                           a.trace = f /\ s.trace = f =>
                             a.decision = s.decision /\ a.policy = s.policy
    BY DEF ValidMeansPaired
  <2>1. /\ Reported
        /\ missingSiteReceipts = {} /\ missingAgentReceipts = {} /\ mismatches = {}
    BY DEF valid, Reported
  <2>2. "agent" \in Ledgers /\ "site" \in Ledgers
    BY DEF Ledgers
  <2>3. f \in TracesOf(audit.ledger["agent"]) /\ f \in TracesOf(audit.ledger["site"])
    <3>1. TracesOf(audit.ledger["agent"]) = {r.trace : r \in AllReceipts("agent")}
          /\ TracesOf(audit.ledger["site"]) = {r.trace : r \in AllReceipts("site")}
          /\ f \in TracesOf(audit.ledger["agent"]) \cup TracesOf(audit.ledger["site"])
      BY <2>1, <2>2, Evidenced
    <3>2. \A a \in AllReceipts("agent") : \E s \in AllReceipts("site") : s.trace = a.trace
      BY <2>1 DEF missingSiteReceipts
    <3>3. \A s \in AllReceipts("site") : \E a \in AllReceipts("agent") : a.trace = s.trace
      BY <2>1 DEF missingAgentReceipts
    <3> QED
      BY <3>1, <3>2, <3>3
  <2>4. f \in Traces("agent") /\ f \in Traces("site")
    BY <2>1, <2>2, <2>3, Evidenced
  <2>5. ASSUME NEW a \in Indexed(ledger["agent"]), NEW s \in Indexed(ledger["site"]),
               a.trace = f, s.trace = f
        PROVE  a.decision = s.decision /\ a.policy = s.policy
    <3>1. a \in AllReceipts("agent")
      BY <2>1, <2>3, <2>5, AgentIsRead
    <3>2. s \in Indexed(audit.ledger["site"])
      BY <2>1, <2>3, <2>5, LastIsRead
    <3>3. Agree(a, s)
      BY <2>1, <2>5, <3>1, <3>2 DEF mismatches
    <3> QED
      BY <3>3 DEF Agree
  <2> QED
    BY <2>4, <2>5
<1> QED
  BY <1>1, ExchangeInvariant, PTL

\* Exchanges in which nothing went wrong reconcile, where the rule of each version
\* names a network or the middleware has none of its own: that one term is taken
\* from the rule alone by the agent, and from the middleware otherwise by the site.
THEOREM SmokeAlwaysReconciles ==
  ASSUME \A v \in Versions : RuleNetwork[v] = None => DefaultNetwork = None
  PROVE  Spec => []SmokeReconciles
<1>1. ExchangeInv => SmokeReconciles
  <2> SUFFICES ASSUME ExchangeInv, Reported, \A f \in Fetches : Smooth(f)
               PROVE  valid
    BY DEF SmokeReconciles
  <2>1. /\ "agent" \in Ledgers /\ "site" \in Ledgers
        /\ TracesOf(audit.ledger["agent"]) = {r.trace : r \in AllReceipts("agent")}
        /\ TracesOf(audit.ledger["site"]) = {r.trace : r \in AllReceipts("site")}
        /\ TracesOf(audit.ledger["agent"]) \subseteq Traces("agent")
        /\ TracesOf(audit.ledger["site"]) \subseteq Traces("site")
        /\ returned \subseteq TracesOf(audit.ledger["agent"])
    BY Evidenced DEF Ledgers
  <2>2. /\ \A i \in 1 .. Len(ledger["agent"]) : ledger["agent"][i].trace \in Fetches
        /\ \A i \in 1 .. Len(ledger["site"]) : ledger["site"][i].trace \in Fetches
    BY <2>1 DEF ExchangeInv, Typed
  <2>3. ASSUME NEW f \in Fetches, pc[f] # "idle"
        PROVE  /\ f \in TracesOf(audit.ledger["agent"]) /\ saw[f] \in Versions
               /\ entry[f] \in Indexed(ledger["site"]) /\ entry[f].trace = f
               /\ entry[f].policy = saw[f] /\ entry[f].decision = RuleDecision[saw[f]]
    <3>1. /\ f \in returned
          /\ entry[f] \in Indexed(ledger["site"])
          /\ entry[f].policy = saw[f] /\ entry[f].decision = RuleDecision[saw[f]]
      BY <2>3 DEF Smooth
    <3>2. PICK i \in 1 .. Len(ledger["site"]) : entry[f] = ledger["site"][i]
      BY <3>1 DEF Indexed
    <3>3. entry[f].trace \in Fetches /\ entry[f].trace \in {f, None}
      BY <2>2, <3>2 DEF ExchangeInv, FlowInv
    <3>4. entry[f].trace = f
      BY <3>3, ExchangeAssumption
    <3>5. saw[f] \in Versions
      BY <3>1 DEF ExchangeInv, AuditInv, Typed
    <3> QED
      BY <2>1, <3>1, <3>4, <3>5
  <2>4. ASSUME NEW a \in AllReceipts("agent")
        PROVE  /\ a.trace \in Fetches /\ pc[a.trace] = "returned"
               /\ a = Of(a.trace, saw[a.trace])
    <3>1. PICK k \in 1 .. Len(audit.ledger["agent"]) : a = audit.ledger["agent"][k]
      BY DEF AllReceipts
    <3>2. k \in 1 .. Len(ledger["agent"]) /\ a = ledger["agent"][k]
      BY <2>1, <3>1, Evidenced DEF Extends
    <3> QED
      BY <2>2, <3>2 DEF ExchangeInv, LedgerInv
  <2>5. missingSiteReceipts = {}
    <3>1. ASSUME NEW a \in AllReceipts("agent")
          PROVE  \E s \in AllReceipts("site") : s.trace = a.trace
      <4>1. /\ entry[a.trace] \in Indexed(ledger["site"]) /\ entry[a.trace].trace = a.trace
            /\ a.trace \in TracesOf(audit.ledger["agent"])
        BY <2>3, <2>4
      <4>2. entry[a.trace] \in Indexed(audit.ledger["site"])
        BY <4>1, LastIsRead
      <4> QED
        BY <4>1, <4>2 DEF Indexed, AllReceipts
    <3> QED
      BY <3>1 DEF missingSiteReceipts
  <2>6. missingAgentReceipts = {}
    <3>1. ASSUME NEW s \in AllReceipts("site")
          PROVE  \E a \in AllReceipts("agent") : a.trace = s.trace
      <4>1. s.trace \in Traces("site")
        BY <2>1
      <4>2. PICK i \in 1 .. Len(ledger["site"]) : ledger["site"][i].trace = s.trace
        BY <4>1 DEF Traces
      <4>3. s.trace \in Fetches /\ pc[s.trace] # "idle"
        BY <2>2, <4>2 DEF ExchangeInv, LedgerInv
      <4>4. s.trace \in TracesOf(audit.ledger["agent"])
        BY <2>3, <4>3
      <4> QED
        BY <2>1, <4>4
    <3> QED
      BY <3>1 DEF missingAgentReceipts
  <2>7. mismatches = {}
    <3>1. ASSUME NEW a \in AllReceipts("agent"), NEW s \in Indexed(audit.ledger["site"]),
                 s.trace = a.trace
          PROVE  Agree(a, s)
      <4> DEFINE f == a.trace
                 v == saw[f]
      <4>1. f \in Fetches /\ pc[f] = "returned" /\ a = Of(f, v)
        BY <2>4
      <4>2. /\ entry[f] \in Indexed(ledger["site"]) /\ entry[f].trace = f
            /\ entry[f].policy = v /\ entry[f].decision = RuleDecision[v]
            /\ v \in Versions /\ f \in TracesOf(audit.ledger["agent"])
        BY <2>3, <4>1
      <4>3. s = entry[f]
        BY <3>1, <4>2, LastIsRead
      <4>4. s.network = (IF RuleNetwork[v] # None THEN RuleNetwork[v] ELSE DefaultNetwork)
        BY <4>1, <4>2, <4>3 DEF ExchangeInv, FlowInv
      <4>5. s.network = RuleNetwork[v]
        BY <4>2, <4>4
      <4>6. a.decision = RuleDecision[v] /\ a.policy = v /\ a.network = RuleNetwork[v]
        BY <4>1 DEF Of
      <4> QED
        BY <4>2, <4>3, <4>5, <4>6 DEF Agree
    <3> QED
      BY <3>1 DEF mismatches
  <2> QED
    BY <2>5, <2>6, <2>7 DEF valid, Reported
<1> QED
  BY <1>1, ExchangeInvariant, PTL
=============================================================================
