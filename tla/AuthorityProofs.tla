-------------------------- MODULE AuthorityProofs --------------------------
(***************************************************************************)
(* The machines that grant access, each in its own steps and together, for *)
(* any sites, calls, documents and keys.                                   *)
(***************************************************************************)
EXTENDS MCAuthority, PolicyProofs

-----------------------------------------------------------------------------
(* Delegated authority.  The inductive invariant adds to the properties that *)
(* the document of a server is the beginning of the issuer's.               *)

LoadedIsBeginning ==
  loaded # None =>
    Len(loaded) <= Len(mandates) /\ \A i \in 1 .. Len(loaded) : loaded[i] = mandates[i]

\* The mandate at i is the first for the agent of a call, and covers it.
Delegated(document, i, call, at) ==
  /\ Covers(document[i], AsInvoked(call), at)
  /\ \A j \in 1 .. i - 1 : subjectMismatch(document[j], AsInvoked(call))

MandatesInv == MandatesTypeOK /\ LoadedIsBeginning /\ RanWasDelegated

-----------------------------------------------------------------------------
(* evaluateMandate *)

\* Whoever a document speaks of, the first such mandate decides.
LEMMA SpeakingFirst ==
  ASSUME NEW document \in Seq(AgentMandate), NEW call, NEW at,
         Speaking(document, call, at) # {}
  PROVE  LET i == First(Speaking(document, call, at))
         IN  /\ i \in 1 .. Len(document) /\ ~subjectMismatch(document[i], call)
             /\ \A j \in 1 .. Len(document) : ~subjectMismatch(document[j], call) => i <= j
<1> DEFINE S == Speaking(document, call, at)
<1>1. S \subseteq Nat /\ S = {i \in 1 .. Len(document) : ~subjectMismatch(document[i], call)}
  BY DEF Speaking
<1>2. First(S) \in S /\ \A j \in S : First(S) <= j
  BY <1>1, FirstIsLeast
<1> QED
  BY <1>1, <1>2

\* Without a reason against it, a call is within every scope of a mandate.
LEMMA WithinScope ==
  ASSUME NEW mandate, NEW call, scopeMismatch(mandate, call) = None
  PROVE  /\ call.purpose \in mandate.purposes
         /\ ~Outside(call.use, mandate.uses) /\ ~Outside(call.method, mandate.methods)
         /\ ~Outside(call.tool, mandate.tools)
         /\ ~Outside(call.consequence, mandate.consequences)
         /\ call.path # None /\ mandate.resources # None
            => \E r \in mandate.resources : resourceMatches(r, call)
         /\ call.budget # None /\ mandate.maxBudget # None
            => budgetWithin(call.budget, mandate.maxBudget)
<1> DEFINE failing == OutOfScope(mandate, call)
<1>1. failing = {}
  <2>1. failing \subseteq Nat /\ failing \subseteq 1 .. 7
    BY DEF OutOfScope
  <2>2. failing # {} => First(failing) \in 1 .. 7
    BY <2>1, FirstIsLeast
  <2> QED
    BY <2>2, NoneAssumption DEF NoneAssumption, scopeMismatch
<1>2. \A n \in 1 .. 7 : n \notin failing
  BY <1>1
<1> QED
  BY <1>2 DEF OutOfScope

\* What is allowed is covered by the first mandate of the document for its agent, if
\* it says what it is: its method, tool and URL.
LEMMA AllowedIsCovered ==
  ASSUME NEW document \in Seq(AgentMandate), NEW call, NEW at,
         call.method # None, call.tool # None, call.path # None,
         evaluateMandate(document, call, at).decision = "allow"
  PROVE  \E i \in 1 .. Len(document) :
           /\ Covers(document[i], call, at)
           /\ \A j \in 1 .. i - 1 : subjectMismatch(document[j], call)
<1> DEFINE S == Speaking(document, call, at)
           i == First(S)
           mandate == document[i]
<1>1. /\ S # {} /\ ~Expired(mandate.expiresAt, at)
      /\ scopeMismatch(mandate, call) = None /\ ~approvalRequired(mandate, call)
  BY DEF evaluateMandate
<1>2. /\ i \in 1 .. Len(document) /\ ~subjectMismatch(mandate, call)
      /\ \A j \in 1 .. Len(document) : ~subjectMismatch(document[j], call) => i <= j
  BY <1>1, SpeakingFirst
<1>3. Covers(mandate, call, at)
  BY <1>1, <1>2, WithinScope DEF Covers, subjectMismatch, Outside, approvalRequired, budgetWithin
<1>4. \A j \in 1 .. i - 1 : subjectMismatch(document[j], call)
  <2> HIDE DEF i
  <2> QED
    BY <1>2
<1> QED
  BY <1>2, <1>3, <1>4

\* A call as it is invoked has a method, a tool and a URL.
LEMMA InvokedIsStated ==
  ASSUME NEW call \in ToolCalls
  PROVE  LET invoked == AsInvoked(call)
         IN  invoked.method # None /\ invoked.tool # None /\ invoked.path # None
  BY MandateAssumption, NoneAssumption
     DEF MandateAssumption, NoneAssumption, AsInvoked, CallFields

-----------------------------------------------------------------------------
(* The steps *)

LEMMA MandatesStart == MandatesInit => MandatesInv
<1> SUFFICES ASSUME MandatesInit
             PROVE  MandatesInv
  OBVIOUS
<1>1. <<>> \in Seq(AgentMandate) /\ Len(<<>>) = 0
  OBVIOUS
<1>2. mandates \in Seq(AgentMandate) /\ Len(mandates) = 0 /\ loaded \in {None, mandates}
  BY <1>1 DEF MandatesInit
<1>3. MandatesTypeOK
  <2>1. Len(mandates) <= MaxMandates /\ today \in 0 .. MaxTime
    BY <1>2, MandateAssumption DEF MandateAssumption, MandatesInit
  <2>2. loaded \in Seq(AgentMandate) \cup {None}
    BY <1>2, Zenon
  <2> QED
    BY <1>2, <2>1, <2>2 DEF MandatesTypeOK
<1>4. LoadedIsBeginning
  BY <1>2 DEF LoadedIsBeginning
<1>5. RanWasDelegated
  BY DEF MandatesInit, RanWasDelegated
<1> QED
  BY <1>3, <1>4, <1>5 DEF MandatesInv

LEMMA IssueInv == MandatesInv /\ Issue => MandatesInv'
<1> SUFFICES ASSUME MandatesInv, NEW mandate \in AgentMandate, Len(mandates) < MaxMandates,
                    mandates' = Append(mandates, mandate), UNCHANGED <<loaded, ran, today>>
             PROVE  MandatesInv'
  BY DEF Issue
<1>1. /\ mandates' \in Seq(AgentMandate) /\ Len(mandates') = Len(mandates) + 1
      /\ \A i \in 1 .. Len(mandates) : mandates'[i] = mandates[i]
  BY DEF MandatesInv, MandatesTypeOK
<1>2. MandatesTypeOK'
  BY <1>1, MandateAssumption DEF MandateAssumption, MandatesInv, MandatesTypeOK
<1>3. LoadedIsBeginning'
  BY <1>1 DEF MandatesInv, MandatesTypeOK, LoadedIsBeginning
<1>4. RanWasDelegated'
  <2> SUFFICES ASSUME NEW r \in ran, r.document # None, NEW i \in 1 .. Len(mandates),
                      Delegated(mandates, i, r.call, r.at)
               PROVE  \E k \in DOMAIN mandates' : Delegated(mandates', k, r.call, r.at)
    BY DEF MandatesInv, MandatesTypeOK, RanWasDelegated, Delegated
  <2> QED
    BY <1>1 DEF MandatesInv, MandatesTypeOK, Delegated
<1> QED
  BY <1>2, <1>3, <1>4 DEF MandatesInv

LEMMA WrapToolInv == MandatesInv /\ wrapTool => MandatesInv'
<1> SUFFICES ASSUME MandatesInv, NEW call \in ToolCalls,
                    authorizeMcpToolInvocation(loaded, call, today).allowed,
                    ran' = {[call |-> call, at |-> today, document |-> loaded]},
                    UNCHANGED <<mandates, loaded, today>>
             PROVE  MandatesInv'
  BY DEF wrapTool
<1>1. loaded # None => \E i \in DOMAIN mandates : Delegated(mandates, i, call, today)
  <2> SUFFICES ASSUME loaded # None
               PROVE  \E i \in DOMAIN mandates : Delegated(mandates, i, call, today)
    OBVIOUS
  <2>1. evaluateMandate(loaded, AsInvoked(call), today).decision = "allow"
    BY DEF authorizeMcpToolInvocation
  <2>2. PICK i \in 1 .. Len(loaded) : Delegated(loaded, i, call, today)
    BY <2>1, AllowedIsCovered, InvokedIsStated DEF MandatesInv, MandatesTypeOK, Delegated
  <2> QED
    BY <2>2 DEF MandatesInv, MandatesTypeOK, LoadedIsBeginning, Delegated
<1>2. decideAccess(ToolPolicy, AccessRequest(AsInvoked(call)), today).decision
        \in {"allow", "charge"}
  BY DEF authorizeMcpToolInvocation, allowedByPolicy
<1>3. RanWasDelegated'
  BY <1>1, <1>2 DEF RanWasDelegated, Delegated
<1> QED
  BY <1>3 DEF MandatesInv, MandatesTypeOK, LoadedIsBeginning

LEMMA MandatesStep == MandatesInv /\ [MandatesNext]_mandateVars => MandatesInv'
<1> SUFFICES ASSUME MandatesInv, [MandatesNext]_mandateVars
             PROVE  MandatesInv'
  OBVIOUS
<1>1. CASE Issue
  BY <1>1, IssueInv
<1>2. CASE StartServer
  BY <1>2 DEF StartServer, MandatesInv, MandatesTypeOK, LoadedIsBeginning, RanWasDelegated
<1>3. CASE wrapTool
  BY <1>3, WrapToolInv
<1>4. CASE PassDay
  BY <1>4, MandateAssumption
     DEF MandateAssumption, PassDay, MandatesInv, MandatesTypeOK, LoadedIsBeginning, RanWasDelegated
<1>5. CASE UNCHANGED mandateVars
  BY <1>5 DEF mandateVars, MandatesInv, MandatesTypeOK, LoadedIsBeginning, RanWasDelegated
<1> QED
  BY <1>1, <1>2, <1>3, <1>4, <1>5 DEF MandatesNext

\* The document of the issuer, those of the servers and the time have their types.
THEOREM MandatesTyped == MandatesSpec => []MandatesTypeOK
<1>1. MandatesInv => MandatesTypeOK
  BY DEF MandatesInv
<1> QED
  BY MandatesStart, MandatesStep, <1>1, PTL DEF MandatesSpec

\* Whatever ran behind a guard was covered by the first mandate of the issuer for its
\* agent, which had not expired, and granted by the policy of the guard: for any documents, calls and
\* policies, and however long ago the server was started.
THEOREM OnlyDelegatedRuns == MandatesSpec => []RanWasDelegated
<1>1. MandatesInv => RanWasDelegated
  BY DEF MandatesInv
<1> QED
  BY MandatesStart, MandatesStep, <1>1, PTL DEF MandatesSpec

-----------------------------------------------------------------------------
(* The first mandate for an agent rules *)

\* An expired mandate stays expired.
LEMMA ExpiredStays ==
  ASSUME NEW expiresAt \in Dates, NEW now \in Nat, NEW later \in Nat, now <= later,
         Expired(expiresAt, now)
  PROVE  Expired(expiresAt, later)
  BY DEF Expired, Dates

\* Time makes no mandate allow what it did not.
LEMMA DaysForbid ==
  ASSUME NEW document \in Seq(AgentMandate), NEW call, NEW now \in Nat,
         evaluateMandate(document, call, now + 1).decision = "allow"
  PROVE  evaluateMandate(document, call, now).decision = "allow"
<1> DEFINE i == First(Speaking(document, call, now))
<1>1. Speaking(document, call, now + 1) = Speaking(document, call, now)
  BY DEF Speaking
<1>2. /\ Speaking(document, call, now) # {} /\ ~Expired(document[i].expiresAt, now + 1)
      /\ scopeMismatch(document[i], call) = None /\ ~approvalRequired(document[i], call)
  BY <1>1 DEF evaluateMandate
<1>3. i \in 1 .. Len(document)
  BY <1>2, SpeakingFirst
<1>4. document[i].expiresAt \in Dates
  BY <1>3, MandateAssumption DEF MandateAssumption
<1>5. ~Expired(document[i].expiresAt, now)
  BY <1>2, <1>4, ExpiredStays
<1> QED
  BY <1>2, <1>5 DEF evaluateMandate

\* A mandate added at the end changes nothing for whom the document speaks of.
LEMMA EarlierRules ==
  ASSUME NEW document \in Seq(AgentMandate), NEW mandate \in AgentMandate, NEW call, NEW now,
         Speaking(document, call, now) # {}
  PROVE  evaluateMandate(Append(document, mandate), call, now)
           = evaluateMandate(document, call, now)
<1> DEFINE longer == Append(document, mandate)
           S == Speaking(document, call, now)
           T == Speaking(longer, call, now)
<1>1. /\ longer \in Seq(AgentMandate) /\ Len(longer) = Len(document) + 1
      /\ \A i \in 1 .. Len(document) : longer[i] = document[i]
  OBVIOUS
<1>2. S \subseteq T /\ T # {}
  BY <1>1 DEF Speaking
<1>3. First(S) \in S /\ First(S) \in 1 .. Len(document)
  <2>1. S \subseteq Nat /\ S \subseteq 1 .. Len(document)
    BY DEF Speaking
  <2> QED
    BY <2>1, FirstIsLeast
<1>4. First(T) \in T /\ First(T) \in Nat /\ First(T) <= First(S)
  <2>1. T \subseteq Nat
    BY <1>1 DEF Speaking
  <2> QED
    BY <1>2, <1>3, <2>1, FirstIsLeast
<1>5. First(T) \in S
  <2>4. T \subseteq 1 .. (Len(document) + 1)
    BY <1>1 DEF Speaking
  <2>1. First(T) \in 1 .. Len(document)
    <3> HIDE DEF S, T
    <3> QED
      BY <1>3, <1>4, <2>4
  <2>2. longer[First(T)] = document[First(T)] /\ DOMAIN document = 1 .. Len(document)
    BY <1>1, <2>1
  <2>3. ~subjectMismatch(longer[First(T)], call)
    BY <1>4 DEF Speaking
  <2> HIDE DEF longer
  <2> QED
    BY <2>1, <2>2, <2>3 DEF Speaking
<1>6. First(S) <= First(T)
  <2>1. S \subseteq Nat
    BY DEF Speaking
  <2> QED
    BY <1>5, <2>1, FirstIsLeast
<1>7. First(T) = First(S)
  BY <1>3, <1>4, <1>6
<1>8. longer[First(T)] = document[First(S)]
  BY <1>1, <1>3, <1>7
<1> QED
  BY <1>2, <1>8 DEF evaluateMandate

\* Neither a later day nor a later mandate gives an agent what the first mandate
\* for it refuses or let expire: for any mandates and calls.
THEOREM FirstMandateForever == MandatesSpec => FirstMandateRules
<1> DEFINE Ruled ==
      \A call \in ToolCalls :
        evaluateMandate(mandates', call, today').decision = "allow" =>
          \/ evaluateMandate(mandates, call, today).decision = "allow"
          \/ \A i \in DOMAIN mandates : subjectMismatch(mandates[i], call)
<1>1. MandatesInv /\ [MandatesNext]_mandateVars => [Ruled]_mandateVars
  <2> SUFFICES ASSUME MandatesInv, MandatesNext, NEW call \in ToolCalls,
                      evaluateMandate(mandates', call, today').decision = "allow",
                      ~ \A i \in DOMAIN mandates : subjectMismatch(mandates[i], call)
               PROVE  evaluateMandate(mandates, call, today).decision = "allow"
    OBVIOUS
  <2>1. mandates \in Seq(AgentMandate) /\ today \in Nat
    BY MandateAssumption DEF MandateAssumption, MandatesInv, MandatesTypeOK
  <2>2. CASE Issue
    <3>1. PICK mandate \in AgentMandate :
            mandates' = Append(mandates, mandate) /\ today' = today
      BY <2>2 DEF Issue
    <3>2. Speaking(mandates, call, today) # {}
      BY DEF Speaking
    <3> QED
      BY <2>1, <3>1, <3>2, EarlierRules
  <2>3. CASE StartServer \/ wrapTool
    BY <2>3 DEF StartServer, wrapTool
  <2>4. CASE PassDay
    BY <2>1, <2>4, DaysForbid DEF PassDay
  <2> QED
    BY <2>2, <2>3, <2>4 DEF MandatesNext
<1> QED
  BY MandatesStart, MandatesStep, <1>1, PTL DEF MandatesSpec, FirstMandateRules

-----------------------------------------------------------------------------
(* Signed policies and signed requests.  The inductive invariants say where *)
(* every signature that is around comes from, whatever it is attached to.   *)

(* Signed policies *)

\* Each signature is of a controller, over a body that it signed.
SignatureOf(m) ==
  {[type |-> "ed25519", keyId |-> keyId, createdAt |-> createdAt, policyHash |-> hash,
    value |-> [key |-> m.key, over |-> policySignaturePayload(m.body, keyId, createdAt)]] :
     keyId \in {c.keyId : c \in Controllers}, createdAt \in Nat, hash \in Bodies}

CopiesAreGenuine ==
  \A c \in copies :
    /\ c.body \in Bodies
    /\ c.signature = NoSignature \/ \E m \in made : c.signature \in SignatureOf(m)

SignedPolicyInv == day \in Nat /\ CopiesAreGenuine /\ AcceptedWasSigned

LEMMA PublishInv == SignedPolicyInv /\ Publish => SignedPolicyInv'
<1> SUFFICES ASSUME SignedPolicyInv, NEW document \in copies, NEW controller \in Controllers,
                    copies' = copies \cup {signAgentAccessPolicy(document, controller, day)},
                    made' = made \cup {[body |-> document.body, key |-> controller.key]},
                    UNCHANGED <<day, revoked, accepted>>
             PROVE  SignedPolicyInv'
  BY DEF Publish
<1> DEFINE new == signAgentAccessPolicy(document, controller, day)
           m == [body |-> document.body, key |-> controller.key]
<1>1. new.body = document.body /\ new.body \in Bodies
  BY DEF signAgentAccessPolicy, SignedPolicyInv, CopiesAreGenuine
<1>2. new.signature \in SignatureOf(m)
  BY <1>1 DEF signAgentAccessPolicy, SignatureOf, SignedPolicyInv
<1>3. CopiesAreGenuine'
  <2> SUFFICES ASSUME NEW c \in copies'
               PROVE  /\ c.body \in Bodies
                      /\ c.signature = NoSignature \/ \E n \in made' : c.signature \in SignatureOf(n)
    BY DEF CopiesAreGenuine, SignatureOf, policySignaturePayload
  <2> HIDE DEF new, m
  <2>1. CASE c = new
    BY <1>1, <1>2, <2>1 DEF m
  <2>2. CASE c \in copies
    BY <2>2 DEF SignedPolicyInv, CopiesAreGenuine
  <2> QED
    BY <2>1, <2>2 DEF new
<1>4. AcceptedWasSigned'
  BY DEF SignedPolicyInv, AcceptedWasSigned
<1> QED
  BY <1>3, <1>4 DEF SignedPolicyInv

LEMMA AlterInv == SignedPolicyInv /\ Alter => SignedPolicyInv'
<1> SUFFICES ASSUME SignedPolicyInv, NEW document \in copies, NEW body \in Bodies,
                    NEW rehashed \in BOOLEAN, document.signature # NoSignature,
                    copies' = copies \cup
                      {[body |-> body,
                        signature |-> [document.signature EXCEPT
                                         !.policyHash = IF rehashed THEN body ELSE @]]},
                    UNCHANGED <<day, made, revoked, accepted>>
             PROVE  SignedPolicyInv'
  BY DEF Alter
<1> DEFINE altered == [document.signature EXCEPT !.policyHash = IF rehashed THEN body ELSE @]
<1>1. PICK m \in made : document.signature \in SignatureOf(m)
  BY DEF SignedPolicyInv, CopiesAreGenuine
<1>2. altered \in SignatureOf(m)
  BY <1>1 DEF SignatureOf
<1>3. CopiesAreGenuine'
  <2> SUFFICES ASSUME NEW c \in copies'
               PROVE  /\ c.body \in Bodies
                      /\ c.signature = NoSignature \/ \E n \in made' : c.signature \in SignatureOf(n)
    BY DEF CopiesAreGenuine, SignatureOf, policySignaturePayload
  <2> HIDE DEF altered
  <2>1. CASE c = [body |-> body, signature |-> altered]
    BY <1>2, <2>1
  <2>2. CASE c \in copies
    BY <2>2 DEF SignedPolicyInv, CopiesAreGenuine
  <2> QED
    BY <2>1, <2>2 DEF altered
<1>4. AcceptedWasSigned'
  BY DEF SignedPolicyInv, AcceptedWasSigned
<1> QED
  BY <1>3, <1>4 DEF SignedPolicyInv

\* What verifies was signed as it is, with a key that is trusted and not revoked.
LEMMA VerifiedPolicy ==
  ASSUME SignedPolicyInv, NEW document \in copies,
         verifySignedAgentAccessPolicy(document, day) = "ok"
  PROVE  \E m \in made, i \in DOMAIN TrustRecords :
           /\ m.body = document.body /\ m.key = TrustRecords[i].publicKey /\ i \notin revoked
           /\ TrustRecords[i].notBefore <= day /\ day < TrustRecords[i].notAfter
<1> DEFINE named == RecordAt(document.signature.keyId)
           i == First(named)
<1>1. /\ document.signature # NoSignature /\ named # {} /\ i \notin revoked
      /\ ~(TrustRecords[i].notBefore > day) /\ ~(TrustRecords[i].notAfter <= day)
      /\ Signed(document, TrustRecords[i].publicKey)
  BY DEF verifySignedAgentAccessPolicy, First
<1>2. i \in DOMAIN TrustRecords
  <2>1. named \subseteq Nat /\ named \subseteq DOMAIN TrustRecords
    BY SignedPolicyAssumption DEF SignedPolicyAssumption, RecordAt
  <2> QED
    BY <1>1, <2>1, FirstIsLeast
<1>3. PICK m \in made : document.signature \in SignatureOf(m)
  BY <1>1 DEF SignedPolicyInv, CopiesAreGenuine
<1>4. m.body = document.body /\ m.key = TrustRecords[i].publicKey
  <2> HIDE DEF i
  <2> QED
    BY <1>1, <1>3 DEF SignatureOf, Signed, policySignaturePayload
<1>5. TrustRecords[i].notBefore <= day /\ day < TrustRecords[i].notAfter
  BY <1>1, <1>2, SignedPolicyAssumption DEF SignedPolicyAssumption, SignedPolicyInv
<1> QED
  BY <1>1, <1>2, <1>4, <1>5

LEMMA AcceptInv == SignedPolicyInv /\ Accept => SignedPolicyInv'
<1> SUFFICES ASSUME SignedPolicyInv, NEW document \in copies,
                    verifySignedAgentAccessPolicy(document, day) = "ok",
                    accepted' = {[body |-> document.body, at |-> day, revoked |-> revoked]},
                    UNCHANGED <<day, copies, made, revoked>>
             PROVE  SignedPolicyInv'
  BY DEF Accept
<1>1. AcceptedWasSigned'
  BY VerifiedPolicy DEF AcceptedWasSigned
<1>2. CopiesAreGenuine'
  BY DEF SignedPolicyInv, CopiesAreGenuine, SignatureOf, policySignaturePayload
<1> QED
  BY <1>1, <1>2 DEF SignedPolicyInv

LEMMA SignedPolicyStart == SignedPolicyInit => SignedPolicyInv
  BY DEF SignedPolicyInit, SignedPolicyInv, CopiesAreGenuine, AcceptedWasSigned

LEMMA SignedPolicyStep ==
  SignedPolicyInv /\ [SignedPolicyNext]_signedPolicyVars => SignedPolicyInv'
<1> SUFFICES ASSUME SignedPolicyInv, [SignedPolicyNext]_signedPolicyVars
             PROVE  SignedPolicyInv'
  OBVIOUS
<1> USE DEF SignedPolicyInv, CopiesAreGenuine, SignatureOf, policySignaturePayload,
            AcceptedWasSigned
<1>1. CASE Publish
  BY <1>1, PublishInv
<1>2. CASE Alter
  BY <1>2, AlterInv
<1>3. CASE Revoke
  BY <1>3 DEF Revoke
<1>4. CASE Accept
  BY <1>4, AcceptInv
<1>5. CASE DayPasses
  BY <1>5 DEF DayPasses
<1>6. CASE UNCHANGED signedPolicyVars
  BY <1>6 DEF signedPolicyVars
<1> QED
  BY <1>1, <1>2, <1>3, <1>4, <1>5, <1>6 DEF SignedPolicyNext

\* A policy that was accepted was signed as it is, with a key that was trusted on
\* that day and not revoked, whatever was done to the copies on the way.
THEOREM OnlySignedPolicies == SignedPolicySpec => []AcceptedWasSigned
<1>1. SignedPolicyInv => AcceptedWasSigned
  BY DEF SignedPolicyInv
<1> QED
  BY SignedPolicyStart, SignedPolicyStep, <1>1, PTL DEF SignedPolicySpec

-----------------------------------------------------------------------------
(* Signed requests *)

MessageFields ==
  {"method", "url", "agent", "purpose", "use", "trace", "keyId", "created", "signature"}

\* Every message carries a signature of a message that was signed at about the time
\* it names.
WireIsGenuine ==
  \A m \in wire :
    /\ DOMAIN m = MessageFields /\ m = [name \in MessageFields |-> m[name]]
    /\ \E s \in signed :
         /\ m.signature = [key |-> s.key, over |-> buildAgentSignatureInput(s.message)]
         /\ s.at \in Nat /\ s.message.created \in s.at - Drift .. s.at + Drift

SignedAccessInv == clock \in Nat /\ WireIsGenuine /\ ServedWasSigned

LEMMA SendInv == SignedAccessInv /\ Send => SignedAccessInv'
<1> SUFFICES ASSUME SignedAccessInv, NEW errand \in Errands, NEW signer \in Signers,
                    NEW created \in (clock - Drift) .. (clock + Drift),
                    wire' = wire \cup {signAgentAccessHeaders(errand, signer, created)},
                    signed' = signed \cup
                      {[message |-> signAgentAccessHeaders(errand, signer, created),
                        key |-> signer.key, at |-> clock]},
                    UNCHANGED <<clock, stop, served>>
             PROVE  SignedAccessInv'
  BY DEF Send
<1> DEFINE new == signAgentAccessHeaders(errand, signer, created)
           entry == [message |-> new, key |-> signer.key, at |-> clock]
<1>1. /\ DOMAIN new = MessageFields /\ new = [name \in MessageFields |-> new[name]]
      /\ new.created = created
      /\ new.signature = [key |-> signer.key, over |-> buildAgentSignatureInput(new)]
  BY DEF signAgentAccessHeaders, buildAgentSignatureInput, SIGNED_HEADERS, MessageFields
<1> HIDE DEF new
<1>2. /\ entry \in signed'
      /\ new.signature = [key |-> entry.key, over |-> buildAgentSignatureInput(entry.message)]
      /\ entry.at \in Nat /\ entry.message.created \in entry.at - Drift .. entry.at + Drift
  BY <1>1 DEF SignedAccessInv, new
<1> HIDE DEF entry
<1>3. WireIsGenuine'
  <2> SUFFICES ASSUME NEW m \in wire'
               PROVE  /\ DOMAIN m = MessageFields /\ m = [name \in MessageFields |-> m[name]]
                      /\ \E s \in signed' :
                           /\ m.signature = [key |-> s.key,
                                             over |-> buildAgentSignatureInput(s.message)]
                           /\ s.at \in Nat
                           /\ s.message.created \in s.at - Drift .. s.at + Drift
    BY DEF WireIsGenuine, buildAgentSignatureInput
  <2>1. CASE m = new
    BY <1>1, <1>2, <2>1
  <2>2. CASE m \in wire
    BY <2>2 DEF SignedAccessInv, WireIsGenuine
  <2> QED
    BY <2>1, <2>2 DEF new
<1>4. ServedWasSigned'
  BY DEF SignedAccessInv, ServedWasSigned, WasSigned
<1> QED
  BY <1>3, <1>4 DEF SignedAccessInv

LEMMA ChangeInv == SignedAccessInv /\ Change => SignedAccessInv'
<1> SUFFICES ASSUME SignedAccessInv, NEW message \in wire, NEW name \in Changeable,
                    NEW value \in HeaderValues[name],
                    wire' = wire \cup {[message EXCEPT ![name] = value]},
                    UNCHANGED <<clock, signed, stop, served>>
             PROVE  SignedAccessInv'
  BY DEF Change
<1> DEFINE changed == [message EXCEPT ![name] = value]
<1>1. DOMAIN message = MessageFields
  BY DEF SignedAccessInv, WireIsGenuine
<1>2. /\ DOMAIN changed = MessageFields /\ changed = [n \in MessageFields |-> changed[n]]
      /\ changed.signature = message.signature
  BY <1>1, SignedAccessAssumption DEF SignedAccessAssumption, MessageFields
<1> HIDE DEF changed
<1>3. WireIsGenuine'
  <2> SUFFICES ASSUME NEW m \in wire'
               PROVE  /\ DOMAIN m = MessageFields /\ m = [n \in MessageFields |-> m[n]]
                      /\ \E s \in signed :
                           /\ m.signature = [key |-> s.key,
                                             over |-> buildAgentSignatureInput(s.message)]
                           /\ s.at \in Nat
                           /\ s.message.created \in s.at - Drift .. s.at + Drift
    BY DEF WireIsGenuine, buildAgentSignatureInput
  <2>1. CASE m = changed
    BY <1>2, <2>1 DEF SignedAccessInv, WireIsGenuine
  <2>2. CASE m \in wire
    BY <2>2 DEF SignedAccessInv, WireIsGenuine
  <2> QED
    BY <2>1, <2>2 DEF changed
<1>4. ServedWasSigned'
  BY DEF SignedAccessInv, ServedWasSigned, WasSigned
<1> QED
  BY <1>3, <1>4 DEF SignedAccessInv

\* What verifies was signed, as it is, with a key that is trusted for its agent.
LEMMA VerifiedRequest ==
  ASSUME SignedAccessInv, NEW m \in wire, verifyAgentAccessHeaders(m, clock) = "verified"
  PROVE  WasSigned(m, clock)
<1> DEFINE named == {i \in DOMAIN TrustedKeys : TrustedKeys[i].keyId = m.keyId}
           k == First(named)
<1>1. /\ named # {} /\ ~Expired(TrustedKeys[k].expiresAt, clock)
      /\ TrustedKeys[k].agent \in {None, m.agent}
      /\ ~(m.created > clock + MaxSkew) /\ ~(clock > m.created + MaxSkew)
      /\ m.signature.key = TrustedKeys[k].publicKey
      /\ m.signature.over = buildAgentSignatureInput(m)
  BY DEF verifyAgentAccessHeaders, nodeVerify
<1>2. k \in DOMAIN TrustedKeys /\ TrustedKeys[k].keyId = m.keyId
  <2>1. named \subseteq Nat
    BY SignedAccessAssumption DEF SignedAccessAssumption
  <2>2. k \in named
    BY <1>1, <2>1, FirstIsLeast
  <2> QED
    BY <2>2
<1> HIDE DEF k
<1>3. PICK s \in signed :
        /\ m.signature = [key |-> s.key, over |-> buildAgentSignatureInput(s.message)]
        /\ s.at \in Nat /\ s.message.created \in s.at - Drift .. s.at + Drift
  BY DEF SignedAccessInv, WireIsGenuine
<1>4. s.key = TrustedKeys[k].publicKey
      /\ buildAgentSignatureInput(s.message) = buildAgentSignatureInput(m)
  BY <1>1, <1>3
<1>5. /\ s.message.method = m.method /\ s.message.url = m.url
      /\ \A name \in SIGNED_HEADERS : s.message[name] = m[name]
  BY <1>4 DEF buildAgentSignatureInput
<1>6. /\ s.message.agent = m.agent /\ s.message.purpose = m.purpose /\ s.message.use = m.use
      /\ s.message.created = m.created
  BY <1>5 DEF SIGNED_HEADERS
<1>7. s.at <= clock + MaxSkew + Drift /\ clock <= s.at + MaxSkew + Drift
  BY <1>1, <1>3, <1>6, SignedAccessAssumption DEF SignedAccessAssumption, SignedAccessInv
<1>8. \A name \in {"method", "url", "agent", "purpose", "use"} : s.message[name] = m[name]
  BY <1>5, <1>6
<1> QED
  BY <1>1, <1>2, <1>4, <1>7, <1>8 DEF WasSigned

\* What a stop signal that is in force lets pass is outside its scope.
LEMMA OutsideTheStop ==
  ASSUME NEW signal, NEW m, NEW ruleId, NEW now,
         signal # None =>
           ~evaluateStopSignal(signal, parseAgentAccessHeaders(m), ruleId, m.url, now)
  PROVE  NotStopped(signal, m, ruleId, now)
<1> SUFFICES ASSUME signal # None, signal.active, ~Expired(signal.expiresAt, now)
             PROVE  NotStopped(signal, m, ruleId, now)
  BY DEF NotStopped
<1> DEFINE parsed == parseAgentAccessHeaders(m)
           scope == signal.scope
<1>1. ~scopeMatches(scope, parsed, ruleId, m.url)
  BY DEF evaluateStopSignal
<1>2. None \in {m.agent, m.purpose, m.use, m.trace}
      \/ parsed = [agent |-> m.agent, purpose |-> m.purpose, use |-> m.use]
  BY DEF parseAgentAccessHeaders
<1> HIDE DEF parsed
<1>3. /\ scope # None
      /\ \/ scope.agentIds # None /\ (parsed.agent = None \/ parsed.agent \notin scope.agentIds)
         \/ scope.purposes # None /\ (parsed.purpose = None \/ parsed.purpose \notin scope.purposes)
         \/ scope.uses # None /\ (parsed.use = None \/ parsed.use \notin scope.uses)
         \/ scope.ruleIds # None /\ (ruleId = None \/ ruleId \notin scope.ruleIds)
         \/ scope.paths # None /\ \A p \in scope.paths : m.url \notin Covered[p]
  BY <1>1, Zenon DEF scopeMatches, InScope
<1> QED
  BY <1>2, <1>3 DEF NotStopped

LEMMA ServeInv == SignedAccessInv /\ Serve => SignedAccessInv'
<1> SUFFICES ASSUME SignedAccessInv, NEW m \in wire, NEW ruleId,
                    verifyAgentAccessHeaders(m, clock) = "verified",
                    stop # None => ~evaluateStopSignal(stop, parseAgentAccessHeaders(m), ruleId,
                                                       m.url, clock),
                    served' = [message |-> m, at |-> clock, stop |-> stop, rule |-> ruleId],
                    UNCHANGED <<clock, wire, signed, stop>>
             PROVE  SignedAccessInv'
  BY DEF Serve
<1>1. served'.message = m /\ served'.at = clock /\ served'.stop = stop /\ served'.rule = ruleId
  OBVIOUS
<1>2. WasSigned(m, clock)' /\ NotStopped(stop, m, ruleId, clock)
  BY VerifiedRequest, OutsideTheStop DEF WasSigned
<1>3. ServedWasSigned'
  BY <1>1, <1>2 DEF ServedWasSigned
<1>4. WireIsGenuine'
  BY DEF SignedAccessInv, WireIsGenuine, buildAgentSignatureInput
<1> QED
  BY <1>3, <1>4 DEF SignedAccessInv

LEMMA SignedAccessStart == SignedAccessInit => SignedAccessInv
  BY DEF SignedAccessInit, SignedAccessInv, WireIsGenuine, ServedWasSigned

LEMMA SignedAccessStep == SignedAccessInv /\ [SignedAccessNext]_signedVars => SignedAccessInv'
<1> SUFFICES ASSUME SignedAccessInv, [SignedAccessNext]_signedVars
             PROVE  SignedAccessInv'
  OBVIOUS
<1>1. CASE Send
  BY <1>1, SendInv
<1>2. CASE Change
  BY <1>2, ChangeInv
<1>3. CASE Serve
  BY <1>3, ServeInv
<1>4. ASSUME UNCHANGED <<wire, signed, served>>, clock' \in Nat
      PROVE  SignedAccessInv'
  BY <1>4 DEF SignedAccessInv, WireIsGenuine, buildAgentSignatureInput, ServedWasSigned, WasSigned
<1>5. CASE SetStop \/ ClockTick \/ UNCHANGED signedVars
  BY <1>4, <1>5 DEF SetStop, ClockTick, signedVars, SignedAccessInv
<1> QED
  BY <1>1, <1>2, <1>3, <1>5 DEF SignedAccessNext

\* Whatever intermediaries do to the messages on the way, and however late they
\* deliver them: what a site serves was signed as it is, within the skew and the
\* drift, with a key trusted for its agent then, and outside the stop in force.
THEOREM OnlySignedRequests == SignedAccessSpec => []ServedWasSigned
<1>1. SignedAccessInv => ServedWasSigned
  BY DEF SignedAccessInv
<1> QED
  BY SignedAccessStart, SignedAccessStep, <1>1, PTL DEF SignedAccessSpec

-----------------------------------------------------------------------------
(* The calls to a site.  The inductive invariant says what a call knows and *)
(* what the sinks have of it at each point of its way.                      *)

Points == {"start", "reading", "read", "loaded", "record", "served", "answered"}

Decisions ==
  {enforceDecision(version, visit, at).decision : version \in DOMAIN Versions, visit \in Visits,
                                                  at \in Nat}

Answers == Decisions \cup {"throttle", None}

Knowledge ==
  [pc : Points, site : Sites \cup {None}, visit : Visits \cup {None},
   version : DOMAIN Versions \cup {Broken, None}, decision : Answers, at : Nat, sink : Nat]

Early == {"start", "reading", "read", "loaded"}

\* The receipt of a call that every sink up to sink has, and no sink contradicts.
RecordedUpTo(c, sink) ==
  /\ \A s \in 1 .. sink :
       [call |-> c, sink |-> s, version |-> calls[c].version, decision |-> calls[c].decision]
         \in receipts
  /\ \A r \in receipts :
       r.call = c => r.decision = calls[c].decision /\ r.version = calls[c].version

AllowedWhenDecided(call) == enforceDecision(call.version, call.visit, call.at).decision = "allow"

LetPass(call) ==
  \/ Config[call.site].failOpen /\ call.version = Broken
  \/ call.version # Broken /\ Bypassed(Config[call.site], call.visit)
       /\ ~AsksForPolicy(Config[call.site], call.visit)

CallInv(c) ==
  /\ calls[c].pc # "start" => calls[c].site \in Sites /\ calls[c].visit \in Visits
  /\ calls[c].pc \in Early => calls[c].sink = 0 /\ \A r \in receipts : r.call # c
  /\ calls[c].pc = "read" => calls[c].version \in DOMAIN Versions \cup {Broken}
  /\ calls[c].pc = "loaded" => calls[c].version \in DOMAIN Versions \ {Broken}
  /\ calls[c].pc = "record" =>
       /\ calls[c].sink \in 0 .. Config[calls[c].site].sinks
       /\ calls[c].decision = "allow" => AllowedWhenDecided(calls[c])
       /\ RecordedUpTo(c, calls[c].sink)
  /\ calls[c].pc = "served" =>
       \/ LetPass(calls[c])
       \/ /\ calls[c].decision = "allow" /\ AllowedWhenDecided(calls[c])
          /\ RecordedUpTo(c, Config[calls[c].site].sinks)

GatewayInv ==
  /\ calls \in [Calls -> Knowledge]
  /\ cached \in [Sites -> (DOMAIN Versions \ {Broken}) \cup {None}]
  /\ file \in DOMAIN Versions \cup {Broken} /\ moment \in Nat
  /\ \A c \in Calls : CallInv(c)

\* What holds of a call is not disturbed by what is written of others.
LEMMA OthersKeep ==
  ASSUME GatewayInv, NEW c \in Calls, calls'[c] = calls[c],
         receipts \subseteq receipts', \A r \in receipts' \ receipts : r.call # c
  PROVE  CallInv(c)'
  BY DEF GatewayInv, CallInv, RecordedUpTo

\* A call that moves on keeps the invariant if what it is then is right.
LEMMA MovesOn ==
  ASSUME GatewayInv, NEW c \in Calls, NEW next \in Knowledge, calls' = [calls EXCEPT ![c] = next],
         cached' \in [Sites -> (DOMAIN Versions \ {Broken}) \cup {None}],
         receipts \subseteq receipts', \A r \in receipts' \ receipts : r.call = c,
         UNCHANGED <<file, moment>>, CallInv(c)'
  PROVE  GatewayInv'
<1>1. \A d \in Calls : CallInv(d)'
  <2> TAKE d \in Calls
  <2>1. CASE d = c
    BY <2>1
  <2>2. CASE d # c
    BY <2>2, OthersKeep DEF GatewayInv
  <2> QED
    BY <2>1, <2>2
<1>2. calls' \in [Calls -> Knowledge]
  BY DEF GatewayInv
<1> QED
  BY <1>1, <1>2 DEF GatewayInv

LEMMA LoadInv ==
  ASSUME GatewayInv, NEW c \in Calls, loadPolicy(c)
  PROVE  GatewayInv'
<1>1. PICK site \in Sites, visit \in Visits :
        LET given == Config[site].given
            Becomes(pc, version) == calls' = [calls EXCEPT ![c] = Known(site, visit, pc, version)]
        IN  \/ cached[site] # None /\ Becomes("loaded", cached[site]) /\ UNCHANGED cached
            \/ /\ cached[site] = None /\ given \notin {None, Broken}
               /\ Becomes("loaded", given)
               /\ cached' = [cached EXCEPT ![site] = given]
            \/ /\ cached[site] = None /\ given \in {None, Broken}
               /\ Becomes(IF given = None THEN "reading" ELSE "read", given)
               /\ UNCHANGED cached
  BY DEF loadPolicy
<1>2. Config[site].given \in DOMAIN Versions \cup {Broken, None}
  BY GatewayAssumption DEF GatewayAssumption
<1>3. PICK pc \in {"reading", "read", "loaded"}, version \in DOMAIN Versions \cup {Broken, None} :
        /\ pc = "read" => version = Broken
        /\ pc = "loaded" => version \in DOMAIN Versions \ {Broken}
        /\ calls' = [calls EXCEPT ![c] = Known(site, visit, pc, version)]
  <2>1. cached[site] \in (DOMAIN Versions \ {Broken}) \cup {None}
    BY DEF GatewayInv
  <2> QED
    BY <1>1, <1>2, <2>1
<1> DEFINE next == Known(site, visit, pc, version)
<1>4. cached' \in [Sites -> (DOMAIN Versions \ {Broken}) \cup {None}]
  BY <1>1, <1>2 DEF GatewayInv
<1>5. UNCHANGED <<receipts, file, moment>> /\ \A r \in receipts : r.call # c
  BY DEF loadPolicy, At, GatewayInv, CallInv, Early
<1>6. calls'[c] = next /\ next \in Knowledge
  BY <1>3 DEF GatewayInv, Known, Knowledge, Points, Answers
<1>7. CallInv(c)'
  BY <1>3, <1>5, <1>6 DEF CallInv, Known
<1> QED
  BY <1>3, <1>4, <1>5, <1>6, <1>7, MovesOn

\* What a step to another point changes of what a call knows, and what not.
LEMMA PointChanges ==
  ASSUME NEW x \in Knowledge, NEW pc \in Points, NEW y, y = [x EXCEPT !.pc = pc]
  PROVE  /\ y \in Knowledge /\ y.pc = pc /\ y.site = x.site /\ y.visit = x.visit
         /\ y.version = x.version /\ y.decision = x.decision /\ y.at = x.at /\ y.sink = x.sink
  BY DEF Knowledge

LEMMA ReadInv ==
  ASSUME GatewayInv, NEW c \in Calls, readFile(c)
  PROVE  GatewayInv'
<1> DEFINE next == [calls[c] EXCEPT !.pc = "read", !.version = file]
<1>1. calls[c] \in Knowledge /\ calls' = [calls EXCEPT ![c] = next]
  BY DEF readFile, GatewayInv
<1>2. /\ next \in Knowledge /\ next.pc = "read" /\ next.site = calls[c].site
      /\ next.visit = calls[c].visit /\ next.version \in DOMAIN Versions \cup {Broken}
      /\ next.sink = calls[c].sink
  BY <1>1 DEF GatewayInv, Knowledge, Points
<1> HIDE DEF next
<1>3. calls'[c] = next
  BY <1>1 DEF GatewayInv
<1>4. /\ UNCHANGED <<cached, receipts, file, moment>>
      /\ calls[c].sink = 0 /\ \A r \in receipts : r.call # c
  BY DEF readFile, At, GatewayInv, CallInv, Early
<1>5. calls[c].site \in Sites /\ calls[c].visit \in Visits
  BY DEF readFile, At, GatewayInv, CallInv
<1>6. CallInv(c)'
  BY <1>2, <1>3, <1>4, <1>5 DEF CallInv
<1> QED
  BY <1>1, <1>2, <1>4, <1>6, MovesOn DEF GatewayInv

LEMMA EarlyInv ==
  ASSUME GatewayInv, NEW c \in Calls, FillCache(c) \/ PolicyUnavailable(c) \/ BypassPolicy(c)
  PROVE  GatewayInv'
<1>1. calls[c] \in Knowledge /\ calls[c].site \in Sites /\ calls[c].visit \in Visits
  BY DEF FillCache, PolicyUnavailable, BypassPolicy, At, GatewayInv, CallInv
<1>2. /\ UNCHANGED <<receipts, file, moment>>
      /\ calls[c].sink = 0 /\ \A r \in receipts : r.call # c
  BY DEF FillCache, PolicyUnavailable, BypassPolicy, At, GatewayInv, CallInv, Early
<1>3. PICK pc \in Points :
        /\ calls' = [calls EXCEPT ![c] = [calls[c] EXCEPT !.pc = pc]]
        /\ \/ pc = "loaded" /\ calls[c].version \in DOMAIN Versions \ {Broken}
           \/ pc = "answered"
           \/ pc = "served" /\ LetPass(calls[c])
  <2>1. CASE FillCache(c)
    <3>1. calls[c].version \in DOMAIN Versions \ {Broken}
      BY <1>1, <2>1 DEF FillCache, At, GatewayInv, CallInv
    <3> QED
      BY <2>1, <3>1 DEF FillCache, To, GatewayInv, Points
  <2>2. CASE PolicyUnavailable(c)
    BY <1>1, <2>2 DEF PolicyUnavailable, To, GatewayInv, LetPass, Points
  <2>3. CASE BypassPolicy(c)
    BY <1>1, <2>3 DEF BypassPolicy, At, To, GatewayInv, CallInv, LetPass, Points
  <2> QED
    BY <2>1, <2>2, <2>3
<1>4. cached' \in [Sites -> (DOMAIN Versions \ {Broken}) \cup {None}]
  BY <1>1 DEF FillCache, PolicyUnavailable, BypassPolicy, GatewayInv, Knowledge
<1>5. CallInv(c)'
  BY <1>1, <1>2, <1>3, PointChanges DEF GatewayInv, CallInv, LetPass, Early
<1> QED
  BY <1>1, <1>2, <1>3, <1>4, <1>5, PointChanges, MovesOn

LEMMA EnforceInv ==
  ASSUME GatewayInv, NEW c \in Calls, enforceAgentAccess(c)
  PROVE  GatewayInv'
<1> DEFINE x == calls[c]
           decided == enforceDecision(x.version, x.visit, moment)
           final == finalDecision(x.version, x.visit, decided)
           next == [x EXCEPT !.pc = "record", !.at = moment, !.decision = final]
<1>1. /\ x \in Knowledge /\ x.site \in Sites /\ x.visit \in Visits
      /\ x.version \in DOMAIN Versions \ {Broken} /\ moment \in Nat
  BY DEF enforceAgentAccess, At, GatewayInv, CallInv
<1>2. calls' = [calls EXCEPT ![c] = next]
  BY <1>1 DEF enforceAgentAccess, GatewayInv
<1>3. /\ UNCHANGED <<cached, receipts, file, moment>>
      /\ x.sink = 0 /\ \A r \in receipts : r.call # c
  BY DEF enforceAgentAccess, At, GatewayInv, CallInv, Early
<1>4. final \in Answers /\ (final = "allow" => decided.decision = "allow")
  BY <1>1 DEF finalDecision, Answers, Decisions
<1> HIDE DEF final
<1>5. /\ next \in Knowledge /\ next.pc = "record" /\ next.at = moment /\ next.decision = final
      /\ next.site = x.site /\ next.visit = x.visit /\ next.version = x.version
      /\ next.sink = x.sink
  BY <1>1, <1>4 DEF Knowledge, Points
<1>6. next.sink = 0
  BY <1>3, <1>5
<1> HIDE DEF next
<1>7. calls'[c] = next
  BY <1>2 DEF GatewayInv
<1>8. final = "allow" => AllowedWhenDecided(next)
  BY <1>4, <1>5 DEF AllowedWhenDecided
<1>9. 0 \in 0 .. Config[next.site].sinks
  BY <1>1, <1>5, GatewayAssumption DEF GatewayAssumption
<1>10. RecordedUpTo(c, 0)'
  BY <1>3, <1>7 DEF RecordedUpTo
<1>11. CallInv(c)'
  BY <1>1, <1>5, <1>6, <1>7, <1>8, <1>9, <1>10 DEF CallInv, Early
<1> QED
  BY <1>2, <1>3, <1>5, <1>11, MovesOn DEF GatewayInv

LEMMA AppendInv ==
  ASSUME GatewayInv, NEW c \in Calls, appendReceipt(c)
  PROVE  GatewayInv'
<1> DEFINE x == calls[c]
           next == [x EXCEPT !.sink = @ + 1]
           receipt == [call |-> c, sink |-> x.sink + 1, version |-> x.version,
                       decision |-> x.decision]
<1>1. /\ x \in Knowledge /\ x.site \in Sites /\ x.visit \in Visits /\ x.pc = "record"
      /\ x.sink \in 0 .. Config[x.site].sinks /\ x.sink < Config[x.site].sinks
      /\ x.decision = "allow" => AllowedWhenDecided(x)
      /\ RecordedUpTo(c, x.sink)
  BY DEF appendReceipt, At, GatewayInv, CallInv
<1>2. calls' = [calls EXCEPT ![c] = next] /\ receipts' = receipts \cup {receipt}
  BY <1>1 DEF appendReceipt, GatewayInv
<1>3. UNCHANGED <<cached, file, moment>>
  BY DEF appendReceipt
<1>4. /\ next \in Knowledge /\ next.pc = x.pc /\ next.site = x.site /\ next.visit = x.visit
      /\ next.version = x.version /\ next.decision = x.decision /\ next.at = x.at
      /\ next.sink = x.sink + 1
  BY <1>1 DEF Knowledge
<1> HIDE DEF next
<1>5. calls'[c] = next
  BY <1>2 DEF GatewayInv
<1>6. x.sink + 1 \in 0 .. Config[x.site].sinks
  BY <1>1, GatewayAssumption DEF GatewayAssumption
<1>7. x.decision = "allow" => AllowedWhenDecided(next)
  BY <1>1, <1>4 DEF AllowedWhenDecided
<1>8. PICK n : n = x.sink + 1
  OBVIOUS
<1>9. RecordedUpTo(c, n)'
  <2>1. ASSUME NEW s \in 1 .. x.sink + 1
        PROVE  [call |-> c, sink |-> s, version |-> x.version, decision |-> x.decision]
                 \in receipts'
    <3>1. s \in 1 .. x.sink \/ s = x.sink + 1
      BY <1>1, <2>1
    <3> QED
      BY <1>1, <1>2, <3>1 DEF RecordedUpTo
  <2>2. \A r \in receipts' : r.call = c => r.decision = x.decision /\ r.version = x.version
    BY <1>1, <1>2 DEF RecordedUpTo
  <2> QED
    BY <1>4, <1>5, <1>8, <2>1, <2>2 DEF RecordedUpTo
<1>10. CallInv(c)'
  <2>1. next.sink \in 0 .. Config[next.site].sinks /\ next.pc = "record"
    BY <1>1, <1>4, <1>6
  <2>2. next.decision = "allow" => AllowedWhenDecided(next)
    BY <1>4, <1>7
  <2>3. RecordedUpTo(c, calls[c].sink)'
    BY <1>4, <1>5, <1>8, <1>9 DEF RecordedUpTo
  <2> QED
    BY <1>1, <1>4, <1>5, <2>1, <2>2, <2>3 DEF CallInv, Early
<1>11. receipts \subseteq receipts' /\ \A r \in receipts' \ receipts : r.call = c
  BY <1>2
<1> QED
  BY <1>2, <1>3, <1>4, <1>10, <1>11, MovesOn DEF GatewayInv

LEMMA AnswerInv ==
  ASSUME GatewayInv, NEW c \in Calls, AppendFails(c) \/ Respond(c)
  PROVE  GatewayInv'
<1> DEFINE x == calls[c]
<1>1. /\ x \in Knowledge /\ x.site \in Sites /\ x.visit \in Visits
      /\ x.decision = "allow" => AllowedWhenDecided(x)
      /\ RecordedUpTo(c, x.sink)
  BY DEF AppendFails, Respond, At, GatewayInv, CallInv
<1>2. PICK pc \in Points :
        /\ calls' = [calls EXCEPT ![c] = [x EXCEPT !.pc = pc]]
        /\ \/ pc = "answered"
           \/ pc = "served" /\ x.decision = "allow" /\ x.sink = Config[x.site].sinks
  BY <1>1 DEF AppendFails, Respond, To, GatewayInv, Points
<1>3. UNCHANGED <<cached, receipts, file, moment>>
  BY DEF AppendFails, Respond
<1> DEFINE next == [x EXCEPT !.pc = pc]
<1>4. /\ next \in Knowledge /\ next.pc = pc /\ next.site = x.site /\ next.visit = x.visit
      /\ next.version = x.version /\ next.decision = x.decision /\ next.at = x.at
      /\ next.sink = x.sink
  BY <1>1, PointChanges
<1>5. calls'[c] = next
  BY <1>2, <1>4 DEF GatewayInv
<1>6. x.decision = "allow" => AllowedWhenDecided(next)
  BY <1>1, <1>4 DEF AllowedWhenDecided
<1>7. RecordedUpTo(c, x.sink)'
  BY <1>1, <1>3, <1>4, <1>5 DEF RecordedUpTo
<1>8. CallInv(c)'
  BY <1>1, <1>2, <1>4, <1>5, <1>6, <1>7 DEF CallInv, Early
<1> QED
  BY <1>2, <1>3, <1>4, <1>8, MovesOn DEF GatewayInv

LEMMA GatewayStart == GatewayInit => GatewayInv
<1> SUFFICES ASSUME GatewayInit
             PROVE  GatewayInv
  OBVIOUS
<1>1. Start \in Knowledge /\ Start.pc = "start" /\ Start.sink = 0
  <2>1. None \in Answers
    BY Zenon DEF Answers
  <2> QED
    BY <2>1 DEF Start, Known, Knowledge, Points
<1>2. \A c \in Calls : calls[c] = Start
  BY DEF GatewayInit
<1>3. calls \in [Calls -> Knowledge]
  BY <1>1 DEF GatewayInit
<1>4. \A c \in Calls : CallInv(c)
  BY <1>1, <1>2 DEF GatewayInit, CallInv
<1> QED
  BY <1>3, <1>4 DEF GatewayInit, GatewayInv

LEMMA GatewayStep == GatewayInv /\ [GatewayNext]_gatewayVars => GatewayInv'
<1> SUFFICES ASSUME GatewayInv, [GatewayNext]_gatewayVars
             PROVE  GatewayInv'
  OBVIOUS
<1>1. ASSUME NEW c \in Calls,
             \/ loadPolicy(c) \/ readFile(c) \/ FillCache(c) \/ PolicyUnavailable(c)
             \/ BypassPolicy(c) \/ enforceAgentAccess(c)
             \/ appendReceipt(c) \/ AppendFails(c) \/ Respond(c)
      PROVE  GatewayInv'
  BY <1>1, LoadInv, ReadInv, EarlyInv, EnforceInv, AppendInv, AnswerInv
<1>2. ASSUME UNCHANGED <<cached, calls, receipts>>, moment' \in Nat,
             file' \in DOMAIN Versions \cup {Broken}
      PROVE  GatewayInv'
  <2>1. \A c \in Calls : CallInv(c)'
    BY <1>2, OthersKeep DEF GatewayInv
  <2> QED
    BY <1>2, <2>1 DEF GatewayInv
<1>3. CASE WriteFile \/ MomentPasses \/ UNCHANGED gatewayVars
  BY <1>2, <1>3 DEF WriteFile, MomentPasses, gatewayVars, GatewayInv
<1> QED
  BY <1>1, <1>3 DEF GatewayNext

LEMMA ServedFollows == GatewayInv => ServedIsRecorded
<1> SUFFICES ASSUME GatewayInv, NEW c \in Calls, calls[c].pc = "served"
             PROVE  LET call == calls[c]
                        config == Config[call.site]
                    IN  \/ config.failOpen /\ call.version = Broken
                        \/ /\ call.version # Broken
                           /\ \/ /\ config.protected # {}
                                 /\ \A p \in config.protected : call.visit.request.path \notin p
                              \/ config.humanFallback /\ call.visit.request.agent = None
                        \/ /\ enforceDecision(call.version, call.visit, call.at).decision = "allow"
                           /\ \A sink \in 1 .. config.sinks :
                                [call |-> c, sink |-> sink, version |-> call.version,
                                 decision |-> "allow"] \in receipts
                           /\ \A r \in ReceiptsOf(c) : r.decision = "allow" /\ r.version = call.version
  BY DEF ServedIsRecorded, At
<1>1. CASE LetPass(calls[c])
  BY <1>1, Zenon DEF LetPass, Bypassed, isProtectedPath
<1>2. CASE /\ calls[c].decision = "allow" /\ AllowedWhenDecided(calls[c])
           /\ RecordedUpTo(c, Config[calls[c].site].sinks)
  BY <1>2 DEF AllowedWhenDecided, RecordedUpTo, ReceiptsOf
<1> QED
  BY <1>1, <1>2 DEF GatewayInv, CallInv

\* A handler behind any of the adapters runs only for a reason: a policy that could
\* not be had and a site that fails open, a path or a person that the site lets pass,
\* or an allowance of the policy the call had, in the books of every sink.
THEOREM ServedForAReason == GatewaySpec => []ServedIsRecorded
  BY GatewayStart, GatewayStep, ServedFollows, PTL DEF GatewaySpec

-----------------------------------------------------------------------------
(* Together *)

\* The machines together do what each does on its own.
LEMMA EachMoves == AuthoritySpec => MandatesSpec /\ SignedAccessSpec /\ SignedPolicySpec /\ GatewaySpec
<1>1. AuthorityInit => MandatesInit /\ SignedAccessInit /\ SignedPolicyInit /\ GatewayInit
  BY DEF AuthorityInit
<1>2. ASSUME [AuthorityNext]_<<mandateVars, signedVars, signedPolicyVars, gatewayVars>>
      PROVE  /\ [MandatesNext]_mandateVars /\ [SignedAccessNext]_signedVars
             /\ [SignedPolicyNext]_signedPolicyVars /\ [GatewayNext]_gatewayVars
  BY <1>2, Zenon DEF AuthorityNext
<1> QED
  BY <1>1, <1>2, PTL
     DEF AuthoritySpec, MandatesSpec, SignedAccessSpec, SignedPolicySpec, GatewaySpec

\* What verifies was signed: the requests that are served and the policies that are
\* accepted.
THEOREM VerifiedIsSigned == AuthoritySpec => []VerifiedWasSigned
  BY EachMoves, OnlySignedRequests, OnlySignedPolicies, PTL DEF VerifiedWasSigned

\* The guarantees of all the machines hold where they stand side by side.
THEOREM AuthorityIsSafe ==
  AuthoritySpec => [](RanWasDelegated /\ VerifiedWasSigned /\ ServedIsRecorded) /\ FirstMandateRules
  BY EachMoves, OnlyDelegatedRuns, FirstMandateForever, ServedForAReason, VerifiedIsSigned, PTL
=============================================================================
