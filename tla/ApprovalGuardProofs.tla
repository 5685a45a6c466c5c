------------------------ MODULE ApprovalGuardProofs ------------------------
(***************************************************************************)
(* What the approval guard guarantees for any number of calls, any         *)
(* repository and any clock.                                               *)
(***************************************************************************)
EXTENDS ApprovalGuard, TLAPS

-----------------------------------------------------------------------------
\* Types.

\* A record built from typed parts is a record.
LEMMA RecordTyped ==
  ASSUME NEW type \in RecordTypes, NEW a \in Actions \cup {{}}, NEW pk \in Packets,
         NEW t \in Approvals \cup {None}, NEW e \in Nat
  PROVE  Record(type, a, pk, t, e) \in Records
  BY DEF Record, Records

\* The initial values have their types.
LEMMA InitTyped == Init => TypeOK
<1> SUFFICES ASSUME Init PROVE TypeOK
  OBVIOUS
<1>1. EmptyPacket \in Packets
  BY DEF EmptyPacket, Packets
<1>2. NoRecord \in Records
  BY <1>1, RecordTyped DEF NoRecord, RecordTypes
<1>3. [action |-> {}, form |-> "absent", token |-> None, ttl |-> 0, active |-> FALSE] \in Args
  BY DEF Args, TokenForms
<1>4. ledger \in Seq(Records)
  BY DEF Init
<1> QED
  BY <1>1, <1>2, <1>3, <1>4 DEF Init, TypeOK, FreezeContents, Places, Results

\* A call that begins with typed arguments keeps the types.
LEMMA BeginTyped ==
  ASSUME TypeOK, NEW c \in Calls, NEW a \in Args, Begin(c, a)
  PROVE  TypeOK'
  BY DEF TypeOK, Begin, Goto, repoVars, Places

\* Each step keeps them.
LEMMA NextTyped == TypeOK /\ [Next]_vars => TypeOK'
<1> SUFFICES ASSUME TypeOK, [Next]_vars PROVE TypeOK'
  OBVIOUS
<1> USE DEF TypeOK
<1>1. ASSUME NEW c \in Calls, Start(c) PROVE TypeOK'
  <2>1. CASE CreateApprovalToken(c)
    <3>1. PICK a \in Actions, ttl \in TTLs :
            Begin(c, [arg[c] EXCEPT !.action = a, !.ttl = ttl])
      BY <2>1 DEF CreateApprovalToken
    <3>2. [arg[c] EXCEPT !.action = a, !.ttl = ttl] \in Args
      BY ZenonT(40) DEF Args
    <3> QED
      BY <3>1, <3>2, BeginTyped
  <2>2. CASE GuardAction(c)
    <3>1. ASSUME NEW a \in Actions, NEW form \in TokenForms,
                 Begin(c, [arg[c] EXCEPT !.action = a, !.form = form])
          PROVE  TypeOK'
      <4>1. [arg[c] EXCEPT !.action = a, !.form = form] \in Args
        BY ZenonT(40) DEF Args
      <4> QED
        BY <3>1, <4>1, BeginTyped
    <3>2. ASSUME NEW a \in Actions, NEW form \in TokenForms, NEW t \in Approvals,
                 Begin(c, [arg[c] EXCEPT !.action = a, !.form = form, !.token = t])
          PROVE  TypeOK'
      <4>1. [arg[c] EXCEPT !.action = a, !.form = form, !.token = t] \in Args
        BY ZenonT(40) DEF Args
      <4> QED
        BY <3>2, <4>1, BeginTyped
    <3>3. {"absent", "malformed", "forged", "genuine"} \subseteq TokenForms
      BY DEF TokenForms
    <3> QED
      BY <2>2, <3>1, <3>2, <3>3 DEF GuardAction
  <2>3. CASE SetFreezeState(c)
    <3>1. PICK active \in BOOLEAN : Begin(c, [arg[c] EXCEPT !.active = active])
      BY <2>3 DEF SetFreezeState
    <3>2. arg[c] \in Args
      OBVIOUS
    <3>3. [arg[c] EXCEPT !.active = active] \in Args
      BY <3>2 DEF Args
    <3> QED
      BY <3>1, <3>3, BeginTyped
  <2>4. CASE RefuseText(c)
    BY <2>4 DEF RefuseText, Return, Goto, repoVars, history, Places, Results
  <2> QED
    BY <1>1, <2>1, <2>2, <2>3, <2>4 DEF Start
<1>2. ASSUME NEW c \in Calls, Step(c) PROVE TypeOK'
  <2>1. CASE ReadBranch(c)
    BY <2>1 DEF ReadBranch, Goto, repoVars, history, Packets, Places
  <2>2. CASE ReadHead(c)
    BY <2>2 DEF ReadHead, Goto, repoVars, history, Packets, Places
  <2>3. ASSUME ReadDiff(c) PROVE packet' \in [Calls -> Packets]
    BY ZenonT(40), <2>3 DEF ReadDiff, Packets
  <2>4. CASE MintToken(c)
    <3> packet' \in [Calls -> Packets]
      BY <2>3, <2>4 DEF MintToken
    <3>1. CASE arg[c].ttl \in 1..MaxTTL
      <4>1. arg[c].ttl \in Nat /\ arg[c].action \in Actions \cup {{}}
        <5>1. arg[c] \in Args /\ TTLs \cup {0} \subseteq Nat
          BY ValuesAssumption DEF ValuesAssumption
        <5> QED
          BY <5>1 DEF Args
      <4>2. Record("approval_created", arg[c].action, packet'[c], c, now + arg[c].ttl)
              \in Records
        <5>1. c \in Approvals \cup {None} /\ now + arg[c].ttl \in Nat /\ packet'[c] \in Packets
          BY <2>4, <4>1 DEF MintToken
        <5> QED
          BY <4>1, <5>1, RecordTyped DEF RecordTypes
      <4>3. pc' \in [Calls -> Places] /\ UNCHANGED result
        BY <2>4, <3>1 DEF MintToken, AppendNext, Goto, Places
      <4>4. entry' \in [Calls -> Records]
        BY <2>4, <3>1, <4>2 DEF MintToken, AppendNext
      <4> QED
        BY <2>4, <4>3, <4>4 DEF MintToken, ReadDiff, repoVars, history
    <3>2. CASE arg[c].ttl \notin 1..MaxTTL
      BY <2>4, <3>2
      DEF MintToken, ReadDiff, Return, Goto, repoVars, history, Places, Results
    <3> QED
      BY <3>1, <3>2
  <2>5. CASE GuardPacket(c)
    BY <2>3, <2>5 DEF GuardPacket, ReadDiff, Goto, repoVars, history, Places
  <2>6. CASE ReadFreeze(c)
    <3>1. Verdict(c) \in Results \cup {"redeem"}
      BY DEF Verdict, Results
    <3>2. pc' \in [Calls -> Places]
      BY <2>6 DEF ReadFreeze, Return, Goto, Places
    <3>3. result' \in [Calls -> Results]
      BY <2>6, <3>1 DEF ReadFreeze, Return, Results
    <3> QED
      BY <2>6, <3>2, <3>3 DEF ReadFreeze, repoVars, history
  <2>7. CASE Redeem(c)
    <3>1. \A r : Check(c, r) \in Results \cup {"claim"}
      BY DEF Check, Results
    <3>2. Record("approval_rejected", arg[c].action, packet[c], arg[c].token, 0) \in Records
      BY RecordTyped DEF RecordTypes, Args
    <3>3. CASE Return(c, "approval_token_not_found") /\ UNCHANGED entry
      BY <2>7, <3>3 DEF Redeem, Return, Goto, repoVars, history, Places, Results
    <3>4. CASE Goto(c, "claim") /\ UNCHANGED <<entry, result>>
      BY <2>7, <3>4 DEF Redeem, Goto, repoVars, history, Places
    <3>5. CASE /\ AppendNext(c, Record("approval_rejected", arg[c].action, packet[c],
                                       arg[c].token, 0))
               /\ UNCHANGED result
      BY <2>7, <3>2, <3>5 DEF Redeem, AppendNext, Goto, repoVars, history, Places
    <3>6. ASSUME NEW i \in 1..Len(ledger), Check(c, ledger[i]) # "claim",
                 Return(c, Check(c, ledger[i])), UNCHANGED entry
          PROVE  TypeOK'
      BY <2>7, <3>1, <3>6 DEF Redeem, Return, Goto, repoVars, history, Places
    <3>7. CASE Return(c, "failed") /\ UNCHANGED entry
      BY <2>7, <3>7 DEF Redeem, Return, Goto, repoVars, history, Places, Results
    <3> QED
      BY <2>7, <3>3, <3>4, <3>5, <3>6, <3>7 DEF Redeem
  <2>8. CASE ClaimTokenUse(c)
    <3>1. Record("approval_used", arg[c].action, packet[c], arg[c].token, 0) \in Records
      BY RecordTyped DEF RecordTypes, Args
    <3>2. marker' \in [Approvals -> Guards \cup {None}]
      BY <2>8 DEF ClaimTokenUse
    <3>3. pc' \in [Calls -> Places] /\ result' \in [Calls -> Results]
      BY <2>8 DEF ClaimTokenUse, AppendNext, Return, Goto, Places, Results
    <3>4. entry' \in [Calls -> Records]
      BY <2>8, <3>1 DEF ClaimTokenUse, AppendNext
    <3> QED
      BY <2>8, <3>2, <3>3, <3>4 DEF ClaimTokenUse, repoVars, history
  <2>9. CASE TruncateFreeze(c)
    BY <2>9 DEF TruncateFreeze, NoteThaw, Goto, repoVars, callVars, FreezeContents, Places
  <2>10. CASE FillFreeze(c)
    <3>1. Record(IF arg[c].active THEN "freeze_on" ELSE "freeze_off",
                 {}, packet[c], None, 0) \in Records
      BY RecordTyped DEF RecordTypes
    <3> QED
      BY <2>10, <3>1
      DEF FillFreeze, NoteThaw, AppendNext, Goto, repoVars, FreezeContents, Places
  <2>11. CASE Acquire(c)
    BY <2>11 DEF Acquire, Goto, repoVars, callVars, history, Places
  <2>12. CASE LockTimeout(c)
    BY <2>12 DEF LockTimeout, Return, Goto, repoVars, history, Places, Results
  <2>13. CASE ReadTail(c)
    <3>1. tail' \in [Calls -> Nat]
      <4>1. Len(ledger) \in Nat
        OBVIOUS
      <4> QED
        BY <2>13, <4>1 DEF ReadTail
    <3>2. pc' \in [Calls -> Places] /\ result' \in [Calls -> Results]
      BY <2>13 DEF ReadTail, Goto, Places, Results
    <3> QED
      BY <2>13, <3>1, <3>2 DEF ReadTail, repoVars, history
  <2>16. CASE WritePart(c)
    BY <2>16 DEF WritePart, Goto, repoVars, callVars, history, Places
  <2>14. CASE AppendRecord(c)
    <3>1. [entry[c] EXCEPT !.prev = tail[c]] \in Records
      BY DEF Records
    <3>2. Outcome(entry[c].type) \in Results
      BY DEF Outcome, Results
    <3>3. ledger' \in Seq(Records)
      <4>1. Append(ledger, [entry[c] EXCEPT !.prev = tail[c]]) \in Seq(Records)
        BY <3>1
      <4> QED
        BY <2>14, <4>1 DEF AppendRecord
    <3>4. /\ pc' \in [Calls -> Places] /\ result' \in [Calls -> Results]
          /\ torn' \in Calls \cup {None}
      BY <2>14, <3>2 DEF AppendRecord, Goto, Places, Results
    <3> QED
      BY <2>14, <3>3, <3>4 DEF AppendRecord, repoVars, history
  <2>15. CASE Release(c)
    BY <2>15 DEF Release, Goto, repoVars, callVars, history, Places
  <2> QED
    BY <1>2, <2>1, <2>2, <2>4, <2>5, <2>6, <2>7, <2>8, <2>9, <2>10, <2>11, <2>12,
       <2>13, <2>14, <2>15, <2>16 DEF Step
<1>3. ASSUME NEW c \in Calls, Crash(c) PROVE TypeOK'
  BY <1>3 DEF Crash, Goto, repoVars, callVars, history, Places
<1>4. CASE ChangeRepo
  BY <1>4 DEF ChangeRepo, callVars, history
<1>5. CASE Tick
  BY <1>5 DEF Tick, callVars, history
<1>6. CASE UNCHANGED vars
  BY <1>6 DEF vars
<1> QED
  BY <1>1, <1>2, <1>3, <1>4, <1>5, <1>6 DEF Next

\* The variables keep their types in every behaviour.
THEOREM TypeCorrect == Spec => []TypeOK
  BY InitTyped, NextTyped, PTL DEF Spec

-----------------------------------------------------------------------------
\* The lock and the hash chain.

\* Who is inside withLedgerLock holds the lock, what it has read there is still the
\* end of the ledger when it writes, and a torn line found then is its own.
LockInv ==
  /\ \A c \in Calls : pc[c] \in {"read", "write", "release"} => lock = c
  /\ \A c \in Calls : pc[c] = "write" => tail[c] = Len(ledger) /\ torn \in {None, c}
  /\ \A c \in Calls : torn = c =>
       tail[c] = Len(ledger) /\ pc[c] \in {"write", "release", "done", "crashed"}
  /\ Chained

\* With it the verification finds the chain whole or its end torn.
LEMMA LockChain == TypeOK /\ LockInv => ChainValid
  BY DEF TypeOK, LockInv, ChainValid, verifyApprovalLedger

\* A step of a call that has written nothing yet, or crashes, that leads anywhere but
\* inside the lock and leaves ledger and lock alone, keeps the lock invariant.
LEMMA OutsideLock ==
  ASSUME TypeOK, LockInv, NEW c \in Calls,
         NEW place \in Places \ {"read", "write", "release"}, Goto(c, place),
         place = "crashed" \/ pc[c] \notin {"write", "release", "done", "crashed"},
         UNCHANGED <<ledger, torn, lock, tail>>
  PROVE  LockInv'
  BY DEF TypeOK, LockInv, Goto, Chained

\* Each step keeps the lock invariant.
LEMMA NextLockInv == TypeOK /\ LockInv /\ [Next]_vars => LockInv'
<1> SUFFICES ASSUME TypeOK, LockInv, [Next]_vars PROVE LockInv'
  OBVIOUS
<1>1. ASSUME NEW c \in Calls, Start(c) \/ Crash(c) PROVE LockInv'
  <2>1. \E place \in {"branch", "done", "crashed"} :
          /\ Goto(c, place) /\ UNCHANGED <<ledger, torn, lock, tail>>
          /\ place = "crashed" \/ pc[c] = "idle"
    BY <1>1 DEF Start, Crash, CreateApprovalToken, GuardAction, SetFreezeState,
                RefuseText, Begin, Return, callVars
  <2> QED
    BY <2>1, OutsideLock DEF Places
<1>2. ASSUME NEW c \in Calls,
             \/ ReadBranch(c) \/ ReadHead(c) \/ MintToken(c) \/ GuardPacket(c)
             \/ ReadFreeze(c) \/ Redeem(c) \/ ClaimTokenUse(c)
             \/ TruncateFreeze(c) \/ FillFreeze(c) \/ LockTimeout(c)
      PROVE  LockInv'
  <2>1. \E place \in {"head", "truncate", "diff", "lock", "done", "freeze", "redeem",
                      "claim", "fill"} :
          /\ Goto(c, place) /\ UNCHANGED <<ledger, torn, lock, tail>>
          /\ pc[c] \notin {"write", "release", "done", "crashed"}
    BY <1>2 DEF ReadBranch, ReadHead, MintToken, GuardPacket, ReadDiff, ReadFreeze,
                Redeem, ClaimTokenUse, TruncateFreeze, FillFreeze, LockTimeout,
                Return, AppendNext, callVars
  <2> QED
    BY <2>1, OutsideLock DEF Places
<1>3. ASSUME NEW c \in Calls, Acquire(c) PROVE LockInv'
  \* Nobody else is inside: its lock would not be None.
  <2>1. \A d \in Calls : pc[d] \notin {"read", "write", "release"}
    BY <1>3, CallsAssumption DEF LockInv, Acquire, CallsAssumption
  <2> QED
    BY <1>3, <2>1 DEF TypeOK, LockInv, Acquire, Goto, callVars, Chained
<1>4. ASSUME NEW c \in Calls, ReadTail(c) PROVE LockInv'
  <2>1. /\ pc[c] = "read" /\ UNCHANGED <<ledger, torn, lock>>
        /\ \/ torn = None /\ Goto(c, "write") /\ tail' = [tail EXCEPT ![c] = Len(ledger)]
           \/ Goto(c, "release") /\ UNCHANGED tail
    BY <1>4 DEF ReadTail
  <2>2. \A d \in Calls : d # None
    BY CallsAssumption DEF CallsAssumption
  <2>3. CASE torn = None /\ Goto(c, "write") /\ tail' = [tail EXCEPT ![c] = Len(ledger)]
    <3>1. tail'[c] = Len(ledger) /\ \A d \in Calls : d # c => tail'[d] = tail[d] /\ pc'[d] = pc[d]
      BY <2>3 DEF TypeOK, Goto
    <3>2. pc'[c] = "write"
      BY <2>3 DEF TypeOK, Goto
    <3> QED
      BY <2>1, <2>2, <2>3, <3>1, <3>2 DEF LockInv, Chained
  <2>4. CASE Goto(c, "release") /\ UNCHANGED tail
    BY <2>1, <2>4 DEF TypeOK, LockInv, Goto, Chained
  <2> QED
    BY <2>1, <2>3, <2>4
<1>8. ASSUME NEW c \in Calls, WritePart(c) PROVE LockInv'
  <2>1. \A d \in Calls : d # c => pc[d] \notin {"read", "write", "release"}
    BY <1>8 DEF LockInv, WritePart
  <2> QED
    BY <1>8, <2>1 DEF TypeOK, LockInv, WritePart, Goto, callVars, Chained
<1>5. ASSUME NEW c \in Calls, AppendRecord(c) PROVE LockInv'
  <2>1. lock = c /\ tail[c] = Len(ledger) /\ torn \in {None, c}
    BY <1>5 DEF LockInv, AppendRecord
  \* Nobody else is about to write.
  <2>2. \A d \in Calls : d # c => pc[d] \notin {"read", "write", "release"}
    BY <2>1 DEF LockInv
  <2>3. Chained'
    <3>1. CASE UNCHANGED ledger
      BY <3>1 DEF LockInv, Chained
    <3>2. CASE ledger' = Append(ledger, [entry[c] EXCEPT !.prev = tail[c]])
      <4> DEFINE e == [entry[c] EXCEPT !.prev = tail[c]]
      <4>1. e.prev = Len(ledger) /\ e \in Records /\ ledger' = Append(ledger, e)
        BY <2>1, <3>2 DEF TypeOK, Records
      <4> HIDE DEF e
      <4>2. /\ Len(ledger') = Len(ledger) + 1
            /\ ledger'[Len(ledger) + 1] = e
            /\ \A i \in 1..Len(ledger) : ledger'[i] = ledger[i]
        BY <4>1 DEF TypeOK
      <4> QED
        BY <4>1, <4>2 DEF TypeOK, LockInv, Chained
    <3> QED
      BY <1>5, <3>1, <3>2 DEF AppendRecord
  <2>4. torn' = None \/ (UNCHANGED <<ledger, torn>>)
    BY <1>5, <2>1, CallsAssumption DEF AppendRecord, CallsAssumption
  <2>5. \A d \in Calls : d # None
    BY CallsAssumption DEF CallsAssumption
  <2>6. UNCHANGED <<lock, tail>> /\ pc' = [pc EXCEPT ![c] = "release"]
    BY <1>5 DEF AppendRecord, Goto
  <2> QED
    BY <2>1, <2>2, <2>3, <2>4, <2>5, <2>6 DEF TypeOK, LockInv
<1>6. ASSUME NEW c \in Calls, Release(c) PROVE LockInv'
  <2>1. lock = c /\ \A d \in Calls : d # c => pc[d] \notin {"read", "write", "release"}
    BY <1>6 DEF LockInv, Release
  <2> QED
    BY <1>6, <2>1 DEF TypeOK, LockInv, Release, Goto, callVars, Chained
<1>7. CASE ChangeRepo \/ Tick \/ UNCHANGED vars
  BY <1>7 DEF LockInv, ChangeRepo, Tick, vars, callVars, Chained
<1> QED
  BY <1>1, <1>2, <1>3, <1>4, <1>5, <1>6, <1>7, <1>8 DEF Next, Step

\* The lock invariant holds at first.
LEMMA InitLockInv == Init => LockInv
  BY CallsAssumption DEF Init, LockInv, Chained, CallsAssumption

\* Whatever runs at once, crashes or fails, the whole lines of the ledger are a chain,
\* and a line cut short, on which the verification throws, is the last there is.
THEOREM ChainAlwaysValid == Spec => []ChainValid
  BY LockChain, InitTyped, NextTyped, InitLockInv, NextLockInv, PTL DEF Spec

\* A crashed holder of the lock stops the ledger for good.
THEOREM DeadHolderStops == Spec => DeadHolderStopsLedger
<1>1. TypeOK /\ LockInv /\ [Next]_vars
        => [lock # None /\ pc[lock] = "crashed" => UNCHANGED <<ledger, torn, lock>>]_vars
  <2> SUFFICES ASSUME TypeOK, LockInv, [Next]_vars, lock # None, pc[lock] = "crashed"
               PROVE  UNCHANGED <<ledger, torn, lock>>
    OBVIOUS
  <2>1. \A c \in Calls : pc[c] \notin {"read", "write", "release"}
    BY DEF LockInv
  <2>2. ASSUME NEW c \in Calls, Start(c) \/ Crash(c) PROVE UNCHANGED <<ledger, torn, lock>>
    BY <2>2 DEF Start, Crash, CreateApprovalToken, GuardAction, SetFreezeState,
                RefuseText, Begin
  <2>3. ASSUME NEW c \in Calls, Step(c) PROVE UNCHANGED <<ledger, torn, lock>>
    BY <2>1, <2>3 DEF Step, ReadBranch, ReadHead, MintToken, GuardPacket, ReadDiff,
         ReadFreeze, Redeem, ClaimTokenUse, TruncateFreeze, FillFreeze, Acquire,
         LockTimeout, ReadTail, WritePart, AppendRecord, Release
  <2> QED
    BY <2>2, <2>3 DEF Next, ChangeRepo, Tick, vars
<1> QED
  BY <1>1, InitTyped, NextTyped, InitLockInv, NextLockInv, PTL DEF Spec, DeadHolderStopsLedger

-----------------------------------------------------------------------------
\* Tokens are used once.

Pending(c) == pc[c] \in {"lock", "read", "write"} /\ entry[c].type = "approval_used"

\* A token that reaches the redemption has an id.
TokenInv ==
  \A c \in Calls :
    /\ arg[c].form \in {"forged", "genuine"} => arg[c].token \in Approvals
    /\ pc[c] \in {"redeem", "claim"} => c \in Guards /\ arg[c].form \in {"forged", "genuine"}

\* At first no call holds a token.
LEMMA InitTokenInv == Init => TokenInv
  BY DEF Init, TokenInv

\* Each step keeps what calls carry.
LEMMA NextTokenInv == TypeOK /\ TokenInv /\ [Next]_vars => TokenInv'
<1> SUFFICES ASSUME TypeOK, TokenInv, [Next]_vars PROVE TokenInv'
  OBVIOUS
<1>1. ASSUME NEW c \in Calls, Start(c) PROVE TokenInv'
  <2>1. CASE RefuseText(c)
    BY <2>1 DEF TypeOK, TokenInv, RefuseText, Return, Goto
  <2>2. ASSUME NEW a \in Args, Begin(c, a),
               a.form \in {"forged", "genuine"} => a.token \in Approvals
        PROVE  TokenInv'
    BY <2>2 DEF TypeOK, TokenInv, Begin, Goto
  <2>3. arg[c] \in Args /\ arg[c].form \in TokenForms
    BY DEF TypeOK, Args
  <2>4. CASE CreateApprovalToken(c)
    <3>1. PICK a \in Actions, ttl \in TTLs :
            Begin(c, [arg[c] EXCEPT !.action = a, !.ttl = ttl])
      BY <2>4 DEF CreateApprovalToken
    <3>2. LET x == [arg[c] EXCEPT !.action = a, !.ttl = ttl]
          IN  x \in Args /\ x.form = arg[c].form /\ x.token = arg[c].token
      BY <2>3 DEF Args
    <3> QED
      BY <2>2, <3>1, <3>2 DEF TokenInv
  <2>5. CASE GuardAction(c)
    <3>1. ASSUME NEW a \in Actions, NEW form \in {"absent", "malformed"},
                 Begin(c, [arg[c] EXCEPT !.action = a, !.form = form])
          PROVE  TokenInv'
      <4>1. LET x == [arg[c] EXCEPT !.action = a, !.form = form]
            IN  x \in Args /\ x.form = form
        BY <2>3 DEF Args, TokenForms
      <4> QED
        BY <2>2, <3>1, <4>1
    <3>2. ASSUME NEW a \in Actions, NEW form \in {"forged", "genuine"}, NEW t \in Approvals,
                 Begin(c, [arg[c] EXCEPT !.action = a, !.form = form, !.token = t])
          PROVE  TokenInv'
      <4>1. LET x == [arg[c] EXCEPT !.action = a, !.form = form, !.token = t]
            IN  x \in Args /\ x.token = t
        BY <2>3 DEF Args, TokenForms
      <4> QED
        BY <2>2, <3>2, <4>1
    <3> QED
      BY <2>5, <3>1, <3>2 DEF GuardAction
  <2>6. CASE SetFreezeState(c)
    <3>1. PICK active \in BOOLEAN : Begin(c, [arg[c] EXCEPT !.active = active])
      BY <2>6 DEF SetFreezeState
    <3>2. LET x == [arg[c] EXCEPT !.active = active]
          IN  x \in Args /\ x.form = arg[c].form /\ x.token = arg[c].token
      BY <2>3 DEF Args
    <3> QED
      BY <2>2, <3>1, <3>2 DEF TokenInv
  <2> QED
    BY <1>1, <2>1, <2>4, <2>5, <2>6 DEF Start
<1>2. ASSUME NEW c \in Calls, ReadFreeze(c) PROVE TokenInv'
  <2>1. Verdict(c) = "redeem" => arg[c].form \in {"forged", "genuine"}
    BY DEF Verdict, TypeOK, Args, TokenForms
  <2>2. c \in Guards /\ UNCHANGED arg
    BY <1>2 DEF ReadFreeze
  <2>3. Goto(c, "done") \/ (Goto(c, "redeem") /\ Verdict(c) = "redeem")
    BY <1>2 DEF ReadFreeze, Return
  <2> QED
    BY <2>1, <2>2, <2>3 DEF TypeOK, TokenInv, Goto
<1>3. ASSUME NEW c \in Calls, Redeem(c) PROVE TokenInv'
  <2>1. c \in Guards /\ pc[c] = "redeem" /\ UNCHANGED arg
        /\ \E place \in {"done", "claim", "lock"} : Goto(c, place)
    BY <1>3 DEF Redeem, Return, AppendNext
  <2> QED
    BY <2>1 DEF TypeOK, TokenInv, Goto
<1>4. ASSUME NEW c \in Calls, Crash(c) \/ (Step(c) /\ ~ReadFreeze(c) /\ ~Redeem(c))
      PROVE  TokenInv'
  <2>1. UNCHANGED arg /\ \E place \in Places \ {"redeem", "claim"} : Goto(c, place)
    BY <1>4 DEF Step, Crash, ReadBranch, ReadHead, MintToken, GuardPacket, ReadDiff,
         ClaimTokenUse, TruncateFreeze, FillFreeze, Acquire, LockTimeout, ReadTail, WritePart,
         AppendRecord, Release, Return, AppendNext, callVars, Places
  <2> QED
    BY <2>1 DEF TypeOK, TokenInv, Goto
<1>5. CASE ChangeRepo \/ Tick \/ UNCHANGED vars
  BY <1>5 DEF TokenInv, ChangeRepo, Tick, vars, callVars
<1> QED
  BY <1>1, <1>2, <1>3, <1>4, <1>5 DEF Next

\* The marker of a token names the one call that may record its use, has recorded it,
\* or has been let through by it.
UseInv ==
  /\ \A c \in Calls : Pending(c) =>
       /\ c \in Guards /\ arg[c].token \in Approvals
       /\ entry[c].token = arg[c].token
       /\ marker[arg[c].token] = c
  /\ \A c \in Calls : Accepted(c) =>
       /\ c \in Guards /\ arg[c].token \in Approvals
       /\ pc[c] \in {"release", "done", "crashed"}
       /\ marker[arg[c].token] = c
  /\ \A i \in 1..Len(ledger), t \in Approvals :
       IsUsed(ledger[i], t) => marker[t] # None /\ pc[marker[t]] \in {"release", "done", "crashed"}
  /\ \A i, j \in 1..Len(ledger), t \in Approvals :
       IsUsed(ledger[i], t) /\ IsUsed(ledger[j], t) => i = j

\* At first nothing is claimed or recorded.
LEMMA InitUseInv == Init => UseInv
  BY DEF Init, UseInv, Pending, Accepted

\* A step that writes no record and no marker keeps the invariant if it starts no
\* record of a use, lets nobody through, and leaves alone who was let through.
LEMMA UseFrame ==
  ASSUME UseInv, UNCHANGED <<ledger, marker>>,
         \A d \in Calls : Pending(d)' => Pending(d) /\ arg'[d] = arg[d] /\ entry'[d] = entry[d],
         \A d \in Calls : Accepted(d)' <=> Accepted(d),
         \A d \in Calls : Accepted(d) => arg'[d] = arg[d],
         \A d \in Calls : pc[d] \in {"release", "done", "crashed"} =>
                          pc'[d] \in {"release", "done", "crashed"},
         marker \in [Approvals -> Guards \cup {None}]
  PROVE  UseInv'
  BY DEF UseInv, Pending, Accepted, IsUsed, Calls

\* What appending a record does to the ledger.
LEMMA Appended ==
  ASSUME TypeOK, NEW c \in Calls, AppendRecord(c), ledger' # ledger
  PROVE  /\ Len(ledger) \in Nat
         /\ Len(ledger') = Len(ledger) + 1
         /\ \A i \in 1..Len(ledger) : ledger'[i] = ledger[i]
         /\ ledger'[Len(ledger) + 1].type = entry[c].type
         /\ ledger'[Len(ledger) + 1].token = entry[c].token
         /\ ledger'[Len(ledger) + 1].action = entry[c].action
         /\ ledger'[Len(ledger) + 1].packet = entry[c].packet
         /\ \E r \in {Outcome(entry[c].type), "failed"} : result' = [result EXCEPT ![c] = r]
<1> DEFINE e == [entry[c] EXCEPT !.prev = tail[c]]
<1>0. entry[c] \in Records /\ tail[c] \in Nat
  BY DEF TypeOK
<1>3. ledger' = Append(ledger, e)
  BY DEF AppendRecord
<1>1. /\ e \in Records /\ ledger' = Append(ledger, e)
      /\ e.type = entry[c].type /\ e.token = entry[c].token
      /\ e.action = entry[c].action /\ e.packet = entry[c].packet
  BY <1>0, <1>3 DEF Records
<1>2. \E r \in {Outcome(entry[c].type), "failed"} : result' = [result EXCEPT ![c] = r]
  BY <1>3 DEF AppendRecord
<1> HIDE DEF e
<1>4. /\ Len(ledger) \in Nat /\ Len(ledger') = Len(ledger) + 1
      /\ \A i \in 1..Len(ledger) : ledger'[i] = ledger[i]
      /\ ledger'[Len(ledger) + 1] = e
  BY <1>1 DEF TypeOK
<1> QED
  BY <1>1, <1>2, <1>4

\* Each step keeps markers, records of use and calls in agreement.
LEMMA NextUseInv == TypeOK /\ TokenInv /\ UseInv /\ [Next]_vars => UseInv'
<1> SUFFICES ASSUME TypeOK, TokenInv, UseInv, [Next]_vars PROVE UseInv'
  OBVIOUS
<1>1. marker \in [Approvals -> Guards \cup {None}]
  BY DEF TypeOK
<1>2. ASSUME NEW c \in Calls, Start(c) PROVE UseInv'
  <2>1. /\ pc[c] = "idle" /\ UNCHANGED <<ledger, marker, entry>>
        /\ \E place \in {"branch", "done"} : Goto(c, place)
        /\ \/ UNCHANGED result
           \/ result' = [result EXCEPT ![c] = "failed"]
        /\ \/ UNCHANGED arg
           \/ \E a : arg' = [arg EXCEPT ![c] = a]
    BY <1>2 DEF Start, CreateApprovalToken, GuardAction, SetFreezeState, RefuseText,
                Begin, Return
  <2>2. ~Accepted(c)
    BY <2>1 DEF UseInv
  <2>3. PICK place \in {"branch", "done"} : pc' = [pc EXCEPT ![c] = place]
    BY <2>1 DEF Goto
  <2>4. \A d \in Calls : pc'[d] = IF d = c THEN place ELSE pc[d]
    BY <2>3 DEF TypeOK
  <2>5. \A d \in Calls : Accepted(d)' <=> Accepted(d)
    <3>1. UNCHANGED result \/ \A d \in Calls : result'[d] = IF d = c THEN "failed" ELSE result[d]
      BY <2>1 DEF TypeOK
    <3> QED
      BY <2>2, <3>1 DEF Accepted
  <2>6. \A d \in Calls : d # c => arg'[d] = arg[d]
    BY <2>1 DEF TypeOK
  <2>7. \A d \in Calls : Pending(d)' => Pending(d) /\ arg'[d] = arg[d] /\ entry'[d] = entry[d]
    BY <2>1, <2>4, <2>6 DEF Pending
  <2>8. \A d \in Calls : Accepted(d) => arg'[d] = arg[d]
    BY <2>2, <2>6
  <2>9. \A d \in Calls : pc[d] \in {"release", "done", "crashed"} =>
                           pc'[d] \in {"release", "done", "crashed"}
    BY <2>1, <2>4
  <2> QED
    BY <1>1, <2>1, <2>5, <2>7, <2>8, <2>9, UseFrame
<1>3. ASSUME NEW c \in Calls,
             \/ ReadBranch(c) \/ ReadHead(c) \/ GuardPacket(c) \/ TruncateFreeze(c)
             \/ Acquire(c) \/ WritePart(c) \/ Release(c) \/ Crash(c)
      PROVE  UseInv'
  <2>1. /\ UNCHANGED <<ledger, marker, arg, entry, result>>
        /\ \/ /\ pc[c] \notin {"release", "done", "crashed"}
              /\ \E place \in {"head", "truncate", "diff", "freeze", "fill"} : Goto(c, place)
           \/ pc[c] = "lock" /\ Goto(c, "read")
           \/ pc[c] = "write" /\ Goto(c, "write")
           \/ Goto(c, "done") \/ Goto(c, "crashed")
    BY <1>3 DEF ReadBranch, ReadHead, GuardPacket, ReadDiff, TruncateFreeze, Acquire,
                WritePart, Release, Crash, callVars
  <2>2. ~Accepted(c) \/ UNCHANGED result
    BY <2>1 DEF UseInv
  <2>3. \A d \in Calls : Pending(d)' => Pending(d) /\ arg'[d] = arg[d] /\ entry'[d] = entry[d]
    BY <2>1 DEF TypeOK, Pending, Goto
  <2>4. \A d \in Calls : Accepted(d)' <=> Accepted(d)
    BY <2>1, <2>2 DEF TypeOK, Accepted
  <2>5. \A d \in Calls : pc[d] \in {"release", "done", "crashed"} =>
                         pc'[d] \in {"release", "done", "crashed"}
    BY <2>1 DEF TypeOK, UseInv, Goto
  <2> QED
    BY <1>1, <2>1, <2>3, <2>4, <2>5, UseFrame
<1>4. ASSUME NEW c \in Calls, ReadFreeze(c) \/ LockTimeout(c) \/ ReadTail(c) PROVE UseInv'
  <2>1. Verdict(c) # "approval_token_accepted"
    BY DEF Verdict
  <2>2. /\ UNCHANGED <<ledger, marker, arg, entry>>
        /\ pc[c] \notin {"release", "done", "crashed"}
        /\ \/ Goto(c, "redeem") /\ UNCHANGED result
           \/ pc[c] = "read" /\ Goto(c, "write") /\ UNCHANGED result
           \/ \E r : /\ r # "approval_token_accepted" /\ (Goto(c, "done") \/ Goto(c, "release"))
                    /\ result' = [result EXCEPT ![c] = r]
    BY <1>4, <2>1 DEF ReadFreeze, LockTimeout, ReadTail, Return
  <2>3. ~Accepted(c) \/ UNCHANGED result
    BY <2>2 DEF UseInv
  <2>4. \A d \in Calls : Pending(d)' => Pending(d) /\ arg'[d] = arg[d] /\ entry'[d] = entry[d]
    BY <2>2 DEF TypeOK, Pending, Goto
  <2>5. \A d \in Calls : Accepted(d)' <=> Accepted(d)
    BY <2>2, <2>3 DEF TypeOK, Accepted
  <2>6. \A d \in Calls : pc[d] \in {"release", "done", "crashed"} =>
                         pc'[d] \in {"release", "done", "crashed"}
    BY <2>2 DEF TypeOK, UseInv, Goto
  <2> QED
    BY <1>1, <2>2, <2>4, <2>5, <2>6, UseFrame
<1>5. ASSUME NEW c \in Calls, MintToken(c) \/ Redeem(c) \/ FillFreeze(c) PROVE UseInv'
  <2>1. \A r : Check(c, r) # "approval_token_accepted"
    BY DEF Check
  <2>2. /\ UNCHANGED <<ledger, marker, arg>>
        /\ pc[c] \notin {"release", "done", "crashed"}
        /\ \/ Goto(c, "claim") /\ UNCHANGED <<entry, result>>
           \/ \E r : /\ r # "approval_token_accepted" /\ Goto(c, "done") /\ UNCHANGED entry
                    /\ result' = [result EXCEPT ![c] = r]
           \/ \E e : /\ e.type # "approval_used" /\ Goto(c, "lock") /\ UNCHANGED result
                    /\ entry' = [entry EXCEPT ![c] = e]
    BY <1>5, <2>1 DEF MintToken, ReadDiff, Redeem, FillFreeze, Return, AppendNext, Record
  <2>3. ~Accepted(c) \/ UNCHANGED result
    BY <2>2 DEF UseInv
  <2>4. \A d \in Calls : Pending(d)' => Pending(d) /\ arg'[d] = arg[d] /\ entry'[d] = entry[d]
    BY <2>2 DEF TypeOK, Pending, Goto
  <2>5. \A d \in Calls : Accepted(d)' <=> Accepted(d)
    BY <2>2, <2>3 DEF TypeOK, Accepted
  <2>6. \A d \in Calls : pc[d] \in {"release", "done", "crashed"} =>
                         pc'[d] \in {"release", "done", "crashed"}
    BY <2>2 DEF TypeOK, UseInv, Goto
  <2> QED
    BY <1>1, <2>2, <2>4, <2>5, <2>6, UseFrame
<1>6. ASSUME NEW c \in Calls, ClaimTokenUse(c) PROVE UseInv'
  <2>1. arg[c].token \in Approvals /\ c \in Guards /\ ~Accepted(c)
    BY <1>6 DEF ClaimTokenUse, TokenInv, UseInv
  <2>2. CASE Return(c, "approval_token_already_used") /\ UNCHANGED <<marker, entry>>
    BY <1>1, <1>6, <2>1, <2>2, UseFrame
    DEF ClaimTokenUse, Return, TypeOK, UseInv, Pending, Accepted, Goto
  <2>3. CASE /\ marker[arg[c].token] = None
             /\ marker' = [marker EXCEPT ![arg[c].token] = c]
             /\ AppendNext(c, Record("approval_used", arg[c].action, packet[c],
                                     arg[c].token, 0))
             /\ UNCHANGED <<ledger, arg, result>>
    <3>1. /\ pc'[c] = "lock" /\ entry'[c].token = arg[c].token
          /\ \A d \in Calls : d # c => pc'[d] = pc[d] /\ entry'[d] = entry[d]
      BY <2>3 DEF AppendNext, Goto, Record, TypeOK
    <3>2. /\ marker'[arg[c].token] = c
          /\ \A t \in Approvals : marker[t] # None => marker'[t] = marker[t]
      BY <2>1, <2>3 DEF TypeOK
    <3>3. \A d \in Calls : d # None
      BY CallsAssumption DEF CallsAssumption
    <3>4. \A t \in Approvals : marker[t] # None => marker[t] \in Calls
      BY <1>1 DEF Calls
    <3>5. pc[c] = "claim"
      BY <1>6 DEF ClaimTokenUse
    <3>6. \A d \in Calls : pc[d] \in {"release", "done", "crashed"} => pc'[d] = pc[d]
      BY <3>1, <3>5
    <3> QED
      BY <2>1, <2>3, <3>1, <3>2, <3>3, <3>4, <3>6 DEF UseInv, Pending, Accepted, IsUsed
  <2> QED
    BY <1>6, <2>2, <2>3 DEF ClaimTokenUse
<1>7. ASSUME NEW c \in Calls, AppendRecord(c) PROVE UseInv'
  <2>1. /\ UNCHANGED <<marker, arg, entry>> /\ pc[c] = "write" /\ ~Accepted(c)
        /\ pc' = [pc EXCEPT ![c] = "release"]
    BY <1>7 DEF AppendRecord, Goto, UseInv
  <2>2. CASE ledger' = ledger
    <3>1. \/ result' = [result EXCEPT ![c] = "failed"]
      BY <1>7, <2>2 DEF AppendRecord, TypeOK
    <3> QED
      BY <1>1, <2>1, <2>2, <3>1, UseFrame DEF TypeOK, UseInv, Pending, Accepted
  <2>3. CASE ledger' # ledger /\ entry[c].type # "approval_used"
    <3>1. Outcome(entry[c].type) # "approval_token_accepted"
      BY <2>3 DEF Outcome, TypeOK, Records, RecordTypes
    <3>2. \E r \in {Outcome(entry[c].type), "failed"} : result' = [result EXCEPT ![c] = r]
      BY <1>7, <2>3, Appended
    <3>3. \A d \in Calls : Accepted(d)' <=> Accepted(d)
      BY <2>1, <3>1, <3>2 DEF TypeOK, Accepted
    <3>4. \A d \in Calls : Pending(d)' => Pending(d)
      BY <2>1 DEF TypeOK, Pending
    <3>5. \A d \in Calls : pc[d] \in {"release", "done", "crashed"} =>
                         pc'[d] \in {"release", "done", "crashed"}
      BY <2>1 DEF TypeOK, UseInv
    <3>6. \A i \in 1..Len(ledger'), t \in Approvals :
            IsUsed(ledger'[i], t) => i \in 1..Len(ledger) /\ IsUsed(ledger[i], t)
      BY <1>7, <2>3, Appended DEF IsUsed
    <3>7. \A t \in Approvals : marker[t] # None => marker[t] \in Calls
      BY <1>1 DEF Calls
    <3> QED
      BY <2>1, <3>3, <3>4, <3>5, <3>6, <3>7 DEF UseInv
  <2>4. CASE ledger' # ledger /\ entry[c].type = "approval_used"
    <3>1. \E r : result' = [result EXCEPT ![c] = r]
      BY <1>7, <2>4, Appended
    <3>2. /\ Pending(c) /\ c \in Guards /\ arg[c].token \in Approvals
          /\ entry[c].token = arg[c].token /\ marker[arg[c].token] = c
      BY <2>1, <2>4 DEF Pending, UseInv
    <3>3. \A i \in 1..Len(ledger) : ~IsUsed(ledger[i], arg[c].token)
      BY <2>1, <3>2 DEF UseInv
    <3>4. \A d \in Calls : Accepted(d)' => Accepted(d) \/ d = c
      BY <3>1 DEF TypeOK, Accepted
    <3>5. \A d \in Calls : Pending(d)' => Pending(d)
      BY <2>1 DEF TypeOK, Pending
    <3>6. \A d \in Calls : Accepted(d)' => pc'[d] \in {"release", "done", "crashed"}
      BY <2>1, <3>4 DEF TypeOK, UseInv
    <3>7. /\ Len(ledger') = Len(ledger) + 1 /\ Len(ledger) \in Nat
          /\ \A i \in 1..Len(ledger) : ledger'[i] = ledger[i]
          /\ ledger'[Len(ledger) + 1].token = arg[c].token
      BY <1>7, <2>4, <3>2, Appended
    <3>8. \A i \in 1..Len(ledger'), t \in Approvals : IsUsed(ledger'[i], t) =>
            \/ i \in 1..Len(ledger) /\ IsUsed(ledger[i], t)
            \/ i = Len(ledger) + 1 /\ t = arg[c].token
      BY <3>7 DEF IsUsed
    <3>9. \A t \in Approvals : marker[t] # None => marker[t] \in Calls
      BY <1>1 DEF Calls
    <3>10. c # None
      BY CallsAssumption DEF CallsAssumption
    <3>11. \A i \in 1..Len(ledger'), t \in Approvals :
             IsUsed(ledger'[i], t) =>
               marker[t] # None /\ pc'[marker[t]] \in {"release", "done", "crashed"}
      BY <2>1, <3>2, <3>8, <3>9, <3>10 DEF TypeOK, UseInv
    <3>12. \A i, j \in 1..Len(ledger'), t \in Approvals :
             IsUsed(ledger'[i], t) /\ IsUsed(ledger'[j], t) => i = j
      BY <3>3, <3>8 DEF UseInv
    <3>13. \A d \in Calls : Pending(d)' =>
             /\ d \in Guards /\ arg[d].token \in Approvals
             /\ entry[d].token = arg[d].token
             /\ marker[arg[d].token] = d
      BY <3>5 DEF UseInv
    <3>14. \A d \in Calls : Accepted(d)' =>
             /\ d \in Guards /\ arg[d].token \in Approvals
             /\ pc'[d] \in {"release", "done", "crashed"}
             /\ marker[arg[d].token] = d
      BY <3>2, <3>4, <3>6 DEF UseInv
    <3> QED
      BY <2>1, <3>11, <3>12, <3>13, <3>14 DEF UseInv
  <2> QED
    BY <2>2, <2>3, <2>4
<1>8. CASE ChangeRepo \/ Tick \/ UNCHANGED vars
  BY <1>8 DEF UseInv, ChangeRepo, Tick, vars, callVars, Pending, Accepted, IsUsed
<1> QED
  BY <1>2, <1>3, <1>4, <1>5, <1>6, <1>7, <1>8 DEF Next, Step

\* No token lets two calls through or is recorded twice.
THEOREM OneTimeUseHolds == Spec => []OneTimeUse
<1>1. UseInv => OneTimeUse
  BY DEF UseInv, OneTimeUse, Calls
<1> QED
  BY <1>1, InitTyped, NextTyped, InitTokenInv, NextTokenInv, InitUseInv, NextUseInv,
     PTL DEF Spec

-----------------------------------------------------------------------------
\* What was let through was approved.

\* The ledger says the token of c was created for what c asks.
Approved(c, i) ==
  /\ IsCreated(ledger[i], arg[c].token)
  /\ ledger[i].action = arg[c].action /\ ledger[i].packet = packet[c]

ApprovedInv ==
  /\ \A c \in Calls : Pending(c) =>
       entry[c].action = arg[c].action /\ entry[c].packet = packet[c]
  /\ \A c \in Calls : pc[c] = "claim" \/ Pending(c) =>
       \E i \in 1..Len(ledger) : Approved(c, i)
  /\ AcceptedWasApproved

\* At first nothing is let through.
LEMMA InitApprovedInv == Init => ApprovedInv
  BY DEF Init, ApprovedInv, Pending, AcceptedWasApproved, Accepted, Calls

\* A step that writes no record keeps the invariant if it sends nobody on to claim
\* or to record a use, and leaves the others what they asked and read.
LEMMA ApprovedFrame ==
  ASSUME ApprovedInv, UNCHANGED ledger,
         \A d \in Calls : Pending(d)' => Pending(d) /\ entry'[d] = entry[d],
         \A d \in Calls : pc'[d] = "claim" => pc[d] = "claim",
         \A d \in Calls : Accepted(d)' => Accepted(d),
         \A d \in Calls : pc[d] = "claim" \/ Pending(d) \/ Accepted(d)
                        => arg'[d] = arg[d] /\ packet'[d] = packet[d]
  PROVE  ApprovedInv'
<1>1. \A d \in Calls, i \in 1..Len(ledger) :
        Approved(d, i) /\ arg'[d] = arg[d] /\ packet'[d] = packet[d] => Approved(d, i)'
  BY DEF Approved, IsCreated
<1>2. \A d \in Calls : Pending(d)' =>
        entry'[d].action = arg'[d].action /\ entry'[d].packet = packet'[d]
  BY DEF ApprovedInv
<1>3. \A d \in Calls : pc'[d] = "claim" \/ Pending(d)' =>
        \E i \in 1..Len(ledger) : Approved(d, i)'
  BY <1>1 DEF ApprovedInv
<1>4. AcceptedWasApproved'
  BY DEF ApprovedInv, AcceptedWasApproved, IsCreated, IsUsed, Accepted, Calls
<1> QED
  BY <1>2, <1>3, <1>4 DEF ApprovedInv

\* Each step keeps every accepted call within what was approved.
LEMMA NextApprovedInv ==
  TypeOK /\ TokenInv /\ UseInv /\ ApprovedInv /\ [Next]_vars => ApprovedInv'
<1> SUFFICES ASSUME TypeOK, TokenInv, UseInv, ApprovedInv, [Next]_vars PROVE ApprovedInv'
  OBVIOUS
<1>1. ASSUME NEW c \in Calls, Start(c) PROVE ApprovedInv'
  <2>1. /\ pc[c] = "idle" /\ UNCHANGED <<ledger, entry, packet>>
        /\ \E place \in {"branch", "done"} : Goto(c, place)
        /\ \/ UNCHANGED result
           \/ result' = [result EXCEPT ![c] = "failed"]
        /\ \/ UNCHANGED arg
           \/ \E a : arg' = [arg EXCEPT ![c] = a]
    BY <1>1 DEF Start, CreateApprovalToken, GuardAction, SetFreezeState, RefuseText,
                Begin, Return
  <2>2. ~Accepted(c)
    BY <2>1 DEF UseInv
  <2> QED
    BY <2>1, <2>2, ApprovedFrame DEF TypeOK, Pending, Accepted, Goto
<1>2. ASSUME NEW c \in Calls,
             \/ ReadBranch(c) \/ ReadHead(c) \/ GuardPacket(c) \/ TruncateFreeze(c)
             \/ Acquire(c) \/ WritePart(c) \/ Release(c) \/ Crash(c)
      PROVE  ApprovedInv'
  <2>1. /\ UNCHANGED <<ledger, arg, entry, result>>
        /\ \/ /\ pc[c] \in {"branch", "head", "diff", "truncate"}
              /\ \E place \in {"head", "truncate", "diff", "freeze", "fill"} : Goto(c, place)
              /\ \A d \in Calls : d # c => packet'[d] = packet[d]
           \/ pc[c] = "lock" /\ Goto(c, "read") /\ UNCHANGED packet
           \/ pc[c] = "write" /\ Goto(c, "write") /\ UNCHANGED packet
           \/ (Goto(c, "done") \/ Goto(c, "crashed")) /\ UNCHANGED packet
    BY <1>2 DEF ReadBranch, ReadHead, GuardPacket, ReadDiff, TruncateFreeze, Acquire,
                WritePart, Release, Crash, callVars, TypeOK
  <2>2. pc[c] \in {"branch", "head", "diff", "truncate"} => ~Accepted(c)
    BY DEF UseInv
  <2>3. \A d \in Calls : pc[d] = "claim" \/ Pending(d) \/ Accepted(d)
                        => arg'[d] = arg[d] /\ packet'[d] = packet[d]
    BY <2>1, <2>2 DEF Pending
  <2>4. \A d \in Calls : Pending(d)' => Pending(d) /\ entry'[d] = entry[d]
    BY <2>1 DEF TypeOK, Pending, Goto
  <2>5. \A d \in Calls : pc'[d] = "claim" => pc[d] = "claim"
    BY <2>1 DEF TypeOK, Goto
  <2>6. \A d \in Calls : Accepted(d)' => Accepted(d)
    BY <2>1 DEF Accepted
  <2> QED
    BY <2>1, <2>3, <2>4, <2>5, <2>6, ApprovedFrame
<1>3. ASSUME NEW c \in Calls,
             ReadFreeze(c) \/ LockTimeout(c) \/ ReadTail(c) \/ MintToken(c) \/ FillFreeze(c)
      PROVE  ApprovedInv'
  <2>1. Verdict(c) # "approval_token_accepted"
    BY DEF Verdict
  <2>2. /\ UNCHANGED <<ledger, arg>>
        /\ pc[c] \in {"freeze", "lock", "read", "diff", "fill"}
        /\ \A d \in Calls : d # c => packet'[d] = packet[d]
        /\ pc[c] = "diff" \/ UNCHANGED packet
        /\ \/ Goto(c, "redeem") /\ UNCHANGED <<entry, result>>
           \/ pc[c] = "read" /\ Goto(c, "write") /\ UNCHANGED <<entry, result>>
           \/ \E r : /\ r # "approval_token_accepted" /\ UNCHANGED entry
                    /\ (Goto(c, "done") \/ Goto(c, "release"))
                    /\ result' = [result EXCEPT ![c] = r]
           \/ \E e : /\ e.type # "approval_used" /\ Goto(c, "lock") /\ UNCHANGED result
                    /\ entry' = [entry EXCEPT ![c] = e]
    BY <1>3, <2>1 DEF ReadFreeze, LockTimeout, ReadTail, MintToken, ReadDiff, FillFreeze, Return,
                      AppendNext, Record, TypeOK
  <2>3. ~Accepted(c)
    BY <2>2 DEF UseInv
  <2>4. \A d \in Calls : pc[d] = "claim" \/ Pending(d) \/ Accepted(d)
                        => arg'[d] = arg[d] /\ packet'[d] = packet[d]
    BY <2>2, <2>3 DEF Pending
  <2>5. \A d \in Calls : Pending(d)' => Pending(d) /\ entry'[d] = entry[d]
    BY <2>2 DEF TypeOK, Pending, Goto
  <2>6. \A d \in Calls : pc'[d] = "claim" => pc[d] = "claim"
    BY <2>2 DEF TypeOK, Goto
  <2>7. \A d \in Calls : Accepted(d)' => Accepted(d)
    BY <2>2 DEF TypeOK, Accepted
  <2> QED
    BY <2>2, <2>4, <2>5, <2>6, <2>7, ApprovedFrame
<1>4. ASSUME NEW c \in Calls, Redeem(c) PROVE ApprovedInv'
  <2>1. \A r : Check(c, r) # "approval_token_accepted"
    BY DEF Check
  <2>2. /\ UNCHANGED <<ledger, arg, packet>> /\ pc[c] = "redeem"
        /\ \/ /\ Goto(c, "claim") /\ UNCHANGED <<entry, result>>
              /\ \E i \in 1..Len(ledger) : /\ IsCreated(ledger[i], arg[c].token)
                                          /\ Check(c, ledger[i]) = "claim"
           \/ \E r : /\ r # "approval_token_accepted" /\ Goto(c, "done") /\ UNCHANGED entry
                    /\ result' = [result EXCEPT ![c] = r]
           \/ \E e : /\ e.type # "approval_used" /\ Goto(c, "lock") /\ UNCHANGED result
                    /\ entry' = [entry EXCEPT ![c] = e]
    BY <1>4, <2>1 DEF Redeem, Return, AppendNext, Record
  <2>3. \A d \in Calls : Pending(d)' => Pending(d) /\ entry'[d] = entry[d]
    BY <2>2 DEF TypeOK, Pending, Goto
  <2>6. \A d \in Calls : Accepted(d)' => Accepted(d)
    BY <2>2 DEF TypeOK, Accepted
  <2>4. CASE pc'[c] # "claim"
    <3>1. \A d \in Calls : pc'[d] = "claim" => pc[d] = "claim"
      BY <2>2, <2>4 DEF TypeOK, Goto
    <3> QED
      BY <2>2, <2>3, <2>6, <3>1, ApprovedFrame
  <2>5. CASE pc'[c] = "claim"
    <3>1. \E i \in 1..Len(ledger) : Approved(c, i)
      BY <2>2, <2>5 DEF Approved, Check, TypeOK, Goto
    <3>2. \A d \in Calls : d # c /\ pc'[d] = "claim" => pc[d] = "claim"
      BY <2>2 DEF TypeOK, Goto
    <3>3. \A d \in Calls, i \in 1..Len(ledger) : Approved(d, i) => Approved(d, i)'
      BY <2>2 DEF Approved, IsCreated
    <3>4. \A d \in Calls : pc'[d] = "claim" \/ Pending(d)' =>
            \E i \in 1..Len(ledger) : Approved(d, i)'
      BY <2>3, <3>1, <3>2, <3>3 DEF ApprovedInv
    <3>5. AcceptedWasApproved'
      BY <2>2, <2>6 DEF ApprovedInv, AcceptedWasApproved, IsCreated, IsUsed, Accepted, Calls
    <3> QED
      BY <2>2, <2>3, <3>4, <3>5 DEF ApprovedInv
  <2> QED
    BY <2>4, <2>5
<1>5. ASSUME NEW c \in Calls, ClaimTokenUse(c) PROVE ApprovedInv'
  <2>1. /\ UNCHANGED <<ledger, arg, packet>> /\ pc[c] = "claim"
    BY <1>5 DEF ClaimTokenUse
  <2>2. CASE Return(c, "approval_token_already_used") /\ UNCHANGED entry
    BY <2>1, <2>2, ApprovedFrame DEF Return, TypeOK, Pending, Accepted, Goto
  <2>3. CASE /\ AppendNext(c, Record("approval_used", arg[c].action, packet[c],
                                     arg[c].token, 0))
             /\ UNCHANGED result
    <3>1. /\ entry'[c].action = arg[c].action /\ entry'[c].packet = packet[c]
          /\ \A d \in Calls : d # c => pc'[d] = pc[d] /\ entry'[d] = entry[d]
          /\ pc'[c] = "lock"
      BY <2>3 DEF AppendNext, Goto, Record, TypeOK
    <3>2. \A d \in Calls : d # c /\ Pending(d)' => Pending(d)
      BY <3>1 DEF Pending
    <3>3. \A d \in Calls, i \in 1..Len(ledger) : Approved(d, i) => Approved(d, i)'
      BY <2>1 DEF Approved, IsCreated
    <3>4. \A d \in Calls : pc'[d] = "claim" \/ Pending(d)' =>
            \E i \in 1..Len(ledger) : Approved(d, i)'
      BY <2>1, <3>1, <3>2, <3>3 DEF ApprovedInv
    <3>5. \A d \in Calls : Pending(d)' =>
            entry'[d].action = arg[d].action /\ entry'[d].packet = packet[d]
      BY <3>1, <3>2 DEF ApprovedInv
    <3>6. AcceptedWasApproved'
      BY <2>1, <2>3 DEF ApprovedInv, AcceptedWasApproved, IsCreated, IsUsed, Accepted
    <3> QED
      BY <2>1, <3>4, <3>5, <3>6 DEF ApprovedInv
  <2> QED
    BY <1>5, <2>2, <2>3 DEF ClaimTokenUse
<1>6. ASSUME NEW c \in Calls, AppendRecord(c) PROVE ApprovedInv'
  <2>1. /\ UNCHANGED <<arg, packet, entry>> /\ pc[c] = "write"
        /\ pc' = [pc EXCEPT ![c] = "release"]
    BY <1>6 DEF AppendRecord, Goto
  <2>2. \A d \in Calls : Pending(d)' => Pending(d) /\ entry'[d] = entry[d]
    BY <2>1 DEF TypeOK, Pending
  <2>5. \A d \in Calls : pc'[d] = "claim" => pc[d] = "claim"
    BY <2>1 DEF TypeOK
  <2>3. CASE ledger' = ledger
    <3>1. result' = [result EXCEPT ![c] = "failed"]
      BY <1>6, <2>3 DEF AppendRecord, TypeOK
    <3>2. \A d \in Calls : Accepted(d)' => Accepted(d)
      BY <3>1 DEF TypeOK, Accepted
    <3> QED
      BY <2>1, <2>2, <2>3, <2>5, <3>2, ApprovedFrame
  <2>4. CASE ledger' # ledger
    <3>1. /\ Len(ledger) \in Nat /\ Len(ledger') = Len(ledger) + 1
          /\ \A i \in 1..Len(ledger) : ledger'[i] = ledger[i] /\ i \in 1..Len(ledger')
          /\ Len(ledger') \in 1..Len(ledger')
      BY <1>6, <2>4, Appended
    <3>2. \A d \in Calls, i \in 1..Len(ledger) : Approved(d, i) => Approved(d, i)'
      BY <2>1, <3>1 DEF Approved, IsCreated
    <3>3. \A d \in Calls : pc'[d] = "claim" \/ Pending(d)' =>
            \E i \in 1..Len(ledger') : Approved(d, i)'
      BY <2>2, <2>5, <3>1, <3>2 DEF ApprovedInv
    <3>4. \A d \in Calls : Pending(d)' =>
            entry'[d].action = arg'[d].action /\ entry'[d].packet = packet'[d]
      BY <2>1, <2>2 DEF ApprovedInv
    <3>5. ASSUME NEW d \in Guards, Accepted(d)
          PROVE  \E i, j \in 1..Len(ledger') :
                   /\ i < j
                   /\ IsCreated(ledger'[i], arg'[d].token) /\ IsUsed(ledger'[j], arg'[d].token)
                   /\ \A k \in {i, j} : /\ ledger'[k].action = arg'[d].action
                                        /\ ledger'[k].packet = packet'[d]
      <4>1. PICK i \in 1..Len(ledger), j \in 1..Len(ledger) :
              /\ i < j
              /\ IsCreated(ledger[i], arg[d].token) /\ IsUsed(ledger[j], arg[d].token)
              /\ \A k \in {i, j} : /\ ledger[k].action = arg[d].action
                                   /\ ledger[k].packet = packet[d]
        BY <3>5 DEF ApprovedInv, AcceptedWasApproved
      <4> QED
        BY <2>1, <3>1, <4>1
    <3>6. ASSUME Outcome(entry[c].type) = "approval_token_accepted"
          PROVE  \E i, j \in 1..Len(ledger') :
                   /\ i < j
                   /\ IsCreated(ledger'[i], arg'[c].token) /\ IsUsed(ledger'[j], arg'[c].token)
                   /\ \A k \in {i, j} : /\ ledger'[k].action = arg'[c].action
                                        /\ ledger'[k].packet = packet'[c]
      <4>1. entry[c].type = "approval_used"
        BY <3>6 DEF Outcome, TypeOK, Records, RecordTypes
      <4>2. Pending(c) /\ entry[c].token = arg[c].token
        BY <2>1, <4>1 DEF Pending, UseInv
      <4>3. PICK i \in 1..Len(ledger) : Approved(c, i)
        BY <4>2 DEF ApprovedInv
      <4>4. entry[c].action = arg[c].action /\ entry[c].packet = packet[c]
        BY <4>2 DEF ApprovedInv
      <4>5. LET j == Len(ledger')
            IN  /\ IsUsed(ledger'[j], arg'[c].token)
                /\ ledger'[j].action = arg'[c].action /\ ledger'[j].packet = packet'[c]
        BY <1>6, <2>1, <2>4, <4>1, <4>2, <4>4, Appended DEF IsUsed
      <4>6. /\ IsCreated(ledger'[i], arg'[c].token)
            /\ ledger'[i].action = arg'[c].action /\ ledger'[i].packet = packet'[c]
        BY <2>1, <3>1, <4>3 DEF Approved
      <4> QED
        BY <3>1, <4>5, <4>6
    <3>7. \A d \in Calls : Accepted(d)' =>
            Accepted(d) \/ (d = c /\ Outcome(entry[c].type) = "approval_token_accepted")
      BY <1>6, <2>4, Appended DEF TypeOK, Accepted
    <3>8. AcceptedWasApproved'
      BY <3>5, <3>6, <3>7 DEF AcceptedWasApproved, Calls
    <3> QED
      BY <3>3, <3>4, <3>8 DEF ApprovedInv
  <2> QED
    BY <2>3, <2>4
<1>7. CASE ChangeRepo \/ Tick \/ UNCHANGED vars
  BY <1>7, ApprovedFrame DEF ChangeRepo, Tick, vars, callVars, Pending, Accepted
<1> QED
  BY <1>1, <1>2, <1>3, <1>4, <1>5, <1>6, <1>7 DEF Next, Step

\* Nothing is let through by a token but what a human approved it for.
THEOREM OnlyApprovedAccepted == Spec => []AcceptedWasApproved
<1>1. ApprovedInv => AcceptedWasApproved
  BY DEF ApprovedInv
<1> QED
  BY <1>1, InitTyped, NextTyped, InitTokenInv, NextTokenInv, InitUseInv, NextUseInv,
     InitApprovedInv, NextApprovedInv, PTL DEF Spec

-----------------------------------------------------------------------------
\* The freeze, the expiry and lost tokens.

\* The token of c has passed the checks of redeemApprovalToken.
Checked(c) == pc[c] = "claim" \/ Pending(c) \/ Accepted(c)

\* A call comes to the redemption only from the freeze file, and past the checks only
\* from there; what it was asked stays.
LEMMA TheWay ==
  ASSUME TypeOK, UseInv, [Next]_vars, NEW d \in Calls
  PROVE  /\ pc'[d] = "redeem" =>
              /\ arg'[d] = arg[d] /\ pc[d] # "idle"
              /\ pc[d] = "redeem" \/ (ReadFreeze(d) /\ Verdict(d) = "redeem")
         /\ Checked(d)' =>
              /\ arg'[d] = arg[d] /\ pc[d] # "idle" /\ began'[d] = began[d]
              /\ \/ Checked(d)
                 \/ /\ Redeem(d)
                    /\ \E i \in 1..Len(ledger) : /\ IsCreated(ledger[i], arg[d].token)
                                                 /\ Check(d, ledger[i]) = "claim"
<1> DEFINE Way ==
      /\ pc'[d] = "redeem" =>
           /\ arg'[d] = arg[d] /\ pc[d] # "idle"
           /\ pc[d] = "redeem" \/ (ReadFreeze(d) /\ Verdict(d) = "redeem")
      /\ Checked(d)' =>
           /\ arg'[d] = arg[d] /\ pc[d] # "idle" /\ began'[d] = began[d]
           /\ \/ Checked(d)
              \/ /\ Redeem(d)
                 /\ \E i \in 1..Len(ledger) : /\ IsCreated(ledger[i], arg[d].token)
                                              /\ Check(d, ledger[i]) = "claim"
<1> SUFFICES Way
  OBVIOUS
<1>0. Accepted(d) => pc[d] \in {"release", "done", "crashed"}
  BY DEF UseInv
<1>1. ASSUME NEW c \in Calls, Start(c) PROVE Way
  <2>1. /\ pc[c] = "idle" /\ UNCHANGED entry
        /\ \E place \in {"branch", "done"} : Goto(c, place)
        /\ \/ UNCHANGED result
           \/ result' = [result EXCEPT ![c] = "failed"]
        /\ \/ UNCHANGED arg
           \/ \E a : arg' = [arg EXCEPT ![c] = a]
        /\ \/ UNCHANGED began
           \/ began' = [began EXCEPT ![c] = now]
    BY <1>1 DEF Start, CreateApprovalToken, GuardAction, SetFreezeState, RefuseText,
                Begin, Return, history
  <2>2. CASE d = c
    BY <1>0, <2>1, <2>2 DEF TypeOK, Checked, Pending, Accepted, Goto
  <2>3. CASE d # c
    <3>1. /\ pc'[d] = pc[d] /\ entry'[d] = entry[d] /\ result'[d] = result[d]
          /\ arg'[d] = arg[d] /\ began'[d] = began[d]
      BY <2>1, <2>3 DEF TypeOK, Goto
    <3> QED
      BY <1>0, <3>1 DEF Checked, Pending, Accepted
  <2> QED
    BY <2>2, <2>3
<1>2. ASSUME NEW c \in Calls, Step(c) \/ Crash(c) PROVE Way
  <2>1. UNCHANGED <<arg, began>>
    BY <1>2 DEF Step, Crash, ReadBranch, ReadHead, MintToken, GuardPacket, ReadDiff, ReadFreeze,
         Redeem, ClaimTokenUse, TruncateFreeze, FillFreeze, Acquire, LockTimeout, ReadTail, WritePart,
         AppendRecord, Release, callVars, history
  <2>2. CASE d # c
    <3>1. pc'[d] = pc[d] /\ entry'[d] = entry[d] /\ result'[d] = result[d]
      BY <1>2, <2>2 DEF Step, Crash, ReadBranch, ReadHead, MintToken, GuardPacket, ReadDiff,
         ReadFreeze, Redeem, ClaimTokenUse, TruncateFreeze, FillFreeze, Acquire, LockTimeout,
         ReadTail, WritePart, AppendRecord, Release, Return, AppendNext, Goto, callVars, history, TypeOK
    <3> QED
      BY <1>0, <2>1, <3>1 DEF Checked, Pending, Accepted
  <2>3. CASE d = c
    <3>1. CASE \/ ReadBranch(c) \/ ReadHead(c) \/ GuardPacket(c) \/ TruncateFreeze(c)
               \/ Acquire(c) \/ WritePart(c) \/ Release(c) \/ Crash(c)
      <4>1. /\ UNCHANGED <<entry, result>> /\ pc[c] # "idle"
            /\ \/ \E place \in {"head", "truncate", "diff", "freeze", "fill", "done", "crashed"} :
                    Goto(c, place)
               \/ pc[c] = "lock" /\ Goto(c, "read")
               \/ pc[c] = "write" /\ Goto(c, "write")
        BY <3>1 DEF ReadBranch, ReadHead, GuardPacket, ReadDiff, TruncateFreeze, Acquire,
                    WritePart, Release, Crash, callVars
      <4> QED
        BY <2>1, <2>3, <4>1 DEF TypeOK, Checked, Pending, Accepted, Goto
    <3>2. CASE ReadFreeze(c) \/ LockTimeout(c) \/ ReadTail(c) \/ MintToken(c) \/ FillFreeze(c)
      <4>1. Verdict(c) # "approval_token_accepted"
        BY DEF Verdict
      <4>2. /\ pc[c] \notin {"idle", "release", "done", "crashed"}
            /\ \/ Goto(c, "redeem") /\ ReadFreeze(c) /\ Verdict(c) = "redeem"
                  /\ UNCHANGED result
               \/ pc[c] = "read" /\ Goto(c, "write") /\ UNCHANGED <<entry, result>>
               \/ \E r : /\ r # "approval_token_accepted" /\ (Goto(c, "done") \/ Goto(c, "release"))
                         /\ result' = [result EXCEPT ![c] = r]
               \/ \E e : /\ e.type # "approval_used" /\ Goto(c, "lock") /\ UNCHANGED result
                         /\ entry' = [entry EXCEPT ![c] = e]
        BY <3>2, <4>1 DEF ReadFreeze, LockTimeout, ReadTail, MintToken, ReadDiff, FillFreeze, Return,
                         AppendNext, Record
      <4> QED
        BY <1>0, <2>1, <2>3, <4>2 DEF TypeOK, Checked, Pending, Accepted, Goto
    <3>3. CASE Redeem(c)
      <4>1. \A r : Check(c, r) # "approval_token_accepted"
        BY DEF Check
      <4>2. /\ pc[c] = "redeem"
            /\ \/ /\ Goto(c, "claim")
                  /\ \E i \in 1..Len(ledger) : /\ IsCreated(ledger[i], arg[c].token)
                                               /\ Check(c, ledger[i]) = "claim"
               \/ \E r : /\ r # "approval_token_accepted" /\ Goto(c, "done")
                         /\ result' = [result EXCEPT ![c] = r]
               \/ \E e : /\ e.type # "approval_used" /\ Goto(c, "lock") /\ UNCHANGED result
                         /\ entry' = [entry EXCEPT ![c] = e]
        BY <3>3, <4>1 DEF Redeem, Return, AppendNext, Record
      <4> QED
        BY <1>0, <2>1, <2>3, <3>3, <4>2 DEF TypeOK, Checked, Pending, Accepted, Goto
    <3>4. CASE ClaimTokenUse(c)
      BY <2>1, <2>3, <3>4 DEF ClaimTokenUse, Return, AppendNext, TypeOK, Checked, Pending,
                             Accepted, Goto
    <3>5. CASE AppendRecord(c)
      <4>1. pc[c] = "write" /\ pc' = [pc EXCEPT ![c] = "release"]
        BY <3>5 DEF AppendRecord, Goto
      <4>2. Outcome(entry[c].type) = "approval_token_accepted" => entry[c].type = "approval_used"
        BY DEF Outcome, TypeOK, Records, RecordTypes
      <4>3. result'[c] \in {Outcome(entry[c].type), "failed"}
        BY <3>5 DEF AppendRecord, TypeOK
      <4> QED
        BY <2>1, <2>3, <4>1, <4>2, <4>3 DEF TypeOK, Checked, Pending, Accepted
    <3> QED
      BY <1>2, <3>1, <3>2, <3>3, <3>4, <3>5 DEF Step
  <2> QED
    BY <2>2, <2>3
<1>3. CASE ChangeRepo \/ Tick \/ UNCHANGED vars
  BY <1>0, <1>3 DEF ChangeRepo, Tick, vars, callVars, history, Checked, Pending, Accepted
<1> QED
  BY <1>1, <1>2, <1>3 DEF Next

\* What anybody sees of the freeze file, and of the time.
LEMMA FreezeSteps ==
  ASSUME TypeOK, [Next]_vars, NEW d \in Guards
  PROVE  \/ pc'[d] = "idle"
         \/ pc[d] # "idle" /\ freeze' = freeze /\ thawed'[d] = thawed[d]
         \/ pc[d] # "idle" /\ thawed'[d] = (thawed[d] \/ freeze' # "on")
         \/ pc[d] = "idle" /\ freeze' = freeze /\ thawed'[d] = (freeze # "on")
<1>0. d \in Calls /\ d \notin Approvals \cup Freezes
  BY CallsAssumption DEF CallsAssumption, Calls
<1>1. ASSUME NEW c \in Calls, Start(c), c # d
      PROVE  pc'[d] = pc[d] /\ freeze' = freeze /\ thawed'[d] = thawed[d]
  <2>1. /\ \E place \in {"branch", "done"} : Goto(c, place)
        /\ \/ UNCHANGED thawed
           \/ thawed' = [thawed EXCEPT ![c] = (freeze # "on")]
        /\ UNCHANGED freeze
    BY <1>1 DEF Start, CreateApprovalToken, GuardAction, SetFreezeState, RefuseText,
                Begin, Return, history
  <2> QED
    BY <1>0, <1>1, <2>1 DEF TypeOK, Goto
<1>2. ASSUME Start(d)
      PROVE  pc[d] = "idle" /\ freeze' = freeze /\ thawed'[d] = (freeze # "on")
  BY <1>0, <1>2 DEF Start, CreateApprovalToken, GuardAction, SetFreezeState, RefuseText, Begin,
                   TypeOK
<1>3. ASSUME NEW c \in Calls, TruncateFreeze(c) \/ FillFreeze(c)
      PROVE  pc'[d] = pc[d] /\ thawed'[d] = (thawed[d] \/ freeze' # "on")
  <2>1. /\ c # d /\ NoteThaw /\ \E place \in Places : Goto(c, place)
    BY <1>0, <1>3 DEF TruncateFreeze, FillFreeze, AppendNext, Places
  <2> QED
    BY <1>0, <2>1 DEF TypeOK, Goto, NoteThaw
<1>4. ASSUME NEW c \in Calls, Crash(c) \/ (Step(c) /\ ~TruncateFreeze(c) /\ ~FillFreeze(c))
      PROVE  /\ pc[d] = "idle" => pc'[d] = "idle"
             /\ freeze' = freeze /\ thawed'[d] = thawed[d]
  <2>1. /\ UNCHANGED <<freeze, thawed>> /\ pc[c] # "idle" /\ \E place : Goto(c, place)
    BY <1>4 DEF Step, Crash, ReadBranch, ReadHead, MintToken, GuardPacket, ReadDiff, ReadFreeze,
         Redeem, ClaimTokenUse, Acquire, LockTimeout, ReadTail, WritePart, AppendRecord, Release, Return,
         AppendNext, callVars, history
  <2> QED
    BY <1>0, <2>1 DEF TypeOK, Goto
<1>5. CASE ChangeRepo \/ Tick \/ UNCHANGED vars
  BY <1>5 DEF ChangeRepo, Tick, vars, callVars, history
<1> QED
  BY <1>1, <1>2, <1>3, <1>4, <1>5 DEF Next

\* A guard call has seen every thaw since it began, and one before it came past the
\* freeze file, unless it asks for an emergency override.
ThawInv ==
  \A c \in Guards :
    /\ pc[c] # "idle" => freeze = "on" \/ thawed[c]
    /\ pc[c] = "redeem" \/ Checked(c) =>
         classifyGuardAction(arg[c].action) = "emergency_override" \/ thawed[c]

\* At first no call has begun.
LEMMA InitThawInv == Init => ThawInv
  BY DEF Init, ThawInv, Checked, Pending, Accepted, Calls

\* Each step keeps what calls know of the freeze.
LEMMA NextThawInv == TypeOK /\ TokenInv /\ UseInv /\ ThawInv /\ [Next]_vars => ThawInv'
<1> SUFFICES ASSUME TypeOK, TokenInv, UseInv, ThawInv, [Next]_vars, NEW c \in Guards
             PROVE  /\ pc'[c] # "idle" => freeze' = "on" \/ thawed'[c]
                    /\ pc'[c] = "redeem" \/ Checked(c)' =>
                         \/ classifyGuardAction(arg'[c].action) = "emergency_override"
                         \/ thawed'[c]
  BY DEF ThawInv
<1>1. pc'[c] # "idle" => freeze' = "on" \/ thawed'[c]
  BY FreezeSteps DEF ThawInv
<1>2. ASSUME pc'[c] = "redeem" \/ Checked(c)'
      PROVE  \/ classifyGuardAction(arg'[c].action) = "emergency_override"
             \/ thawed'[c]
  <2>0. c \in Calls
    BY DEF Calls
  <2>1. /\ arg'[c] = arg[c] /\ pc[c] # "idle"
        /\ \/ pc[c] = "redeem" \/ Checked(c)
           \/ ReadFreeze(c) /\ Verdict(c) = "redeem"
    BY <1>2, <2>0, TheWay DEF Redeem
  <2>2. \/ classifyGuardAction(arg[c].action) = "emergency_override"
        \/ thawed[c]
    BY <2>1 DEF ThawInv, Verdict
  <2>3. pc'[c] # "idle"
    BY <1>2, <2>0, NextUseInv DEF Checked, Pending, UseInv
  <2>4. thawed[c] => thawed'[c]
    BY <2>1, <2>3, FreezeSteps
  <2> QED
    BY <2>1, <2>2, <2>4
<1> QED
  BY <1>1, <1>2

\* Nothing but an emergency override passes an active freeze that has been there for
\* the whole call.
THEOREM FreezeAlwaysRespected == Spec => []FreezeRespected
<1>1. ThawInv => FreezeRespected
  BY DEF ThawInv, FreezeRespected, Checked
<1> QED
  BY <1>1, InitTyped, NextTyped, InitTokenInv, NextTokenInv, InitUseInv, NextUseInv,
     InitThawInv, NextThawInv, PTL DEF Spec

\* Where a call is when it is over, or about to be.
Over == {"release", "done", "crashed"}

\* About to record the creation of a token.
Creating(c) == pc[c] \in {"lock", "read", "write"} /\ entry[c].type = "approval_created"

\* A call that is over stays so; one that records a use goes on to it, unless it fails;
\* and one that records a creation does so for its own token.
LEMMA GoesOn ==
  ASSUME TypeOK, [Next]_vars, NEW d \in Calls
  PROVE  /\ pc[d] # "idle" => pc'[d] # "idle" /\ arg'[d] = arg[d]
         /\ pc[d] = "crashed" => pc'[d] = "crashed"
         /\ pc[d] \in Over => pc'[d] \in Over /\ result'[d] = result[d]
         /\ result'[d] = "failed" => result[d] = "failed" \/ pc'[d] \in Over
         /\ Pending(d) => \/ Pending(d)' \/ pc'[d] = "crashed" \/ result'[d] = "failed"
                          \/ AppendRecord(d) /\ ledger' # ledger
         /\ Creating(d)' => (Creating(d) /\ entry'[d] = entry[d]) \/ entry'[d].token = d
<1> DEFINE GoOn ==
      /\ pc[d] # "idle" => pc'[d] # "idle" /\ arg'[d] = arg[d]
      /\ pc[d] = "crashed" => pc'[d] = "crashed"
      /\ pc[d] \in Over => pc'[d] \in Over /\ result'[d] = result[d]
      /\ result'[d] = "failed" => result[d] = "failed" \/ pc'[d] \in Over
      /\ Pending(d) => \/ Pending(d)' \/ pc'[d] = "crashed" \/ result'[d] = "failed"
                       \/ AppendRecord(d) /\ ledger' # ledger
      /\ Creating(d)' => (Creating(d) /\ entry'[d] = entry[d]) \/ entry'[d].token = d
<1> SUFFICES GoOn
  OBVIOUS
<1>1. ASSUME NEW c \in Calls, Start(c) PROVE GoOn
  <2>1. /\ pc[c] = "idle" /\ UNCHANGED entry
        /\ \E place \in {"branch", "done"} : Goto(c, place)
        /\ \/ UNCHANGED result
           \/ result' = [result EXCEPT ![c] = "failed"] /\ Goto(c, "done")
        /\ \/ UNCHANGED arg
           \/ \E a : arg' = [arg EXCEPT ![c] = a]
    BY <1>1 DEF Start, CreateApprovalToken, GuardAction, SetFreezeState, RefuseText,
                Begin, Return
  <2>2. CASE d = c
    BY <2>1, <2>2 DEF TypeOK, Over, Creating, Pending, Goto
  <2>3. CASE d # c
    <3>1. /\ pc'[d] = pc[d] /\ entry'[d] = entry[d] /\ result'[d] = result[d]
          /\ arg'[d] = arg[d]
      BY <2>1, <2>3 DEF TypeOK, Goto
    <3> QED
      BY <3>1 DEF Over, Creating, Pending
  <2> QED
    BY <2>2, <2>3
<1>2. ASSUME NEW c \in Calls, Step(c) \/ Crash(c) PROVE GoOn
  <2>1. UNCHANGED arg
    BY <1>2 DEF Step, Crash, ReadBranch, ReadHead, MintToken, GuardPacket, ReadDiff, ReadFreeze,
         Redeem, ClaimTokenUse, TruncateFreeze, FillFreeze, Acquire, LockTimeout, ReadTail, WritePart,
         AppendRecord, Release, callVars
  <2>2. CASE d # c
    <3>1. pc'[d] = pc[d] /\ entry'[d] = entry[d] /\ result'[d] = result[d]
      BY <1>2, <2>2 DEF Step, Crash, ReadBranch, ReadHead, MintToken, GuardPacket, ReadDiff,
         ReadFreeze, Redeem, ClaimTokenUse, TruncateFreeze, FillFreeze, Acquire, LockTimeout,
         ReadTail, WritePart, AppendRecord, Release, Return, AppendNext, Goto, callVars, TypeOK
    <3> QED
      BY <2>1, <3>1 DEF Over, Creating, Pending
  <2>3. CASE d = c
    <3>1. CASE \/ ReadBranch(c) \/ ReadHead(c) \/ GuardPacket(c) \/ TruncateFreeze(c)
               \/ Acquire(c) \/ WritePart(c) \/ Release(c) \/ Crash(c)
      <4>1. /\ UNCHANGED <<entry, result>>
            /\ \/ /\ pc[c] \in {"branch", "head", "diff", "truncate"}
                  /\ \E place \in {"head", "truncate", "diff", "freeze", "fill"} : Goto(c, place)
               \/ pc[c] = "lock" /\ Goto(c, "read")
               \/ pc[c] = "write" /\ Goto(c, "write")
               \/ pc[c] = "release" /\ Goto(c, "done")
               \/ pc[c] \notin {"idle", "crashed"} /\ Goto(c, "crashed")
        BY <3>1 DEF ReadBranch, ReadHead, GuardPacket, ReadDiff, TruncateFreeze, Acquire,
                    WritePart, Release, Crash, callVars
      <4> QED
        BY <2>1, <2>3, <4>1 DEF TypeOK, Over, Creating, Pending, Goto
    <3>2. CASE ReadFreeze(c) \/ MintToken(c) \/ FillFreeze(c) \/ Redeem(c) \/ ClaimTokenUse(c)
      <4>1. /\ pc[c] \in {"freeze", "diff", "fill", "redeem", "claim"}
            /\ \/ \E place \in {"redeem", "claim"} : Goto(c, place) /\ UNCHANGED result
               \/ \E r : Goto(c, "done") /\ result' = [result EXCEPT ![c] = r]
               \/ \E e : /\ e.type = "approval_created" => e.token = c
                         /\ Goto(c, "lock") /\ UNCHANGED result
                         /\ entry' = [entry EXCEPT ![c] = e]
        BY <3>2 DEF ReadFreeze, MintToken, ReadDiff, FillFreeze, Redeem, ClaimTokenUse, Return,
                   AppendNext, Record
      <4> QED
        BY <2>1, <2>3, <4>1 DEF TypeOK, Over, Creating, Pending, Goto
    <3>3. CASE LockTimeout(c)
      BY <2>1, <2>3, <3>3 DEF LockTimeout, Return, TypeOK, Over, Creating, Pending, Goto
    <3>5. CASE ReadTail(c)
      BY <2>1, <2>3, <3>5 DEF ReadTail, TypeOK, Over, Creating, Pending, Goto
    <3>4. CASE AppendRecord(c)
      <4>1. pc[c] = "write" /\ pc' = [pc EXCEPT ![c] = "release"] /\ UNCHANGED entry
        BY <3>4 DEF AppendRecord, Goto
      <4>2. ledger' # ledger \/ result' = [result EXCEPT ![c] = "failed"]
        <5>1. CASE ledger' = Append(ledger, [entry[c] EXCEPT !.prev = tail[c]])
          <6>1. Len(ledger') # Len(ledger)
            BY <5>1 DEF TypeOK
          <6> QED
            BY <6>1
        <5> QED
          BY <3>4, <5>1 DEF AppendRecord
      <4>3. result'[d] = "failed" => pc'[d] \in Over
        BY <2>3, <4>1 DEF TypeOK, Over
      <4> QED
        BY <2>1, <2>3, <3>4, <4>1, <4>2, <4>3 DEF TypeOK, Over, Creating, Pending
    <3> QED
      BY <1>2, <3>1, <3>2, <3>3, <3>4, <3>5 DEF Step
  <2> QED
    BY <2>2, <2>3
<1>3. CASE ChangeRepo \/ Tick \/ UNCHANGED vars
  BY <1>3 DEF ChangeRepo, Tick, vars, callVars, Over, Creating, Pending
<1> QED
  BY <1>1, <1>2, <1>3 DEF Next

\* The ledger stays, or one call appends to it.
LEMMA LedgerGrows ==
  ASSUME TypeOK, [Next]_vars
  PROVE  /\ ledger' = ledger \/ \E c \in Calls : AppendRecord(c) /\ ledger' # ledger
         /\ Len(ledger) \in Nat /\ Len(ledger') \in Nat /\ Len(ledger) <= Len(ledger')
         /\ \A i \in 1..Len(ledger) : ledger'[i] = ledger[i]
<1>1. ledger' = ledger \/ \E c \in Calls : AppendRecord(c) /\ ledger' # ledger
  <2>1. ASSUME NEW c \in Calls, Start(c) \/ Crash(c) PROVE UNCHANGED ledger
    BY <2>1 DEF Start, Crash, CreateApprovalToken, GuardAction, SetFreezeState, RefuseText, Begin
  <2>2. ASSUME NEW c \in Calls, Step(c) PROVE UNCHANGED ledger \/ AppendRecord(c)
    BY <2>2 DEF Step, ReadBranch, ReadHead, MintToken, GuardPacket, ReadDiff, ReadFreeze, Redeem,
         ClaimTokenUse, TruncateFreeze, FillFreeze, Acquire, LockTimeout, ReadTail, WritePart, Release
  <2> QED
    BY <2>1, <2>2 DEF Next, ChangeRepo, Tick, vars
<1>2. Len(ledger) \in Nat
  BY DEF TypeOK
<1> QED
  BY <1>1, <1>2, Appended

\* A token is created once, by a call of its own that has recorded it.
CreatedInv ==
  /\ \A c \in Calls : Creating(c) => entry[c].token = c
  /\ \A i \in 1..Len(ledger), t \in Approvals : IsCreated(ledger[i], t) => pc[t] \in Over
  /\ \A i, j \in 1..Len(ledger), t \in Approvals :
       IsCreated(ledger[i], t) /\ IsCreated(ledger[j], t) => i = j

\* At first there is no record.
LEMMA InitCreatedInv == Init => CreatedInv
  BY DEF Init, CreatedInv, Creating

\* Each step keeps the records of creation apart.
LEMMA NextCreatedInv == TypeOK /\ CreatedInv /\ [Next]_vars => CreatedInv'
<1> SUFFICES ASSUME TypeOK, CreatedInv, [Next]_vars PROVE CreatedInv'
  OBVIOUS
<1>1. \A c \in Calls : Creating(c)' => entry'[c].token = c
  BY GoesOn DEF CreatedInv
<1>2. \A c \in Calls : pc[c] \in Over => pc'[c] \in Over
  BY GoesOn
<1>3. CASE ledger' = ledger
  BY <1>1, <1>2, <1>3 DEF CreatedInv, Calls, IsCreated
<1>4. ASSUME NEW c \in Calls, AppendRecord(c), ledger' # ledger PROVE CreatedInv'
  <2>1. pc[c] = "write" /\ pc'[c] = "release"
    BY <1>4 DEF AppendRecord, Goto, TypeOK
  <2>2. \A i \in 1..Len(ledger'), t \in Approvals : IsCreated(ledger'[i], t) =>
          \/ i \in 1..Len(ledger) /\ IsCreated(ledger[i], t)
          \/ i = Len(ledger) + 1 /\ t = c
    <3>1. entry[c].type = "approval_created" => entry[c].token = c
      BY <2>1 DEF CreatedInv, Creating
    <3> QED
      BY <1>4, <3>1, Appended DEF IsCreated
  <2>3. \A i \in 1..Len(ledger) : c \in Approvals => ~IsCreated(ledger[i], c)
    BY <2>1 DEF CreatedInv, Over
  <2>4. \A i, j \in 1..Len(ledger'), t \in Approvals :
          IsCreated(ledger'[i], t) /\ IsCreated(ledger'[j], t) => i = j
    BY <2>2, <2>3 DEF CreatedInv
  <2>5. \A i \in 1..Len(ledger'), t \in Approvals : IsCreated(ledger'[i], t) => pc'[t] \in Over
    BY <1>2, <2>1, <2>2 DEF CreatedInv, Calls, Over
  <2> QED
    BY <1>1, <2>4, <2>5 DEF CreatedInv
<1> QED
  BY <1>3, <1>4, LedgerGrows

\* A token that has passed the checks had not expired when the call began.
ExpiryInv ==
  /\ \A c \in Calls : began[c] <= now
  /\ \A c \in Guards, i \in 1..Len(ledger) :
       Checked(c) /\ IsCreated(ledger[i], arg[c].token) => began[c] < ledger[i].expires

\* At first no call has begun.
LEMMA InitExpiryInv == Init => ExpiryInv
  BY DEF Init, ExpiryInv

\* Each step keeps the calls ahead of the expiry.
LEMMA NextExpiryInv ==
  /\ TypeOK /\ TokenInv /\ UseInv /\ ApprovedInv /\ CreatedInv /\ ExpiryInv
  /\ [Next]_vars
  => ExpiryInv'
<1> SUFFICES ASSUME TypeOK, TokenInv, UseInv, ApprovedInv, CreatedInv, ExpiryInv, [Next]_vars
             PROVE  ExpiryInv'
  OBVIOUS
<1>1. \A c \in Calls : began'[c] <= now'
  <2>1. \/ UNCHANGED <<began, now>>
        \/ \E c \in Calls : UNCHANGED now /\ began' = [began EXCEPT ![c] = now]
        \/ UNCHANGED began /\ now' = now + 1
    <3>1. ASSUME NEW c \in Calls, Start(c)
          PROVE  UNCHANGED now /\ (UNCHANGED began \/ began' = [began EXCEPT ![c] = now])
      BY <3>1 DEF Start, CreateApprovalToken, GuardAction, SetFreezeState, RefuseText, Begin,
           repoVars, history
    <3>2. ASSUME NEW c \in Calls, Step(c) \/ Crash(c) PROVE UNCHANGED <<began, now>>
      BY <3>2 DEF Step, Crash, ReadBranch, ReadHead, MintToken, GuardPacket, ReadDiff, ReadFreeze,
           Redeem, ClaimTokenUse, TruncateFreeze, FillFreeze, Acquire, LockTimeout, ReadTail, WritePart,
           AppendRecord, Release, repoVars, history
    <3> QED
      BY <3>1, <3>2 DEF Next, ChangeRepo, Tick, vars, history
  <2>2. now \in Nat /\ began \in [Calls -> Nat]
    BY DEF TypeOK
  <2> QED
    BY <2>1, <2>2 DEF ExpiryInv
<1>2. ASSUME NEW c \in Guards, Checked(c)', NEW i \in 1..Len(ledger'),
             IsCreated(ledger'[i], arg'[c].token)
      PROVE  began'[c] < ledger'[i].expires
  <2>0. c \in Calls
    BY DEF Calls
  <2>1. arg'[c] = arg[c] /\ began'[c] = began[c]
    BY <1>2, <2>0, TheWay
  <2>2. \E k \in 1..Len(ledger) :
          IsCreated(ledger[k], arg[c].token) /\ began[c] < ledger[k].expires
    <3>1. CASE Checked(c)
      <4>1. PICK k \in 1..Len(ledger) : IsCreated(ledger[k], arg[c].token)
        BY <3>1 DEF Checked, ApprovedInv, Approved, AcceptedWasApproved, Calls
      <4> QED
        BY <3>1, <4>1 DEF ExpiryInv
    <3>2. CASE ~Checked(c)
      <4>1. PICK k \in 1..Len(ledger) : /\ IsCreated(ledger[k], arg[c].token)
                                       /\ Check(c, ledger[k]) = "claim"
        BY <1>2, <2>0, <3>2, TheWay
      <4>2. ~(ledger[k].expires <= now)
        BY <4>1 DEF Check
      <4>3. ledger[k].expires \in Nat /\ now \in Nat /\ began[c] \in Nat
        <5>1. ledger[k] \in Records
          BY DEF TypeOK
        <5>2. now \in Nat /\ began[c] \in Nat
          BY <2>0 DEF TypeOK
        <5> QED
          BY <5>1, <5>2 DEF Records
      <4>4. began[c] <= now
        BY <2>0 DEF ExpiryInv
      <4> QED
        BY <4>1, <4>2, <4>3, <4>4
    <3> QED
      BY <3>1, <3>2
  <2>3. PICK k \in 1..Len(ledger) :
          IsCreated(ledger[k], arg[c].token) /\ began[c] < ledger[k].expires
    BY <2>2
  <2>4. k \in 1..Len(ledger') /\ ledger'[k] = ledger[k]
    BY LedgerGrows
  <2>5. arg[c].token \in Approvals
    BY <1>2, <2>0, <2>1, NextUseInv, NextTokenInv DEF Checked, UseInv, TokenInv
  <2>6. CreatedInv'
    BY NextCreatedInv
  <2>7. IsCreated(ledger'[i], arg[c].token) /\ IsCreated(ledger'[k], arg[c].token)
    BY <1>2, <2>1, <2>3, <2>4
  <2>8. i = k
    BY <2>4, <2>5, <2>6, <2>7 DEF CreatedInv, IsCreated
  <2> QED
    BY <2>1, <2>3, <2>4, <2>8
<1>3. \A c \in Guards, i \in 1..Len(ledger') :
        Checked(c)' /\ IsCreated(ledger'[i], arg'[c].token) => began'[c] < ledger'[i].expires
  BY <1>2
<1> QED
  BY <1>1, <1>3 DEF ExpiryInv, IsCreated

\* A call that began when its token had expired is not let through, however long it waits.
THEOREM NotAfterExpiry == Spec => []RedeemedBeforeExpiry
<1>1. ExpiryInv => RedeemedBeforeExpiry
  BY DEF ExpiryInv, RedeemedBeforeExpiry, Checked
<1> QED
  BY <1>1, InitTyped, NextTyped, InitTokenInv, NextTokenInv, InitUseInv, NextUseInv,
     InitApprovedInv, NextApprovedInv, InitCreatedInv, NextCreatedInv,
     InitExpiryInv, NextExpiryInv, PTL DEF Spec

\* The use of a claimed token is recorded, or about to be, or its call failed.
Accounted(t) ==
  /\ pc[marker[t]] # "idle" /\ arg[marker[t]].token = t
  /\ \/ \E i \in 1..Len(ledger) : IsUsed(ledger[i], t)
     \/ Pending(marker[t]) \/ pc[marker[t]] = "crashed" \/ result[marker[t]] = "failed"

LostInv ==
  /\ \A c \in Calls : result[c] = "failed" => pc[c] \in Over
  /\ \A t \in Approvals : marker[t] # None => Accounted(t)

\* At first nothing is claimed.
LEMMA InitLostInv == Init => LostInv
  BY DEF Init, LostInv

\* A marker stays, and is made by a call that goes on to record the use.
LEMMA MarkerSteps ==
  ASSUME TypeOK, TokenInv, [Next]_vars, NEW t \in Approvals, marker'[t] # marker[t]
  PROVE  \E c \in Guards : /\ marker[t] = None /\ marker'[t] = c /\ arg'[c].token = t
                          /\ pc'[c] # "idle" /\ Pending(c)'
<1>1. ASSUME NEW c \in Calls, Start(c) \/ Crash(c) PROVE UNCHANGED marker
  BY <1>1 DEF Start, Crash, CreateApprovalToken, GuardAction, SetFreezeState, RefuseText, Begin
<1>2. ASSUME NEW c \in Calls, Step(c) PROVE UNCHANGED marker \/ ClaimTokenUse(c)
  BY <1>2 DEF Step, ReadBranch, ReadHead, MintToken, GuardPacket, ReadDiff, ReadFreeze, Redeem,
       TruncateFreeze, FillFreeze, Acquire, LockTimeout, ReadTail, WritePart, AppendRecord, Release
<1>3. PICK c \in Calls : ClaimTokenUse(c) /\ ~UNCHANGED marker
  BY <1>1, <1>2 DEF Next, ChangeRepo, Tick, vars
<1>4. /\ marker[arg[c].token] = None /\ marker' = [marker EXCEPT ![arg[c].token] = c]
      /\ AppendNext(c, Record("approval_used", arg[c].action, packet[c], arg[c].token, 0))
      /\ c \in Guards /\ UNCHANGED arg
  BY <1>3 DEF ClaimTokenUse
<1>5. t = arg[c].token
  BY <1>4 DEF TypeOK
<1> QED
  BY <1>4, <1>5 DEF TypeOK, AppendNext, Goto, Record, Pending

\* Each step keeps the account of claimed tokens.
LEMMA NextLostInv == TypeOK /\ TokenInv /\ UseInv /\ LostInv /\ [Next]_vars => LostInv'
<1> SUFFICES ASSUME TypeOK, TokenInv, UseInv, LostInv, [Next]_vars PROVE LostInv'
  OBVIOUS
<1>1. \A c \in Calls : result'[c] = "failed" => pc'[c] \in Over
  BY GoesOn DEF LostInv
<1>2. ASSUME NEW t \in Approvals, marker'[t] # None
      PROVE  Accounted(t)'
  <2>1. CASE marker'[t] # marker[t]
    <3>1. PICK c \in Guards : /\ marker'[t] = c /\ arg'[c].token = t
                             /\ pc'[c] # "idle" /\ Pending(c)'
      BY <2>1, MarkerSteps
    <3> QED
      BY <3>1 DEF Accounted, Pending
  <2>2. CASE marker'[t] = marker[t]
    <3>1. PICK m \in Calls : m = marker[t] /\ m = marker'[t]
      BY <1>2, <2>2 DEF TypeOK, Calls
    <3>2. /\ pc[m] # "idle" /\ arg[m].token = t
          /\ \/ \E i \in 1..Len(ledger) : IsUsed(ledger[i], t)
             \/ Pending(m) \/ pc[m] = "crashed" \/ result[m] = "failed"
      BY <1>2, <2>2, <3>1 DEF LostInv, Accounted
    <3>3. pc'[m] # "idle" /\ arg'[m].token = t
      BY <3>2, GoesOn
    <3>4. CASE \E i \in 1..Len(ledger) : IsUsed(ledger[i], t)
      <4>1. \E i \in 1..Len(ledger') : IsUsed(ledger'[i], t)
        BY <3>4, LedgerGrows DEF IsUsed
      <4> QED
        BY <3>1, <3>3, <4>1 DEF Accounted, IsUsed
    <3>5. CASE pc[m] = "crashed" \/ result[m] = "failed"
      <4>1. pc'[m] = "crashed" \/ result'[m] = "failed"
        BY <3>5, GoesOn DEF LostInv, Over
      <4> QED
        BY <3>1, <3>3, <4>1 DEF Accounted
    <3>6. CASE Pending(m)
      <4>1. CASE AppendRecord(m) /\ ledger' # ledger
        <5>1. entry[m].type = "approval_used" /\ entry[m].token = t
          BY <3>2, <3>6 DEF Pending, UseInv
        <5>2. Len(ledger') \in 1..Len(ledger') /\ IsUsed(ledger'[Len(ledger')], t)
          BY <4>1, <5>1, Appended DEF IsUsed
        <5> QED
          BY <3>1, <3>3, <5>2 DEF Accounted, IsUsed
      <4>2. CASE Pending(m)' \/ pc'[m] = "crashed" \/ result'[m] = "failed"
        BY <3>1, <3>3, <4>2 DEF Accounted, Pending
      <4> QED
        BY <3>6, <4>1, <4>2, GoesOn
    <3> QED
      BY <3>2, <3>4, <3>5, <3>6
  <2> QED
    BY <2>1, <2>2
<1> QED
  BY <1>1, <1>2 DEF LostInv

\* A token is lost only by a call that crashed or threw.
THEOREM LostOnlyByFailure == Spec => []TokenLostOnlyByFailure
<1>1. LostInv => TokenLostOnlyByFailure
  BY DEF LostInv, Accounted, TokenLostOnlyByFailure, Pending
<1> QED
  BY <1>1, InitTyped, NextTyped, InitTokenInv, NextTokenInv, InitUseInv, NextUseInv,
     InitLostInv, NextLostInv, PTL DEF Spec

\* A recorded use is that of a real token, and of what an earlier record says the token
\* was created for, even when the call that recorded it crashed or threw.
UsedInv == \A j \in 1..Len(ledger) : ledger[j].type = "approval_used" =>
  /\ ledger[j].token \in Approvals
  /\ \E i \in 1..Len(ledger) :
       /\ IsCreated(ledger[i], ledger[j].token)
       /\ ledger[i].action = ledger[j].action /\ ledger[i].packet = ledger[j].packet

\* At first there is no record.
LEMMA InitUsedInv == Init => UsedInv
  BY DEF Init, UsedInv

\* Each step keeps the records of use to real tokens and what they were created for.
LEMMA NextUsedInv == TypeOK /\ UseInv /\ ApprovedInv /\ UsedInv /\ [Next]_vars => UsedInv'
<1> SUFFICES ASSUME TypeOK, UseInv, ApprovedInv, UsedInv, [Next]_vars PROVE UsedInv'
  OBVIOUS
<1>1. CASE ledger' = ledger
  BY <1>1 DEF UsedInv, IsCreated
<1>2. ASSUME NEW c \in Calls, AppendRecord(c), ledger' # ledger PROVE UsedInv'
  <2>1. /\ Len(ledger) \in Nat /\ Len(ledger') = Len(ledger) + 1
        /\ \A i \in 1..Len(ledger) : ledger'[i] = ledger[i] /\ i \in 1..Len(ledger')
        /\ ledger'[Len(ledger) + 1].type = entry[c].type
        /\ ledger'[Len(ledger) + 1].token = entry[c].token
        /\ ledger'[Len(ledger) + 1].action = entry[c].action
        /\ ledger'[Len(ledger) + 1].packet = entry[c].packet
    BY <1>2, Appended
  <2>2. ASSUME NEW j \in 1..Len(ledger), ledger'[j].type = "approval_used"
        PROVE  /\ ledger'[j].token \in Approvals
               /\ \E i \in 1..Len(ledger') :
                    /\ IsCreated(ledger'[i], ledger'[j].token)
                    /\ ledger'[i].action = ledger'[j].action
                    /\ ledger'[i].packet = ledger'[j].packet
    <3>1. ledger'[j] = ledger[j]
      BY <2>1
    <3>2. PICK i \in 1..Len(ledger) :
            /\ IsCreated(ledger[i], ledger[j].token)
            /\ ledger[i].action = ledger[j].action /\ ledger[i].packet = ledger[j].packet
      BY <2>2, <3>1 DEF UsedInv
    <3>3. ledger[j].token \in Approvals
      BY <2>2, <3>1 DEF UsedInv
    <3>4. ledger'[i] = ledger[i] /\ i \in 1..Len(ledger')
      BY <2>1
    <3> QED
      BY <3>1, <3>2, <3>3, <3>4
  <2>3. ASSUME entry[c].type = "approval_used"
        PROVE  /\ entry[c].token \in Approvals
               /\ \E i \in 1..Len(ledger') :
                    /\ IsCreated(ledger'[i], entry[c].token)
                    /\ ledger'[i].action = entry[c].action
                    /\ ledger'[i].packet = entry[c].packet
    <3>1. Pending(c)
      BY <1>2, <2>3 DEF AppendRecord, Pending
    <3>2. entry[c].token = arg[c].token /\ entry[c].token \in Approvals
      BY <3>1 DEF UseInv
    <3>3. PICK i \in 1..Len(ledger) : Approved(c, i)
      BY <3>1 DEF ApprovedInv
    <3>4. entry[c].action = arg[c].action /\ entry[c].packet = packet[c]
      BY <3>1 DEF ApprovedInv
    <3>5. ledger'[i] = ledger[i] /\ i \in 1..Len(ledger')
      BY <2>1
    <3> QED
      BY <3>2, <3>3, <3>4, <3>5 DEF Approved
  <2>4. \A j \in 1..Len(ledger') : ledger'[j].type = "approval_used" =>
          /\ ledger'[j].token \in Approvals
          /\ \E i \in 1..Len(ledger') :
               /\ IsCreated(ledger'[i], ledger'[j].token)
               /\ ledger'[i].action = ledger'[j].action
               /\ ledger'[i].packet = ledger'[j].packet
    <3> TAKE j \in 1..Len(ledger')
    <3>1. CASE j \in 1..Len(ledger)
      BY <2>2, <3>1
    <3>2. CASE j = Len(ledger) + 1
      BY <2>1, <2>3, <3>2
    <3> QED
      BY <2>1, <3>1, <3>2
  <2> QED
    BY <2>4 DEF UsedInv, IsCreated
<1> QED
  BY <1>1, <1>2, LedgerGrows

\* What reconciles with a production commit was approved for it and claimed.
THEOREM ReconciliationSound == Spec => []ReconcileSound
<1>1. UseInv /\ UsedInv => ReconcileSound
  <2> SUFFICES ASSUME UseInv, UsedInv, NEW head \in Heads, Reconciles(head)
               PROVE  \E t \in Approvals, i \in 1..Len(ledger) :
                        /\ IsCreated(ledger[i], t) /\ marker[t] # None
                        /\ ledger[i].packet.head = head
                        /\ classifyGuardAction(ledger[i].action) = "deploy"
    BY Zenon DEF ReconcileSound
  <2>1. PICK j \in 1..Len(ledger) :
          /\ ledger[j].type = "approval_used" /\ ledger[j].packet.head = head
          /\ classifyGuardAction(ledger[j].action) = "deploy"
    BY DEF Reconciles
  <2>2. PICK t \in Approvals : t = ledger[j].token
    BY <2>1 DEF UsedInv
  <2>3. marker[t] # None
    BY <2>1, <2>2 DEF UseInv, IsUsed
  <2>4. PICK i \in 1..Len(ledger) :
          /\ IsCreated(ledger[i], t)
          /\ ledger[i].action = ledger[j].action /\ ledger[i].packet = ledger[j].packet
    BY <2>1, <2>2 DEF UsedInv
  <2> QED
    BY <2>1, <2>3, <2>4
<1> QED
  BY <1>1, InitTyped, NextTyped, InitTokenInv, NextTokenInv, InitUseInv, NextUseInv,
     InitApprovedInv, NextApprovedInv, InitUsedInv, NextUsedInv, PTL DEF Spec

-----------------------------------------------------------------------------
\* The guard implements the one-time approval.

\* Who was let through stays so, with what it asked; and it comes to that only by
\* recording a use.
LEMMA GrantSteps ==
  ASSUME TypeOK, UseInv, [Next]_vars, NEW d \in Calls
  PROVE  /\ Accepted(d) => Accepted(d)' /\ arg'[d] = arg[d] /\ packet'[d] = packet[d]
         /\ Accepted(d)' /\ ~Accepted(d) =>
              /\ AppendRecord(d) /\ entry[d].type = "approval_used"
              /\ ledger' # ledger
<1> DEFINE Steps ==
      /\ Accepted(d) => Accepted(d)' /\ arg'[d] = arg[d] /\ packet'[d] = packet[d]
      /\ Accepted(d)' /\ ~Accepted(d) =>
           /\ AppendRecord(d) /\ entry[d].type = "approval_used"
           /\ ledger' # ledger
<1> SUFFICES Steps
  OBVIOUS
<1>0. Accepted(d) => pc[d] \in Over
  BY DEF UseInv, Over
<1>1. Accepted(d) => Accepted(d)' /\ arg'[d] = arg[d]
  BY <1>0, GoesOn DEF Accepted, Over
<1>2. ASSUME NEW c \in Calls, Start(c) PROVE Steps
  <2>1. UNCHANGED packet /\ (UNCHANGED result \/ result' = [result EXCEPT ![c] = "failed"])
    BY <1>2 DEF Start, CreateApprovalToken, GuardAction, SetFreezeState, RefuseText, Begin, Return
  <2> QED
    BY <1>1, <2>1 DEF TypeOK, Accepted
<1>3. ASSUME NEW c \in Calls, AppendRecord(c) PROVE Steps
  <2>1. UNCHANGED packet
    BY <1>3 DEF AppendRecord
  <2>2. \/ result' = [result EXCEPT ![c] = "failed"]
        \/ /\ result' = [result EXCEPT ![c] = Outcome(entry[c].type)]
           /\ ledger' = Append(ledger, [entry[c] EXCEPT !.prev = tail[c]])
    BY <1>3 DEF AppendRecord
  <2>3. Outcome(entry[c].type) = "approval_token_accepted" => entry[c].type = "approval_used"
    BY DEF Outcome, TypeOK, Records, RecordTypes
  <2>4. ledger' = Append(ledger, [entry[c] EXCEPT !.prev = tail[c]]) => ledger' # ledger
    <3>1. ledger' = Append(ledger, [entry[c] EXCEPT !.prev = tail[c]]) => Len(ledger') # Len(ledger)
      BY DEF TypeOK
    <3> QED
      BY <3>1
  <2>5. Accepted(d)' /\ ~Accepted(d) =>
          d = c /\ entry[d].type = "approval_used" /\ ledger' # ledger
    BY <2>2, <2>3, <2>4 DEF TypeOK, Accepted
  <2> QED
    BY <1>1, <1>3, <2>1, <2>5
<1>4. ASSUME NEW c \in Calls, Crash(c) \/ (Step(c) /\ ~AppendRecord(c)) PROVE Steps
  <2>1. Verdict(c) # "approval_token_accepted" /\ \A r : Check(c, r) # "approval_token_accepted"
    BY DEF Verdict, Check
  <2>2. /\ \/ UNCHANGED result
           \/ \E r : /\ r # "approval_token_accepted"
                    /\ result' = [result EXCEPT ![c] = r]
        /\ \/ UNCHANGED packet
           \/ pc[c] \notin Over /\ \E p : packet' = [packet EXCEPT ![c] = p]
    BY <1>4, <2>1 DEF Step, Crash, ReadBranch, ReadHead, MintToken, GuardPacket, ReadDiff,
         ReadFreeze, Redeem, ClaimTokenUse, TruncateFreeze, FillFreeze, Acquire, LockTimeout,
         ReadTail, WritePart, Release, Return, AppendNext, callVars, Over
  <2> QED
    BY <1>0, <1>1, <2>2 DEF TypeOK, Accepted
<1>5. CASE ChangeRepo \/ Tick \/ UNCHANGED vars
  BY <1>1, <1>5 DEF ChangeRepo, Tick, vars, callVars, Accepted
<1> QED
  BY <1>2, <1>3, <1>4, <1>5 DEF Next

\* The scope of a token is what the one record of its creation says.
LEMMA ScopeIs ==
  CreatedInv => \A i \in 1..Len(ledger), t \in Approvals : IsCreated(ledger[i], t) =>
                  ScopeOf(t) = [action |-> ledger[i].action, packet |-> ledger[i].packet]
  BY DEF CreatedInv, ScopeOf

\* Without such a record it has none.
LEMMA NoScope ==
  \A t \in Approvals : (\A i \in 1..Len(ledger) : ~IsCreated(ledger[i], t)) => ScopeOf(t) = None
  BY DEF ScopeOf

\* A token that is created has a scope, and keeps it.
LEMMA ScopeStays ==
  ASSUME TypeOK, CreatedInv, [Next]_vars, NEW t \in Approvals,
         NEW i \in 1..Len(ledger), IsCreated(ledger[i], t)
  PROVE  ScopeOf(t) # None /\ ScopeOf(t)' = ScopeOf(t)
<1>1. ScopeOf(t) = [action |-> ledger[i].action, packet |-> ledger[i].packet]
  BY ScopeIs
<1>2. ScopeOf(t) \in Scopes
  <2>1. ledger[i] \in Records
    BY DEF TypeOK
  <2> QED
    BY <1>1, <2>1 DEF Records, Scopes
<1>3. CreatedInv'
  BY NextCreatedInv
<1>4. i \in 1..Len(ledger') /\ ledger'[i] = ledger[i]
  BY LedgerGrows
<1>5. IsCreated(ledger'[i], t)
  BY <1>4 DEF IsCreated
<1>6. ScopeOf(t)' = [action |-> ledger'[i].action, packet |-> ledger'[i].packet]
  BY <1>3, <1>4, <1>5 DEF CreatedInv, ScopeOf
<1> QED
  BY <1>1, <1>2, <1>4, <1>6, ScopesAssumption DEF ScopesAssumption

\* The token of a call that appends nothing new keeps its scope, or its lack of one.
LEMMA ScopeKept ==
  ASSUME TypeOK, CreatedInv, [Next]_vars, NEW t \in Approvals,
         \A i \in 1..Len(ledger') : IsCreated(ledger'[i], t) => i \in 1..Len(ledger)
  PROVE  ScopeOf(t)' = ScopeOf(t)
<1>1. CASE \E i \in 1..Len(ledger) : IsCreated(ledger[i], t)
  BY <1>1, ScopeStays
<1>2. CASE \A i \in 1..Len(ledger) : ~IsCreated(ledger[i], t)
  <2>1. \A i \in 1..Len(ledger') : ~IsCreated(ledger'[i], t)
    BY <1>2, LedgerGrows DEF IsCreated
  <2> QED
    BY <1>2, <2>1 DEF ScopeOf
<1> QED
  BY <1>1, <1>2

\* The grants stay where nobody new is let through.
LEMMA GrantKept ==
  ASSUME TypeOK, UseInv, [Next]_vars, NEW d \in Guards, Accepted(d)' => Accepted(d)
  PROVE  GrantTo(d)' = GrantTo(d)
  BY GrantSteps DEF GrantTo, Calls

\* At first nothing is approved, claimed or granted.
LEMMA InitRefines == Init => OneTime!Init
<1> SUFFICES ASSUME Init PROVE OneTime!Init
  OBVIOUS
<1>1. \A t \in Approvals : ScopeOf(t) = None
  BY NoScope DEF Init
<1>2. \A c \in Guards : GrantTo(c) = None
  BY DEF Init, GrantTo, Accepted, Calls
<1> QED
  BY <1>1, <1>2 DEF Init, OneTime!Init

\* Every step of the guard approves, claims, grants, or changes none of these.
LEMMA NextRefines ==
  /\ TypeOK /\ TokenInv /\ UseInv /\ ApprovedInv /\ CreatedInv /\ LostInv
  /\ [Next]_vars
  => [OneTime!Next]_(OneTime!vars)
<1> SUFFICES ASSUME TypeOK, TokenInv, UseInv, ApprovedInv, CreatedInv, LostInv, [Next]_vars
             PROVE  OneTime!Next \/ UNCHANGED OneTime!vars
  OBVIOUS
<1> DEFINE scope == [t \in Approvals |-> ScopeOf(t)]
           granted == [c \in Guards |-> GrantTo(c)]
<1>1. CASE ledger' = ledger /\ marker' = marker
  <2>1. \A t \in Approvals : ScopeOf(t)' = ScopeOf(t)
    BY <1>1, ScopeKept
  <2>2. \A c \in Guards : GrantTo(c)' = GrantTo(c)
    BY <1>1, GrantSteps, GrantKept DEF Calls
  <2>3. scope' = scope /\ granted' = granted
    BY <2>1, <2>2
  <2> QED
    BY <1>1, <2>3 DEF OneTime!vars
<1>2. CASE marker' # marker
  <2>1. PICK t \in Approvals : marker'[t] # marker[t]
    BY <1>2, NextTyped DEF TypeOK
  <2>2. PICK c \in Guards : /\ ClaimTokenUse(c) /\ marker' = [marker EXCEPT ![t] = c]
                           /\ marker[t] = None /\ arg[c].token = t /\ pc[c] = "claim"
                           /\ UNCHANGED <<ledger, arg>>
    <3>1. ASSUME NEW c \in Calls, Start(c) \/ Crash(c) PROVE UNCHANGED marker
      BY <3>1 DEF Start, Crash, CreateApprovalToken, GuardAction, SetFreezeState, RefuseText, Begin
    <3>2. ASSUME NEW c \in Calls, Step(c) PROVE UNCHANGED marker \/ ClaimTokenUse(c)
      BY <3>2 DEF Step, ReadBranch, ReadHead, MintToken, GuardPacket, ReadDiff, ReadFreeze, Redeem,
           TruncateFreeze, FillFreeze, Acquire, LockTimeout, ReadTail, WritePart, AppendRecord, Release
    <3>3. PICK c \in Calls : ClaimTokenUse(c)
      BY <1>2, <3>1, <3>2 DEF Next, ChangeRepo, Tick, vars
    <3>4. /\ marker[arg[c].token] = None /\ marker' = [marker EXCEPT ![arg[c].token] = c]
          /\ c \in Guards /\ pc[c] = "claim" /\ UNCHANGED <<ledger, arg>>
      BY <1>2, <3>3 DEF ClaimTokenUse
    <3>5. t = arg[c].token
      BY <2>1, <3>4 DEF TypeOK
    <3> QED
      BY <3>3, <3>4, <3>5
  <2>3. \A u \in Approvals : ScopeOf(u)' = ScopeOf(u)
    BY <2>2, ScopeKept
  <2>4. \A d \in Guards : GrantTo(d)' = GrantTo(d)
    BY <2>2, GrantSteps, GrantKept DEF Calls
  <2>5. scope[t] # None
    <3>1. PICK i \in 1..Len(ledger) : IsCreated(ledger[i], t)
      BY <2>2 DEF ApprovedInv, Approved, Calls
    <3> QED
      BY <3>1, ScopeStays
  <2>6. \A u \in Approvals : marker[u] # c
    <3>1. ASSUME NEW u \in Approvals, marker[u] = c PROVE FALSE
      <4>1. c # None
        BY CallsAssumption DEF CallsAssumption, Calls
      <4>2. arg[c].token = u
        BY <3>1, <4>1 DEF LostInv, Accounted
      <4> QED
        BY <2>2, <3>1, <4>1, <4>2
    <3> QED
      BY <3>1
  <2>7. scope' = scope /\ granted' = granted
    BY <2>3, <2>4
  <2>8. OneTime!Claim(t, c)
    BY <2>2, <2>5, <2>6, <2>7 DEF OneTime!Claim
  <2> QED
    BY <2>8 DEF OneTime!Next
<1>3. ASSUME NEW c \in Calls, AppendRecord(c), ledger' # ledger
      PROVE  OneTime!Next \/ UNCHANGED OneTime!vars
  <2>0. marker' = marker /\ pc[c] = "write" /\ UNCHANGED <<arg, packet>>
    BY <1>3 DEF AppendRecord
  <2>1. \A d \in Calls : Accepted(d)' => Accepted(d) \/ (d = c /\ entry[c].type = "approval_used")
    <3>1. \E r \in {Outcome(entry[c].type), "failed"} : result' = [result EXCEPT ![c] = r]
      BY <1>3, Appended
    <3>2. Outcome(entry[c].type) = "approval_token_accepted" => entry[c].type = "approval_used"
      BY DEF Outcome, TypeOK, Records, RecordTypes
    <3> QED
      BY <3>1, <3>2 DEF TypeOK, Accepted
  <2>2. \A t \in Approvals : t # c \/ ~Creating(c) => ScopeOf(t)' = ScopeOf(t)
    <3>1. ASSUME NEW t \in Approvals, t # c \/ ~Creating(c), NEW i \in 1..Len(ledger'),
                 IsCreated(ledger'[i], t)
          PROVE  i \in 1..Len(ledger)
      <4>1. entry[c].type = "approval_created" => Creating(c) /\ entry[c].token = c
        BY <2>0 DEF Creating, CreatedInv
      <4> QED
        BY <1>3, <3>1, <4>1, Appended DEF IsCreated
    <3> QED
      BY <3>1, ScopeKept
  <2>3. CASE entry[c].type = "approval_used" /\ Accepted(c)'
    <3>1. /\ Pending(c) /\ c \in Guards /\ arg[c].token \in Approvals
          /\ marker[arg[c].token] = c
      BY <2>0, <2>3 DEF Pending, UseInv
    <3>2. scope' = scope
      BY <2>2, <2>3 DEF Creating
    <3>3. GrantTo(c) = None
      BY <2>0, <3>1 DEF GrantTo, UseInv, Calls
    <3>4. GrantTo(c)' = scope[arg[c].token]
      <4>1. PICK i \in 1..Len(ledger) : Approved(c, i)
        BY <3>1 DEF ApprovedInv
      <4>2. ScopeOf(arg[c].token) = [action |-> arg[c].action, packet |-> packet[c]]
        BY <3>1, <4>1, ScopeIs DEF Approved
      <4> QED
        BY <2>0, <2>3, <3>1, <4>2 DEF GrantTo, Accepted
    <3>5. \A d \in Guards : d # c => GrantTo(d)' = GrantTo(d)
      BY <2>1, GrantKept DEF Calls
    <3>6. granted' = [granted EXCEPT ![c] = scope[arg[c].token]]
      BY <3>1, <3>4, <3>5
    <3>7. OneTime!Grant(arg[c].token, c)
      BY <2>0, <3>1, <3>2, <3>3, <3>6 DEF OneTime!Grant
    <3> QED
      BY <3>1, <3>7 DEF OneTime!Next
  <2>4. CASE entry[c].type # "approval_used" \/ ~Accepted(c)'
    <3>1. \A d \in Guards : GrantTo(d)' = GrantTo(d)
      BY <2>1, <2>4, GrantKept DEF Calls
    <3>2. granted' = granted
      BY <3>1
    <3>3. CASE Creating(c)
      <4>1. c \in Approvals
        <5>1. entry[c].token = c /\ entry[c] \in Records /\ c # None
          BY <3>3, CallsAssumption DEF CreatedInv, TypeOK, CallsAssumption
        <5> QED
          BY <5>1 DEF Records
      <4>2. \A i \in 1..Len(ledger) : ~IsCreated(ledger[i], c)
        BY <2>0, <4>1 DEF CreatedInv, Over
      <4>3. scope[c] = None
        BY <4>1, <4>2, NoScope
      <4>4. ScopeOf(c)' \in Scopes
        <5>1. PICK n \in 1..Len(ledger') : IsCreated(ledger'[n], c)
          BY <1>3, <3>3, Appended DEF CreatedInv, Creating, IsCreated
        <5>2. CreatedInv' /\ TypeOK'
          BY NextCreatedInv, NextTyped
        <5>3. ScopeOf(c)' = [action |-> ledger'[n].action, packet |-> ledger'[n].packet]
          BY <4>1, <5>1, <5>2 DEF CreatedInv, ScopeOf
        <5>4. ledger'[n] \in Records
          BY <5>2 DEF TypeOK
        <5> QED
          BY <5>3, <5>4 DEF Records, Scopes
      <4>5. PICK s \in Scopes : s = ScopeOf(c)'
        BY <4>4
      <4>6. scope' = [scope EXCEPT ![c] = s]
        BY <2>2, <4>1, <4>5
      <4>7. OneTime!Approve(c)
        BY <2>0, <3>2, <4>3, <4>6 DEF OneTime!Approve
      <4> QED
        BY <4>1, <4>7 DEF OneTime!Next
    <3>4. CASE ~Creating(c)
      <4>1. scope' = scope
        BY <2>2, <3>4
      <4> QED
        BY <2>0, <3>2, <4>1 DEF OneTime!vars
    <3> QED
      BY <3>3, <3>4
  <2> QED
    BY <2>3, <2>4
<1> QED
  BY <1>1, <1>2, <1>3, LedgerGrows

\* The guard implements the one-time approval: whatever calls run, crash or time out,
\* a token is approved once, claimed once, and grants what it was approved for.
THEOREM Refinement == Spec => ImplementsOneTimeApproval
<1>1. Init => OneTime!Init
  BY InitRefines
<1> QED
  BY <1>1, InitTyped, NextTyped, InitTokenInv, NextTokenInv, InitUseInv, NextUseInv,
     InitApprovedInv, NextApprovedInv, InitCreatedInv, NextCreatedInv,
     InitLostInv, NextLostInv, NextRefines, PTL DEF Spec, ImplementsOneTimeApproval, OneTime!Spec
=============================================================================
