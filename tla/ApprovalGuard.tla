--------------------------- MODULE ApprovalGuard ---------------------------
(***************************************************************************)
(* The agent action guard (packages/guard/src/index.ts): calls of          *)
(* createApprovalToken, guardAction and setFreezeState, each its own       *)
(* process, running over one repository and one .oaa directory.            *)
(*                                                                         *)
(* A call is cut at every point where another process can come between:    *)
(* each git command, each file operation.  The directory holds             *)
(*   ledger   approval-ledger.jsonl, one record per line                   *)
(*   torn     whether its last line is only a part of a record             *)
(*   lock     approval-ledger.jsonl.lock, a directory made to exclude      *)
(*   marker   used-tokens/<token id>.json, created once                    *)
(*   freeze   freeze.json                                                  *)
(* A crash ends a call wherever it is and leaves the files as they are.    *)
(***************************************************************************)
EXTENDS ActionClass, Integers, Sequences

CONSTANTS
  Approvals,  \* calls of createApprovalToken; a call also names the token it mints
  Guards,     \* calls of guardAction
  Freezes,    \* calls of setFreezeState
  None,       \* no call, no value
  Actions,    \* the actions asked for, each a set of keywords
  Branches,   \* a branch of a repository (record.repo.id and .branch)
  Heads,      \* commits HEAD may name
  Trees,      \* contents of the working tree
  TTLs,       \* values of ttlMinutes callers pass
  MaxTTL,     \* 1440 in the code
  MaxTime,    \* bound on the clock
  MaxEdits    \* bound on the changes made to the repository

Calls == Approvals \cup Guards \cup Freezes

ASSUME CallsAssumption ==
  /\ Approvals \cap Guards = {}
  /\ Approvals \cap Freezes = {}
  /\ Guards \cap Freezes = {}
  /\ None \notin Calls \cup Branches \cup Heads \cup Trees

ASSUME ValuesAssumption ==
  /\ Actions \subseteq SUBSET Words
  /\ TTLs \subseteq Nat
  /\ MaxTTL \in Nat
  /\ MaxTime \in Nat
  /\ MaxEdits \in Nat

VARIABLES
  repo,    \* the repository: branch, HEAD and working tree
  edits,   \* how often it has been changed
  freeze,  \* contents of freeze.json
  ledger,  \* the records of the approval ledger, one whole line each
  torn,    \* the call that has left a part of a line at the ledger's end, or None
  lock,    \* the call that made the lock directory, or None
  marker,  \* marker[t]: the call that created the used-token file of t, or None
  now,     \* Date.now(), in the unit of the TTLs
  pc,      \* where each call is
  arg,     \* what each call was asked
  packet,  \* the diff packet (or snapshot) each call has read so far
  entry,   \* the record each call is about to append
  tail,    \* number of ledger lines each call read under the lock
  result,  \* what each call returned ("failed": it threw)
  began,   \* history: the time each call began
  thawed   \* history: freeze.json did not say active at some time since the call began

repoVars == <<repo, edits, now>>
callVars == <<arg, packet, entry, tail, result>>
history  == <<began, thawed>>
vars == <<repo, edits, freeze, ledger, torn, lock, marker, now, pc, arg, packet, entry, tail,
          result, began, thawed>>

-----------------------------------------------------------------------------
\* Values.

\* The form of options.approvalToken: absent; not "<uuid>.<secret>"; the id of a
\* token with a secret that is not its own; the token as createApprovalToken
\* returned it.
TokenForms == {"absent", "malformed", "forged", "genuine"}

Args == [action : Actions \cup {{}}, form : TokenForms,
         token : Approvals \cup {None}, ttl : TTLs \cup {0}, active : BOOLEAN]

\* A diff packet.  diffHash digests branch, head and the difference between the
\* working tree and the HEAD it was taken against ("base", which a commit made
\* between two git commands can make other than "head"), so that two packets
\* have the same hash exactly when they are equal.
Packets == [branch : Branches \cup {None}, head : Heads \cup {None},
            base : Heads \cup {None}, tree : Trees \cup {None}]

EmptyPacket == [branch |-> None, head |-> None, base |-> None, tree |-> None]

RecordTypes == {"approval_created", "approval_used", "approval_rejected",
                "freeze_on", "freeze_off"}

\* A ledger record.  previousRecordHash is a digest of the whole line before; it
\* is modelled by the number of that line, 0 standing for undefined.
Records == [type : RecordTypes, action : Actions \cup {{}}, packet : Packets,
            token : Approvals \cup {None}, expires : Nat, prev : Nat]

FreezeContents == {"missing", "empty", "corrupt", "on", "off"}

Results == {"none", "failed", "issued", "set",
            "low_risk_action_allowed_without_approval", "approval_token_accepted",
            "freeze_active", "approval_token_required",
            "malformed_approval_token", "approval_token_not_found",
            "approval_token_secret_mismatch", "approval_token_already_used",
            "approval_token_expired", "approval_action_mismatch",
            "approval_packet_mismatch"}

Places == {"idle", "branch", "head", "diff", "freeze", "redeem", "claim",
           "truncate", "fill", "lock", "read", "write", "release",
           "done", "crashed"}

Record(type, action, pk, token, expires) ==
  [type |-> type, action |-> action, packet |-> pk, token |-> token,
   expires |-> expires, prev |-> 0]

NoRecord == Record("freeze_off", {}, EmptyPacket, None, 0)

\* What the call returns once its record is in the file.
Outcome(type) ==
  CASE type = "approval_created"  -> "issued"
    [] type = "approval_used"     -> "approval_token_accepted"
    [] type = "approval_rejected" -> "approval_token_expired"
    [] OTHER                      -> "set"

Init ==
  /\ repo \in [branch : Branches, head : Heads, tree : Trees]
  /\ edits = 0
  /\ freeze = "missing"
  /\ ledger = <<>>
  /\ torn = None
  /\ lock = None
  /\ marker = [t \in Approvals |-> None]
  /\ now = 0
  /\ pc = [c \in Calls |-> "idle"]
  /\ arg = [c \in Calls |-> [action |-> {}, form |-> "absent", token |-> None,
                             ttl |-> 0, active |-> FALSE]]
  /\ packet = [c \in Calls |-> EmptyPacket]
  /\ entry = [c \in Calls |-> NoRecord]
  /\ tail = [c \in Calls |-> 0]
  /\ result = [c \in Calls |-> "none"]
  /\ began = [c \in Calls |-> 0]
  /\ thawed = [c \in Calls |-> FALSE]

-----------------------------------------------------------------------------
\* Building blocks of the actions.

Goto(c, place) == pc' = [pc EXCEPT ![c] = place]

\* c returns r, or throws when r is "failed".
Return(c, r) == /\ Goto(c, "done")
                /\ result' = [result EXCEPT ![c] = r]

\* c goes on to append record e (appendApprovalRecord).
AppendNext(c, e) == /\ Goto(c, "lock")
                    /\ entry' = [entry EXCEPT ![c] = e]

\* c begins with the arguments a.
Begin(c, a) ==
  /\ pc[c] = "idle"
  /\ arg' = [arg EXCEPT ![c] = a]
  /\ Goto(c, "branch")
  /\ began' = [began EXCEPT ![c] = now]
  /\ thawed' = [thawed EXCEPT ![c] = (freeze # "on")]
  /\ UNCHANGED <<repoVars, freeze, ledger, torn, lock, marker, packet, entry, tail, result>>

-----------------------------------------------------------------------------
\* Calls begin.

CreateApprovalToken(c) ==
  /\ c \in Approvals
  /\ \E a \in Actions, ttl \in TTLs :
       Begin(c, [arg[c] EXCEPT !.action = a, !.ttl = ttl])

\* A genuine token is one that createApprovalToken has returned; the id inside a
\* forged one may be anything, that of a token never minted included.
GuardAction(c) ==
  /\ c \in Guards
  /\ \E a \in Actions :
       \/ \E form \in {"absent", "malformed"} :
            Begin(c, [arg[c] EXCEPT !.action = a, !.form = form])
       \/ \E t \in Approvals :
            Begin(c, [arg[c] EXCEPT !.action = a, !.form = "forged", !.token = t])
       \/ \E t \in Approvals :
            /\ pc[t] = "done" /\ result[t] = "issued"
            /\ Begin(c, [arg[c] EXCEPT !.action = a, !.form = "genuine", !.token = t])

SetFreezeState(c) ==
  /\ c \in Freezes
  /\ \E active \in BOOLEAN : Begin(c, [arg[c] EXCEPT !.active = active])

\* A note of fewer than 12 characters, or a reason of fewer than 6, is refused
\* before anything is read.
RefuseText(c) ==
  /\ c \in Approvals \cup Freezes
  /\ pc[c] = "idle"
  /\ Return(c, "failed")
  /\ UNCHANGED <<repoVars, freeze, ledger, torn, lock, marker, arg, packet, entry, tail, history>>

-----------------------------------------------------------------------------
\* getRepoSnapshot and generateDiffPacket: one git command after another.

ReadBranch(c) ==
  /\ pc[c] = "branch"
  /\ packet' = [packet EXCEPT ![c].branch = repo.branch]
  /\ Goto(c, "head")
  /\ UNCHANGED <<repoVars, freeze, ledger, torn, lock, marker, arg, entry, tail, result, history>>

ReadHead(c) ==
  /\ pc[c] = "head"
  /\ packet' = [packet EXCEPT ![c].head = repo.head]
  /\ Goto(c, IF c \in Freezes THEN "truncate" ELSE "diff")
  /\ UNCHANGED <<repoVars, freeze, ledger, torn, lock, marker, arg, entry, tail, result, history>>

\* The difference is taken against the HEAD of this moment, not the one read above.
ReadDiff(c) ==
  /\ pc[c] = "diff"
  /\ packet' = [packet EXCEPT ![c].base = repo.head, ![c].tree = repo.tree]
  /\ UNCHANGED <<repoVars, freeze, ledger, torn, lock, marker, arg, tail, history>>

\* Slip: the expiry is reckoned backwards.
MintToken_Backwards(c) ==
  /\ c \in Approvals
  /\ ReadDiff(c)
  /\ AppendNext(c, Record("approval_created", arg[c].action, packet'[c], c,
                          now - arg[c].ttl))
  /\ UNCHANGED result

\* createApprovalToken checks the TTL after the packet and dates the token.
MintToken(c) ==
  /\ c \in Approvals
  /\ ReadDiff(c)
  /\ \/ /\ arg[c].ttl \in 1..MaxTTL
        /\ AppendNext(c, Record("approval_created", arg[c].action, packet'[c], c,
                                now + arg[c].ttl))
        /\ UNCHANGED result
     \/ /\ arg[c].ttl \notin 1..MaxTTL
        /\ Return(c, "failed")
        /\ UNCHANGED entry

GuardPacket(c) ==
  /\ c \in Guards
  /\ ReadDiff(c)
  /\ Goto(c, "freeze")
  /\ UNCHANGED <<entry, result>>

-----------------------------------------------------------------------------
\* guardAction: the freeze file, then the token.

\* Slip: the freeze file is asked only when there is no token.
Verdict_TokenFirst(c) ==
  IF ~actionRequiresApproval(arg[c].action)
  THEN "low_risk_action_allowed_without_approval"
  ELSE IF arg[c].form \in {"forged", "genuine"} THEN "redeem"
  ELSE IF freeze = "on" /\ classifyGuardAction(arg[c].action) # "emergency_override"
  THEN "freeze_active" ELSE "approval_token_required"

\* The verdict that needs no token, or "redeem".
Verdict(c) ==
  IF ~actionRequiresApproval(arg[c].action)
  THEN "low_risk_action_allowed_without_approval"
  ELSE IF freeze = "on" /\ classifyGuardAction(arg[c].action) # "emergency_override"
  THEN "freeze_active"
  ELSE IF arg[c].form = "absent" THEN "approval_token_required"
  ELSE IF arg[c].form = "malformed" THEN "malformed_approval_token"
  ELSE "redeem"

ReadFreeze(c) ==
  /\ c \in Guards
  /\ pc[c] = "freeze"
  /\ \/ /\ freeze \in {"empty", "corrupt"}     \* JSON.parse throws
        /\ Return(c, "failed")
     \/ /\ freeze \notin {"empty", "corrupt"}
        /\ Verdict(c) # "redeem"
        /\ Return(c, Verdict(c))
     \/ /\ freeze \notin {"empty", "corrupt"}
        /\ Verdict(c) = "redeem"
        /\ Goto(c, "redeem")
        /\ UNCHANGED result
  /\ UNCHANGED <<repoVars, freeze, ledger, torn, lock, marker, arg, packet, entry, tail, history>>

\* The record that created token t, and whether the ledger says t was used.
IsCreated(r, t) == r.type = "approval_created" /\ r.token = t
IsUsed(r, t)    == r.type = "approval_used" /\ r.token = t

\* Slip: the diff of the packet is not compared.
Check_AnyPacket(c, r) ==
  IF arg[c].form = "forged" THEN "approval_token_secret_mismatch"
  ELSE IF \E i \in 1..Len(ledger) : IsUsed(ledger[i], arg[c].token)
  THEN "approval_token_already_used"
  ELSE IF r.expires <= now THEN "approval_token_expired"
  ELSE "claim"

\* Slip: the expiry is not compared.
Check_NeverExpires(c, r) ==
  IF arg[c].form = "forged" THEN "approval_token_secret_mismatch"
  ELSE IF \E i \in 1..Len(ledger) : IsUsed(ledger[i], arg[c].token)
  THEN "approval_token_already_used"
  ELSE IF r.action # arg[c].action THEN "approval_action_mismatch"
  ELSE IF r.packet # packet[c] THEN "approval_packet_mismatch"
  ELSE "claim"

\* What redeemApprovalToken makes of the token against created record r: a
\* refusal, or "claim".
Check(c, r) ==
  IF arg[c].form = "forged" THEN "approval_token_secret_mismatch"
  ELSE IF \E i \in 1..Len(ledger) : IsUsed(ledger[i], arg[c].token)
  THEN "approval_token_already_used"
  ELSE IF r.expires <= now THEN "approval_token_expired"
  ELSE IF r.action # arg[c].action THEN "approval_action_mismatch"
  ELSE IF r.packet # packet[c] THEN "approval_packet_mismatch"
  ELSE "claim"

\* readApprovalLedger takes no lock, and throws on a line that does not parse:
\* one torn for good, or one that another call is still writing.
Redeem(c) ==
  /\ c \in Guards
  /\ pc[c] = "redeem"
  /\ \/ /\ torn # None
        /\ Return(c, "failed")
        /\ UNCHANGED entry
     \/ /\ torn = None
        /\ \A i \in 1..Len(ledger) : ~IsCreated(ledger[i], arg[c].token)
        /\ Return(c, "approval_token_not_found")
        /\ UNCHANGED entry
     \/ \E i \in 1..Len(ledger) :
          /\ torn = None
          /\ IsCreated(ledger[i], arg[c].token)
          /\ \/ /\ Check(c, ledger[i]) = "claim"
                /\ Goto(c, "claim")
                /\ UNCHANGED <<entry, result>>
             \/ /\ Check(c, ledger[i]) = "approval_token_expired"
                /\ AppendNext(c, Record("approval_rejected", arg[c].action, packet[c],
                                        arg[c].token, 0))
                /\ UNCHANGED result
             \/ /\ Check(c, ledger[i]) \notin {"claim", "approval_token_expired"}
                /\ Return(c, Check(c, ledger[i]))
                /\ UNCHANGED entry
  /\ UNCHANGED <<repoVars, freeze, ledger, torn, lock, marker, arg, packet, tail, history>>

\* Slip: the marker is written with flag "w", over the one that exists.
ClaimTokenUse_Overwrite(c) ==
  /\ c \in Guards
  /\ pc[c] = "claim"
  /\ marker' = [marker EXCEPT ![arg[c].token] = c]
  /\ AppendNext(c, Record("approval_used", arg[c].action, packet[c], arg[c].token, 0))
  /\ UNCHANGED <<repoVars, freeze, ledger, torn, lock, arg, packet, tail, result, history>>

\* Slip: the call returns when the marker is there, its record never written.
ClaimTokenUse_NoRecord(c) ==
  /\ c \in Guards
  /\ pc[c] = "claim"
  /\ \/ /\ marker[arg[c].token] = None
        /\ marker' = [marker EXCEPT ![arg[c].token] = c]
        /\ Return(c, "approval_token_accepted")
     \/ /\ marker[arg[c].token] # None
        /\ Return(c, "approval_token_already_used")
        /\ UNCHANGED marker
  /\ UNCHANGED <<repoVars, freeze, ledger, torn, lock, arg, packet, entry, tail, history>>

\* claimTokenUse: create the marker, or find that it exists.
ClaimTokenUse(c) ==
  /\ c \in Guards
  /\ pc[c] = "claim"
  /\ \/ /\ marker[arg[c].token] = None
        /\ marker' = [marker EXCEPT ![arg[c].token] = c]
        /\ AppendNext(c, Record("approval_used", arg[c].action, packet[c],
                                arg[c].token, 0))
        /\ UNCHANGED result
     \/ /\ marker[arg[c].token] # None
        /\ Return(c, "approval_token_already_used")
        /\ UNCHANGED <<marker, entry>>
  /\ UNCHANGED <<repoVars, freeze, ledger, torn, lock, arg, packet, tail, history>>

-----------------------------------------------------------------------------
\* setFreezeState: writeFile opens (and truncates), then writes.

\* From here on every running call has seen a moment without an active freeze
\* if freeze.json now says anything but "on".
NoteThaw == thawed' = [c \in Calls |-> thawed[c] \/ freeze' # "on"]

TruncateFreeze(c) ==
  /\ c \in Freezes
  /\ pc[c] = "truncate"
  /\ freeze' = "empty"
  /\ NoteThaw
  /\ Goto(c, "fill")
  /\ UNCHANGED <<repoVars, ledger, torn, lock, marker, callVars, began>>

\* Over the contents another call has written in between, the write replaces a
\* prefix: of a longer text, the end remains.
FillFreeze(c) ==
  /\ c \in Freezes
  /\ pc[c] = "fill"
  /\ LET mine == IF arg[c].active THEN "on" ELSE "off"
     IN freeze' \in (IF freeze = "empty" THEN {mine} ELSE {mine, "corrupt"})
  /\ NoteThaw
  /\ AppendNext(c, Record(IF arg[c].active THEN "freeze_on" ELSE "freeze_off",
                          {}, packet[c], None, 0))
  /\ UNCHANGED <<repoVars, ledger, torn, lock, marker, arg, packet, tail, result, began>>

-----------------------------------------------------------------------------
\* appendApprovalRecord under withLedgerLock.

\* Slip: mkdir with "recursive", which succeeds on a directory that exists.
Acquire_Recursive(c) ==
  /\ pc[c] = "lock"
  /\ lock' = c
  /\ Goto(c, "read")
  /\ UNCHANGED <<repoVars, freeze, ledger, torn, marker, callVars, history>>

Acquire(c) ==
  /\ pc[c] = "lock"
  /\ lock = None
  /\ lock' = c
  /\ Goto(c, "read")
  /\ UNCHANGED <<repoVars, freeze, ledger, torn, marker, callVars, history>>

\* Slip: the loop has no deadline.
LockTimeout_Never(c) == pc[c] = "lock" /\ lock = c /\ UNCHANGED vars

\* mkdir says EEXIST and 5 s have passed; how often it was retried is left out.
LockTimeout(c) ==
  /\ pc[c] = "lock"
  /\ lock # None
  /\ Return(c, "failed")
  /\ UNCHANGED <<repoVars, freeze, ledger, torn, lock, marker, arg, packet, entry, tail, history>>

\* Slip: a line that does not parse is skipped.
ReadTail_SkipTorn(c) ==
  /\ pc[c] = "read"
  /\ tail' = [tail EXCEPT ![c] = Len(ledger)]
  /\ Goto(c, "write")
  /\ UNCHANGED <<repoVars, freeze, ledger, torn, lock, marker, arg, packet, entry, result, history>>

\* appendApprovalRecord reads the ledger to name its last line, and throws on a
\* torn one.
ReadTail(c) ==
  /\ pc[c] = "read"
  /\ \/ /\ torn = None
        /\ tail' = [tail EXCEPT ![c] = Len(ledger)]
        /\ Goto(c, "write")
        /\ UNCHANGED result
     \/ /\ torn # None
        /\ result' = [result EXCEPT ![c] = "failed"]
        /\ Goto(c, "release")
        /\ UNCHANGED tail
  /\ UNCHANGED <<repoVars, freeze, ledger, torn, lock, marker, arg, packet, entry, history>>

\* The line reaches the file in parts.
WritePart(c) ==
  /\ pc[c] = "write"
  /\ torn = None
  /\ torn' = c
  /\ Goto(c, "write")
  /\ UNCHANGED <<repoVars, freeze, ledger, lock, marker, callVars, history>>

\* The record is whole, although closing the file may still fail; or the file
\* system refuses the line, or the rest of it, and what is written stays.
AppendRecord(c) ==
  /\ pc[c] = "write"
  /\ \/ /\ ledger' = Append(ledger, [entry[c] EXCEPT !.prev = tail[c]])
        /\ torn' = (IF torn = c THEN None ELSE torn)
        /\ result' \in {[result EXCEPT ![c] = r] : r \in {Outcome(entry[c].type), "failed"}}
     \/ /\ result' = [result EXCEPT ![c] = "failed"]
        /\ UNCHANGED <<ledger, torn>>
  /\ Goto(c, "release")
  /\ UNCHANGED <<repoVars, freeze, lock, marker, arg, packet, entry, tail, history>>

\* Slip: no "finally": a write that throws leaves the lock.
Release_OnlyOnSuccess(c) ==
  /\ pc[c] = "release"
  /\ lock' = IF result[c] = "failed" THEN lock ELSE None
  /\ Goto(c, "done")
  /\ UNCHANGED <<repoVars, freeze, ledger, torn, marker, callVars, history>>

Release(c) ==
  /\ pc[c] = "release"
  /\ lock' = None
  /\ Goto(c, "done")
  /\ UNCHANGED <<repoVars, freeze, ledger, torn, marker, callVars, history>>

-----------------------------------------------------------------------------
\* The environment.

Crash(c) ==
  /\ pc[c] \notin {"idle", "done", "crashed"}
  /\ Goto(c, "crashed")
  /\ UNCHANGED <<repoVars, freeze, ledger, torn, lock, marker, callVars, history>>

\* Somebody edits, commits or checks out.
ChangeRepo ==
  /\ edits < MaxEdits
  /\ edits' = edits + 1
  /\ repo' \in [branch : Branches, head : Heads, tree : Trees]
  /\ UNCHANGED <<freeze, ledger, torn, lock, marker, now, pc, callVars, history>>

Tick ==
  /\ now < MaxTime
  /\ now' = now + 1
  /\ UNCHANGED <<repo, edits, freeze, ledger, torn, lock, marker, pc, callVars, history>>

-----------------------------------------------------------------------------
Start(c) == CreateApprovalToken(c) \/ GuardAction(c) \/ SetFreezeState(c) \/ RefuseText(c)

Step(c) ==
  \/ ReadBranch(c) \/ ReadHead(c) \/ MintToken(c) \/ GuardPacket(c)
  \/ ReadFreeze(c) \/ Redeem(c) \/ ClaimTokenUse(c)
  \/ TruncateFreeze(c) \/ FillFreeze(c)
  \/ Acquire(c) \/ LockTimeout(c) \/ ReadTail(c) \/ WritePart(c) \/ AppendRecord(c)
  \/ Release(c)

Next ==
  \/ \E c \in Calls : Start(c) \/ Step(c) \/ Crash(c)
  \/ ChangeRepo
  \/ Tick

Spec == Init /\ [][Next]_vars

\* The event loop of a running process goes on: each call that has begun and not
\* crashed takes its next step.
Fairness == \A c \in Calls : WF_vars(Step(c))

LiveSpec == Spec /\ Fairness

-----------------------------------------------------------------------------
\* Operations that read and change nothing.

\* Every whole line names the line before it.
Chained == \A i \in 1..Len(ledger) : ledger[i].prev = i - 1

\* verifyApprovalLedger, which throws on a line that does not parse.
verifyApprovalLedger ==
  IF torn # None THEN "throws" ELSE IF Chained THEN "valid" ELSE "hash mismatch"

\* Slip: any record of a deployment will do, its creation included.
Reconciles_AnyRecord(head) ==
  /\ torn = None
  /\ \E i \in 1..Len(ledger) :
       /\ ledger[i].packet.head = head
       /\ classifyGuardAction(ledger[i].action) = "deploy"

\* reconcileVercelDeploymentApproval(productionCommit = head).ok, when the ledger
\* can be read.
Reconciles(head) ==
  /\ torn = None
  /\ \E i \in 1..Len(ledger) :
       /\ ledger[i].type = "approval_used"
       /\ ledger[i].packet.head = head
       /\ classifyGuardAction(ledger[i].action) = "deploy"

-----------------------------------------------------------------------------
\* Properties.

\* The types of the variables.
TypeOK ==
  /\ repo \in [branch : Branches, head : Heads, tree : Trees]
  /\ edits \in Nat /\ now \in Nat
  /\ freeze \in FreezeContents
  /\ ledger \in Seq(Records)
  /\ torn \in Calls \cup {None}
  /\ lock \in Calls \cup {None}
  /\ marker \in [Approvals -> Guards \cup {None}]
  /\ pc \in [Calls -> Places]
  /\ arg \in [Calls -> Args]
  /\ packet \in [Calls -> Packets]
  /\ entry \in [Calls -> Records]
  /\ tail \in [Calls -> Nat]
  /\ result \in [Calls -> Results]
  /\ began \in [Calls -> Nat]
  /\ thawed \in [Calls -> BOOLEAN]

Accepted(c) == result[c] = "approval_token_accepted"

\* However calls interleave, crash, fail or give up waiting, verifyApprovalLedger
\* never finds a line that names another than the line before it: two calls of
\* appendApprovalRecord never read the same last line.  It may throw, on a line
\* that a crash or a full disk cut short; then nothing has been appended since
\* that call read the ledger, so that the torn line is the last.
ChainValid ==
  /\ Chained
  /\ verifyApprovalLedger = "throws" => tail[torn] = Len(ledger)

\* No token lets two calls of guardAction through, and no token is recorded as
\* used twice, even when both calls found it unused in the ledger.
OneTimeUse ==
  /\ \A c, d \in Guards :
       Accepted(c) /\ Accepted(d) /\ arg[c].token = arg[d].token => c = d
  /\ \A i, j \in 1..Len(ledger), t \in Approvals :
       IsUsed(ledger[i], t) /\ IsUsed(ledger[j], t) => i = j

\* A call let through by a token asked for the action, on the branch, HEAD and
\* diff, that a call of createApprovalToken recorded, and its own use is recorded
\* after that.
AcceptedWasApproved ==
  \A c \in Guards : Accepted(c) =>
    \E i, j \in 1..Len(ledger) :
      /\ i < j
      /\ IsCreated(ledger[i], arg[c].token) /\ IsUsed(ledger[j], arg[c].token)
      /\ \A k \in {i, j} : /\ ledger[k].action = arg[c].action
                           /\ ledger[k].packet = packet[c]

\* A call that began when the token had already expired is not let through,
\* however long other calls wait between the check and the record.
RedeemedBeforeExpiry ==
  \A c \in Guards, i \in 1..Len(ledger) :
    Accepted(c) /\ IsCreated(ledger[i], arg[c].token) => began[c] < ledger[i].expires

\* A call that is not an emergency override is let through only if freeze.json
\* did not say active at some moment of the call.
FreezeRespected ==
  \A c \in Guards :
    /\ Accepted(c)
    /\ classifyGuardAction(arg[c].action) # "emergency_override"
    => thawed[c]

\* A token that was claimed but whose use is not recorded belongs to a call that
\* is still about to record it, crashed, or threw: nothing else burns a token.
TokenLostOnlyByFailure ==
  \A t \in Approvals : marker[t] # None =>
    \/ \E i \in 1..Len(ledger) : IsUsed(ledger[i], t)
    \/ pc[marker[t]] \in {"lock", "read", "write", "crashed"}
    \/ result[marker[t]] = "failed"

\* A deployment that reconciles with the ledger was approved at that commit by a
\* human, and the token was claimed by a guard call.
ReconcileSound ==
  \A head \in Heads : Reconciles(head) =>
    \E t \in Approvals, i \in 1..Len(ledger) :
      /\ IsCreated(ledger[i], t) /\ marker[t] # None
      /\ ledger[i].packet.head = head
      /\ classifyGuardAction(ledger[i].action) = "deploy"

\* While a crashed call's lock directory is there, nobody appends, even a part
\* of a line, and nobody removes it: the ledger waits for a human rather than fork.
DeadHolderStopsLedger ==
  [][lock # None /\ pc[lock] = "crashed" => UNCHANGED <<ledger, torn, lock>>]_vars

\* "When freeze mode is active, OAA blocks push, deploy, ... even if a valid
\* approval token exists" (docs/AGENT_ACTION_GUARD.md:192), taken at its word: no
\* call is let through while freeze.json says active.
FreezeBlocks ==
  [][\A c \in Guards :
       /\ Accepted(c)' /\ ~Accepted(c)
       /\ classifyGuardAction(arg[c].action) # "emergency_override"
       => freeze # "on"]_vars

\* Every call that begins ends, even when the holder of the lock is dead: the
\* wait for the ledger lock has a deadline.
EveryCallReturns ==
  \A c \in Calls : pc[c] # "idle" ~> pc[c] \in {"done", "crashed"}

\* If no call crashes, whoever takes the ledger lock gives it back, also when the
\* append throws.
LockReleased ==
  [](\A c \in Calls : pc[c] # "crashed")
    => \A c \in Calls : lock = c ~> lock # c

\* The guard implements the one-time approval: a token's scope is what the ledger
\* says it was created for, its holder the call that made the marker.
Scopes == [action : Actions \cup {{}}, packet : Packets]

ASSUME ScopesAssumption == None \notin Scopes

ScopeOf(t) ==
  IF \E i \in 1..Len(ledger) : IsCreated(ledger[i], t)
  THEN LET i == CHOOSE i \in 1..Len(ledger) : IsCreated(ledger[i], t)
       IN [action |-> ledger[i].action, packet |-> ledger[i].packet]
  ELSE None

GrantTo(c) ==
  IF Accepted(c) THEN [action |-> arg[c].action, packet |-> packet[c]] ELSE None

OneTime == INSTANCE OneTimeApproval WITH
  Tokens  <- Approvals,
  Users   <- Guards,
  scope   <- [t \in Approvals |-> ScopeOf(t)],
  holder  <- marker,
  granted <- [c \in Guards |-> GrantTo(c)]

ImplementsOneTimeApproval == OneTime!Spec
=============================================================================
