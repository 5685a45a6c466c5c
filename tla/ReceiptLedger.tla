--------------------------- MODULE ReceiptLedger ---------------------------
(***************************************************************************)
(* One receipt ledger (packages/core/src/receipts.ts): calls of            *)
(* appendReceipt, in any number of processes, on one JSONL file guarded by *)
(* a lock file.  A write may be cut short or fail, a call may die, and a   *)
(* human may remove the lock file that a call left behind.                 *)
(***************************************************************************)
EXTENDS Integers, Sequences

CONSTANTS
  Appends,    \* calls of appendReceipt; a call also names the receipt it writes
  None,       \* no call, no receipt
  MaxFaults   \* bound on the file operations that fail

ASSUME ReceiptAssumption == None \notin Appends /\ MaxFaults \in Nat

VARIABLES
  file,      \* the lines of the ledger
  lock,      \* the call that created the lock file, or None
  pc,        \* where each call is
  previous,  \* previousHash of each call's receipt: the receipt it follows, or None
  result,    \* "returned": the receipt is written; "failed": the call throws
  faults     \* number of file operations that have failed

vars == <<file, lock, pc, previous, result, faults>>

Forms == {"whole", "bare", "torn", "joined"}

\* A line: the receipt at its beginning, the previousHash in it, and
\*   whole   one receipt and its newline
\*   bare    one receipt, the newline not written: JSON, but the line goes on
\*   torn    a part of a receipt
\*   joined  a receipt with another (or a part of it) behind it
\* A receipt's hash digests everything in it, receiptId and previousHash
\* included; the name of the call that made it stands for it.
Lines == [receipt : Appends, prev : Appends \cup {None}, form : Forms,
          behind : Appends \cup {None}]

Places == {"lock", "pid", "read", "write", "rest", "release", "done", "crashed"}

Holding == {"pid", "read", "write", "rest", "release"}

Init ==
  /\ file = <<>>
  /\ lock = None
  /\ pc = [c \in Appends |-> "lock"]
  /\ previous = [c \in Appends |-> None]
  /\ result = [c \in Appends |-> "none"]
  /\ faults = 0

-----------------------------------------------------------------------------
\* Reading and writing the file.

\* JSON.parse takes a line that holds one receipt, with or without its newline.
Parses(line) == line.form \in {"whole", "bare"}

Readable(f) == \A i \in 1 .. Len(f) : Parses(f[i])

\* A slip: existing.at(-1) instead of existing.at(-1)?.receiptHash.
LastHash_Record(f) == IF f = <<>> THEN None ELSE f[Len(f)]

LastHash(f) == IF f = <<>> THEN None ELSE f[Len(f)].receipt

Line(c, prev, form) == [receipt |-> c, prev |-> prev, form |-> form, behind |-> None]

LacksNewline(f) == f # <<>> /\ f[Len(f)].form = "bare"

\* A slip: writeFile instead of appendFile.
Written_Truncate(f, c, prev, form) == <<Line(c, None, form)>>

\* What is appended to a line without a newline becomes part of that line.
Written(f, c, prev, form) ==
  IF LacksNewline(f)
  THEN [f EXCEPT ![Len(f)].form = "joined", ![Len(f)].behind = c]
  ELSE Append(f, Line(c, prev, form))

\* The rest of a write that had been cut short.
Completed(f) == IF f[Len(f)].form = "joined" THEN f ELSE [f EXCEPT ![Len(f)].form = "whole"]

-----------------------------------------------------------------------------
\* appendReceipt within withReceiptLedgerLock.

Fault == faults < MaxFaults /\ faults' = faults + 1

\* A slip: open(lockPath, "w"), which succeeds whoever has the lock.
Acquire_Overwrite(c) ==
  /\ pc[c] = "lock"
  /\ lock' = c
  /\ pc' = [pc EXCEPT ![c] = "pid"]
  /\ UNCHANGED <<file, previous, result, faults>>

\* open(lockPath, "wx") creates the file or fails with EEXIST.
Acquire(c) ==
  /\ pc[c] = "lock"
  /\ lock = None
  /\ lock' = c
  /\ pc' = [pc EXCEPT ![c] = "pid"]
  /\ UNCHANGED <<file, previous, result, faults>>

\* EEXIST once the deadline is over.
LockTimeout(c) ==
  /\ pc[c] = "lock"
  /\ lock # None
  /\ pc' = [pc EXCEPT ![c] = "done"]
  /\ result' = [result EXCEPT ![c] = "failed"]
  /\ UNCHANGED <<file, lock, previous, faults>>

WritePid(c) ==
  /\ pc[c] = "pid"
  /\ pc' = [pc EXCEPT ![c] = "read"]
  /\ UNCHANGED <<file, lock, previous, result, faults>>

\* The pid is written before the try that unlinks: the lock file stays.
PidFails(c) ==
  /\ pc[c] = "pid"
  /\ Fault
  /\ pc' = [pc EXCEPT ![c] = "done"]
  /\ result' = [result EXCEPT ![c] = "failed"]
  /\ UNCHANGED <<file, lock, previous>>

\* A slip: lines that do not parse are skipped instead of refused.
ReadLast_Skip(c) ==
  /\ pc[c] = "read"
  /\ previous' = [previous EXCEPT ![c] = LastHash(file)]
  /\ pc' = [pc EXCEPT ![c] = "write"]
  /\ UNCHANGED <<file, lock, result, faults>>

\* readReceiptLedger throws on a line that does not parse.
ReadLast(c) ==
  /\ pc[c] = "read"
  /\ IF Readable(file)
     THEN /\ previous' = [previous EXCEPT ![c] = LastHash(file)]
          /\ pc' = [pc EXCEPT ![c] = "write"]
          /\ UNCHANGED result
     ELSE /\ pc' = [pc EXCEPT ![c] = "release"]
          /\ result' = [result EXCEPT ![c] = "failed"]
          /\ UNCHANGED previous
  /\ UNCHANGED <<file, lock, faults>>

\* appendFile: the first write may take the line whole, without its newline, or
\* in part.
StartWrite(c) ==
  /\ pc[c] = "write"
  /\ \E form \in {"whole", "bare", "torn"} :
       file' = Written(file, c, previous[c], form)
  /\ pc' = [pc EXCEPT ![c] = "rest"]
  /\ UNCHANGED <<lock, previous, result, faults>>

EndWrite(c) ==
  /\ pc[c] = "rest"
  /\ file' = Completed(file)
  /\ result' = [result EXCEPT ![c] = "returned"]
  /\ pc' = [pc EXCEPT ![c] = "release"]
  /\ UNCHANGED <<lock, previous, faults>>

\* Nothing, or nothing more, can be written (or the close fails).
WriteFails(c) ==
  /\ pc[c] \in {"write", "rest"}
  /\ Fault
  /\ result' = [result EXCEPT ![c] = "failed"]
  /\ pc' = [pc EXCEPT ![c] = "release"]
  /\ UNCHANGED <<file, lock, previous>>

\* unlink(lockPath), whose failure is caught and dropped.
Release(c) ==
  /\ pc[c] = "release"
  /\ \/ lock' = None /\ UNCHANGED faults
     \/ Fault /\ UNCHANGED lock
  /\ pc' = [pc EXCEPT ![c] = "done"]
  /\ UNCHANGED <<file, previous, result>>

Crash(c) ==
  /\ pc[c] \in Holding
  /\ pc' = [pc EXCEPT ![c] = "crashed"]
  /\ UNCHANGED <<file, lock, previous, result, faults>>

\* A human removes a lock file whose call is over.
RemoveLock ==
  /\ lock # None
  /\ pc[lock] \in {"done", "crashed"}
  /\ lock' = None
  /\ UNCHANGED <<file, pc, previous, result, faults>>

Next ==
  \/ \E c \in Appends :
       \/ Acquire(c) \/ LockTimeout(c) \/ WritePid(c) \/ PidFails(c) \/ ReadLast(c)
       \/ StartWrite(c) \/ EndWrite(c) \/ WriteFails(c) \/ Release(c) \/ Crash(c)
  \/ RemoveLock

Spec == Init /\ [][Next]_vars

-----------------------------------------------------------------------------
\* Properties.

\* Every variable keeps its type.
TypeOK ==
  /\ file \in Seq(Lines)
  /\ lock \in Appends \cup {None}
  /\ pc \in [Appends -> Places]
  /\ previous \in [Appends -> Appends \cup {None}]
  /\ result \in [Appends -> {"none", "returned", "failed"}]
  /\ faults \in 0 .. MaxFaults

\* verifyReceiptChain never reports a hash mismatch, whatever fails: each line
\* names the receipt on the line before it.
ChainHolds ==
  \A i \in 1 .. Len(file) :
    file[i].prev = IF i = 1 THEN None ELSE file[i - 1].receipt

\* A receipt that appendReceipt returned stays in the file on a line of its own,
\* with one exception: appended behind a line that lost its newline, it makes the
\* last line unreadable, and then nothing follows.
ReturnedIsKept ==
  \A c \in Appends : result[c] = "returned" =>
    \/ \E i \in 1 .. Len(file) : file[i].receipt = c /\ file[i].form = "whole"
    \/ file # <<>> /\ file[Len(file)].behind = c

\* A ledger that no longer parses, and that nobody is writing, never changes
\* again: a later append neither hides the damage nor adds to it.
DamageStays ==
  [][~ Readable(file) /\ (\A c \in Appends : pc[c] # "rest") => file' = file]_vars
=============================================================================
