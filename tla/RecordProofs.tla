---------------------------- MODULE RecordProofs ----------------------------
(***************************************************************************)
(* What the machines that keep records promise, for any number of calls,   *)
(* faults, entries, anchors, writers, events, edits and retries: the       *)
(* receipt ledger, the store of evidence bundles, the event trails of      *)
(* receipts and the transparency log with its anchors.                     *)
(***************************************************************************)
EXTENDS MCLedgers, SequenceTheorems, Induction

-----------------------------------------------------------------------------
(* The receipt ledger: the lock excludes, a call that is about to write    *)
(* knows the last receipt of a file that parses, and only the last line can *)
(* be other than whole.                                                     *)

\* A call between open and unlink is the one that has the lock.
LockHeld == \A c \in Appends : pc[c] \in Holding => lock = c

\* Damage is confined to the last line, and a line is joined as soon as
\* anything is behind its receipt.
DamageAtEnd ==
  /\ \A i \in 1 .. Len(file) - 1 : file[i].form = "whole"
  /\ \A i \in 1 .. Len(file) : file[i].behind # None => file[i].form = "joined"

\* What a call read is still so when it writes.
Prepared ==
  \A c \in Appends : pc[c] = "write" => Readable(file) /\ previous[c] = LastHash(file)

\* A call in the middle of its write finds it at the end of the file.
WritesLast ==
  \A c \in Appends : pc[c] = "rest" =>
    /\ file # <<>>
    /\ file[Len(file)].receipt = c \/ file[Len(file)].behind = c
    /\ file[Len(file)].form = "joined" => file[Len(file)].behind = c

IInv ==
  /\ TypeOK
  /\ LockHeld
  /\ DamageAtEnd
  /\ Prepared
  /\ WritesLast
  /\ ChainHolds
  /\ ReturnedIsKept

-----------------------------------------------------------------------------
\* The file operations.

\* A write at the end of a file whose last line lacks its newline.
LEMMA WrittenBehind ==
  ASSUME NEW f \in Seq(Lines), NEW c \in Appends, NEW prev \in Appends \cup {None},
         NEW form \in Forms, LacksNewline(f), NEW g, g = Written(f, c, prev, form)
  PROVE  /\ g \in Seq(Lines)
         /\ Len(g) = Len(f)
         /\ \A i \in 1 .. Len(f) - 1 : g[i] = f[i]
         /\ g[Len(f)].receipt = f[Len(f)].receipt
         /\ g[Len(f)].prev = f[Len(f)].prev
         /\ g[Len(f)].form = "joined"
         /\ g[Len(f)].behind = c
<1> DEFINE last == [f[Len(f)] EXCEPT !.form = "joined", !.behind = c]
<1>1. Len(f) \in Nat /\ Len(f) \in 1 .. Len(f) /\ f[Len(f)] \in Lines
  BY DEF LacksNewline
<1>2. /\ last \in Lines
      /\ last.receipt = f[Len(f)].receipt /\ last.prev = f[Len(f)].prev
      /\ last.form = "joined" /\ last.behind = c
  BY <1>1 DEF Lines, Forms
<1>3. g = [f EXCEPT ![Len(f)] = last]
  BY <1>1 DEF Written
<1> HIDE DEF last
<1>4. /\ g \in Seq(Lines) /\ Len(g) = Len(f)
      /\ \A j \in 1 .. Len(f) : g[j] = IF j = Len(f) THEN last ELSE f[j]
  BY <1>1, <1>2, <1>3, ExceptSeq
<1>5. g[Len(f)] = last /\ \A i \in 1 .. Len(f) - 1 : g[i] = f[i]
  BY <1>1, <1>4
<1> QED
  BY <1>2, <1>4, <1>5

\* A write at the end of any other file.
LEMMA WrittenAfter ==
  ASSUME NEW f \in Seq(Lines), NEW c \in Appends, NEW prev \in Appends \cup {None},
         NEW form \in Forms, ~ LacksNewline(f)
  PROVE  /\ Written(f, c, prev, form) \in Seq(Lines)
         /\ Len(Written(f, c, prev, form)) = Len(f) + 1
         /\ \A i \in 1 .. Len(f) : Written(f, c, prev, form)[i] = f[i]
         /\ Written(f, c, prev, form)[Len(f) + 1] = Line(c, prev, form)
<1>1. Line(c, prev, form) \in Lines
  BY DEF Line, Lines
<1>2. Written(f, c, prev, form) = Append(f, Line(c, prev, form))
  BY DEF Written
<1> QED
  BY <1>1, <1>2

\* Completing a write touches the form of the last line, which becomes whole if
\* the line is not joined.
LEMMA CompletedFacts ==
  ASSUME NEW f \in Seq(Lines), f # <<>>, NEW g, g = Completed(f)
  PROVE  /\ g \in Seq(Lines)
         /\ Len(g) = Len(f)
         /\ \A i \in 1 .. Len(f) - 1 : g[i] = f[i]
         /\ f[Len(f)].form = "joined" => g = f
         /\ f[Len(f)].form # "joined" => g[Len(f)].form = "whole"
         /\ g[Len(f)].receipt = f[Len(f)].receipt
         /\ g[Len(f)].prev = f[Len(f)].prev
         /\ g[Len(f)].behind = f[Len(f)].behind
<1> DEFINE last == [f[Len(f)] EXCEPT !.form = "whole"]
<1>1. Len(f) \in Nat /\ Len(f) \in 1 .. Len(f) /\ f[Len(f)] \in Lines
  OBVIOUS
<1>2. /\ last \in Lines
      /\ last.receipt = f[Len(f)].receipt /\ last.prev = f[Len(f)].prev
      /\ last.form = "whole" /\ last.behind = f[Len(f)].behind
  BY <1>1 DEF Lines, Forms
<1>3. CASE f[Len(f)].form = "joined"
  BY <1>3 DEF Completed
<1>4. CASE f[Len(f)].form # "joined"
  <2>1. g = [f EXCEPT ![Len(f)] = last]
    BY <1>1, <1>4 DEF Completed
  <2> HIDE DEF last
  <2>2. /\ g \in Seq(Lines) /\ Len(g) = Len(f)
        /\ \A j \in 1 .. Len(f) : g[j] = IF j = Len(f) THEN last ELSE f[j]
    BY <1>1, <1>2, <2>1, ExceptSeq
  <2>3. g[Len(f)] = last /\ \A i \in 1 .. Len(f) - 1 : g[i] = f[i]
    BY <1>1, <2>2
  <2> QED
    BY <1>2, <1>4, <2>2, <2>3
<1> QED
  BY <1>3, <1>4

-----------------------------------------------------------------------------
\* The invariant is inductive.

\* It holds at the start.
LEMMA InitInv == Init => IInv
<1> SUFFICES ASSUME Init PROVE IInv
  OBVIOUS
<1>1. file = <<>> /\ file \in Seq(Lines) /\ Len(file) = 0
  BY DEF Init
<1>2. TypeOK
  BY <1>1, ReceiptAssumption DEF Init, TypeOK, Places
<1> QED
  BY <1>1, <1>2 DEF Init, IInv, LockHeld, DamageAtEnd, Prepared, WritesLast, ChainHolds,
     ReturnedIsKept, Holding

\* Steps that leave the file alone, and in which no call comes to write or
\* returns, keep what the invariant says of the file.
LEMMA FileAlone ==
  ASSUME IInv, file' = file, previous' = previous,
         \A c \in Appends : pc'[c] \in {"write", "rest"} => pc'[c] = pc[c],
         \A c \in Appends : result'[c] = "returned" => result[c] = "returned"
  PROVE  DamageAtEnd' /\ Prepared' /\ WritesLast' /\ ChainHolds' /\ ReturnedIsKept'
<1> USE DEF IInv
<1>1. DamageAtEnd' /\ ChainHolds'
  BY DEF DamageAtEnd, ChainHolds
<1>2. Prepared'
  BY DEF Prepared, Readable, LastHash
<1>3. WritesLast'
  BY DEF WritesLast
<1>4. ReturnedIsKept'
  BY DEF ReturnedIsKept
<1> QED
  BY <1>1, <1>2, <1>3, <1>4

\* The start of a write: the file parses, so it has no joined line.
LEMMA StartWriteInv ==
  ASSUME IInv, NEW c \in Appends, StartWrite(c)
  PROVE  IInv'
<1> USE DEF IInv
<1>1. PICK form \in {"whole", "bare", "torn"} : file' = Written(file, c, previous[c], form)
  BY DEF StartWrite
<1>2. /\ pc[c] = "write" /\ pc' = [pc EXCEPT ![c] = "rest"]
      /\ lock' = lock /\ previous' = previous /\ result' = result /\ faults' = faults
  BY DEF StartWrite
<1>3. file \in Seq(Lines) /\ form \in Forms /\ previous[c] \in Appends \cup {None}
  BY DEF TypeOK, Forms
<1>4. Readable(file) /\ previous[c] = LastHash(file)
  BY <1>2 DEF Prepared
<1>5. LockHeld' /\ \A d \in Appends : pc'[d] # "write"
  BY <1>2 DEF LockHeld, Holding, TypeOK
<1>6. Prepared'
  BY <1>5 DEF Prepared
<1>7. \A d \in Appends : pc'[d] = "rest" => d = c
  BY <1>2, <1>5 DEF LockHeld, Holding, TypeOK
<1>8. \A i \in 1 .. Len(file) : file[i].behind = None
  BY <1>4 DEF DamageAtEnd, Readable, Parses
<1>9. CASE LacksNewline(file)
  <2>1. Len(file) \in Nat /\ Len(file) \in 1 .. Len(file)
    BY <1>3, <1>9 DEF LacksNewline
  <2>2. /\ file' \in Seq(Lines) /\ Len(file') = Len(file)
        /\ \A i \in 1 .. Len(file) - 1 : file'[i] = file[i]
        /\ file'[Len(file)].receipt = file[Len(file)].receipt
        /\ file'[Len(file)].prev = file[Len(file)].prev
        /\ file'[Len(file)].form = "joined" /\ file'[Len(file)].behind = c
    BY <1>1, <1>3, <1>9, WrittenBehind
  <2>3. TypeOK'
    BY <1>2, <2>2 DEF TypeOK, Places
  <2>4. DamageAtEnd'
    BY <1>8, <2>1, <2>2 DEF DamageAtEnd
  <2>5. WritesLast'
    BY <1>7, <2>1, <2>2 DEF WritesLast
  <2>6. \A i \in 1 .. Len(file) :
          file'[i].prev = file[i].prev /\ file'[i].receipt = file[i].receipt
    BY <2>1, <2>2
  <2>7. ChainHolds'
    BY <2>1, <2>2, <2>6 DEF ChainHolds
  <2>8. ReturnedIsKept'
    <3> SUFFICES ASSUME NEW d \in Appends, result[d] = "returned"
                 PROVE  \E i \in 1 .. Len(file') : file'[i].receipt = d /\ file'[i].form = "whole"
      BY <1>2 DEF ReturnedIsKept
    <3>1. PICK i \in 1 .. Len(file) : file[i].receipt = d /\ file[i].form = "whole"
      BY <1>8, <2>1, ReceiptAssumption DEF ReturnedIsKept
    <3>2. i # Len(file)
      BY <1>9, <3>1 DEF LacksNewline
    <3> QED
      BY <2>1, <2>2, <3>1, <3>2
  <2> QED
    BY <1>5, <1>6, <2>3, <2>4, <2>5, <2>7, <2>8
<1>10. CASE ~ LacksNewline(file)
  <2>1. Len(file) \in Nat
    BY <1>3
  <2>2. /\ file' \in Seq(Lines) /\ Len(file') = Len(file) + 1
        /\ \A i \in 1 .. Len(file) : file'[i] = file[i]
        /\ file'[Len(file) + 1] = Line(c, previous[c], form)
    BY <1>1, <1>3, <1>10, WrittenAfter
  <2>3. \A i \in 1 .. Len(file) : file[i].form = "whole"
    BY <1>3, <1>4, <1>10, <2>1 DEF DamageAtEnd, Readable, Parses, LacksNewline
  <2>4. /\ file'[Len(file')].receipt = c /\ file'[Len(file')].prev = LastHash(file)
        /\ file'[Len(file')].form = form /\ file'[Len(file')].behind = None
    BY <1>4, <2>1, <2>2 DEF Line
  <2>5. TypeOK'
    BY <1>2, <2>2 DEF TypeOK, Places
  <2>6. DamageAtEnd'
    BY <1>8, <2>1, <2>2, <2>3, <2>4 DEF DamageAtEnd
  <2>7. WritesLast'
    BY <1>7, <2>1, <2>2, <2>4 DEF WritesLast
  <2>8. ChainHolds'
    <3> SUFFICES ASSUME NEW i \in 1 .. Len(file')
                 PROVE  file'[i].prev = IF i = 1 THEN None ELSE file'[i - 1].receipt
      BY DEF ChainHolds
    <3>1. CASE i \in 1 .. Len(file)
      BY <2>1, <2>2, <3>1 DEF ChainHolds
    <3>2. CASE i = Len(file')
      <4>1. CASE file = <<>>
        BY <1>3, <2>2, <2>4, <3>2, <4>1 DEF LastHash
      <4>2. CASE file # <<>>
        BY <1>3, <2>1, <2>2, <2>4, <3>2, <4>2 DEF LastHash
      <4> QED
        BY <4>1, <4>2
    <3> QED
      BY <2>1, <2>2, <3>1, <3>2
  <2>9. ReturnedIsKept'
    <3> SUFFICES ASSUME NEW d \in Appends, result[d] = "returned"
                 PROVE  \E i \in 1 .. Len(file') : file'[i].receipt = d /\ file'[i].form = "whole"
      BY <1>2 DEF ReturnedIsKept
    <3>1. PICK i \in 1 .. Len(file) : file[i].receipt = d /\ file[i].form = "whole"
      BY <1>3, <1>8, <2>1, ReceiptAssumption DEF ReturnedIsKept
    <3> QED
      BY <2>1, <2>2, <3>1
  <2> QED
    BY <1>5, <1>6, <2>5, <2>6, <2>7, <2>8, <2>9
<1> QED
  BY <1>9, <1>10

-----------------------------------------------------------------------------
\* The end of a write: its receipt is whole, or behind a joined line.
LEMMA EndWriteInv ==
  ASSUME IInv, NEW c \in Appends, EndWrite(c)
  PROVE  IInv'
<1> USE DEF IInv
<1>1. /\ pc[c] = "rest" /\ pc' = [pc EXCEPT ![c] = "release"]
      /\ result' = [result EXCEPT ![c] = "returned"] /\ file' = Completed(file)
      /\ lock' = lock /\ previous' = previous /\ faults' = faults
  BY DEF EndWrite
<1>2. file \in Seq(Lines) /\ file # <<>>
  BY <1>1 DEF TypeOK, WritesLast
<1>3. Len(file) \in Nat /\ Len(file) \in 1 .. Len(file)
  BY <1>2
<1>4. /\ file' \in Seq(Lines) /\ Len(file') = Len(file)
      /\ \A i \in 1 .. Len(file) - 1 : file'[i] = file[i]
      /\ file[Len(file)].form = "joined" => file' = file
      /\ file[Len(file)].form # "joined" => file'[Len(file)].form = "whole"
      /\ file'[Len(file)].receipt = file[Len(file)].receipt
      /\ file'[Len(file)].prev = file[Len(file)].prev
      /\ file'[Len(file)].behind = file[Len(file)].behind
  BY <1>1, <1>2, CompletedFacts
<1>5. \A i \in 1 .. Len(file) :
        /\ file'[i].receipt = file[i].receipt /\ file'[i].prev = file[i].prev
        /\ file'[i].behind = file[i].behind
        /\ \/ file'[i].form = file[i].form
           \/ file'[i].form = "whole" /\ file[i].form # "joined"
  <2> TAKE i \in 1 .. Len(file)
  <2>1. CASE i = Len(file)
    BY <1>4, <2>1
  <2>2. CASE i # Len(file)
    <3>1. i \in 1 .. Len(file) - 1
      BY <1>3, <2>2
    <3> QED
      BY <1>4, <3>1
  <2> QED
    BY <2>1, <2>2
<1>6. TypeOK'
  BY <1>1, <1>4 DEF TypeOK, Places
<1>7. LockHeld' /\ \A d \in Appends : pc'[d] \notin {"write", "rest"}
  BY <1>1 DEF LockHeld, Holding, TypeOK
<1>8. Prepared' /\ WritesLast'
  BY <1>7 DEF Prepared, WritesLast
<1>9. DamageAtEnd'
  <2>1. \A i \in 1 .. Len(file') - 1 : file'[i].form = "whole"
    BY <1>3, <1>4 DEF DamageAtEnd
  <2>2. \A i \in 1 .. Len(file') : file'[i].behind # None => file'[i].form = "joined"
    BY <1>4, <1>5 DEF DamageAtEnd
  <2> QED
    BY <2>1, <2>2 DEF DamageAtEnd
<1>10. ChainHolds'
  BY <1>3, <1>4, <1>5 DEF ChainHolds
<1>11. ReturnedIsKept'
  <2> SUFFICES ASSUME NEW d \in Appends, result'[d] = "returned"
               PROVE  \/ \E i \in 1 .. Len(file') : file'[i].receipt = d /\ file'[i].form = "whole"
                      \/ file' # <<>> /\ file'[Len(file')].behind = d
    BY DEF ReturnedIsKept
  <2>1. CASE d = c
    <3>1. CASE file[Len(file)].form = "joined"
      BY <1>1, <1>2, <1>4, <2>1, <3>1 DEF WritesLast
    <3>2. CASE file[Len(file)].form # "joined"
      <4>1. file[Len(file)].receipt = c
        BY <1>1, <1>3, <3>2, ReceiptAssumption DEF WritesLast, DamageAtEnd
      <4> QED
        BY <1>3, <1>4, <2>1, <3>2, <4>1
    <3> QED
      BY <3>1, <3>2
  <2>2. CASE d # c
    <3>1. result[d] = "returned"
      BY <1>1, <2>2 DEF TypeOK
    <3>2. CASE \E i \in 1 .. Len(file) : file[i].receipt = d /\ file[i].form = "whole"
      BY <1>4, <1>5, <3>2
    <3>3. CASE file[Len(file)].behind = d
      BY <1>3, <1>4, <3>3
    <3> QED
      BY <3>1, <3>2, <3>3 DEF ReturnedIsKept
  <2> QED
    BY <2>1, <2>2
<1> QED
  BY <1>6, <1>7, <1>8, <1>9, <1>10, <1>11

\* Every step keeps it.
LEMMA NextInv == IInv /\ [Next]_vars => IInv'
<1> SUFFICES ASSUME IInv, [Next]_vars PROVE IInv'
  OBVIOUS
<1> USE DEF IInv
<1>1. ASSUME NEW c \in Appends, Acquire(c) \/ LockTimeout(c) \/ WritePid(c) \/ PidFails(c)
             \/ WriteFails(c) \/ Release(c) \/ Crash(c)
      PROVE  IInv'
  <2>1. TypeOK'
    BY <1>1, ReceiptAssumption DEF TypeOK, Places, Acquire, LockTimeout, WritePid, PidFails,
       WriteFails, Release, Crash, Fault
  <2>2. LockHeld'
    BY <1>1, ReceiptAssumption DEF TypeOK, LockHeld, Holding, Acquire, LockTimeout, WritePid,
       PidFails, WriteFails, Release, Crash
  <2>3. /\ file' = file /\ previous' = previous
        /\ \A d \in Appends : pc'[d] \in {"write", "rest"} => pc'[d] = pc[d]
        /\ \A d \in Appends : result'[d] = "returned" => result[d] = "returned"
    BY <1>1 DEF TypeOK, Acquire, LockTimeout, WritePid, PidFails, WriteFails, Release, Crash
  <2> QED
    BY <2>1, <2>2, <2>3, FileAlone
<1>2. ASSUME NEW c \in Appends, ReadLast(c) PROVE IInv'
  <2>1. file' = file /\ lock' = lock /\ faults' = faults /\ pc[c] = "read"
    BY <1>2 DEF ReadLast
  <2>2. CASE Readable(file)
    <3>1. /\ previous' = [previous EXCEPT ![c] = LastHash(file)]
          /\ pc' = [pc EXCEPT ![c] = "write"] /\ result' = result
      BY <1>2, <2>2 DEF ReadLast
    <3>2. LastHash(file) \in Appends \cup {None}
      <4>1. CASE file = <<>>
        BY <4>1 DEF LastHash
      <4>2. CASE file # <<>>
        <5>1. file[Len(file)] \in Lines
          BY <4>2 DEF TypeOK
        <5> QED
          BY <4>2, <5>1 DEF LastHash, Lines
      <4> QED
        BY <4>1, <4>2
    <3>3. TypeOK' /\ LockHeld'
      BY <2>1, <3>1, <3>2 DEF TypeOK, Places, LockHeld, Holding
    <3>4. Prepared'
      BY <2>1, <2>2, <3>1 DEF Prepared, TypeOK, Readable, LastHash
    <3>5. WritesLast'
      BY <2>1, <3>1 DEF WritesLast, TypeOK
    <3>6. DamageAtEnd' /\ ChainHolds' /\ ReturnedIsKept'
      BY <2>1, <3>1 DEF DamageAtEnd, ChainHolds, ReturnedIsKept
    <3> QED
      BY <3>3, <3>4, <3>5, <3>6
  <2>3. CASE ~ Readable(file)
    <3>1. /\ previous' = previous /\ pc' = [pc EXCEPT ![c] = "release"]
          /\ result' = [result EXCEPT ![c] = "failed"]
      BY <1>2, <2>3 DEF ReadLast
    <3>2. TypeOK' /\ LockHeld'
      BY <2>1, <3>1 DEF TypeOK, Places, LockHeld, Holding
    <3>3. /\ \A d \in Appends : pc'[d] \in {"write", "rest"} => pc'[d] = pc[d]
          /\ \A d \in Appends : result'[d] = "returned" => result[d] = "returned"
      BY <3>1 DEF TypeOK
    <3> QED
      BY <2>1, <3>1, <3>2, <3>3, FileAlone
  <2> QED
    BY <2>2, <2>3
<1>3. CASE RemoveLock
  <2>1. /\ lock' = None /\ file' = file /\ pc' = pc /\ previous' = previous
        /\ result' = result /\ faults' = faults /\ pc[lock] \in {"done", "crashed"}
    BY <1>3 DEF RemoveLock
  <2>2. TypeOK' /\ LockHeld'
    BY <2>1 DEF TypeOK, LockHeld, Holding
  <2> QED
    BY <2>1, <2>2, FileAlone
<1>4. CASE UNCHANGED vars
  BY <1>4 DEF vars, TypeOK, LockHeld, DamageAtEnd, Prepared, WritesLast, ChainHolds,
     ReturnedIsKept, Readable, LastHash
<1> QED
  BY <1>1, <1>2, <1>3, <1>4, StartWriteInv, EndWriteInv DEF Next

\* The invariant holds in every reachable state.
LEMMA Invariant == Spec => []IInv
<1> QED
  BY InitInv, NextInv, PTL DEF Spec

-----------------------------------------------------------------------------
\* The guarantees.

\* Type correctness.
THEOREM LedgerTyped == Spec => []TypeOK
<1>1. IInv => TypeOK
  BY DEF IInv
<1> QED
  BY <1>1, Invariant, PTL

\* verifyReceiptChain never reports a mismatch, for any number of appends that
\* race, fail, die, or leave the lock behind.
THEOREM ChainAlwaysHolds == Spec => []ChainHolds
<1>1. IInv => ChainHolds
  BY DEF IInv
<1> QED
  BY <1>1, Invariant, PTL

\* A receipt that was returned is in the file, or at the end of its last line.
THEOREM ReturnedAlwaysKept == Spec => []ReturnedIsKept
<1>1. IInv => ReturnedIsKept
  BY DEF IInv
<1> QED
  BY <1>1, Invariant, PTL

\* Once damaged and left alone, the file stays as it is: a call that would write
\* has read a file that parses.
THEOREM DamageAlwaysStays == Spec => DamageStays
<1>1. IInv /\ [Next]_vars =>
        (~ Readable(file) /\ (\A c \in Appends : pc[c] # "rest") => file' = file)
  <2> SUFFICES ASSUME IInv, [Next]_vars, ~ Readable(file),
                      \A c \in Appends : pc[c] # "rest"
               PROVE  file' = file
    OBVIOUS
  <2>1. ASSUME NEW c \in Appends PROVE ~ StartWrite(c) /\ ~ EndWrite(c)
    BY DEF IInv, Prepared, StartWrite, EndWrite
  <2> QED
    BY <2>1 DEF Next, vars, Acquire, LockTimeout, WritePid, PidFails, ReadLast, WriteFails,
       Release, Crash, RemoveLock
<1> QED
  BY <1>1, Invariant, PTL DEF Spec, DamageStays

-----------------------------------------------------------------------------
(* The store of evidence bundles *)

WriterFields(f) ==
  f = [w \in Writers |-> [pc |-> f[w].pc, bundle |-> f[w].bundle, tries |-> f[w].tries]]

\* What is in the store is under the hash of what it is.
Named == \A o \in objects : o.bundleHash = BundleHash(o)

SameRecords(o, bundle) ==
  /\ o.policyHash = bundle.policyHash /\ o.mandateDocumentHash = bundle.mandateDocumentHash
  /\ o.receiptHashes = bundle.receiptHashes
  /\ o.eventHashes = bundle.eventHashes

\* Whoever was answered finds its bundle there.
Answered ==
  \A w \in Writers : writer[w].pc \in {"refused", "stored"} =>
    \E o \in objects : SameRecords(o, writer[w].bundle)

StoreInv == WriterFields(writer) /\ Named /\ Answered

\* Bundles of one hash have one content.
LEMMA SameHashSameRecords ==
  ASSUME NEW a, NEW b, BundleHash(a) = BundleHash(b)
  PROVE  SameRecords(a, b)
  BY DEF BundleHash, SameRecords

LEMMA StoreInit == EvidenceInit => StoreInv
  BY DEF EvidenceInit, StoreInv, WriterFields, Named, Answered

LEMMA StoreStep ==
  ASSUME StoreInv, [EvidenceNext]_evidenceVars
  PROVE  StoreInv'
<1> USE DEF StoreInv
<1>1. CASE UNCHANGED evidenceVars
  BY <1>1 DEF evidenceVars, WriterFields, Named, Answered
<1>2. CASE AppendEvent
  BY <1>2 DEF AppendEvent, WriterFields, Named, Answered
<1>3. CASE EditTrail
  BY <1>3 DEF EditTrail, WriterFields, Named, Answered
<1>4. ASSUME NEW w \in Writers, Bundle(w) PROVE StoreInv'
  <2>1. PICK bundle : writer' = [writer EXCEPT ![w].bundle = bundle, ![w].pc = "put"]
    BY <1>4 DEF Bundle
  <2>2. objects' = objects
    BY <1>4 DEF Bundle
  <2> DEFINE mid == [writer EXCEPT ![w].bundle = bundle]
  <2>3. WriterFields(mid) /\ \A v \in Writers \ {w} : mid[v] = writer[v]
    BY DEF WriterFields
  <2>4. writer' = [mid EXCEPT ![w].pc = "put"]
    BY <2>1
  <2> HIDE DEF mid
  <2>5. WriterFields(writer') /\ writer'[w].pc = "put"
    BY <2>3, <2>4 DEF WriterFields
  <2>6. \A v \in Writers \ {w} : writer'[v] = writer[v]
    BY <2>3, <2>4 DEF WriterFields
  <2>7. Named' /\ Answered'
    BY <2>2, <2>5, <2>6 DEF Named, Answered
  <2> QED
    BY <2>5, <2>7
<1>5. ASSUME NEW w \in Writers, AlterBundle(w) PROVE StoreInv'
  <2>1. PICK bundle : writer' = [writer EXCEPT ![w].bundle = bundle]
    BY <1>5 DEF AlterBundle
  <2>2. objects' = objects /\ writer[w].pc = "put"
    BY <1>5 DEF AlterBundle
  <2>3. WriterFields(writer')
    BY <2>1 DEF WriterFields
  <2>4. writer'[w].pc = "put" /\ \A v \in Writers \ {w} : writer'[v] = writer[v]
    BY <2>1, <2>2 DEF WriterFields
  <2>5. Named' /\ Answered'
    BY <2>2, <2>4 DEF Named, Answered
  <2> QED
    BY <2>3, <2>5
<1>6. ASSUME NEW w \in Writers, Invalid(w) PROVE StoreInv'
  <2>1. writer' = [writer EXCEPT ![w].pc = "invalid"] /\ objects' = objects
    BY <1>6 DEF Invalid
  <2>2. WriterFields(writer')
    BY <2>1 DEF WriterFields
  <2>3. writer'[w].pc = "invalid" /\ \A v \in Writers \ {w} : writer'[v] = writer[v]
    BY <2>1 DEF WriterFields
  <2>4. Named' /\ Answered'
    BY <2>1, <2>3 DEF Named, Answered
  <2> QED
    BY <2>2, <2>4
<1>7. ASSUME NEW w \in Writers, putImmutableEvidenceBundle(w) PROVE StoreInv'
  <2> DEFINE bundle == writer[w].bundle
             taken == \E o \in objects : o.bundleHash = bundle.bundleHash
  <2>1. /\ bundle.bundleHash = BundleHash(bundle)
        /\ objects' = IF taken THEN objects ELSE objects \cup {bundle}
        /\ \/ writer' = [writer EXCEPT ![w].pc = IF taken THEN "refused" ELSE "stored"]
           \/ writer' = [writer EXCEPT ![w].tries = @ + 1]
    BY <1>7 DEF putImmutableEvidenceBundle, verifyEvidenceBundle
  <2>2. writer[w].pc = "put"
    BY <1>7 DEF putImmutableEvidenceBundle
  <2>3. WriterFields(writer')
    BY <2>1 DEF WriterFields
  <2>4. writer'[w].bundle = bundle /\ \A v \in Writers \ {w} : writer'[v] = writer[v]
    BY <2>1 DEF WriterFields
  <2>5. Named'
    BY <2>1 DEF Named
  <2>6. \E o \in objects' : SameRecords(o, bundle)
    <3>1. CASE taken
      <4>1. PICK o \in objects : o.bundleHash = bundle.bundleHash
        BY <3>1
      <4>2. SameRecords(o, bundle)
        BY <2>1, <4>1, SameHashSameRecords DEF Named
      <4> QED
        BY <2>1, <4>2
    <3>2. CASE ~taken
      BY <2>1, <3>2 DEF SameRecords
    <3> QED
      BY <3>1, <3>2
  <2>7. objects \subseteq objects'
    BY <2>1
  <2>8. Answered'
    BY <2>4, <2>6, <2>7 DEF Answered
  <2> QED
    BY <2>3, <2>5, <2>8
<1> QED
  BY <1>1, <1>2, <1>3, <1>4, <1>5, <1>6, <1>7 DEF EvidenceNext

-----------------------------------------------------------------------------
(* The trail of events *)

\* How many hashes a hash was made upon, for some set of hashes with all of these.
Depth(d, H) ==
  /\ d \in [H -> Nat \ {0}]
  /\ \A h \in H : \/ h.previous = <<>> /\ d[h] = 1
                  \/ \E g \in H : h.previous = <<g>> /\ d[h] = d[g] + 1

Rising(d, H, events) ==
  /\ \A i \in DOMAIN events : events[i].eventHash \in H
  /\ \A i, j \in DOMAIN events : i < j => d[events[i].eventHash] < d[events[j].eventHash]

\* Every event was made upon more hashes than those before it, edited or not.
Deepening(events) == \E H : \E d : Depth(d, H) /\ Rising(d, H, events)

\* The first k hashes were made one upon the other.
Chained(events, k) ==
  \A i \in 1 .. k :
    events[i].eventHash.previous = IF i = 1 THEN <<>> ELSE <<events[i - 1].eventHash>>

\* As far as they were, this is what was appended.
AppendedAsChained(events, said) ==
  \A k \in 0 .. Len(events) :
    Chained(events, k) => [i \in 1 .. k |-> events[i].eventHash.says] \in said

AsList(events) == \E S : events \in Seq(S)

TrailFacts(events, said) ==
  AsList(events) /\ Deepening(events) /\ AppendedAsChained(events, said)

TrailInv == TrailFacts(trail, appended)

LEMMA Removed ==
  ASSUME NEW S, NEW s \in Seq(S), NEW i \in DOMAIN s
  PROVE  /\ RemoveAt(s, i) \in Seq(S) /\ Len(RemoveAt(s, i)) = Len(s) - 1
         /\ \A j \in 1 .. Len(s) - 1 : RemoveAt(s, i)[j] = IF j < i THEN s[j] ELSE s[j + 1]
<1> DEFINE left == SubSeq(s, 1, i - 1)
           right == SubSeq(s, i + 1, Len(s))
<1>1. Len(s) \in Nat /\ i \in 1 .. Len(s) /\ \A j \in 1 .. Len(s) : s[j] \in S
  OBVIOUS
<1>2. left \in Seq(S) /\ Len(left) = i - 1 /\ \A j \in 1 .. i - 1 : left[j] = s[j]
  BY <1>1
<1>3. /\ right \in Seq(S) /\ Len(right) = Len(s) - i
      /\ \A j \in 1 .. Len(s) - i : right[j] = s[i + j]
  BY <1>1
<1> HIDE DEF left, right
<1>4. /\ left \o right \in Seq(S) /\ Len(left \o right) = Len(s) - 1
      /\ \A j \in 1 .. Len(s) - 1 :
           (left \o right)[j] = IF j < i THEN left[j] ELSE right[j - (i - 1)]
  <2>1. /\ left \o right \in Seq(S) /\ Len(left \o right) = Len(left) + Len(right)
        /\ \A j \in 1 .. Len(left) + Len(right) :
             (left \o right)[j] = IF j <= Len(left) THEN left[j] ELSE right[j - Len(left)]
    <3>1. left \in Seq(S) /\ right \in Seq(S)
      BY <1>2, <1>3
    <3> QED
      BY <3>1
  <2>2. Len(left) + Len(right) = Len(s) - 1 /\ \A j \in Nat : j <= i - 1 <=> j < i
    BY <1>1, <1>2, <1>3
  <2> QED
    BY <1>2, <2>1, <2>2
<1>5. ASSUME NEW j \in 1 .. Len(s) - 1
      PROVE  (left \o right)[j] = IF j < i THEN s[j] ELSE s[j + 1]
  <2>1. CASE j < i
    BY <1>1, <1>2, <1>4, <2>1
  <2>2. CASE ~ (j < i)
    <3>1. j - (i - 1) \in 1 .. Len(s) - i /\ i + (j - (i - 1)) = j + 1
      BY <1>1, <2>2
    <3> QED
      BY <1>3, <1>4, <2>2, <3>1
  <2> QED
    BY <2>1, <2>2
<1> QED
  BY <1>4, <1>5 DEF RemoveAt, left, right

LEMMA DeepAfterAppend ==
  ASSUME NEW events, AsList(events), Deepening(events), NEW says
  PROVE  Deepening(appendAccessEvent(events, says))
<1>1. PICK H, d : Depth(d, H) /\ Rising(d, H, events)
  BY DEF Deepening
<1> DEFINE last == events[Len(events)].eventHash
           new == [says |-> says, previous |-> IF events = <<>> THEN <<>> ELSE <<last>>]
           more == appendAccessEvent(events, says)
           G == H \cup {new}
           depth == IF events = <<>> THEN 1 ELSE d[last] + 1
           e == [h \in G |-> IF h \in H THEN d[h] ELSE depth]
<1>2. Len(events) \in Nat /\ DOMAIN events = 1 .. Len(events)
      /\ (events # <<>> => Len(events) \in DOMAIN events)
  BY DEF AsList
<1>3. events # <<>> => last \in H /\ d[last] \in Nat
  BY <1>1, <1>2 DEF Rising, Depth
<1>4. depth \in Nat \ {0}
  BY <1>3
<1>5. new \in H => d[new] = depth
  <2>1. CASE events = <<>>
    BY <1>1, <2>1 DEF Depth
  <2>2. CASE events # <<>>
    BY <1>1, <2>2 DEF Depth
  <2> QED
    BY <2>1, <2>2
<1>6. new.previous = (IF events = <<>> THEN <<>> ELSE <<last>>)
  OBVIOUS
<1>7. /\ DOMAIN more = 1 .. Len(events) + 1
      /\ \A i \in 1 .. Len(events) : more[i] = events[i]
      /\ more[Len(events) + 1].eventHash = new
  BY <1>2 DEF appendAccessEvent, createAccessEvent, withoutEventHash, AsList
<1> HIDE DEF new, last, more, depth
<1>8. e[new] = depth /\ \A h \in H : e[h] = d[h]
  BY <1>5
<1>9. Depth(e, G)
  <2>1. e \in [G -> Nat \ {0}]
    BY <1>1, <1>4 DEF Depth
  <2>2. ASSUME NEW h \in H
        PROVE  \/ h.previous = <<>> /\ e[h] = 1
               \/ \E g \in G : h.previous = <<g>> /\ e[h] = e[g] + 1
    BY <1>1, <1>8 DEF Depth
  <2>3. \/ new.previous = <<>> /\ e[new] = 1
        \/ \E g \in G : new.previous = <<g>> /\ e[new] = e[g] + 1
    <3>1. CASE events = <<>>
      BY <1>6, <1>8, <3>1 DEF depth
    <3>2. CASE events # <<>>
      <4>1. new.previous = <<last>> /\ last \in G /\ e[last] = d[last] /\ e[new] = d[last] + 1
        BY <1>3, <1>6, <1>8, <3>2 DEF depth
      <4> QED
        BY <4>1
    <3> QED
      BY <3>1, <3>2
  <2> HIDE DEF e
  <2> QED
    BY <2>1, <2>2, <2>3 DEF Depth
<1>10. Rising(e, G, more)
  <2>1. \A i \in DOMAIN more : more[i].eventHash \in G
    BY <1>1, <1>2, <1>7 DEF Rising
  <2>2. ASSUME NEW i \in DOMAIN more, NEW j \in DOMAIN more, i < j
        PROVE  e[more[i].eventHash] < e[more[j].eventHash]
    <3>1. i \in 1 .. Len(events) /\ more[i] = events[i] /\ events[i].eventHash \in H
      BY <1>1, <1>2, <1>7, <2>2 DEF Rising
    <3>2. e[more[i].eventHash] = d[events[i].eventHash] /\ d[events[i].eventHash] \in Nat
      BY <1>1, <1>8, <3>1 DEF Depth
    <3>3. CASE j \in 1 .. Len(events)
      BY <1>1, <1>2, <1>7, <1>8, <2>2, <3>1, <3>2, <3>3 DEF Rising
    <3>4. CASE j = Len(events) + 1
      <4>1. events # <<>>
        BY <1>2, <3>1
      <4>2. e[more[j].eventHash] = d[last] + 1
        BY <1>7, <1>8, <3>4, <4>1 DEF depth
      <4>3. i = Len(events) \/ i < Len(events)
        BY <1>2, <3>1
      <4>4. d[events[i].eventHash] <= d[last]
        BY <1>1, <1>2, <1>3, <3>1, <3>2, <4>1, <4>3 DEF Rising, last
      <4> QED
        BY <1>3, <3>2, <4>1, <4>2, <4>4
    <3> QED
      BY <1>2, <1>7, <3>3, <3>4
  <2> QED
    BY <2>1, <2>2 DEF Rising
<1> QED
  BY <1>9, <1>10 DEF Deepening, more

LEMMA DeepAfterRemoval ==
  ASSUME NEW events, AsList(events), Deepening(events), NEW i \in DOMAIN events
  PROVE  Deepening(RemoveAt(events, i))
<1>1. PICK H, d : Depth(d, H) /\ Rising(d, H, events)
  BY DEF Deepening
<1>2. PICK S : events \in Seq(S)
  BY DEF AsList
<1> DEFINE fewer == RemoveAt(events, i)
           from == [j \in 1 .. Len(events) - 1 |-> IF j < i THEN j ELSE j + 1]
<1>3. /\ DOMAIN fewer = 1 .. Len(events) - 1
      /\ \A j \in 1 .. Len(events) - 1 : fewer[j] = IF j < i THEN events[j] ELSE events[j + 1]
  <2>1. /\ fewer \in Seq(S) /\ Len(fewer) = Len(events) - 1
        /\ \A j \in 1 .. Len(events) - 1 : fewer[j] = IF j < i THEN events[j] ELSE events[j + 1]
    BY <1>2, Removed
  <2> HIDE DEF fewer
  <2>2. DOMAIN fewer = 1 .. Len(fewer)
    BY <2>1
  <2> QED
    BY <2>1, <2>2
<1>4. /\ \A j \in 1 .. Len(events) - 1 : from[j] \in DOMAIN events
      /\ \A j, k \in 1 .. Len(events) - 1 : j < k => from[j] < from[k]
  BY <1>2
<1>5. \A j \in 1 .. Len(events) - 1 : fewer[j] = events[from[j]]
  BY <1>3
<1> HIDE DEF fewer, from
<1>6. \A j \in DOMAIN fewer : fewer[j].eventHash \in H
  BY <1>1, <1>3, <1>4, <1>5 DEF Rising
<1>7. \A j, k \in DOMAIN fewer : j < k => d[fewer[j].eventHash] < d[fewer[k].eventHash]
  <2> TAKE j, k \in DOMAIN fewer
  <2> HAVE j < k
  <2>1. from[j] \in DOMAIN events /\ from[k] \in DOMAIN events /\ from[j] < from[k]
    BY <1>3, <1>4
  <2>2. fewer[j] = events[from[j]] /\ fewer[k] = events[from[k]]
    BY <1>3, <1>5
  <2> QED
    BY <1>1, <2>1, <2>2 DEF Rising
<1>8. Rising(d, H, fewer)
  BY <1>6, <1>7 DEF Rising
<1> QED
  BY <1>1, <1>8 DEF Deepening, fewer

\* An event that stands between two whose hashes are chained was made upon more
\* than the first and upon less than the second, of which there is nothing.
LEMMA NothingBetween ==
  ASSUME NEW events, AsList(events), Deepening(events), NEW i \in DOMAIN events,
         i + 1 \in DOMAIN events
  PROVE  events[i + 1].eventHash.previous
           # IF i = 1 THEN <<>> ELSE <<events[i - 1].eventHash>>
<1> SUFFICES ASSUME events[i + 1].eventHash.previous
                      = IF i = 1 THEN <<>> ELSE <<events[i - 1].eventHash>>
             PROVE  FALSE
  OBVIOUS
<1>1. PICK H, d : Depth(d, H) /\ Rising(d, H, events)
  BY DEF Deepening
<1>2. DOMAIN events = 1 .. Len(events) /\ Len(events) \in Nat
  BY DEF AsList
<1> DEFINE here == events[i].eventHash
           next == events[i + 1].eventHash
           before == events[i - 1].eventHash
<1>3. /\ here \in H /\ next \in H /\ d[here] \in Nat \ {0} /\ d[next] \in Nat
      /\ d[here] < d[next]
  BY <1>1, <1>2 DEF Rising, Depth
<1>4. CASE i = 1
  <2>1. next.previous = <<>>
    BY <1>4
  <2>2. d[next] = 1
    <3>1. \A g : <<g>> # <<>>
      OBVIOUS
    <3> HIDE DEF next
    <3> QED
      BY <1>1, <1>3, <2>1, <3>1 DEF Depth
  <2> QED
    BY <1>3, <2>2
<1>5. CASE i # 1
  <2>1. next.previous = <<before>>
    BY <1>5
  <2>2. i - 1 \in DOMAIN events /\ i - 1 < i
    BY <1>2, <1>5
  <2>3. before \in H /\ d[before] \in Nat /\ d[before] < d[here]
    BY <1>1, <2>2 DEF Rising, Depth
  <2>4. d[next] = d[before] + 1
    BY <1>1, <1>3, <2>1 DEF Depth
  <2> QED
    BY <1>3, <2>3, <2>4
<1> QED
  BY <1>4, <1>5

LEMMA AppendedAfterAppend ==
  ASSUME NEW events, AsList(events), NEW said, AppendedAsChained(events, said), NEW says,
         NEW more, more = appendAccessEvent(events, says)
  PROVE  AppendedAsChained(more, said \cup {SaidFirst(more)})
<1>1. /\ Len(events) \in Nat /\ DOMAIN more = 1 .. Len(events) + 1
      /\ Len(more) = Len(events) + 1
      /\ \A i \in 1 .. Len(events) : more[i] = events[i]
  BY DEF AsList, appendAccessEvent
<1> SUFFICES ASSUME NEW k \in 0 .. Len(more), Chained(more, k)
             PROVE  [i \in 1 .. k |-> more[i].eventHash.says] \in said \cup {SaidFirst(more)}
  BY DEF AppendedAsChained
<1>2. CASE k = Len(events) + 1
  BY <1>1, <1>2 DEF SaidFirst
<1>3. CASE k # Len(events) + 1
  <2>1. k \in 0 .. Len(events)
    BY <1>1, <1>3
  <2>2. \A i \in 1 .. k : more[i] = events[i] /\ (i # 1 => more[i - 1] = events[i - 1])
    BY <1>1, <2>1
  <2>3. Chained(events, k)
    BY <2>2 DEF Chained
  <2>4. [i \in 1 .. k |-> events[i].eventHash.says] \in said
    BY <2>1, <2>3 DEF AppendedAsChained
  <2>5. [i \in 1 .. k |-> more[i].eventHash.says] = [i \in 1 .. k |-> events[i].eventHash.says]
    BY <2>2
  <2> QED
    BY <2>4, <2>5
<1> QED
  BY <1>2, <1>3

LEMMA AppendedAfterRemoval ==
  ASSUME NEW events, AsList(events), Deepening(events), NEW said,
         AppendedAsChained(events, said), NEW n \in DOMAIN events
  PROVE  AppendedAsChained(RemoveAt(events, n), said)
<1> DEFINE fewer == RemoveAt(events, n)
<1>1. PICK S : events \in Seq(S)
  BY DEF AsList
<1>2. /\ Len(events) \in Nat /\ n \in 1 .. Len(events) /\ DOMAIN events = 1 .. Len(events)
      /\ Len(fewer) = Len(events) - 1
      /\ \A j \in 1 .. Len(events) - 1 : fewer[j] = IF j < n THEN events[j] ELSE events[j + 1]
  BY <1>1, Removed
<1> HIDE DEF fewer
<1>3. ASSUME NEW k \in 0 .. Len(fewer), Chained(fewer, k)
      PROVE  [i \in 1 .. k |-> fewer[i].eventHash.says] \in said
  <2>1. k < n
    <3> SUFFICES ASSUME n <= k PROVE FALSE
      BY <1>2
    <3>1. n \in 1 .. k /\ n \in 1 .. Len(events) - 1 /\ n + 1 \in DOMAIN events
      BY <1>2
    <3>2. fewer[n] = events[n + 1] /\ (n # 1 => fewer[n - 1] = events[n - 1])
      BY <1>2, <3>1
    <3>3. fewer[n].eventHash.previous = IF n = 1 THEN <<>> ELSE <<fewer[n - 1].eventHash>>
      BY <1>3, <3>1 DEF Chained
    <3> QED
      BY <3>1, <3>2, <3>3, NothingBetween
  <2>2. k \in 0 .. Len(events)
        /\ \A i \in 1 .. k : fewer[i] = events[i] /\ (i # 1 => fewer[i - 1] = events[i - 1])
    BY <1>2, <2>1
  <2>3. Chained(events, k)
    BY <1>3, <2>2 DEF Chained
  <2>4. [i \in 1 .. k |-> events[i].eventHash.says] \in said
    BY <2>2, <2>3 DEF AppendedAsChained
  <2>5. [i \in 1 .. k |-> fewer[i].eventHash.says] = [i \in 1 .. k |-> events[i].eventHash.says]
    BY <2>2
  <2> QED
    BY <2>4, <2>5
<1> QED
  BY <1>3 DEF AppendedAsChained, fewer

\* What an edit of what an event says leaves as it was: all the hashes.
LEMMA SameHashes ==
  ASSUME NEW events, NEW edited, NEW said, TrailFacts(events, said), AsList(edited),
         DOMAIN edited = DOMAIN events, Len(edited) = Len(events),
         \A i \in DOMAIN events : edited[i].eventHash = events[i].eventHash
  PROVE  TrailFacts(edited, said)
<1>1. DOMAIN events = 1 .. Len(events) /\ Len(events) \in Nat
  BY DEF TrailFacts, AsList
<1>2. Deepening(edited)
  <2>1. PICK H, d : Depth(d, H) /\ Rising(d, H, events)
    BY DEF Deepening, TrailFacts
  <2>2. Rising(d, H, edited)
    BY <2>1 DEF Rising
  <2> QED
    BY <2>1, <2>2 DEF Deepening
<1>3. ASSUME NEW k \in 0 .. Len(edited), Chained(edited, k)
      PROVE  [i \in 1 .. k |-> edited[i].eventHash.says] \in said
  <2>1. \A i \in 1 .. k : /\ edited[i].eventHash = events[i].eventHash
                          /\ i # 1 => edited[i - 1].eventHash = events[i - 1].eventHash
    BY <1>1
  <2>2. Chained(events, k)
    BY <1>3, <2>1 DEF Chained
  <2>3. [i \in 1 .. k |-> events[i].eventHash.says] \in said
    BY <2>2 DEF TrailFacts, AppendedAsChained
  <2>4. [i \in 1 .. k |-> edited[i].eventHash.says] = [i \in 1 .. k |-> events[i].eventHash.says]
    BY <2>1
  <2> QED
    BY <2>3, <2>4
<1>4. AppendedAsChained(edited, said)
  BY <1>3 DEF AppendedAsChained
<1> QED
  BY <1>2, <1>4 DEF TrailFacts

LEMMA TrailInit == EvidenceInit => TrailInv
<1> SUFFICES ASSUME EvidenceInit PROVE TrailInv
  OBVIOUS
<1>1. trail = <<>> /\ appended = {<<>>}
  BY DEF EvidenceInit
<1>2. AsList(<<>>)
  BY DEF AsList
<1>3. Deepening(<<>>)
  <2> DEFINE d == [h \in {} |-> 1]
  <2>1. Depth(d, {}) /\ Rising(d, {}, <<>>)
    BY DEF Depth, Rising
  <2> QED
    BY <2>1 DEF Deepening
<1>4. AppendedAsChained(<<>>, {<<>>})
  BY DEF AppendedAsChained
<1> QED
  BY <1>1, <1>2, <1>3, <1>4 DEF TrailInv, TrailFacts

LEMMA TrailStep ==
  ASSUME TrailInv, [EvidenceNext]_evidenceVars
  PROVE  TrailInv'
<1> USE DEF TrailInv
<1>1. CASE UNCHANGED <<appended, trail>>
  BY <1>1
<1>2. CASE AppendEvent
  <2>1. PICK says \in Notices : /\ trail' = appendAccessEvent(trail, says)
                                /\ appended' = appended \cup {SaidFirst(trail')}
    BY <1>2 DEF AppendEvent
  <2>2. AsList(trail')
    <3>1. PICK S : trail \in Seq(S)
      BY DEF TrailFacts, AsList
    <3>2. \A e : Append(trail, e) \in Seq(S \cup {e})
      BY <3>1
    <3> QED
      BY <2>1, <3>2 DEF AsList, appendAccessEvent
  <2>3. Deepening(trail')
    BY <2>1, DeepAfterAppend DEF TrailFacts
  <2>4. AppendedAsChained(trail', appended')
    BY <2>1, AppendedAfterAppend DEF TrailFacts
  <2> QED
    BY <2>2, <2>3, <2>4 DEF TrailFacts
<1>3. CASE EditTrail
  <2>1. PICK i \in DOMAIN trail, says \in Notices :
          trail' \in {[trail EXCEPT ![i].says = says], RemoveAt(trail, i)}
    BY <1>3 DEF EditTrail
  <2>2. appended' = appended
    BY <1>3 DEF EditTrail
  <2>3. PICK S : trail \in Seq(S)
    BY DEF TrailFacts, AsList
  <2>4. CASE trail' = [trail EXCEPT ![i].says = says]
    <3> DEFINE event == [trail[i] EXCEPT !.says = says]
    <3>1. trail' = [trail EXCEPT ![i] = event] /\ event.eventHash = trail[i].eventHash
      BY <2>4
    <3> HIDE DEF event
    <3>2. /\ trail' \in Seq(S \cup {event}) /\ DOMAIN trail' = DOMAIN trail
          /\ Len(trail') = Len(trail)
      BY <2>3, <3>1
    <3>3. \A j \in DOMAIN trail : trail'[j].eventHash = trail[j].eventHash
      BY <2>3, <3>1
    <3>4. AsList(trail')
      BY <3>2 DEF AsList
    <3> QED
      BY <2>2, <3>2, <3>3, <3>4, SameHashes
  <2>5. CASE trail' = RemoveAt(trail, i)
    <3>1. AsList(trail')
      BY <2>3, <2>5, Removed DEF AsList
    <3>2. Deepening(trail')
      BY <2>5, DeepAfterRemoval DEF TrailFacts
    <3>3. AppendedAsChained(trail', appended')
      BY <2>2, <2>5, AppendedAfterRemoval DEF TrailFacts
    <3> QED
      BY <3>1, <3>2, <3>3 DEF TrailFacts
  <2> QED
    BY <2>1, <2>4, <2>5
<1> QED
  BY <1>1, <1>2, <1>3
     DEF EvidenceNext, evidenceVars, Bundle, AlterBundle, Invalid, putImmutableEvidenceBundle

\* A trail that verifies was appended as it stands.
LEMMA VerifiedWasAppended ==
  ASSUME TrailInv, verifyAccessEventTrail(trail)
  PROVE  Said(trail) \in appended /\ IsPrefix(Said(trail), Said(trail))
<1>1. PICK S : trail \in Seq(S)
  BY DEF TrailInv, TrailFacts, AsList
<1>2. Len(trail) \in Nat /\ DOMAIN trail = 1 .. Len(trail)
  BY <1>1
<1>3. ASSUME NEW i \in DOMAIN trail
      PROVE  /\ trail[i].eventHash.says = trail[i].says
             /\ trail[i].eventHash.previous = IF i = 1 THEN <<>> ELSE <<trail[i - 1].eventHash>>
  <2>1. /\ trail[i].previous = IF i = 1 THEN <<>> ELSE <<trail[i - 1].eventHash>>
        /\ trail[i].eventHash = [says |-> trail[i].says, previous |-> trail[i].previous]
    BY DEF verifyAccessEventTrail, withoutEventHash
  <2>2. trail[i].eventHash.says = trail[i].says
    BY <2>1
  <2>3. trail[i].eventHash.previous = trail[i].previous
    BY <2>1
  <2> QED
    BY <2>1, <2>2, <2>3
<1>4. Chained(trail, Len(trail))
  BY <1>2, <1>3 DEF Chained
<1>5. [i \in 1 .. Len(trail) |-> trail[i].eventHash.says] \in appended
  BY <1>2, <1>4 DEF TrailInv, TrailFacts, AppendedAsChained
<1>6. Said(trail) = [i \in 1 .. Len(trail) |-> trail[i].eventHash.says]
  BY <1>2, <1>3 DEF Said
<1>7. Len(Said(trail)) = Len(trail)
  BY <1>2 DEF Said
<1> QED
  BY <1>2, <1>5, <1>6, <1>7 DEF IsPrefix

\* Whoever has been answered by the store, accepted or refused, finds what it put
\* there (packages/evidence); and a trail that verifies (events.ts) says what was
\* appended, whatever was edited in it or taken out of it.
THEOREM RefusedIsAlwaysStored == EvidenceSpec => []RefusedIsStored
<1>1. EvidenceInit => StoreInv /\ TrailInv
  BY StoreInit, TrailInit
<1>2. StoreInv /\ TrailInv /\ [EvidenceNext]_evidenceVars => StoreInv' /\ TrailInv'
  BY StoreStep, TrailStep
<1>3. StoreInv /\ TrailInv => RefusedIsStored
  <2> SUFFICES ASSUME StoreInv, TrailInv PROVE RefusedIsStored
    OBVIOUS
  <2>1. \A w \in Writers : writer[w].pc \in {"refused", "stored"} =>
          \E o \in objects :
            \A field \in {"policyHash", "mandateDocumentHash", "receiptHashes", "eventHashes"} :
              o[field] = writer[w].bundle[field]
    BY DEF StoreInv, Answered, SameRecords
  <2>2. verifyAccessEventTrail(trail) => \E said \in appended : IsPrefix(Said(trail), said)
    BY VerifiedWasAppended
  <2> QED
    BY <2>1, <2>2 DEF RefusedIsStored
<1> QED
  BY <1>1, <1>2, <1>3, PTL DEF EvidenceSpec

-----------------------------------------------------------------------------
(* What the recursions of the transparency log compute *)

\* How the levels, the way up and the hashes along a path are made.
Levels(level, hashes) ==
  level = [n \in 0 .. Len(hashes) |->
             IF n = 0 THEN hashes
             ELSE IF Len(level[n - 1]) > 1 THEN nextMerkleLevel(level[n - 1]) ELSE level[n - 1]]

Halving(cursor, index, N) ==
  cursor = [n \in 0 .. N |-> IF n = 0 THEN index ELSE cursor[n - 1] \div 2]

Climb(path, n, below) ==
  IF path[n].position = "left" THEN nodeHash(path[n].hash, below)
  ELSE nodeHash(below, path[n].hash)

Climbing(hash, proof) ==
  hash = [n \in 0 .. Len(proof.auditPath) |->
            IF n = 0 THEN proof.leafHash ELSE Climb(proof.auditPath, n, hash[n - 1])]

\* There are such functions: each is made entry by entry.
LEMMA LevelsExist ==
  ASSUME NEW hashes, Len(hashes) \in Nat
  PROVE  \E level : Levels(level, hashes)
<1> DEFINE Entry(f, i) ==
             IF i = 0 THEN hashes
             ELSE IF Len(f[i - 1]) > 1 THEN nextMerkleLevel(f[i - 1]) ELSE f[i - 1]
           S == {r \in Nat : \E f : f = [i \in 0 .. r |-> Entry(f, i)]}
<1>1. 0 \in S
  <2> DEFINE f == [i \in 0 .. 0 |-> hashes]
  <2>1. f = [i \in 0 .. 0 |-> Entry(f, i)]
    OBVIOUS
  <2> QED
    BY <2>1
<1>2. ASSUME NEW r \in Nat, r \in S PROVE r + 1 \in S
  <2>1. PICK f : f = [i \in 0 .. r |-> Entry(f, i)]
    BY <1>2
  <2> HIDE DEF Entry
  <2> DEFINE g == [i \in 0 .. r + 1 |-> IF i <= r THEN f[i] ELSE Entry(f, i)]
  <2>2. \A i \in 0 .. r : g[i] = f[i] /\ f[i] = Entry(f, i)
    BY <2>1
  <2>3. g[r + 1] = Entry(f, r + 1)
    OBVIOUS
  <2>4. g = [i \in 0 .. r + 1 |-> g[i]]
    OBVIOUS
  <2> HIDE DEF g
  <2>5. ASSUME NEW i \in 0 .. r + 1 PROVE g[i] = Entry(g, i)
    <3>1. i = 0 \/ (i # 0 /\ i - 1 \in 0 .. r)
      OBVIOUS
    <3>2. Entry(g, i) = Entry(f, i)
      BY <2>2, <3>1 DEF Entry
    <3>3. i \in 0 .. r \/ i = r + 1
      OBVIOUS
    <3> QED
      BY <2>2, <2>3, <3>2, <3>3
  <2> QED
    BY <2>4, <2>5
<1>3. Len(hashes) \in S
  <2> HIDE DEF S
  <2> QED
    BY <1>1, <1>2, SetInduction
<1> QED
  BY <1>3 DEF Levels

LEMMA HalvingExists ==
  ASSUME NEW index, NEW N \in Nat
  PROVE  \E cursor : Halving(cursor, index, N)
<1> DEFINE Entry(f, i) == IF i = 0 THEN index ELSE f[i - 1] \div 2
           S == {r \in Nat : \E f : f = [i \in 0 .. r |-> Entry(f, i)]}
<1>1. 0 \in S
  <2> DEFINE f == [i \in 0 .. 0 |-> index]
  <2>1. f = [i \in 0 .. 0 |-> Entry(f, i)]
    OBVIOUS
  <2> QED
    BY <2>1
<1>2. ASSUME NEW r \in Nat, r \in S PROVE r + 1 \in S
  <2>1. PICK f : f = [i \in 0 .. r |-> Entry(f, i)]
    BY <1>2
  <2> HIDE DEF Entry
  <2> DEFINE g == [i \in 0 .. r + 1 |-> IF i <= r THEN f[i] ELSE Entry(f, i)]
  <2>2. \A i \in 0 .. r : g[i] = f[i] /\ f[i] = Entry(f, i)
    BY <2>1
  <2>3. g[r + 1] = Entry(f, r + 1)
    OBVIOUS
  <2>4. g = [i \in 0 .. r + 1 |-> g[i]]
    OBVIOUS
  <2> HIDE DEF g
  <2>5. ASSUME NEW i \in 0 .. r + 1 PROVE g[i] = Entry(g, i)
    <3>1. i = 0 \/ (i # 0 /\ i - 1 \in 0 .. r)
      OBVIOUS
    <3>2. Entry(g, i) = Entry(f, i)
      BY <2>2, <3>1 DEF Entry
    <3>3. i \in 0 .. r \/ i = r + 1
      OBVIOUS
    <3> QED
      BY <2>2, <2>3, <3>2, <3>3
  <2> QED
    BY <2>4, <2>5
<1>3. N \in S
  <2> HIDE DEF S
  <2> QED
    BY <1>1, <1>2, SetInduction
<1> QED
  BY <1>3 DEF Halving

LEMMA ClimbingExists ==
  ASSUME NEW proof, Len(proof.auditPath) \in Nat
  PROVE  \E hash : Climbing(hash, proof)
<1> DEFINE Entry(f, i) == IF i = 0 THEN proof.leafHash ELSE Climb(proof.auditPath, i, f[i - 1])
           S == {r \in Nat : \E f : f = [i \in 0 .. r |-> Entry(f, i)]}
<1>1. 0 \in S
  <2> DEFINE f == [i \in 0 .. 0 |-> proof.leafHash]
  <2>1. f = [i \in 0 .. 0 |-> Entry(f, i)]
    OBVIOUS
  <2> QED
    BY <2>1
<1>2. ASSUME NEW r \in Nat, r \in S PROVE r + 1 \in S
  <2>1. PICK f : f = [i \in 0 .. r |-> Entry(f, i)]
    BY <1>2
  <2> HIDE DEF Entry
  <2> DEFINE g == [i \in 0 .. r + 1 |-> IF i <= r THEN f[i] ELSE Entry(f, i)]
  <2>2. \A i \in 0 .. r : g[i] = f[i] /\ f[i] = Entry(f, i)
    BY <2>1
  <2>3. g[r + 1] = Entry(f, r + 1)
    OBVIOUS
  <2>4. g = [i \in 0 .. r + 1 |-> g[i]]
    OBVIOUS
  <2> HIDE DEF g
  <2>5. ASSUME NEW i \in 0 .. r + 1 PROVE g[i] = Entry(g, i)
    <3>1. i = 0 \/ (i # 0 /\ i - 1 \in 0 .. r)
      OBVIOUS
    <3>2. Entry(g, i) = Entry(f, i)
      BY <2>2, <3>1 DEF Entry
    <3>3. i \in 0 .. r \/ i = r + 1
      OBVIOUS
    <3> QED
      BY <2>2, <2>3, <3>2, <3>3
  <2> QED
    BY <2>4, <2>5
<1>3. Len(proof.auditPath) \in S
  <2> HIDE DEF S
  <2> QED
    BY <1>1, <1>2, SetInduction
<1> QED
  BY <1>3 DEF Climbing

\* So they are what the operators of the log choose.
LEMMA MadeLevels ==
  ASSUME NEW hashes, Len(hashes) \in Nat
  PROVE  Levels(merkleLevels(hashes), hashes)
<1> DEFINE level == CHOOSE level : Levels(level, hashes)
<1>1. Levels(level, hashes)
  BY LevelsExist
<1>2. merkleLevels(hashes) = level
  BY DEF merkleLevels, Levels
<1> QED
  BY <1>1, <1>2

LEMMA Verifying ==
  ASSUME NEW proof, Len(proof.auditPath) \in Nat
  PROVE  \E hash : /\ Climbing(hash, proof)
                   /\ verifyInclusionProof(proof) <=> hash[Len(proof.auditPath)] = proof.rootHash
<1> DEFINE hash == CHOOSE hash : Climbing(hash, proof)
<1>1. Climbing(hash, proof)
  BY ClimbingExists
<1>2. verifyInclusionProof(proof) <=> hash[Len(proof.auditPath)] = proof.rootHash
  BY DEF verifyInclusionProof, Climbing, Climb
<1> QED
  BY <1>1, <1>2

\* A function on 1 .. n is a sequence of length n.
LEMMA ListOf ==
  ASSUME NEW n \in Nat, NEW f, f = [i \in 1 .. n |-> f[i]]
  PROVE  Len(f) = n
<1>1. f \in Seq({f[i] : i \in 1 .. n})
  OBVIOUS
<1> QED
  BY <1>1

\* The nodes of the next level, counted from 0.
LEMMA NextRow ==
  ASSUME NEW s, Len(s) \in Nat, Len(s) > 1
  PROVE  /\ Len(nextMerkleLevel(s)) = (Len(s) + 1) \div 2
         /\ \A c \in 0 .. ((Len(s) + 1) \div 2) - 1 :
              nextMerkleLevel(s)[c + 1]
                = nodeHash(s[2 * c + 1], s[IF 2 * c + 2 <= Len(s) THEN 2 * c + 2 ELSE 2 * c + 1])
<1> DEFINE m == (Len(s) + 1) \div 2
           t == nextMerkleLevel(s)
<1>1. m \in Nat
  OBVIOUS
<1>2. t = [i \in 1 .. m |->
             nodeHash(s[2 * i - 1], s[IF 2 * i <= Len(s) THEN 2 * i ELSE 2 * i - 1])]
  BY DEF nextMerkleLevel
<1> HIDE DEF m, t
<1>3. t = [i \in 1 .. m |-> t[i]]
  BY <1>2
<1>4. Len(t) = m
  BY <1>1, <1>3, ListOf
<1>5. ASSUME NEW c \in 0 .. m - 1
      PROVE  t[c + 1]
              = nodeHash(s[2 * c + 1], s[IF 2 * c + 2 <= Len(s) THEN 2 * c + 2 ELSE 2 * c + 1])
  <2>1. c + 1 \in 1 .. m /\ 2 * (c + 1) - 1 = 2 * c + 1 /\ 2 * (c + 1) = 2 * c + 2
    BY <1>1
  <2> QED
    BY <1>2, <2>1
<1> QED
  BY <1>4, <1>5 DEF m, t

-----------------------------------------------------------------------------
(* The tree of a transparency log *)

\* Half of a number, rounded up.
LEMMA Halved ==
  ASSUME NEW L \in Nat, L > 1, NEW K, K = (L + 1) \div 2
  PROVE  K \in Nat /\ K >= 1 /\ K <= L - 1 /\ (2 * K = L \/ 2 * K = L + 1)
  OBVIOUS

\* Each level is shorter than the one below, until it has one node.
LEMMA Shrinking ==
  ASSUME NEW hashes, Len(hashes) \in Nat, Len(hashes) > 0, NEW level, Levels(level, hashes)
  PROVE  \A n \in 0 .. Len(hashes) :
           /\ Len(level[n]) \in Nat /\ Len(level[n]) >= 1
           /\ Len(level[n]) = 1 \/ Len(level[n]) <= Len(hashes) - n
<1> DEFINE N == Len(hashes)
           Short(n) == /\ Len(level[n]) \in Nat /\ Len(level[n]) >= 1
                       /\ Len(level[n]) = 1 \/ Len(level[n]) <= N - n
           S == {n \in 0 .. N : Short(n)}
<1>1. 0 \in S
  BY DEF Levels
<1>2. ASSUME NEW n \in 0 .. N - 1, n \in S PROVE n + 1 \in S
  <2> DEFINE L == Len(level[n])
             K == Len(level[n + 1])
  <2>1. level[n + 1] = IF L > 1 THEN nextMerkleLevel(level[n]) ELSE level[n]
    BY DEF Levels
  <2>2. L \in Nat /\ L >= 1 /\ (L = 1 \/ L <= N - n)
    BY <1>2
  <2>3. L > 1 => K = (L + 1) \div 2
    BY <2>1, <2>2, NextRow
  <2>4. ~ (L > 1) => K = L
    BY <2>1
  <2>5. N \in Nat /\ n \in Nat /\ n + 1 \in 0 .. N
    OBVIOUS
  <2> HIDE DEF L, K, N
  <2>6. K \in Nat /\ K >= 1 /\ (K = 1 \/ K <= N - (n + 1))
    <3>1. CASE L > 1
      <4>1. K \in Nat /\ K >= 1 /\ K <= L - 1
        BY <2>2, <2>3, <3>1, Halved
      <4>2. L <= N - n
        BY <2>2, <3>1
      <4> QED
        BY <2>2, <2>5, <4>1, <4>2
    <3>2. CASE ~ (L > 1)
      BY <2>2, <2>4, <3>2
    <3> QED
      BY <3>1, <3>2
  <2> QED
    BY <2>5, <2>6 DEF K
<1>3. \A n \in 0 .. N : n \in S
  <2> HIDE DEF S
  <2> QED
    BY <1>1, <1>2, SetInductionTo
<1> QED
  BY <1>3

\* The root is the one node of the last level.
LEMMA OneRoot ==
  ASSUME NEW hashes, Len(hashes) \in Nat, Len(hashes) > 0, NEW level, Levels(level, hashes)
  PROVE  Len(level[Len(hashes)]) = 1
  BY Shrinking

\* The nodes of a tree.
Nodes(level, hashes) ==
  UNION {{level[n][i] : i \in 1 .. Len(level[n])} : n \in 0 .. Len(hashes)}

\* A node is one of the leaves, or was made of two nodes.
Grown(h, level, hashes) ==
  \/ \E i \in 1 .. Len(hashes) : h = hashes[i]
  \/ \E a, b \in Nodes(level, hashes) : h = nodeHash(a, b)

LEMMA NodesGrown ==
  ASSUME NEW hashes, Len(hashes) \in Nat, Len(hashes) > 0, NEW level, Levels(level, hashes)
  PROVE  \A h \in Nodes(level, hashes) : Grown(h, level, hashes)
<1> DEFINE N == Len(hashes)
           S == {n \in 0 .. N : \A i \in 1 .. Len(level[n]) : Grown(level[n][i], level, hashes)}
<1>1. 0 \in S
  BY DEF Levels, Grown
<1>2. ASSUME NEW n \in 0 .. N - 1, n \in S PROVE n + 1 \in S
  <2>1. level[n + 1] = IF Len(level[n]) > 1 THEN nextMerkleLevel(level[n]) ELSE level[n]
    BY DEF Levels
  <2>2. Len(level[n]) \in Nat
    BY Shrinking
  <2>3. CASE Len(level[n]) > 1
    <3> DEFINE L == Len(level[n])
    <3>1. /\ Len(level[n + 1]) = (L + 1) \div 2
          /\ \A c \in 0 .. ((L + 1) \div 2) - 1 :
               level[n + 1][c + 1]
                 = nodeHash(level[n][2 * c + 1],
                            level[n][IF 2 * c + 2 <= L THEN 2 * c + 2 ELSE 2 * c + 1])
      BY <2>1, <2>2, <2>3, NextRow
    <3>2. ASSUME NEW i \in 1 .. Len(level[n + 1]) PROVE Grown(level[n + 1][i], level, hashes)
      <4> DEFINE c == i - 1
                 left == 2 * c + 1
                 right == IF 2 * c + 2 <= L THEN 2 * c + 2 ELSE 2 * c + 1
      <4> DEFINE K == (L + 1) \div 2
      <4>0. K \in Nat /\ (2 * K = L \/ 2 * K = L + 1)
        BY <2>2, <2>3, Halved
      <4>1. c \in 0 .. K - 1 /\ c + 1 = i
        <5>1. i \in 1 .. K
          BY <3>1
        <5> HIDE DEF K
        <5> QED
          BY <4>0, <5>1
      <4>2. left \in 1 .. L /\ right \in 1 .. L
        <5> HIDE DEF K
        <5> QED
          BY <2>2, <4>0, <4>1
      <4>3. level[n + 1][i] = nodeHash(level[n][left], level[n][right])
        BY <3>1, <4>1
      <4>4. level[n][left] \in Nodes(level, hashes) /\ level[n][right] \in Nodes(level, hashes)
        <5> HIDE DEF left, right
        <5> QED
          BY <4>2 DEF Nodes
      <4> QED
        BY <4>3, <4>4 DEF Grown
    <3> QED
      BY <3>2
  <2>4. CASE ~ (Len(level[n]) > 1)
    BY <1>2, <2>1, <2>4
  <2> QED
    BY <2>3, <2>4
<1>3. \A n \in 0 .. N : n \in S
  <2> HIDE DEF S
  <2> QED
    BY <1>1, <1>2, SetInductionTo
<1> QED
  BY <1>3 DEF Nodes

\* From a node down any path there are only nodes.
LEMMA DownThePath ==
  ASSUME NEW receipts, NEW hashes, hashes = leaves(receipts),
         Len(hashes) \in Nat, DOMAIN receipts = 1 .. Len(hashes), Len(hashes) > 0,
         NEW level, Levels(level, hashes),
         NEW proof, Len(proof.auditPath) \in Nat, NEW hash, Climbing(hash, proof),
         hash[Len(proof.auditPath)] \in Nodes(level, hashes)
  PROVE  proof.leafHash \in Nodes(level, hashes)
<1> DEFINE M == Len(proof.auditPath)
           S == {m \in 0 .. M : hash[M - m] \in Nodes(level, hashes)}
<1>1. 0 \in S
  OBVIOUS
<1>2. ASSUME NEW m \in 0 .. M - 1, m \in S PROVE m + 1 \in S
  <2> DEFINE n == M - m
  <2>1. n \in 0 .. M /\ n # 0 /\ n - 1 \in 0 .. M /\ M - (m + 1) = n - 1
    OBVIOUS
  <2>2. hash[n] = Climb(proof.auditPath, n, hash[n - 1])
    BY <2>1 DEF Climbing
  <2>3. PICK x : hash[n] = nodeHash(x, hash[n - 1]) \/ hash[n] = nodeHash(hash[n - 1], x)
    BY <2>2 DEF Climb
  <2>4. Grown(hash[n], level, hashes)
    BY <1>2, NodesGrown
  <2>5. \A i \in 1 .. Len(hashes) : \A a, b : hashes[i] # nodeHash(a, b)
    BY DEF leaves, leafHash, nodeHash
  <2>6. \A a, b, c, d : nodeHash(a, b) = nodeHash(c, d) => a = c /\ b = d
    BY DEF nodeHash
  <2> HIDE DEF n
  <2>7. hash[n - 1] \in Nodes(level, hashes)
    BY <2>3, <2>4, <2>5, <2>6 DEF Grown
  <2> QED
    BY <2>1, <2>7
<1>3. \A m \in 0 .. M : m \in S
  <2> HIDE DEF S
  <2> QED
    BY <1>1, <1>2, SetInductionTo
<1>4. hash[0] \in Nodes(level, hashes)
  BY <1>3
<1> QED
  BY <1>4 DEF Climbing

\* A list of receipts.
ReceiptList(receipts) == \E S : receipts \in Seq(S)

LEMMA LeavesOf ==
  ASSUME NEW receipts, ReceiptList(receipts)
  PROVE  /\ Len(leaves(receipts)) \in Nat /\ Len(leaves(receipts)) = Len(receipts)
         /\ DOMAIN receipts = 1 .. Len(receipts)
         /\ leaves(receipts) = <<>> <=> Len(receipts) = 0
         /\ \A i \in 1 .. Len(receipts) :
              leaves(receipts)[i] = leafHash(receiptToTransparencyEntry(receipts[i]))
<1>1. DOMAIN receipts = 1 .. Len(receipts) /\ Len(receipts) \in Nat
  BY DEF ReceiptList
<1> DEFINE f == leaves(receipts)
<1>2. f = [i \in 1 .. Len(receipts) |-> f[i]]
  BY <1>1 DEF leaves
<1>3. \A i \in 1 .. Len(receipts) : f[i] = leafHash(receiptToTransparencyEntry(receipts[i]))
  BY <1>1 DEF leaves
<1>4. Len(f) = Len(receipts)
  <2> HIDE DEF f
  <2> QED
    BY <1>1, <1>2, ListOf
<1>5. f \in Seq({f[i] : i \in 1 .. Len(receipts)})
  <2> HIDE DEF f
  <2> QED
    BY <1>1, <1>2
<1>6. f = <<>> <=> Len(f) = 0
  <2> HIDE DEF f
  <2> QED
    BY <1>5
<1> QED
  BY <1>1, <1>3, <1>4, <1>6

\* A proof with whatever audit path, of whatever leaf, verifies against the root of a
\* log only if the leaf is one of an entry of the log: neither the index nor the size
\* in the proof is needed for that.  (verifyInclusionProof, merkleRoot)
THEOREM OnlyEntriesVerify ==
  ASSUME NEW receipts, ReceiptList(receipts), NEW payload,
         NEW proof, Len(proof.auditPath) \in Nat, proof.leafHash = leafHash(payload),
         proof.rootHash = merkleRoot(leaves(receipts)), verifyInclusionProof(proof)
  PROVE  \E i \in 1 .. Len(receipts) : leaves(receipts)[i] = leafHash(payload)
<1> DEFINE hashes == leaves(receipts)
           M == Len(proof.auditPath)
<1>1. PICK hash : Climbing(hash, proof) /\ hash[M] = merkleRoot(hashes)
  BY Verifying
<1>2. /\ Len(hashes) \in Nat /\ Len(hashes) = Len(receipts) /\ DOMAIN receipts = 1 .. Len(hashes)
      /\ hashes = <<>> <=> Len(receipts) = 0
  BY LeavesOf
<1>3. CASE hashes = <<>>
  <2>1. hash[M] = [empty |-> "oaa-empty-transparency-log-v0.1"]
    BY <1>1, <1>3 DEF merkleRoot
  <2>2. hash[M] = leafHash(payload) \/ \E a, b : hash[M] = nodeHash(a, b)
    BY <1>1 DEF Climbing, Climb
  <2>3. \A e, a, b : [empty |-> e] # leafHash(payload) /\ [empty |-> e] # nodeHash(a, b)
    BY DEF leafHash, nodeHash
  <2> QED
    BY <2>1, <2>2, <2>3
<1>4. CASE hashes # <<>>
  <2> DEFINE level == merkleLevels(hashes)
  <2>1. Levels(level, hashes) /\ Len(hashes) > 0
    BY <1>2, <1>4, MadeLevels
  <2>2. hash[M] = level[Len(hashes)][1]
    BY <1>1, <1>4 DEF merkleRoot
  <2> HIDE DEF level
  <2>3. Len(level[Len(hashes)]) = 1
    BY <1>2, <2>1, OneRoot
  <2>4. hash[M] \in Nodes(level, hashes)
    BY <1>2, <2>2, <2>3 DEF Nodes
  <2>5. leafHash(payload) \in Nodes(level, hashes)
    BY <1>1, <1>2, <2>1, <2>4, DownThePath
  <2>6. Grown(leafHash(payload), level, hashes)
    BY <1>2, <2>1, <2>5, NodesGrown
  <2>7. \A a, b : leafHash(payload) # nodeHash(a, b)
    BY DEF leafHash, nodeHash
  <2> QED
    BY <1>2, <2>6, <2>7 DEF Grown
<1> QED
  BY <1>3, <1>4

-----------------------------------------------------------------------------
(* The proofs that are made *)

\* The levels of a tree as the way up meets them: more than one node below some
\* height, one node from there on.
LEMMA TopReached ==
  ASSUME NEW hashes, Len(hashes) \in Nat, Len(hashes) > 0, NEW level, Levels(level, hashes)
  PROVE  \E n \in DOMAIN level : Len(level[n]) = 1 /\ \A m \in 0 .. n - 1 : Len(level[m]) > 1
<1> DEFINE S == {n \in 0 .. Len(hashes) : Len(level[n]) = 1}
<1>1. S \subseteq Nat /\ Len(hashes) \in S
  BY OneRoot
<1>2. PICK n \in S : \A m \in S : n <= m
  BY <1>1, LeastExists
<1>3. DOMAIN level = 0 .. Len(hashes)
  BY DEF Levels
<1>4. ASSUME NEW m \in 0 .. n - 1 PROVE Len(level[m]) > 1
  <2>1. m \in 0 .. Len(hashes) /\ m \notin S
    BY <1>2
  <2>2. Len(level[m]) # 1 /\ Len(level[m]) \in Nat /\ Len(level[m]) >= 1
    BY <2>1, Shrinking
  <2> DEFINE L == Len(level[m])
  <2>3. L # 1 /\ L \in Nat /\ L >= 1
    BY <2>2
  <2> HIDE DEF L
  <2>4. L > 1
    BY <2>3
  <2> QED
    BY <2>4 DEF L
<1> QED
  BY <1>2, <1>3, <1>4

\* From the first level with one node on, the level stays.
LEMMA TopStays ==
  ASSUME NEW hashes, Len(hashes) \in Nat, Len(hashes) > 0, NEW level, Levels(level, hashes),
         NEW height \in 0 .. Len(hashes), Len(level[height]) = 1
  PROVE  level[Len(hashes)] = level[height]
<1> DEFINE N == Len(hashes)
           S == {m \in 0 .. N - height : level[height + m] = level[height]}
<1>1. 0 \in S
  OBVIOUS
<1>2. ASSUME NEW m \in 0 .. (N - height) - 1, m \in S PROVE m + 1 \in S
  <2> DEFINE n == height + m
  <2>1. n + 1 \in 0 .. N /\ n + 1 # 0 /\ (n + 1) - 1 = n /\ height + (m + 1) = n + 1
    OBVIOUS
  <2>2. level[n] = level[height]
    BY <1>2
  <2> HIDE DEF n
  <2>3. level[n + 1] = IF Len(level[n]) > 1 THEN nextMerkleLevel(level[n]) ELSE level[n]
    BY <2>1 DEF Levels
  <2>4. level[n + 1] = level[height]
    BY <2>2, <2>3
  <2> QED
    BY <2>1, <2>4
<1>3. N - height \in Nat
  OBVIOUS
<1>4. \A m \in 0 .. N - height : m \in S
  <2> HIDE DEF S
  <2> QED
    BY <1>1, <1>2, <1>3, SetInductionTo
<1>5. N - height \in S
  BY <1>3, <1>4
<1> QED
  BY <1>5

\* What is pushed at a level, for a cursor there.
Step(row, at) ==
  [position |-> IF at % 2 = 0 THEN "right" ELSE "left",
   hash |-> row[(IF at % 2 = 0 THEN IF at + 1 < Len(row) THEN at + 1 ELSE at ELSE at - 1) + 1]]

\* The step from a node leads to the node above it.
LEMMA StepUp ==
  ASSUME NEW row, Len(row) \in Nat, Len(row) > 1, NEW at \in 0 .. Len(row) - 1,
         NEW path, NEW n, path[n] = Step(row, at)
  PROVE  /\ at \div 2 \in 0 .. Len(nextMerkleLevel(row)) - 1
         /\ Climb(path, n, row[at + 1]) = nextMerkleLevel(row)[(at \div 2) + 1]
<1> DEFINE L == Len(row)
           K == (L + 1) \div 2
           c == at \div 2
<1>1. /\ Len(nextMerkleLevel(row)) = K
      /\ \A i \in 0 .. K - 1 :
           nextMerkleLevel(row)[i + 1]
             = nodeHash(row[2 * i + 1], row[IF 2 * i + 2 <= L THEN 2 * i + 2 ELSE 2 * i + 1])
  BY NextRow
<1>2. K \in Nat /\ (2 * K = L \/ 2 * K = L + 1)
  BY Halved
<1>3. c \in Nat /\ ((at = 2 * c /\ at % 2 = 0) \/ (at = 2 * c + 1 /\ at % 2 = 1))
  OBVIOUS
<1> HIDE DEF K, c
<1>4. c \in 0 .. K - 1
  BY <1>2, <1>3
<1>5. nextMerkleLevel(row)[c + 1]
        = nodeHash(row[2 * c + 1], row[IF 2 * c + 2 <= L THEN 2 * c + 2 ELSE 2 * c + 1])
  BY <1>1, <1>4
<1>6. CASE at = 2 * c /\ at % 2 = 0
  <2>1. path[n].position = "right"
    BY <1>6 DEF Step
  <2>2. path[n].hash = row[IF 2 * c + 2 <= L THEN 2 * c + 2 ELSE 2 * c + 1]
    <3>1. path[n].hash = row[(IF at + 1 < L THEN at + 1 ELSE at) + 1]
      BY <1>6 DEF Step
    <3>2. (IF at + 1 < L THEN at + 1 ELSE at) + 1 = IF 2 * c + 2 <= L THEN 2 * c + 2 ELSE 2 * c + 1
      BY <1>3, <1>6
    <3> QED
      BY <3>1, <3>2
  <2>3. Climb(path, n, row[at + 1]) = nodeHash(row[2 * c + 1], path[n].hash)
    BY <1>6, <2>1 DEF Climb
  <2> QED
    BY <1>1, <1>4, <1>5, <2>2, <2>3 DEF c
<1>7. CASE at = 2 * c + 1 /\ at % 2 = 1
  <2>1. path[n].position = "left"
    BY <1>7 DEF Step
  <2>2. path[n].hash = row[2 * c + 1]
    <3>1. path[n].hash = row[(at - 1) + 1]
      BY <1>7 DEF Step
    <3>2. (at - 1) + 1 = 2 * c + 1
      BY <1>3, <1>7
    <3> QED
      BY <3>1, <3>2
  <2>3. at + 1 = 2 * c + 2 /\ 2 * c + 2 <= L
    BY <1>3, <1>7
  <2>4. Climb(path, n, row[at + 1]) = nodeHash(path[n].hash, row[2 * c + 2])
    BY <2>1, <2>3 DEF Climb
  <2> QED
    BY <1>1, <1>4, <1>5, <2>2, <2>3, <2>4 DEF c
<1> QED
  BY <1>3, <1>6, <1>7

\* The proof that the log makes for any of its entries verifies.  By induction along
\* the way up: the hash so far is the node at the cursor.
\* (createInclusionProof, verifyInclusionProof)
THEOREM EveryEntryVerifies ==
  ASSUME NEW receipts, ReceiptList(receipts), NEW index \in 0 .. Len(receipts) - 1
  PROVE  /\ Len(createInclusionProof(receipts, index).auditPath) \in Nat
         /\ verifyInclusionProof(createInclusionProof(receipts, index))
<1> DEFINE hashes == leaves(receipts)
           N == Len(receipts)
           level == merkleLevels(hashes)
           Top(n) == Len(level[n]) = 1 /\ \A m \in 0 .. n - 1 : Len(level[m]) > 1
           height == CHOOSE n \in DOMAIN level : Top(n)
           cursor == CHOOSE cursor : Halving(cursor, index, N)
           proof == createInclusionProof(receipts, index)
<1>1. Len(hashes) = N /\ N \in Nat /\ N > 0 /\ Len(hashes) > 0 /\ hashes # <<>>
  <2>1. Len(receipts) \in Nat
    BY DEF ReceiptList
  <2> QED
    BY <2>1, LeavesOf
<1>2. Levels(level, hashes)
  BY <1>1, MadeLevels
<1>3. Halving(cursor, index, N)
  BY <1>1, HalvingExists
<1>4. height \in DOMAIN level /\ Top(height)
  <2>1. \E n \in DOMAIN level : Top(n)
    <3> HIDE DEF level
    <3> QED
      BY <1>1, <1>2, TopReached
  <2> QED
    BY <2>1
<1>5. /\ proof.leafHash = hashes[index + 1] /\ proof.rootHash = merkleRoot(hashes)
      /\ proof.auditPath = [n \in 1 .. height |-> Step(level[n - 1], cursor[n - 1])]
  BY DEF createInclusionProof, Halving, Step
<1>6. merkleRoot(hashes) = level[N][1]
  BY <1>1 DEF merkleRoot
<1> HIDE DEF hashes, level, height, cursor, proof
<1>7. height \in 0 .. N /\ Len(level[height]) = 1
  BY <1>1, <1>2, <1>4 DEF Levels
<1>8. Len(proof.auditPath) = height /\ \A n \in 1 .. height :
        proof.auditPath[n] = Step(level[n - 1], cursor[n - 1])
  <2> DEFINE path == proof.auditPath
  <2>1. path = [n \in 1 .. height |-> path[n]] /\ height \in Nat
    BY <1>5, <1>7
  <2>2. Len(path) = height
    <3> HIDE DEF path
    <3> QED
      BY <2>1, ListOf
  <2> QED
    BY <1>5, <2>2
<1>9. PICK hash :
        /\ Climbing(hash, proof)
        /\ verifyInclusionProof(proof) <=> hash[Len(proof.auditPath)] = proof.rootHash
  <2>1. Len(proof.auditPath) \in Nat
    BY <1>7, <1>8
  <2> QED
    BY <2>1, Verifying
<1> DEFINE Right(n) == cursor[n] \in 0 .. Len(level[n]) - 1 /\ hash[n] = level[n][cursor[n] + 1]
           S == {n \in 0 .. height : Right(n)}
<1>10. 0 \in S
  <2>1. level[0] = hashes /\ cursor[0] = index /\ hash[0] = hashes[index + 1]
    BY <1>1, <1>2, <1>3, <1>5, <1>7, <1>8, <1>9 DEF Levels, Halving, Climbing
  <2> QED
    BY <1>1, <1>7, <2>1
<1>11. ASSUME NEW n \in 0 .. height - 1, n \in S PROVE n + 1 \in S
  <2>1. n + 1 \in 0 .. N /\ n + 1 \in 1 .. height /\ n + 1 # 0 /\ (n + 1) - 1 = n /\ n \in 0 .. N
    BY <1>1, <1>7
  <2>2. Len(level[n]) > 1 /\ Len(level[n]) \in Nat
    BY <1>1, <1>2, <1>4, <2>1, Shrinking
  <2>3. level[n + 1] = nextMerkleLevel(level[n])
    BY <1>1, <1>2, <2>1, <2>2 DEF Levels
  <2>4. cursor[n + 1] = cursor[n] \div 2
    BY <1>3, <2>1 DEF Halving
  <2>5. proof.auditPath[n + 1] = Step(level[n], cursor[n])
    BY <1>8, <2>1
  <2>6. hash[n + 1] = Climb(proof.auditPath, n + 1, hash[n])
    <3>1. n + 1 \in 0 .. Len(proof.auditPath)
      BY <1>7, <1>8, <2>1
    <3> QED
      BY <1>9, <2>1, <3>1 DEF Climbing
  <2>7. Right(n)
    BY <1>11
  <2> DEFINE row == level[n]
             at == cursor[n]
             path == proof.auditPath
  <2>8. at \in 0 .. Len(row) - 1 /\ hash[n] = row[at + 1]
    BY <2>7
  <2>9. Len(row) \in Nat /\ Len(row) > 1 /\ path[n + 1] = Step(row, at)
    BY <2>2, <2>5
  <2>10. /\ level[n + 1] = nextMerkleLevel(row) /\ cursor[n + 1] = at \div 2
         /\ hash[n + 1] = Climb(path, n + 1, row[at + 1])
    BY <2>3, <2>4, <2>6, <2>8
  <2> HIDE DEF row, at, path
  <2>11. /\ at \div 2 \in 0 .. Len(nextMerkleLevel(row)) - 1
         /\ Climb(path, n + 1, row[at + 1]) = nextMerkleLevel(row)[(at \div 2) + 1]
    BY <2>8, <2>9, StepUp
  <2>12. Right(n + 1)
    BY <2>10, <2>11
  <2> QED
    BY <1>7, <2>1, <2>12
<1>12. height \in S
  <2>1. \A n \in 0 .. height : n \in S
    <3> HIDE DEF S
    <3> QED
      BY <1>7, <1>10, <1>11, SetInductionTo
  <2> QED
    BY <1>7, <2>1
<1>13. hash[height] = level[height][1]
  <2>1. cursor[height] \in 0 .. Len(level[height]) - 1 /\ hash[height] = level[height][cursor[height] + 1]
    BY <1>12
  <2>2. cursor[height] = 0
    BY <1>7, <2>1
  <2> QED
    BY <2>1, <2>2
<1>14. level[N] = level[height]
  BY <1>1, <1>2, <1>7, TopStays
<1>15. hash[height] = proof.rootHash
  BY <1>5, <1>6, <1>13, <1>14
<1>16. Len(proof.auditPath) \in Nat /\ verifyInclusionProof(proof)
  BY <1>7, <1>8, <1>9, <1>15
<1> QED
  BY <1>16 DEF proof

-----------------------------------------------------------------------------
(* The log and its anchors *)

\* A note is of the root of the log at one of its sizes.
Anchored(note, log) ==
  \E m \in 0 .. Len(log) :
    note.payloadHash = createTransparencyRootAnchorPayload(SubSeq(log, 1, m), "testnet")

LogInv == logged \in Seq(Receipts) /\ \A note \in notes : Anchored(note, logged)

LEMMA LogInit == TransparencyInit => LogInv
  BY DEF TransparencyInit, LogInv

LEMMA LogStep ==
  ASSUME LogInv, [TransparencyNext]_transparencyVars
  PROVE  LogInv'
<1> USE DEF LogInv
<1>1. CASE UNCHANGED transparencyVars
  BY <1>1 DEF transparencyVars
<1>2. CASE createTransparencyLog
  <2>1. PICK receipt \in Receipts : logged' = Append(logged, receipt)
    BY <1>2 DEF createTransparencyLog
  <2>2. notes' = notes
    BY <1>2 DEF createTransparencyLog
  <2>3. logged' \in Seq(Receipts) /\ Len(logged') = Len(logged) + 1
    BY <2>1
  <2>4. \A m \in 0 .. Len(logged) : SubSeq(logged', 1, m) = SubSeq(logged, 1, m)
    BY <2>1
  <2>5. ASSUME NEW note \in notes PROVE Anchored(note, logged')
    <3>1. PICK m \in 0 .. Len(logged) :
            note.payloadHash = createTransparencyRootAnchorPayload(SubSeq(logged, 1, m), "testnet")
      BY DEF Anchored
    <3>2. m \in 0 .. Len(logged')
      BY <2>3
    <3> QED
      BY <2>4, <3>1, <3>2 DEF Anchored
  <2> QED
    BY <2>2, <2>3, <2>5
<1>3. CASE Anchor
  <2> DEFINE payload == createTransparencyRootAnchorPayload(logged, "testnet")
  <2>1. logged' = logged /\ notes' = notes \cup {buildAlgorandAnchorNote(payload)}
    BY <1>3 DEF Anchor
  <2>2. SubSeq(logged, 1, Len(logged)) = logged /\ Len(logged) \in 0 .. Len(logged)
    OBVIOUS
  <2>3. Anchored(buildAlgorandAnchorNote(payload), logged)
    BY <2>2 DEF Anchored, buildAlgorandAnchorNote
  <2> QED
    BY <2>1, <2>3
<1>4. CASE EditRecord
  BY <1>4 DEF EditRecord
<1> QED
  BY <1>1, <1>2, <1>3, <1>4 DEF TransparencyNext

\* A proof has these fields.
LEMMA Fields ==
  ASSUME NEW receipts, NEW index
  PROVE  LET made == createInclusionProof(receipts, index)
         IN  made = [leafHash |-> made.leafHash, rootHash |-> made.rootHash,
                     auditPath |-> made.auditPath]
  BY DEF createInclusionProof

\* The log as it was at an earlier size.
LEMMA Prefix ==
  ASSUME NEW log \in Seq(Receipts), NEW n \in 0 .. Len(log)
  PROVE  /\ ReceiptList(SubSeq(log, 1, n)) /\ Len(SubSeq(log, 1, n)) = n
         /\ \A i \in 1 .. n : leaves(SubSeq(log, 1, n))[i] = leaves(log)[i]
<1> DEFINE sub == SubSeq(log, 1, n)
<1>1. sub \in Seq(Receipts) /\ Len(sub) = n /\ \A i \in 1 .. n : sub[i] = log[i] /\ i \in 1 .. Len(log)
  OBVIOUS
<1> HIDE DEF sub
<1>2. ReceiptList(sub) /\ ReceiptList(log)
  BY <1>1 DEF ReceiptList
<1>3. \A i \in 1 .. n : leaves(sub)[i] = leaves(log)[i]
  BY <1>1, <1>2, LeavesOf
<1> QED
  BY <1>1, <1>2, <1>3 DEF sub

LEMMA LogSound == LogInv => VerifiedIsLogged
<1> SUFFICES ASSUME LogInv PROVE VerifiedIsLogged
  OBVIOUS
<1> DEFINE Leaf(receipt) == leafHash(receiptToTransparencyEntry(receipt))
           Root(n) == merkleRoot(leaves(SubSeq(logged, 1, n)))
           Logged(leaf, size) == \E i \in 1 .. size : leaves(logged)[i] = leaf
           With(made, leaf, root) == [made EXCEPT !.leafHash = leaf, !.rootHash = root]
<1>0. logged \in Seq(Receipts) /\ Len(logged) \in Nat
  BY DEF LogInv
<1>1. ASSUME NEW made \in ProofsMade
      PROVE  \E receipts : \E index : /\ made = createInclusionProof(receipts, index)
                                     /\ Len(made.auditPath) \in Nat
                                     /\ verifyInclusionProof(made)
  <2>1. PICK n \in 1 .. Len(logged) :
          made \in {createInclusionProof(SubSeq(logged, 1, n), index) : index \in 0 .. n - 1}
    BY DEF ProofsMade
  <2>2. PICK index \in 0 .. n - 1 : made = createInclusionProof(SubSeq(logged, 1, n), index)
    BY <2>1
  <2>3. n \in 0 .. Len(logged)
    BY <1>0
  <2>4. ReceiptList(SubSeq(logged, 1, n)) /\ Len(SubSeq(logged, 1, n)) = n
    BY <1>0, <2>3, Prefix
  <2>5. Len(made.auditPath) \in Nat /\ verifyInclusionProof(made)
    BY <2>2, <2>4, EveryEntryVerifies
  <2> QED
    BY <2>2, <2>5
<1>2. ASSUME NEW made \in ProofsMade, NEW receipt, NEW n \in 0 .. Len(logged),
             verifyInclusionProof(With(made, Leaf(receipt), Root(n)))
      PROVE  Logged(Leaf(receipt), n)
  <2> DEFINE altered == With(made, Leaf(receipt), Root(n))
             prefix == SubSeq(logged, 1, n)
  <2>1. /\ altered.leafHash = Leaf(receipt) /\ altered.rootHash = Root(n)
        /\ altered.auditPath = made.auditPath /\ Len(made.auditPath) \in Nat
    <3>1. PICK receipts : \E index : /\ made = createInclusionProof(receipts, index)
                                    /\ Len(made.auditPath) \in Nat
      BY <1>1
    <3>2. PICK index : made = createInclusionProof(receipts, index)
      BY <3>1
    <3> DEFINE leaf == Leaf(receipt)
               root == Root(n)
    <3>3. altered = [made EXCEPT !.leafHash = leaf, !.rootHash = root]
      OBVIOUS
    <3> HIDE DEF leaf, root, altered
    <3>4. made = [leafHash |-> made.leafHash, rootHash |-> made.rootHash,
                  auditPath |-> made.auditPath]
      BY <3>2, Fields
    <3>5. /\ altered.leafHash = leaf /\ altered.rootHash = root
          /\ altered.auditPath = made.auditPath
      BY <3>3, <3>4
    <3> QED
      BY <3>1, <3>5 DEF leaf, root
  <2>2. /\ ReceiptList(prefix) /\ Len(prefix) = n
        /\ \A i \in 1 .. n : leaves(prefix)[i] = leaves(logged)[i]
    BY <1>0, Prefix
  <2>3. altered.rootHash = merkleRoot(leaves(prefix)) /\ verifyInclusionProof(altered)
    BY <1>2, <2>1
  <2> HIDE DEF altered, prefix
  <2>4. \E i \in 1 .. Len(prefix) : leaves(prefix)[i] = Leaf(receipt)
    BY <2>1, <2>2, <2>3, OnlyEntriesVerify
  <2> QED
    BY <2>2, <2>4
<1>3. ASSUME NEW record \in records, verifyAlgorandAnchorRecord(record, Absent, "testnet"),
             NEW note \in notes, note.payloadHash = record.payloadHash
      PROVE  \E m \in 0 .. Len(logged) :
               record.payload.digest = Root(m) /\ record.payload.treeSize = m
  <2>1. PICK m \in 0 .. Len(logged) :
          note.payloadHash = createTransparencyRootAnchorPayload(SubSeq(logged, 1, m), "testnet")
    BY DEF LogInv, Anchored
  <2>2. record.payload = createTransparencyRootAnchorPayload(SubSeq(logged, 1, m), "testnet")
    BY <1>3, <2>1 DEF verifyAlgorandAnchorRecord
  <2>3. Len(SubSeq(logged, 1, m)) = m
    BY <1>0, Prefix
  <2> QED
    BY <2>2, <2>3 DEF createTransparencyRootAnchorPayload
<1> HIDE DEF Leaf, Root, With, Logged
<1>4. \A proof \in ProofsMade : verifyInclusionProof(proof)
  BY <1>1
<1>5. ASSUME NEW n \in 1 .. Len(logged), NEW made \in ProofsMade, NEW receipt \in Receipts
      PROVE  /\ verifyInclusionProof(With(made, Leaf(receipt), Root(n))) => Logged(Leaf(receipt), n)
             /\ \A record \in records :
                  /\ verifyAlgorandAnchorRecord(record, Absent, "testnet")
                  /\ \E note \in notes : note.payloadHash = record.payloadHash
                  /\ verifyInclusionProof(With(made, Leaf(receipt), record.payload.digest))
                  => Logged(Leaf(receipt), record.payload.treeSize)
  <2>1. n \in 0 .. Len(logged)
    BY <1>0
  <2>2. ASSUME NEW record \in records, verifyAlgorandAnchorRecord(record, Absent, "testnet"),
               NEW note \in notes, note.payloadHash = record.payloadHash,
               verifyInclusionProof(With(made, Leaf(receipt), record.payload.digest))
        PROVE  Logged(Leaf(receipt), record.payload.treeSize)
    <3>1. PICK m \in 0 .. Len(logged) :
            record.payload.digest = Root(m) /\ record.payload.treeSize = m
      BY <1>3, <2>2
    <3> QED
      BY <1>2, <2>2, <3>1
  <2> QED
    BY <1>2, <2>1, <2>2
<1> QED
  BY <1>4, <1>5 DEF VerifiedIsLogged, Leaf, Root, With, Logged

\* For a log of any length and any number of anchors, edited or not: every proof of
\* the log verifies, and what verifies against one of its roots, or against an anchor
\* record that has its note on the chain, was logged when that root was made.
THEOREM VerifiedIsAlwaysLogged == TransparencySpec => []VerifiedIsLogged
<1>1. LogInv /\ [TransparencyNext]_transparencyVars => LogInv'
  BY LogStep
<1> QED
  BY <1>1, LogInit, LogSound, PTL DEF TransparencySpec

-----------------------------------------------------------------------------
(* Together *)

\* The machines side by side do what each does on its own.
LEMMA EachRecords == LedgersSpec => Spec /\ TransparencySpec /\ EvidenceSpec
<1>1. LedgersInit => Init /\ TransparencyInit /\ EvidenceInit
  BY DEF LedgersInit
<1>2. ASSUME [LedgersNext]_<<vars, transparencyVars, evidenceVars>>
      PROVE  [Next]_vars /\ [TransparencyNext]_transparencyVars /\ [EvidenceNext]_evidenceVars
  BY <1>2, Zenon DEF LedgersNext
<1> QED
  BY <1>1, <1>2, PTL DEF LedgersSpec, Spec, TransparencySpec, EvidenceSpec

\* The guarantees of the machines that keep records hold where they stand side by
\* side: the chain of receipts, what was returned, what was damaged, what verifies
\* and what was refused.
THEOREM RecordsAreSafe ==
  LedgersSpec => /\ [](ChainHolds /\ ReturnedIsKept /\ VerifiedIsLogged /\ RefusedIsStored)
                 /\ DamageStays
  BY EachRecords, ChainAlwaysHolds, ReturnedAlwaysKept, VerifiedIsAlwaysLogged,
     RefusedIsAlwaysStored, DamageAlwaysStays, PTL
=============================================================================
