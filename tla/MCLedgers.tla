----------------------------- MODULE MCLedgers -----------------------------
(***************************************************************************)
(* The machines that keep records, on small instances: ReceiptLedger,      *)
(* Transparency and Evidence.  They share nothing here, so each moves only *)
(* while the others are where they began.                                  *)
(***************************************************************************)
EXTENDS ReceiptLedger, Transparency, Evidence, TLC

\* Calls differ by nothing but their name.
Symmetry == Permutations(Appends) \cup Permutations(Writers)

\* A receipt that states its hash, and one that does not.
SomeReceipts == {[hash |-> hash, copied |-> "c", rest |-> "x"] : hash \in {"a", Absent}}

SomePolicyHashes == {"p", Nothing}

SomeMandateHashes == {"d"}

NoAppend == pc = [c \in Appends |-> "lock"] /\ lock = None /\ file = <<>> /\ faults = 0

NoLog == logged = <<>> /\ records = {}

NoEvidence == edits = 0 /\ trail = <<>> /\ \A w \in Writers : writer[w].pc = "start"

LedgersInit == Init /\ TransparencyInit /\ EvidenceInit

LedgersNext ==
  \/ NoLog /\ NoEvidence /\ Next /\ UNCHANGED <<transparencyVars, evidenceVars>>
  \/ NoAppend /\ NoEvidence /\ TransparencyNext /\ UNCHANGED <<vars, evidenceVars>>
  \/ NoAppend /\ NoLog /\ EvidenceNext /\ UNCHANGED <<vars, transparencyVars>>

LedgersSpec == LedgersInit /\ [][LedgersNext]_<<vars, transparencyVars, evidenceVars>>
=============================================================================
