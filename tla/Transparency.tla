---------------------------- MODULE Transparency ----------------------------
(***************************************************************************)
(* A transparency log over receipts (packages/transparency), its inclusion *)
(* proofs, and its root anchored on a chain (packages/algorand-anchor).    *)
(* The log is made anew from the receipts each time it has grown; proofs   *)
(* and anchor records go around, and are put together by others.           *)
(*                                                                         *)
(* A hash is what it was taken of; the canonical JSON of two values is the *)
(* same only if they are.  Indexes are those of the code, from 0.          *)
(***************************************************************************)
EXTENDS Naturals, FiniteSets, SequencesExt

CONSTANTS
  Receipts,    \* [hash, copied, rest]: the hash a receipt states, or Absent, what an
               \* entry copies (its ids, time, decision and rule), and all the rest
  Absent,
  MaxEntries, MaxAnchors

ASSUME TransparencyAssumption == MaxEntries \in Nat /\ MaxAnchors \in Nat

VARIABLES
  logged,    \* the receipts the log is made from
  notes,     \* the notes of confirmed transactions
  records    \* anchor records around

transparencyVars == <<logged, notes, records>>

-----------------------------------------------------------------------------
(* The tree *)

leafHash(payload) == [leaf |-> payload]

nodeHash(left, right) == [node |-> <<left, right>>]

\* A receipt without a hash of its own is hashed whole.
receiptToTransparencyEntry(receipt) ==
  [digest |-> IF receipt.hash = Absent THEN <<"hash of", receipt.copied, receipt.rest>>
              ELSE <<"stated", receipt.hash>>,
   copied |-> receipt.copied]

leaves(receipts) ==
  [i \in DOMAIN receipts |-> leafHash(receiptToTransparencyEntry(receipts[i]))]

\* A slip: the last node of an odd level is left out.
nextMerkleLevel_Even(level) ==
  [i \in 1 .. Len(level) \div 2 |-> nodeHash(level[2 * i - 1], level[2 * i])]

\* The last node of an odd level is its own sibling.
nextMerkleLevel(level) ==
  [i \in 1 .. (Len(level) + 1) \div 2 |->
     nodeHash(level[2 * i - 1], level[IF 2 * i <= Len(level) THEN 2 * i ELSE 2 * i - 1])]

\* The levels of the tree above the leaves, up to the first that has one node; from
\* there on the level stays.
merkleLevels(hashes) ==
  LET level[n \in 0 .. Len(hashes)] ==
        IF n = 0 THEN hashes
        ELSE IF Len(level[n - 1]) > 1 THEN nextMerkleLevel(level[n - 1]) ELSE level[n - 1]
  IN  level

merkleRoot(hashes) ==
  IF hashes = <<>> THEN [empty |-> "oaa-empty-transparency-log-v0.1"]
  ELSE merkleLevels(hashes)[Len(hashes)][1]

\* The way up from a leaf ends at the first level that has one node.
createInclusionProof(receipts, index) ==
  LET level == merkleLevels(leaves(receipts))
      height == CHOOSE n \in DOMAIN level :
                  Len(level[n]) = 1 /\ \A m \in 0 .. n - 1 : Len(level[m]) > 1
      cursor[n \in 0 .. Len(receipts)] == IF n = 0 THEN index ELSE cursor[n - 1] \div 2
      Sibling(n) == IF cursor[n] % 2 = 0
                    THEN IF cursor[n] + 1 < Len(level[n]) THEN cursor[n] + 1 ELSE cursor[n]
                    ELSE cursor[n] - 1
  IN  [leafHash |-> leaves(receipts)[index + 1], rootHash |-> merkleRoot(leaves(receipts)),
       auditPath |-> [n \in 1 .. height |->
         [position |-> IF cursor[n - 1] % 2 = 0 THEN "right" ELSE "left",
          hash |-> level[n - 1][Sibling(n - 1) + 1]]]]

\* Neither the index nor the size of the tree is looked at.
verifyInclusionProof(proof) ==
  LET path == proof.auditPath
      hash[n \in 0 .. Len(path)] ==
        IF n = 0 THEN proof.leafHash
        ELSE IF path[n].position = "left" THEN nodeHash(path[n].hash, hash[n - 1])
        ELSE nodeHash(hash[n - 1], path[n].hash)
  IN  hash[Len(path)] = proof.rootHash

-----------------------------------------------------------------------------
(* Anchors *)

createTransparencyRootAnchorPayload(receipts, network) ==
  [kind |-> "transparency-root", network |-> network, digest |-> merkleRoot(leaves(receipts)),
   treeSize |-> Len(receipts)]

createAlgorandAnchorRecord(payload) == [payload |-> payload, payloadHash |-> payload]

buildAlgorandAnchorNote(payload) ==
  [payloadHash |-> payload, kind |-> payload.kind, digest |-> payload.digest]

\* Only what is expected is compared; the chain is not asked.
verifyAlgorandAnchorRecord(record, digest, network) ==
  /\ record.payloadHash = record.payload
  /\ digest # Absent => record.payload.digest = digest
  /\ network # Absent => record.payload.network = network

-----------------------------------------------------------------------------
TransparencyInit == logged = <<>> /\ notes = {} /\ records = {}

\* createTransparencyLog, of the receipts so far and one more.
createTransparencyLog ==
  /\ Len(logged) < MaxEntries
  /\ \E receipt \in Receipts : logged' = Append(logged, receipt)
  /\ UNCHANGED <<notes, records>>

\* The root is anchored: a transaction with the note is confirmed.
Anchor ==
  /\ Cardinality(records) < MaxAnchors
  /\ LET payload == createTransparencyRootAnchorPayload(logged, "testnet")
     IN  /\ notes' = notes \cup {buildAlgorandAnchorNote(payload)}
         /\ records' = records \cup {createAlgorandAnchorRecord(payload)}
  /\ UNCHANGED logged

\* Somebody edits an anchor record, and perhaps its hash as well.
EditRecord ==
  /\ Cardinality(records) < MaxAnchors
  /\ \E record \in records, digest \in Range(leaves(logged)), rehashed \in BOOLEAN :
       LET payload == [record.payload EXCEPT !.digest = digest]
       IN  records' = records \cup
             {[payload |-> payload,
               payloadHash |-> IF rehashed THEN payload ELSE record.payloadHash]}
  /\ UNCHANGED <<logged, notes>>

TransparencyNext == createTransparencyLog \/ Anchor \/ EditRecord

TransparencySpec == TransparencyInit /\ [][TransparencyNext]_transparencyVars

-----------------------------------------------------------------------------
(* Properties *)

\* The proofs that have been made for the log at any of its sizes.
ProofsMade ==
  UNION {{createInclusionProof(SubSeq(logged, 1, n), index) : index \in 0 .. n - 1} :
           n \in 1 .. Len(logged)}

\* Every proof the log gives for an entry verifies.  And an audit path from any of
\* these proofs, put together with any leaf and the root of any size, verifies only
\* for an entry the log had at that size; so does one with the digest of an anchor
\* record whose note is on the chain, whatever was edited in the record.
VerifiedIsLogged ==
  /\ \A proof \in ProofsMade : verifyInclusionProof(proof)
  /\ \A n \in 1 .. Len(logged), made \in ProofsMade, receipt \in Receipts :
       LET leaf == leafHash(receiptToTransparencyEntry(receipt))
           root == merkleRoot(leaves(SubSeq(logged, 1, n)))
           Logged(size) == \E i \in 1 .. size : leaves(logged)[i] = leaf
       IN  /\ verifyInclusionProof([made EXCEPT !.leafHash = leaf, !.rootHash = root]) => Logged(n)
           /\ \A record \in records :
                /\ verifyAlgorandAnchorRecord(record, Absent, "testnet")
                /\ \E note \in notes : note.payloadHash = record.payloadHash
                /\ verifyInclusionProof([made EXCEPT !.leafHash = leaf,
                                                     !.rootHash = record.payload.digest])
                => Logged(record.payload.treeSize)
=============================================================================
