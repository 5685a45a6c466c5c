------------------------------ MODULE Evidence ------------------------------
(***************************************************************************)
(* Evidence (packages/evidence) over receipts and their events             *)
(* (packages/core/src/events.ts): events are appended to trails; bundles   *)
(* list the hashes of a policy, a mandate document, receipts and events;   *)
(* they are put under the name of their hash into a store that only        *)
(* creates, whose answers may be lost, and put again.                      *)
(*                                                                         *)
(* A hash is what it was taken of.  A hash that is stated is taken over    *)
(* without being compared.                                                 *)
(***************************************************************************)
EXTENDS Naturals, FiniteSets, SequencesExt

CONSTANTS
  Writers,      \* calls of putImmutableEvidenceBundle, by whoever makes a bundle
  Notices,      \* what an event says
  PolicyHashes, \* the hashes of policies, and Nothing for no policy
  MandateHashes, \* the hashes of mandate documents, and Nothing for none
  Nothing,
  MaxTrail, MaxEdits, MaxTries

ASSUME EvidenceAssumption == MaxTrail \in Nat /\ MaxEdits \in Nat /\ MaxTries \in Nat

VARIABLES
  appended,   \* what the trails said, event by event, that were made by appending
  trail,      \* the trail as it is kept: events with their hashes
  edits,      \* how often it was edited
  objects,    \* the store: its bundles, named by their bundleHash
  writer      \* for each writer: how far it is, its bundle, how often it tried

evidenceVars == <<appended, trail, edits, objects, writer>>

-----------------------------------------------------------------------------
(* Event trails *)

\* previous: <<>> where there is no previousEventHash.
withoutEventHash(event) == [says |-> event.says, previous |-> event.previous]

createAccessEvent(says, previous) ==
  LET event == [says |-> says, previous |-> previous, eventHash |-> Nothing]
  IN  [event EXCEPT !.eventHash = withoutEventHash(event)]

appendAccessEvent(events, says) ==
  Append(events, createAccessEvent(says, IF events = <<>> THEN <<>>
                                         ELSE <<events[Len(events)].eventHash>>))

verifyAccessEventTrail(events) ==
  \A i \in DOMAIN events :
    /\ events[i].previous = IF i = 1 THEN <<>> ELSE <<events[i - 1].eventHash>>
    /\ events[i].eventHash = withoutEventHash(events[i])

\* attachEventTrailToReceipt: the receipt carries the events, and what they hash to.
hashAccessEvents(events) == [i \in DOMAIN events |-> events[i].eventHash]

attachEventTrailToReceipt(receipt, events) ==
  [receipt EXCEPT !.events = events, !.eventTrailHash = hashAccessEvents(events)]

-----------------------------------------------------------------------------
(* Bundles *)

\* A slip: the events are not in the hash.
BundleHash_NoEvents(bundle) ==
  [manifestVersion |-> bundle.manifestVersion, policyHash |-> bundle.policyHash,
   mandateDocumentHash |-> bundle.mandateDocumentHash, receiptHashes |-> bundle.receiptHashes]

BundleHash(bundle) ==
  [manifestVersion |-> bundle.manifestVersion, policyHash |-> bundle.policyHash,
   mandateDocumentHash |-> bundle.mandateDocumentHash, receiptHashes |-> bundle.receiptHashes,
   eventHashes |-> bundle.eventHashes]

LastOf(seq) == IF seq = <<>> THEN Nothing ELSE seq[Len(seq)]

\* The events are those of the receipts.
createEvidenceBundle(policyHash, mandateDocumentHash, receipts) ==
  LET receiptHashes == [i \in DOMAIN receipts |-> receipts[i].receiptHash]
      eventHashes == FlattenSeq([i \in DOMAIN receipts |-> hashAccessEvents(receipts[i].events)])
      bundle == [manifestVersion |-> "0.1", policyHash |-> policyHash,
                 mandateDocumentHash |-> mandateDocumentHash,
                 receiptCount |-> Len(receiptHashes), receiptHashes |-> receiptHashes,
                 receiptHead |-> LastOf(receiptHashes),
                 eventCount |-> Len(eventHashes), eventHashes |-> eventHashes,
                 eventTrailHash |-> IF eventHashes = <<>> THEN Nothing ELSE eventHashes,
                 bundleHash |-> Nothing]
  IN  [bundle EXCEPT !.bundleHash = BundleHash(bundle)]

\* The time and the eventTrailHash are neither hashed nor compared.
verifyEvidenceBundle(bundle) ==
  /\ bundle.manifestVersion = "0.1"
  /\ bundle.receiptCount = Len(bundle.receiptHashes)
  /\ bundle.eventCount = Len(bundle.eventHashes)
  /\ bundle.bundleHash = BundleHash(bundle)
  /\ bundle.receiptHead = LastOf(bundle.receiptHashes)

-----------------------------------------------------------------------------
EvidenceInit ==
  /\ appended = {<<>>} /\ trail = <<>> /\ edits = 0 /\ objects = {}
  /\ writer = [w \in Writers |-> [pc |-> "start", bundle |-> Nothing, tries |-> 0]]

\* What the events say, and what they said when they were appended.
Said(events) == [i \in DOMAIN events |-> events[i].says]

SaidFirst(events) == [i \in DOMAIN events |-> events[i].eventHash.says]

AppendEvent ==
  \E says \in Notices :
    /\ Len(trail) < MaxTrail
    /\ trail' = appendAccessEvent(trail, says)
    /\ appended' = appended \cup {SaidFirst(trail')}
    /\ UNCHANGED <<edits, objects, writer>>

\* An event of the trail is changed in place, or lost.
EditTrail ==
  \E i \in DOMAIN trail, says \in Notices :
    /\ edits < MaxEdits
    /\ edits' = edits + 1
    /\ trail' \in {[trail EXCEPT ![i].says = says], RemoveAt(trail, i)}
    /\ UNCHANGED <<appended, objects, writer>>

\* A bundle of one receipt that carries the trail, or of none.
Bundle(w) ==
  /\ writer[w].pc = "start"
  /\ \E policyHash \in PolicyHashes, mandateHash \in MandateHashes, empty \in BOOLEAN :
       LET receipt == attachEventTrailToReceipt(
                        [receiptHash |-> "receipt", events |-> <<>>, eventTrailHash |-> Nothing],
                        trail)
           bundle == createEvidenceBundle(policyHash, mandateHash,
                                          IF empty THEN <<>> ELSE <<receipt>>)
       IN  writer' = [writer EXCEPT ![w].bundle = bundle, ![w].pc = "put"]
  /\ UNCHANGED <<appended, trail, edits, objects>>

\* Before it is put, the bundle goes through other hands.
AlterBundle(w) ==
  /\ writer[w].pc = "put" /\ writer[w].tries = 0 /\ edits < MaxEdits
  /\ edits' = edits + 1
  /\ LET bundle == writer[w].bundle
     IN  \E altered \in {[bundle EXCEPT !.policyHash = Nothing],
                         [bundle EXCEPT !.mandateDocumentHash = Nothing],
                         [bundle EXCEPT !.eventHashes = <<>>],
                         [bundle EXCEPT !.eventHashes = <<>>, !.eventCount = 0]} :
           writer' = [writer EXCEPT ![w].bundle = altered]
  /\ UNCHANGED <<appended, trail, objects>>

Invalid(w) ==
  /\ writer[w].pc = "put" /\ ~verifyEvidenceBundle(writer[w].bundle)
  /\ writer' = [writer EXCEPT ![w].pc = "invalid"]
  /\ UNCHANGED <<appended, trail, edits, objects>>

\* ifNoneMatch "*": the object is created, or the key is taken.  The answer may be
\* lost, and the writer tries again.
putImmutableEvidenceBundle(w) ==
  LET bundle == writer[w].bundle
      taken == \E o \in objects : o.bundleHash = bundle.bundleHash
  IN  /\ writer[w].pc = "put" /\ verifyEvidenceBundle(bundle)
      /\ objects' = IF taken THEN objects ELSE objects \cup {bundle}
      /\ \/ writer' = [writer EXCEPT ![w].pc = IF taken THEN "refused" ELSE "stored"]
         \/ /\ writer[w].tries < MaxTries
            /\ writer' = [writer EXCEPT ![w].tries = @ + 1]
      /\ UNCHANGED <<appended, trail, edits>>

EvidenceNext ==
  \/ AppendEvent \/ EditTrail
  \/ \E w \in Writers : Bundle(w) \/ AlterBundle(w) \/ Invalid(w) \/ putImmutableEvidenceBundle(w)

EvidenceSpec == EvidenceInit /\ [][EvidenceNext]_evidenceVars

-----------------------------------------------------------------------------
(* Properties *)

\* A put that is refused because the object exists has lost nothing: the store has
\* a bundle of the same policy, mandates, receipts and events, so that the refusal of a retry
\* is as good as its success; and one that is answered has stored its bundle.
\* A trail that verifies says what its events said when they were appended, one upon
\* the other, or is the beginning of one that did, whatever was changed or lost.
RefusedIsStored ==
  /\ \A w \in Writers : writer[w].pc \in {"refused", "stored"} =>
       \E o \in objects :
         \A field \in {"policyHash", "mandateDocumentHash", "receiptHashes", "eventHashes"} :
           o[field] = writer[w].bundle[field]
  /\ verifyAccessEventTrail(trail) => \E said \in appended : IsPrefix(Said(trail), said)
=============================================================================
