---------------------------- MODULE SignedPolicy ----------------------------
(***************************************************************************)
(* Signed policies (packages/policy-signing): controllers sign policies,   *)
(* copies are distributed and altered on the way, keys are revoked, and    *)
(* readers accept what verifies.  A hash of a policy is the policy.        *)
(***************************************************************************)
EXTENDS Naturals, FiniteSets, Sequences

CONSTANTS
  Bodies,           \* policies, without a signature
  Controllers,      \* [keyId, key]: who holds which private key
  TrustRecords,     \* the reader's sequence of [keyId, publicKey, notBefore, notAfter]
  NoSignature,      \* the signature of a policy that has none
  MaxDay, MaxCopies

ASSUME SignedPolicyAssumption ==
  /\ MaxDay \in Nat /\ MaxCopies \in Nat
  /\ DOMAIN TrustRecords \subseteq Nat
  /\ \A i \in DOMAIN TrustRecords :
       TrustRecords[i].notBefore \in Nat /\ TrustRecords[i].notAfter \in Nat

VARIABLES
  day,
  copies,     \* the documents around: [body, signature]
  made,       \* what controllers signed: [body, key]
  revoked,    \* the trust records marked revoked, by index
  accepted    \* what verified last, when, and what was revoked then; or nothing

signedPolicyVars == <<day, copies, made, revoked, accepted>>

-----------------------------------------------------------------------------
policySignaturePayload(body, keyId, createdAt) ==
  [keyId |-> keyId, createdAt |-> createdAt, policyHash |-> body]

\* withoutPolicySignature leaves the body of a document.
signAgentAccessPolicy(document, controller, createdAt) ==
  [body |-> document.body,
   signature |-> [type |-> "ed25519", keyId |-> controller.keyId, createdAt |-> createdAt,
                  policyHash |-> document.body,
                  value |-> [key |-> controller.key,
                             over |-> policySignaturePayload(document.body, controller.keyId,
                                                             createdAt)]]]

\* A key without a date is written with 0 or with one after MaxDay.
RecordAt(keyId) == {i \in DOMAIN TrustRecords : TrustRecords[i].keyId = keyId}

Signed(document, publicKey) ==
  LET signature == document.signature
  IN  /\ signature.value.key = publicKey
      /\ signature.value.over =
           policySignaturePayload(document.body, signature.keyId, signature.createdAt)

verifySignedAgentAccessPolicy(document, now) ==
  LET signature == document.signature
      named == RecordAt(signature.keyId)
      i == CHOOSE k \in named : \A j \in named : k <= j
      key == TrustRecords[i]
  IN  IF signature = NoSignature THEN "policy_signature_missing"
      ELSE IF signature.type # "ed25519" THEN "unsupported_signature_type"
      ELSE IF signature.policyHash # document.body THEN "policy_hash_mismatch"
      ELSE IF named = {} THEN "trusted_key_not_found"
      ELSE IF i \in revoked THEN "trusted_key_revoked"
      ELSE IF key.notBefore > now THEN "trusted_key_not_yet_valid"
      ELSE IF key.notAfter <= now THEN "trusted_key_expired"
      ELSE IF Signed(document, key.publicKey) THEN "ok" ELSE "signature_invalid"

-----------------------------------------------------------------------------
SignedPolicyInit ==
  /\ day = 0 /\ made = {} /\ revoked = {} /\ accepted = {}
  /\ copies = {[body |-> body, signature |-> NoSignature] : body \in Bodies}

\* A controller signs a copy, which may carry another signature.
Publish ==
  \E document \in copies, controller \in Controllers :
    /\ Cardinality(copies) < MaxCopies
    /\ copies' = copies \cup {signAgentAccessPolicy(document, controller, day)}
    /\ made' = made \cup {[body |-> document.body, key |-> controller.key]}
    /\ UNCHANGED <<day, revoked, accepted>>

\* A copy is edited and keeps its signature, in which the hash may be edited too.
Alter ==
  \E document \in copies, body \in Bodies, rehashed \in BOOLEAN :
    /\ Cardinality(copies) < MaxCopies /\ document.signature # NoSignature
    /\ copies' = copies \cup
         {[body |-> body,
           signature |-> [document.signature EXCEPT !.policyHash = IF rehashed THEN body ELSE @]]}
    /\ UNCHANGED <<day, made, revoked, accepted>>

Revoke ==
  \E i \in DOMAIN TrustRecords :
    /\ revoked' = revoked \cup {i}
    /\ UNCHANGED <<day, copies, made, accepted>>

Accept ==
  \E document \in copies :
    /\ verifySignedAgentAccessPolicy(document, day) = "ok"
    /\ accepted' = {[body |-> document.body, at |-> day, revoked |-> revoked]}
    /\ UNCHANGED <<day, copies, made, revoked>>

DayPasses ==
  /\ day < MaxDay
  /\ day' = day + 1
  /\ UNCHANGED <<copies, made, revoked, accepted>>

SignedPolicyNext == Publish \/ Alter \/ Revoke \/ Accept \/ DayPasses

SignedPolicySpec == SignedPolicyInit /\ [][SignedPolicyNext]_signedPolicyVars

-----------------------------------------------------------------------------
(* Properties *)

\* A policy that was accepted was signed as it is, by the holder of a key that was
\* trusted on that day and had not been revoked.
AcceptedWasSigned ==
  \A a \in accepted : \E m \in made, i \in DOMAIN TrustRecords :
    /\ m.body = a.body /\ m.key = TrustRecords[i].publicKey
    /\ i \notin a.revoked
    /\ TrustRecords[i].notBefore <= a.at /\ a.at < TrustRecords[i].notAfter
=============================================================================
