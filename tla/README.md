# Open Agent Access: TLA+ models

TLA+ models of the parts of Open Agent Access that decide what an agent may do
and that keep the record of it, with TLC runs on small instances and proofs for
TLAPS. Every definition is translated from the code under `packages/`; the
documents are only consulted for what the code is said to promise.

## The system

| Part | State it keeps | Operations | Hard because |
| --- | --- | --- | --- |
| `guard` | `.oaa/approval-ledger.jsonl` (hash chain), its `.lock` directory, `used-tokens/<id>.json`, `freeze.json` | `createApprovalToken`, `guardAction`, `setFreezeState`, `verifyApprovalLedger`, `reconcileVercelDeploymentApproval` | every call is a process of its own (CLI, git hook, CI) on shared files; it may die anywhere; the repository changes under it |
| `hono` | per process: policy cache, rate limiter, `paidRouteLocks`; replay store in memory or shared; receipt ledger | one request: policy, signature, stop file, decision, limiter, replay check, lock, handler, remember, receipt | requests overlap at every `await`; several processes share one store; a failure after the handler ran |
| `express`, `fastify`, `cloudflare`, `vercel` over `enforceAgentAccess` | per site a policy cache; one limiter for all | one request: policy, decision, limiter, one receipt sink after the other, handler | the policy file changes or breaks, sinks fail, ways around the policy |
| `core` receipts | JSONL hash chain and a `.lock` file | `appendReceipt`, `verifyReceiptChain`, `reconcileReceiptLedgers` | concurrent writers, stale locks, reading while others append |
| `core` decision, lint; `security-profiles` | none | `decideAccess`, `explainRule`, `lintAgentAccessPolicy`, `evaluateSecurityProfile` | rule order, absent and empty lists, defaults, dates that pass |
| `core` client | agent's receipt ledger | `fetch` | the answer may be lost after the site acted |
| `core` rate limiter | buckets per agent and rule | `check` | window boundaries |
| `mandates`, `mcp` | the document a server started with | `evaluateMandate`, `authorizeMcpToolInvocation`, `wrapTool` | the first mandate for a subject decides, expired or not |
| `identity`, `vc`, `policy-signing`, `incident` | trusted keys, revocations, the stop file | sign and verify requests and policies, `evaluateStopSignal` | messages and copies are delayed, repeated, changed; keys expire |
| `transparency`, `algorand-anchor`, `evidence` | logs, anchor records, event trails, immutable bundles | inclusion proofs, `putImmutableEvidenceBundle` | odd levels, logs that grow, lost answers |
| generators and exports: templates, `industry-profiles`, `creative-rights`, `openapi`, `mcp` bindings, `odrl`, `policy-as-code`, `oaa init` | none | a policy from something else, or something else from a policy | several readings of one policy |
| `replay`, `storage-redis`, `storage-postgres` | proofs with an expiry | `has`, `set`, `checkAndRememberReplay` | check and set are two calls |

How they interact: an agent's client asks for the policy, decides, sends a
(signed) request with a trace id and writes its receipt; the site's middleware
verifies the signature, decides by the same `decideAccess`, checks the stop file,
the limiter and (for paid routes) the replay store, runs the route and writes its
own receipt; the two ledgers are reconciled by trace id, logged, anchored and
bundled. Policies come from hands and generators, are linted, profiled, signed
and exported. Mandates stand before tools. Independently, the guard is called by
hooks and by CI before an agent's mutating action, and its ledger is reconciled
with what was deployed. `PROJECT.json` lists every package, the ones left out
with the reason, and the hazards of the code line by line.

What makes each part correct:

- guard: the records are one chain, cut short only at its end; a token lets one call through, for what was
  approved, before its expiry; the freeze is respected; a failure loses a token
  but never doubles it; calls end even when a lock is stale.
- middleware: a proof pays once as far as the store and the locks can tell; locks
  are given back; receipts are true; the stop signal and the limit hold.
- adapters: a handler runs for a reason the code names, and if that is an
  allowance, every sink has it.
- receipts: the chain is whole, reconciliation reports exactly the differences.
- decision: the first matching rule decides, no use or purpose slips past a denial,
  and what linter, profiles, explanations and exports say of a policy is so.
- authority: whatever ran was delegated, and whatever was accepted was signed.
- records: whatever verifies was logged; a refused put has lost nothing.

## The modules

| Module | Models |
| --- | --- |
| `ActionClass`, `ActionNames` | `classifyGuardAction`, `actionRequiresApproval`: an action is the set of keywords found in it; and that set growing |
| `ApprovalGuard` | the guard's calls over the files, as processes (extends `ActionClass`) |
| `OneTimeApproval` | the abstract promise: approve, claim once, grant what was approved |
| `RateLimit` | one bucket of `InMemoryRateLimiter` as an operator |
| `PaidRoute` | the Hono middleware's requests over processes and replay stores (extends `RateLimit`) |
| `ReceiptLedger` | `appendReceipt` under its lock file: failing writes, crashes, stale locks |
| `Exchange` | `client.fetch`, the answering site, their two receipt ledgers, and `reconcileReceiptLedgers` reading them |
| `Policy` | the policy, `decideAccess`, `explainRule`, lint and security profiles: pure operators |
| `Conversions` | what makes a policy and what a policy is turned into: pure operators (extends `Policy`) |
| `PolicyFile` | one policy file: written, generated, sent through ODRL, growing old (extends `Conversions`) |
| `Mandates` | the issuer's document, tool servers, calls, days (extends `Policy`) |
| `SignedAccess` | signed requests on their way to a site with trusted keys and a stop file (extends `Policy`) |
| `SignedPolicy` | copies of signed policies, keys that expire and are revoked |
| `Gateway` | calls to sites behind the four adapters in one process (extends `Policy`, `RateLimit`) |
| `Transparency` | a growing log, its Merkle proofs, its anchors |
| `Evidence` | event trails, bundles and the store that only creates |
| `MCApprovalGuard`, `MCPaidRoute`, `MCExchange`, `MCDecisions`, `MCAuthority`, `MCLedgers` | instances for TLC |
| `ApprovalGuardProofs`, `PaidRouteProofs`, `ExchangeProofs` | theorems about the module of that name |
| `Induction`, `PolicyProofs`, `DecisionProofs` | induction over numbers; theorems about patterns and the deciding rule; about `PolicyFile` and `ActionClass` |
| `AuthorityProofs` | theorems about `Mandates`, `SignedAccess`, `SignedPolicy`, `Gateway` |
| `RecordProofs` | theorems about `ReceiptLedger`, `Transparency`, `Evidence` |

Definitions named `X_Something` are slips: `X` as a plausible bug would have it.
Each stands before the `X` it replaces; the specifications use none of them.

### ApprovalGuard

One call of the API is one element of `Approvals`, `Guards` or `Freezes`; `pc`
says where it is. A call is cut wherever another process can come between: after
each git command (`ReadBranch`, `ReadHead`, then the diff in `MintToken` or
`GuardPacket`), at the freeze file (`ReadFreeze`), the ledger (`Redeem`), the
marker (`ClaimTokenUse`) and in `withLedgerLock` (`Acquire`, `LockTimeout`,
`ReadTail`, `WritePart`, `AppendRecord`, `Release`). The record is appended by one plain
write, which may reach the file in parts: `torn` is the call whose line is cut short, for
the moment or, if it crashed or its write failed, for good. Whoever reads the ledger then
throws, under the lock (`ReadTail`) or without it (`Redeem`). `setFreezeState` truncates the file and
then writes it (`TruncateFreeze`, `FillFreeze`), so that others may find it empty,
and two writers may leave a mixture, which `JSON.parse` refuses.

Abstractions:

- A diff packet is branch, HEAD, the HEAD the diff was taken against and the
  working tree. `diffHash` digests these, so equal packets are equal hashes. The
  last two are read together although `generateDiffPacket` runs several git
  commands for them.
- A record's `previousRecordHash` is the number of the line it was computed from.
  `verifyApprovalLedger` then asks that every line names the one before.
- Repository mismatch, branch, HEAD and diff mismatch are one refusal,
  `approval_packet_mismatch`.
- `Crash` stops a call anywhere. A file or git operation that throws outside the
  lock has the same effect as a crash there; inside the lock it differs (the lock
  is removed), and `AppendRecord` has that alternative.
- A forged token carries a known id with a foreign secret. A genuine one exists
  only after `createApprovalToken` returned it.
- A line of which the file has everything counts as whole, although closing the file
  may still fail; of a line cut short only that it does not parse matters.
- `began` and `thawed` are history variables, read by properties only.

### PaidRoute

One request is one element of `Requests`, sent to a process. It is cut at each
`await` that does I/O: the policy file, the stop file, a shared replay store, the
handler, the receipt. The memory store answers without I/O; the few microtasks
between its answer and `paidRouteLocks.add` end before another request, which
still has to write its receipt, can free the lock, so `AskMemory` is one step. A
shared store answers after it looked (`AskShared`, `Answered`), may throw, and may
store a proof and lose the answer (`Remember`, `RememberFails`).

Abstractions: the decision of `decideAccess` is a value of the request; the replay
key and lock key are tuples of what they digest; the bucket of the limiter is that of the
agent and the rule (`bucketKey`), whichever of its routes is asked for; the store is the sequence of its
entries in order of insertion, as the `Map` is; the receipt ledger is a set that
accepts or throws; options are constants (`Payment`, `FailOpen`, `RequireKey`,
`Shared`); receipts are configured; the clock does not go back. `Crash` empties a
process: policy, limiter, locks, memory store. A handler that throws is answered
by Hono's error handler and `next()` returns, so it is a handler that ran. `ran`,
`kept`, `forgotten`, `before`, `calm` and `admitted` are history.

### ReceiptLedger

One call of `appendReceipt` is one element of `Appends`, which also names the
receipt it writes and stands for its hash. The lock file is created (`Acquire`) and
given the pid (`WritePid`) before the `try` that removes it, so a pid write that
fails leaves the file behind (`PidFails`). A write takes effect in two steps:
`StartWrite` puts the line there whole, without its newline or in part, and
`EndWrite` completes it, or `WriteFails` gives up. A line without its newline still
parses; the next receipt is then written onto the same line, which does not
(`joined`). `Crash` leaves lock and line as they are, `Release` may fail to unlink,
and `RemoveLock` is a human who removes a lock file whose call is over. A lock
taken from a call that is still running is not modelled.

### Exchange

One `client.fetch` is one element of `Fetches` and its trace id. `Discover`, `Decide`,
`Pay`, `Receive`, `Record` are its stages; `Lose` is a throw before the receipt. The
site handles its request in `SiteDecide`, `SitePreempt`, `SiteWrite`,
`SiteWriteFails`, once more for a payment; it may be redeployed with the next
version of the policy, which loses the requests it is serving and perhaps its answers on
the way. `BeginAudit`, `Verify`, `ReadAgain` are one reconciliation, and
its result is read off by the operators named after its fields.

Abstractions: the policy is the rule that matches the request, by version; a receipt
is trace, decision, policy version (for `policyHash`, `ruleId`, type, settlement and price) and
network; an append is one step that succeeds or throws; a ledger is unreadable for
good (`broken`) or while an append goes on (`MayThrow`). `verifyReceiptChain` finds
no hash mismatch (`ChainHolds` of `ReceiptLedger`). Decisions other than `charge`
and `allow` that end a fetch are `deny` and `review`. URL, method and origin are
taken to agree: a proxy that rewrites URLs is outside the model. `returned` and
`before` are history.

### Policy, Conversions, PolicyFile

A policy is a record with the fields that decisions, linter, profiles and exports
read; of `rateLimit`, `price` and the like only the presence counts. A path is a
sequence of pieces, "/" or a text; a pattern adds "*" and "**", and `pathMatches`
is what the regular expression of `pathPatternToRegExp` accepts. A list is a set,
and `None` where it is absent, which is not the same as empty: `decideAccess`
treats both as "any", the Rego export and the fingerprint of the linter do not.
A date is a number, absent, or `NotADate`, which is never expired
(`Date.parse` gives NaN). `decideAccess` follows the order of the code: policy
expiry, identity, purpose, the first rule that matches by method and path, its
purposes, its uses, the default.

`Conversions` has one operator per generator and export. Texts, URLs, prices and
addresses are left out (the path of a `toolUrlBase` is the constant `ToolUrlBase`, the
default in the run); the order of rules and the lists in them are kept, since
they are what decides. Rego and Cedar are modelled by what their conditions say,
evaluated on a request.

`PolicyFile` writes rules by hand, or uses a generator, sends the file through
ODRL once and lets time pass; `origin` remembers where the policy came from.

### Mandates, SignedAccess, SignedPolicy

`Mandates`: `Issue` appends to the issuer's document, `StartServer` takes the
document as it is then (or none), `wrapTool` runs a tool if
`authorizeMcpToolInvocation` says so, `PassDay`. A call may leave out whatever the code
lets it leave out; `AsInvoked` fills in the method and the tool's own URL as the guard
does. `GuardPolicy` grants posting to the docs until its date, sells the shop and leaves
the rest to review, so that mandates and policy each refuse calls that the other grants;
`RanWasDelegated` asks for both, and of the mandates for the first that speaks of the
agent. `ran` keeps the last run. Nothing
consults `revocationUrl`, so there is no revocation to model.

`SignedAccess`: `Send` signs an errand with a clock that may be off by `Drift`,
`Change` rewrites or drops a header on the way (the old message stays: messages
are delayed and repeated), `Serve` is the middleware from
`verifyAgentAccessHeaders` to the decision, `SetStop` writes the stop file. `Serve`
is one step: the interleavings of its `await`s are in `PaidRoute`. A signature is
the key and what it was made over. Only changes that keep a header's `signature`
are made: whoever holds a key may sign anything in `Send`.

`SignedPolicy`: `Publish` signs a copy, `Alter` edits one (with or without its
stated hash), `Revoke`, `DayPasses`, and `Accept` is
`verifySignedAgentAccessPolicy`.

### Gateway

One call is one element of `Calls`. `loadPolicy` answers from the cache or from
the options; otherwise `readFile` and `FillCache` are the two ends of the read, so
that a slow read may put an older policy into the cache than the one there.
`PolicyUnavailable` fails open or closed, `BypassPolicy` is Vercel's well-known
path, its `protectedPaths` and `humanFallback: "allow"`
(`packages/vercel/src/index.ts:60,64`), `enforceAgentAccess` decides and asks the
limiter in one go (no `await` in between), `appendReceipt` and
`AppendFails` work through the sinks, `Respond` serves or refuses. The limiter is
one for the module (`limiter`, `core/src/enforcement.ts:24`). A charge is refused: these
adapters take no payment.

### Transparency, Evidence

A hash is what it was taken of, so two trees have one root only if their hashed
texts are the same; this is exact about the doubled last node of an odd level,
which is why logs of different sizes may share a root. `createTransparencyLog` makes
the log anew whenever a receipt is added; `Anchor` confirms a transaction with the
root, `EditRecord` changes a record (with or without its hash).

`Evidence`: `AppendEvent`, `EditTrail` (in place, or an event lost), `Bundle`,
`AlterBundle`, and `putImmutableEvidenceBundle` as a put that only creates, whose
answer may be lost and which is then tried again.

## The runs

| Run | Shows | Bounds |
| --- | --- | --- |
| `approval_guard` | the guard's safety and that it implements `OneTimeApproval` | one token and two guard calls (the least that can race for it), two commits and one change (a packet that no longer matches), one tick (the expiry passes), any crash and any line cut short |
| `freeze` | an active freeze lets only emergency overrides through | two freeze calls race with one approval and one guard call; deploy and emergency. The records of the freeze calls, written after the file, do not fail (`FreezesRecorded`): nothing reads the freeze from them |
| `freeze_doc` | counterexample to `FreezeBlocks` | as `freeze`, one freeze call |
| `guard_live` | calls end, locks return | one call of each kind, crashes, a refused TTL |
| `paid_memory` | locks, replay, one fulfilment per key, true receipts, the limiter's bound, the store's promise | three requests to one process within `InBounds`: at most two requests of one agent with at most one proof, under any keys, an edit and a crash; or up to three requests of two agents, each with one of two proofs and no key, under one trace, undisturbed; or a burst of five requests of one agent, one after the other, to two routes of one rule, over two ticks. A store of one entry, a limit of two in a window of two: three of a burst pass within one window's length, across two windows, which is the most `RateBounded` allows (`2 * Limit - 1`) |
| `paid_shared` | replay over a shared store; the stop signal | two processes, two requests, free and paid, fail-open, keys required, one edit, one crash, two moments (a proof expires) |
| `paid_doc` | counterexample to `ProofPaysOnce` | two requests to one process |
| `ledgers` | receipts: the chain, what was returned, damage; logs: what verifies was logged; evidence: what was refused is stored | four appends (one fails, one meets the damage, two race), two faults, any crashes; logs of up to five entries (levels of 5, 3 and 2: the odd ones) with two anchor records; two writers, with a policy or none and mandates, trails of two events, two edits, one retry |
| `exchange` | reports of missing receipts and of validity are true | two fetches, two policy versions (one charges), a site ledger that may break, one reconciliation |
| `exchange_doc` | counterexample to `SmokeReconciles` | two fetches of a free route |
| `decisions` | linter, profile, explanation and exports are right about what is decided; training stays forbidden; ODRL invents nothing; `NoTalkDown` over all 2^19 sets of keywords | up to three of seven hand-written rules under eight heads, everything the generators make of the options listed, 66 requests, three moments |
| `authority` | whatever ran was delegated and granted, accepted was signed, served was recorded | three mandates (of four), twelve calls (of each scope one outside it, of most one that does not state it, and one without a URL), a policy that refuses some of them and whose date passes, three days; three messages of two signings over four moments; four copies over three days; two calls to four sites, two writes of the file, two moments |

In `ledgers`, `decisions` and `authority` the machines share no state. Each moves
only while the others are where they began, so that the run is the sum of its
machines and not their product; nothing is lost, since none reads what another
writes.

Two calls suffice for the races because every shared object is used pairwise: a
token, the lock, the freeze file, a lock key, a policy cache, a bundle's name.
Where a third matters it is there: two racing appends besides one that failed and
one that meets the damage, a third request after an eviction, and the burst at the limiter. The proofs remove the bounds for most safety properties. Deadlock is
not checked: calls and requests end, clocks and documents have bounds. Symmetry is
used in safety runs only.

The three counterexamples:

- `docs/AGENT_ACTION_GUARD.md:192` says an active freeze blocks a deployment even
  with a valid token. `guardAction` reads `freeze.json` once; while the call then
  redeems the token and waits for the ledger lock, a freeze may be set and the
  call is let through all the same. What holds is `FreezeRespected`: the freeze
  was off at some moment of the call.
- `README.md:299` says repeated paid proofs are rejected with a replay cache. The
  proof is remembered after the handler, and the lock that covers the time until
  then is named by the idempotency key (or trace id), which the replay key leaves
  out. Two overlapping requests with one proof and different keys both run the
  handler. What holds is `OnceUnderOneKey` and `ReplayRejected`.
- `docs/CONFIDENCE_CHECKLIST.md:19` asks that smoke-test traffic reconciles. The
  site's receipt falls back to `options.algorandX402.network` where the rule names
  no network, the client's does not, and the reconciliation compares the two: with
  that option set, every fetch of a free route is reported as a mismatch. Without
  it `SmokeReconciles` holds (`exchange`).

### What the properties had to except

The code does these, and a property that forgot one failed. No document denies them but
where one is quoted:

- A literal `"*"` among methods or paths has the fingerprint of an absent list but
  not its meaning: no method is `"*"`, and as a path it covers one piece
  (`DuplicatesAreDead`).
- A date that does not parse never expires, and the production profile, which asks
  for an expiry, takes it (`ProductionAnswers`). The profile also takes the default
  `"charge"`, which grants without a rule.
- `oaa init` and the `research-friendly` template write the default `"allow"`: what
  no rule matches, training included, is allowed (`TrainingStaysForbidden`).
- Out to ODRL and back, methods, reviews and prices are lost and permissions come
  first: what a denial refused may be granted (`OdrlInventsNothing` asks only that
  some rule named it). Rego does not say which of several matching rules wins,
  Cedar wants its lists written out, and both treat empty lists otherwise than
  `decideAccess` (`ViewsNameTheRule`).
- A use, a consequence or a budget that a call does not state is held against no mandate
  (`RanWasDelegated`), whereas `docs/API_REFERENCE.md:37-39` says that `evaluateMandate`
  "fails closed unless delegated authority matches" them. An agent escapes these scopes by
  saying nothing; its purpose, its tool, the method and the URL are always compared.
- A token is let through up to 5 s after its expiry by a call that began before it and
  waits for the ledger lock (`RedeemedBeforeExpiry` compares the beginning of a call).
- Work that was done before a crash, or before a store that fails, can be asked for again
  with the same proof: `ReplayRejected` speaks of proofs that were remembered. With a
  shared store two processes may fulfil one proof at once: `OnceUnderOneKey` speaks of one
  process and its memory store.
- A slow first read may put an older policy into a cache, for good. `ServedIsRecorded` and
  `ReplayRejected` speak of the version a request loaded.
- A line of the approval ledger that a crash or a full disk cut short stays, and every
  later reader throws until a human repairs it: `ChainValid` asks that it is the last.
- An expired mandate, or an expired trusted key, hides a renewal further down its
  list, since `find` stops at the first of the name.
- A request with one of the four headers missing is nobody's and for nothing, so a
  stop that names an agent, a purpose or a use does not reach it (`NotStopped`).
- The limiter of the adapters is keyed by agent (or host) and rule id: sites of one
  process with rules of the same name share a bucket.
- With two sinks, the first may hold an `allow` of a request that was refused because
  the second failed (`ServedIsRecorded` speaks of what was served). Vercel's
  `mode: "passport-required"` is read by no code.
- An inclusion proof's `index` and `treeSize` are not compared, and verifying an
  anchor never asks the chain (`VerifiedIsLogged` adds the chain's notes).
- `bundleHash` covers neither `createdAt` nor `eventTrailHash`, and `verifyEvidenceBundle`
  compares neither (`RefusedIsStored` is about the rest), whereas
  `docs/IMMUTABLE_EVIDENCE.md:7-15` lists the event trail hash among what a manifest binds.
  The hashes of the single events are covered.

### Fairness

`guard_live` assumes weak fairness of each call's own steps: a running process
goes on, and a call that waits for the lock tries again until its 5 s are over
(`LockTimeout` is enabled whenever the lock is held, which stands for the
deadline). No fairness is assumed of calls beginning, of crashes or of the
environment. `LockReleased` asks for a release only where nobody crashes: the code
has no recovery for the lock of a dead process (`DeadHolderStopsLedger`).

## The proofs

Every invariant and every action property that a passing run checks is proved for all
values of the constants; the two liveness properties are not. A theorem is named
for what it says (`LocksAlwaysExact` proves `LocksExact`), and `PROJECT.json` lists
which property each one states.

Of the actions (`DecisionProofs`), with no assumption:

- `NoTalkDownHolds`, `SpecNoTalkDown`, `MutationsAlwaysNeedApproval`:
  `classifyGuardAction` asks for approval exactly when certain keywords are there
  (`ApprovalKeywords`), and that condition only grows.

Of the guard (`ApprovalGuardProofs`), for any sets of calls, actions, repositories
and bounds that satisfy `CallsAssumption`, `ValuesAssumption` and
`ScopesAssumption` (kinds of calls are disjoint, `None` is nothing else, numbers are
naturals):

- `TypeCorrect`: `TypeOK` is inductive.
- `ChainAlwaysValid`: the whole lines are a chain, and a line cut short comes after all of
  them. `ChainValid` alone is not inductive; `LockInv` adds that a call between `Acquire`
  and `Release` holds the lock, that one about to write has read the current end of the
  ledger, and that a line is cut short only by the call that is writing or by one that is
  over; whoever reads a ledger with such a line throws, so none of the writers but its own
  goes on.
- `DeadHolderStops`: from `LockInv`, only the holder appends or releases.
- `OneTimeUseHolds`: `UseInv` says which call made the marker of a token, that a
  call about to record a use (`Pending`) made it, and that every recorded use
  is of a call that is past its write. `TokenInv` says what calls carry.
- `OnlyApprovedAccepted`: `ApprovedInv` says that a call at or after the marker
  has a created record equal to its action and packet; the ledger only grows.
- `FreezeAlwaysRespected`: `ThawInv` says that a call past the freeze file saw the
  freeze off or asks for an emergency override; a call comes to the redemption only
  from that file (`TheWay`), so what it saw there still counts when it is let
  through, whatever freezes come in between.
- `NotAfterExpiry`: `CreatedInv` says that a token has one created record, made by
  its own call, so its expiry is one number; `ExpiryInv` carries the comparison of
  `redeemApprovalToken` from the check to the record of the use.
- `LostOnlyByFailure`: `LostInv` accounts for every marker: its use is recorded, or
  the call that made it is about to record it, crashed or threw.
- `ReconciliationSound`: a recorded use is of a real token that was created for the same
  action and packet (`UsedInv`, from `ApprovedInv`), and by `UseInv` its marker was made.
- `Refinement`: each step of the guard is `Approve`, `Claim`, `Grant` or a stutter of
  `OneTimeApproval` (`NextRefines`). `ScopeStays` and `ScopeKept` say that the scope
  of a token, a `CHOOSE` over the ledger, never changes once it is there; this needs
  `CreatedInv` and `ScopesAssumption`, since `None` stands for no scope.

Of the paid routes (`PaidRouteProofs`), for any number of requests, processes, proofs,
keys and crashes and under every option (`OptionsAssumption`):

- `PaidRouteTyped`: `Typed` adds to `TypeOK` what a request carries at each stage.
- Nearly every other invariant rests on `CourseInv`: what the stage of a request says about
  its outcome, its decision and whether its handler ran (`Course`). Others' steps leave
  a request's stage alone, so each invariant is shown for the request that moves.
- `ReceiptsAlwaysTrue`: `ReceiptsInv` says where a request must have come for its receipt
  to be in the ledger. A receipt that says "fulfilled" is written after the proof was
  remembered, and whoever answers with one has written it.
- `LocksAlwaysExact`: `LocksInv` says that the keys in `paidRouteLocks` are exactly those
  of the requests inside, and that no two of these share one. The second half is what
  makes a removal exact.
- `StopAlwaysHonoured`: `CalmInv` carries from the stop file to the handler that the
  file was once seen not in force.
- `ReplayAlwaysRejected`: `BeforeInv` says of a request past its question to the store
  that every proof remembered before it arrived and equal to its own has been
  forgotten.
- `AlwaysOnceUnderOneKey`: `OnceInv` speaks of two requests on their way to be paid, not
  only of two that were. It needs the locks (`LocksInv`), the store (`BeforeInv`), and
  `AtOnce`: nobody waits for a memory store.
- `StoreAlwaysKeepsProofs`: `StoredInv` says that what was remembered and not forgotten is
  in its store. The evictions are counted by `EntriesAt`, which picks the entries that
  are kept by their rank (`EntriesAtFacts`): that avoids a recursion over the store.
- `RateAlwaysBounded`: `CountInv` says that what a bucket has let pass since it was opened
  and what it has left do not exceed the limit, and that fewer than the limit passed in
  any stretch of the window before (`Counts`); so fewer than twice the limit pass in any
  span of one window's length, also one across two buckets (`Spans`). `PresentInv`
  makes those sets finite.

Of the exchange (`ExchangeProofs`), for any number of fetches and policy versions
(`ExchangeAssumption`):

- One invariant, `ExchangeInv`: `FlowInv` says where a fetch may be at the site while
  the client is at one of its stages; `LedgerInv`, that the agent's ledger holds one
  receipt of each fetch that returned, with the terms it saw; `AuditInv`, that what a
  reconciliation has read is a beginning of the ledger, which traces must be in it, and
  that a trace it read in the agent's ledger has no later receipt at the site. The
  last one is where the order of the two reads matters.
- `MissingIsAlwaysMissing`, `ReturnedAlwaysFound`, `ValidAlwaysMeansPaired` follow from it.
- `SmokeAlwaysReconciles` has a hypothesis: a rule without a network only where the
  middleware has none of its own. `exchange_doc` shows that without it the theorem
  is false.

Of the records (`RecordProofs`):

- `LedgerTyped`, `ChainAlwaysHolds`, `ReturnedAlwaysKept`, `DamageAlwaysStays`, for any set
  of appends and any number of faults (`ReceiptAssumption`): a call between `Acquire`
  and `Release` holds the lock, dead or alive; the one about to write has read the end
  of the file, and every line but the last is whole. A call in `EndWrite` finds its
  own line last.
- `RefusedIsAlwaysStored`, for any writers, trails, edits and retries. `StoreInv` says
  that whoever was answered finds its bundle under its hash. The half about trails
  needs more than it says: an edited trail could verify again if a hash could stand
  between two that are chained. `TrailInv` gives each hash a depth, the number of
  hashes it was made upon, and says that depths rise along the trail
  (`Deepening`), whatever is edited or lost; so there is nothing between two that differ
  by one (`NothingBetween`).
- `VerifiedIsAlwaysLogged`, for logs of any length. `EveryEntryVerifies`: along the way up
  from a leaf, the hash so far is the node at the cursor, and there is one node at
  the end (`Shrinking`, `StepUp`, `TopStays`). `OnlyEntriesVerify`: down any path whatever
  from the root there are only nodes of the tree (`DownThePath`), and a leaf among
  them is an entry's, since what is hashed as a leaf is never hashed as a node. So
  neither index nor size is needed to refuse what was not logged. `LogInv` says that
  the notes on the chain are of roots the log has had.
- `RecordsAreSafe`: the specification of the run, with the machines side by side,
  implements each, so that their theorems hold of it.

Of policies (`PolicyProofs`, `DecisionProofs`), for everything the generators of the
code make of any options and for every policy written by hand:

- `FileInv` says that the rules of a policy are a list that denies finitely many
  purposes (`WellMade`), on paths that were written down (`PathsKnown`); it is shown for
  each generator and for the conversion to ODRL and back.
- `DuplicatesNeverDecide`: the rule that decides is the first that matches
  (`DecidedByFirst`), and rules of one fingerprint match the same requests
  (`SameFingerprint`), so the earlier one decides or is not in force.
- `ProductionAllowsByRule`: a policy that passes the production profile has no default
  that allows, and its granting rules have a limit and a receipt.
- `ViewsAlwaysName`: the explanation and the Rego module test what `decideAccess` tests. A
  Cedar pattern covers what the path pattern covers (`CedarCoversMore`), by induction
  over the pattern (`WiderMatchesMore`).
- `TrainingAlwaysForbidden`: `TrainingInv` says of what is left of such a generator's
  policy that every granting rule refuses training (`Refuses`) and that the default
  grants nothing; one lemma per generator and profile.
- `OdrlNeverInvents`: a rule that comes back from a permission names what that
  permission's rule named (`PermissionRead`), one from a prohibition grants nothing
  (`ProhibitionRead`).
- `DecisionsAreSafe`: all of this, and `NoTalkDown`, of the specification of the run.

What these assume. `PiecesAssumption`: paths and patterns are lists. `InputsAssumption`:
the shapes of what the generators are given, as their types in the code state them;
for `TrainingAlwaysForbidden` also that the defaults passed in are reviews or denials,
and that an absent value is not a word for training. `PatternsAssumption`: the patterns
that occur are among `Patterns`, the ones that `PiecesAssumption` speaks of. One more
is a hypothesis of the theorems and not of the module, since TLC cannot evaluate it:
`NoneIsNothing`, the value that stands for an absent list has no elements.

Of mandates (`AuthorityProofs`), for any documents, calls and policies that satisfy
`MandateAssumption` (fields and dates; every call names its tool) and `NoneAssumption`:

- `OnlyDelegatedRuns`: `MandatesInv` adds to the property and the types that what a
  server loaded is a beginning of the issuer's document; the document only grows,
  and a call that is allowed is covered by the first mandate that speaks of it
  (`AllowedIsCovered`), which is the first of the issuer's, too. `InvokedIsStated`: the
  guard gives every call a method, a tool and a URL.
- `FirstMandateForever`: the first mandate that speaks of a call stays the first;
  dates only pass (`DaysForbid`).

Of signatures (`AuthorityProofs`), under `SignedAccessAssumption` and
`SignedPolicyAssumption`; the latter makes dates numbers, the former says that
nobody moves a signature to another message, which `nodeVerify` would refuse:

- `OnlySignedPolicies`: `SignedPolicyInv` says that every value of a signature on a
  copy is over a payload that was made (`CopiesAreGenuine`).
- `OnlySignedRequests`: `SignedAccessInv` says the same of the messages on the wire
  (`WireIsGenuine`), with the time and the key of the signing.

Of the adapters and of `MCAuthority` as a whole (`AuthorityProofs`):

- `ServedForAReason`: `GatewayInv` says for each call what its place implies: what
  it has loaded, decided and recorded (`CallInv`, `RecordedUpTo`). Others' steps
  leave that alone (`OthersKeep`).
- `EachMoves`, `VerifiedIsSigned`, `AuthorityIsSafe`: the composed specification
  implements each machine's, so their theorems carry over.

The strengthened invariants were model-checked before they were proved.

Recursion. These are defined by recursion over data: how far a pattern reaches into a
path (`pathMatches`), the levels of a Merkle tree (`merkleLevels`), the cursor that climbs
them (`createInclusionProof`) and the hashes along an audit path
(`verifyInclusionProof`). They are recursive functions of one number, which mean "a function with this
property". The provers have no induction principle with a predicate as
parameter, so `Induction` states one for sets (`SetInduction`, from the
well-foundedness of `<`), and each proof takes the set of the numbers up to which
there is such a function. Elsewhere recursion is avoided: the ODRL export joins lists by
`FlattenSeq`, which `FlattenedList` describes; the store of paid proofs keeps entries by
their rank; an event's `previous` is `<<>>` or `<<hash>>`, so that no hash is mistaken for
nothing.

Only model-checked: the liveness properties `EveryCallReturns` and `LockReleased`, which
rest on fairness and `ENABLED` and are out of the prover's reach; and the three
counterexamples.

## Not modelled

- `enterprise`, `compliance`, `conformance`, `otel`: reports, scores and exports
  computed in one pass, with no state, no order of calls and no promise beyond the
  fields they copy.
- `payments-algorand-x402`, `x402-bazaar`: configuration of an external payment
  client and server. The payment is a choice of outcome in `Exchange` and
  `trustPaymentHeader` in `PaidRoute`.
- `replay`: the memory store is that of `hono`; `checkAndRememberReplay` asks and then
  sets, no document says that two callers cannot pass it together, and the
  middleware does not use it.
- of `cli`: the commands that print what other packages return. Of `guard`: hook and
  ruleset installation, `getGuardStatus`, the text of summaries. Agent cards, C2PA
  assertions, licence offers.
- cryptography and canonical JSON (a signature is its key and its input, a hash what
  it was taken of); wording, headers and bodies of answers; schemas, prose, examples,
  build and test scripts.

What remains worth doing: `PaidRoute` composed with `decideAccess`, so that
`writeSiteReceipt`, which evaluates the policy again later, can be asked about rules
that expire in between; abstract specifications of the receipt ledger and of the
evidence store, with refinement proofs in the manner of `OneTimeApproval`.
