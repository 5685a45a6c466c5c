----------------------------- MODULE PaidRoute -----------------------------
(***************************************************************************)
(* The Hono middleware (packages/hono/src/middleware.ts): requests served  *)
(* by one or more server processes, each with its own policy cache, rate   *)
(* limiter and set of paid-route locks, and a replay store that is either  *)
(* the memory of the process or shared (Redis, Postgres).                  *)
(*                                                                         *)
(* A request is cut at every await that does I/O: the policy file, the     *)
(* stop file, the shared replay store, the route's handler, the receipt.   *)
(* The memory store answers without I/O, and the code between its answer   *)
(* and the lock runs before any other request that could free the lock.    *)
(***************************************************************************)
EXTENDS RateLimit, FiniteSets, Sequences

CONSTANTS
  Requests,   \* the requests
  Processes,  \* the server processes
  None,       \* absent
  Agents,     \* agent ids (or host names)
  Routes,     \* method, URL and matched rule
  Rules,      \* the ids of the rules ("default" for a rule without one)
  RuleOf,     \* RuleOf[u]: the id of the rule that matches route u
  Proofs,     \* X-PAYMENT headers
  Keys,       \* idempotency keys and trace ids
  Verdicts,   \* decisions decideAccess may come to
  Shared,     \* the replay store is shared by the processes
  Payment,    \* algorandX402: "disabled", "untrusted" or "trusted"
  FailOpen,   \* failMode is "open"
  RequireKey, \* requireIdempotencyKeyForPaid
  TTL,        \* replayCache.ttlMs
  MaxEntries, \* replayCache.maxEntries
  Limit,      \* requests per window of a rule; 0: the rule has no rateLimit
  Window,     \* length of the window
  MaxTime,    \* bound on the clock
  MaxEdits,   \* bound on the changes of the policy and the stop file
  MaxCrashes  \* bound on the crashes

ASSUME OptionsAssumption ==
  /\ Verdicts \subseteq {"allow", "charge", "deny", "throttle", "human_only",
                         "redirect_to_api", "review"}
  /\ Payment \in {"disabled", "untrusted", "trusted"}
  /\ Shared \in BOOLEAN /\ FailOpen \in BOOLEAN /\ RequireKey \in BOOLEAN
  /\ {TTL, MaxEntries, Limit, Window, MaxTime, MaxEdits, MaxCrashes} \subseteq Nat
  /\ None \notin Proofs \cup Keys \cup (0..MaxEdits) \cup [at : Nat, life : Nat]

ASSUME RulesAssumption == RuleOf \in [Routes -> Rules]

VARIABLES
  policy,    \* version of the policy file
  stop,      \* contents of the stop file
  edits,     \* how often the two were changed
  crashes,   \* how often a process crashed
  now,       \* Date.now()
  cached,    \* cached[p]: version of the policy process p holds, or None
  buckets,   \* buckets[p]: the rate limiter of p
  locks,     \* paidRouteLocks of p
  store,     \* the entries of each replay store, oldest first
  receipts,  \* the site's receipt ledger, as a set
  pc,        \* where each request is
  arg,       \* what each request carries
  hash,      \* the policy version each request is decided by
  seen,      \* what the shared store answered
  pending,   \* outcome whose receipt is about to be written
  result,    \* what the request was answered
  ran,       \* history: requests whose handler ran
  kept,      \* history: requests whose proof was put into the store
  forgotten, \* history: requests whose proof is in no store although it ran
  before,    \* history: kept, when the request arrived
  calm,      \* history: the stop file was not in force at some time of the request
  admitted   \* history: when, and after how many crashes, the limiter let it pass

files    == <<policy, stop, edits, crashes, now>>
process  == <<cached, buckets, locks>>
request  == <<arg, hash, seen, pending>>
history  == <<ran, kept, forgotten, before, calm, admitted>>
vars == <<policy, stop, edits, crashes, now, cached, buckets, locks, store, receipts, pc, arg,
          hash, seen, pending, result, ran, kept, forgotten, before, calm, admitted>>

-----------------------------------------------------------------------------
\* Values.

\* What a request says of its own settlement (claim) matters where it is allowed.
Args == {a \in [proc : Processes, agent : Agents, route : Routes, verdict : Verdicts,
                proof : Proofs \cup {None}, key : Keys \cup {None}, trace : Keys,
                claim : BOOLEAN] : a.claim => a.verdict = "allow"}

StopFile == {"missing", "empty", "off", "on", "corrupt"}

Stores == IF Shared THEN {"shared"} ELSE Processes
StoreOf(r) == IF Shared THEN "shared" ELSE arg[r].proc

\* The limiter counts the requests of an agent (or host) to a rule, whichever of
\* its URLs and methods they go to.
BucketKeys == Agents \X Rules
bucketKey(r) == <<arg[r].agent, RuleOf[arg[r].route]>>

\* Slip: the proof is bound to the trace of the request that carries it.
ReplayKey_PerTrace(r) == <<arg[r].proof, arg[r].route, hash[r], arg[r].trace>>

\* buildReplayKey
ReplayKey(r) == <<arg[r].proof, arg[r].route, hash[r]>>

\* Slip: without the header there is no key.
idempotencyKey_NoFallback(r) == arg[r].key

\* The header, or else the trace id.
idempotencyKey(r) == IF arg[r].key # None THEN arg[r].key ELSE arg[r].trace

\* Slip: each request locks under its own trace.
paidLockKey_PerTrace(r) == <<arg[r].route, arg[r].trace>>

paidLockKey(r) == <<arg[r].route, idempotencyKey(r)>>

Outcomes == {"none", "allowed", "refused", "throttled", "idempotency_key_required",
             "payment_verification_required", "payment_required",
             "payment_replay_detected", "duplicate_paid_fulfilment_in_progress",
             "fulfilled"}

Results == (Outcomes \ {"allowed"}) \cup
           {"served", "served_unchecked", "policy_unavailable", "policy_document",
            "agent_identity_unverified", "agent_access_stopped", "failed"}

Places == {"idle", "policy", "cache", "stop", "ask", "answer", "handler", "remember",
           "receipt", "finish", "serve", "unchecked", "done", "crashed"}

\* Between paidRouteLocks.add and paidRouteLocks.delete.
Locked(r) ==
  pc[r] \in {"handler", "remember"} \/ (pc[r] \in {"receipt", "finish"} /\ r \in ran)

Init ==
  /\ policy = 0 /\ stop = "missing" /\ edits = 0 /\ crashes = 0 /\ now = 0
  /\ cached = [p \in Processes |-> None]
  /\ buckets = [p \in Processes |-> [k \in BucketKeys |-> NoBucket]]
  /\ locks = [p \in Processes |-> {}]
  /\ store = [s \in Stores |-> <<>>]
  /\ receipts = {}
  /\ pc = [r \in Requests |-> "idle"]
  /\ arg = [r \in Requests |-> None]
  /\ hash = [r \in Requests |-> None]
  /\ seen = [r \in Requests |-> FALSE]
  /\ pending = [r \in Requests |-> "none"]
  /\ result = [r \in Requests |-> "none"]
  /\ ran = {} /\ kept = {} /\ forgotten = {}
  /\ before = [r \in Requests |-> {}]
  /\ calm = [r \in Requests |-> FALSE]
  /\ admitted = [r \in Requests |-> None]

Goto(r, place) == pc' = [pc EXCEPT ![r] = place]

Return(r, answer) == /\ Goto(r, "done")
                     /\ result' = [result EXCEPT ![r] = answer]

\* r is about to write the receipt of outcome o.
Conclude(r, o) == /\ Goto(r, "receipt")
                  /\ pending' = [pending EXCEPT ![r] = o]

-----------------------------------------------------------------------------
\* A request arrives; the policy, the identity and the stop file.

Arrive(r) ==
  /\ pc[r] = "idle"
  /\ \E a \in Args : arg' = [arg EXCEPT ![r] = a]
  /\ Goto(r, "policy")
  /\ before' = [before EXCEPT ![r] = kept]
  /\ calm' = [calm EXCEPT ![r] = (stop # "on")]
  /\ UNCHANGED <<files, process, store, receipts, hash, seen, pending, result, ran, kept,
                 forgotten, admitted>>

\* loadPolicy: the policy this process holds, or else the file.
HoldPolicy(r) ==
  /\ pc[r] = "policy"
  /\ cached[arg[r].proc] # None
  /\ hash' = [hash EXCEPT ![r] = cached[arg[r].proc]]
  /\ Goto(r, "stop")
  /\ UNCHANGED <<files, process, store, receipts, arg, seen, pending, result, history>>

ReadPolicy(r) ==
  /\ pc[r] = "policy"
  /\ cached[arg[r].proc] = None
  /\ hash' = [hash EXCEPT ![r] = policy]
  /\ Goto(r, "cache")
  /\ UNCHANGED <<files, process, store, receipts, arg, seen, pending, result, history>>

\* The file cannot be read or is no policy.
PolicyUnavailable(r) ==
  /\ pc[r] = "policy"
  /\ cached[arg[r].proc] = None
  /\ IF FailOpen THEN Goto(r, "unchecked") /\ UNCHANGED result
                 ELSE Return(r, "policy_unavailable")
  /\ UNCHANGED <<files, process, store, receipts, request, history>>

\* What was read becomes the policy of the process, over one read meanwhile.
CachePolicy(r) ==
  /\ pc[r] = "cache"
  /\ cached' = [cached EXCEPT ![arg[r].proc] = hash[r]]
  /\ Goto(r, "stop")
  /\ UNCHANGED <<files, buckets, locks, store, receipts, request, result, history>>

\* The request for the policy itself, and one whose identity is not verified,
\* are answered before the stop file is read and leave no receipt.
Preempt(r) ==
  /\ pc[r] = "stop"
  /\ \E answer \in {"policy_document", "agent_identity_unverified"} : Return(r, answer)
  /\ UNCHANGED <<files, process, store, receipts, request, history>>

\* Slip: the signal's "active" is not asked.
Halts_CorruptOnly == stop = "corrupt"

Halts == stop \in {"on", "corrupt"}

\* evaluateStopSignal on the file; JSON that does not parse throws.
ReadStop(r) ==
  /\ pc[r] = "stop"
  /\ \/ stop = "on" /\ Return(r, "agent_access_stopped")
     \/ stop = "corrupt" /\ Return(r, "failed")
  /\ UNCHANGED <<files, process, store, receipts, request, history>>

-----------------------------------------------------------------------------
\* The rate limiter and the decision.

Bucket(r) == buckets[arg[r].proc][bucketKey(r)]

\* What becomes of r once decided; "fulfilled" if it carries a trusted payment.
Outcome(r) ==
  IF Limit > 0 /\ ~Allowed(Bucket(r), now) THEN "throttled"
  ELSE IF arg[r].verdict = "allow" THEN "allowed"
  ELSE IF arg[r].verdict # "charge" THEN "refused"
  ELSE IF RequireKey /\ arg[r].key = None THEN "idempotency_key_required"
  ELSE IF Payment = "disabled" \/ arg[r].proof = None THEN "payment_required"
  ELSE IF Payment = "untrusted" THEN "payment_verification_required"
  ELSE "fulfilled"

Decide(r) ==
  /\ pc[r] = "stop"
  /\ ~Halts
  /\ buckets' = IF Limit = 0 THEN buckets
                ELSE [buckets EXCEPT ![arg[r].proc][bucketKey(r)] =
                        Checked(@, Limit, Window, now)]
  /\ admitted' = IF Outcome(r) = "throttled" THEN admitted
                 ELSE [admitted EXCEPT ![r] = [at |-> now, life |-> crashes]]
  /\ \/ Outcome(r) = "fulfilled" /\ Goto(r, "ask") /\ UNCHANGED pending
     \/ Outcome(r) # "fulfilled" /\ Conclude(r, Outcome(r))
  /\ UNCHANGED <<files, cached, locks, store, receipts, arg, hash, seen, result, ran, kept,
                 forgotten, before, calm>>

-----------------------------------------------------------------------------
\* The replay store: a Map in order of insertion.

\* Slip: a full store makes room for an entry that may never come.
Newest_Full(s, n) == IF Len(s) < n THEN s ELSE SubSeq(s, Len(s) - n + 2, Len(s))

Newest(s, n) == IF Len(s) <= n THEN s ELSE SubSeq(s, Len(s) - n + 1, Len(s))

\* The entries of s at the places in keep, in their order.
EntriesAt(s, keep) ==
  LET rank == [i \in keep |-> Cardinality({h \in keep : h <= i})]
  IN [j \in 1..Cardinality(keep) |-> s[CHOOSE i \in keep : rank[i] = j]]

\* evict(), before every has and set; the shared stores only drop what expired.
Evicted(s) ==
  LET fresh == EntriesAt(s, {i \in 1..Len(s) : s[i].expires > now})
  IN IF Shared THEN fresh ELSE Newest(fresh, MaxEntries)

Contains(s, k) == \E i \in 1..Len(s) : s[i].key = k

\* set: a key that is there keeps its place.
Put(s, k) ==
  LET e == [key |-> k, expires |-> now + TTL]
  IN IF Contains(s, k) THEN [i \in 1..Len(s) |-> IF s[i].key = k THEN e ELSE s[i]]
                       ELSE Append(s, e)

\* The store of r becomes s; requests whose proofs drop out are forgotten.
Become(r, s) ==
  /\ store' = [store EXCEPT ![StoreOf(r)] = s]
  /\ forgotten' = forgotten \cup
       {q \in kept : StoreOf(q) = StoreOf(r) /\ ~Contains(s, ReplayKey(q))}

\* Slip: the lock alone is asked.
Proceed_LockOnly(r, replayed) ==
  IF paidLockKey(r) \in locks[arg[r].proc]
  THEN Conclude(r, "duplicate_paid_fulfilment_in_progress") /\ UNCHANGED locks
  ELSE /\ locks' = [locks EXCEPT ![arg[r].proc] = @ \cup {paidLockKey(r)}]
       /\ Goto(r, "handler")
       /\ UNCHANGED pending

\* From the answer of the store to the lock.
Proceed(r, replayed) ==
  IF replayed
  THEN Conclude(r, "payment_replay_detected") /\ UNCHANGED locks
  ELSE IF paidLockKey(r) \in locks[arg[r].proc]
  THEN Conclude(r, "duplicate_paid_fulfilment_in_progress") /\ UNCHANGED locks
  ELSE /\ locks' = [locks EXCEPT ![arg[r].proc] = @ \cup {paidLockKey(r)}]
       /\ Goto(r, "handler")
       /\ UNCHANGED pending

\* The memory store answers at once.
AskMemory(r) ==
  /\ ~Shared
  /\ pc[r] = "ask"
  /\ LET s == Evicted(store[StoreOf(r)])
     IN Become(r, s) /\ Proceed(r, Contains(s, ReplayKey(r)))
  /\ UNCHANGED <<files, cached, buckets, receipts, arg, hash, seen, result, ran, kept, before,
                 calm, admitted>>

\* The shared store answers, or throws, some time after it looked.
AskShared(r) ==
  /\ Shared
  /\ pc[r] = "ask"
  /\ LET s == Evicted(store[StoreOf(r)])
     IN /\ Become(r, s)
        /\ seen' = [seen EXCEPT ![r] = Contains(s, ReplayKey(r))]
  /\ \/ Goto(r, "answer") /\ UNCHANGED result
     \/ Return(r, "failed")
  /\ UNCHANGED <<files, process, receipts, arg, hash, pending, ran, kept, before, calm,
                 admitted>>

Answered(r) ==
  /\ pc[r] = "answer"
  /\ Proceed(r, seen[r])
  /\ UNCHANGED <<files, cached, buckets, store, receipts, arg, hash, seen, result, history>>

-----------------------------------------------------------------------------
\* Fulfilment, under the lock.

\* next(): the handler runs.  If it throws, Hono's error handler answers and next
\* returns all the same.
Handler(r) ==
  /\ pc[r] = "handler"
  /\ ran' = ran \cup {r}
  /\ Goto(r, "remember")
  /\ UNCHANGED <<files, process, store, receipts, request, result, kept, forgotten, before, calm,
                 admitted>>

\* The request throws: its lock goes, whatever else happened stays.
Throw(r) == /\ Goto(r, "finish")
            /\ result' = [result EXCEPT ![r] = "failed"]

\* Slip: the proof is never remembered.
Remember_Never(r) ==
  /\ pc[r] = "remember"
  /\ Conclude(r, "fulfilled")
  /\ UNCHANGED <<files, process, store, receipts, arg, hash, seen, result, history>>

\* rememberReplay; the answer of a shared store may be lost.
Remember(r) ==
  /\ pc[r] = "remember"
  /\ Become(r, Put(Evicted(store[StoreOf(r)]), ReplayKey(r)))
  /\ kept' = kept \cup {r}
  /\ \/ Conclude(r, "fulfilled") /\ UNCHANGED result
     \/ Shared /\ Throw(r) /\ UNCHANGED pending
  /\ UNCHANGED <<files, process, receipts, arg, hash, seen, ran, before, calm, admitted>>

\* A shared store refuses, its handler having run.
RememberFails(r) ==
  /\ Shared
  /\ pc[r] = "remember"
  /\ forgotten' = forgotten \cup {r}
  /\ Throw(r)
  /\ UNCHANGED <<files, process, store, receipts, request, ran, kept, before, calm, admitted>>

-----------------------------------------------------------------------------
\* writeSiteReceipt, and what comes after it.

\* The decision a receipt states.
Stated(r, o) ==
  CASE o = "allowed" -> "allow"
    [] o = "refused" -> arg[r].verdict
    [] o = "idempotency_key_required" -> "review"
    [] o \in {"throttled", "duplicate_paid_fulfilment_in_progress"} -> "throttle"
    [] o = "payment_replay_detected" -> "deny"
    [] OTHER -> "charge"

\* settlementSuccess is TRUE when the payment was fulfilled and FALSE when the
\* request was refused; on an allowed route it is what the request claims.
Receipt(r, o) ==
  [request |-> r, decision |-> Stated(r, o),
   settled |-> IF o = "allowed" THEN arg[r].claim ELSE o = "fulfilled"]

\* The ledger may refuse (its lock, its disk): the request throws.
WriteReceipt(r) ==
  /\ pc[r] = "receipt"
  /\ \/ /\ receipts' = receipts \cup {Receipt(r, pending[r])}
        /\ Goto(r, "finish")
        /\ UNCHANGED result
     \/ Throw(r) /\ UNCHANGED receipts
  /\ UNCHANGED <<files, process, store, request, history>>

Unlock(r) == locks' = [locks EXCEPT ![arg[r].proc] = @ \ {paidLockKey(r)}]

\* Slip: no "finally": a request that throws keeps its lock.
Finish_OnlyOnSuccess(r) ==
  /\ pc[r] = "finish"
  /\ IF Locked(r) /\ result[r] # "failed" THEN Unlock(r) ELSE UNCHANGED locks
  /\ \/ result[r] = "failed" /\ Goto(r, "done") /\ UNCHANGED result
     \/ result[r] # "failed" /\ pending[r] = "allowed" /\ Goto(r, "serve") /\ UNCHANGED result
     \/ result[r] # "failed" /\ pending[r] # "allowed" /\ Return(r, pending[r])
  /\ UNCHANGED <<files, cached, buckets, store, receipts, request, history>>

\* The lock goes, and the request is answered or goes on to its free route.
Finish(r) ==
  /\ pc[r] = "finish"
  /\ IF Locked(r) THEN Unlock(r) ELSE UNCHANGED locks
  /\ \/ result[r] = "failed" /\ Goto(r, "done") /\ UNCHANGED result
     \/ result[r] # "failed" /\ pending[r] = "allowed" /\ Goto(r, "serve") /\ UNCHANGED result
     \/ result[r] # "failed" /\ pending[r] # "allowed" /\ Return(r, pending[r])
  /\ UNCHANGED <<files, cached, buckets, store, receipts, request, history>>

\* next() on a route that is free, or without a policy under failMode "open".
Serve(r) ==
  /\ pc[r] \in {"serve", "unchecked"}
  /\ ran' = ran \cup {r}
  /\ Return(r, IF pc[r] = "serve" THEN "served" ELSE "served_unchecked")
  /\ UNCHANGED <<files, process, store, receipts, request, kept, forgotten, before, calm,
                 admitted>>

-----------------------------------------------------------------------------
\* The environment.

EditPolicy ==
  /\ edits < MaxEdits
  /\ edits' = edits + 1
  /\ policy' = policy + 1
  /\ UNCHANGED <<stop, crashes, now, process, store, receipts, pc, request, result, history>>

EditStop ==
  /\ edits < MaxEdits
  /\ edits' = edits + 1
  /\ stop' \in StopFile \ {stop}
  /\ calm' = [r \in Requests |-> calm[r] \/ (pc[r] # "idle" /\ stop' # "on")]
  /\ UNCHANGED <<policy, crashes, now, process, store, receipts, pc, request, result, ran, kept,
                 forgotten, before, admitted>>

Tick ==
  /\ now < MaxTime
  /\ now' = now + 1
  /\ UNCHANGED <<policy, stop, edits, crashes, process, store, receipts, pc, request, result,
                 history>>

\* Process p dies and comes back with empty memory.
Crash(p) ==
  LET mine == {r \in Requests : pc[r] # "idle" /\ arg[r].proc = p}
  IN /\ crashes < MaxCrashes
     /\ crashes' = crashes + 1
     /\ cached' = [cached EXCEPT ![p] = None]
     /\ buckets' = [buckets EXCEPT ![p] = [k \in BucketKeys |-> NoBucket]]
     /\ locks' = [locks EXCEPT ![p] = {}]
     /\ store' = IF Shared THEN store ELSE [store EXCEPT ![p] = <<>>]
     /\ pc' = [r \in Requests |-> IF r \in mine /\ pc[r] # "done" THEN "crashed" ELSE pc[r]]
     /\ forgotten' = forgotten \cup
          {r \in mine : IF Shared THEN pc[r] = "remember" ELSE r \in ran}
     /\ UNCHANGED <<policy, stop, edits, now, receipts, request, result, ran, kept, before, calm,
                    admitted>>

-----------------------------------------------------------------------------
Step(r) ==
  \/ HoldPolicy(r) \/ ReadPolicy(r) \/ PolicyUnavailable(r) \/ CachePolicy(r)
  \/ Preempt(r) \/ ReadStop(r) \/ Decide(r)
  \/ AskMemory(r) \/ AskShared(r) \/ Answered(r)
  \/ Handler(r) \/ Remember(r) \/ RememberFails(r)
  \/ WriteReceipt(r) \/ Finish(r) \/ Serve(r)

Next ==
  \/ \E r \in Requests : Arrive(r) \/ Step(r)
  \/ \E p \in Processes : Crash(p)
  \/ EditPolicy \/ EditStop \/ Tick

Spec == Init /\ [][Next]_vars

-----------------------------------------------------------------------------
\* Properties.

\* The types of the variables.
TypeOK ==
  /\ policy \in Nat /\ stop \in StopFile /\ edits \in Nat /\ crashes \in Nat /\ now \in Nat
  /\ cached \in [Processes -> Nat \cup {None}]
  /\ buckets \in [Processes -> [BucketKeys -> [remaining : Nat, resetAt : Nat]]]
  /\ locks \in [Processes -> SUBSET (Routes \X Keys)]
  /\ store \in [Stores -> Seq([key : Proofs \X Routes \X Nat, expires : Nat])]
  /\ receipts \subseteq [request : Requests, decision : Verdicts \cup
                         {"allow", "charge", "deny", "throttle", "review"}, settled : BOOLEAN]
  /\ pc \in [Requests -> Places]
  /\ arg \in [Requests -> Args \cup {None}]
  /\ hash \in [Requests -> Nat \cup {None}]
  /\ seen \in [Requests -> BOOLEAN]
  /\ pending \in [Requests -> Outcomes]
  /\ result \in [Requests -> Results]
  /\ ran \subseteq Requests /\ kept \subseteq Requests /\ forgotten \subseteq Requests
  /\ before \in [Requests -> SUBSET Requests]
  /\ calm \in [Requests -> BOOLEAN]
  /\ admitted \in [Requests -> [at : Nat, life : Nat] \cup {None}]

\* The handler ran for a payment, not because the route was free or unchecked.
Fulfilled(r) == r \in ran /\ result[r] \notin {"served", "served_unchecked"}

\* The same proof for the same resource under the same policy.
SamePayment(r, s) ==
  /\ arg[r].proof = arg[s].proof /\ arg[r].route = arg[s].route /\ hash[r] = hash[s]

\* A process's set of paid-route locks is exactly what the requests between add
\* and delete have locked, each its own key: none is shared and none outlives its
\* request, whichever await throws.
LocksExact ==
  \A p \in Processes :
    LET inside == {r \in Requests : Locked(r) /\ arg[r].proc = p}
    IN /\ locks[p] = {paidLockKey(r) : r \in inside}
       /\ \A r, s \in inside : paidLockKey(r) = paidLockKey(s) => r = s

\* A proof that was in the store when a request arrived does not pay for that
\* request too, unless the store has forgotten it since (expiry, eviction, crash
\* of a memory store).
ReplayRejected ==
  \A r, s \in Requests :
    Fulfilled(r) /\ s \in before[r] /\ SamePayment(r, s) /\ StoreOf(r) = StoreOf(s)
    => s \in forgotten

\* A proof the store has taken stays in it until its time is up or, in a memory
\* store, MaxEntries later ones are in it; only a crash takes it before.
StoreKeepsProofs ==
  [][\A r \in forgotten' \ forgotten : r \in kept /\ crashes' = crashes =>
       \E i \in 1..Len(store[StoreOf(r)]) :
         /\ store[StoreOf(r)][i].key = ReplayKey(r)
         /\ \/ store[StoreOf(r)][i].expires <= now
            \/ ~Shared /\ i + MaxEntries <= Len(store[StoreOf(r)])]_vars

\* With the memory store, requests of one process that repeat the payment under
\* one idempotency key run the handler once, however they overlap: the lock
\* covers the time from the question to the store to the answer remembered.
OnceUnderOneKey ==
  \A r, s \in Requests :
    /\ r # s /\ ~Shared
    /\ Fulfilled(r) /\ Fulfilled(s) /\ SamePayment(r, s)
    /\ arg[r].proc = arg[s].proc /\ idempotencyKey(r) = idempotencyKey(s)
    => r \in forgotten \/ s \in forgotten

\* A receipt that says a payment was settled belongs to a request whose handler
\* ran and whose proof was remembered first; a request answered as fulfilled has
\* that receipt, and a fulfilled request has no receipt that says it was refused.
ReceiptsTellTheTruth ==
  /\ \A x \in receipts : x.decision = "charge" /\ x.settled =>
       Fulfilled(x.request) /\ x.request \in kept
  /\ \A r \in Requests : result[r] = "fulfilled" => Receipt(r, "fulfilled") \in receipts
  /\ \A x \in receipts : Fulfilled(x.request) => x.settled

\* No route does its work for a request during all of which the stop signal was
\* in force, failMode "open" without a policy excepted.
StopHonoured ==
  \A r \in ran : result[r] = "served_unchecked" \/ calm[r]

\* In any span as long as the window, one life of a process lets at most
\* 2 * Limit - 1 requests of an agent pass a rule, over all its routes: all but the
\* first of one window, which opened it, and all of the next.
RateBounded ==
  Limit > 0 => \A r \in Requests : admitted[r] # None =>
    Cardinality({s \in Requests :
      /\ admitted[s] # None
      /\ admitted[s].life = admitted[r].life
      /\ arg[s].proc = arg[r].proc /\ bucketKey(s) = bucketKey(r)
      /\ admitted[s].at \in admitted[r].at .. admitted[r].at + Window - 1}) < 2 * Limit

\* "reject repeated paid proof metadata with a replay cache" (README.md:299), taken
\* at its word: no payment is fulfilled twice while the cache keeps its proofs.
ProofPaysOnce ==
  \A r, s \in Requests :
    r # s /\ Fulfilled(r) /\ Fulfilled(s) /\ SamePayment(r, s) /\ StoreOf(r) = StoreOf(s)
    => r \in forgotten \/ s \in forgotten
=============================================================================
