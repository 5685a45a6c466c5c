-------------------------- MODULE PaidRouteProofs --------------------------
(***************************************************************************)
(* What the paid routes guarantee for any number of requests, processes,   *)
(* proofs and keys, under every option.                                    *)
(***************************************************************************)
EXTENDS PaidRoute, FiniteSetTheorems, SequenceTheorems, TLAPS

-----------------------------------------------------------------------------
\* The replay store.

ReplayKeys == Proofs \X Routes \X Nat

Entries == [key : ReplayKeys, expires : Nat]

\* An entry that is kept is found at its rank among those that are, and no more
\* are kept behind it than there were.
LEMMA EntriesAtFacts ==
  ASSUME NEW T, NEW s \in Seq(T), NEW keep \in SUBSET (1 .. Len(s))
  PROVE  /\ EntriesAt(s, keep) \in Seq(T)
         /\ \A i \in keep : \E j \in 1 .. Len(EntriesAt(s, keep)) :
              EntriesAt(s, keep)[j] = s[i] /\ Len(EntriesAt(s, keep)) - j <= Len(s) - i
<1> DEFINE n == Cardinality(keep)
           UpTo(i) == {h \in keep : h <= i}
           rank == [i \in keep |-> Cardinality(UpTo(i))]
           chosen == [j \in 1 .. n |-> s[CHOOSE i \in keep : rank[i] = j]]
<1>1. Len(s) \in Nat /\ \A i \in keep : i \in Nat /\ 1 <= i /\ i <= Len(s)
  OBVIOUS
<1>2. IsFiniteSet(1 .. Len(s))
  BY <1>1, FS_Interval
<1>3. IsFiniteSet(keep)
  BY <1>2, FS_Subset
<1>4. n \in Nat
  BY <1>3, FS_CardinalityType
<1>5. ASSUME NEW i \in keep
      PROVE  /\ IsFiniteSet(UpTo(i))
             /\ Cardinality(UpTo(i)) \in Nat /\ Cardinality(UpTo(i)) \in 1 .. n
  <2>1. UpTo(i) \in SUBSET keep
    OBVIOUS
  <2>2. IsFiniteSet(UpTo(i)) /\ Cardinality(UpTo(i)) \in Nat /\ Cardinality(UpTo(i)) <= n
    BY <1>3, <2>1, FS_Subset, FS_CardinalityType
  <2>3. i \in UpTo(i)
    BY <1>1
  <2>4. Cardinality(UpTo(i)) # 0
    BY <2>2, <2>3, FS_EmptySet
  <2> HIDE DEF n, UpTo
  <2> QED
    BY <1>1, <2>2, <2>4
<1>6. rank \in [keep -> 1 .. n]
  BY <1>5
<1>7. ASSUME NEW i \in keep, NEW k \in keep, i < k PROVE rank[i] # rank[k]
  <2>1. UpTo(i) \in SUBSET UpTo(k) /\ k \notin UpTo(i) /\ k \in UpTo(k)
    <3>1. i \in Nat /\ k \in Nat
      BY <1>1
    <3>2. \A h \in keep : h <= i => h <= k
      BY <1>1, <1>7, <3>1
    <3>3. ~ (k <= i) /\ k <= k
      BY <1>7, <3>1
    <3> QED
      BY <3>2, <3>3
  <2>2. Cardinality(UpTo(i)) # Cardinality(UpTo(k))
    BY <1>5, <2>1, FS_Subset
  <2> QED
    BY <2>2
<1>8. rank \in Injection(keep, 1 .. n)
  <2> HIDE DEF rank, n
  <2>1. \A i, k \in keep : rank[i] = rank[k] => i = k
    BY <1>1, <1>7
  <2> QED
    BY <1>6, <2>1 DEF Injection, IsInjective
<1>9. rank \in Surjection(keep, 1 .. n)
  <2>1. IsFiniteSet(1 .. n) /\ Cardinality(1 .. n) = n
    <3> HIDE DEF n
    <3> QED
      BY <1>4, FS_Interval
  <2> HIDE DEF rank
  <2> QED
    BY <1>8, <2>1, FS_Injection
<1>10. \A j \in 1 .. n : \E i \in keep : rank[i] = j
  <2> HIDE DEF rank, n
  <2> QED
    BY <1>9 DEF Surjection
<1>11. EntriesAt(s, keep) = chosen
  BY DEF EntriesAt
<1>12. chosen \in Seq(T) /\ Len(chosen) = n
  <2> DEFINE at(j) == CHOOSE i \in keep : rank[i] = j
  <2>1. \A j \in 1 .. n : at(j) \in 1 .. Len(s)
    <3> HIDE DEF rank, n
    <3> QED
      BY <1>10
  <2>2. chosen = [j \in 1 .. n |-> s[at(j)]]
    OBVIOUS
  <2> HIDE DEF n, at, chosen
  <2>3. \A j \in 1 .. n : s[at(j)] \in T
    BY <2>1
  <2> QED
    BY <1>4, <2>2, <2>3
<1>13. ASSUME NEW i \in keep
       PROVE  \E j \in 1 .. n : chosen[j] = s[i] /\ n - j <= Len(s) - i
  <2>1. rank[i] \in 1 .. n
    BY <1>6
  <2>2. chosen[rank[i]] = s[CHOOSE h \in keep : rank[h] = rank[i]]
    BY <2>1
  <2>3. (CHOOSE h \in keep : rank[h] = rank[i]) = i
    <3> HIDE DEF rank
    <3> QED
      BY <1>8 DEF Injection, IsInjective
  <2>4. n - rank[i] <= Len(s) - i
    <3> DEFINE after == {h \in keep : h > i}
    <3>1. after \in SUBSET (i + 1 .. Len(s)) /\ i \in 1 .. Len(s)
      <4>1. \A h \in keep : h > i => h \in i + 1 .. Len(s)
        BY <1>1
      <4> QED
        BY <1>1, <4>1
    <3>2. IsFiniteSet(after) /\ Cardinality(after) \in Nat /\ Cardinality(after) <= Len(s) - i
      <4> HIDE DEF after
      <4>1. i + 1 \in Int /\ Len(s) \in Int /\ i \in Nat /\ i <= Len(s)
        BY <1>1, <3>1
      <4>2. IsFiniteSet(i + 1 .. Len(s)) /\ Cardinality(i + 1 .. Len(s)) = Len(s) - i
        BY <4>1, FS_Interval
      <4> QED
        BY <3>1, <4>2, FS_Subset, FS_CardinalityType
    <3>3. UpTo(i) \cup after = keep /\ UpTo(i) \cap after = {}
      <4>1. \A h \in keep : (h <= i) <=> ~ (h > i)
        BY <1>1
      <4> QED
        BY <4>1
    <3>4. n = Cardinality(UpTo(i)) + Cardinality(after)
      <4>1. IsFiniteSet(UpTo(i)) /\ Cardinality(UpTo(i)) \in Nat
        BY <1>5
      <4>2. Cardinality(UpTo(i) \cap after) = 0
        BY <3>3, FS_EmptySet
      <4> HIDE DEF UpTo, after
      <4>3. Cardinality(UpTo(i) \cup after)
              = Cardinality(UpTo(i)) + Cardinality(after) - Cardinality(UpTo(i) \cap after)
        BY <3>2, <4>1, FS_Union
      <4>4. n = Cardinality(UpTo(i) \cup after)
        BY <3>3
      <4> HIDE DEF n
      <4> QED
        BY <3>2, <4>1, <4>2, <4>3, <4>4
    <3>5. rank[i] = Cardinality(UpTo(i))
      OBVIOUS
    <3> HIDE DEF n, rank, after, UpTo
    <3> QED
      BY <1>1, <1>4, <1>5, <3>1, <3>2, <3>4, <3>5
  <2> QED
    BY <2>1, <2>2, <2>3, <2>4
<1> HIDE DEF n, chosen
<1> QED
  BY <1>11, <1>12, <1>13

\* The newest n entries.
LEMMA NewestFacts ==
  ASSUME NEW T, NEW s \in Seq(T), NEW n \in Nat
  PROVE  /\ Newest(s, n) \in Seq(T)
         /\ \A j \in 1 .. Len(s) : j > Len(s) - n =>
              \E k \in 1 .. Len(Newest(s, n)) : Newest(s, n)[k] = s[j]
<1>1. CASE Len(s) <= n
  BY <1>1 DEF Newest
<1>2. CASE Len(s) > n
  <2> DEFINE m == Len(s) - n + 1
  <2>1. Newest(s, n) = SubSeq(s, m, Len(s)) /\ m \in 1 .. Len(s) + 1
    BY <1>2 DEF Newest
  <2>2. /\ SubSeq(s, m, Len(s)) \in Seq(T) /\ Len(SubSeq(s, m, Len(s))) = n
        /\ \A k \in 1 .. n : SubSeq(s, m, Len(s))[k] = s[m + k - 1]
    BY <1>2, <2>1
  <2>3. ASSUME NEW j \in 1 .. Len(s), j > Len(s) - n
        PROVE  j - m + 1 \in 1 .. n /\ m + (j - m + 1) - 1 = j
    BY <1>2, <2>3
  <2> HIDE DEF m
  <2> QED
    BY <2>1, <2>2, <2>3
<1> QED
  BY <1>1, <1>2

\* What evict() drops has expired, or is one of the oldest of a full memory store.
LEMMA EvictedFacts ==
  ASSUME NEW s \in Seq(Entries), now \in Nat
  PROVE  /\ Evicted(s) \in Seq(Entries)
         /\ \A i \in 1 .. Len(s) : ~ Contains(Evicted(s), s[i].key) =>
              s[i].expires <= now \/ (~ Shared /\ i + MaxEntries <= Len(s))
<1> DEFINE keep == {i \in 1 .. Len(s) : s[i].expires > now}
           fresh == EntriesAt(s, keep)
<1>1. keep \in SUBSET (1 .. Len(s)) /\ MaxEntries \in Nat
  BY OptionsAssumption
<1>2. /\ fresh \in Seq(Entries)
      /\ \A i \in keep : \E j \in 1 .. Len(fresh) :
           fresh[j] = s[i] /\ Len(fresh) - j <= Len(s) - i
  BY <1>1, EntriesAtFacts
<1>3. Evicted(s) = IF Shared THEN fresh ELSE Newest(fresh, MaxEntries)
  BY DEF Evicted
<1> HIDE DEF fresh
<1>4. /\ Newest(fresh, MaxEntries) \in Seq(Entries)
      /\ \A j \in 1 .. Len(fresh) : j > Len(fresh) - MaxEntries =>
           \E k \in 1 .. Len(Newest(fresh, MaxEntries)) : Newest(fresh, MaxEntries)[k] = fresh[j]
  BY <1>1, <1>2, NewestFacts
<1>5. ASSUME NEW i \in 1 .. Len(s), ~ Contains(Evicted(s), s[i].key)
      PROVE  ~ (s[i].expires > now) \/ (~ Shared /\ i + MaxEntries <= Len(s))
  <2> SUFFICES ASSUME i \in keep PROVE ~ Shared /\ i + MaxEntries <= Len(s)
    OBVIOUS
  <2>1. PICK j \in 1 .. Len(fresh) : fresh[j] = s[i] /\ Len(fresh) - j <= Len(s) - i
    BY <1>2
  <2>2. ~ Shared
    BY <1>3, <1>5, <2>1 DEF Contains
  <2>3. ~ (j > Len(fresh) - MaxEntries)
    BY <1>3, <1>4, <1>5, <2>1, <2>2 DEF Contains
  <2> QED
    BY <1>1, <1>2, <2>1, <2>2, <2>3
<1>6. \A i \in 1 .. Len(s) : s[i].expires \in Nat
  <2> TAKE i \in 1 .. Len(s)
  <2>1. s[i] \in Entries
    OBVIOUS
  <2> QED
    BY <2>1 DEF Entries
<1>7. \A i \in 1 .. Len(s) : ~ (s[i].expires > now) => s[i].expires <= now
  BY <1>6
<1> QED
  BY <1>2, <1>3, <1>4, <1>5, <1>7

\* set leaves the key in the store, and every key that was there.
LEMMA PutFacts ==
  ASSUME NEW s \in Seq(Entries), NEW k \in ReplayKeys, now \in Nat
  PROVE  /\ Put(s, k) \in Seq(Entries)
         /\ Contains(Put(s, k), k)
         /\ \A key : Contains(s, key) => Contains(Put(s, k), key)
<1> DEFINE e == [key |-> k, expires |-> now + TTL]
<1>1. e \in Entries /\ e.key = k
  BY OptionsAssumption DEF Entries
<1>2. Len(s) \in Nat
  OBVIOUS
<1> HIDE DEF e
<1>3. CASE Contains(s, k)
  <2> DEFINE g == [i \in 1 .. Len(s) |-> IF s[i].key = k THEN e ELSE s[i]]
  <2>1. Put(s, k) = g
    BY <1>3 DEF Put, e
  <2>2. g \in Seq(Entries) /\ Len(g) = Len(s)
    BY <1>1, <1>2
  <2>3. \A i \in 1 .. Len(s) : g[i].key = s[i].key
    BY <1>1
  <2> HIDE DEF g
  <2> QED
    BY <1>3, <2>1, <2>2, <2>3 DEF Contains
<1>4. CASE ~ Contains(s, k)
  <2>1. Put(s, k) = Append(s, e)
    BY <1>4 DEF Put, e
  <2>2. /\ Append(s, e) \in Seq(Entries) /\ Len(Append(s, e)) = Len(s) + 1
        /\ Append(s, e)[Len(s) + 1] = e
        /\ \A i \in 1 .. Len(s) : Append(s, e)[i] = s[i]
    BY <1>1, <1>2
  <2>3. Len(s) + 1 \in 1 .. Len(s) + 1 /\ \A i \in 1 .. Len(s) : i \in 1 .. Len(s) + 1
    BY <1>2
  <2> QED
    BY <1>1, <2>1, <2>2, <2>3 DEF Contains
<1> QED
  BY <1>3, <1>4

-----------------------------------------------------------------------------
\* Types.

\* What a request carries is known once it has arrived, the version of the policy
\* once it is read, and a request on its way to be fulfilled carries a proof.
Carries(r) ==
  /\ pc[r] # "idle" => arg[r] \in Args
  /\ pc[r] \in {"cache", "stop", "ask", "answer", "handler", "remember", "receipt", "finish"} =>
       hash[r] \in Nat
  /\ pc[r] \in {"ask", "answer", "handler", "remember"} => arg[r].proof # None

Typed == TypeOK /\ \A r \in Requests : Carries(r)

\* What an argument consists of.
LEMMA ArgFields ==
  ASSUME NEW a \in Args
  PROVE  /\ a.proc \in Processes /\ a.agent \in Agents /\ a.route \in Routes
         /\ a.verdict \in Verdicts /\ a.proof \in Proofs \cup {None}
         /\ a.key \in Keys \cup {None} /\ a.trace \in Keys /\ a.claim \in BOOLEAN
  BY DEF Args

\* The keys of a request that has arrived.
LEMMA KeyTypes ==
  ASSUME NEW r \in Requests, arg[r] \in Args
  PROVE  /\ StoreOf(r) \in Stores
         /\ paidLockKey(r) \in Routes \X Keys
         /\ bucketKey(r) \in BucketKeys
         /\ hash[r] \in Nat /\ arg[r].proof # None => ReplayKey(r) \in ReplayKeys
  BY ArgFields, RulesAssumption
  DEF StoreOf, Stores, paidLockKey, idempotencyKey, BucketKeys, bucketKey, RulesAssumption,
      ReplayKey, ReplayKeys

\* check leaves a bucket behind.
LEMMA CheckedType ==
  ASSUME NEW b \in [remaining : Nat, resetAt : Nat], now \in Nat, Limit > 0
  PROVE  Checked(b, Limit, Window, now) \in [remaining : Nat, resetAt : Nat]
<1>1. Limit - 1 \in Nat /\ now + Window \in Nat
  BY OptionsAssumption
<1>2. CASE Closed(b, now)
  BY <1>1, <1>2 DEF Checked
<1>3. CASE ~ Closed(b, now) /\ b.remaining <= 0
  BY <1>3 DEF Checked
<1>4. CASE ~ Closed(b, now) /\ ~ (b.remaining <= 0)
  <2>1. b.remaining - 1 \in Nat
    BY <1>4
  <2> QED
    BY <1>4, <2>1 DEF Checked
<1> QED
  BY <1>2, <1>3, <1>4

\* A lock is taken or given back.
LEMMA LocksType ==
  ASSUME locks \in [Processes -> SUBSET (Routes \X Keys)], NEW p \in Processes,
         NEW k \in Routes \X Keys
  PROVE  /\ [locks EXCEPT ![p] = @ \cup {k}] \in [Processes -> SUBSET (Routes \X Keys)]
         /\ [locks EXCEPT ![p] = @ \ {k}] \in [Processes -> SUBSET (Routes \X Keys)]
<1> DEFINE L == SUBSET (Routes \X Keys)
<1>1. locks \in [Processes -> L]
  OBVIOUS
<1>2. locks[p] \cup {k} \in L /\ locks[p] \ {k} \in L
  <2>1. locks[p] \subseteq Routes \X Keys
    OBVIOUS
  <2> QED
    BY <2>1, Zenon
<1> HIDE DEF L
<1>3. /\ [locks EXCEPT ![p] = @ \cup {k}] \in [Processes -> L]
      /\ [locks EXCEPT ![p] = @ \ {k}] \in [Processes -> L]
  BY <1>1, <1>2
<1> QED
  BY <1>3 DEF L

\* The decision a receipt states is one a receipt may state.
LEMMA ReceiptType ==
  ASSUME NEW r \in Requests, arg[r] \in Args, NEW o \in Outcomes
  PROVE  Receipt(r, o) \in [request : Requests, decision : Verdicts \cup
                            {"allow", "charge", "deny", "throttle", "review"}, settled : BOOLEAN]
<1>1. Stated(r, o) \in Verdicts \cup {"allow", "charge", "deny", "throttle", "review"}
  BY ArgFields DEF Stated
<1>2. (IF o = "allowed" THEN arg[r].claim ELSE o = "fulfilled") \in BOOLEAN
  BY ArgFields
<1> QED
  BY <1>1, <1>2 DEF Receipt

\* At first nothing has arrived.
LEMMA InitTyped == Init => Typed
<1> SUFFICES ASSUME Init PROVE Typed
  OBVIOUS
<1>1. NoBucket \in [remaining : Nat, resetAt : Nat]
  BY DEF NoBucket
<1>2. <<>> \in Seq([key : Proofs \X Routes \X Nat, expires : Nat])
  OBVIOUS
<1>3. buckets \in [Processes -> [BucketKeys -> [remaining : Nat, resetAt : Nat]]]
  BY <1>1 DEF Init
<1>4. store \in [Stores -> Seq([key : Proofs \X Routes \X Nat, expires : Nat])]
  BY <1>2 DEF Init
<1> QED
  BY <1>3, <1>4 DEF Init, Typed, TypeOK, Carries, StopFile, Places, Outcomes, Results

\* The outcome of a request is an outcome, and it is fulfilled only with a proof.
LEMMA OutcomeType ==
  ASSUME NEW r \in Requests
  PROVE  /\ Outcome(r) \in Outcomes \ {"none"}
         /\ Outcome(r) = "fulfilled" => arg[r].proof # None /\ arg[r].verdict = "charge"
         /\ Outcome(r) = "refused" => arg[r].verdict # "charge"
  BY DEF Outcome, Outcomes

\* Each step keeps the types.
LEMMA NextTyped == Typed /\ [Next]_vars => Typed'
<1> SUFFICES ASSUME Typed, [Next]_vars PROVE Typed'
  OBVIOUS
<1> USE DEF Typed
<1>1. ASSUME NEW r \in Requests, Arrive(r) PROVE Typed'
  BY <1>1 DEF Arrive, Goto, TypeOK, Carries, Places, files, process
<1>2. ASSUME NEW r \in Requests,
             \/ HoldPolicy(r) \/ ReadPolicy(r) \/ PolicyUnavailable(r) \/ CachePolicy(r)
             \/ Preempt(r) \/ ReadStop(r) \/ Handler(r) \/ RememberFails(r) \/ Serve(r)
      PROVE  Typed'
  <2>1. pc[r] # "idle" /\ arg[r].proc \in Processes
    BY <1>2, ArgFields DEF HoldPolicy, ReadPolicy, PolicyUnavailable, CachePolicy, Preempt, ReadStop,
       Handler, RememberFails, Serve, Carries
  <2>2. /\ pc' \in [Requests -> Places] /\ \A q \in Requests : q # r => pc'[q] = pc[q]
        /\ result' \in [Requests -> Results]
    <3>1. \E place \in Places : pc' = [pc EXCEPT ![r] = place]
      BY <1>2 DEF HoldPolicy, ReadPolicy, PolicyUnavailable, CachePolicy, Preempt, ReadStop,
         Handler, RememberFails, Serve, Places, Goto, Return, Throw
    <3>2. result' = result \/ \E answer \in Results : result' = [result EXCEPT ![r] = answer]
      BY <1>2 DEF HoldPolicy, ReadPolicy, PolicyUnavailable, CachePolicy, Preempt, ReadStop,
         Handler, RememberFails, Serve, Results, Return, Throw
    <3> QED
      BY <3>1, <3>2 DEF TypeOK
  <2>3. /\ hash' \in [Requests -> Nat \cup {None}] /\ cached' \in [Processes -> Nat \cup {None}]
        /\ ran' \subseteq Requests /\ forgotten' \subseteq Requests
    BY ZenonT(40), <1>2, <2>1 DEF HoldPolicy, ReadPolicy, PolicyUnavailable, CachePolicy, Preempt, ReadStop,
       Handler, RememberFails, Serve, TypeOK, process, request, history
  <2>4. TypeOK'
    BY <1>2, <2>2, <2>3 DEF HoldPolicy, ReadPolicy, PolicyUnavailable, CachePolicy, Preempt, ReadStop,
       Handler, RememberFails, Serve, TypeOK, files, process, request, history
  <2>5. \A q \in Requests : Carries(q)'
    BY <1>2, <2>1 DEF HoldPolicy, ReadPolicy, PolicyUnavailable, CachePolicy, Preempt, ReadStop,
       Handler, RememberFails, Serve, TypeOK, Carries, Places, Results, Outcomes, Goto, Return, Throw,
       files, process, request, history
  <2> QED
    BY <2>4, <2>5
<1>3. ASSUME NEW r \in Requests, Decide(r) PROVE Typed'
  <2>1. pc[r] = "stop" /\ arg[r] \in Args /\ hash[r] \in Nat /\ arg[r].proc \in Processes
    BY <1>3, ArgFields DEF Decide, Carries
  <2>2. bucketKey(r) \in BucketKeys
    BY <2>1, KeyTypes
  <2>3. buckets' \in [Processes -> [BucketKeys -> [remaining : Nat, resetAt : Nat]]]
    <3>1. CASE Limit = 0
      BY <1>3, <3>1 DEF Decide, TypeOK
    <3>2. CASE Limit # 0
      <4>1. Limit > 0
        BY <3>2, OptionsAssumption
      <4>2. Bucket(r) \in [remaining : Nat, resetAt : Nat]
        BY <2>1, <2>2 DEF Bucket, TypeOK
      <4>3. Checked(Bucket(r), Limit, Window, now) \in [remaining : Nat, resetAt : Nat]
        BY <4>1, <4>2, CheckedType DEF TypeOK
      <4>4. buckets' = [buckets EXCEPT ![arg[r].proc][bucketKey(r)] =
                          Checked(Bucket(r), Limit, Window, now)]
        BY <1>3, <3>2 DEF Decide, Bucket
      <4> QED
        BY <2>1, <2>2, <4>3, <4>4 DEF TypeOK
    <3> QED
      BY <3>1, <3>2
  <2>4. admitted' \in [Requests -> [at : Nat, life : Nat] \cup {None}]
    BY <1>3 DEF Decide, TypeOK
  <2>5. /\ pc' \in [Requests -> Places] /\ pending' \in [Requests -> Outcomes]
        /\ pc' = [pc EXCEPT ![r] = IF Outcome(r) = "fulfilled" THEN "ask" ELSE "receipt"]
    <3>1. Outcome(r) \in Outcomes
      BY OutcomeType
    <3>2. pc' = [pc EXCEPT ![r] = IF Outcome(r) = "fulfilled" THEN "ask" ELSE "receipt"]
      BY <1>3 DEF Decide, Conclude, Goto
    <3>3. pending' \in [Requests -> Outcomes]
      BY <1>3, <3>1 DEF Decide, Conclude, TypeOK
    <3> QED
      BY <3>2, <3>3 DEF TypeOK, Places
  <2>6. TypeOK'
    BY <1>3, <2>3, <2>4, <2>5 DEF Decide, TypeOK, files
  <2>7. \A q \in Requests : Carries(q)'
    BY <1>3, <2>1, <2>5, OutcomeType DEF Decide, Carries, TypeOK
  <2> QED
    BY <2>6, <2>7
<1>4. ASSUME NEW r \in Requests, pc[r] \in {"ask", "remember"}
      PROVE  /\ StoreOf(r) \in Stores /\ store[StoreOf(r)] \in Seq(Entries)
             /\ ReplayKey(r) \in ReplayKeys /\ paidLockKey(r) \in Routes \X Keys
             /\ arg[r].proc \in Processes
             /\ Evicted(store[StoreOf(r)]) \in Seq(Entries)
             /\ Put(Evicted(store[StoreOf(r)]), ReplayKey(r)) \in Seq(Entries)
  <2>1. /\ StoreOf(r) \in Stores /\ ReplayKey(r) \in ReplayKeys
        /\ paidLockKey(r) \in Routes \X Keys /\ arg[r].proc \in Processes
    BY <1>4, KeyTypes, ArgFields DEF Carries
  <2>2. store[StoreOf(r)] \in Seq(Entries) /\ now \in Nat
    BY <2>1 DEF TypeOK, Entries, ReplayKeys
  <2>3. Evicted(store[StoreOf(r)]) \in Seq(Entries)
    BY <2>2, EvictedFacts
  <2> QED
    BY <2>1, <2>2, <2>3, PutFacts
<1>5. ASSUME NEW r \in Requests, AskMemory(r) \/ AskShared(r) PROVE Typed'
  <2>1. pc[r] = "ask" /\ Carries(r)
    BY <1>5 DEF AskMemory, AskShared
  <2>2. store' = [store EXCEPT ![StoreOf(r)] = Evicted(store[StoreOf(r)])]
    BY <1>5 DEF AskMemory, AskShared, Become
  <2>3. store' \in [Stores -> Seq([key : Proofs \X Routes \X Nat, expires : Nat])]
    BY <1>4, <2>1, <2>2 DEF TypeOK, Entries, ReplayKeys
  <2>4. forgotten' \subseteq Requests
    BY <1>5 DEF AskMemory, AskShared, Become, TypeOK
  <2>5. seen' \in [Requests -> BOOLEAN]
    BY <1>5 DEF AskMemory, AskShared, TypeOK, Contains
  <2>6. /\ locks' \in [Processes -> SUBSET (Routes \X Keys)] /\ pending' \in [Requests -> Outcomes]
        /\ result' \in [Requests -> Results]
    <3>1. paidLockKey(r) \in Routes \X Keys /\ arg[r].proc \in Processes
      BY <1>4, <2>1
    <3>2. \/ locks' = locks
          \/ locks' = [locks EXCEPT ![arg[r].proc] = @ \cup {paidLockKey(r)}]
      BY <1>5 DEF AskMemory, AskShared, Proceed, process
    <3>3. locks' \in [Processes -> SUBSET (Routes \X Keys)]
      BY <3>1, <3>2, LocksType DEF TypeOK
    <3>4. pending' \in [Requests -> Outcomes]
      BY <1>5 DEF AskMemory, AskShared, Proceed, Conclude, TypeOK, Outcomes
    <3>5. result' \in [Requests -> Results]
      BY <1>5 DEF AskMemory, AskShared, Return, TypeOK, Results
    <3> QED
      BY <3>3, <3>4, <3>5
  <2>7. /\ pc' \in [Requests -> Places] /\ arg' = arg /\ hash' = hash
        /\ \A q \in Requests : q # r => pc'[q] = pc[q]
    BY <1>5 DEF AskMemory, AskShared, Proceed, Conclude, Return, Goto, TypeOK, Places
  <2>8. TypeOK'
    BY <1>5, <2>3, <2>4, <2>5, <2>6, <2>7 DEF AskMemory, AskShared, TypeOK, files, process
  <2> QED
    BY <2>1, <2>7, <2>8 DEF Carries
<1>6. ASSUME NEW r \in Requests, Answered(r) PROVE Typed'
  <2>1. pc[r] = "answer" /\ Carries(r)
    BY <1>6 DEF Answered
  <2>2. arg[r].proc \in Processes /\ paidLockKey(r) \in Routes \X Keys
    BY <2>1, KeyTypes, ArgFields DEF Carries
  <2>3. /\ locks' \in [Processes -> SUBSET (Routes \X Keys)] /\ pending' \in [Requests -> Outcomes]
    <3>1. \/ locks' = locks
          \/ locks' = [locks EXCEPT ![arg[r].proc] = @ \cup {paidLockKey(r)}]
      BY <1>6 DEF Answered, Proceed
    <3>2. locks' \in [Processes -> SUBSET (Routes \X Keys)]
      BY <2>2, <3>1, LocksType DEF TypeOK
    <3>3. pending' \in [Requests -> Outcomes]
      BY <1>6 DEF Answered, Proceed, Conclude, TypeOK, Outcomes
    <3> QED
      BY <3>2, <3>3
  <2>4. /\ pc' \in [Requests -> Places] /\ arg' = arg /\ hash' = hash
        /\ \A q \in Requests : q # r => pc'[q] = pc[q]
    BY <1>6 DEF Answered, Proceed, Conclude, Goto, TypeOK, Places
  <2>5. TypeOK'
    BY <1>6, <2>3, <2>4 DEF Answered, TypeOK, files, history
  <2> QED
    BY <2>1, <2>4, <2>5 DEF Carries
<1>7. ASSUME NEW r \in Requests, Remember(r) PROVE Typed'
  <2>1. pc[r] = "remember" /\ Carries(r)
    BY <1>7 DEF Remember
  <2>2. /\ store' = [store EXCEPT ![StoreOf(r)] = Put(Evicted(store[StoreOf(r)]), ReplayKey(r))]
        /\ forgotten' \subseteq Requests /\ kept' \subseteq Requests
    BY <1>7 DEF Remember, Become, TypeOK
  <2>3. store' \in [Stores -> Seq([key : Proofs \X Routes \X Nat, expires : Nat])]
    BY <1>4, <2>1, <2>2 DEF TypeOK, Entries, ReplayKeys
  <2>4. /\ pending' \in [Requests -> Outcomes] /\ result' \in [Requests -> Results]
        /\ pc' \in [Requests -> Places] /\ arg' = arg /\ hash' = hash
        /\ \A q \in Requests : q # r => pc'[q] = pc[q]
    <3>1. pending' \in [Requests -> Outcomes] /\ result' \in [Requests -> Results]
      BY <1>7 DEF Remember, Conclude, Throw, TypeOK, Outcomes, Results
    <3>2. pc' = [pc EXCEPT ![r] = "receipt"] \/ pc' = [pc EXCEPT ![r] = "finish"]
      BY <1>7 DEF Remember, Conclude, Throw, Goto
    <3> QED
      BY <1>7, <3>1, <3>2 DEF Remember, TypeOK, Places
  <2>5. TypeOK'
    BY <1>7, <2>2, <2>3, <2>4 DEF Remember, TypeOK, files, process
  <2>6. pc'[r] \in {"receipt", "finish"}
    BY <1>7 DEF Remember, Conclude, Throw, Goto, TypeOK
  <2> QED
    BY <2>1, <2>4, <2>5, <2>6 DEF Carries
<1>8. ASSUME NEW r \in Requests, WriteReceipt(r) PROVE Typed'
  <2>1. pc[r] = "receipt" /\ arg[r] \in Args /\ pending[r] \in Outcomes
    BY <1>8 DEF WriteReceipt, Carries, TypeOK
  <2>2. Receipt(r, pending[r]) \in [request : Requests, decision : Verdicts \cup
                         {"allow", "charge", "deny", "throttle", "review"}, settled : BOOLEAN]
    BY <2>1, ReceiptType
  <2>3. receipts' \subseteq [request : Requests, decision : Verdicts \cup
                         {"allow", "charge", "deny", "throttle", "review"}, settled : BOOLEAN]
    BY <1>8, <2>2 DEF WriteReceipt, TypeOK
  <2>4. pc' = [pc EXCEPT ![r] = "finish"] /\ result' \in [Requests -> Results]
    BY <1>8 DEF WriteReceipt, Goto, Throw, TypeOK, Results
  <2>5. TypeOK'
    BY <1>8, <2>3, <2>4 DEF WriteReceipt, TypeOK, Places, files, process, request, history
  <2> QED
    BY <1>8, <2>1, <2>4, <2>5 DEF WriteReceipt, Carries, TypeOK, request
<1>9. ASSUME NEW r \in Requests, Finish(r) PROVE Typed'
  <2>1. pc[r] = "finish" /\ arg[r].proc \in Processes
    BY <1>9, ArgFields DEF Finish, Carries
  <2>2. paidLockKey(r) \in Routes \X Keys
    BY <1>9, KeyTypes DEF Finish, Carries
  <2>3. locks' \in [Processes -> SUBSET (Routes \X Keys)]
    <3>1. locks' = locks \/ locks' = [locks EXCEPT ![arg[r].proc] = @ \ {paidLockKey(r)}]
      BY <1>9 DEF Finish, Unlock
    <3> QED
      BY <2>1, <2>2, <3>1, LocksType DEF TypeOK
  <2>4. /\ pc' \in [Requests -> Places] /\ result' \in [Requests -> Results]
        /\ \A q \in Requests : q # r => pc'[q] = pc[q]
        /\ pc'[r] \in {"done", "serve"}
    <3>1. pending[r] # "allowed" => pending[r] \in Results
      BY DEF TypeOK, Results
    <3>2. result' \in [Requests -> Results]
      BY <1>9, <3>1 DEF Finish, Return, TypeOK
    <3>3. pc' = [pc EXCEPT ![r] = "done"] \/ pc' = [pc EXCEPT ![r] = "serve"]
      BY <1>9 DEF Finish, Goto, Return
    <3> QED
      BY <3>2, <3>3 DEF TypeOK, Places
  <2>5. TypeOK'
    BY <1>9, <2>3, <2>4 DEF Finish, TypeOK, files, request, history
  <2> QED
    BY <1>9, <2>1, <2>4, <2>5 DEF Finish, Carries, request
<1>10. ASSUME NEW p \in Processes, Crash(p) PROVE Typed'
  <2>1. NoBucket \in [remaining : Nat, resetAt : Nat]
    BY DEF NoBucket
  <2>2. buckets' \in [Processes -> [BucketKeys -> [remaining : Nat, resetAt : Nat]]]
    BY <1>10, <2>1 DEF Crash, TypeOK
  <2>3. store' \in [Stores -> Seq([key : Proofs \X Routes \X Nat, expires : Nat])]
    <3>1. <<>> \in Seq([key : Proofs \X Routes \X Nat, expires : Nat])
      OBVIOUS
    <3> QED
      BY <1>10, <3>1 DEF Crash, TypeOK, Stores
  <2>4. /\ cached' \in [Processes -> Nat \cup {None}]
        /\ locks' \in [Processes -> SUBSET (Routes \X Keys)]
        /\ pc' \in [Requests -> Places] /\ forgotten' \subseteq Requests /\ crashes' \in Nat
        /\ \A q \in Requests : pc'[q] \in {pc[q], "crashed"} /\ (pc[q] = "idle" => pc'[q] = "idle")
    BY <1>10 DEF Crash, TypeOK, Places
  <2>5. TypeOK'
    BY <1>10, <2>2, <2>3, <2>4 DEF Crash, TypeOK, request
  <2> QED
    BY <1>10, <2>4, <2>5 DEF Crash, Carries, request
<1>11. CASE EditPolicy \/ EditStop \/ Tick
  <2>1. TypeOK'
    <3>1. /\ policy' \in Nat /\ stop' \in StopFile /\ edits' \in Nat /\ now' \in Nat
          /\ calm' \in [Requests -> BOOLEAN]
      <4>2. CASE EditPolicy \/ Tick
        BY <4>2 DEF EditPolicy, Tick, TypeOK, history
      <4>3. CASE EditStop
        BY <4>3 DEF EditStop, TypeOK
      <4> QED
        BY <1>11, <4>2, <4>3
    <3> QED
      BY <1>11, <3>1 DEF EditPolicy, EditStop, Tick, TypeOK, process, request, history
  <2>2. arg' = arg /\ hash' = hash /\ pc' = pc
    BY <1>11 DEF EditPolicy, EditStop, Tick, request
  <2> QED
    BY <2>1, <2>2 DEF Carries
<1>12. CASE UNCHANGED vars
  BY <1>12 DEF vars, TypeOK, Carries
<1> QED
  BY <1>1, <1>2, <1>3, <1>5, <1>6, <1>7, <1>8, <1>9, <1>10, <1>11, <1>12 DEF Next, Step

\* TypeOK, for any requests, processes, proofs, keys and options.
THEOREM PaidRouteTyped == Spec => []TypeOK
<1>1. Typed => TypeOK
  BY DEF Typed
<1> QED
  BY <1>1, InitTyped, NextTyped, PTL DEF Spec

-----------------------------------------------------------------------------
\* What steps leave alone.

\* A step of one request leaves the others where they are.
LEMMA Others ==
  ASSUME TypeOK, NEW r \in Requests, Arrive(r) \/ Step(r), NEW q \in Requests, q # r
  PROVE  /\ pc'[q] = pc[q] /\ arg'[q] = arg[q] /\ hash'[q] = hash[q] /\ seen'[q] = seen[q]
         /\ pending'[q] = pending[q] /\ result'[q] = result[q] /\ before'[q] = before[q]
         /\ calm'[q] = calm[q] /\ admitted'[q] = admitted[q]
         /\ (q \in ran' <=> q \in ran) /\ (q \in kept' <=> q \in kept)
<1> USE DEF TypeOK, Goto, Return, Conclude, Throw, files, process, request, history
<1>1. CASE Arrive(r)
  BY <1>1 DEF Arrive
<1>2. CASE HoldPolicy(r) \/ ReadPolicy(r) \/ PolicyUnavailable(r) \/ CachePolicy(r)
  BY <1>2 DEF HoldPolicy, ReadPolicy, PolicyUnavailable, CachePolicy
<1>3. CASE Preempt(r) \/ ReadStop(r)
  BY <1>3 DEF Preempt, ReadStop
<1>4. CASE Decide(r)
  BY <1>4 DEF Decide
<1>5. CASE AskMemory(r) \/ AskShared(r) \/ Answered(r)
  BY <1>5 DEF AskMemory, AskShared, Answered, Proceed
<1>6. CASE Handler(r) \/ Remember(r) \/ RememberFails(r)
  BY <1>6 DEF Handler, Remember, RememberFails
<1>7. CASE WriteReceipt(r) \/ Finish(r) \/ Serve(r)
  BY <1>7 DEF WriteReceipt, Finish, Serve
<1> QED
  BY <1>1, <1>2, <1>3, <1>4, <1>5, <1>6, <1>7 DEF Step

\* Steps of the files and the clock touch no request.
LEMMA Outside ==
  ASSUME EditPolicy \/ EditStop \/ Tick \/ UNCHANGED vars
  PROVE  /\ pc' = pc /\ arg' = arg /\ hash' = hash /\ seen' = seen /\ pending' = pending
         /\ result' = result /\ before' = before /\ admitted' = admitted
         /\ ran' = ran /\ kept' = kept /\ forgotten' = forgotten /\ receipts' = receipts
         /\ store' = store /\ locks' = locks /\ buckets' = buckets /\ crashes' = crashes
  BY DEF EditPolicy, EditStop, Tick, vars, process, request, history

\* A crash moves requests to "crashed" and touches nothing else of them.
LEMMA CrashMoves ==
  ASSUME TypeOK, NEW p \in Processes, Crash(p)
  PROVE  /\ arg' = arg /\ hash' = hash /\ seen' = seen /\ pending' = pending
         /\ result' = result /\ before' = before /\ admitted' = admitted
         /\ ran' = ran /\ kept' = kept /\ receipts' = receipts /\ calm' = calm /\ stop' = stop
         /\ forgotten \subseteq forgotten' /\ now' = now /\ crashes' = crashes + 1
         /\ \A q \in Requests :
              \/ pc'[q] = pc[q] /\ (pc[q] \in {"idle", "done"} \/ arg[q].proc # p)
              \/ pc'[q] = "crashed" /\ pc[q] \notin {"idle", "done"} /\ arg[q].proc = p
  BY DEF Crash, TypeOK, request

\* What a request has, it keeps.
LEMMA Stays ==
  ASSUME TypeOK, [Next]_vars
  PROVE  /\ ran \subseteq ran' /\ kept \subseteq kept' /\ forgotten \subseteq forgotten'
         /\ \A q \in Requests :
              /\ pc[q] # "idle" => pc'[q] # "idle" /\ arg'[q] = arg[q] /\ before'[q] = before[q]
              /\ pc[q] \notin {"idle", "policy"} =>
                   pc'[q] \notin {"idle", "policy"} /\ hash'[q] = hash[q]
<1>1. ASSUME NEW r \in Requests, Arrive(r) \/ Step(r)
      PROVE  /\ ran \subseteq ran' /\ kept \subseteq kept' /\ forgotten \subseteq forgotten'
             /\ pc[r] # "idle" => pc'[r] # "idle" /\ arg'[r] = arg[r] /\ before'[r] = before[r]
             /\ pc[r] \notin {"idle", "policy"} =>
                  pc'[r] \notin {"idle", "policy"} /\ hash'[r] = hash[r]
  <2> USE DEF TypeOK, Goto, Return, Conclude, Throw, files, process, request, history
  <2>1. CASE Arrive(r)
    BY <2>1 DEF Arrive
  <2>2. CASE HoldPolicy(r) \/ ReadPolicy(r) \/ PolicyUnavailable(r) \/ CachePolicy(r)
    BY <2>2 DEF HoldPolicy, ReadPolicy, PolicyUnavailable, CachePolicy
  <2>3. CASE Preempt(r) \/ ReadStop(r)
    BY <2>3 DEF Preempt, ReadStop
  <2>4. CASE Decide(r)
    BY <2>4 DEF Decide
  <2>5. CASE AskMemory(r) \/ AskShared(r) \/ Answered(r)
    BY <2>5 DEF AskMemory, AskShared, Answered, Proceed, Become
  <2>6. CASE Handler(r) \/ Remember(r) \/ RememberFails(r)
    BY <2>6 DEF Handler, Remember, RememberFails, Become
  <2>7. CASE WriteReceipt(r) \/ Finish(r) \/ Serve(r)
    BY <2>7 DEF WriteReceipt, Finish, Serve
  <2> QED
    BY <1>1, <2>1, <2>2, <2>3, <2>4, <2>5, <2>6, <2>7 DEF Step
<1>2. CASE \E r \in Requests : Arrive(r) \/ Step(r)
  BY <1>1, <1>2, Others
<1>3. CASE \E p \in Processes : Crash(p)
  BY <1>3, CrashMoves
<1>4. CASE EditPolicy \/ EditStop \/ Tick \/ UNCHANGED vars
  BY <1>4, Outside
<1> QED
  BY <1>2, <1>3, <1>4 DEF Next

-----------------------------------------------------------------------------
\* The course of a request.

\* What the place of a request tells of what was done for it.
Course(r) ==
  /\ pc[r] \in {"idle", "policy", "cache", "stop", "ask", "answer", "handler", "serve",
                "unchecked"} =>
       r \notin ran /\ result[r] = "none"
  /\ pc[r] = "remember" => r \in ran /\ result[r] = "none"
  /\ pc[r] = "receipt" => result[r] = "none"
  /\ pc[r] = "finish" => result[r] \in {"none", "failed"}
  /\ pc[r] \in {"receipt", "finish"} /\ result[r] = "none" =>
       (r \in ran <=> pending[r] = "fulfilled") /\ (r \in ran => r \in kept)
  /\ r \in kept => r \in ran /\ pc[r] \in {"receipt", "finish", "done", "crashed"}
  /\ ~ Shared /\ Fulfilled(r) /\ pc[r] # "remember" => r \in kept \/ r \in forgotten

CourseInv == \A r \in Requests : Course(r)

\* At first every request is still to come.
LEMMA InitCourse == Init => CourseInv
  BY DEF Init, CourseInv, Course, Fulfilled

\* Each step keeps each request on its course.
LEMMA NextCourse == TypeOK /\ CourseInv /\ [Next]_vars => CourseInv'
<1> SUFFICES ASSUME TypeOK, CourseInv, [Next]_vars PROVE CourseInv'
  OBVIOUS
<1>1. ASSUME NEW r \in Requests, Arrive(r) \/ Step(r) PROVE Course(r)'
  <2> USE DEF TypeOK, Goto, Return, Conclude, Throw, files, process, request, history,
          CourseInv, Course, Fulfilled
  <2>1. CASE Arrive(r)
    BY <2>1 DEF Arrive
  <2>2. CASE HoldPolicy(r) \/ ReadPolicy(r) \/ PolicyUnavailable(r) \/ CachePolicy(r)
    BY <2>2 DEF HoldPolicy, ReadPolicy, PolicyUnavailable, CachePolicy
  <2>3. CASE Preempt(r) \/ ReadStop(r)
    BY <2>3 DEF Preempt, ReadStop
  <2>4. CASE Decide(r)
    BY <2>4, OutcomeType DEF Decide
  <2>5. CASE AskMemory(r) \/ AskShared(r) \/ Answered(r)
    BY <2>5 DEF AskMemory, AskShared, Answered, Proceed
  <2>6. CASE Handler(r)
    BY <2>6 DEF Handler
  <2>7. CASE Remember(r) \/ RememberFails(r)
    BY <2>7 DEF Remember, RememberFails
  <2>8. CASE WriteReceipt(r)
    BY <2>8 DEF WriteReceipt
  <2>9. CASE Finish(r)
    BY <2>9 DEF Finish
  <2>10. CASE Serve(r)
    BY <2>10 DEF Serve
  <2> QED
    BY <1>1, <2>1, <2>2, <2>3, <2>4, <2>5, <2>6, <2>7, <2>8, <2>9, <2>10 DEF Step
<1>2. CASE \E r \in Requests : Arrive(r) \/ Step(r)
  <2>1. PICK r \in Requests : Arrive(r) \/ Step(r)
    BY <1>2
  <2>2. \A q \in Requests : q # r => Course(q)'
    BY <2>1, Others, Stays DEF CourseInv, Course, Fulfilled
  <2> QED
    BY <1>1, <2>1, <2>2 DEF CourseInv
<1>3. ASSUME NEW p \in Processes, Crash(p) PROVE CourseInv'
  <2>1. \A q \in Requests : ~ Shared /\ q \in ran /\ pc'[q] # pc[q] => q \in forgotten'
    BY <1>3, CrashMoves DEF Crash
  <2> QED
    BY <1>3, <2>1, CrashMoves DEF CourseInv, Course, Fulfilled
<1>4. CASE EditPolicy \/ EditStop \/ Tick \/ UNCHANGED vars
  BY <1>4, Outside DEF CourseInv, Course, Fulfilled
<1> QED
  BY <1>2, <1>3, <1>4 DEF Next

-----------------------------------------------------------------------------
\* Receipts.

\* Receipts come from requests past their receipt, and those of fulfilled requests
\* say so.
ReceiptsInv ==
  /\ \A x \in receipts :
       /\ pc[x.request] \in {"finish", "serve", "done", "crashed"}
       /\ x.decision = "charge" /\ x.settled => Fulfilled(x.request) /\ x.request \in kept
       /\ Fulfilled(x.request) => x.settled
  /\ \A r \in Requests :
       /\ pc[r] = "finish" /\ result[r] = "none" /\ pending[r] = "fulfilled" =>
            Receipt(r, "fulfilled") \in receipts
       /\ result[r] = "fulfilled" => Receipt(r, "fulfilled") \in receipts

\* What a receipt states.
LEMMA ReceiptFacts ==
  ASSUME NEW r, NEW o
  PROVE  /\ Receipt(r, o).request = r
         /\ o = "fulfilled" => Receipt(r, o).settled = TRUE
         /\ o \notin {"fulfilled", "allowed"} => Receipt(r, o).settled = FALSE
         /\ o = "allowed" => Receipt(r, o).decision = "allow"
         /\ Receipt(r, "fulfilled") = [request |-> r, decision |-> "charge", settled |-> TRUE]
  BY DEF Receipt, Stated

\* At first there is none.
LEMMA InitReceipts == Init => ReceiptsInv
  BY DEF Init, ReceiptsInv

\* Only WriteReceipt writes one, and no request that has one is fulfilled later.
LEMMA NextReceipts == TypeOK /\ CourseInv /\ ReceiptsInv /\ [Next]_vars => ReceiptsInv'
<1> SUFFICES ASSUME TypeOK, CourseInv, ReceiptsInv, [Next]_vars PROVE ReceiptsInv'
  OBVIOUS
<1>0. \A x \in receipts : x.request \in Requests
  BY DEF TypeOK
<1>1. ASSUME NEW r \in Requests, WriteReceipt(r) PROVE ReceiptsInv'
  <2>1. /\ pc[r] = "receipt" /\ pc' = [pc EXCEPT ![r] = "finish"]
        /\ result[r] = "none" /\ (r \in ran <=> pending[r] = "fulfilled") /\ (r \in ran => r \in kept)
        /\ pending' = pending /\ ran' = ran /\ kept' = kept /\ arg' = arg
    BY <1>1 DEF WriteReceipt, Goto, Throw, CourseInv, Course, request, history
  <2>2. \A q \in Requests : q # r => pc'[q] = pc[q] /\ result'[q] = result[q]
    BY <1>1, Others DEF Step
  <2>3. result'[r] = "none" \/ result'[r] = "failed"
    BY <1>1, <2>1 DEF WriteReceipt, Throw, TypeOK
  <2>4. Fulfilled(r)' <=> r \in ran
    BY <2>1, <2>3 DEF Fulfilled
  <2>5. \A q \in Requests : q # r => (Fulfilled(q)' <=> Fulfilled(q))
    BY <2>1, <2>2 DEF Fulfilled
  <2>6. \A x \in receipts : x.request # r
    BY <2>1 DEF ReceiptsInv
  <2>7. ASSUME NEW x \in receipts
        PROVE  /\ pc'[x.request] \in {"finish", "serve", "done", "crashed"}
               /\ x.decision = "charge" /\ x.settled => Fulfilled(x.request)' /\ x.request \in kept'
               /\ Fulfilled(x.request)' => x.settled
    BY <1>0, <2>1, <2>2, <2>5, <2>6 DEF ReceiptsInv
  <2>8. ASSUME NEW x, x = Receipt(r, pending[r])
        PROVE  /\ pc'[x.request] \in {"finish", "serve", "done", "crashed"}
               /\ x.decision = "charge" /\ x.settled => Fulfilled(x.request)' /\ x.request \in kept'
               /\ Fulfilled(x.request)' => x.settled
    <3>1. /\ x.request = r
          /\ pending[r] = "fulfilled" => x.settled
          /\ pending[r] = "allowed" => x.decision = "allow"
          /\ pending[r] \notin {"fulfilled", "allowed"} => ~ x.settled
      BY ZenonT(40), <2>8, ReceiptFacts
    <3>2. pc'[r] = "finish"
      BY <2>1 DEF TypeOK
    <3> QED
      BY <2>1, <2>4, <3>1, <3>2
  <2>9. \/ receipts' = receipts \cup {Receipt(r, pending[r])}
        \/ receipts' = receipts /\ result'[r] = "failed"
    BY <1>1 DEF WriteReceipt, Throw, TypeOK
  <2>10. \A x \in receipts' :
           /\ pc'[x.request] \in {"finish", "serve", "done", "crashed"}
           /\ x.decision = "charge" /\ x.settled => Fulfilled(x.request)' /\ x.request \in kept'
           /\ Fulfilled(x.request)' => x.settled
    BY <2>7, <2>8, <2>9
  <2>11. \A q \in Requests : Receipt(q, "fulfilled")' = Receipt(q, "fulfilled")
    BY ReceiptFacts DEF Receipt, Stated
  <2>12. \A q \in Requests :
           /\ pc'[q] = "finish" /\ result'[q] = "none" /\ pending'[q] = "fulfilled" =>
                Receipt(q, "fulfilled") \in receipts'
           /\ result'[q] = "fulfilled" => Receipt(q, "fulfilled") \in receipts'
    BY <2>1, <2>2, <2>3, <2>9 DEF ReceiptsInv
  <2> QED
    BY <2>10, <2>11, <2>12 DEF ReceiptsInv
<1>2. ASSUME receipts' = receipts,
             \A q \in Requests : pc[q] \in {"finish", "serve", "done", "crashed"} =>
               /\ pc'[q] \in {"finish", "serve", "done", "crashed"}
               /\ (Fulfilled(q)' <=> Fulfilled(q)),
             \A q \in Requests :
               /\ pc'[q] = "finish" /\ result'[q] = "none" =>
                    pc[q] = "finish" /\ result[q] = "none" /\ pending'[q] = pending[q]
               /\ result'[q] = "fulfilled" =>
                    \/ result[q] = "fulfilled"
                    \/ pc[q] = "finish" /\ result[q] = "none" /\ pending[q] = "fulfilled"
      PROVE  ReceiptsInv'
  <2>1. kept \subseteq kept'
    BY Stays
  <2>2. \A q \in Requests : Receipt(q, "fulfilled")' = Receipt(q, "fulfilled")
    BY DEF Receipt, Stated
  <2> QED
    BY <1>0, <1>2, <2>1, <2>2 DEF ReceiptsInv
<1>3. ASSUME NEW r \in Requests, Arrive(r) \/ Step(r), ~ WriteReceipt(r) PROVE ReceiptsInv'
  <2>1. receipts' = receipts
    BY <1>3 DEF Arrive, Step, HoldPolicy, ReadPolicy, PolicyUnavailable, CachePolicy, Preempt,
       ReadStop, Decide, AskMemory, AskShared, Answered, Handler, Remember, RememberFails, Finish, Serve
  <2>2. /\ pc[r] \in {"finish", "serve", "done", "crashed"} =>
             pc'[r] \in {"finish", "serve", "done", "crashed"} /\ (Fulfilled(r)' <=> Fulfilled(r))
        /\ pc'[r] = "finish" => result'[r] # "none"
        /\ result'[r] = "fulfilled" => pc[r] = "finish" /\ result[r] = "none" /\ pending[r] = "fulfilled"
    <3> USE DEF TypeOK, Goto, Return, Conclude, Throw, files, process, request, history,
            CourseInv, Course, Fulfilled
    <3>1. CASE Arrive(r)
      BY <3>1 DEF Arrive
    <3>2. CASE HoldPolicy(r) \/ ReadPolicy(r) \/ PolicyUnavailable(r) \/ CachePolicy(r)
      BY <3>2 DEF HoldPolicy, ReadPolicy, PolicyUnavailable, CachePolicy
    <3>3. CASE Preempt(r) \/ ReadStop(r) \/ Decide(r)
      BY <3>3 DEF Preempt, ReadStop, Decide
    <3>4. CASE AskMemory(r) \/ AskShared(r) \/ Answered(r)
      BY <3>4 DEF AskMemory, AskShared, Answered, Proceed
    <3>5. CASE Handler(r) \/ Remember(r) \/ RememberFails(r)
      BY <3>5 DEF Handler, Remember, RememberFails
    <3>6. CASE Finish(r)
      BY <3>6 DEF Finish
    <3>7. CASE Serve(r)
      BY <3>7 DEF Serve
    <3> QED
      BY <1>3, <3>1, <3>2, <3>3, <3>4, <3>5, <3>6, <3>7 DEF Step
  <2>3. \A q \in Requests : q # r =>
          pc'[q] = pc[q] /\ result'[q] = result[q] /\ pending'[q] = pending[q]
          /\ (Fulfilled(q)' <=> Fulfilled(q))
    BY <1>3, Others DEF Fulfilled
  <2> QED
    BY <1>2, <2>1, <2>2, <2>3
<1>4. ASSUME NEW p \in Processes, Crash(p) PROVE ReceiptsInv'
  BY <1>2, <1>4, CrashMoves DEF Fulfilled
<1>5. CASE EditPolicy \/ EditStop \/ Tick \/ UNCHANGED vars
  BY <1>2, <1>5, Outside DEF Fulfilled
<1> QED
  BY <1>1, <1>3, <1>4, <1>5 DEF Next, Step

\* ReceiptsTellTheTruth, whatever throws and whatever crashes.
THEOREM ReceiptsAlwaysTrue == Spec => []ReceiptsTellTheTruth
<1>1. ReceiptsInv => ReceiptsTellTheTruth
  BY DEF ReceiptsInv, ReceiptsTellTheTruth
<1> QED
  BY <1>1, PaidRouteTyped, InitCourse, NextCourse, InitReceipts, NextReceipts, PTL DEF Spec

-----------------------------------------------------------------------------
\* The locks.

\* The requests that have a lock of process p.
Inside(p) == {r \in Requests : Locked(r) /\ arg[r].proc = p}

\* A lock is there exactly if a request inside has its key, and no two have one.
LocksInv ==
  \A p \in Processes :
    /\ \A k : k \in locks[p] <=> \E r \in Inside(p) : k = paidLockKey(r)
    /\ \A r, s \in Inside(p) : paidLockKey(r) = paidLockKey(s) => r = s

\* At first there is no lock.
LEMMA InitLocks == Init => LocksInv
  BY DEF Init, LocksInv, Inside, Locked

\* A request that has come to a lock keeps its key.
LEMMA LockKeyStays ==
  ASSUME TypeOK, [Next]_vars
  PROVE  \A q \in Requests : pc[q] # "idle" => paidLockKey(q)' = paidLockKey(q)
  BY Stays DEF paidLockKey, idempotencyKey

\* Steps that take and give no lock.
LEMMA LocksAlone ==
  ASSUME LocksInv, TypeOK, [Next]_vars, locks' = locks,
         \A q \in Requests : Locked(q)' <=> Locked(q)
  PROVE  LocksInv'
<1>1. \A q \in Requests : Locked(q) => arg'[q] = arg[q] /\ paidLockKey(q)' = paidLockKey(q)
  BY Stays, LockKeyStays DEF Locked
<1>2. \A p \in Processes : Inside(p)' = Inside(p)
  BY <1>1 DEF Inside
<1>3. \A p \in Processes : \A q \in Inside(p) : q \in Requests /\ Locked(q)
  BY DEF Inside
<1> QED
  BY <1>1, <1>2, <1>3 DEF LocksInv

\* From the answer of the store to the lock.
LEMMA LocksTaken ==
  ASSUME LocksInv, Typed, CourseInv, [Next]_vars, NEW r \in Requests,
         pc[r] \in {"ask", "answer"}, AskMemory(r) \/ Answered(r), NEW replayed, Proceed(r, replayed)
  PROVE  LocksInv'
<1>1. r \notin ran /\ ~ Locked(r) /\ arg[r].proc \in Processes
  BY ArgFields DEF CourseInv, Course, Locked, Typed, Carries
<1>2. /\ ran' = ran /\ arg' = arg /\ hash' = hash
      /\ \A q \in Requests : q # r => pc'[q] = pc[q]
  BY Others DEF AskMemory, Answered, Step, Typed, history
<1>3. \A q \in Requests : q # r => (Locked(q)' <=> Locked(q))
  BY <1>2 DEF Locked
<1>4. CASE locks' = locks /\ pc'[r] = "receipt"
  BY <1>1, <1>2, <1>3, <1>4, LocksAlone DEF Locked, Typed
<1>5. CASE /\ paidLockKey(r) \notin locks[arg[r].proc]
           /\ locks' = [locks EXCEPT ![arg[r].proc] = @ \cup {paidLockKey(r)}]
           /\ pc'[r] = "handler"
  <2>1. Locked(r)'
    BY <1>5 DEF Locked
  <2>2. \A q \in Requests : paidLockKey(q)' = paidLockKey(q)
    BY <1>2 DEF paidLockKey, idempotencyKey
  <2>3. \A p \in Processes :
          Inside(p)' = IF p = arg[r].proc THEN Inside(p) \cup {r} ELSE Inside(p)
    BY <1>1, <1>2, <1>3, <2>1 DEF Inside
  <2>4. \A p \in Processes :
          locks'[p] = IF p = arg[r].proc THEN locks[p] \cup {paidLockKey(r)} ELSE locks[p]
    BY <1>5 DEF Typed, TypeOK
  <2>5. \A p \in Processes : \A q \in Inside(p) : q \in Requests /\ paidLockKey(q) \in locks[p]
    BY DEF LocksInv, Inside
  <2> QED
    BY <1>1, <1>5, <2>2, <2>3, <2>4, <2>5 DEF LocksInv
<1>6. \/ locks' = locks /\ pc'[r] = "receipt"
      \/ /\ paidLockKey(r) \notin locks[arg[r].proc]
         /\ locks' = [locks EXCEPT ![arg[r].proc] = @ \cup {paidLockKey(r)}]
         /\ pc'[r] = "handler"
  BY DEF Proceed, Conclude, Goto, Typed, TypeOK
<1> QED
  BY <1>4, <1>5, <1>6

\* The lock goes with its request, and with nothing else.
LEMMA LocksGiven ==
  ASSUME LocksInv, Typed, CourseInv, [Next]_vars, NEW r \in Requests, Finish(r)
  PROVE  LocksInv'
<1>1. /\ pc[r] = "finish" /\ arg[r].proc \in Processes /\ pc'[r] \in {"done", "serve"}
      /\ ran' = ran /\ arg' = arg
  BY ArgFields DEF Finish, Typed, TypeOK, Carries, Goto, Return, request, history
<1>2. \A q \in Requests : q # r => pc'[q] = pc[q]
  BY Others DEF Typed, Step
<1>3. ~ Locked(r)' /\ \A q \in Requests : q # r => (Locked(q)' <=> Locked(q))
  BY <1>1, <1>2 DEF Locked
<1>4. CASE ~ Locked(r)
  BY <1>3, <1>4, LocksAlone DEF Finish, Typed
<1>5. CASE Locked(r)
  <2>1. locks' = [locks EXCEPT ![arg[r].proc] = @ \ {paidLockKey(r)}]
    BY <1>5 DEF Finish, Unlock
  <2>2. \A q \in Requests : paidLockKey(q)' = paidLockKey(q)
    BY <1>1 DEF paidLockKey, idempotencyKey
  <2>3. \A p \in Processes :
          Inside(p)' = IF p = arg[r].proc THEN Inside(p) \ {r} ELSE Inside(p)
    BY <1>1, <1>3 DEF Inside
  <2>4. \A p \in Processes :
          locks'[p] = IF p = arg[r].proc THEN locks[p] \ {paidLockKey(r)} ELSE locks[p]
    BY <2>1 DEF Typed, TypeOK
  <2>5. r \in Inside(arg[r].proc) /\ \A p \in Processes : \A q \in Inside(p) : q \in Requests
    BY <1>5 DEF Inside
  <2>6. \A q \in Inside(arg[r].proc) : q # r => paidLockKey(q) # paidLockKey(r)
    BY <1>1, <2>5 DEF LocksInv
  <2>7. ASSUME NEW p \in Processes
        PROVE  /\ \A k : k \in locks'[p] <=> \E q \in Inside(p)' : k = paidLockKey(q)
               /\ \A q, s \in Inside(p)' : paidLockKey(q) = paidLockKey(s) => q = s
    <3>1. CASE p = arg[r].proc
      <4>1. Inside(p)' = Inside(p) \ {r} /\ locks'[p] = locks[p] \ {paidLockKey(r)}
        BY <1>1, <1>3, <2>4, <3>1 DEF Inside
      <4> QED
        BY <2>5, <2>6, <3>1, <4>1 DEF LocksInv
    <3>2. CASE p # arg[r].proc
      <4>1. Inside(p)' = Inside(p) /\ locks'[p] = locks[p]
        BY <1>1, <1>3, <2>4, <3>2 DEF Inside
      <4> QED
        BY <4>1 DEF LocksInv
    <3> QED
      BY <3>1, <3>2
  <2>8. \A p \in Processes : \A q \in Inside(p)' : paidLockKey(q)' = paidLockKey(q)
    BY <2>2, <2>3, <2>5
  <2> QED
    BY <2>7, <2>8 DEF LocksInv
<1> QED
  BY <1>4, <1>5

\* Each step keeps the locks exact.
LEMMA NextLocks == Typed /\ CourseInv /\ LocksInv /\ [Next]_vars => LocksInv'
<1> SUFFICES ASSUME Typed, CourseInv, LocksInv, [Next]_vars PROVE LocksInv'
  OBVIOUS
<1>1. ASSUME NEW r \in Requests, AskMemory(r) \/ Answered(r) PROVE LocksInv'
  BY <1>1, LocksTaken DEF AskMemory, Answered
<1>2. ASSUME NEW r \in Requests, Finish(r) PROVE LocksInv'
  BY <1>2, LocksGiven
<1>3. ASSUME NEW r \in Requests, Arrive(r) \/ Step(r),
             ~ AskMemory(r), ~ Answered(r), ~ Finish(r)
      PROVE  LocksInv'
  <2>1. locks' = locks
    BY <1>3 DEF Arrive, Step, HoldPolicy, ReadPolicy, PolicyUnavailable, CachePolicy, Preempt,
       ReadStop, Decide, AskShared, Handler, Remember, RememberFails, WriteReceipt, Serve, process
  <2>2. Locked(r)' <=> Locked(r)
    <3> USE DEF Typed, TypeOK, Goto, Return, Conclude, Throw, files, process, request, history,
            CourseInv, Course, Locked
    <3>1. CASE Arrive(r)
      BY <3>1 DEF Arrive
    <3>2. CASE HoldPolicy(r) \/ ReadPolicy(r) \/ PolicyUnavailable(r) \/ CachePolicy(r)
      BY <3>2 DEF HoldPolicy, ReadPolicy, PolicyUnavailable, CachePolicy
    <3>3. CASE Preempt(r) \/ ReadStop(r)
      BY <3>3 DEF Preempt, ReadStop
    <3>4. CASE Decide(r)
      BY <3>4 DEF Decide
    <3>5. CASE AskShared(r)
      BY <3>5 DEF AskShared
    <3>6. CASE Handler(r)
      BY <3>6 DEF Handler
    <3>7. CASE Remember(r) \/ RememberFails(r)
      BY <3>7 DEF Remember, RememberFails
    <3>8. CASE WriteReceipt(r)
      BY <3>8 DEF WriteReceipt
    <3>9. CASE Serve(r)
      BY <3>9 DEF Serve
    <3> QED
      BY <1>3, <3>1, <3>2, <3>3, <3>4, <3>5, <3>6, <3>7, <3>8, <3>9 DEF Step
  <2>3. \A q \in Requests : q # r => (Locked(q)' <=> Locked(q))
    BY <1>3, Others DEF Locked, Typed
  <2> QED
    BY <2>1, <2>2, <2>3, LocksAlone DEF Typed
<1>4. ASSUME NEW p \in Processes, Crash(p) PROVE LocksInv'
  <2>1. /\ locks' = [locks EXCEPT ![p] = {}] /\ arg' = arg /\ ran' = ran
    BY <1>4 DEF Crash, request
  <2>2. \A q \in Requests : paidLockKey(q)' = paidLockKey(q)
    BY <2>1 DEF paidLockKey, idempotencyKey
  <2>3. \A q \in Requests : Locked(q)' <=> Locked(q) /\ arg[q].proc # p
    BY <1>4, CrashMoves DEF Locked, Typed
  <2>4. \A o \in Processes : Inside(o)' = IF o = p THEN {} ELSE Inside(o)
    BY <2>1, <2>3 DEF Inside
  <2>5. \A o \in Processes : locks'[o] = IF o = p THEN {} ELSE locks[o]
    BY <2>1 DEF Typed, TypeOK
  <2>6. \A o \in Processes : \A q \in Inside(o) : q \in Requests
    BY DEF Inside
  <2> QED
    BY <2>2, <2>4, <2>5, <2>6 DEF LocksInv
<1>5. CASE EditPolicy \/ EditStop \/ Tick \/ UNCHANGED vars
  BY <1>5, Outside, LocksAlone DEF Locked, Typed
<1> QED
  BY <1>1, <1>2, <1>3, <1>4, <1>5 DEF Next, Step

\* LocksExact, for any number of requests and crashes.
THEOREM LocksAlwaysExact == Spec => []LocksExact
<1>1. Typed => TypeOK
  BY DEF Typed
<1>2. LocksInv => LocksExact
  BY DEF LocksInv, LocksExact, Inside
<1> QED
  BY <1>1, <1>2, InitTyped, NextTyped, InitCourse, NextCourse, InitLocks, NextLocks, PTL DEF Spec

-----------------------------------------------------------------------------
\* The stop signal.

\* Whoever came past the stop file saw it not in force.
CalmInv ==
  \A r \in Requests :
    /\ pc[r] # "idle" /\ stop # "on" => calm[r]
    /\ pc[r] \in {"ask", "answer", "handler", "remember", "receipt", "finish", "serve"} => calm[r]
    /\ r \in ran => result[r] = "served_unchecked" \/ calm[r]

\* At first nothing has arrived.
LEMMA InitCalm == Init => CalmInv
  BY DEF Init, CalmInv

\* Only Decide comes past the stop file, and only when it is not in force.
LEMMA NextCalm == TypeOK /\ CourseInv /\ CalmInv /\ [Next]_vars => CalmInv'
<1> SUFFICES ASSUME TypeOK, CourseInv, CalmInv, [Next]_vars PROVE CalmInv'
  OBVIOUS
<1> DEFINE Calm(r) == /\ pc[r] # "idle" /\ stop # "on" => calm[r]
                      /\ pc[r] \in {"ask", "answer", "handler", "remember", "receipt", "finish",
                                    "serve"} => calm[r]
                      /\ r \in ran => result[r] = "served_unchecked" \/ calm[r]
<1>1. ASSUME NEW r \in Requests, Arrive(r) \/ Step(r) PROVE CalmInv'
  <2>1. stop' = stop
    BY <1>1 DEF Arrive, Step, HoldPolicy, ReadPolicy, PolicyUnavailable, CachePolicy, Preempt,
       ReadStop, Decide, AskMemory, AskShared, Answered, Handler, Remember, RememberFails,
       WriteReceipt, Finish, Serve, files
  <2>2. Calm(r)'
    <3> USE DEF TypeOK, Goto, Return, Conclude, Throw, files, process, request, history,
            CourseInv, Course, CalmInv
    <3>1. CASE Arrive(r)
      BY <3>1 DEF Arrive
    <3>2. CASE HoldPolicy(r) \/ ReadPolicy(r) \/ PolicyUnavailable(r) \/ CachePolicy(r)
      BY <3>2 DEF HoldPolicy, ReadPolicy, PolicyUnavailable, CachePolicy
    <3>3. CASE Preempt(r) \/ ReadStop(r)
      BY <3>3 DEF Preempt, ReadStop
    <3>4. CASE Decide(r)
      BY <3>4 DEF Decide, Halts
    <3>5. CASE AskMemory(r) \/ AskShared(r) \/ Answered(r)
      BY <3>5 DEF AskMemory, AskShared, Answered, Proceed
    <3>6. CASE Handler(r) \/ Remember(r) \/ RememberFails(r)
      BY <3>6 DEF Handler, Remember, RememberFails
    <3>7. CASE WriteReceipt(r) \/ Finish(r)
      BY <3>7 DEF WriteReceipt, Finish
    <3>8. CASE Serve(r)
      BY <3>8 DEF Serve
    <3> QED
      BY <1>1, <3>1, <3>2, <3>3, <3>4, <3>5, <3>6, <3>7, <3>8 DEF Step
  <2>3. \A q \in Requests : q # r => Calm(q)'
    BY <1>1, <2>1, Others DEF CalmInv
  <2> QED
    BY <2>2, <2>3 DEF CalmInv
<1>2. ASSUME NEW p \in Processes, Crash(p) PROVE CalmInv'
  BY <1>2, CrashMoves DEF CalmInv
<1>3. CASE EditStop
  BY <1>3, Outside DEF EditStop, CalmInv, TypeOK
<1>4. CASE EditPolicy \/ Tick \/ UNCHANGED vars
  <2>1. stop' = stop /\ calm' = calm
    BY <1>4 DEF EditPolicy, Tick, vars, history
  <2> QED
    BY <1>4, <2>1, Outside DEF CalmInv
<1> QED
  BY <1>1, <1>2, <1>3, <1>4 DEF Next

\* StopHonoured, whenever the stop file changes.
THEOREM StopAlwaysHonoured == Spec => []StopHonoured
<1>1. TypeOK /\ CalmInv => StopHonoured
  BY DEF CalmInv, StopHonoured, TypeOK
<1> QED
  BY <1>1, PaidRouteTyped, InitCourse, NextCourse, InitCalm, NextCalm, PTL DEF Spec

-----------------------------------------------------------------------------
\* Replays.

\* The handler is about to run for a payment, or has.
Paying(r) == pc[r] = "handler" \/ Fulfilled(r)

\* Whatever was in the store when a request arrived has been forgotten once the
\* request is past the question to the store.
BeforeInv ==
  \A r, s \in Requests :
    /\ s \in before[r] => s \in kept
    /\ Paying(r) \/ (pc[r] = "answer" /\ ~ seen[r]) =>
         (s \in before[r] /\ SamePayment(r, s) /\ StoreOf(r) = StoreOf(s) => s \in forgotten)

\* Two requests that pay the same under one key, in one process with a memory store.
OnceInv ==
  \A r, s \in Requests :
    /\ r # s /\ ~ Shared /\ Paying(r) /\ Paying(s) /\ SamePayment(r, s)
    /\ arg[r].proc = arg[s].proc /\ idempotencyKey(r) = idempotencyKey(s)
    => r \in forgotten \/ s \in forgotten

\* The store has answered r that its proof is new.
Past(r) == Paying(r) \/ (pc[r] = "answer" /\ ~ seen[r])

\* The store answers r so now, and forgets what it has dropped.
AnsweredNew(r) ==
  /\ pc[r] = "ask"
  /\ \E s : Become(r, s) /\ ~ Contains(s, ReplayKey(r))
  /\ arg' = arg /\ hash' = hash /\ before' = before

\* What has come past the store goes on from the policy, with what it carries.
LEMMA PastStays ==
  ASSUME TypeOK, CourseInv, [Next]_vars
  PROVE  \A q \in Requests : Past(q) \/ q \in kept =>
           /\ arg'[q] = arg[q] /\ hash'[q] = hash[q] /\ before'[q] = before[q]
           /\ StoreOf(q)' = StoreOf(q) /\ ReplayKey(q)' = ReplayKey(q)
<1>1. \A q \in Requests : Past(q) \/ q \in kept => pc[q] \notin {"idle", "policy"}
  BY DEF Past, Paying, Fulfilled, CourseInv, Course
<1> QED
  BY <1>1, Stays DEF StoreOf, ReplayKey

\* A request comes past the store only by its answer; it pays only past the store.
LEMMA PastSteps ==
  ASSUME TypeOK, CourseInv, [Next]_vars, NEW r \in Requests
  PROVE  /\ Past(r)' => Past(r) \/ AnsweredNew(r)
         /\ Paying(r)' => Past(r) \/ AskMemory(r)
<1>1. CASE Arrive(r) \/ Step(r)
  <2> USE DEF TypeOK, Goto, Return, Conclude, Throw, files, process, request, history,
          CourseInv, Course, Past, Paying, Fulfilled
  <2>1. CASE Arrive(r)
    BY <2>1 DEF Arrive
  <2>2. CASE HoldPolicy(r) \/ ReadPolicy(r) \/ PolicyUnavailable(r) \/ CachePolicy(r)
    BY <2>2 DEF HoldPolicy, ReadPolicy, PolicyUnavailable, CachePolicy
  <2>3. CASE Preempt(r) \/ ReadStop(r)
    BY <2>3 DEF Preempt, ReadStop
  <2>4. CASE Decide(r)
    BY <2>4 DEF Decide
  <2>5. CASE AskMemory(r) \/ AskShared(r)
    BY <2>5 DEF AskMemory, AskShared, Proceed, AnsweredNew
  <2>6. CASE Answered(r)
    BY <2>6 DEF Answered, Proceed
  <2>7. CASE Handler(r) \/ Remember(r) \/ RememberFails(r)
    BY <2>7 DEF Handler, Remember, RememberFails
  <2>8. CASE WriteReceipt(r) \/ Finish(r)
    BY <2>8 DEF WriteReceipt, Finish
  <2>9. CASE Serve(r)
    BY <2>9 DEF Serve
  <2> QED
    BY <1>1, <2>1, <2>2, <2>3, <2>4, <2>5, <2>6, <2>7, <2>8, <2>9 DEF Step
<1>2. CASE \E q \in Requests : q # r /\ (Arrive(q) \/ Step(q))
  BY <1>2, Others DEF Past, Paying, Fulfilled
<1>3. CASE \E p \in Processes : Crash(p)
  BY <1>3, CrashMoves DEF Past, Paying, Fulfilled
<1>4. CASE EditPolicy \/ EditStop \/ Tick \/ UNCHANGED vars
  BY <1>4, Outside DEF Past, Paying, Fulfilled
<1> QED
  BY <1>1, <1>2, <1>3, <1>4 DEF Next

\* At first nothing has arrived.
LEMMA InitBefore == Init => BeforeInv /\ OnceInv
  BY DEF Init, BeforeInv, OnceInv, Paying, Fulfilled

\* Whoever finds its proof new finds those before it forgotten.
LEMMA NextBefore == TypeOK /\ CourseInv /\ BeforeInv /\ [Next]_vars => BeforeInv'
<1> SUFFICES ASSUME TypeOK, CourseInv, BeforeInv, [Next]_vars,
                    NEW r \in Requests, NEW s \in Requests
             PROVE  /\ s \in before'[r] => s \in kept'
                    /\ Past(r)' /\ s \in before'[r] /\ SamePayment(r, s)' /\ (StoreOf(r) = StoreOf(s))'
                         => s \in forgotten'
  BY DEF BeforeInv, Past
<1>1. s \in before'[r] => s \in kept'
  <2>1. CASE before'[r] = before[r]
    BY <2>1, Stays DEF BeforeInv
  <2>2. CASE Arrive(r)
    BY <2>2, Stays DEF Arrive, TypeOK
  <2>3. before'[r] = before[r] \/ Arrive(r)
    <3>1. CASE Step(r)
      BY <3>1 DEF Step, HoldPolicy, ReadPolicy, PolicyUnavailable, CachePolicy, Preempt, ReadStop,
         Decide, AskMemory, AskShared, Answered, Handler, Remember, RememberFails, WriteReceipt,
         Finish, Serve, history
    <3> QED
      BY <3>1, Others, CrashMoves, Outside DEF Next
  <2> QED
    BY <2>1, <2>2, <2>3
<1>2. ASSUME Past(r)', s \in before'[r], SamePayment(r, s)', (StoreOf(r) = StoreOf(s))'
      PROVE  s \in forgotten'
  <2>1. CASE Past(r)
    <3>1. s \in before[r] /\ s \in kept
      BY <1>2, <2>1, PastStays DEF BeforeInv
    <3>2. SamePayment(r, s) /\ StoreOf(r) = StoreOf(s)
      BY <1>2, <2>1, <3>1, PastStays DEF SamePayment
    <3> QED
      BY <2>1, <3>1, <3>2, Stays DEF BeforeInv, Past
  <2>2. CASE AnsweredNew(r)
    <3>1. s \in before[r] /\ s \in kept
      BY <1>2, <2>2 DEF AnsweredNew, BeforeInv
    <3>2. StoreOf(r) = StoreOf(s) /\ ReplayKey(s) = ReplayKey(r)
      BY <1>2, <2>2 DEF AnsweredNew, SamePayment, StoreOf, ReplayKey
    <3> QED
      BY <2>2, <3>1, <3>2 DEF AnsweredNew, Become
  <2> QED
    BY <1>2, <2>1, <2>2, PastSteps
<1> QED
  BY <1>1, <1>2

\* ReplayRejected, for any store and any number of processes.
THEOREM ReplayAlwaysRejected == Spec => []ReplayRejected
<1>1. BeforeInv => ReplayRejected
  BY DEF BeforeInv, ReplayRejected, Paying
<1> QED
  BY <1>1, PaidRouteTyped, InitCourse, NextCourse, InitBefore, NextBefore, PTL DEF Spec

\* Nobody waits for the answer of a store that answers at once.
AtOnce == ~ Shared => \A q \in Requests : pc[q] # "answer"

\* Only AskShared leaves a request waiting for it.
LEMMA NextAtOnce == TypeOK /\ AtOnce /\ [Next]_vars => AtOnce'
<1> SUFFICES ASSUME TypeOK, AtOnce, [Next]_vars, ~ Shared, NEW r \in Requests
             PROVE  pc'[r] # "answer"
  BY DEF AtOnce
<1>1. CASE Arrive(r) \/ Step(r)
  BY <1>1 DEF Arrive, Step, HoldPolicy, ReadPolicy, PolicyUnavailable, CachePolicy, Preempt,
     ReadStop, Decide, AskMemory, AskShared, Answered, Handler, Remember, RememberFails, WriteReceipt,
     Finish, Serve, Proceed, Goto, Return, Conclude, Throw, AtOnce, TypeOK
<1>2. CASE \E q \in Requests : q # r /\ (Arrive(q) \/ Step(q))
  BY <1>2, Others DEF AtOnce
<1>3. CASE \E p \in Processes : Crash(p)
  BY <1>3, CrashMoves DEF AtOnce
<1>4. CASE EditPolicy \/ EditStop \/ Tick \/ UNCHANGED vars
  BY <1>4, Outside DEF AtOnce
<1> QED
  BY <1>1, <1>2, <1>3, <1>4 DEF Next

\* A request that asks while another with its key is under way is turned away; once
\* the other is done, its proof is in the store, or forgotten.
LEMMA Turned ==
  ASSUME Typed, CourseInv, LocksInv, AtOnce, ~ Shared, NEW r \in Requests, AskMemory(r),
         pc'[r] = "handler", NEW s \in Requests, r # s, Paying(s), SamePayment(r, s),
         arg[r].proc = arg[s].proc, idempotencyKey(r) = idempotencyKey(s)
  PROVE  s \in forgotten'
<1>1. pc[r] = "ask" /\ StoreOf(r) = StoreOf(s) /\ ReplayKey(r) = ReplayKey(s)
      /\ paidLockKey(r) = paidLockKey(s)
  BY DEF AskMemory, SamePayment, StoreOf, ReplayKey, paidLockKey
<1>2. PICK t : Become(r, t) /\ ~ Contains(t, ReplayKey(r)) /\ paidLockKey(r) \notin locks[arg[r].proc]
  BY <1>1 DEF AskMemory, Proceed, Conclude, Goto, Typed, TypeOK
<1>3. ~ Locked(s)
  <2>1. arg[s].proc \in Processes
    BY ArgFields DEF Typed, Carries, Paying, Fulfilled, CourseInv, Course
  <2> QED
    BY <1>1, <1>2, <2>1 DEF LocksInv, Inside
<1>4. Fulfilled(s) /\ pc[s] # "remember"
  BY <1>3 DEF Paying, Locked
<1>5. s \in kept \/ s \in forgotten
  BY <1>4 DEF CourseInv, Course
<1> QED
  BY <1>1, <1>2, <1>5 DEF Become

\* Of two requests under one key, at most one that is not forgotten pays.
LEMMA NextOnce ==
  Typed /\ CourseInv /\ LocksInv /\ AtOnce /\ OnceInv /\ [Next]_vars => OnceInv'
<1> SUFFICES ASSUME Typed, CourseInv, LocksInv, AtOnce, OnceInv, [Next]_vars,
                    NEW r \in Requests, NEW s \in Requests, r # s, ~ Shared,
                    Paying(r)', Paying(s)', SamePayment(r, s)', arg'[r].proc = arg'[s].proc,
                    (idempotencyKey(r) = idempotencyKey(s))'
             PROVE  r \in forgotten' \/ s \in forgotten'
  BY DEF OnceInv
<1>1. TypeOK
  BY DEF Typed
<1>2. \A q \in Requests : Paying(q)' =>
        /\ Paying(q) \/ AskMemory(q)
        /\ arg'[q] = arg[q] /\ hash'[q] = hash[q] /\ idempotencyKey(q)' = idempotencyKey(q)
  <2> TAKE q \in Requests
  <2> HAVE Paying(q)'
  <2>1. Paying(q) \/ AskMemory(q)
    BY <1>1, PastSteps DEF Past, AtOnce
  <2>2. pc[q] \notin {"idle", "policy"}
    BY <2>1 DEF Paying, AskMemory, Fulfilled, CourseInv, Course
  <2> QED
    BY <1>1, <2>1, <2>2, Stays DEF idempotencyKey
<1>3. /\ SamePayment(r, s) /\ arg[r].proc = arg[s].proc
      /\ idempotencyKey(r) = idempotencyKey(s)
  BY <1>2 DEF SamePayment
<1>4. CASE Paying(r) /\ Paying(s)
  BY <1>1, <1>3, <1>4, Stays DEF OnceInv
<1>5. ASSUME NEW q \in Requests, AskMemory(q), ~ Paying(q), Paying(q)'
      PROVE  pc'[q] = "handler" /\ \A o \in Requests : o # q /\ Paying(o)' => Paying(o)
  <2>1. ran' = ran /\ pc[q] = "ask" /\ result' = result
    BY <1>5 DEF AskMemory
  <2>2. \A o \in Requests : o # q => pc'[o] = pc[o]
    BY <1>1, <1>5, Others DEF Step
  <2> QED
    BY <1>5, <2>1, <2>2 DEF Paying, Fulfilled
<1>6. CASE ~ Paying(r)
  <2>1. AskMemory(r) /\ pc'[r] = "handler" /\ Paying(s)
    BY <1>2, <1>5, <1>6
  <2> QED
    BY <1>3, <2>1, Turned
<1>7. CASE ~ Paying(s)
  <2>1. AskMemory(s) /\ pc'[s] = "handler" /\ Paying(r)
    BY <1>2, <1>5, <1>7
  <2>2. /\ SamePayment(s, r) /\ arg[s].proc = arg[r].proc
        /\ idempotencyKey(s) = idempotencyKey(r)
    BY <1>3 DEF SamePayment
  <2> QED
    BY <2>1, <2>2, Turned
<1> QED
  BY <1>4, <1>6, <1>7

\* OnceUnderOneKey, however the requests of a process overlap.
THEOREM AlwaysOnceUnderOneKey == Spec => []OnceUnderOneKey
<1>1. Typed => TypeOK
  BY DEF Typed
<1>2. OnceInv => OnceUnderOneKey
  BY DEF OnceInv, OnceUnderOneKey, Paying
<1>3. Init => AtOnce
  BY DEF Init, AtOnce
<1> QED
  BY <1>1, <1>2, <1>3, InitTyped, NextTyped, InitCourse, NextCourse, InitLocks, NextLocks, InitBefore,
     NextAtOnce, NextOnce, PTL DEF Spec

-----------------------------------------------------------------------------
\* The replay store keeps what it was given.

\* A proof that was remembered and not forgotten is in its store.
StoredInv ==
  \A r \in kept \ forgotten : Contains(store[StoreOf(r)], ReplayKey(r))

\* The store of a request on its way to be fulfilled, and its key.
LEMMA StoreTypes ==
  ASSUME Typed, NEW r \in Requests, pc[r] \in {"ask", "remember"}
  PROVE  /\ StoreOf(r) \in Stores /\ store[StoreOf(r)] \in Seq(Entries) /\ now \in Nat
         /\ ReplayKey(r) \in ReplayKeys /\ Evicted(store[StoreOf(r)]) \in Seq(Entries)
<1>1. StoreOf(r) \in Stores /\ ReplayKey(r) \in ReplayKeys
  BY KeyTypes DEF Typed, Carries
<1>2. store[StoreOf(r)] \in Seq(Entries) /\ now \in Nat
  BY <1>1 DEF Typed, TypeOK, Entries, ReplayKeys
<1> QED
  BY <1>1, <1>2, EvictedFacts

\* A store becomes something only in answer to a question or to remember.
LEMMA StoreSteps ==
  ASSUME Typed, CourseInv, [Next]_vars
  PROVE  \/ store' = store /\ kept' = kept
            /\ \A q \in forgotten' \ forgotten : q \notin kept
         \/ \E r \in Requests : /\ pc[r] = "ask" /\ kept' = kept
                                /\ Become(r, Evicted(store[StoreOf(r)]))
         \/ \E r \in Requests :
              /\ pc[r] = "remember" /\ kept' = kept \cup {r}
              /\ Become(r, Put(Evicted(store[StoreOf(r)]), ReplayKey(r)))
         \/ \E p \in Processes : Crash(p)
<1> USE DEF files, process, request, history
<1>1. ASSUME NEW r \in Requests,
             \/ Arrive(r) \/ HoldPolicy(r) \/ ReadPolicy(r) \/ PolicyUnavailable(r)
             \/ CachePolicy(r) \/ Preempt(r) \/ ReadStop(r) \/ Decide(r) \/ Answered(r)
             \/ Handler(r) \/ WriteReceipt(r) \/ Finish(r) \/ Serve(r)
      PROVE  store' = store /\ kept' = kept /\ forgotten' = forgotten
  BY <1>1 DEF Arrive, HoldPolicy, ReadPolicy, PolicyUnavailable, CachePolicy, Preempt, ReadStop,
     Decide, Answered, Handler, WriteReceipt, Finish, Serve
<1>2. ASSUME NEW r \in Requests, AskMemory(r) \/ AskShared(r)
      PROVE  pc[r] = "ask" /\ kept' = kept /\ Become(r, Evicted(store[StoreOf(r)]))
  BY <1>2 DEF AskMemory, AskShared
<1>3. ASSUME NEW r \in Requests, Remember(r)
      PROVE  /\ pc[r] = "remember" /\ kept' = kept \cup {r}
             /\ Become(r, Put(Evicted(store[StoreOf(r)]), ReplayKey(r)))
  BY <1>3 DEF Remember
<1>4. ASSUME NEW r \in Requests, RememberFails(r)
      PROVE  store' = store /\ kept' = kept /\ \A q \in forgotten' \ forgotten : q \notin kept
  BY <1>4 DEF RememberFails, CourseInv, Course
<1>5. CASE EditPolicy \/ EditStop \/ Tick \/ UNCHANGED vars
  BY <1>5, Outside
<1> QED
  BY <1>1, <1>2, <1>3, <1>4, <1>5 DEF Next, Step

\* A request in kept keeps its key and its store.
LEMMA KeptStays ==
  ASSUME Typed, CourseInv, [Next]_vars, NEW q \in kept
  PROVE  q \in Requests /\ StoreOf(q)' = StoreOf(q) /\ ReplayKey(q)' = ReplayKey(q)
         /\ StoreOf(q) \in Stores
<1>1. q \in Requests /\ arg[q] \in Args
  BY DEF Typed, TypeOK, Carries, CourseInv, Course
<1> QED
  BY <1>1, PastStays, KeyTypes DEF Typed

\* At first no proof was put into it.
LEMMA InitStored == Init => StoredInv
  BY DEF Init, StoredInv

\* What drops out of the store is forgotten.
LEMMA NextStored == Typed /\ CourseInv /\ StoredInv /\ [Next]_vars => StoredInv'
<1> SUFFICES ASSUME Typed, CourseInv, StoredInv, [Next]_vars, NEW q \in kept' \ forgotten'
             PROVE  Contains(store[StoreOf(q)], ReplayKey(q))'
  BY DEF StoredInv
<1>1. CASE q \in kept
  <2>1. /\ q \in Requests /\ StoreOf(q)' = StoreOf(q) /\ ReplayKey(q)' = ReplayKey(q)
        /\ StoreOf(q) \in Stores
    BY <1>1, KeptStays
  <2>2. Contains(store[StoreOf(q)], ReplayKey(q))
    BY <1>1, Stays DEF StoredInv, Typed
  <2>3. ASSUME NEW r \in Requests, NEW s, Become(r, s)
        PROVE  Contains(store'[StoreOf(q)], ReplayKey(q))
    <3>1. CASE StoreOf(r) = StoreOf(q)
      <4>1. store'[StoreOf(q)] = s
        BY <2>1, <2>3, <3>1 DEF Become, Typed, TypeOK
      <4> QED
        BY <1>1, <2>3, <3>1, <4>1 DEF Become
    <3>2. CASE StoreOf(r) # StoreOf(q)
      BY <2>1, <2>2, <2>3, <3>2 DEF Become, Typed, TypeOK
    <3> QED
      BY <3>1, <3>2
  <2>4. ASSUME NEW p \in Processes, Crash(p) PROVE store'[StoreOf(q)] = store[StoreOf(q)]
    <3>1. Shared \/ StoreOf(q) # p
      BY <1>1, <2>1, <2>4 DEF Crash, CourseInv, Course, StoreOf
    <3> QED
      BY <2>1, <2>4, <3>1 DEF Crash, Typed, TypeOK
  <2>5. Contains(store'[StoreOf(q)], ReplayKey(q))
    BY <2>2, <2>3, <2>4, StoreSteps
  <2> QED
    BY <2>1, <2>5 DEF Contains
<1>2. CASE q \notin kept
  <2>1. /\ pc[q] = "remember" /\ q \in Requests
        /\ Become(q, Put(Evicted(store[StoreOf(q)]), ReplayKey(q)))
    BY <1>2, StoreSteps, CrashMoves DEF Typed
  <2>2. StoreOf(q)' = StoreOf(q) /\ ReplayKey(q)' = ReplayKey(q) /\ StoreOf(q) \in Stores
    <3>1. pc[q] \notin {"idle", "policy"}
      BY <2>1
    <3> QED
      BY <2>1, <3>1, Stays, StoreTypes DEF Typed, StoreOf, ReplayKey
  <2>3. Contains(Put(Evicted(store[StoreOf(q)]), ReplayKey(q)), ReplayKey(q))
    BY <2>1, StoreTypes, PutFacts
  <2>4. store'[StoreOf(q)] = Put(Evicted(store[StoreOf(q)]), ReplayKey(q))
    BY <2>1, <2>2 DEF Become, Typed, TypeOK
  <2> QED
    BY <2>2, <2>3, <2>4 DEF Contains
<1> QED
  BY <1>1, <1>2

\* A key that is not there any more has expired, or is one of the oldest.
LEMMA DroppedFacts ==
  ASSUME Typed, NEW r \in Requests, pc[r] \in {"ask", "remember"}, NEW k,
         Contains(store[StoreOf(r)], k), ~ Contains(Evicted(store[StoreOf(r)]), k)
  PROVE  \E i \in 1 .. Len(store[StoreOf(r)]) :
           /\ store[StoreOf(r)][i].key = k
           /\ \/ store[StoreOf(r)][i].expires <= now
              \/ ~ Shared /\ i + MaxEntries <= Len(store[StoreOf(r)])
<1>1. PICK i \in 1 .. Len(store[StoreOf(r)]) : store[StoreOf(r)][i].key = k
  BY DEF Contains
<1> QED
  BY <1>1, StoreTypes, EvictedFacts

\* StoreKeepsProofs, in every step.
THEOREM StoreAlwaysKeepsProofs == Spec => StoreKeepsProofs
<1>1. ASSUME Typed, CourseInv, StoredInv, [Next]_vars,
             NEW q \in forgotten' \ forgotten, q \in kept, crashes' = crashes
      PROVE  \E i \in 1 .. Len(store[StoreOf(q)]) :
               /\ store[StoreOf(q)][i].key = ReplayKey(q)
               /\ \/ store[StoreOf(q)][i].expires <= now
                  \/ ~ Shared /\ i + MaxEntries <= Len(store[StoreOf(q)])
  <2>1. Contains(store[StoreOf(q)], ReplayKey(q))
    BY <1>1 DEF StoredInv
  <2>2. ~ \E p \in Processes : Crash(p)
    BY <1>1 DEF Crash, Typed, TypeOK
  <2>3. PICK r \in Requests :
          /\ pc[r] \in {"ask", "remember"} /\ StoreOf(q) = StoreOf(r)
          /\ ~ Contains(Evicted(store[StoreOf(r)]), ReplayKey(q))
    <3>1. CASE \E r \in Requests : pc[r] = "ask" /\ Become(r, Evicted(store[StoreOf(r)]))
      BY <1>1, <3>1 DEF Become
    <3>2. ASSUME NEW r \in Requests, pc[r] = "remember",
                 Become(r, Put(Evicted(store[StoreOf(r)]), ReplayKey(r)))
          PROVE  StoreOf(q) = StoreOf(r) /\ ~ Contains(Evicted(store[StoreOf(r)]), ReplayKey(q))
      <4>1. /\ StoreOf(q) = StoreOf(r)
            /\ ~ Contains(Put(Evicted(store[StoreOf(r)]), ReplayKey(r)), ReplayKey(q))
        BY <1>1, <3>2 DEF Become
      <4> QED
        BY <1>1, <3>2, <4>1, StoreTypes, PutFacts
    <3> QED
      BY <1>1, <2>2, <3>1, <3>2, StoreSteps
  <2> QED
    BY <1>1, <2>1, <2>3, DroppedFacts
<1>2. Typed /\ CourseInv /\ StoredInv /\ [Next]_vars =>
        [\A r \in forgotten' \ forgotten : r \in kept /\ crashes' = crashes =>
           \E i \in 1 .. Len(store[StoreOf(r)]) :
             /\ store[StoreOf(r)][i].key = ReplayKey(r)
             /\ \/ store[StoreOf(r)][i].expires <= now
                \/ ~ Shared /\ i + MaxEntries <= Len(store[StoreOf(r)])]_vars
  BY <1>1
<1>3. Typed => TypeOK
  BY DEF Typed
<1> QED
  BY <1>2, <1>3, InitTyped, NextTyped, InitCourse, NextCourse, InitStored, NextStored,
     PTL DEF Spec, StoreKeepsProofs

-----------------------------------------------------------------------------
\* The rate limiter.

\* The requests of S admitted from t on, and before u.
Since(a, S, t) == {s \in S : t <= a[s].at}

Within(a, S, t, u) == {s \in S : t <= a[s].at /\ a[s].at < u}

\* A bucket counts the requests of S since it opened, of which the first opened it;
\* the one before it opened a window earlier or more.
Counts(a, S, b) ==
  LET opened == b.resetAt - Window
  IN /\ b.remaining < Limit
     /\ \A s \in S : a[s].at < b.resetAt
     /\ Cardinality(Since(a, S, opened)) + b.remaining <= Limit
     /\ \A t \in Int : t > opened => Cardinality(Since(a, S, t)) + b.remaining < Limit
     /\ \A t \in Int : t > opened - Window => Cardinality(Within(a, S, t, opened)) < Limit

\* In no span as long as the window are there more.
Spans(a, S) == \A t \in Int : Cardinality(Within(a, S, t, t + Window)) < 2 * Limit

Buckets == [remaining : Nat, resetAt : Nat]

\* Those of a finite set that are in some span are finitely many.
LEMMA SpanFacts ==
  ASSUME NEW a, NEW S, IsFiniteSet(S), NEW t, NEW u
  PROVE  /\ IsFiniteSet(Since(a, S, t)) /\ Cardinality(Since(a, S, t)) \in Nat
         /\ IsFiniteSet(Within(a, S, t, u)) /\ Cardinality(Within(a, S, t, u)) \in Nat
         /\ Cardinality(Within(a, S, t, u)) <= Cardinality(Since(a, S, t))
<1>1. /\ Since(a, S, t) \in SUBSET S /\ Within(a, S, t, u) \in SUBSET S
      /\ Within(a, S, t, u) \in SUBSET Since(a, S, t)
  BY DEF Since, Within
<1>2. IsFiniteSet(Since(a, S, t)) /\ IsFiniteSet(Within(a, S, t, u))
  BY <1>1, FS_Subset
<1> QED
  BY <1>1, <1>2, FS_Subset, FS_CardinalityType

\* One request more.
LEMMA OneMore ==
  ASSUME NEW a, NEW a2, NEW S, IsFiniteSet(S), NEW r, r \notin S,
         \A s \in S : a2[s] = a[s], NEW t \in Int
  PROVE  /\ Since(a2, S \cup {r}, t)
              = IF t <= a2[r].at THEN Since(a, S, t) \cup {r} ELSE Since(a, S, t)
         /\ Cardinality(Since(a2, S \cup {r}, t)) \in Nat
         /\ Cardinality(Since(a2, S \cup {r}, t)) <= Cardinality(Since(a, S, t)) + 1
<1>1. Since(a2, S \cup {r}, t)
        = IF t <= a2[r].at THEN Since(a, S, t) \cup {r} ELSE Since(a, S, t)
  BY DEF Since
<1>2. IsFiniteSet(Since(a, S, t)) /\ Cardinality(Since(a, S, t)) \in Nat /\ r \notin Since(a, S, t)
  BY SpanFacts DEF Since
<1>3. Cardinality(Since(a, S, t) \cup {r}) = Cardinality(Since(a, S, t)) + 1
  BY <1>2, FS_AddElement
<1> QED
  BY <1>1, <1>2, <1>3

\* A bucket that has let nothing pass counts right, if it is not fuller than new.
LEMMA CountsNothing ==
  ASSUME NEW a, NEW b \in Buckets, b.remaining < Limit
  PROVE  Counts(a, {}, b)
<1>1. \A t, u : Cardinality(Since(a, {}, t)) = 0 /\ Cardinality(Within(a, {}, t, u)) = 0
  BY FS_EmptySet DEF Since, Within
<1>2. Limit \in Nat /\ b.remaining \in Nat
  BY OptionsAssumption DEF Buckets
<1> QED
  BY <1>1, <1>2 DEF Counts

\* A request finds its bucket closed and opens the next.
LEMMA CountsOpened ==
  ASSUME NEW a, NEW a2, NEW S, IsFiniteSet(S), NEW r, r \notin S,
         \A s \in S : a2[s] = a[s] /\ a[s].at \in Nat,
         NEW b \in Buckets, NEW t \in Nat, a2[r].at = t, Closed(b, t),
         Counts(a, S, b), Limit > 0, Window > 0
  PROVE  Counts(a2, S \cup {r}, [remaining |-> Limit - 1, resetAt |-> t + Window])
<1> DEFINE b2 == [remaining |-> Limit - 1, resetAt |-> t + Window]
           S2 == S \cup {r}
<1>1. /\ Limit \in Nat /\ Window \in Nat /\ b.resetAt \in Nat /\ b.remaining \in Nat
      /\ b.resetAt <= t /\ b2.remaining = Limit - 1 /\ b2.resetAt = t + Window
      /\ b2.resetAt - Window = t
  BY OptionsAssumption DEF Buckets, Closed
<1>2. \A s \in S : a[s].at \in Nat /\ a[s].at < b.resetAt /\ a[s].at < t
  BY <1>1 DEF Counts
<1>3. \A s \in S2 : a2[s].at < t + Window
  BY <1>1, <1>2
<1>4. \A x \in Int : x >= t => Since(a, S, x) = {}
  BY <1>1, <1>2 DEF Since
<1>5. Cardinality(Since(a2, S2, t)) <= 1 /\ Cardinality(Since(a2, S2, t)) \in Nat
  <2>1. Cardinality(Since(a, S, t)) = 0
    <3>1. Since(a, S, t) = {}
      BY <1>4
    <3> QED
      BY <3>1, FS_EmptySet
  <2>2. /\ Cardinality(Since(a2, S2, t)) \in Nat
        /\ Cardinality(Since(a2, S2, t)) <= Cardinality(Since(a, S, t)) + 1
    <3>1. t \in Int /\ \A s \in S : a2[s] = a[s]
      OBVIOUS
    <3> QED
      BY <3>1, OneMore
  <2> QED
    BY <2>1, <2>2
<1>6. ASSUME NEW x \in Int, x > t PROVE Cardinality(Since(a2, S2, x)) = 0
  <2>1. Since(a2, S2, x) = {}
    BY <1>2, <1>6 DEF Since
  <2> QED
    BY <2>1, FS_EmptySet
<1>7. ASSUME NEW x \in Int, x > t - Window PROVE Cardinality(Within(a2, S2, x, t)) < Limit
  <2>1. Within(a2, S2, x, t) = Within(a, S, x, t)
    <3>1. ~ (x <= a2[r].at /\ a2[r].at < t)
      OBVIOUS
    <3>2. \A s \in S : a2[s] = a[s]
      OBVIOUS
    <3> QED
      BY <3>1, <3>2 DEF Within
  <2>2. Cardinality(Since(a, S, x)) + b.remaining < Limit
    BY <1>1, <1>7 DEF Counts
  <2> QED
    BY <1>1, <2>1, <2>2, SpanFacts
<1> HIDE DEF b2, S2
<1>8. Counts(a2, S2, b2)
  BY <1>1, <1>3, <1>5, <1>6, <1>7 DEF Counts
<1> QED
  BY <1>8 DEF b2, S2

\* A request finds its bucket open and not empty.
LEMMA CountsTaken ==
  ASSUME NEW a, NEW a2, NEW S, IsFiniteSet(S), NEW r, r \notin S,
         \A s \in S : a2[s] = a[s] /\ a[s].at \in Nat,
         NEW b \in Buckets, NEW t \in Nat, a2[r].at = t, ~ Closed(b, t), b.remaining > 0,
         b.resetAt - Window <= t, Counts(a, S, b)
  PROVE  Counts(a2, S \cup {r}, [b EXCEPT !.remaining = @ - 1])
<1> DEFINE b2 == [b EXCEPT !.remaining = @ - 1]
           S2 == S \cup {r}
           opened == b.resetAt - Window
<1>1. /\ Limit \in Nat /\ Window \in Nat /\ b.resetAt \in Nat /\ b.remaining \in Nat
      /\ t < b.resetAt /\ b2.remaining = b.remaining - 1 /\ b2.resetAt = b.resetAt
  BY OptionsAssumption DEF Buckets, Closed
<1>2. opened \in Int
  BY <1>1
<1>3. \A s \in S2 : a2[s].at < b.resetAt
  BY <1>1 DEF Counts
<1>4. ASSUME NEW x \in Int
      PROVE  /\ Cardinality(Since(a2, S2, x)) \in Nat /\ Cardinality(Since(a, S, x)) \in Nat
             /\ Cardinality(Since(a2, S2, x)) <= Cardinality(Since(a, S, x)) + 1
  BY OneMore, SpanFacts
<1>5. Cardinality(Since(a2, S2, opened)) + b2.remaining <= Limit
  <2>1. Cardinality(Since(a, S, opened)) + b.remaining <= Limit
    BY DEF Counts
  <2> HIDE DEF opened, S2, b2
  <2> QED
    BY <1>1, <1>2, <1>4, <2>1
<1>6. ASSUME NEW x \in Int, x > opened
      PROVE  Cardinality(Since(a2, S2, x)) + b2.remaining < Limit
  <2>1. Cardinality(Since(a, S, x)) + b.remaining < Limit
    BY <1>6 DEF Counts
  <2> HIDE DEF opened, S2, b2
  <2> QED
    BY <1>1, <1>4, <2>1
<1>7. ASSUME NEW x \in Int, x > opened - Window
      PROVE  Cardinality(Within(a2, S2, x, opened)) < Limit
  <2>1. Within(a2, S2, x, opened) = Within(a, S, x, opened)
    <3>1. ~ (x <= a2[r].at /\ a2[r].at < opened)
      BY <1>1
    <3>2. \A s \in S : a2[s] = a[s]
      OBVIOUS
    <3> HIDE DEF opened
    <3> QED
      BY <3>1, <3>2 DEF Within
  <2> QED
    BY <1>7, <2>1 DEF Counts
<1>8. b2.remaining < Limit
  BY <1>1 DEF Counts
<1>9. b2.resetAt - Window = opened
  BY <1>1
<1> HIDE DEF b2, S2, opened
<1>10. Counts(a2, S2, b2)
  BY <1>1, <1>3, <1>5, <1>6, <1>7, <1>8, <1>9 DEF Counts
<1> QED
  BY <1>10 DEF b2, S2

\* A span that holds the time of the new request holds no more than the window before
\* the bucket and the bucket's own.
LEMMA SpansMore ==
  ASSUME NEW a, NEW a2, NEW S, IsFiniteSet(S), NEW r, r \notin S,
         \A s \in S : a2[s] = a[s] /\ a[s].at \in Nat,
         NEW b \in Buckets, NEW t \in Nat, a2[r].at = t, b.resetAt - Window <= t,
         Counts(a2, S \cup {r}, b), Spans(a, S), Limit > 0
  PROVE  Spans(a2, S \cup {r})
<1> SUFFICES ASSUME NEW x \in Int
             PROVE  Cardinality(Within(a2, S \cup {r}, x, x + Window)) < 2 * Limit
  BY DEF Spans
<1> DEFINE S2 == S \cup {r}
           opened == b.resetAt - Window
<1>1. Limit \in Nat /\ Window \in Nat /\ b.resetAt \in Nat /\ b.remaining \in Nat
  BY OptionsAssumption DEF Buckets
<1>2. IsFiniteSet(S2) /\ opened \in Int /\ \A s \in S2 : a2[s].at \in Nat
  BY <1>1, FS_AddElement
<1>3. CASE x > opened
  <2>1. Cardinality(Since(a2, S2, x)) + b.remaining < Limit
    BY <1>3 DEF Counts
  <2> HIDE DEF S2, opened
  <2>2. /\ Cardinality(Within(a2, S2, x, x + Window)) <= Cardinality(Since(a2, S2, x))
        /\ Cardinality(Within(a2, S2, x, x + Window)) \in Nat
        /\ Cardinality(Since(a2, S2, x)) \in Nat
    BY <1>2, SpanFacts
  <2>3. Cardinality(Within(a2, S2, x, x + Window)) < 2 * Limit
    BY <1>1, <2>1, <2>2
  <2> QED
    BY <2>3 DEF S2
<1>4. CASE x <= opened /\ x > opened - Window
  <2> DEFINE old == Within(a2, S2, x, opened)
             new == Since(a2, S2, opened)
  <2>1. Cardinality(old) < Limit
    BY <1>4 DEF Counts
  <2>2. Cardinality(new) + b.remaining <= Limit
    BY DEF Counts
  <2>3. Within(a2, S2, x, x + Window) \in SUBSET (old \cup new)
    <3> HIDE DEF S2, opened
    <3> QED
      BY <1>2 DEF Within, Since
  <2> HIDE DEF S2, opened
  <2>4. /\ IsFiniteSet(old) /\ Cardinality(old) \in Nat
        /\ IsFiniteSet(new) /\ Cardinality(new) \in Nat
    BY <1>2, SpanFacts
  <2>5. Cardinality(Within(a2, S2, x, x + Window)) \in Nat
    BY <1>2, SpanFacts
  <2> HIDE DEF old, new
  <2>6. /\ IsFiniteSet(old \cup new) /\ Cardinality(old \cap new) \in Nat
        /\ Cardinality(old \cup new) = Cardinality(old) + Cardinality(new) - Cardinality(old \cap new)
    <3>1. IsFiniteSet(old \cap new)
      BY <2>4, FS_Subset
    <3> QED
      BY <2>4, <3>1, FS_Union, FS_CardinalityType
  <2>7. Cardinality(Within(a2, S2, x, x + Window)) <= Cardinality(old \cup new)
    BY <2>3, <2>6, FS_Subset
  <2>8. Cardinality(Within(a2, S2, x, x + Window)) < 2 * Limit
    BY <1>1, <2>1, <2>2, <2>4, <2>5, <2>6, <2>7
  <2> QED
    BY <2>8 DEF S2
<1>5. CASE x <= opened - Window
  <2>1. ~ (a2[r].at < x + Window)
    BY <1>1, <1>5
  <2>2. Within(a2, S \cup {r}, x, x + Window) = Within(a, S, x, x + Window)
    <3>1. \A s \in S : a2[s] = a[s]
      OBVIOUS
    <3> QED
      BY <2>1, <3>1 DEF Within
  <2> QED
    BY <2>2 DEF Spans
<1> QED
  BY <1>1, <1>3, <1>4, <1>5

\* The requests of one agent for one rule that one life of a process admitted.
LetPass(p, k, l) ==
  {s \in Requests : /\ admitted[s] # None /\ admitted[s].life = l
                    /\ arg[s].proc = p /\ bucketKey(s) = k}

\* Only a decision admits, and only in the present.
PresentInv ==
  /\ IsFiniteSet({s \in Requests : admitted[s] # None})
  /\ \A s \in Requests :
       /\ pc[s] \in {"idle", "policy", "cache", "stop"} => admitted[s] = None
       /\ admitted[s] # None => admitted[s].life <= crashes /\ admitted[s].at <= now

\* Each bucket counts what this life of its process let pass, and was opened before now.
CountInv ==
  Limit > 0 /\ Window > 0 => \A p \in Processes, k \in BucketKeys :
    /\ Counts(admitted, LetPass(p, k, crashes), buckets[p][k])
    /\ buckets[p][k].resetAt - Window <= now
    /\ \A l \in Nat : Spans(admitted, LetPass(p, k, l))

\* What Decide does to the limiter.
LEMMA DecideFacts ==
  ASSUME Typed, PresentInv, NEW r \in Requests, Decide(r)
  PROVE  /\ pc[r] = "stop" /\ arg[r] \in Args /\ admitted[r] = None /\ now' = now /\ crashes' = crashes
         /\ arg[r].proc \in Processes /\ bucketKey(r) \in BucketKeys
         /\ Bucket(r) \in Buckets /\ arg' = arg
         /\ \/ Outcome(r) = "throttled" /\ admitted' = admitted
            \/ /\ Outcome(r) # "throttled"
               /\ admitted' = [admitted EXCEPT ![r] = [at |-> now, life |-> crashes]]
<1>1. pc[r] = "stop" /\ arg[r] \in Args /\ admitted[r] = None
  BY DEF Decide, Typed, Carries, PresentInv
<1>2. arg[r].proc \in Processes /\ bucketKey(r) \in BucketKeys
  BY <1>1, ArgFields, KeyTypes
<1>3. Bucket(r) \in Buckets
  BY <1>2 DEF Bucket, Buckets, Typed, TypeOK
<1> QED
  BY <1>1, <1>2, <1>3 DEF Decide, files

\* All other steps leave the limiter alone, but for a crash.
LEMMA LimiterAlone ==
  ASSUME [Next]_vars, ~ \E r \in Requests : Decide(r), ~ \E p \in Processes : Crash(p), TypeOK
  PROVE  buckets' = buckets /\ admitted' = admitted /\ crashes' = crashes /\ now <= now'
<1> USE DEF files, process, request, history
<1>1. CASE \E r \in Requests : Arrive(r) \/ Step(r)
  BY <1>1 DEF Step, Arrive, HoldPolicy, ReadPolicy, PolicyUnavailable, CachePolicy, Preempt, ReadStop,
     AskMemory, AskShared, Answered, Handler, Remember, RememberFails, WriteReceipt, Finish, Serve,
     TypeOK
<1>2. CASE EditPolicy \/ EditStop \/ Tick \/ UNCHANGED vars
  BY <1>2 DEF EditPolicy, EditStop, Tick, vars, TypeOK
<1> QED
  BY <1>1, <1>2 DEF Next

\* At first nothing is admitted.
LEMMA InitPresent == Init => PresentInv /\ CountInv
<1> SUFFICES ASSUME Init PROVE PresentInv /\ CountInv
  OBVIOUS
<1>1. {s \in Requests : admitted[s] # None} = {}
  BY DEF Init
<1>2. PresentInv
  BY <1>1, FS_EmptySet DEF Init, PresentInv
<1>3. ASSUME Limit > 0, NEW p \in Processes, NEW k \in BucketKeys
      PROVE  /\ Counts(admitted, LetPass(p, k, crashes), buckets[p][k])
             /\ buckets[p][k].resetAt - Window <= now
             /\ \A l \in Nat : Spans(admitted, LetPass(p, k, l))
  <2>1. \A l : LetPass(p, k, l) = {}
    BY <1>1 DEF LetPass
  <2>2. buckets[p][k] = NoBucket /\ now = 0
    BY DEF Init
  <2>3. \A t, u : Cardinality(Within(admitted, {}, t, u)) = 0
    BY FS_EmptySet DEF Within
  <2>4. Spans(admitted, {})
    BY <1>3, <2>3, OptionsAssumption DEF Spans
  <2>5. NoBucket.resetAt - Window <= 0 /\ NoBucket \in Buckets /\ NoBucket.remaining < Limit
    BY <1>3, OptionsAssumption DEF NoBucket, Buckets
  <2> QED
    BY <1>3, <2>1, <2>2, <2>4, <2>5, CountsNothing
<1> QED
  BY <1>2, <1>3 DEF CountInv

\* Each step admits at most one request, now.
LEMMA NextPresent == Typed /\ PresentInv /\ [Next]_vars => PresentInv'
<1> SUFFICES ASSUME Typed, PresentInv, [Next]_vars PROVE PresentInv'
  OBVIOUS
<1>1. \A s \in Requests : pc'[s] \in {"idle", "policy", "cache", "stop"} =>
        pc[s] \in {"idle", "policy", "cache", "stop"} /\ ~ Decide(s)
  <2> SUFFICES ASSUME NEW s \in Requests, pc'[s] \in {"idle", "policy", "cache", "stop"}
               PROVE  pc[s] \in {"idle", "policy", "cache", "stop"} /\ ~ Decide(s)
    OBVIOUS
  <2>1. CASE Arrive(s) \/ Step(s)
    BY <2>1 DEF Step, Arrive, HoldPolicy, ReadPolicy, PolicyUnavailable, CachePolicy, Preempt,
       ReadStop, Decide, AskMemory, AskShared, Answered, Handler, Remember, RememberFails,
       WriteReceipt, Finish, Serve, Proceed, Goto, Return, Conclude, Throw, Typed, TypeOK
  <2>2. CASE \E q \in Requests : q # s /\ (Arrive(q) \/ Step(q))
    BY <2>1, <2>2, Others DEF Typed, Step
  <2>3. CASE \E p \in Processes : Crash(p)
    BY <2>1, <2>3, CrashMoves DEF Typed, Step
  <2>4. CASE EditPolicy \/ EditStop \/ Tick \/ UNCHANGED vars
    BY <2>1, <2>4, Outside DEF Step
  <2> QED
    BY <2>1, <2>2, <2>3, <2>4 DEF Next
<1>2. ASSUME NEW r \in Requests, Decide(r) PROVE PresentInv'
  <2>1. \A s \in Requests :
          \/ admitted'[s] = admitted[s]
          \/ s = r /\ admitted'[s] = [at |-> now, life |-> crashes]
    BY <1>2, DecideFacts DEF Typed, TypeOK
  <2>2. \A s \in Requests : admitted[s] # None => admitted[s].life <= crashes /\ admitted[s].at <= now
    BY DEF PresentInv
  <2>3. now' = now /\ crashes' = crashes /\ now \in Nat /\ crashes \in Nat
    BY <1>2, DecideFacts DEF Typed, TypeOK
  <2>4. IsFiniteSet({s \in Requests : admitted'[s] # None})
    <3>1. {s \in Requests : admitted'[s] # None}
            \in SUBSET ({s \in Requests : admitted[s] # None} \cup {r})
      BY <2>1
    <3>2. IsFiniteSet({s \in Requests : admitted[s] # None} \cup {r})
      BY FS_AddElement DEF PresentInv
    <3> QED
      BY <3>1, <3>2, FS_Subset
  <2>5. \A s \in Requests : pc'[s] \in {"idle", "policy", "cache", "stop"} => s # r
    BY <1>1, <1>2
  <2> QED
    BY <1>1, <2>1, <2>2, <2>3, <2>4, <2>5 DEF PresentInv
<1>3. ASSUME admitted' = admitted, crashes <= crashes', now <= now' PROVE PresentInv'
  <2>1. crashes \in Nat /\ now \in Nat /\ crashes' \in Nat /\ now' \in Nat
    BY NextTyped DEF Typed, TypeOK
  <2>2. \A s \in Requests : admitted[s] # None => admitted[s].life \in Nat /\ admitted[s].at \in Nat
    BY DEF Typed, TypeOK
  <2> QED
    BY <1>1, <1>3, <2>1, <2>2 DEF PresentInv
<1>4. ASSUME NEW p \in Processes, Crash(p) PROVE PresentInv'
  <2>1. TypeOK /\ crashes \in Nat /\ now \in Nat
    BY DEF Typed, TypeOK
  <2>2. admitted' = admitted /\ crashes' = crashes + 1 /\ now' = now
    BY <1>4, <2>1, CrashMoves
  <2>3. crashes <= crashes' /\ now <= now'
    BY <2>1, <2>2
  <2> QED
    BY <1>3, <2>2, <2>3
<1>5. CASE ~ (\E r \in Requests : Decide(r)) /\ ~ \E p \in Processes : Crash(p)
  <2>1. TypeOK /\ crashes \in Nat
    BY DEF Typed, TypeOK
  <2>2. admitted' = admitted /\ crashes' = crashes /\ now <= now'
    BY <1>5, <2>1, LimiterAlone
  <2>3. crashes <= crashes'
    BY <2>1, <2>2
  <2> QED
    BY <1>3, <2>2, <2>3
<1> QED
  BY <1>2, <1>4, <1>5

\* Those let pass are finitely many, and stay.
LEMMA LetPassFacts ==
  ASSUME Typed, PresentInv, [Next]_vars, NEW p, NEW k, NEW l
  PROVE  /\ IsFiniteSet(LetPass(p, k, l))
         /\ \A s \in LetPass(p, k, l) : s \in Requests /\ admitted[s].at \in Nat
         /\ \A s \in Requests : admitted[s] # None => arg'[s] = arg[s]
         /\ admitted' = admitted => LetPass(p, k, l)' = LetPass(p, k, l)
<1>1. LetPass(p, k, l) \in SUBSET {s \in Requests : admitted[s] # None}
  BY DEF LetPass
<1>2. \A s \in Requests : admitted[s] # None => admitted[s].at \in Nat /\ arg'[s] = arg[s]
  BY Stays DEF Typed, TypeOK, PresentInv
<1> QED
  BY <1>1, <1>2, FS_Subset DEF PresentInv, LetPass, bucketKey

\* A decision counts the request it lets pass.
LEMMA DecideCounts ==
  ASSUME Typed, PresentInv, CountInv, [Next]_vars, NEW r \in Requests, Decide(r),
         Limit > 0, Window > 0, NEW p \in Processes, NEW k \in BucketKeys
  PROVE  /\ Counts(admitted', LetPass(p, k, crashes)', buckets'[p][k])
         /\ buckets'[p][k].resetAt - Window <= now'
         /\ \A l \in Nat : Spans(admitted', LetPass(p, k, l)')
<1> DEFINE proc == arg[r].proc
           bkey == bucketKey(r)
           after == Checked(Bucket(r), Limit, Window, now)
<1>1. /\ Counts(admitted, LetPass(p, k, crashes), buckets[p][k])
      /\ buckets[p][k].resetAt - Window <= now
      /\ \A l \in Nat : Spans(admitted, LetPass(p, k, l))
  BY DEF CountInv
<1>2. /\ pc[r] = "stop" /\ admitted[r] = None /\ now' = now /\ crashes' = crashes
      /\ proc \in Processes /\ bkey \in BucketKeys /\ Bucket(r) \in Buckets /\ arg' = arg
      /\ \/ Outcome(r) = "throttled" /\ admitted' = admitted
         \/ /\ Outcome(r) # "throttled"
            /\ admitted' = [admitted EXCEPT ![r] = [at |-> now, life |-> crashes]]
  BY DecideFacts
<1>3. crashes \in Nat /\ now \in Nat /\ TypeOK
  BY DEF Typed, TypeOK
<1>4. buckets'[p][k] = IF p = proc /\ k = bkey THEN after ELSE buckets[p][k]
  <2>1. buckets' = [buckets EXCEPT ![proc][bkey] = Checked(@, Limit, Window, now)]
    BY DEF Decide
  <2> QED
    BY <1>2, <2>1 DEF Bucket, Typed, TypeOK
<1>5. p = proc /\ k = bkey => Bucket(r) = buckets[p][k]
  BY DEF Bucket
<1>6. CASE Outcome(r) = "throttled"
  <2>1. ~ Allowed(Bucket(r), now)
    BY <1>6 DEF Outcome
  <2>2. after = Bucket(r)
    BY <1>2, <2>1 DEF Allowed, Checked, Buckets
  <2>3. admitted' = admitted
    BY <1>2, <1>6
  <2>4. \A l : LetPass(p, k, l)' = LetPass(p, k, l)
    BY <2>3, LetPassFacts
  <2> QED
    BY <1>1, <1>2, <1>4, <1>5, <2>2, <2>3, <2>4
<1>7. CASE Outcome(r) # "throttled"
  <2>1. /\ admitted'[r] = [at |-> now, life |-> crashes] /\ admitted'[r] # None
        /\ \A s \in Requests : s # r => admitted'[s] = admitted[s]
    <3>1. admitted'[r] = [at |-> now, life |-> crashes]
          /\ \A s \in Requests : s # r => admitted'[s] = admitted[s]
      BY <1>2, <1>7 DEF Typed, TypeOK
    <3> QED
      BY <1>3, <3>1, OptionsAssumption
  <2>2. \A l : LetPass(p, k, l)' = IF l = crashes /\ p = proc /\ k = bkey
                                  THEN LetPass(p, k, l) \cup {r} ELSE LetPass(p, k, l)
    BY <1>2, <2>1 DEF LetPass, bucketKey
  <2>3. \A l : /\ IsFiniteSet(LetPass(p, k, l)) /\ r \notin LetPass(p, k, l)
               /\ \A s \in LetPass(p, k, l) : admitted'[s] = admitted[s] /\ admitted[s].at \in Nat
    <3>1. \A l : /\ IsFiniteSet(LetPass(p, k, l))
                 /\ \A s \in LetPass(p, k, l) : s \in Requests /\ admitted[s].at \in Nat
      BY LetPassFacts
    <3>2. \A l : r \notin LetPass(p, k, l)
      BY <1>2 DEF LetPass
    <3> QED
      BY <2>1, <3>1, <3>2
  <2>4. CASE p = proc /\ k = bkey
    <3> DEFINE b == Bucket(r)
    <3>1. /\ Counts(admitted, LetPass(p, k, crashes), b) /\ b.resetAt - Window <= now
          /\ b \in Buckets /\ buckets'[p][k] = after
      BY <1>1, <1>2, <1>4, <1>5, <2>4
    <3>2. Closed(b, now) \/ (~ Closed(b, now) /\ b.remaining > 0)
      BY <1>7, <2>4 DEF Outcome, Allowed
    <3>3. LetPass(p, k, crashes)' = LetPass(p, k, crashes) \cup {r}
      BY <1>2, <2>2, <2>4
    <3>4. /\ Counts(admitted', LetPass(p, k, crashes) \cup {r}, after)
          /\ after.resetAt - Window <= now /\ after \in Buckets
      <4>1. CASE Closed(b, now)
        <5>1. after = [remaining |-> Limit - 1, resetAt |-> now + Window]
          BY <4>1 DEF Checked
        <5>2. after.resetAt - Window <= now /\ after \in Buckets
          BY <1>3, <5>1, OptionsAssumption DEF Buckets
        <5> HIDE DEF b, after
        <5> QED
          BY <1>3, <2>1, <2>3, <3>1, <4>1, <5>1, <5>2, CountsOpened
      <4>2. CASE ~ Closed(b, now) /\ b.remaining > 0
        <5>1. after = [b EXCEPT !.remaining = @ - 1]
          BY <3>1, <4>2 DEF Checked, Buckets
        <5>2. after.resetAt - Window <= now /\ after \in Buckets
          BY <3>1, <4>2, <5>1 DEF Buckets
        <5> HIDE DEF b, after
        <5> QED
          BY <1>3, <2>1, <2>3, <3>1, <4>2, <5>1, <5>2, CountsTaken
      <4> QED
        BY <3>2, <4>1, <4>2
    <3>5. Spans(admitted', LetPass(p, k, crashes) \cup {r})
      <4>1. Spans(admitted, LetPass(p, k, crashes))
        BY <1>1, <1>3
      <4> HIDE DEF after
      <4> QED
        BY <1>3, <2>1, <2>3, <3>4, <4>1, SpansMore
    <3>6. ASSUME NEW l \in Nat PROVE Spans(admitted', LetPass(p, k, l)')
      <4>1. CASE l = crashes
        BY <2>2, <2>4, <3>5, <4>1
      <4>2. CASE l # crashes
        <5>1. LetPass(p, k, l)' = LetPass(p, k, l)
          BY <2>2, <4>2
        <5>2. \A t : Within(admitted', LetPass(p, k, l), t, t + Window)
                       = Within(admitted, LetPass(p, k, l), t, t + Window)
          BY <2>3 DEF Within
        <5> QED
          BY <1>1, <5>1, <5>2 DEF Spans
      <4> QED
        BY <4>1, <4>2
    <3> QED
      BY <1>2, <3>1, <3>3, <3>4, <3>6
  <2>5. CASE ~ (p = proc /\ k = bkey)
    <3>1. \A l : LetPass(p, k, l)' = LetPass(p, k, l)
      BY <2>2, <2>5
    <3>2. buckets'[p][k] = buckets[p][k]
      BY <1>4, <2>5
    <3>3. \A l, t : /\ Since(admitted', LetPass(p, k, l), t) = Since(admitted, LetPass(p, k, l), t)
                    /\ \A u : Within(admitted', LetPass(p, k, l), t, u)
                                = Within(admitted, LetPass(p, k, l), t, u)
      BY <2>3 DEF Since, Within
    <3>4. Counts(admitted', LetPass(p, k, crashes), buckets[p][k])
      BY <1>1, <2>3, <3>3 DEF Counts
    <3>5. \A l \in Nat : Spans(admitted', LetPass(p, k, l))
      BY <1>1, <3>3 DEF Spans
    <3> QED
      BY <1>1, <1>2, <3>1, <3>2, <3>4, <3>5
  <2> QED
    BY <2>4, <2>5
<1> QED
  BY <1>6, <1>7

\* Each step keeps the counts.
LEMMA NextCount == Typed /\ PresentInv /\ CountInv /\ [Next]_vars => CountInv'
<1> SUFFICES ASSUME Typed, PresentInv, CountInv, [Next]_vars, Limit > 0, Window > 0,
                    NEW p \in Processes, NEW k \in BucketKeys
             PROVE  /\ Counts(admitted', LetPass(p, k, crashes)', buckets'[p][k])
                    /\ buckets'[p][k].resetAt - Window <= now'
                    /\ \A l \in Nat : Spans(admitted', LetPass(p, k, l)')
  BY DEF CountInv
<1>1. /\ Counts(admitted, LetPass(p, k, crashes), buckets[p][k])
      /\ buckets[p][k].resetAt - Window <= now
      /\ \A l \in Nat : Spans(admitted, LetPass(p, k, l))
  BY DEF CountInv
<1>2. /\ TypeOK /\ crashes \in Nat /\ now \in Nat /\ now' \in Nat /\ Window \in Nat
      /\ buckets[p][k] \in Buckets
  <2>1. TypeOK /\ TypeOK'
    BY NextTyped DEF Typed
  <2>2. crashes \in Nat /\ now \in Nat /\ now' \in Nat
    BY <2>1 DEF TypeOK
  <2>3. buckets[p][k] \in Buckets
    BY <2>1 DEF TypeOK, Buckets
  <2> QED
    BY <2>1, <2>2, <2>3, OptionsAssumption
<1>3. CASE \E r \in Requests : Decide(r)
  BY <1>3, DecideCounts
<1>4. ASSUME NEW q \in Processes, Crash(q)
      PROVE  /\ Counts(admitted', LetPass(p, k, crashes)', buckets'[p][k])
             /\ buckets'[p][k].resetAt - Window <= now'
             /\ \A l \in Nat : Spans(admitted', LetPass(p, k, l)')
  <2>1. admitted' = admitted /\ now' = now /\ crashes' = crashes + 1
    BY <1>2, <1>4, CrashMoves
  <2>2. \A l : LetPass(p, k, l)' = LetPass(p, k, l)
    BY <2>1, LetPassFacts
  <2>3. LetPass(p, k, crashes + 1) = {}
    <3>1. \A s \in Requests : admitted[s] # None => admitted[s].life <= crashes /\ admitted[s].life \in Nat
      BY DEF PresentInv, Typed, TypeOK
    <3> QED
      BY <1>2, <3>1 DEF LetPass
  <2>4. LetPass(p, k, crashes)' = {}
    BY <2>1, <2>2, <2>3 DEF LetPass
  <2>5. buckets'[p][k] = NoBucket \/ buckets'[p][k] = buckets[p][k]
    BY <1>4 DEF Crash, Typed, TypeOK
  <2>6. Counts(admitted, {}, buckets'[p][k])
    <3>1. NoBucket \in Buckets /\ NoBucket.remaining < Limit
      BY OptionsAssumption DEF NoBucket, Buckets
    <3>2. buckets[p][k].remaining < Limit
      BY <1>1 DEF Counts
    <3> QED
      BY <1>2, <2>5, <3>1, <3>2, CountsNothing
  <2>7. buckets'[p][k].resetAt - Window <= now
    BY <1>1, <1>2, <2>5 DEF NoBucket
  <2> QED
    BY <1>1, <2>1, <2>2, <2>4, <2>6, <2>7
<1>5. CASE ~ (\E r \in Requests : Decide(r)) /\ ~ \E q \in Processes : Crash(q)
  <2>1. buckets' = buckets /\ admitted' = admitted /\ crashes' = crashes /\ now <= now'
    BY <1>2, <1>5, LimiterAlone
  <2>2. \A l : LetPass(p, k, l)' = LetPass(p, k, l)
    BY <2>1, LetPassFacts
  <2>3. LetPass(p, k, crashes)' = LetPass(p, k, crashes)
    BY <2>1, <2>2 DEF LetPass
  <2>4. buckets[p][k].resetAt - Window <= now'
    BY <1>1, <1>2, <2>1 DEF Buckets
  <2> QED
    BY <1>1, <2>1, <2>2, <2>3, <2>4
<1> QED
  BY <1>3, <1>4, <1>5

\* RateBounded, for any limit, any window and any number of requests.
THEOREM RateAlwaysBounded == Spec => []RateBounded
<1>1. ASSUME Typed, PresentInv, CountInv PROVE RateBounded
  <2> SUFFICES ASSUME Limit > 0, NEW r \in Requests, admitted[r] # None
               PROVE  Cardinality({s \in Requests :
                        /\ admitted[s] # None
                        /\ admitted[s].life = admitted[r].life
                        /\ arg[s].proc = arg[r].proc /\ bucketKey(s) = bucketKey(r)
                        /\ admitted[s].at \in admitted[r].at .. admitted[r].at + Window - 1})
                      < 2 * Limit
    BY DEF RateBounded
  <2> DEFINE span == {s \in Requests :
                        /\ admitted[s] # None
                        /\ admitted[s].life = admitted[r].life
                        /\ arg[s].proc = arg[r].proc /\ bucketKey(s) = bucketKey(r)
                        /\ admitted[s].at \in admitted[r].at .. admitted[r].at + Window - 1}
             p == arg[r].proc
             k == bucketKey(r)
             l == admitted[r].life
             t == admitted[r].at
  <2>1. \A s \in Requests : admitted[s] # None => admitted[s].at \in Nat /\ admitted[s].life \in Nat
    BY <1>1 DEF Typed, TypeOK
  <2>2. Limit \in Nat /\ Window \in Nat /\ t \in Nat /\ l \in Nat
    BY <2>1, OptionsAssumption
  <2>3. CASE Window = 0
    <3>1. span = {}
      BY <2>1, <2>2, <2>3
    <3>2. Cardinality(span) = 0
      BY <3>1, FS_EmptySet
    <3> HIDE DEF span
    <3>3. Cardinality(span) < 2 * Limit
      BY <2>2, <3>2
    <3> QED
      BY <3>3 DEF span
  <2>4. CASE Window > 0
    <3>1. p \in Processes /\ k \in BucketKeys
      <4>1. arg[r] \in Args
        BY <1>1 DEF PresentInv, Typed, Carries
      <4> QED
        BY <4>1, KeyTypes, ArgFields
    <3>2. Spans(admitted, LetPass(p, k, l))
      BY <1>1, <2>2, <2>4, <3>1 DEF CountInv
    <3>3. span = Within(admitted, LetPass(p, k, l), t, t + Window)
      BY <2>1, <2>2 DEF Within, LetPass
    <3> HIDE DEF span, p, k, l, t
    <3>4. Cardinality(Within(admitted, LetPass(p, k, l), t, t + Window)) < 2 * Limit
      BY <2>2, <3>2 DEF Spans
    <3>5. Cardinality(span) < 2 * Limit
      BY <3>3, <3>4
    <3> QED
      BY <3>5 DEF span
  <2> QED
    BY <2>2, <2>3, <2>4
<1>2. Typed => TypeOK
  BY DEF Typed
<1> QED
  BY <1>1, <1>2, InitTyped, NextTyped, InitPresent, NextPresent, NextCount, PTL DEF Spec
=============================================================================
