--------------------------- MODULE TinyFishClient ---------------------------
(***************************************************************************)
(* The TinyFish client of one process: the cache, the retry loop, and the  *)
(* limiter with its four sliding windows.  Time is kept as ages, in ticks. *)
(* A process makes one call at a time; call is where it stands.  What the  *)
(* provider receives is recorded with its age, for a day, and with what it *)
(* received after it, because a request may arrive some time after the     *)
(* limiter admitted it.                                                    *)
(***************************************************************************)
EXTENDS Integers, Sequences, FiniteSets, SequencesExt

CONSTANTS Policies,    \* TinyFishRateLimitPolicy records, one is chosen
          Minute, Hour, Day, CacheTtl,
          MaxEntries,
          Replies(_),  \* request -> the payloads the provider may return
          Malformed,   \* a payload whose results are no list
          MaxFaults    \* bound: failures of the provider and the network

ASSUME TimeAssumption == {Minute, Hour, Day} \subseteq Nat \ {0}

VARIABLES policy, limiter, cache, call, received, faults

clientVars == <<limiter, cache, call, received, faults>>

Windows == {"search_minute", "search_hour", "fetch_minute", "fetch_day"}

Span == [search_minute |-> Minute, search_hour |-> Hour, fetch_minute |-> Minute,
         fetch_day |-> Day]

(* The limits of a policy are positive, or TinyFishRateLimitPolicy raises. *)
ASSUME PolicyAssumption == \A p \in Policies : \A w \in Windows : p[w] \in Nat \ {0}

(* TTLCache has room for an entry, and its entries live from now on.       *)
ASSUME CacheAssumption == MaxEntries \in Nat \ {0} /\ CacheTtl \in Nat

WindowsOf(r) == IF r.op = "search" THEN {"search_minute", "search_hour"}
                ELSE {"fetch_minute", "fetch_day"}

Units(r) == IF r.op = "search" THEN 1 ELSE Len(r.urls)

Total(s) == SumFunction([i \in DOMAIN s |-> s[i].units])

Older(x, top) == [x EXCEPT !.age = IF @ < top THEN @ + 1 ELSE @]

Aged(s, top) == [i \in DOMAIN s |-> Older(s[i], top)]

NoCall == [pc |-> "none"]

NewLimiter == [w \in Windows |-> <<>>]

NewCache == [search |-> <<>>, fetch |-> <<>>]

ClientInit ==
    /\ policy \in Policies
    /\ limiter = NewLimiter
    /\ cache = NewCache
    /\ call = NoCall
    /\ received = {}
    /\ faults = 0

(* A process takes its limiter and cache with it; the next one starts with *)
(* empty ones of its own.                                                  *)
ProcessEnds ==
    /\ limiter' = NewLimiter
    /\ cache' = NewCache
    /\ call' = NoCall
    /\ received' = {}
    /\ UNCHANGED faults

-----------------------------------------------------------------------------
(* Faulty variant: the body is not part of the key.                          *)
BugFingerprint(r) == IF r.op = "fetch" THEN [op |-> "fetch"] ELSE r

(* Method, URL and body of a request: all there is to it.                  *)
Fingerprint(r) == r

(* Where the cache has the entry of a request: nowhere or at one place.    *)
Places(r) == {i \in DOMAIN cache[r.op] : cache[r.op][i].key = Fingerprint(r)}

(* What the caller gets of a payload: search and fetch look at its shape   *)
(* after the cache has taken it.                                           *)
Delivered(r, payload) ==
    IF payload = Malformed THEN [pc |-> "raised"]
    ELSE [pc |-> "done", request |-> r, payload |-> payload]

(* An entry that has not expired answers the call, and is the most recent. *)
AskCache(r) ==
    /\ call = NoCall
    /\ \E i \in Places(r) : \E e \in {cache[r.op][i]} :
          /\ e.age < CacheTtl
          /\ call' = Delivered(r, e.payload)
          /\ cache' = [cache EXCEPT ![r.op] = Append(RemoveAt(@, i), e)]
    /\ UNCHANGED <<limiter, received, faults>>

AskProvider(r) ==
    /\ call = NoCall
    /\ \A i \in Places(r) : cache[r.op][i].age >= CacheTtl
    /\ call' = [pc |-> "acquire", request |-> r, attempt |-> 1]
    /\ \/ Places(r) = {} /\ UNCHANGED cache
       \/ \E i \in Places(r) : cache' = [cache EXCEPT ![r.op] = RemoveAt(@, i)]
    /\ UNCHANGED <<limiter, received, faults>>

Ask(r) == AskCache(r) \/ AskProvider(r)

-----------------------------------------------------------------------------
(* The oldest entries go until one is young enough to stay.                *)
Pruned(w) ==
    LET young == {i \in DOMAIN limiter[w] : limiter[w][i].age < Span[w]}
    IN  IF young = {} THEN <<>> ELSE SubSeq(limiter[w], Min(young), Len(limiter[w]))

HasRoom(w, r) == Total(Pruned(w)) + Units(r) <= policy[w]

(* Faulty variant: a retry does not pass the limiter again.                  *)
BugAdmitted(r) == call.attempt > 1 \/ \A w \in WindowsOf(r) : HasRoom(w, r)

Admitted(r) == \A w \in WindowsOf(r) : HasRoom(w, r)

(* Every attempt passes the limiter; while there is no room it sleeps.     *)
Acquire ==
    /\ call.pc = "acquire"
    /\ Admitted(call.request)
    /\ limiter' = [w \in Windows |->
           IF w \in WindowsOf(call.request)
           THEN Append(Pruned(w), [age |-> 0, units |-> Units(call.request)])
           ELSE Pruned(w)]
    /\ call' = [call EXCEPT !.pc = "send"]
    /\ UNCHANGED <<cache, received, faults>>

(* TinyFishQuotaExceeded: the day has no room for the fetch.               *)
QuotaExceeded ==
    /\ call.pc = "acquire"
    /\ call.request.op = "fetch"
    /\ ~HasRoom("fetch_day", call.request)
    /\ call' = [pc |-> "raised"]
    /\ UNCHANGED <<limiter, cache, received, faults>>

(* A fetch larger than the minute's budget looks for the oldest entry of   *)
(* an empty window: an IndexError, which nothing on the way up expects.    *)
IndexFails ==
    /\ call.pc = "acquire"
    /\ call.request.op = "fetch"
    /\ HasRoom("fetch_day", call.request)
    /\ ~HasRoom("fetch_minute", call.request)
    /\ Pruned("fetch_minute") = <<>>
    /\ call' = [pc |-> "escaped"]
    /\ UNCHANGED <<limiter, cache, received, faults>>

(* What takes time: the sleep of the limiter and the provider's answer.    *)
Sleeping ==
    /\ call.pc = "acquire"
    /\ ~Admitted(call.request)
    /\ call.request.op = "fetch" =>
           HasRoom("fetch_day", call.request) /\ Pruned("fetch_minute") # <<>>

Waiting == call.pc = "send" \/ Sleeping

-----------------------------------------------------------------------------
(* A request that is received comes after all that were received before.   *)
Arrived ==
    LET r == call.request
    IN  {[e EXCEPT !.after = IF e.op = r.op THEN @ + Units(r) ELSE @] : e \in received}
        \cup {[op |-> r.op, age |-> 0, after |-> 0]}

Stored(r, payload) ==
    LET kept == IF Len(cache[r.op]) >= MaxEntries THEN Tail(cache[r.op]) ELSE cache[r.op]
    IN  IF CacheTtl = 0 THEN cache
        ELSE [cache EXCEPT ![r.op] =
                 Append(kept, [key |-> Fingerprint(r), payload |-> payload, age |-> 0])]

Succeed ==
    /\ call.pc = "send"
    /\ \E payload \in Replies(call.request) :
          /\ call' = Delivered(call.request, payload)
          /\ cache' = Stored(call.request, payload)
          /\ faults' = IF payload = Malformed THEN faults + 1 ELSE faults
    /\ faults' <= MaxFaults
    /\ received' = Arrived
    /\ UNCHANGED limiter

Fault ==
    /\ call.pc = "send"
    /\ faults < MaxFaults
    /\ faults' = faults + 1
    /\ received' \in {received, Arrived}
    /\ UNCHANGED <<limiter, cache>>

(* 429, 5xx, an unreachable host, a timeout: the next attempt, if any.     *)
FailAndRetry ==
    /\ Fault
    /\ call' = IF call.attempt < policy.attempts
               THEN [call EXCEPT !.pc = "acquire", !.attempt = @ + 1]
               ELSE [pc |-> "raised"]

(* Any other status, or an answer that is no JSON object.                  *)
FailForGood == Fault /\ call' = [pc |-> "raised"]

(* An error while the answer is read that is neither of the two the client *)
(* expects: a reset connection, an incomplete answer.                      *)
BreakOff == Fault /\ call' = [pc |-> "escaped"]

ClientStep ==
    \/ Acquire \/ QuotaExceeded \/ IndexFails
    \/ Succeed \/ FailAndRetry \/ FailForGood \/ BreakOff

ClientTick ==
    /\ limiter' = [w \in Windows |-> Aged(limiter[w], Span[w])]
    /\ cache' = [op \in DOMAIN cache |-> Aged(cache[op], CacheTtl)]
    /\ received' = {x \in {Older(e, Day) : e \in received} : x.age < Day}
    /\ UNCHANGED <<call, faults>>

-----------------------------------------------------------------------------
(* What reaches the provider within any span of a window stays within the  *)
(* budget, apart from the first request of the span, which may have been   *)
(* admitted before it and delayed on its way: whatever the retries and the *)
(* waiting calls do, acquire_search and acquire_fetch keep the headroom.   *)
BudgetRespected ==
    \A e \in received : \A w \in WindowsOf(e) : e.age < Span[w] => e.after <= policy[w]
=============================================================================
