----------------------------- MODULE RateLimit -----------------------------
(***************************************************************************)
(* The limit on the concurrent requests of one app (core/app/features/      *)
(* rate_limiting/rate_limit.py) as AppGenerateService.generate uses it.     *)
(*                                                                          *)
(* Every API process keeps one RateLimit object per app; what the processes *)
(* share is in Redis: the limit, and a hash from the id of each admitted    *)
(* request to the time it was admitted.  Counting the hash and adding to it *)
(* are two calls, a request that dies leaves its entry behind, and an entry *)
(* older than ten minutes is dropped by whichever process next recalculates.*)
(***************************************************************************)
EXTENDS Integers, FiniteSets

CONSTANTS
    Processes,   \* the API processes
    Threads,     \* the threads (or greenlets) that serve requests
    ProcessOf,   \* the process each thread belongs to
    Ids, NoId,   \* request ids; a value that is none of them
    Limits,      \* the values App.max_active_requests takes; 0 is unlimited
    MaxLimit,    \* their maximum
    NoLimit,     \* the Redis key that holds the limit does not exist
    MaxCrashes   \* bound: process crashes

ASSUME ThreadAssumption == IsFiniteSet(Threads) /\ ProcessOf \in [Threads -> Processes]
ASSUME LimitAssumption  ==
    /\ MaxLimit \in Nat \ {0}
    /\ Limits \subseteq 0..MaxLimit
    /\ NoLimit \notin 0..MaxLimit
ASSUME IdAssumption     == NoId \notin Ids
ASSUME CrashAssumption  == MaxCrashes \in Nat

VARIABLES
    appMax,    \* App.max_active_requests
    redisMax,  \* max_active_requests_key
    active,    \* the fields of active_requests_key
    aged,      \* ids admitted more than _REQUEST_MAX_ALIVE_TIME ago
    inited,    \* per process: the RateLimit object is initialized
    localMax,  \* per process: self.max_active_requests
    due,       \* per process: last_recalculate_time is five minutes ago
    pc,        \* per thread: where it is in AppGenerateService.generate
    id,        \* per thread: the id of its request, NoId when not counted
    crashes    \* process crashes so far

shared == <<redisMax, active, aged>>
local  == <<inited, localMax, due>>
limitVars == <<appMax, shared, local, pc, id, crashes>>

-----------------------------------------------------------------------------

InHand == {id[t] : t \in Threads}
Disabled(p) == localMax[p] = 0

\* Mutant of Flush: no entry is ever dropped.
FlushNothing == UNCHANGED <<active, aged>>

\* The part of flush_cache that drops the entries that are too old.
Flush ==
    /\ active' = active \ aged
    /\ aged' = aged \cap InHand

\* RateLimit(app.id, max): __new__ finds the object of the process, __init__
\* takes the limit it is given, and the first time that this is not zero writes
\* it to Redis and flushes the hash.
Construct(t) ==
    LET p == ProcessOf[t]
        first == appMax # 0 /\ ~inited[p]
    IN
    /\ pc[t] = "idle"
    /\ localMax' = [localMax EXCEPT ![p] = appMax]
    /\ IF first
       THEN /\ inited' = [inited EXCEPT ![p] = TRUE]
            /\ due' = [due EXCEPT ![p] = FALSE]
            /\ redisMax' = appMax
            /\ Flush
       ELSE UNCHANGED <<inited, due, shared>>
    /\ pc' = [pc EXCEPT ![t] = "enter"]
    /\ UNCHANGED <<appMax, id, crashes>>

\* enter(), unlimited.
EnterUnlimited(t) ==
    /\ pc[t] = "enter"
    /\ Disabled(ProcessOf[t])
    /\ pc' = [pc EXCEPT ![t] = "running"]
    /\ UNCHANGED <<appMax, shared, local, id, crashes>>

\* Mutant of Enter: the limit is read from Redis whether or not it is there.
EnterTrusts(t) ==
    LET p == ProcessOf[t] IN
    /\ pc[t] = "enter"
    /\ ~Disabled(p)
    /\ IF due[p]
       THEN /\ due' = [due EXCEPT ![p] = FALSE]
            /\ localMax' = [localMax EXCEPT ![p] = redisMax]
            /\ UNCHANGED redisMax
            /\ Flush
       ELSE UNCHANGED <<due, localMax, shared>>
    /\ pc' = [pc EXCEPT ![t] = "count"]
    /\ UNCHANGED <<appMax, inited, id, crashes>>

\* enter(), up to the count: a recalculation when one is due (flush_cache), in
\* which the limit in Redis replaces the local one if it is there.
Enter(t) ==
    LET p == ProcessOf[t] IN
    /\ pc[t] = "enter"
    /\ ~Disabled(p)
    /\ IF due[p]
       THEN /\ due' = [due EXCEPT ![p] = FALSE]
            /\ IF redisMax = NoLimit
               THEN redisMax' = localMax[p] /\ UNCHANGED localMax
               ELSE localMax' = [localMax EXCEPT ![p] = redisMax] /\ UNCHANGED redisMax
            /\ Flush
       ELSE UNCHANGED <<due, localMax, shared>>
    /\ pc' = [pc EXCEPT ![t] = "count"]
    /\ UNCHANGED <<appMax, inited, id, crashes>>

\* Mutant of Full: an off-by-one.
FullOffByOne(p) == Cardinality(active) > localMax[p]

Full(p) == Cardinality(active) >= localMax[p]

\* hlen of the hash: too many, AppInvokeQuotaExceededError.  The exit() of the
\* except clause removes a field that is not there.
Reject(t) ==
    /\ pc[t] = "count"
    /\ Full(ProcessOf[t])
    /\ pc' = [pc EXCEPT ![t] = "idle"]
    /\ UNCHANGED <<appMax, shared, local, id, crashes>>

Pass(t) ==
    /\ pc[t] = "count"
    /\ ~Full(ProcessOf[t])
    /\ pc' = [pc EXCEPT ![t] = "add"]
    /\ UNCHANGED <<appMax, shared, local, id, crashes>>

\* gen_request_key(): a uuid, so an id that is in use nowhere.
FreshIds == Ids \ (active \cup InHand)
NewId == CHOOSE i \in FreshIds : TRUE

\* hset of the new id.
Add(t) ==
    /\ pc[t] = "add"
    /\ FreshIds # {}
    /\ active' = active \cup {NewId}
    /\ id' = [id EXCEPT ![t] = NewId]
    /\ pc' = [pc EXCEPT ![t] = "running"]
    /\ UNCHANGED <<appMax, redisMax, aged, local, crashes>>

\* Mutant of Exit: exit() drops every request of the app.
ExitAll(t) ==
    /\ pc[t] = "running"
    /\ active' = {} /\ aged' = aged \ {id[t]}
    /\ id' = [id EXCEPT ![t] = NoId]
    /\ pc' = [pc EXCEPT ![t] = "idle"]
    /\ UNCHANGED <<appMax, redisMax, local, crashes>>

\* The request is over: exit(), from the generator's end, error or close, or
\* from the finally clause of a blocking request.  Nothing for an unlimited one.
Exit(t) ==
    /\ pc[t] = "running"
    /\ active' = active \ {id[t]} /\ aged' = aged \ {id[t]}
    /\ id' = [id EXCEPT ![t] = NoId]
    /\ pc' = [pc EXCEPT ![t] = "idle"]
    /\ UNCHANGED <<appMax, redisMax, local, crashes>>

\* A streaming request whose call raised openai's RateLimitError: turned into
\* InvokeRateLimitError, with no exit().
ProviderLimit(t) ==
    /\ pc[t] = "running"
    /\ id' = [id EXCEPT ![t] = NoId]
    /\ pc' = [pc EXCEPT ![t] = "idle"]
    /\ aged' = aged \cap (active \cup {id[u] : u \in Threads \ {t}})
    /\ UNCHANGED <<appMax, redisMax, active, local, crashes>>

\* A process dies with its requests; their entries stay in Redis.
Crash(p) ==
    /\ crashes < MaxCrashes
    /\ crashes' = crashes + 1
    /\ inited' = [inited EXCEPT ![p] = FALSE]
    /\ localMax' = [localMax EXCEPT ![p] = 0]
    /\ due' = [due EXCEPT ![p] = FALSE]
    /\ pc' = [t \in Threads |-> IF ProcessOf[t] = p THEN "idle" ELSE pc[t]]
    /\ id' = [t \in Threads |-> IF ProcessOf[t] = p THEN NoId ELSE id[t]]
    /\ aged' = aged \cap (active \cup {id[u] : u \in {t \in Threads : ProcessOf[t] # p}})
    /\ UNCHANGED <<appMax, redisMax, active>>

\* Time: ten minutes for an entry, five for a process, a day for the key.
Age(i) ==
    /\ i \in active \ aged
    /\ aged' = aged \cup {i}
    /\ UNCHANGED <<appMax, redisMax, active, local, pc, id, crashes>>

FlushDue(p) ==
    /\ inited[p] /\ ~due[p]
    /\ due' = [due EXCEPT ![p] = TRUE]
    /\ UNCHANGED <<appMax, shared, inited, localMax, pc, id, crashes>>

RedisMaxExpires ==
    /\ redisMax # NoLimit
    /\ redisMax' = NoLimit
    /\ UNCHANGED <<appMax, active, aged, local, pc, id, crashes>>

\* The owner of the app changes its limit.
Configure(l) ==
    /\ appMax # l
    /\ appMax' = l
    /\ UNCHANGED <<shared, local, pc, id, crashes>>

-----------------------------------------------------------------------------

LimitInit ==
    /\ appMax \in Limits
    /\ redisMax = NoLimit /\ active = {} /\ aged = {}
    /\ inited = [p \in Processes |-> FALSE]
    /\ localMax = [p \in Processes |-> 0]
    /\ due = [p \in Processes |-> FALSE]
    /\ pc = [t \in Threads |-> "idle"]
    /\ id = [t \in Threads |-> NoId]
    /\ crashes = 0

Admission(t) ==
    \/ Construct(t) \/ EnterUnlimited(t) \/ Enter(t)
    \/ Reject(t) \/ Pass(t) \/ Add(t)

Time == \/ \E i \in Ids : Age(i)
        \/ \E p \in Processes : FlushDue(p)

LimitNext ==
    \/ \E t \in Threads : Admission(t) \/ Exit(t) \/ ProviderLimit(t)
    \/ \E p \in Processes : Crash(p)
    \/ \E l \in Limits : Configure(l)
    \/ Time \/ RedisMaxExpires

LimitSpec == LimitInit /\ [][LimitNext]_limitVars

(* Requests keep arriving and are served, each ends, and time passes.       *)
FairLimitSpec ==
    /\ LimitSpec
    /\ \A t \in Threads : WF_limitVars(Admission(t)) /\ WF_limitVars(Exit(t))
    /\ \A i \in Ids : WF_limitVars(Age(i))
    /\ \A p \in Processes : WF_limitVars(FlushDue(p))

-----------------------------------------------------------------------------
(* Properties.                                                              *)

\* Every variable has its type.
LimitTypeOK ==
    /\ appMax \in Limits
    /\ redisMax \in Limits \cup {NoLimit}
    /\ active \in SUBSET Ids /\ aged \in SUBSET Ids
    /\ inited \in [Processes -> BOOLEAN]
    /\ localMax \in [Processes -> Limits \cup {0}]
    /\ due \in [Processes -> BOOLEAN]
    /\ pc \in [Threads -> {"idle", "enter", "count", "add", "running"}]
    /\ id \in [Threads -> Ids \cup {NoId}]
    /\ crashes \in 0..MaxCrashes

\* The threads between the count and the hset.
Adding == {t \in Threads : pc[t] = "add"}

\* However many entries crashes and provider limits have left behind, and
\* whatever limits came and went, the hash never holds more than the largest
\* limit plus the requests that were counting at the same time: the two calls
\* of enter() let the limit be exceeded by the threads that race, and no more.
BoundedOvershoot ==
    Cardinality(active) + Cardinality(Adding) <= MaxLimit - 1 + Cardinality(Threads)

\* A counted request that runs is in the hash until it is ten minutes old: no
\* crash, flush, or exit of another request frees its place.
LiveAreCounted ==
    \A t \in Threads : pc[t] = "running" /\ id[t] # NoId => id[t] \in active \cup aged

\* A full hash empties again, also one filled by requests that died: as long as
\* requests keep arriving, some are served.
KeepsServing == []<>(\E t \in Threads : pc[t] = "running")
=============================================================================
