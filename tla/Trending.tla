------------------------------ MODULE Trending ------------------------------
(***************************************************************************)
(* The trending GIFs a server process keeps: concurrent callers, a fetch   *)
(* that is slow or fails, and the age of what is answered.                 *)
(***************************************************************************)
EXTENDS Integers

CONSTANTS Caller,
          Ttl,      \* trending_cache_ttl
          MaxTime,  \* bound: the clock
          MaxAsks   \* bound: calls of each caller

VARIABLES now,
          call,   \* per caller: step, the time it asked, its calls so far
          mutex,  \* the caller that holds trending_cache, or "free"
          cache,  \* expires_at of the list kept and when it was fetched; 0 for none
          last    \* when the last successful fetch ended (ghost)

vars == <<now, call, mutex, cache, last>>

Init ==
  /\ now = 1
  /\ call = [c \in Caller |-> [pc |-> "idle", asked |-> 0, got |-> 0, asks |-> 0]]
  /\ mutex = "free" /\ cache = [expires |-> 0, fetched |-> 0] /\ last = 0

Tick == now < MaxTime /\ now' = now + 1 /\ UNCHANGED <<call, mutex, cache, last>>

(* The time is read before the mutex is waited for. *)
Ask(c) ==
  /\ call[c].pc = "idle" /\ call[c].asks < MaxAsks
  /\ call' = [call EXCEPT ![c] = [pc |-> "lock", asked |-> now, got |-> 0, asks |-> @.asks + 1]]
  /\ UNCHANGED <<now, mutex, cache, last>>

FreshByNow(c) == cache.expires > now

Fresh(c) == cache.expires > call[c].asked

Lock(c) ==
  /\ call[c].pc = "lock" /\ mutex = "free"
  /\ \/ /\ Fresh(c)
        /\ call' = [call EXCEPT ![c].pc = "idle", ![c].got = cache.fetched]
        /\ UNCHANGED mutex
     \/ ~Fresh(c) /\ call' = [call EXCEPT ![c].pc = "fetch"] /\ mutex' = c
  /\ UNCHANGED <<now, cache, last>>

(* Giphy's answer, good or not, after any time: the list is kept, the mutex let go. *)
Fetched(c) ==
  /\ call[c].pc = "fetch"
  /\ call' = [call EXCEPT ![c].pc = "idle", ![c].got = now]
  /\ mutex' = "free" /\ cache' = [expires |-> now + Ttl, fetched |-> now] /\ last' = now
  /\ UNCHANGED now

(* A failed fetch, or a caller that went away. *)
Fail(c) ==
  /\ call[c].pc \in {"lock", "fetch"}
  /\ call' = [call EXCEPT ![c].pc = "idle"]
  /\ mutex' = IF mutex = c THEN "free" ELSE mutex
  /\ UNCHANGED <<now, cache, last>>

Next == Tick \/ \E c \in Caller : Ask(c) \/ Lock(c) \/ Fetched(c) \/ Fail(c)

Spec == Init /\ [][Next]_vars
-----------------------------------------------------------------------------
TypeOK ==
  /\ now \in 1 .. MaxTime /\ mutex \in Caller \cup {"free"}
  /\ \A c \in Caller : call[c].pc \in {"idle", "lock", "fetch"}
  /\ cache.expires \in 0 .. MaxTime + Ttl

(* An answer was fetched less than the cache's lifetime before the caller asked, however long    *)
(* the caller waited for the mutex (trending).                                                   *)
AnswersFresh == \A c \in Caller : call[c].got # 0 => call[c].got + Ttl > call[c].asked

(* "single-flight": callers that asked before a fetch ended do not fetch again, they take what   *)
(* it brought (trending compares the lifetime with the time the caller asked).                   *)
SingleFlight == \A c \in Caller : call[c].pc = "fetch" => last = 0 \/ call[c].asked >= last + Ttl

(* Whoever waits for the mutex gets an answer that is fresh for the time it asked, and no fetch *)
(* repeats one that was ended since (trending).                                                 *)
TrendingSound == AnswersFresh /\ SingleFlight
=============================================================================
