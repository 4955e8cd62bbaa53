---------------------------- MODULE RateLimiter -----------------------------
(***************************************************************************)
(* The fixed-window rate limiter (app/security.py), for one client: no two *)
(* clients share a counter.  Every worker process asks the same Redis      *)
(* counter of the current window, and falls back to a counter of its own   *)
(* when Redis fails it; Redis keeps its counters over a failure.  INCR and *)
(* EXPIRE are two awaits, and the window they are about is chosen before   *)
(* them.                                                                   *)
(*                                                                         *)
(* A definition marked "mutant" is no part of the model: see MemoryStore.  *)
(***************************************************************************)
EXTENDS Naturals, FiniteSets

CONSTANTS Workers,     \* processes serving requests
          Requests,    \* requests of the client, each made once
          Limit,       \* RATE_LIMIT_PER_MINUTE
          MaxWindow,   \* bound on time: the last window of window_seconds
          AllowFaults  \* whether Redis fails

ASSUME WorkersAssumption == IsFiniteSet(Workers)
ASSUME LimitAssumption == Limit \in Nat
ASSUME MaxWindowAssumption == MaxWindow \in Nat
ASSUME AllowFaultsAssumption == AllowFaults \in BOOLEAN

Windows == 0 .. MaxWindow

VARIABLES
    window,     \* int(time.time()) // window_seconds
    count,      \* the Redis counter of each window, 0 if there is none
    expires,    \* the counters Redis has been told to expire
    local,      \* each worker's _memory entry
    pc,         \* the await a request is at
    asked,      \* the window its Redis key names
    charged,    \* history: the windows whose counters it may have raised
    admitted,   \* history: requests let through on each window's account
    faulty      \* history: Redis has failed a request

clientVars == <<pc, asked>>
vars == <<window, count, expires, local, clientVars, charged, admitted, faulty>>

TypeOK ==
    /\ window \in Windows
    /\ count \in [Windows -> 0 .. Cardinality(Requests)]
    /\ expires \subseteq {w \in Windows : count[w] > 0}
    /\ local \in [Workers -> [count : 0 .. Cardinality(Requests), start : Windows]]
    /\ pc \in [Requests -> {"new", "incr", "expire", "served", "throttled"}]
    /\ asked \in [Requests -> Windows]
    /\ charged \in [Requests -> SUBSET Windows]
    /\ admitted \in [Windows -> 0 .. Cardinality(Requests)]
    /\ faulty \in BOOLEAN

Init ==
    /\ window = 0
    /\ count = [w \in Windows |-> 0]
    /\ expires = {}
    /\ local = [k \in Workers |-> [count |-> 0, start |-> 0]]
    /\ pc = [r \in Requests |-> "new"]
    /\ asked = [r \in Requests |-> 0]
    /\ charged = [r \in Requests |-> {}]
    /\ admitted = [w \in Windows |-> 0]
    /\ faulty = FALSE

-----------------------------------------------------------------------------
\* The middleware calls allow(), and a limit of 0 disables it.
Arrive(r) ==
    /\ pc[r] = "new"
    /\ pc' = [pc EXCEPT ![r] = IF Limit = 0 THEN "served" ELSE "incr"]
    /\ asked' = [asked EXCEPT ![r] = window]
    /\ UNCHANGED <<window, count, expires, local, charged, admitted, faulty>>

\* mutant: the limit is passed by one.
WithinOffByOne(n) == n <= Limit + 1

Within(n) == n <= Limit

\* The request is let through, or answered with a 429.
Answer(r, n, w) ==
    \/ /\ Within(n)
       /\ pc' = [pc EXCEPT ![r] = "served"]
       /\ admitted' = [admitted EXCEPT ![w] = @ + 1]
    \/ /\ ~Within(n)
       /\ pc' = [pc EXCEPT ![r] = "throttled"]
       /\ UNCHANGED admitted

\* mutant: one key for all windows.
KeyOfClient(r) == 0

\* ratelimit:{client_id}:{window}
Key(r) == asked[r]

\* mutant: only a counter that was there already is given an expiry.
RepeatInWindow(n) == n > 1

\* if count == 1
FirstOfWindow(n) == n = 1

Incr(r) ==
    /\ pc[r] = "incr"
    /\ LET n == count[Key(r)] + 1 IN
       /\ count' = [count EXCEPT ![Key(r)] = n]
       /\ \/ /\ FirstOfWindow(n)
             /\ pc' = [pc EXCEPT ![r] = "expire"]
             /\ UNCHANGED admitted
          \/ /\ ~FirstOfWindow(n)
             /\ Answer(r, n, asked[r])
    /\ charged' = [charged EXCEPT ![r] = @ \cup {asked[r]}]
    /\ UNCHANGED <<window, expires, local, asked, faulty>>

\* mutant: the window is asked for again after the await.
ExpireNow(r) ==
    /\ pc[r] = "expire"
    /\ expires' = expires \cup {window}
    /\ Answer(r, 1, asked[r])
    /\ UNCHANGED <<window, count, local, asked, charged, faulty>>

\* EXPIRE, by the request that INCR answered with 1.
Expire(r) ==
    /\ pc[r] = "expire"
    /\ expires' = expires \cup {Key(r)}
    /\ Answer(r, 1, asked[r])
    /\ UNCHANGED <<window, count, local, asked, charged, faulty>>

\* mutant: the entry is never reset.
EntryKept(k) == local[k].count

\* The worker's count of the current window so far.
Entry(k) == IF local[k].start = window THEN local[k].count ELSE 0

\* Redis refuses, or times out with the command done: _allow_memory answers,
\* from the window it is now, in whichever worker serves the request.  A
\* counter may be left without expiry.
FallBack(r) ==
    /\ AllowFaults
    /\ pc[r] \in {"incr", "expire"}
    /\ \/ UNCHANGED <<count, expires>>
       \/ /\ pc[r] = "incr"
          /\ count' = [count EXCEPT ![Key(r)] = @ + 1]
          /\ UNCHANGED expires
       \/ /\ pc[r] = "expire"
          /\ expires' = expires \cup {Key(r)}
          /\ UNCHANGED count
    /\ \E k \in Workers :
        /\ local' = [local EXCEPT ![k] = [count |-> Entry(k) + 1, start |-> window]]
        /\ Answer(r, Entry(k) + 1, window)
    /\ charged' = [charged EXCEPT ![r] = @ \cup {asked[r], window}]
    /\ faulty' = TRUE
    /\ UNCHANGED <<window, asked>>

-----------------------------------------------------------------------------
Tick ==
    /\ window < MaxWindow
    /\ window' = window + 1
    /\ UNCHANGED <<count, expires, local, clientVars, charged, admitted, faulty>>

\* Redis removes a key window_seconds after EXPIRE: not in the key's window.
Evict(w) ==
    /\ w \in expires
    /\ w < window
    /\ count' = [count EXCEPT ![w] = 0]
    /\ expires' = expires \ {w}
    /\ UNCHANGED <<window, local, clientVars, charged, admitted, faulty>>

Next ==
    \/ \E r \in Requests : Arrive(r) \/ Incr(r) \/ Expire(r) \/ FallBack(r)
    \/ Tick
    \/ \E w \in Windows : Evict(w)

Spec == Init /\ [][Next]_vars

\* Awaits return, time passes, and Redis expires what it was told to expire.
FairSpec ==
    /\ Spec
    /\ \A r \in Requests : WF_vars(Incr(r)) /\ WF_vars(Expire(r))
    /\ WF_vars(Tick)
    /\ \A w \in Windows : WF_vars(Evict(w))

-----------------------------------------------------------------------------
\* A shared limit: while Redis answers, all workers together let no more than
\* Limit requests through on a window's account before the window is over.
WindowShare == ~faulty => admitted[window] <= Limit

\* Failing open has a price, and this is all of it: as long as a window
\* lasts, Redis lets through Limit requests and each worker Limit of its own,
\* however Redis comes and goes in it.
FailOpenIsBounded == admitted[window] <= Limit * (1 + Cardinality(Workers))

\* No client within its limit is throttled, by either counter, whatever was
\* counted twice or in another window: a 429 means that more than Limit
\* requests were charged to one window.
ThrottledOnlyAboveLimit ==
    \A r \in Requests : pc[r] = "throttled" =>
        \E w \in charged[r] : Cardinality({q \in Requests : w \in charged[q]}) > Limit

\* Redis does not fill up with the counters of past windows, although INCR
\* and EXPIRE are two calls: while nothing fails between them, a counter
\* of a past window goes away.
CountersExpire ==
    \A w \in Windows : w < MaxWindow => (count[w] > 0 ~> count[w] = 0 \/ faulty)
=============================================================================
