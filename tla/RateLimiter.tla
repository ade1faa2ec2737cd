----------------------------- MODULE RateLimiter ----------------------------
(***************************************************************************)
(* The in-memory request limiter of one Relay Controller.  A request reads *)
(* the time, waits for the mutex and is counted in the fixed window of its *)
(* key, so requests can be counted out of the order of their times.  The   *)
(* number of keys is bounded; a cleanup, at most one per window, forgets   *)
(* keys that were not seen for two.                                        *)
(***************************************************************************)
EXTENDS Integers, FiniteSets, Functions

CONSTANTS
    Key,            \* what rateKey returns: namespaces and addresses
    Caller,         \* goroutines that run Allow
    Limit,          \* requestsPerMinute
    Window,         \* rateWindow in ticks of the clock
    MaxCounters,    \* maxRateCounters
    MaxDelay,       \* bound: ticks from reading the time to the mutex
    MaxTime,        \* bound: the last tick
    None

Time == 0 .. MaxTime

\* Only whether count has passed the limit matters, so it stops one past it.
Counter == [windowStart : Time, lastSeen : Time, count : 1 .. Limit + 1]

ASSUME LimiterAssumption ==
    /\ Limit \in Nat \ {0} /\ Window \in Nat \ {0} /\ MaxCounters \in Nat \ {0}
    /\ MaxDelay \in 0 .. Window - 1 /\ MaxTime \in Nat
    /\ None \notin Int \cup Key \cup Counter
    /\ IsFiniteSet(Key)

VARIABLES
    clock,
    counters,       \* the counter of each key, or None
    lastCleanup,    \* None is the zero time
    now,            \* the time a caller has read, None if it is not in Allow
    key,            \* the key it counts
    admitted        \* history: requests let through, by key and age in ticks

vars == <<clock, counters, lastCleanup, now, key, admitted>>

Ages == 0 .. Window - MaxDelay - 1

TypeOK ==
    /\ clock \in Time
    /\ counters \in [Key -> Counter \cup {None}]
    /\ lastCleanup \in Time \cup {None}
    /\ now \in [Caller -> Time \cup {None}]
    /\ key \in [Caller -> Key \cup {None}]
    /\ admitted \in [Key -> [Ages -> Nat]]

Init ==
    /\ clock = 0
    /\ counters = [k \in Key |-> None]
    /\ lastCleanup = None
    /\ now = [c \in Caller |-> None]
    /\ key = [c \in Caller |-> None]
    /\ admitted = [k \in Key |-> [i \in Ages |-> 0]]

-----------------------------------------------------------------------------

\* The time is read before the mutex is taken.
ReadTime(c, k) ==
    /\ now[c] = None
    /\ now' = [now EXCEPT ![c] = clock]
    /\ key' = [key EXCEPT ![c] = k]
    /\ UNCHANGED <<clock, counters, lastCleanup, admitted>>

\* Mutant: cleanup waits for the time to live instead of the window.
CleanupDueLate(n) == lastCleanup = None \/ n - lastCleanup >= 2 * Window

CleanupDue(n) == lastCleanup = None \/ n - lastCleanup >= Window

Outlived(w, n) == w # None /\ n - w.lastSeen > 2 * Window

\* The counters that a request with time n finds.
Kept(n) == IF CleanupDue(n)
           THEN [k \in Key |-> IF Outlived(counters[k], n) THEN None ELSE counters[k]]
           ELSE counters

Known(table) == {k \in Key : table[k] # None}

Full(k, n) == Kept(n)[k] = None /\ Cardinality(Known(Kept(n))) >= MaxCounters

\* Mutant: the request that opens a window is not counted.
CountedFromZero(w, n) ==
    IF w = None \/ n - w.windowStart >= Window
    THEN [windowStart |-> n, lastSeen |-> n, count |-> 0]
    ELSE [w EXCEPT !.lastSeen = n, !.count = IF @ > Limit THEN @ ELSE @ + 1]

\* Mutant: a key is seen when its window starts.
CountedAtStart(w, n) ==
    IF w = None \/ n - w.windowStart >= Window
    THEN [windowStart |-> n, count |-> 1,
          lastSeen |-> IF w = None THEN n ELSE w.lastSeen]
    ELSE [w EXCEPT !.count = IF @ > Limit THEN @ ELSE @ + 1]

Counted(w, n) ==
    IF w = None \/ n - w.windowStart >= Window
    THEN [windowStart |-> n, lastSeen |-> n, count |-> 1]
    ELSE [w EXCEPT !.lastSeen = n, !.count = IF @ > Limit THEN @ ELSE @ + 1]

\* What the mutex protects, once the caller has it.
Allow(c) ==
    /\ now[c] # None
    /\ lastCleanup' = IF CleanupDue(now[c]) THEN now[c] ELSE lastCleanup
    /\ IF Full(key[c], now[c])
       THEN counters' = Kept(now[c]) /\ UNCHANGED admitted
       ELSE LET w == Counted(Kept(now[c])[key[c]], now[c]) IN
            /\ counters' = [Kept(now[c]) EXCEPT ![key[c]] = w]
            /\ admitted' = IF w.count <= Limit
                           THEN [admitted EXCEPT ![key[c]][0] = @ + 1]
                           ELSE admitted
    /\ now' = [now EXCEPT ![c] = None]
    /\ key' = [key EXCEPT ![c] = None]
    /\ UNCHANGED clock

\* Nobody waits longer than MaxDelay for the mutex.
Tick ==
    /\ clock < MaxTime
    /\ \A c \in Caller : now[c] # None => clock < now[c] + MaxDelay
    /\ clock' = clock + 1
    /\ admitted' = [k \in Key |-> [i \in Ages |->
                       IF i = 0 THEN 0 ELSE admitted[k][i - 1]]]
    /\ UNCHANGED <<counters, lastCleanup, now, key>>

Next == \/ \E c \in Caller : Allow(c) \/ \E k \in Key : ReadTime(c, k)
        \/ Tick

Spec == Init /\ [][Next]_vars

-----------------------------------------------------------------------------
(* Properties.                                                             *)

\* README: "a bounded per-instance safety limit".  No window of time, less the
\* longest wait for the mutex, lets through more requests of a key than two
\* full windows, though requests are counted out of order and counters are
\* forgotten and begun anew.
RateBound ==
    \A k \in Key : SumFunctionOnSet(admitted[k], Ages) <= 2 * Limit

\* README:64: "API requests allowed per namespace and process each minute".  The
\* minutes are those of Allow's windows.  Where the end of one meets the start
\* of the next, a key is let through more often in even less than a minute.
MinuteLimit ==
    \A k \in Key : SumFunctionOnSet(admitted[k], Ages) <= Limit

\* A key is refused for want of room only while every key that takes the room
\* was seen within the last three windows: old keys do not keep new ones out.
RoomIsFreed ==
    [][\A c \in Caller :
        now[c] # None /\ now'[c] = None /\ counters'[key[c]] = None =>
           \A k \in Known(counters') : now[c] < counters'[k].lastSeen + 3 * Window]_vars
=============================================================================
