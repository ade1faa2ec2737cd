------------------------- MODULE RateLimiterProofs -------------------------
(***************************************************************************)
(* Theorems about RateLimiter, for any number of keys and goroutines, any  *)
(* limit, window and size of the table: type correctness, that old keys do *)
(* not keep new ones out, and the bound on the rate of each key.           *)
(***************************************************************************)
EXTENDS RateLimiter, FiniteFacts, TLAPS

\* The last cleanup left nothing that it had to forget, and no request counted
\* since is much older than it.
SeenOK ==
    lastCleanup # None =>
        \A k \in Known(counters) : counters[k].lastSeen >= lastCleanup - 2 * Window

\* Times that were read lie behind the clock, at most MaxDelay.
TimesOK ==
    /\ lastCleanup # None => lastCleanup <= clock
    /\ \A c \in Caller : now[c] # None => /\ now[c] <= clock
                                         /\ clock <= now[c] + MaxDelay
                                         /\ key[c] \in Key

LimiterInv == TypeOK /\ SeenOK /\ TimesOK

-----------------------------------------------------------------------------

\* None is neither a time nor a key.
LEMMA NoneApart == ASSUME LimiterAssumption PROVE None \notin Time /\ None \notin Key
BY DEF LimiterAssumption, Time

\* At first there are no counters and no requests.
LEMMA LimiterInit == ASSUME LimiterAssumption, Init PROVE LimiterInv
<1>1. TypeOK
  BY DEF Init, TypeOK, Time, LimiterAssumption
<1>2. SeenOK /\ TimesOK
  BY DEF Init, SeenOK, TimesOK
<1>3. QED
  BY <1>1, <1>2 DEF LimiterInv

\* A counter that is counted up is a counter, seen at the time of the request.
LEMMA CountedType ==
    ASSUME LimiterAssumption, NEW w \in Counter \cup {None}, NEW n \in Time
    PROVE  Counted(w, n) \in Counter /\ Counted(w, n).lastSeen = n
<1>1. Limit \in Nat \ {0}
  BY DEF LimiterAssumption
<1>2. CASE w = None \/ n - w.windowStart >= Window
  BY <1>1, <1>2 DEF Counted, Counter
<1>3. CASE ~(w = None \/ n - w.windowStart >= Window)
  <2>1. w \in Counter /\ w.windowStart \in Time /\ w.count \in 1 .. Limit + 1
    BY <1>3 DEF Counter
  <2> DEFINE m == IF w.count > Limit THEN w.count ELSE w.count + 1
  <2>2. m \in 1 .. Limit + 1
    BY <1>1, <2>1
  <2>3. Counted(w, n) = [windowStart |-> w.windowStart, lastSeen |-> n, count |-> m]
    BY <1>3, <2>1 DEF Counted, Counter
  <2>4. QED
    BY <2>1, <2>2, <2>3 DEF Counter
<1>4. QED
  BY <1>2, <1>3

\* What a request finds: after a cleanup, nothing that has outlived its time.
LEMMA KeptSeen ==
    ASSUME LimiterAssumption, LimiterInv, NEW n \in Time
    PROVE  /\ Kept(n) \in [Key -> Counter \cup {None}]
           /\ \A k \in Known(Kept(n)) :
                 /\ Kept(n)[k] \in Counter
                 /\ Kept(n)[k].lastSeen \in Time
                 /\ CleanupDue(n) => Kept(n)[k].lastSeen >= n - 2 * Window
                 /\ ~CleanupDue(n) => /\ lastCleanup \in Time /\ n < lastCleanup + Window
                                      /\ Kept(n)[k].lastSeen >= lastCleanup - 2 * Window
<1> USE DEF LimiterInv, TypeOK
<1>1. Window \in Nat \ {0} /\ n \in Int
  BY DEF LimiterAssumption, Time
<1>2. Kept(n) \in [Key -> Counter \cup {None}]
  BY DEF Kept
<1>3. ASSUME NEW k \in Known(Kept(n))
      PROVE  /\ k \in Key /\ Kept(n)[k] = counters[k] /\ counters[k] \in Counter
             /\ counters[k].lastSeen \in Time
             /\ CleanupDue(n) => ~Outlived(counters[k], n)
  BY DEF Known, Kept, Counter
<1>4. ASSUME NEW k \in Known(Kept(n)), CleanupDue(n)
      PROVE  Kept(n)[k].lastSeen >= n - 2 * Window
  <2>1. counters[k] # None
    BY <1>3 DEF LimiterAssumption
  <2>2. counters[k].lastSeen \in Int
    BY <1>3 DEF Time
  <2>3. QED
    BY <1>1, <1>3, <1>4, <2>1, <2>2 DEF Outlived
<1>5. ASSUME NEW k \in Known(Kept(n)), ~CleanupDue(n)
      PROVE  /\ lastCleanup \in Time /\ n < lastCleanup + Window
             /\ Kept(n)[k].lastSeen >= lastCleanup - 2 * Window
  <2>1. lastCleanup \in Time /\ ~(n - lastCleanup >= Window)
    BY <1>5 DEF CleanupDue
  <2>2. n < lastCleanup + Window
    BY <1>1, <2>1 DEF Time
  <2>3. k \in Known(counters) /\ lastCleanup # None
    BY <1>3, <1>5 DEF Known, LimiterAssumption, CleanupDue
  <2>4. QED
    BY <1>3, <2>1, <2>2, <2>3 DEF SeenOK
<1>6. QED
  BY <1>2, <1>3, <1>4, <1>5

\* Allow keeps the invariant, and a key it refuses for want of room finds only
\* counters seen within three windows.
LEMMA AllowStep ==
    ASSUME LimiterAssumption, LimiterInv, NEW c \in Caller, Allow(c)
    PROVE  /\ LimiterInv'
           /\ counters'[key[c]] = None =>
                 \A k \in Known(counters') :
                    now[c] < counters'[k].lastSeen + 3 * Window
<1> DEFINE n == now[c]
           q == key[c]
<1>1. /\ n \in Time /\ q \in Key /\ clock \in Time
      /\ n <= clock /\ clock <= n + MaxDelay
      /\ Window \in Nat \ {0} /\ MaxDelay \in 0 .. Window - 1
  BY DEF Allow, LimiterInv, TypeOK, TimesOK, LimiterAssumption
<1> DEFINE w == Counted(Kept(n)[q], n)
<1> HIDE DEF n, q
<1>2. Kept(n) \in [Key -> Counter \cup {None}]
  BY <1>1, KeptSeen
<1>3. w \in Counter /\ w.lastSeen = n /\ w # None
  BY <1>1, <1>2, CountedType DEF LimiterAssumption
<1> HIDE DEF w
<1>4. \/ counters' = Kept(n) /\ UNCHANGED admitted
      \/ /\ counters' = [Kept(n) EXCEPT ![q] = w]
         /\ admitted' \in {admitted, [admitted EXCEPT ![q][0] = @ + 1]}
  BY DEF Allow, n, q, w
<1>5. /\ lastCleanup' = IF CleanupDue(n) THEN n ELSE lastCleanup
      /\ now' = [now EXCEPT ![c] = None] /\ key' = [key EXCEPT ![c] = None]
      /\ clock' = clock
  BY DEF Allow, n
<1>6. TypeOK'
  <2>1. counters' \in [Key -> Counter \cup {None}]
    BY <1>1, <1>2, <1>3, <1>4
  <2>2. admitted' \in [Key -> [Ages -> Nat]]
    <3>1. admitted \in [Key -> [Ages -> Nat]]
      BY DEF LimiterInv, TypeOK
    <3>2. 0 \in Ages
      BY <1>1 DEF Ages
    <3>3. [admitted EXCEPT ![q][0] = @ + 1] \in [Key -> [Ages -> Nat]]
      BY <1>1, <3>1, <3>2
    <3>4. QED
      BY <1>4, <3>1, <3>3
  <2>3. /\ lastCleanup' \in Time \cup {None}
        /\ now' \in [Caller -> Time \cup {None}]
        /\ key' \in [Caller -> Key \cup {None}]
    BY <1>1, <1>5 DEF LimiterInv, TypeOK
  <2>4. QED
    BY <1>1, <1>5, <2>1, <2>2, <2>3 DEF TypeOK
<1>7. TimesOK'
  BY <1>1, <1>5, NoneApart DEF LimiterInv, TypeOK, TimesOK
<1>8. \A k \in Known(counters') :
         \/ counters'[k] = w
         \/ k \in Known(Kept(n)) /\ counters'[k] = Kept(n)[k]
  BY <1>1, <1>2, <1>4 DEF Known
<1>9. SeenOK'
  <2>1. SUFFICES ASSUME lastCleanup' # None, NEW k \in Known(counters')
                 PROVE  counters'[k].lastSeen >= lastCleanup' - 2 * Window
    BY DEF SeenOK
  <2>2. CASE CleanupDue(n)
    <3>1. lastCleanup' = n
      BY <1>5, <2>2
    <3>2. n >= n - 2 * Window
      BY <1>1 DEF Time
    <3>3. QED
      BY <1>1, <1>3, <1>8, <2>2, <3>1, <3>2, KeptSeen
  <2>3. CASE ~CleanupDue(n)
    <3>1. lastCleanup' = lastCleanup
      BY <1>5, <2>3
    <3>2. lastCleanup \in Time /\ lastCleanup <= clock
      BY <2>1, <3>1 DEF LimiterInv, TypeOK, TimesOK
    <3>3. n >= lastCleanup - 2 * Window
      BY <1>1, <3>2 DEF Time
    <3>4. QED
      BY <1>1, <1>3, <1>8, <2>3, <3>1, <3>3, KeptSeen
  <2>4. QED
    BY <2>2, <2>3
<1>10. ASSUME counters'[q] = None, NEW k \in Known(counters')
       PROVE  n < counters'[k].lastSeen + 3 * Window
  <2>1. k \in Known(Kept(n)) /\ counters'[k] = Kept(n)[k]
    BY <1>1, <1>2, <1>3, <1>4, <1>10 DEF Known
  <2>2. Kept(n)[k].lastSeen \in Time
    BY <1>1, <2>1, KeptSeen
  <2>3. CASE CleanupDue(n)
    <3>1. Kept(n)[k].lastSeen >= n - 2 * Window
      BY <1>1, <2>1, <2>3, KeptSeen
    <3>2. QED
      BY <1>1, <2>1, <2>2, <3>1 DEF Time
  <2>4. CASE ~CleanupDue(n)
    <3>1. /\ lastCleanup \in Time /\ n < lastCleanup + Window
          /\ Kept(n)[k].lastSeen >= lastCleanup - 2 * Window
      BY <1>1, <2>1, <2>4, KeptSeen
    <3>2. QED
      BY <1>1, <2>1, <2>2, <3>1 DEF Time
  <2>5. QED
    BY <2>3, <2>4
<1>11. QED
  BY <1>6, <1>7, <1>9, <1>10 DEF LimiterInv, n, q

\* A time that was just read is the present.
LEMMA ReadTimeStep ==
    ASSUME LimiterAssumption, LimiterInv, NEW c \in Caller, NEW k \in Key,
           ReadTime(c, k)
    PROVE  LimiterInv'
<1>1. TypeOK'
  BY DEF LimiterInv, TypeOK, ReadTime
<1>2. TimesOK'
  BY DEF LimiterInv, TypeOK, TimesOK, ReadTime, Time, LimiterAssumption
<1>3. SeenOK'
  BY DEF LimiterInv, SeenOK, ReadTime, Known
<1>4. QED
  BY <1>1, <1>2, <1>3 DEF LimiterInv

\* The clock waits for requests whose time would fall too far behind.
LEMMA TickStep ==
    ASSUME LimiterAssumption, LimiterInv, Tick
    PROVE  LimiterInv'
<1>1. clock' \in Time /\ clock' = clock + 1 /\ clock \in Int
  BY DEF LimiterInv, TypeOK, Tick, Time, LimiterAssumption
<1>2. admitted' \in [Key -> [Ages -> Nat]]
  <2>1. \A i \in Ages : i # 0 => i - 1 \in Ages
    BY DEF Ages, LimiterAssumption
  <2>2. QED
    BY <2>1 DEF LimiterInv, TypeOK, Tick
<1>3. TypeOK'
  BY <1>1, <1>2 DEF LimiterInv, TypeOK, Tick
<1>4. TimesOK'
  <2>1. lastCleanup # None => lastCleanup <= clock + 1
    BY <1>1 DEF LimiterInv, TypeOK, TimesOK, Time
  <2>2. ASSUME NEW c \in Caller, now[c] # None
        PROVE  now[c] <= clock + 1 /\ clock + 1 <= now[c] + MaxDelay
    <3>1. now[c] \in Int /\ MaxDelay \in Int /\ now[c] <= clock
      BY <2>2 DEF LimiterInv, TypeOK, TimesOK, Time, LimiterAssumption
    <3>2. clock < now[c] + MaxDelay
      BY <2>2 DEF Tick
    <3>3. QED
      BY <1>1, <3>1, <3>2
  <2>3. QED
    BY <1>1, <2>1, <2>2 DEF LimiterInv, TimesOK, Tick
<1>5. SeenOK'
  BY DEF LimiterInv, SeenOK, Tick, Known
<1>6. QED
  BY <1>3, <1>4, <1>5 DEF LimiterInv

\* The invariant holds in every reachable state.
LEMMA InvCorrect == Spec => []LimiterInv
<1>1. Init => LimiterInv
  BY LimiterInit, LimiterAssumption
<1>2. LimiterInv /\ [Next]_vars => LimiterInv'
  <2>1. SUFFICES ASSUME LimiterInv, [Next]_vars  PROVE LimiterInv'
    OBVIOUS
  <2>2. CASE UNCHANGED vars
    BY <2>1, <2>2 DEF vars, LimiterInv, TypeOK, SeenOK, TimesOK, Known
  <2>3. QED
    BY <2>1, <2>2, AllowStep, ReadTimeStep, TickStep, LimiterAssumption DEF Next
<1>3. QED
  BY <1>1, <1>2, PTL DEF Spec

\* Allow keeps the types of its counters; a count stops one past the limit.
THEOREM TypeCorrect == Spec => []TypeOK
BY InvCorrect, PTL DEF LimiterInv

\* Allow refuses a key for want of room only while all that take the room were
\* seen within three windows, in whatever order requests get the mutex.
THEOREM RoomCorrect == Spec => RoomIsFreed
<1> DEFINE A == \A c \in Caller :
              now[c] # None /\ now'[c] = None /\ counters'[key[c]] = None =>
                 \A k \in Known(counters') :
                    now[c] < counters'[k].lastSeen + 3 * Window
<1>1. LimiterInv /\ [Next]_vars => [A]_vars
  <2>1. SUFFICES ASSUME LimiterInv, Next, NEW c \in Caller,
                        now[c] # None, now'[c] = None, counters'[key[c]] = None
                 PROVE  \A k \in Known(counters') :
                           now[c] < counters'[k].lastSeen + 3 * Window
    OBVIOUS
  <2>2. now \in [Caller -> Time \cup {None}] /\ clock \in Time
    BY <2>1 DEF LimiterInv, TypeOK
  <2>3. CASE Tick
    BY <2>1, <2>3 DEF Tick
  <2>4. ASSUME NEW d \in Caller, Allow(d)  PROVE d = c
    BY <2>1, <2>2, <2>4 DEF Allow
  <2>5. ASSUME NEW d \in Caller, NEW k \in Key, ReadTime(d, k)  PROVE FALSE
    BY <2>1, <2>2, <2>5, NoneApart, LimiterAssumption DEF ReadTime
  <2>6. QED
    BY <2>1, <2>3, <2>4, <2>5, AllowStep, LimiterAssumption DEF Next
<1>2. QED
  BY <1>1, InvCorrect, PTL DEF Spec, RoomIsFreed

-----------------------------------------------------------------------------
(* The bound on the rate.  What a key was let through lately splits into   *)
(* the requests counted in its current window and those of the window      *)
(* before, each within the limit.  When a window begins, the window before *)
(* the last has passed out of memory: a request is let through at most     *)
(* MaxDelay after the time it is counted at, and the ages that RateBound   *)
(* looks at end that much short of a window.  A counter is forgotten only  *)
(* when all its requests have passed too.                                  *)

\* How the requests let through for k split between its last two windows.
Split(k, current, previous) ==
    /\ \A i \in Ages : admitted[k][i] = current[i] + previous[i]
    /\ SumFunctionOnSet(current, Ages) <= counters[k].count
    /\ SumFunctionOnSet(current, Ages) <= Limit
    /\ SumFunctionOnSet(previous, Ages) <= Limit
    /\ \A i \in Ages : previous[i] > 0 =>
           clock - i <= counters[k].windowStart + MaxDelay

\* No request of k was let through later than its counter was seen.
SeenLast(k) ==
    \A i \in Ages : admitted[k][i] > 0 =>
        clock - i <= counters[k].lastSeen + MaxDelay

Quiet(k) == \A i \in Ages : admitted[k][i] = 0

WindowsOK ==
    \A k \in Key :
        /\ counters[k] = None => Quiet(k)
        /\ counters[k] # None =>
              /\ SeenLast(k)
              /\ \E current, previous \in [Ages -> Nat] : Split(k, current, previous)

\* The ticks that RateBound looks back on, from the present one.
LEMMA AgesOK ==
    ASSUME LimiterAssumption
    PROVE  /\ Window \in Nat \ {0} /\ MaxDelay \in Nat /\ Limit \in Nat \ {0}
           /\ Window - MaxDelay - 1 \in Nat
           /\ Ages = 0 .. Window - MaxDelay - 1 /\ 0 \in Ages
           /\ IsFiniteSet(Ages)
           /\ \A i \in Ages : i \in Nat /\ i < Window - MaxDelay
<1>1. Window \in Nat \ {0} /\ MaxDelay \in 0 .. Window - 1 /\ Limit \in Nat \ {0}
  BY DEF LimiterAssumption
<1>2. Window - MaxDelay - 1 \in Nat
  BY <1>1
<1>3. IsFiniteSet(0 .. Window - MaxDelay - 1)
  BY <1>2, FS_Interval
<1>4. QED
  BY <1>1, <1>2, <1>3 DEF Ages

\* What the parts of a counter are.
LEMMA CounterFields ==
    ASSUME LimiterAssumption, LimiterInv, NEW k \in Key, counters[k] # None
    PROVE  /\ counters[k] \in Counter
           /\ counters[k].windowStart \in Nat /\ counters[k].lastSeen \in Nat
           /\ counters[k].count \in Nat
  BY DEF LimiterInv, TypeOK, LimiterAssumption, Counter, Time

\* Numbers of requests let through are numbers.
LEMMA AdmittedNat ==
    ASSUME LimiterInv, NEW k \in Key
    PROVE  admitted[k] \in [Ages -> Nat] /\ \A i \in Ages : admitted[k][i] \in Nat
  BY DEF LimiterInv, TypeOK

\* A counter that a request with time n forgets has nothing left to remember.
LEMMA ForgottenQuiet ==
    ASSUME LimiterAssumption, LimiterInv, WindowsOK,
           NEW n \in Time, n <= clock, NEW k \in Key, Kept(n)[k] = None
    PROVE  Quiet(k)
<1>1. CASE counters[k] = None
  BY <1>1 DEF WindowsOK
<1>2. CASE counters[k] # None
  <2>1. n - counters[k].lastSeen > 2 * Window
    BY <1>2 DEF Kept, Outlived
  <2>2. SeenLast(k)
    BY <1>2 DEF WindowsOK
  <2>3. ASSUME NEW i \in Ages, admitted[k][i] # 0
        PROVE  FALSE
    <3>1. admitted[k][i] > 0
      BY <2>3, AdmittedNat
    <3>2. clock - i <= counters[k].lastSeen + MaxDelay
      BY <2>2, <3>1 DEF SeenLast
    <3>3. /\ clock \in Int /\ n \in Int /\ n <= clock
          /\ counters[k].lastSeen \in Nat
      BY <1>2, CounterFields DEF LimiterInv, TypeOK, Time
    <3>4. /\ i \in Nat /\ i < Window - MaxDelay
          /\ Window \in Nat /\ MaxDelay \in Nat
      BY AgesOK
    <3>5. QED
      BY <2>1, <3>2, <3>3, <3>4
  <2>4. QED
    BY <2>3 DEF Quiet
<1>3. QED
  BY <1>1, <1>2

\* A request that opens a window finds at most the requests of one window.
LEMMA OpenedSum ==
    ASSUME LimiterAssumption, LimiterInv, WindowsOK,
           NEW n \in Time, n <= clock, NEW k \in Key,
           Kept(n)[k] = None \/ n - Kept(n)[k].windowStart >= Window
    PROVE  SumFunctionOnSet(admitted[k], Ages) <= Limit
<1>1. CASE Kept(n)[k] = None
  <2>1. \A i \in Ages : admitted[k][i] = 0
    BY <1>1, ForgottenQuiet DEF Quiet
  <2>2. SumFunctionOnSet(admitted[k], Ages) = 0
    BY <2>1, AgesOK, SumZero
  <2>3. QED
    BY <2>2, AgesOK
<1>2. CASE Kept(n)[k] # None
  <2>1. Kept(n)[k] = counters[k] /\ counters[k] # None
    BY <1>2 DEF Kept
  <2>2. PICK current \in [Ages -> Nat], previous \in [Ages -> Nat] :
            Split(k, current, previous)
    BY <2>1 DEF WindowsOK
  <2>3. ASSUME NEW i \in Ages
        PROVE  admitted[k][i] = current[i]
    <3>1. /\ clock \in Int /\ n \in Int /\ n <= clock
          /\ counters[k].windowStart \in Nat
          /\ n - counters[k].windowStart >= Window
      BY <1>2, <2>1, CounterFields DEF LimiterInv, TypeOK, Time
    <3>2. /\ i \in Nat /\ i < Window - MaxDelay
          /\ Window \in Nat /\ MaxDelay \in Nat
      BY AgesOK
    <3>3. ~(clock - i <= counters[k].windowStart + MaxDelay)
      BY <3>1, <3>2
    <3>4. previous[i] \in Nat /\ current[i] \in Nat /\ ~(previous[i] > 0)
      BY <2>2, <3>3 DEF Split
    <3>5. admitted[k][i] = current[i] + previous[i]
      BY <2>2 DEF Split
    <3>6. QED
      BY <3>4, <3>5
  <2>4. SumFunctionOnSet(admitted[k], Ages) = SumFunctionOnSet(current, Ages)
    BY <2>3, AgesOK, SumSame
  <2>5. QED
    BY <2>2, <2>4 DEF Split
<1>3. QED
  BY <1>1, <1>2

\* Counting one more request in the current window.
LEMMA OneMore ==
    ASSUME LimiterAssumption, NEW f \in [Ages -> Nat]
    PROVE  /\ [f EXCEPT ![0] = @ + 1] \in [Ages -> Nat]
           /\ SumFunctionOnSet([f EXCEPT ![0] = @ + 1], Ages)
                = SumFunctionOnSet(f, Ages) + 1
<1> DEFINE g == [f EXCEPT ![0] = @ + 1]
<1>1. /\ 0 \in Ages /\ IsFiniteSet(Ages) /\ 1 \in Nat
      /\ \A i \in Ages : f[i] \in Nat
  BY AgesOK
<1>2. g \in [Ages -> Nat] /\ g[0] = f[0] + 1 /\ \A i \in Ages \ {0} : g[i] = f[i]
  BY <1>1
<1> HIDE DEF g
<1>3. SumFunctionOnSet(g, Ages) = SumFunctionOnSet(f, Ages) + 1
  BY <1>1, <1>2, SumUpdate
<1>4. QED
  BY <1>2, <1>3 DEF g

\* Their sum is one, too.
LEMMA SumOfAges ==
    ASSUME LimiterAssumption, NEW f \in [Ages -> Nat]
    PROVE  SumFunctionOnSet(f, Ages) \in Nat
  BY AgesOK, SumNat

\* Opening a window, and joining one: the request is let through.
LEMMA OpensWindow ==
    ASSUME LimiterAssumption, LimiterInv, WindowsOK, UNCHANGED clock,
           NEW n \in Time, n <= clock, clock <= n + MaxDelay, NEW k \in Key,
           Kept(n)[k] = None \/ n - Kept(n)[k].windowStart >= Window,
           counters'[k] = [windowStart |-> n, lastSeen |-> n, count |-> 1],
           admitted'[k] = [admitted[k] EXCEPT ![0] = @ + 1]
    PROVE  \E current, previous \in [Ages -> Nat] : Split(k, current, previous)'
<1>1. PICK previous \in [Ages -> Nat] : previous = admitted[k]
  BY AdmittedNat
<1>2. PICK current \in [Ages -> Nat] :
         /\ SumFunctionOnSet(current, Ages) = 1
         /\ \A i \in Ages : current[i] = IF i = 0 THEN 1 ELSE 0
  <2> DEFINE zero == [i \in Ages |-> 0]
             one == [zero EXCEPT ![0] = @ + 1]
  <2>1. zero \in [Ages -> Nat] /\ 0 \in Ages
    BY AgesOK
  <2>2. SumFunctionOnSet(zero, Ages) = 0
    BY AgesOK, SumZero
  <2>3. one \in [Ages -> Nat] /\ SumFunctionOnSet(one, Ages) = 1
    BY <2>1, <2>2, OneMore
  <2>4. \A i \in Ages : one[i] = IF i = 0 THEN 1 ELSE 0
    BY <2>1
  <2> HIDE DEF one
  <2>5. QED
    BY <2>3, <2>4
<1>3. \A i \in Ages : admitted'[k][i] = current[i] + previous[i]
  BY <1>1, <1>2, AgesOK
<1>4. SumFunctionOnSet(previous, Ages) <= Limit /\ 1 <= Limit
  BY <1>1, OpenedSum, AgesOK
<1>5. \A i \in Ages : clock' - i <= n + MaxDelay
  BY AgesOK DEF LimiterInv, TypeOK, Time
<1>6. Split(k, current, previous)'
  BY <1>2, <1>3, <1>4, <1>5 DEF Split
<1>7. QED
  BY <1>1, <1>2, <1>6

\* A request that finds its window open counts in it, up to the limit.
LEMMA JoinsWindow ==
    ASSUME LimiterAssumption, LimiterInv, WindowsOK, UNCHANGED clock,
           NEW n \in Time, NEW k \in Key, counters[k] # None,
           counters'[k] = Counted(counters[k], n),
           ~(n - counters[k].windowStart >= Window),
           admitted'[k] = IF counters'[k].count <= Limit
                          THEN [admitted[k] EXCEPT ![0] = @ + 1]
                          ELSE admitted[k]
    PROVE  \E current, previous \in [Ages -> Nat] : Split(k, current, previous)'
<1>1. PICK before \in [Ages -> Nat], previous \in [Ages -> Nat] :
         Split(k, before, previous)
  BY DEF WindowsOK
<1> DEFINE v == counters[k]
           m == IF v.count > Limit THEN v.count ELSE v.count + 1
<1>2. /\ v \in Counter /\ v.windowStart \in Nat /\ v.count \in Nat
      /\ counters'[k].windowStart = v.windowStart
      /\ counters'[k].count = m
  <2>1. v \in Counter /\ v.windowStart \in Nat /\ v.count \in Nat
    BY CounterFields
  <2>2. Counted(v, n) = [v EXCEPT !.lastSeen = n, !.count = m]
    BY DEF Counted
  <2>3. QED
    BY <2>1, <2>2 DEF Counter
<1>3. Limit \in Nat /\ 0 \in Ages
  BY AgesOK
<1>4. /\ \A i \in Ages : admitted[k][i] = before[i] + previous[i]
      /\ SumFunctionOnSet(before, Ages) \in Nat
      /\ SumFunctionOnSet(before, Ages) <= v.count
      /\ SumFunctionOnSet(before, Ages) <= Limit
      /\ SumFunctionOnSet(previous, Ages) <= Limit
      /\ \A i \in Ages : previous[i] > 0 =>
             clock' - i <= counters'[k].windowStart + MaxDelay
  BY <1>1, <1>2, SumOfAges DEF Split
<1>5. CASE m <= Limit
  <2>1. PICK current \in [Ages -> Nat] : current = [before EXCEPT ![0] = @ + 1]
    BY OneMore
  <2>2. SumFunctionOnSet(current, Ages) = SumFunctionOnSet(before, Ages) + 1
    BY <2>1, OneMore
  <2>3. \A i \in Ages : admitted'[k][i] = current[i] + previous[i]
    BY <1>2, <1>3, <1>4, <1>5, <2>1, AdmittedNat
  <2>4. m = v.count + 1
    BY <1>2, <1>3, <1>5
  <2> HIDE DEF m, v
  <2>5. /\ SumFunctionOnSet(current, Ages) <= m
        /\ SumFunctionOnSet(current, Ages) <= Limit
    BY <1>2, <1>3, <1>4, <1>5, <2>2, <2>4
  <2>6. Split(k, current, previous)'
    BY <1>2, <1>4, <2>3, <2>5 DEF Split
  <2>7. QED
    BY <2>6
<1>6. CASE ~(m <= Limit)
  <2>1. admitted'[k] = admitted[k]
    BY <1>2, <1>6
  <2>2. SumFunctionOnSet(before, Ages) <= m
    BY <1>2, <1>3, <1>4
  <2> HIDE DEF m, v
  <2>3. Split(k, before, previous)'
    BY <1>2, <1>4, <2>1, <2>2 DEF Split
  <2>4. QED
    BY <2>3
<1>7. QED
  BY <1>5, <1>6

\* Allow keeps the requests let through divided between two windows.
LEMMA AllowWindows ==
    ASSUME LimiterAssumption, LimiterInv, WindowsOK, NEW c \in Caller, Allow(c)
    PROVE  WindowsOK'
<1>1. PICK n \in Time, q \in Key :
         /\ n = now[c] /\ q = key[c] /\ n <= clock /\ clock <= n + MaxDelay
         /\ UNCHANGED clock
  BY DEF Allow, LimiterInv, TypeOK, TimesOK
<1>2. /\ Kept(n) \in [Key -> Counter \cup {None}]
      /\ admitted \in [Key -> [Ages -> Nat]]
  BY KeptSeen DEF LimiterInv, TypeOK
<1>3. PICK w :
         /\ w = Counted(Kept(n)[q], n)
         /\ \/ counters' = Kept(n) /\ UNCHANGED admitted
            \/ /\ counters' = [Kept(n) EXCEPT ![q] = w]
               /\ admitted' = IF w.count <= Limit
                              THEN [admitted EXCEPT ![q][0] = @ + 1] ELSE admitted
  BY <1>1 DEF Allow
<1>4. ASSUME NEW k \in Key, counters'[k] = Kept(n)[k], admitted'[k] = admitted[k]
      PROVE  /\ counters'[k] = None => Quiet(k)'
             /\ counters'[k] # None =>
                   /\ SeenLast(k)'
                   /\ \E current, previous \in [Ages -> Nat] :
                         Split(k, current, previous)'
  <2>1. CASE Kept(n)[k] = None
    BY <1>1, <1>4, <2>1, ForgottenQuiet DEF Quiet
  <2>2. CASE Kept(n)[k] # None
    <3>1. counters'[k] = counters[k] /\ counters[k] # None
      BY <1>4, <2>2 DEF Kept
    <3>2. PICK current \in [Ages -> Nat], previous \in [Ages -> Nat] :
              Split(k, current, previous)
      BY <3>1 DEF WindowsOK
    <3>3. Split(k, current, previous)'
      BY <1>1, <1>4, <3>1, <3>2 DEF Split
    <3>4. SeenLast(k)'
      BY <1>1, <1>4, <3>1 DEF WindowsOK, SeenLast
    <3>5. QED
      BY <3>1, <3>3, <3>4
  <2>3. QED
    BY <2>1, <2>2
<1>5. ASSUME counters'[q] # Kept(n)[q] \/ admitted'[q] # admitted[q]
      PROVE  /\ counters'[q] # None
             /\ SeenLast(q)'
             /\ \E current, previous \in [Ages -> Nat] :
                   Split(q, current, previous)'
  <2>1. /\ counters'[q] = w
        /\ admitted'[q] = IF w.count <= Limit
                          THEN [admitted[q] EXCEPT ![0] = @ + 1] ELSE admitted[q]
    BY <1>1, <1>2, <1>3, <1>5
  <2>2. w \in Counter /\ w.lastSeen = n /\ w # None
    BY <1>2, <1>3, CountedType DEF LimiterAssumption
  <2>3. SeenLast(q)'
    BY <1>1, <2>1, <2>2, AgesOK DEF SeenLast, LimiterInv, TypeOK, Time
  <2>4. CASE Kept(n)[q] = None \/ n - Kept(n)[q].windowStart >= Window
    <3>1. w = [windowStart |-> n, lastSeen |-> n, count |-> 1] /\ 1 <= Limit
      BY <1>3, <2>4, AgesOK DEF Counted
    <3>2. QED
      BY <1>1, <2>1, <2>2, <2>3, <2>4, <3>1, OpensWindow
  <2>5. CASE ~(Kept(n)[q] = None \/ n - Kept(n)[q].windowStart >= Window)
    <3>1. Kept(n)[q] = counters[q] /\ counters[q] # None
      BY <1>1, <2>5 DEF Kept
    <3>2. counters'[q] = Counted(counters[q], n)
      BY <1>3, <2>1, <3>1
    <3>3. QED
      BY <1>1, <2>1, <2>2, <2>3, <2>5, <3>1, <3>2, JoinsWindow
  <2>6. QED
    BY <2>4, <2>5
<1>6. \A k \in Key \ {q} : counters'[k] = Kept(n)[k] /\ admitted'[k] = admitted[k]
  BY <1>1, <1>2, <1>3
<1>7. QED
  BY <1>4, <1>5, <1>6 DEF WindowsOK

\* The clock moves on: every request is one tick older.
LEMMA TickWindows ==
    ASSUME LimiterAssumption, LimiterInv, WindowsOK, Tick
    PROVE  WindowsOK'
<1>1. /\ UNCHANGED counters /\ clock' = clock + 1 /\ clock \in Int
      /\ \A k \in Key, i \in Ages :
            admitted'[k][i] = IF i = 0 THEN 0 ELSE admitted[k][i - 1]
  BY DEF Tick, LimiterInv, TypeOK, Time
<1>2. \A i \in Ages : i \in Nat /\ (i # 0 => i - 1 \in Ages)
  BY AgesOK DEF Ages
<1>3. ASSUME NEW k \in Key
      PROVE  /\ Quiet(k) => Quiet(k)'
             /\ SeenLast(k) => SeenLast(k)'
  <2>1. ASSUME Quiet(k), NEW i \in Ages  PROVE admitted'[k][i] = 0
    BY <1>1, <1>2, <2>1 DEF Quiet
  <2>2. ASSUME SeenLast(k), NEW i \in Ages, admitted'[k][i] > 0
        PROVE  clock' - i <= counters'[k].lastSeen + MaxDelay
    <3>1. i # 0 /\ admitted[k][i - 1] > 0 /\ i - 1 \in Ages /\ i \in Nat
      BY <1>1, <1>2, <2>2
    <3>2. clock - (i - 1) <= counters[k].lastSeen + MaxDelay
      BY <2>2, <3>1 DEF SeenLast
    <3>3. clock' - i = clock - (i - 1)
      BY <1>1, <3>1
    <3>4. QED
      BY <1>1, <3>2, <3>3
  <2>3. QED
    BY <2>1, <2>2 DEF Quiet, SeenLast
<1>4. ASSUME NEW k \in Key, counters[k] # None
      PROVE  \E current, previous \in [Ages -> Nat] : Split(k, current, previous)'
  <2>1. PICK c \in [Ages -> Nat], p \in [Ages -> Nat] : Split(k, c, p)
    BY <1>4 DEF WindowsOK
  <2>2. ASSUME NEW f \in [Ages -> Nat]
        PROVE  \E g \in [Ages -> Nat] :
                  /\ \A i \in Ages : g[i] = IF i = 0 THEN 0 ELSE f[i - 1]
                  /\ SumFunctionOnSet(g, Ages) \in Nat
                  /\ SumFunctionOnSet(g, Ages) <= SumFunctionOnSet(f, Ages)
    <3> DEFINE g == [i \in Ages |-> IF i = 0 THEN 0 ELSE f[i - 1]]
               m == Window - MaxDelay - 1
    <3>1. /\ g \in [Ages -> Nat]
          /\ \A i \in Ages : g[i] = IF i = 0 THEN 0 ELSE f[i - 1]
      BY <1>2
    <3>2. m \in Nat /\ Ages = 0 .. m
      BY AgesOK
    <3> HIDE DEF g, m
    <3>3. /\ \A i \in 0 .. m : f[i] \in Nat
          /\ g[0] = 0 /\ \A i \in 1 .. m : g[i] = f[i - 1]
      BY <3>1, <3>2
    <3>4. SumFunctionOnSet(g, 0 .. m) <= SumFunctionOnSet(f, 0 .. m)
      BY <3>2, <3>3, SumShift
    <3>5. QED
      BY <3>1, <3>2, <3>4, SumOfAges
  <2>3. PICK current \in [Ages -> Nat] :
            /\ \A i \in Ages : current[i] = IF i = 0 THEN 0 ELSE c[i - 1]
            /\ SumFunctionOnSet(current, Ages) \in Nat
            /\ SumFunctionOnSet(current, Ages) <= SumFunctionOnSet(c, Ages)
    BY <2>2
  <2>4. PICK previous \in [Ages -> Nat] :
            /\ \A i \in Ages : previous[i] = IF i = 0 THEN 0 ELSE p[i - 1]
            /\ SumFunctionOnSet(previous, Ages) \in Nat
            /\ SumFunctionOnSet(previous, Ages) <= SumFunctionOnSet(p, Ages)
    BY <2>2
  <2>5. /\ \A i \in Ages : admitted[k][i] = c[i] + p[i]
        /\ SumFunctionOnSet(c, Ages) <= counters[k].count
        /\ SumFunctionOnSet(c, Ages) <= Limit
        /\ SumFunctionOnSet(p, Ages) <= Limit
        /\ \A i \in Ages : p[i] > 0 => clock - i <= counters[k].windowStart + MaxDelay
    BY <2>1 DEF Split
  <2>6. \A i \in Ages : admitted'[k][i] = current[i] + previous[i]
    BY <1>1, <1>2, <2>3, <2>4, <2>5
  <2>7. /\ SumFunctionOnSet(current, Ages) <= counters'[k].count
        /\ SumFunctionOnSet(current, Ages) <= Limit
        /\ SumFunctionOnSet(previous, Ages) <= Limit
    <3>1. /\ SumFunctionOnSet(c, Ages) \in Nat /\ SumFunctionOnSet(p, Ages) \in Nat
          /\ counters[k].count \in Nat /\ Limit \in Nat
      BY <1>4, SumOfAges, CounterFields, AgesOK
    <3>2. QED
      BY <1>1, <2>3, <2>4, <2>5, <3>1
  <2>8. ASSUME NEW i \in Ages, previous[i] > 0
        PROVE  clock' - i <= counters'[k].windowStart + MaxDelay
    <3>1. i # 0 /\ p[i - 1] > 0 /\ i - 1 \in Ages /\ i \in Nat
      BY <1>2, <2>4, <2>8
    <3>2. clock - (i - 1) <= counters[k].windowStart + MaxDelay
      BY <2>5, <3>1
    <3>3. clock' - i = clock - (i - 1)
      BY <1>1, <3>1
    <3>4. QED
      BY <1>1, <3>2, <3>3
  <2>9. Split(k, current, previous)'
    BY <2>6, <2>7, <2>8 DEF Split
  <2>10. QED
    BY <2>9
<1>5. QED
  BY <1>1, <1>3, <1>4 DEF WindowsOK

\* Requests let through belong to the current window or the one before it, in
\* every reachable state.
LEMMA WindowsCorrect == Spec => []WindowsOK
<1>1. Init => WindowsOK
  BY DEF Init, WindowsOK, Quiet
<1>2. LimiterInv /\ WindowsOK /\ [Next]_vars => WindowsOK'
  <2>1. SUFFICES ASSUME LimiterInv, WindowsOK, [Next]_vars  PROVE WindowsOK'
    OBVIOUS
  <2>2. CASE UNCHANGED <<clock, counters, admitted>>
    BY <2>1, <2>2 DEF WindowsOK, Quiet, SeenLast, Split
  <2>3. ASSUME NEW c \in Caller, NEW k \in Key, ReadTime(c, k)
        PROVE  WindowsOK'
    BY <2>2, <2>3 DEF ReadTime
  <2>4. CASE UNCHANGED vars
    BY <2>2, <2>4 DEF vars
  <2>5. QED
    BY <2>1, <2>3, <2>4, AllowWindows, TickWindows, LimiterAssumption DEF Next
<1>3. QED
  BY <1>1, <1>2, InvCorrect, PTL DEF Spec

\* No window of time, less the longest wait for the mutex, lets through more
\* requests of a key than two full windows.
THEOREM RateCorrect == Spec => []RateBound
<1>1. LimiterInv /\ WindowsOK => RateBound
  <2>1. SUFFICES ASSUME LimiterInv, WindowsOK, NEW k \in Key
                 PROVE  SumFunctionOnSet(admitted[k], Ages) <= 2 * Limit
    BY DEF RateBound
  <2>2. CASE counters[k] = None
    <3>1. SumFunctionOnSet(admitted[k], Ages) = 0
      <4>1. \A i \in Ages : admitted[k][i] = 0
        BY <2>1, <2>2 DEF WindowsOK, Quiet
      <4>2. QED
        BY <4>1, AgesOK, LimiterAssumption, SumZero
    <3>2. QED
      BY <3>1, AgesOK, LimiterAssumption
  <2>3. CASE counters[k] # None
    <3>1. PICK current \in [Ages -> Nat], previous \in [Ages -> Nat] :
              Split(k, current, previous)
      BY <2>1, <2>3 DEF WindowsOK
    <3>2. SumFunctionOnSet(admitted[k], Ages)
            = SumFunctionOnSet(current, Ages) + SumFunctionOnSet(previous, Ages)
      <4>1. \A i \in Ages : /\ current[i] \in Nat /\ previous[i] \in Nat
                            /\ admitted[k][i] = current[i] + previous[i]
        BY <3>1 DEF Split
      <4>2. IsFiniteSet(Ages)
        BY AgesOK, LimiterAssumption
      <4>3. QED
        BY <4>1, <4>2, SumPlus
    <3>3. /\ SumFunctionOnSet(current, Ages) \in Nat
          /\ SumFunctionOnSet(previous, Ages) \in Nat /\ Limit \in Nat
      BY <3>1, SumOfAges, AgesOK, LimiterAssumption
    <3>4. QED
      BY <3>1, <3>2, <3>3 DEF Split
  <2>4. QED
    BY <2>2, <2>3
<1>2. QED
  BY <1>1, InvCorrect, WindowsCorrect, PTL
=============================================================================
