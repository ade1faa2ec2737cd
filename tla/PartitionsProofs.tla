-------------------------- MODULE PartitionsProofs --------------------------
(***************************************************************************)
(* Theorems about Partitions, for every number of replicas and failures    *)
(* and every retention: type correctness, RetainedRows, HourlyAudit and    *)
(* NoConflict.  All follow from one invariant, PartitionInv.               *)
(***************************************************************************)
EXTENDS Partitions, TLAPS

Aged(b) == b + Retention <= clock

\* The clock never is earlier than a run's reading of it.
ClockOK ==
    /\ Retention <= clock
    /\ \A r \in Replica :
          /\ at[r] <= clock
          /\ pc[r] # "idle" => Retention <= at[r]

\* A partition a run has read is still there, unless its age allowed a drop.
SeenOK == \A r \in Replica : \A b \in seen[r] : b \in bounds \/ Aged(b)

\* Adding the boundaries new leaves no hour within retention without one of
\* its own below a later boundary.
Gapless(new) ==
    \A g \in Hour : /\ clock <= g + Retention
                    /\ \E n \in new : g < n
                    => g + 1 \in new \cup bounds

PendingOK ==
    /\ \A r \in Replica : pc[r] = "reorganize" => Gapless(New(r))
    /\ \A o \in orphans :
          /\ o.op = "reorganize" => Gapless(o.boundaries)
          /\ o.op = "drop" => \A b \in o.boundaries : Aged(b)

\* Before the first failure, the lock protects what its holder has read.
LockOK ==
    failures = 0 =>
        /\ orphans = {}
        /\ \A r \in Replica :
              /\ pc[r] \in {"read", "reorganize", "drop", "unlock"} => lock = r
              /\ pc[r] = "reorganize" => seen[r] = bounds
              /\ pc[r] = "drop" => seen[r] \subseteq bounds

PartitionInv ==
    TypeOK /\ ClockOK /\ SeenOK /\ Gapless(bounds) /\ PendingOK /\ LockOK

-----------------------------------------------------------------------------

\* New boundaries are boundaries, however long the outage was.
LEMMA NewBoundaries ==
    ASSUME RetentionAssumption, NEW old \in SUBSET Boundary, NEW hour \in Hour,
           Retention <= hour
    PROVE  PartitionBoundaries(old, hour) \subseteq Boundary
BY DEF RetentionAssumption, PartitionBoundaries, Boundary, Hour

\* What a run sends has the type of a statement.
LEMMA SentType ==
    ASSUME RetentionAssumption, TypeOK, ClockOK, NEW r \in Replica
    PROVE  Sent(r) \subseteq Statement
<1>1. pc[r] = "reorganize" => New(r) \subseteq Boundary
  BY NewBoundaries DEF TypeOK, ClockOK, New
<1>2. Old(r) \subseteq Boundary
  BY DEF TypeOK, Old, Expired
<1>3. QED
  BY <1>1, <1>2 DEF Sent, Statement

\* What a run has sent is as harmless when it takes effect without the run.
LEMMA SentOK ==
    ASSUME RetentionAssumption, TypeOK, ClockOK, PendingOK,
           NEW r \in Replica, NEW o \in Sent(r)
    PROVE  /\ o.op = "reorganize" => Gapless(o.boundaries)
           /\ o.op = "drop" => \A b \in o.boundaries : Aged(b)
<1>1. o.op = "reorganize" => Gapless(o.boundaries)
  BY DEF Sent, PendingOK
<1>2. \A b \in Old(r) : Aged(b)
  BY DEF TypeOK, ClockOK, Old, Expired, Aged, RetentionAssumption, Hour, Boundary
<1>3. QED
  BY <1>1, <1>2 DEF Sent

\* A later clock and a drop of aged partitions change nothing for the hours
\* within retention.
LEMMA GaplessStable ==
    ASSUME RetentionAssumption, NEW new \in SUBSET Boundary,
           clock \in Hour, clock' \in Hour, clock <= clock',
           \A b \in bounds \ bounds' : Aged(b), Gapless(new)
    PROVE  Gapless(new)'
<1> SUFFICES ASSUME NEW g \in Hour, clock' <= g + Retention,
                    NEW n \in new, g < n
             PROVE  g + 1 \in new \cup bounds'
  BY DEF Gapless, Hour
<1>1. g + 1 \in new \cup bounds
  BY RetentionAssumption DEF Gapless, RetentionAssumption, Hour
<1>2. ~Aged(g + 1)
  BY RetentionAssumption DEF Aged, RetentionAssumption, Hour
<1>3. QED
  BY <1>1, <1>2

\* So is the table itself, when it grows by boundaries without a gap.
LEMMA GaplessTable ==
    ASSUME RetentionAssumption, NEW new \in SUBSET Boundary, Gapless(new),
           clock \in Hour, clock' \in Hour, clock <= clock',
           bounds \subseteq Boundary, Gapless(bounds),
           bounds' \subseteq bounds \cup new, new \subseteq bounds',
           \A b \in bounds \ bounds' : Aged(b)
    PROVE  Gapless(bounds)'
<1> SUFFICES ASSUME NEW g \in Hour, clock' <= g + Retention,
                    NEW n \in bounds', g < n
             PROVE  g + 1 \in bounds'
  BY DEF Gapless, Hour
<1>1. g + 1 \in new \cup bounds
  BY RetentionAssumption DEF Gapless, RetentionAssumption, Hour
<1>2. ~Aged(g + 1)
  BY RetentionAssumption DEF Aged, RetentionAssumption, Hour
<1>3. QED
  BY <1>1, <1>2

\* The statement a run sends first continues, without a gap, the partitions
\* the run has just read.
LEMMA ReadGapless ==
    ASSUME RetentionAssumption, TypeOK, ClockOK, Gapless(bounds),
           NEW hour \in Hour, Retention <= hour, hour <= clock
    PROVE  Gapless(PartitionBoundaries(bounds, hour))
<1> DEFINE new == PartitionBoundaries(bounds, hour)
<1> SUFFICES ASSUME NEW g \in Hour, clock <= g + Retention,
                    NEW n \in new, g < n, g + 1 \notin new
             PROVE  g + 1 \in bounds
  BY DEF Gapless
<1>1. g + 1 \in hour - Retention + 1 .. hour + FutureHours + 1
  BY DEF PartitionBoundaries, RetentionAssumption, TypeOK, Hour
<1>2. PICK c \in bounds : ~(c < g + 1)
  BY <1>1 DEF PartitionBoundaries
<1>3. g < c
  BY <1>2 DEF TypeOK, Hour, Boundary, RetentionAssumption
<1>4. QED
  BY <1>3 DEF Gapless

-----------------------------------------------------------------------------
(* The invariant, conjunct by conjunct.                                    *)

\* There are no rows at first, and no statement is under way.
LEMMA InitInv == RetentionAssumption /\ Init => PartitionInv
<1> SUFFICES ASSUME RetentionAssumption, Init
             PROVE  PartitionInv
  OBVIOUS
<1>1. TypeOK
  BY DEF Init, TypeOK, RetentionAssumption, Hour
<1>2. ClockOK
  BY DEF Init, ClockOK, RetentionAssumption
<1>3. SeenOK /\ Gapless(bounds) /\ PendingOK /\ LockOK
  BY DEF Init, SeenOK, Gapless, PendingOK, LockOK
<1>4. QED
  BY <1>1, <1>2, <1>3 DEF PartitionInv

\* Every step keeps the types.
LEMMA TypeStep ==
    ASSUME RetentionAssumption, TypeOK, ClockOK, [Next]_vars
    PROVE  TypeOK'
<1> USE DEF TypeOK, table
<1>1. ASSUME NEW r \in Replica, Begin(r)  PROVE TypeOK'
  BY <1>1 DEF Begin, Goto
<1>2. ASSUME NEW r \in Replica, TryNamedLock(r)  PROVE TypeOK'
  BY <1>2 DEF TryNamedLock, End, Goto, Hour, RetentionAssumption
<1>3. ASSUME NEW r \in Replica, MeteringPartitions(r)  PROVE TypeOK'
  BY <1>3 DEF MeteringPartitions, Goto
<1>4. ASSUME NEW r \in Replica, ReorganizeFuturePartition(r)  PROVE TypeOK'
  <2>1. New(r) \subseteq Boundary
    BY <1>4, NewBoundaries DEF ClockOK, New, ReorganizeFuturePartition
  <2>2. QED
    BY <1>4, <2>1 DEF ReorganizeFuturePartition, Reorganize, Goto
<1>5. ASSUME NEW r \in Replica, DropMeteringPartitions(r)  PROVE TypeOK'
  BY <1>5 DEF DropMeteringPartitions, Drop, Goto
<1>6. ASSUME NEW r \in Replica, Release(r)  PROVE TypeOK'
  BY <1>6 DEF Release, End, Goto, Hour, RetentionAssumption
<1>7. ASSUME NEW r \in Replica, FailStatement(r)  PROVE TypeOK'
  BY <1>7, SentType DEF FailStatement, Goto, RetentionAssumption
<1>8. ASSUME NEW r \in Replica, Crash(r)  PROVE TypeOK'
  BY <1>8, SentType DEF Crash, End, Goto, Hour, RetentionAssumption
<1>9. ASSUME NEW r \in Replica, LoseSession(r)  PROVE TypeOK'
  BY <1>9 DEF LoseSession, RetentionAssumption
<1>10. CASE EndSession
  BY <1>10 DEF EndSession
<1>11. ASSUME NEW o \in orphans, FinishOrphan(o)  PROVE TypeOK'
  BY <1>11 DEF FinishOrphan, Reorganize, Drop, Statement
<1>12. ASSUME NEW h \in Hour, Report(h)  PROVE TypeOK'
  BY <1>12 DEF Report
<1>13. CASE Tick
  BY <1>13 DEF Tick, Hour, RetentionAssumption
<1>14. CASE UNCHANGED vars
  BY <1>14 DEF vars
<1>15. QED
  BY <1>1, <1>2, <1>3, <1>4, <1>5, <1>6, <1>7, <1>8, <1>9, <1>10, <1>11, <1>12,
     <1>13, <1>14 DEF Next, Step

\* The clock does not go back, and no run has read a time ahead of it.
LEMMA ClockStep ==
    ASSUME RetentionAssumption, TypeOK, ClockOK, [Next]_vars
    PROVE  ClockOK' /\ clock <= clock'
<1> USE DEF TypeOK, ClockOK, Hour, RetentionAssumption
<1>1. ASSUME NEW r \in Replica, Begin(r)  PROVE ClockOK' /\ clock <= clock'
  BY <1>1 DEF Begin, Goto
<1>2. ASSUME NEW r \in Replica,
             TryNamedLock(r) \/ Release(r) \/ Crash(r)
      PROVE  ClockOK' /\ clock <= clock'
  BY <1>2 DEF TryNamedLock, Release, Crash, End, Goto
<1>3. ASSUME NEW r \in Replica,
             \/ MeteringPartitions(r) \/ ReorganizeFuturePartition(r)
             \/ DropMeteringPartitions(r) \/ FailStatement(r)
      PROVE  ClockOK' /\ clock <= clock'
  BY <1>3 DEF MeteringPartitions, ReorganizeFuturePartition,
              DropMeteringPartitions, FailStatement, Goto
<1>4. UNCHANGED <<clock, at, pc>> => ClockOK' /\ clock <= clock'
  OBVIOUS
<1>5. /\ \A r \in Replica : LoseSession(r) => UNCHANGED <<clock, at, pc>>
      /\ EndSession => UNCHANGED <<clock, at, pc>>
      /\ \A o \in orphans : FinishOrphan(o) => UNCHANGED <<clock, at, pc>>
      /\ \A h \in Hour : Report(h) => UNCHANGED <<clock, at, pc>>
      /\ UNCHANGED vars => UNCHANGED <<clock, at, pc>>
  BY DEF LoseSession, EndSession, FinishOrphan, Report, vars
<1>6. CASE Tick
  BY <1>6 DEF Tick
<1>7. QED
  BY <1>1, <1>2, <1>3, <1>4, <1>5, <1>6 DEF Next, Step

\* Everything a step can do to what runs have read and sent: boundaries without
\* a gap come, aged partitions go, and runs read only what is there.
Harmless(new) ==
    /\ Gapless(new)
    /\ bounds' \subseteq bounds \cup new /\ new \subseteq bounds'
    /\ \A b \in bounds \ bounds' : Aged(b)
    /\ \A r \in Replica : seen'[r] \subseteq seen[r] \cup bounds
    /\ \A o \in orphans' : o \in orphans \/ \E r \in Replica : o \in Sent(r)
    /\ \A r \in Replica : pc'[r] = "reorganize" =>
          \/ pc[r] = "reorganize" /\ New(r)' = New(r)
          \/ Gapless(New(r)')

\* What was read before stays true of a table that changes harmlessly.
LEMMA HistoryStep ==
    ASSUME RetentionAssumption, TypeOK, ClockOK, SeenOK, Gapless(bounds), PendingOK,
           TypeOK', ClockOK', clock <= clock',
           NEW new \in SUBSET Boundary, Harmless(new)
    PROVE  SeenOK' /\ Gapless(bounds)' /\ PendingOK'
<1>1. SeenOK'
  <2> SUFFICES ASSUME NEW r \in Replica, NEW b \in seen'[r]
               PROVE  b \in bounds' \/ Aged(b)'
    BY DEF SeenOK
  <2>1. b \in bounds' \/ Aged(b)
    BY DEF Harmless, SeenOK
  <2>2. Aged(b) => Aged(b)'
    BY DEF Aged, TypeOK, Hour, Boundary, RetentionAssumption
  <2>3. QED
    BY <2>1, <2>2
<1>2. Gapless(bounds)'
  BY GaplessTable DEF TypeOK, Harmless
<1>3. \A x \in SUBSET Boundary : Gapless(x) => Gapless(x)'
  BY GaplessStable DEF TypeOK, Harmless
<1>4. ASSUME NEW r \in Replica, pc'[r] = "reorganize"  PROVE Gapless(New(r))'
  <2>1. New(r)' \in SUBSET Boundary
    BY <1>4, NewBoundaries DEF TypeOK, ClockOK, New
  <2>2. Gapless(New(r)')
    BY <1>4 DEF Harmless, PendingOK
  <2>3. QED
    BY <2>1, <2>2, <1>3 DEF Gapless
<1>5. ASSUME NEW o \in orphans'
      PROVE  /\ o.op = "reorganize" => Gapless(o.boundaries)'
             /\ o.op = "drop" => \A b \in o.boundaries : Aged(b)'
  <2>1. /\ o.op = "reorganize" => Gapless(o.boundaries)
        /\ o.op = "drop" => \A b \in o.boundaries : Aged(b)
    <3>1. CASE o \in orphans
      BY <3>1 DEF PendingOK
    <3>2. CASE \E r \in Replica : o \in Sent(r)
      BY <3>2, SentOK
    <3>3. QED
      BY <3>1, <3>2 DEF Harmless
  <2>2. o.boundaries \in SUBSET Boundary
    BY DEF TypeOK, Statement
  <2>3. \A b \in Boundary : Aged(b) => Aged(b)'
    BY DEF Aged, TypeOK, Hour, Boundary, RetentionAssumption
  <2>4. QED
    BY <2>1, <2>2, <2>3, <1>3
<1>6. QED
  BY <1>1, <1>2, <1>4, <1>5 DEF PendingOK

\* Every step is harmless in this sense.
LEMMA StepHarmless ==
    ASSUME RetentionAssumption, TypeOK, ClockOK, Gapless(bounds), PendingOK,
           [Next]_vars
    PROVE  \E new \in SUBSET Boundary : Harmless(new)
<1>1. Gapless({})
  BY DEF Gapless
<1>2. ASSUME UNCHANGED bounds, UNCHANGED <<pc, at, seen>>, orphans' \subseteq orphans
      PROVE  Harmless({})
  BY <1>1, <1>2 DEF Harmless, New
<1>3. ASSUME NEW r \in Replica, Begin(r)  PROVE Harmless({})
  BY <1>1, <1>3 DEF Begin, Goto, Harmless, New, TypeOK, table
<1>4. ASSUME NEW r \in Replica, TryNamedLock(r) \/ Release(r)  PROVE Harmless({})
  BY <1>1, <1>4 DEF TryNamedLock, Release, End, Goto, Harmless, New, TypeOK, table
<1>5. ASSUME NEW r \in Replica, MeteringPartitions(r)  PROVE Harmless({})
  <2>1. \A q \in Replica : seen'[q] \subseteq seen[q] \cup bounds
    BY <1>5 DEF MeteringPartitions, TypeOK
  <2>2. Gapless(PartitionBoundaries(bounds, at[r]))
    BY <1>5, ReadGapless DEF TypeOK, ClockOK, MeteringPartitions
  <2>3. New(r)' = PartitionBoundaries(bounds, at[r])
    BY <1>5 DEF MeteringPartitions, New, TypeOK
  <2>4. \A q \in Replica : pc'[q] = "reorganize" =>
           \/ pc[q] = "reorganize" /\ New(q)' = New(q)
           \/ Gapless(New(q)')
    BY <1>5, <2>2, <2>3 DEF MeteringPartitions, Goto, New, TypeOK
  <2>5. UNCHANGED <<bounds, orphans>>
    BY <1>5 DEF MeteringPartitions, table
  <2>6. QED
    BY <1>1, <2>1, <2>4, <2>5 DEF Harmless
<1>6. ASSUME NEW r \in Replica, ReorganizeFuturePartition(r)
      PROVE  \E new \in SUBSET Boundary : Harmless(new)
  <2>1. New(r) \in SUBSET Boundary /\ Gapless(New(r))
    BY <1>6, NewBoundaries
    DEF TypeOK, ClockOK, New, ReorganizeFuturePartition, PendingOK
  <2>2. CASE CanReorganize(New(r))
    <3>1. Harmless(New(r))
      BY <1>6, <2>1, <2>2
      DEF ReorganizeFuturePartition, Reorganize, Goto, Harmless, New, TypeOK
    <3>2. QED
      BY <2>1, <3>1
  <2>3. CASE ~CanReorganize(New(r))
    BY <1>1, <1>6, <2>3
    DEF ReorganizeFuturePartition, Goto, Harmless, New, TypeOK, table
  <2>4. QED
    BY <2>2, <2>3
<1>7. ASSUME NEW r \in Replica, DropMeteringPartitions(r)  PROVE Harmless({})
  <2>1. \A b \in Old(r) : Aged(b)
    BY DEF TypeOK, ClockOK, Old, Expired, Aged, RetentionAssumption, Hour, Boundary
  <2>2. bounds' \subseteq bounds /\ \A b \in bounds \ bounds' : b \in Old(r)
    BY <1>7 DEF DropMeteringPartitions, Drop, table
  <2>3. /\ UNCHANGED <<at, seen, orphans>>
        /\ \A q \in Replica : pc'[q] = "reorganize" => pc[q] = "reorganize"
    BY <1>7 DEF DropMeteringPartitions, Goto, TypeOK
  <2>4. QED
    BY <1>1, <2>1, <2>2, <2>3 DEF Harmless, New
<1>8. ASSUME NEW r \in Replica, FailStatement(r) \/ Crash(r)  PROVE Harmless({})
  BY <1>1, <1>8 DEF FailStatement, Crash, End, Goto, Harmless, New, TypeOK, table
<1>9. ASSUME NEW o \in orphans, FinishOrphan(o)
      PROVE  \E new \in SUBSET Boundary : Harmless(new)
  <2>1. /\ UNCHANGED <<pc, at, seen>> /\ orphans' \subseteq orphans
    BY <1>9 DEF FinishOrphan
  <2>2. o.boundaries \in SUBSET Boundary
    BY DEF TypeOK, Statement
  <2>3. CASE o.op = "reorganize" /\ Reorganize(o.boundaries)
    BY <2>1, <2>2, <2>3 DEF Reorganize, Harmless, PendingOK, New
  <2>4. CASE o.op = "drop" /\ Drop(o.boundaries)
    BY <1>1, <2>1, <2>2, <2>4 DEF Drop, Harmless, PendingOK, New
  <2>5. CASE UNCHANGED table
    BY <1>2, <2>1, <2>5 DEF table
  <2>6. QED
    BY <1>9, <2>3, <2>4, <2>5 DEF FinishOrphan
<1>10. /\ \A r \in Replica : LoseSession(r) => UNCHANGED <<bounds, pc, at, seen, orphans>>
       /\ EndSession => UNCHANGED <<bounds, pc, at, seen, orphans>>
       /\ \A h \in Hour : Report(h) => UNCHANGED <<bounds, pc, at, seen, orphans>>
       /\ Tick => UNCHANGED <<bounds, pc, at, seen, orphans>>
       /\ UNCHANGED vars => UNCHANGED <<bounds, pc, at, seen, orphans>>
  BY DEF LoseSession, EndSession, Report, Tick, vars, table
<1>11. QED
  BY <1>2, <1>3, <1>4, <1>5, <1>6, <1>7, <1>8, <1>9, <1>10 DEF Next, Step

\* The lock is the holder's until it ends its run, unless something fails.
LEMMA LockStep ==
    ASSUME RetentionAssumption, TypeOK, LockOK, [Next]_vars
    PROVE  LockOK'
<1> USE DEF LockOK, TypeOK
<1>1. failures \in Nat /\ None \notin Replica
  BY DEF RetentionAssumption
<1>2. ASSUME NEW r \in Replica, Begin(r)  PROVE LockOK'
  BY <1>2 DEF Begin, Goto, table
<1>3. ASSUME NEW r \in Replica, TryNamedLock(r)  PROVE LockOK'
  BY <1>1, <1>3 DEF TryNamedLock, End, Goto, table
<1>4. ASSUME NEW r \in Replica, MeteringPartitions(r)  PROVE LockOK'
  BY <1>4 DEF MeteringPartitions, Goto, table
<1>5. ASSUME NEW r \in Replica, ReorganizeFuturePartition(r)  PROVE LockOK'
  BY <1>5 DEF ReorganizeFuturePartition, Reorganize, Goto, table
<1>6. ASSUME NEW r \in Replica, DropMeteringPartitions(r)  PROVE LockOK'
  BY <1>6 DEF DropMeteringPartitions, Goto
<1>7. ASSUME NEW r \in Replica, Release(r)  PROVE LockOK'
  BY <1>7 DEF Release, End, Goto, table
<1>8. ASSUME NEW r \in Replica, FailStatement(r) \/ Crash(r) \/ LoseSession(r)
      PROVE  LockOK'
  <2>1. failures' # 0
    BY <1>1, <1>8 DEF FailStatement, Crash, LoseSession
  <2>2. QED
    BY <2>1
<1>9. CASE EndSession
  BY <1>1, <1>9 DEF EndSession, table
<1>10. ASSUME NEW o \in orphans, FinishOrphan(o)  PROVE LockOK'
  <2>1. failures' # 0
    BY <1>10 DEF FinishOrphan
  <2>2. QED
    BY <2>1
<1>11. CASE (\E h \in Hour : Report(h)) \/ Tick \/ UNCHANGED vars
  <2>1. UNCHANGED <<bounds, lock, pc, seen, orphans, failures>>
    BY <1>11 DEF Report, Tick, vars, table
  <2>2. QED
    BY <2>1
<1>12. QED
  BY <1>2, <1>3, <1>4, <1>5, <1>6, <1>7, <1>8, <1>9, <1>10, <1>11 DEF Next, Step

\* Every step keeps the invariant.
LEMMA InvStep == RetentionAssumption /\ PartitionInv /\ [Next]_vars => PartitionInv'
<1> SUFFICES ASSUME RetentionAssumption, PartitionInv, [Next]_vars
             PROVE  PartitionInv'
  OBVIOUS
<1>1. TypeOK' /\ ClockOK' /\ clock <= clock'
  BY TypeStep, ClockStep DEF PartitionInv
<1>2. PICK new \in SUBSET Boundary : Harmless(new)
  BY StepHarmless DEF PartitionInv
<1>3. SeenOK' /\ Gapless(bounds)' /\ PendingOK'
  BY <1>1, <1>2, HistoryStep DEF PartitionInv
<1>4. LockOK'
  BY LockStep DEF PartitionInv
<1>5. QED
  BY <1>1, <1>3, <1>4 DEF PartitionInv

-----------------------------------------------------------------------------
(* The theorems.                                                           *)

\* The invariant holds in every reachable state.
LEMMA InvCorrect == Spec => []PartitionInv
<1>1. Init => PartitionInv
  BY InitInv, RetentionAssumption
<1>2. PartitionInv /\ [Next]_vars => PartitionInv'
  BY InvStep, RetentionAssumption
<1>3. QED
  BY <1>1, <1>2, PTL DEF Spec

\* Every variable keeps its type; boundaries stay within the hours that
\* maintenance looks ahead.
THEOREM TypeCorrect == Spec => []TypeOK
<1>1. PartitionInv => TypeOK
  BY DEF PartitionInv
<1>2. QED
  BY <1>1, InvCorrect, PTL

\* Whatever replicas, lost locks and late statements do, rows vanish only past
\* their retention.
THEOREM RetentionCorrect == Spec => RetainedRows
<1>1. ASSUME PartitionInv, [Next]_vars, NEW h \in rows, h \notin rows'
      PROVE  h + Retention < clock
  <2>1. PICK old \in SUBSET Boundary : Drop(old) /\ \A b \in old : Aged(b)
    <3>1. ASSUME NEW r \in Replica, DropMeteringPartitions(r)
          PROVE  Drop(Old(r)) /\ \A b \in Old(r) : Aged(b)
      BY <1>1, <3>1, RetentionAssumption
      DEF DropMeteringPartitions, table, PartitionInv, TypeOK, ClockOK, Old,
          Expired, Aged, RetentionAssumption, Hour, Boundary
    <3>2. \A r \in Replica : Old(r) \in SUBSET Boundary
      BY <1>1 DEF PartitionInv, TypeOK, Old, Expired
    <3>3. ASSUME NEW o \in orphans, FinishOrphan(o)
          PROVE  /\ o.boundaries \in SUBSET Boundary
                 /\ Drop(o.boundaries) /\ \A b \in o.boundaries : Aged(b)
      BY <1>1, <3>3 DEF FinishOrphan, Reorganize, table, PartitionInv, TypeOK,
                        PendingOK, Statement
    <3>4. /\ \A r \in Replica : \/ Begin(r) \/ TryNamedLock(r)
                                \/ MeteringPartitions(r) \/ Release(r)
                                \/ FailStatement(r) \/ Crash(r) \/ LoseSession(r)
                                => UNCHANGED rows
          /\ \A r \in Replica : ReorganizeFuturePartition(r) => UNCHANGED rows
          /\ EndSession \/ Tick \/ UNCHANGED vars => UNCHANGED rows
          /\ \A g \in Hour : Report(g) => rows \subseteq rows'
      BY DEF Begin, TryNamedLock, MeteringPartitions, Release, FailStatement,
             Crash, LoseSession, ReorganizeFuturePartition, Reorganize,
             EndSession, Tick, Report, vars, table
    <3>5. QED
      BY <1>1, <3>1, <3>2, <3>3, <3>4 DEF Next, Step
  <2>2. PICK b \in old : Within(h, b)
    BY <1>1, <2>1 DEF Drop
  <2>3. QED
    BY <1>1, <2>1, <2>2, RetentionAssumption
    DEF Within, Aged, PartitionInv, TypeOK, Hour, Boundary, RetentionAssumption
<1>2. PartitionInv /\ [Next]_vars => [\A h \in rows \ rows' : h + Retention < clock]_vars
  BY <1>1
<1>3. QED
  BY <1>2, InvCorrect, PTL DEF Spec, RetainedRows

\* Hours within retention never share a partition below p_future.
THEOREM AuditCorrect == Spec => []HourlyAudit
<1>1. PartitionInv => HourlyAudit
  <2> SUFFICES ASSUME PartitionInv, NEW g \in rows, NEW h \in rows, NEW b \in bounds,
                      g < h, Within(g, b), Within(h, b), ~(g + Retention < clock)
               PROVE  FALSE
    BY DEF HourlyAudit
  <2>1. g + 1 \in bounds
    BY RetentionAssumption
    DEF PartitionInv, Gapless, Within, TypeOK, Hour, RetentionAssumption
  <2>2. QED
    BY <2>1 DEF Within, PartitionInv, TypeOK, Hour, Boundary
<1>2. QED
  BY <1>1, InvCorrect, PTL

\* Without failures the named lock keeps every ALTER TABLE from being refused.
THEOREM LockCorrect == Spec => []NoConflict
<1>1. PartitionInv => NoConflict
  <2> SUFFICES ASSUME PartitionInv, failures = 0, NEW r \in Replica
               PROVE  /\ pc[r] = "reorganize" => CanReorganize(New(r))
                      /\ pc[r] = "drop" => CanDrop(Old(r))
    BY DEF NoConflict
  <2>1. QED
    BY DEF PartitionInv, LockOK, CanReorganize, CanDrop, New, Old, Expired,
           PartitionBoundaries
<1>2. QED
  BY <1>1, InvCorrect, PTL
=============================================================================
