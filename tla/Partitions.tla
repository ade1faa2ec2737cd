----------------------------- MODULE Partitions -----------------------------
(***************************************************************************)
(* The hourly partitions of tunnel_metering.  Every replica of every       *)
(* region runs MaintainPartitions on a timer: under a named lock it reads  *)
(* the partitions, splits hours off p_future and drops what is past its    *)
(* retention.  The lock lives on one connection and the ALTER TABLEs run   *)
(* on others, so a replica can lose the lock without noticing, and a       *)
(* statement whose client gave up may still take effect later.             *)
(*                                                                         *)
(* The unit of time is an hour: the code rounds the time down to one       *)
(* before it uses it, and boundaries are whole hours.  A partition is      *)
(* known by its boundary, which its name is made from.                     *)
(***************************************************************************)
EXTENDS Integers, FiniteSets

CONSTANTS
    Replica,        \* replicas of all regions
    Retention,      \* retentionSeconds in hours
    FutureHours,    \* futureHours
    MaxHour,        \* bound: the last hour of the clock
    MaxRows,        \* bound: hours with metering rows at a time
    MaxFailures,    \* bound: statements, connections and replicas that fail
    None

ASSUME RetentionAssumption ==
    /\ Retention \in Nat \ {0} /\ FutureHours \in Nat
    /\ MaxHour \in Nat /\ Retention <= MaxHour
    /\ MaxRows \in Nat /\ MaxFailures \in Nat
    /\ None \notin Replica

Hour == 0 .. MaxHour
Boundary == 1 .. MaxHour + FutureHours + 1

\* An ALTER TABLE whose client no longer waits for it.
Statement == [op : {"reorganize", "drop"}, boundaries : SUBSET Boundary]

VARIABLES
    clock,
    bounds,     \* boundaries of the partitions other than p_future
    rows,       \* hours of reported_at for which there are metering rows
    lock,       \* the replica whose session holds the named lock, or None
    pc,
    at,         \* currentHour of each replica's run
    seen,       \* the partitions a run has read
    orphans,    \* statements that may still take effect
    failures

table == <<bounds, rows>>
vars == <<clock, table, lock, pc, at, seen, orphans, failures>>

TypeOK ==
    /\ clock \in Hour
    /\ bounds \subseteq Boundary
    /\ rows \subseteq Hour
    /\ lock \in Replica \cup {None}
    /\ pc \in [Replica -> {"idle", "lock", "read", "reorganize", "drop", "unlock"}]
    /\ at \in [Replica -> Hour]
    /\ seen \in [Replica -> SUBSET Boundary]
    /\ orphans \subseteq Statement
    /\ failures \in 0 .. MaxFailures

\* The deployment creates p_future alone; the clock starts late enough for
\* boundaries to be positive.
Init ==
    /\ clock = Retention
    /\ bounds = {} /\ rows = {}
    /\ lock = None
    /\ pc = [r \in Replica |-> "idle"]
    /\ at = [r \in Replica |-> 0]
    /\ seen = [r \in Replica |-> {}]
    /\ orphans = {}
    /\ failures = 0

Goto(r, label) == pc' = [pc EXCEPT ![r] = label]

\* A run ends and its variables with it.
End(r) ==
    /\ Goto(r, "idle")
    /\ at' = [at EXCEPT ![r] = 0]
    /\ seen' = [seen EXCEPT ![r] = {}]

-----------------------------------------------------------------------------
(* What the two statements do to the table.                                *)

\* Boundaries must increase, so a split below an existing one is refused.
CanReorganize(new) == \A n \in new, b \in bounds : b < n
Reorganize(new) == bounds' = bounds \cup new /\ UNCHANGED rows

\* The rows of hour h are in partition b, the first whose boundary is later.
Within(h, b) == h < b /\ \A c \in bounds : h < c => b <= c

\* A list with a name that no longer exists is refused as a whole.
CanDrop(old) == old \subseteq bounds
Drop(old) ==
    /\ bounds' = bounds \ old
    /\ rows' = {h \in rows : \A b \in old : ~Within(h, b)}

-----------------------------------------------------------------------------
(* One run of MaintainPartitions.                                          *)

\* Mutant: only hours from the current one on get partitions.
NewFromCurrentHour(old, hour) ==
    {b \in hour + 1 .. hour + FutureHours + 1 : \A c \in old : c < b}

\* Mutant: the last partition starts one hour too late.
NewOneMore(old, hour) ==
    {b \in hour - Retention + 1 .. hour + FutureHours + 2 : \A c \in old : c < b}

\* Mutant: no hour beyond the current one.
NewWithoutFuture(old, hour) ==
    {b \in hour - Retention + 1 .. hour + 1 : \A c \in old : c < b}

\* After an outage longer than the retention, the hours that would be past it
\* at once are left to one wide partition.
PartitionBoundaries(old, hour) ==
    {b \in hour - Retention + 1 .. hour + FutureHours + 1 : \A c \in old : c < b}

\* Mutant: one hour short of the retention.
ExpiredEarly(old, hour) == {b \in old : b <= hour - Retention + 1}

Expired(old, hour) == {b \in old : b <= hour - Retention}

\* The timer fires and the run reads the time, before it tries the lock.
Begin(r) ==
    /\ pc[r] = "idle"
    /\ at' = [at EXCEPT ![r] = clock]
    /\ Goto(r, "lock")
    /\ UNCHANGED <<clock, table, lock, seen, orphans, failures>>

\* Mutant: the run goes on without the lock.
TryNamedLockIgnored(r) ==
    /\ pc[r] = "lock"
    /\ lock' = IF lock = None THEN r ELSE lock
    /\ Goto(r, "read")
    /\ UNCHANGED <<clock, table, at, seen, orphans, failures>>

\* GET_LOCK does not wait: whoever is second ends its run.
TryNamedLock(r) ==
    /\ pc[r] = "lock"
    /\ IF lock = None
       THEN lock' = r /\ Goto(r, "read") /\ UNCHANGED <<at, seen>>
       ELSE lock' = lock /\ End(r)
    /\ UNCHANGED <<clock, table, orphans, failures>>

MeteringPartitions(r) ==
    /\ pc[r] = "read"
    /\ seen' = [seen EXCEPT ![r] = bounds]
    /\ Goto(r, "reorganize")
    /\ UNCHANGED <<clock, table, lock, at, orphans, failures>>

New(r) == PartitionBoundaries(seen[r], at[r])
Old(r) == Expired(seen[r], at[r])

\* Without new boundaries no statement is sent; an error ends the run.
ReorganizeFuturePartition(r) ==
    /\ pc[r] = "reorganize"
    /\ IF CanReorganize(New(r))
       THEN Reorganize(New(r)) /\ Goto(r, "drop")
       ELSE UNCHANGED table /\ Goto(r, "unlock")
    /\ UNCHANGED <<clock, lock, at, seen, orphans, failures>>

DropMeteringPartitions(r) ==
    /\ pc[r] = "drop"
    /\ IF CanDrop(Old(r)) THEN Drop(Old(r)) ELSE UNCHANGED table
    /\ Goto(r, "unlock")
    /\ UNCHANGED <<clock, lock, at, seen, orphans, failures>>

\* RELEASE_LOCK finds the lock not held if its session was lost meanwhile.
Release(r) ==
    /\ pc[r] = "unlock"
    /\ lock' = IF lock = r THEN None ELSE lock
    /\ End(r)
    /\ UNCHANGED <<clock, table, orphans, failures>>

-----------------------------------------------------------------------------
(* Failures.                                                               *)

\* The statement a run may be waiting for.
Sent(r) == {s \in {[op |-> "reorganize", boundaries |-> New(r)],
                    [op |-> "drop", boundaries |-> Old(r)]} :
                 s.op = pc[r] /\ s.boundaries # {}}

\* A statement fails, or its answer does not come in time; in that case the
\* server may carry it out all the same, at some time.
FailStatement(r) ==
    /\ failures < MaxFailures /\ failures' = failures + 1
    /\ pc[r] \in {"read", "reorganize", "drop"}
    /\ orphans' \in {orphans, orphans \cup Sent(r)}
    /\ Goto(r, "unlock")
    /\ UNCHANGED <<clock, table, lock, at, seen>>

\* The replica stops, or the connection of the lock breaks while a statement
\* on it is under way.  Its session may hold the lock until the server notices.
Crash(r) ==
    /\ failures < MaxFailures /\ failures' = failures + 1
    /\ pc[r] # "idle"
    /\ orphans' \in {orphans, orphans \cup Sent(r)}
    /\ \/ lock' = lock
       \/ pc[r] = "lock" /\ lock = None /\ lock' = r
    /\ End(r)
    /\ UNCHANGED <<clock, table>>

\* The server ends the session of a lock while the run it protects goes on.
LoseSession(r) ==
    /\ failures < MaxFailures /\ failures' = failures + 1
    /\ lock = r /\ pc[r] # "idle" /\ lock' = None
    /\ UNCHANGED <<clock, table, pc, at, seen, orphans>>

\* The server notices that the holder of the lock is gone.
EndSession ==
    /\ \E r \in Replica : lock = r /\ pc[r] \in {"idle", "lock"}
    /\ lock' = None
    /\ UNCHANGED <<clock, table, pc, at, seen, orphans, failures>>

\* A statement nobody waits for takes effect, or is refused.
FinishOrphan(o) ==
    /\ orphans' = orphans \ {o}
    /\ \/ o.op = "reorganize" /\ CanReorganize(o.boundaries)
          /\ Reorganize(o.boundaries)
       \/ o.op = "drop" /\ CanDrop(o.boundaries) /\ Drop(o.boundaries)
       \/ ~ (IF o.op = "drop" THEN CanDrop(o.boundaries)
                              ELSE CanReorganize(o.boundaries))
          /\ UNCHANGED table
    /\ UNCHANGED <<clock, lock, pc, at, seen, failures>>

-----------------------------------------------------------------------------
(* The rest of the system.                                                 *)

\* Gateway appends rows; a report may reach the table an hour late.
Report(h) ==
    /\ h \in {clock - 1, clock} /\ Cardinality(rows \cup {h}) <= MaxRows
    /\ rows' = rows \cup {h}
    /\ UNCHANGED <<clock, bounds, lock, pc, at, seen, orphans, failures>>

Tick ==
    /\ clock < MaxHour
    /\ clock' = clock + 1
    /\ UNCHANGED <<table, lock, pc, at, seen, orphans, failures>>

-----------------------------------------------------------------------------

Step(r) == \/ Begin(r) \/ TryNamedLock(r) \/ MeteringPartitions(r)
           \/ ReorganizeFuturePartition(r) \/ DropMeteringPartitions(r)
           \/ Release(r)

Next == \/ \E r \in Replica : \/ Step(r)
                              \/ FailStatement(r) \/ Crash(r) \/ LoseSession(r)
        \/ EndSession
        \/ \E o \in orphans : FinishOrphan(o)
        \/ \E h \in Hour : Report(h)
        \/ Tick

Spec == Init /\ [][Next]_vars

\* Each replica's ticker starts its next run and each run goes on, and the
\* server notices in the end that a client is gone.
Fairness == (\A r \in Replica : WF_vars(Step(r))) /\ WF_vars(EndSession)

FairSpec == Spec /\ Fairness

-----------------------------------------------------------------------------
(* Properties.                                                             *)

\* Metering is retained for billing audit: whoever drops partitions, from
\* however old a reading, rows vanish only once their hour is past retention.
RetainedRows ==
    [][\A h \in rows \ rows' : h + Retention < clock]_vars

\* Rows are retained by the hour: when a partition holds two hours, because an
\* outage left them to one, the earlier is past its retention already, so no
\* row is kept because of a later one.
HourlyAudit ==
    \A g, h \in rows, b \in bounds :
        g < h /\ Within(g, b) /\ Within(h, b) => g + Retention < clock

\* What the named lock is for: as long as nothing fails, no run's ALTER TABLE
\* is refused, since nobody changed the partitions after it read them.
NoConflict ==
    failures = 0 =>
        \A r \in Replica :
            /\ pc[r] = "reorganize" => CanReorganize(New(r))
            /\ pc[r] = "drop" => CanDrop(Old(r))

\* Maintenance recovers from everything that may have failed, again and again:
\* the hours to come have partitions, and none past its retention is left.
Maintained ==
    []<>(/\ \E b \in bounds : b > clock + FutureHours
         /\ \A b \in bounds : clock < b + Retention)
=============================================================================
