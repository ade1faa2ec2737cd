----------------------------- MODULE Controller -----------------------------
(***************************************************************************)
(* The life of one Relay Controller process: start, serving, and the end   *)
(* after a signal or an error, with the goroutines that share its pool of  *)
(* database connections: the handlers of the HTTP API, the jobs, and main. *)
(* What the calls do to the database is in the other modules; here a call  *)
(* takes a connection, may take long, and may fail.                        *)
(***************************************************************************)
EXTENDS Integers, Sequences, FiniteSets

CONSTANTS
    Handler,        \* request goroutines
    Route,          \* the routes that clients use
    Job,            \* the jobs
    MaxOpen         \* maxOpenConnections

\* The database calls of each route, in order: statements of their own, and
\* transactions.
TunnelCalls ==
    [createTunnel |-> <<"read", "write", "tx">>, listTunnels |-> <<"read", "read">>,
     getTunnel |-> <<"read", "read">>, updateTunnel |-> <<"tx">>,
     deleteTunnel |-> <<"tx">>, deleteTunnels |-> <<"tx">>,
     issueToken |-> <<"read", "tx">>, getLimits |-> <<"write", "tx">>]

PortCalls ==
    [createPort |-> <<"tx">>, listPorts |-> <<"read", "read">>,
     getPort |-> <<"read", "read">>, updatePort |-> <<"tx">>,
     deletePort |-> <<"tx">>]

Routes == DOMAIN TunnelCalls \cup DOMAIN PortCalls
Calls(r) == IF r \in DOMAIN PortCalls THEN PortCalls[r] ELSE TunnelCalls[r]

\* Maintenance keeps the connection of its named lock while it uses others.
JobCalls == [settlement |-> <<"read", "tx">>,
             cleanup    |-> <<"tx">>,
             partitions |-> <<"lock", "read", "ddl", "ddl", "unlock">>]

Worker == Handler \cup Job

ASSUME ControllerAssumption ==
    /\ MaxOpen \in Nat \ {0} /\ IsFiniteSet(Handler)
    /\ Route \subseteq Routes /\ Job \subseteq DOMAIN JobCalls
    /\ Handler \cap Job = {}

VARIABLES
    phase,          \* where main is
    cancelled,      \* ctx, which the jobs and main watch
    failed,         \* run will return an error
    db,             \* "none", "open" or "closed"
    code,           \* the exit code
    worker          \* what each goroutine does, the calls it has left, and
                    \* the connections it holds

vars == <<phase, cancelled, failed, db, code, worker>>

Phase == {"open", "listen", "serve", "shutdown", "wait", "close", "exit",
          "exited"}

PC == {"none", "idle", "checking", "waiting", "using", "leaked", "ended"}
Call == {"read", "write", "tx", "lock", "ddl", "unlock"}

\* The connections in use: nobody holds more than two.
Holding(n) == {w \in Worker : worker[w].held >= n}
Used == Cardinality(Holding(1)) + Cardinality(Holding(2))

TypeOK ==
    /\ phase \in Phase
    /\ cancelled \in BOOLEAN /\ failed \in BOOLEAN
    /\ db \in {"none", "open", "closed"}
    /\ code \in {"none", "0", "1", "killed"}
    /\ worker \in [Worker -> [pc : PC, left : Seq(Call), held : 0 .. 2]]
    /\ Used <= MaxOpen

\* A goroutine between two requests or two ticks.
Idle == [pc |-> "idle", left |-> <<>>, held |-> 0]

\* A goroutine before the first of its calls.
Waiting(calls) == [pc |-> "waiting", left |-> calls, held |-> 0]

Init ==
    /\ phase = "open" /\ db = "none" /\ code = "none"
    /\ cancelled = FALSE /\ failed = FALSE
    /\ worker = [w \in Worker |-> IF w \in Job THEN [Idle EXCEPT !.pc = "none"]
                                  ELSE Idle]

-----------------------------------------------------------------------------
(* main and run.                                                           *)

Goto(p) == phase' = p

\* The configuration is wrong, or the database does not answer.
Open ==
    /\ phase = "open"
    /\ \/ ~cancelled /\ Goto("listen") /\ db' = "open" /\ UNCHANGED failed
       \/ Goto("exit") /\ failed' = TRUE /\ UNCHANGED db
    /\ UNCHANGED <<cancelled, code, worker>>

\* Jobs are started only when the port is there.
Listen ==
    /\ phase = "listen"
    /\ \/ /\ Goto("serve")
          /\ worker' = [w \in Worker |-> IF w \in Job THEN Idle ELSE worker[w]]
          /\ UNCHANGED failed
       \/ Goto("close") /\ failed' = TRUE /\ UNCHANGED worker
    /\ UNCHANGED <<cancelled, db, code>>

Signal ==
    /\ ~cancelled /\ phase # "exited"
    /\ cancelled' = TRUE
    /\ UNCHANGED <<phase, failed, db, code, worker>>

\* The signal has cancelled ctx.
Stop ==
    /\ phase = "serve" /\ cancelled
    /\ Goto("shutdown")
    /\ UNCHANGED <<cancelled, failed, db, code, worker>>

\* Mutant: without stop(), the jobs go on.
ServeErrorWithoutStop ==
    /\ phase = "serve"
    /\ failed' = TRUE /\ Goto("shutdown")
    /\ UNCHANGED <<cancelled, db, code, worker>>

\* The server fails; stop() cancels ctx, too.
ServeError ==
    /\ phase = "serve"
    /\ failed' = TRUE /\ cancelled' = TRUE /\ Goto("shutdown")
    /\ UNCHANGED <<db, code, worker>>

\* A request that panicked has been answered.
Answered(h) == worker[h].pc \in {"idle", "leaked"}

\* Mutant: the time limit is no error.
ShutdownSilently ==
    /\ phase = "shutdown"
    /\ Goto("wait")
    /\ UNCHANGED <<cancelled, failed, db, code, worker>>

\* server.Shutdown returns when every request is answered, or after 15 s.
Shutdown ==
    /\ phase = "shutdown"
    /\ \/ (\A h \in Handler : Answered(h)) /\ UNCHANGED failed
       \/ failed' = TRUE
    /\ Goto("wait")
    /\ UNCHANGED <<cancelled, db, code, worker>>

\* jobs.Wait()
Wait ==
    /\ phase = "wait" /\ \A j \in Job : worker[j].pc = "ended"
    /\ Goto("close")
    /\ UNCHANGED <<cancelled, failed, db, code, worker>>

\* No call gets a connection of a closed database.
Close ==
    /\ phase = "close"
    /\ db' = "closed" /\ Goto("exit")
    /\ UNCHANGED <<cancelled, failed, code, worker>>

Exit ==
    /\ phase = "exit"
    /\ code' = (IF failed THEN "1" ELSE "0") /\ Goto("exited")
    /\ UNCHANGED <<cancelled, failed, db, worker>>

\* A second signal after stop(), a panic in a job, or the machine.
Kill ==
    /\ phase # "exited"
    /\ code' = "killed" /\ Goto("exited")
    /\ UNCHANGED <<cancelled, failed, db, worker>>

Main == Open \/ Listen \/ Stop \/ Shutdown \/ Wait \/ Close \/ Exit

-----------------------------------------------------------------------------
(* Handlers and jobs.                                                      *)

Becomes(w, s) ==
    /\ worker' = [worker EXCEPT ![w] = s]
    /\ UNCHANGED <<phase, cancelled, failed, db, code>>

\* Shutdown still lets connections that are open already deliver a request.
Accept(h) ==
    /\ phase \in {"serve", "shutdown"} /\ worker[h].pc = "idle"
    /\ Becomes(h, [Idle EXCEPT !.pc = "checking"])

\* The rate limiter, the headers, the path, the body and the service's checks
\* of them come before the first call; what they refuse is answered at once.
Refuse(h) ==
    /\ phase # "exited" /\ worker[h].pc = "checking"
    /\ Becomes(h, Idle)

\* With no clusterId, listTunnels looks at no cluster first.
Dispatch(h) ==
    /\ phase # "exited" /\ worker[h].pc = "checking"
    /\ \E r \in Route, n \in {1, 2} :
          /\ n = 2 => r = "listTunnels"
          /\ Becomes(h, Waiting(SubSeq(Calls(r), n, Len(Calls(r)))))

StartJob(j) ==
    /\ phase # "exited" /\ worker[j].pc = "idle"
    /\ Becomes(j, Waiting(JobCalls[j]))

\* The loop's select sees ctx.Done().
EndJob(j) ==
    /\ phase # "exited" /\ worker[j].pc = "idle" /\ cancelled
    /\ Becomes(j, [Idle EXCEPT !.pc = "ended"])

\* Between lock and unlock, the partition job holds the lock's connection, and
\* an error on the way leaves it by lock.Release, whatever ctx says.
Locked(w) ==
    /\ "unlock" \in {worker[w].left[i] : i \in 1 .. Len(worker[w].left)}
    /\ Head(worker[w].left) \notin {"lock", "unlock"}

Abort(w) ==
    Becomes(w, IF Locked(w)
               THEN [pc |-> "using", left |-> <<"unlock">>, held |-> 1]
               ELSE Idle)

\* Mutant: the pool has no limit.
TakeUnlimited(w) ==
    /\ phase # "exited" /\ worker[w].pc = "waiting"
    /\ db = "open"
    /\ Becomes(w, [pc |-> "using", left |-> worker[w].left,
                   held |-> worker[w].held + 1])

\* A call waits for a connection of the pool.
Take(w) ==
    /\ phase # "exited" /\ worker[w].pc = "waiting"
    /\ db = "open" /\ Used < MaxOpen
    /\ Becomes(w, [pc |-> "using", left |-> worker[w].left,
                   held |-> worker[w].held + 1])

\* Mutant: a request keeps the connection of its first call.
FinishHolding(w) ==
    /\ phase # "exited" /\ worker[w].pc = "using"
    /\ LET rest == Tail(worker[w].left) IN
       Becomes(w, IF rest = <<>> THEN Idle
                  ELSE [pc |-> IF rest = <<"unlock">> THEN "using" ELSE "waiting",
                        left |-> rest, held |-> 1])

\* A call that ends gives its connection back, but for the named lock's; the
\* request is answered after its last call.
Finish(w) ==
    /\ phase # "exited" /\ worker[w].pc = "using"
    /\ LET rest == Tail(worker[w].left) IN
       Becomes(w, IF rest = <<>> THEN Idle
                  ELSE [pc |-> IF rest = <<"unlock">> THEN "using" ELSE "waiting",
                        left |-> rest,
                        held |-> IF w = "partitions" THEN 1 ELSE 0])

\* An error of the database or of the service's checks, a lock that another
\* replica holds; for a job, ctx, also while it waits.
Fail(w) ==
    /\ phase # "exited"
    /\ \/ worker[w].pc = "using"
       \/ worker[w].pc = "waiting" /\ (db # "open" \/ (w \in Job /\ cancelled))
    /\ Abort(w)

\* The client goes away: its request stops to wait.
Leave(h) ==
    /\ phase # "exited" /\ worker[h].pc = "waiting"
    /\ Becomes(h, Idle)

\* A panic is answered by recover; InTx does not roll back, so its connection
\* stays in use until net/http has cancelled the request's context.
Panic(h) ==
    /\ phase # "exited" /\ worker[h].pc = "using" /\ Head(worker[h].left) = "tx"
    /\ Becomes(h, [worker[h] EXCEPT !.pc = "leaked"])

Reclaim(h) ==
    /\ phase # "exited" /\ worker[h].pc = "leaked"
    /\ Becomes(h, Idle)

-----------------------------------------------------------------------------

Progress(w) == Take(w) \/ Finish(w) \/ Fail(w)

Exited == phase = "exited" /\ UNCHANGED vars

Next == \/ Main \/ ServeError \/ Signal \/ Kill \/ Exited
        \/ \E w \in Worker : Progress(w)
        \/ \E h \in Handler : \/ Accept(h) \/ Refuse(h) \/ Dispatch(h)
                             \/ Leave(h) \/ Panic(h) \/ Reclaim(h)
        \/ \E j \in Job : StartJob(j) \/ EndJob(j)

Spec == Init /\ [][Next]_vars

\* Goroutines run; calls end, by the driver's timeouts if not before.  Two
\* choices are made at random, so that nobody loses them for ever but with
\* probability zero: database/sql gives a free connection to any of those who
\* wait, and a select may prefer a tick, at most one a minute, to ctx.Done().
Fairness == /\ WF_vars(Main)
            /\ \A w \in Worker : WF_vars(Progress(w)) /\ SF_vars(Take(w))
            /\ \A h \in Handler : /\ WF_vars(Refuse(h) \/ Dispatch(h))
                                  /\ WF_vars(Reclaim(h))
            /\ \A j \in Job : SF_vars(EndJob(j))

FairSpec == Spec /\ Fairness

-----------------------------------------------------------------------------
(* Properties.                                                             *)

\* The database is closed only after the last job has ended and, unless the
\* process reports an error, after the last request was answered: an exit code
\* of 0 means that nothing was cut short, the named lock included.
ClosedLast ==
    /\ db = "closed" =>
          /\ \A j \in Job : worker[j].pc \in {"none", "ended"}
          /\ failed \/ \A h \in Handler : Answered(h)
    /\ code = "0" => db = "closed" /\ ~failed

\* No request waits for ever, though partition maintenance holds one connection
\* while it waits for a second one, and requests that panic keep theirs for a
\* while.
Served ==
    \A h \in Handler :
        worker[h].pc # "idle" ~> worker[h].pc = "idle" \/ phase = "exited"

\* After a signal or an error the process ends, whatever its goroutines are
\* waiting for.
Terminates == cancelled \/ failed ~> phase = "exited"
=============================================================================
