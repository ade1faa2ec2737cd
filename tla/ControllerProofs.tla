-------------------------- MODULE ControllerProofs --------------------------
(***************************************************************************)
(* Theorems about Controller, for any number of goroutines, any routes and *)
(* any size of the pool: type correctness with the bound on connections,   *)
(* and that an exit code of 0 means that nothing was cut short.            *)
(***************************************************************************)
EXTENDS Controller, FiniteSetTheorems, SequenceTheorems, TLAPS

-----------------------------------------------------------------------------
(* The order of the shutdown.                                              *)

\* Goroutines that the end of the process has nothing to wait for.
JobsDone == \A j \in Job : worker[j].pc \in {"none", "ended"}
RequestsDone == \A h \in Handler : Answered(h)

\* What each phase of main says about the rest of the process.
ShutdownInv ==
    /\ worker = [w \in Worker |-> worker[w]]
    /\ phase \in Phase /\ failed \in BOOLEAN
    /\ phase \in {"open", "listen"} => \A j \in Job : worker[j].pc = "none"
    /\ phase = "close" \/ db = "closed" => JobsDone
    /\ phase \in {"wait", "close"} \/ db = "closed" => failed \/ RequestsDone
    /\ db = "closed" => phase \in {"exit", "exited"}
    /\ phase = "exit" => failed \/ db = "closed"
    /\ code # "none" => phase = "exited"
    /\ code = "0" => db = "closed" /\ ~failed

\* Nothing has been started at first.
LEMMA ShutdownInit == ASSUME ControllerAssumption, Init PROVE ShutdownInv
BY DEF ControllerAssumption, Init, Idle, ShutdownInv, JobsDone, RequestsDone,
       Answered, Phase, Worker

\* A goroutine takes a step: none that is done comes back, but for a request
\* while the server still accepts them.
LEMMA WorkerStep ==
    ASSUME ControllerAssumption, ShutdownInv,
           NEW w \in Worker, NEW s, Becomes(w, s),
           w \in Job => worker[w].pc \notin {"none", "ended"},
           w \in Handler /\ Answered(w)
              => s.pc \in {"idle", "leaked"} \/ phase \in {"serve", "shutdown"}
    PROVE  ShutdownInv'
<1>1. \A v \in Worker : worker'[v] = IF v = w THEN s ELSE worker[v]
  BY DEF Becomes, ShutdownInv
<1>2. Job \subseteq Worker /\ Handler \subseteq Worker /\ Handler \cap Job = {}
  BY DEF Worker, ControllerAssumption
<1>3. JobsDone => JobsDone'
  BY <1>1, <1>2 DEF JobsDone
<1>4. RequestsDone => RequestsDone' \/ phase \in {"serve", "shutdown"}
  BY <1>1, <1>2 DEF RequestsDone, Answered
<1>5. (\A j \in Job : worker[j].pc = "none") => \A j \in Job : worker'[j].pc = "none"
  BY <1>1, <1>2
<1>6. worker' = [v \in Worker |-> worker'[v]]
  BY DEF Becomes, ShutdownInv
<1>7. UNCHANGED <<phase, cancelled, failed, db, code>>
  BY DEF Becomes
<1>8. QED
  BY <1>3, <1>4, <1>5, <1>6, <1>7 DEF ShutdownInv

\* main's own steps keep the order of the shutdown.
LEMMA MainStep ==
    ASSUME ControllerAssumption, ShutdownInv,
           Main \/ ServeError \/ Signal \/ Kill
    PROVE  ShutdownInv'
<1> USE DEF ShutdownInv, Goto, Phase, JobsDone, RequestsDone, Answered
<1>1. CASE Open
  BY <1>1 DEF Open
<1>2. CASE Listen
  BY <1>2 DEF Listen
<1>3. CASE Stop
  BY <1>3 DEF Stop
<1>4. CASE Shutdown
  BY <1>4 DEF Shutdown
<1>5. CASE Wait
  BY <1>5 DEF Wait
<1>6. CASE Close
  BY <1>6 DEF Close
<1>7. CASE Exit
  BY <1>7 DEF Exit
<1>8. CASE ServeError
  BY <1>8 DEF ServeError
<1>9. CASE Signal
  BY <1>9 DEF Signal
<1>10. CASE Kill
  BY <1>10 DEF Kill
<1>11. QED
  BY <1>1, <1>2, <1>3, <1>4, <1>5, <1>6, <1>7, <1>8, <1>9, <1>10 DEF Main

\* Every step keeps the order of the shutdown.
LEMMA ShutdownStep ==
    ASSUME ControllerAssumption, ShutdownInv, [Next]_vars
    PROVE  ShutdownInv'
<1>1. CASE Main \/ ServeError \/ Signal \/ Kill
  BY <1>1, MainStep
<1>2. CASE UNCHANGED vars
  BY <1>2 DEF vars, ShutdownInv, JobsDone, RequestsDone, Answered
<1>3. ASSUME NEW w \in Worker, Progress(w)  PROVE ShutdownInv'
  <2>1. /\ worker[w].pc \in {"waiting", "using"}
        /\ \E s : Becomes(w, s)
    BY <1>3 DEF Progress, Take, Finish, Fail, Abort
  <2>2. QED
    BY <2>1, WorkerStep DEF Answered
<1>4. ASSUME NEW h \in Handler,
             \/ Accept(h) \/ Refuse(h) \/ Dispatch(h)
             \/ Leave(h) \/ Panic(h) \/ Reclaim(h)
      PROVE  ShutdownInv'
  <2>1. h \in Worker /\ h \notin Job
    BY DEF Worker, ControllerAssumption
  <2>2. CASE Accept(h)
    BY <2>1, <2>2, WorkerStep DEF Accept
  <2>3. CASE Refuse(h) \/ Dispatch(h) \/ Leave(h) \/ Panic(h)
    <3>1. /\ ~Answered(h)
          /\ \E s : Becomes(h, s)
      BY <2>3 DEF Refuse, Dispatch, Leave, Panic, Answered
    <3>2. QED
      BY <2>1, <3>1, WorkerStep
  <2>4. CASE Reclaim(h)
    BY <2>1, <2>4, WorkerStep DEF Reclaim, Idle
  <2>5. QED
    BY <1>4, <2>2, <2>3, <2>4
<1>5. ASSUME NEW j \in Job, StartJob(j) \/ EndJob(j)  PROVE ShutdownInv'
  <2>1. j \in Worker /\ j \notin Handler
    BY DEF Worker, ControllerAssumption
  <2>2. worker[j].pc = "idle" /\ \E s : Becomes(j, s)
    BY <1>5 DEF StartJob, EndJob
  <2>3. QED
    BY <2>1, <2>2, WorkerStep
<1>6. QED
  BY <1>1, <1>2, <1>3, <1>4, <1>5 DEF Next, Exited

\* The database is closed under nobody who still needs it unless the exit code
\* says so, whatever the order of signals, failures, panics and time limits.
THEOREM ClosedLastCorrect == Spec => []ClosedLast
<1>1. Init => ShutdownInv
  BY ShutdownInit, ControllerAssumption
<1>2. ShutdownInv /\ [Next]_vars => ShutdownInv'
  BY ShutdownStep, ControllerAssumption
<1>3. ShutdownInv => ClosedLast
  BY DEF ShutdownInv, ClosedLast, JobsDone, RequestsDone
<1>4. QED
  BY <1>1, <1>2, <1>3, PTL DEF Spec

-----------------------------------------------------------------------------
(* The pool of connections.                                                *)

Plain == {"read", "write", "tx"}
Maintenance(w) == w = "partitions" /\ w \in Job

\* A goroutine that waits holds at most the connection of the named lock, and
\* one that is past the lock holds it.
PoolInv ==
    /\ TypeOK
    /\ \A w \in Worker :
          /\ worker[w].pc \in {"waiting", "using"} => worker[w].left # <<>>
          /\ worker[w].pc = "waiting" => worker[w].held <= 1
          /\ worker[w].pc = "using" => worker[w].held >= 1
          /\ ~Maintenance(w) => worker[w].left \in Seq(Plain)
          /\ Maintenance(w) /\ worker[w].pc = "waiting"
             => Head(worker[w].left) = "lock" \/ worker[w].held = 1

State == [pc : PC, left : Seq(Call), held : 0 .. 2]

\* What PoolInv asks of the state s of goroutine w.
StateOK(w, s) ==
    /\ s \in State
    /\ s.pc \in {"waiting", "using"} => s.left # <<>>
    /\ s.pc = "waiting" => s.held <= 1
    /\ s.pc = "using" => s.held >= 1
    /\ ~Maintenance(w) => s.left \in Seq(Plain)
    /\ Maintenance(w) /\ s.pc = "waiting"
       => Head(s.left) = "lock" \/ s.held = 1

\* There are finitely many goroutines.
LEMMA WorkersFinite == ASSUME ControllerAssumption PROVE IsFiniteSet(Worker)
<1>1. IsFiniteSet({"settlement", "cleanup", "partitions"})
  <2>1. IsFiniteSet({"settlement"})
    BY FS_Singleton
  <2>2. IsFiniteSet({"settlement"} \cup {"cleanup"})
    BY <2>1, FS_AddElement
  <2>3. IsFiniteSet(({"settlement"} \cup {"cleanup"}) \cup {"partitions"})
    BY <2>2, FS_AddElement
  <2>4. QED
    BY <2>3
<1>2. Job \subseteq {"settlement", "cleanup", "partitions"}
  BY DEF ControllerAssumption, JobCalls
<1>3. IsFiniteSet(Job)
  BY <1>1, <1>2, FS_Subset
<1>4. QED
  BY <1>3, FS_Union DEF Worker, ControllerAssumption

\* Those who hold connections can be counted.
LEMMA HoldingFinite ==
    ASSUME ControllerAssumption
    PROVE  \A n \in {1, 2} : /\ Holding(n) \in SUBSET Worker
                             /\ IsFiniteSet(Holding(n))
                             /\ Cardinality(Holding(n)) \in Nat
BY WorkersFinite, FS_Subset, FS_CardinalityType DEF Holding

\* A step after which nobody holds more stays within the pool's bound.
LEMMA FewerHold ==
    ASSUME ControllerAssumption, PoolInv,
           \A n \in {1, 2} : Holding(n)' \subseteq Holding(n)
    PROVE  Used' <= MaxOpen
<1>1. \A n \in {1, 2} : /\ Cardinality(Holding(n)') <= Cardinality(Holding(n))
                        /\ Cardinality(Holding(n)') \in Nat
  BY HoldingFinite, FS_Subset, FS_CardinalityType
<1>2. QED
  BY <1>1, HoldingFinite DEF Used, PoolInv, TypeOK, ControllerAssumption

\* A goroutine changes its state and takes no connection.
LEMMA KeepsOrGives ==
    ASSUME ControllerAssumption, PoolInv, NEW w \in Worker, NEW s \in State,
           Becomes(w, s), s.held <= worker[w].held
    PROVE  Used' <= MaxOpen
<1>1. \A v \in Worker : worker'[v] = IF v = w THEN s ELSE worker[v]
  BY DEF Becomes, PoolInv, TypeOK
<1>2. \A v \in Worker : worker[v].held \in 0 .. 2 /\ worker'[v].held \in 0 .. 2
  BY <1>1 DEF PoolInv, TypeOK, State
<1>3. \A n \in {1, 2} : Holding(n)' \subseteq Holding(n)
  BY <1>1, <1>2 DEF Holding
<1>4. QED
  BY <1>3, FewerHold

\* A goroutine takes one connection, of those that are left.
LEMMA TakesOne ==
    ASSUME ControllerAssumption, PoolInv, NEW w \in Worker, NEW s \in State,
           Becomes(w, s), s.held = worker[w].held + 1, Used < MaxOpen
    PROVE  Used' <= MaxOpen
<1>1. \A v \in Worker : worker'[v] = IF v = w THEN s ELSE worker[v]
  BY DEF Becomes, PoolInv, TypeOK
<1>2. \A v \in Worker : worker[v].held \in 0 .. 2 /\ worker'[v].held \in 0 .. 2
  BY <1>1 DEF PoolInv, TypeOK, State
<1>3. PICK n \in {1, 2} : worker[w].held = n - 1
  BY <1>1, <1>2
<1>4. /\ Holding(n)' = Holding(n) \cup {w}
      /\ Holding(3 - n)' = Holding(3 - n)
  BY <1>1, <1>2, <1>3 DEF Holding
<1>5. /\ Cardinality(Holding(n)') <= Cardinality(Holding(n)) + 1
      /\ Cardinality(Holding(3 - n)') = Cardinality(Holding(3 - n))
      /\ Cardinality(Holding(n)') \in Nat
  <2>1. /\ IsFiniteSet(Holding(n)) /\ Cardinality(Holding(n)) \in Nat
    BY HoldingFinite
  <2>2. Cardinality(Holding(n) \cup {w}) \in {Cardinality(Holding(n)),
                                              Cardinality(Holding(n)) + 1}
    BY <2>1, FS_AddElement
  <2>3. QED
    BY <1>4, <2>1, <2>2
<1>6. QED
  BY <1>5, HoldingFinite DEF Used, PoolInv, TypeOK, ControllerAssumption

\* A step of one goroutine keeps the invariant if its new state is right.
LEMMA PoolStep ==
    ASSUME ControllerAssumption, PoolInv, NEW w \in Worker, NEW s,
           Becomes(w, s), StateOK(w, s),
           s.held <= worker[w].held \/ (s.held = worker[w].held + 1 /\ Used < MaxOpen)
    PROVE  PoolInv'
<1>1. Used' <= MaxOpen
  BY KeepsOrGives, TakesOne DEF StateOK
<1>2. \A v \in Worker : worker'[v] = IF v = w THEN s ELSE worker[v]
  BY DEF Becomes, PoolInv, TypeOK
<1>3. TypeOK'
  BY <1>1 DEF Becomes, PoolInv, TypeOK, StateOK, State
<1>4. ASSUME NEW v \in Worker  PROVE StateOK(v, worker'[v])
  BY <1>2, <1>4 DEF StateOK, PoolInv, TypeOK, State
<1>5. QED
  BY <1>3, <1>4 DEF PoolInv, StateOK

\* A goroutine without calls holds nothing.
LEMMA IdleOK ==
    ASSUME NEW w \in Worker, NEW p \in {"none", "idle", "checking", "ended"}
    PROVE  StateOK(w, [Idle EXCEPT !.pc = p])
<1>1. <<>> \in Seq(Call) /\ <<>> \in Seq(Plain)
  OBVIOUS
<1>2. [Idle EXCEPT !.pc = p] = [pc |-> p, left |-> <<>>, held |-> 0]
  BY DEF Idle
<1>3. p \in PC /\ p # "waiting" /\ p # "using"
  BY DEF PC
<1>4. [pc |-> p, left |-> <<>>, held |-> 0] \in State
  BY <1>1, <1>3 DEF State
<1>5. QED
  BY <1>1, <1>2, <1>3, <1>4 DEF StateOK

\* The calls of every route are plain ones.
LEMMA CallsPlain ==
    ASSUME NEW r \in Routes
    PROVE  /\ Calls(r) \in Seq(Plain) /\ Len(Calls(r)) >= 1
           /\ r = "listTunnels" => Len(Calls(r)) = 2
<1>1. DOMAIN TunnelCalls = {"createTunnel", "listTunnels", "getTunnel",
                           "updateTunnel", "deleteTunnel", "deleteTunnels",
                           "issueToken", "getLimits"}
  BY DEF TunnelCalls
<1>2. DOMAIN PortCalls = {"createPort", "listPorts", "getPort", "updatePort",
                         "deletePort"}
  BY DEF PortCalls
<1>3. \A q \in {<<"read", "write", "tx">>, <<"read", "read">>, <<"read", "tx">>,
                 <<"write", "tx">>, <<"tx">>} :
         q \in Seq(Plain) /\ Len(q) >= 1
  <2>1. <<"read", "write", "tx">> \in Seq(Plain) /\ Len(<<"read", "write", "tx">>) >= 1
    BY DEF Plain
  <2>2. <<"read", "read">> \in Seq(Plain) /\ Len(<<"read", "read">>) >= 1
    BY DEF Plain
  <2>3. <<"read", "tx">> \in Seq(Plain) /\ Len(<<"read", "tx">>) >= 1
    BY DEF Plain
  <2>4. <<"write", "tx">> \in Seq(Plain) /\ Len(<<"write", "tx">>) >= 1
    BY DEF Plain
  <2>5. <<"tx">> \in Seq(Plain) /\ Len(<<"tx">>) >= 1
    BY DEF Plain
  <2>6. QED
    BY <2>1, <2>2, <2>3, <2>4, <2>5, Zenon
<1>4. /\ \A t \in DOMAIN TunnelCalls :
            TunnelCalls[t] \in {<<"read", "write", "tx">>, <<"read", "read">>,
                               <<"read", "tx">>, <<"write", "tx">>, <<"tx">>}
      /\ \A t \in DOMAIN PortCalls :
            PortCalls[t] \in {<<"read", "read">>, <<"tx">>}
      /\ TunnelCalls["listTunnels"] = <<"read", "read">>
      /\ "listTunnels" \notin DOMAIN PortCalls
  BY <1>1, <1>2 DEF TunnelCalls, PortCalls
<1>5. Len(<<"read", "read">>) = 2
  OBVIOUS
<1>6. Calls(r) \in Seq(Plain) /\ Len(Calls(r)) >= 1
  BY <1>3, <1>4 DEF Routes, Calls
<1>7. QED
  BY <1>4, <1>5, <1>6 DEF Routes, Calls

\* A request that is dispatched has its route's calls before it.
LEMMA DispatchOK ==
    ASSUME ControllerAssumption, PoolInv, NEW h \in Handler, Dispatch(h)
    PROVE  PoolInv'
<1>1. PICK r \in Route, n \in {1, 2} :
         /\ n = 2 => r = "listTunnels"
         /\ Becomes(h, Waiting(SubSeq(Calls(r), n, Len(Calls(r)))))
  BY DEF Dispatch
<1> DEFINE q == SubSeq(Calls(r), n, Len(Calls(r)))
           s == Waiting(q)
<1>2. /\ Calls(r) \in Seq(Plain) /\ Len(Calls(r)) \in Nat
      /\ n <= Len(Calls(r))
  <2>1. r \in Routes
    BY DEF ControllerAssumption
  <2>2. Calls(r) \in Seq(Plain) /\ Len(Calls(r)) >= n
    <3>1. CASE n = 1
      BY <2>1, <3>1, CallsPlain
    <3>2. CASE n = 2
      BY <1>1, <2>1, <3>2, CallsPlain
    <3>3. QED
      BY <3>1, <3>2
  <2>3. Len(Calls(r)) \in Nat
    BY <2>2, LenProperties
  <2>4. QED
    BY <2>2, <2>3
<1>3. q \in Seq(Plain) /\ Len(q) >= 1
  BY <1>2, SubSeqProperties, ElementOfSeq
<1> HIDE DEF q
<1>4. q \in Seq(Call) /\ q # <<>>
  <2>1. Plain \subseteq Call
    BY DEF Plain, Call
  <2>2. q \in Seq(Call)
    BY <1>3, <2>1, SeqMonotonic
  <2>3. Len(<<>>) = 0
    BY EmptySeq
  <2>4. QED
    BY <1>3, <2>2, <2>3
<1>6. h \in Worker /\ ~Maintenance(h)
  BY DEF Worker, Maintenance, ControllerAssumption
<1>7. StateOK(h, s)
  BY <1>3, <1>4, <1>6 DEF StateOK, State, PC, Waiting
<1>8. worker[h].held \in 0 .. 2
  BY <1>6 DEF PoolInv, TypeOK
<1>9. QED
  BY <1>1, <1>6, <1>7, <1>8, PoolStep DEF q, Waiting

\* So has a job.
LEMMA StartJobOK ==
    ASSUME ControllerAssumption, PoolInv, NEW j \in Job, StartJob(j)
    PROVE  PoolInv'
<1> DEFINE s == Waiting(JobCalls[j])
<1>1. Becomes(j, s)
  BY DEF StartJob
<1>2. j \in Worker /\ worker[j].held \in 0 .. 2
  BY DEF Worker, PoolInv, TypeOK
<1>3. j \in {"settlement", "cleanup", "partitions"}
  BY DEF ControllerAssumption, JobCalls
<1>4. CASE j # "partitions"
  <2>1. JobCalls[j] \in {<<"read", "tx">>, <<"tx">>}
    BY <1>3, <1>4 DEF JobCalls
  <2>2. /\ <<"read", "tx">> \in Seq(Plain) /\ <<"tx">> \in Seq(Plain)
        /\ <<"read", "tx">> \in Seq(Call) /\ <<"tx">> \in Seq(Call)
        /\ <<"read", "tx">> # <<>> /\ <<"tx">> # <<>>
    BY DEF Plain, Call
  <2>3. JobCalls[j] \in Seq(Plain) /\ JobCalls[j] \in Seq(Call)
        /\ JobCalls[j] # <<>>
    BY <2>1, <2>2, Zenon
  <2>4. StateOK(j, s)
    BY <1>4, <2>3 DEF StateOK, State, PC, Maintenance, Waiting
  <2>5. QED
    BY <1>1, <1>2, <2>4, PoolStep DEF Waiting
<1>5. CASE j = "partitions"
  <2>1. JobCalls[j] = <<"lock", "read", "ddl", "ddl", "unlock">>
    BY <1>5 DEF JobCalls
  <2>2. /\ <<"lock", "read", "ddl", "ddl", "unlock">> \in Seq(Call)
        /\ <<"lock", "read", "ddl", "ddl", "unlock">> # <<>>
        /\ Head(<<"lock", "read", "ddl", "ddl", "unlock">>) = "lock"
    BY DEF Call
  <2>3. StateOK(j, s)
    BY <1>5, <2>1, <2>2 DEF StateOK, State, PC, Maintenance, Waiting
  <2>4. QED
    BY <1>1, <1>2, <2>3, PoolStep DEF Waiting
<1>6. QED
  BY <1>4, <1>5

\* A call takes at most one connection, if the pool has one to give.
LEMMA ProgressOK ==
    ASSUME ControllerAssumption, PoolInv, NEW w \in Worker, Progress(w)
    PROVE  PoolInv'
<1>1. StateOK(w, worker[w])
  BY DEF PoolInv, TypeOK, StateOK, State
<1>2. CASE Take(w)
  <2> DEFINE s == [pc |-> "using", left |-> worker[w].left,
                    held |-> worker[w].held + 1]
  <2>1. /\ Becomes(w, s) /\ Used < MaxOpen /\ worker[w].pc = "waiting"
    BY <1>2 DEF Take
  <2>2. worker[w].held \in 0 .. 1
    BY <1>1, <2>1 DEF StateOK, State
  <2>3. StateOK(w, s)
    BY <1>1, <2>1, <2>2 DEF StateOK, State, PC
  <2>4. QED
    BY <2>1, <2>2, <2>3, PoolStep
<1>3. CASE Finish(w)
  <2> DEFINE rest == Tail(worker[w].left)
             s == IF rest = <<>> THEN Idle
                  ELSE [pc |-> IF rest = <<"unlock">> THEN "using" ELSE "waiting",
                        left |-> rest,
                        held |-> IF w = "partitions" THEN 1 ELSE 0]
  <2>1. Becomes(w, s) /\ worker[w].pc = "using"
    BY <1>3 DEF Finish
  <2>2. /\ worker[w].left \in Seq(Call) /\ worker[w].left # <<>>
        /\ worker[w].held \in 1 .. 2
    BY <1>1, <2>1 DEF StateOK, State
  <2>3. /\ rest \in Seq(Call)
        /\ ~Maintenance(w) => rest \in Seq(Plain)
    BY <1>1, <2>2, HeadTailProperties DEF StateOK
  <2>4. CASE rest = <<>>
    BY <2>1, <2>2, <2>4, IdleOK, PoolStep DEF Idle
  <2>5. CASE rest # <<>>
    <3>1. ~Maintenance(w) => rest # <<"unlock">>
      <4> HIDE DEF rest
      <4>1. SUFFICES ASSUME rest \in Seq(Plain), rest = <<"unlock">>  PROVE FALSE
        BY <2>3
      <4>2. Len(rest) = 1 /\ rest[1] = "unlock"
        BY <4>1
      <4>3. rest[1] \in Plain
        BY <4>1, <4>2, ElementOfSeq
      <4>4. QED
        BY <4>2, <4>3 DEF Plain
    <3>2. w = "partitions" \/ rest # <<"unlock">>
      BY <3>1 DEF Maintenance
    <3>3. s \in State
      BY <2>3, <2>5 DEF State, PC
    <3>4. StateOK(w, s)
      BY <2>3, <2>5, <3>2, <3>3 DEF StateOK, Maintenance
    <3>5. s.held <= worker[w].held
      BY <2>2, <2>5
    <3>6. QED
      BY <2>1, <3>4, <3>5, PoolStep
  <2>6. QED
    BY <2>4, <2>5
<1>4. CASE Fail(w)
  <2>1. Abort(w) /\ worker[w].pc \in {"waiting", "using"}
    BY <1>4 DEF Fail
  <2>2. worker[w].held \in 0 .. 2
    BY <1>1 DEF StateOK, State
  <2>3. CASE Locked(w)
    <3> DEFINE s == [pc |-> "using", left |-> <<"unlock">>, held |-> 1]
    <3>1. Maintenance(w)
      <4>1. SUFFICES ASSUME worker[w].left \in Seq(Plain)  PROVE FALSE
        BY <1>1 DEF StateOK
      <4>2. \A i \in 1 .. Len(worker[w].left) : worker[w].left[i] \in Plain
        BY <4>1, ElementOfSeq
      <4>3. QED
        BY <2>3, <4>2 DEF Locked, Plain
    <3>2. worker[w].held >= 1
      BY <1>1, <2>1, <2>3, <3>1 DEF StateOK, Locked
    <3>3. <<"unlock">> \in Seq(Call) /\ <<"unlock">> # <<>>
      BY DEF Call
    <3>4. StateOK(w, s)
      BY <3>1, <3>3 DEF StateOK, State, PC
    <3>5. Becomes(w, s)
      BY <2>1, <2>3 DEF Abort
    <3>6. QED
      BY <2>2, <3>2, <3>4, <3>5, PoolStep
  <2>4. CASE ~Locked(w)
    BY <2>1, <2>2, <2>4, IdleOK, PoolStep DEF Abort, Idle
  <2>5. QED
    BY <2>3, <2>4
<1>5. QED
  BY <1>2, <1>3, <1>4 DEF Progress

\* main touches no goroutine but to start the jobs.
LEMMA PoolMain ==
    ASSUME ControllerAssumption, PoolInv, Main \/ ServeError \/ Signal \/ Kill
    PROVE  PoolInv'
<1>1. /\ phase' \in Phase /\ cancelled' \in BOOLEAN /\ failed' \in BOOLEAN
      /\ db' \in {"none", "open", "closed"}
      /\ code' \in {"none", "0", "1", "killed"}
  BY DEF PoolInv, TypeOK, Phase, Goto, Main, Open, Listen, Stop, Shutdown, Wait,
         Close, Exit, ServeError, Signal, Kill
<1>2. CASE UNCHANGED worker
  BY <1>1, <1>2 DEF PoolInv, TypeOK, Used, Holding
<1>3. CASE worker' = [w \in Worker |-> IF w \in Job THEN Idle ELSE worker[w]]
  <2>1. \A w \in Worker : StateOK(w, worker[w]) /\ StateOK(w, Idle)
    <3>1. [Idle EXCEPT !.pc = "idle"] = Idle
      BY DEF Idle
    <3>2. QED
      BY <3>1, IdleOK DEF PoolInv, TypeOK, StateOK, State
  <2>2. \A w \in Worker : StateOK(w, worker'[w])
    BY <1>3, <2>1
  <2>3. \A w \in Worker : worker'[w].held = 0 \/ worker'[w].held = worker[w].held
    BY <1>3 DEF Idle
  <2>4. \A n \in {1, 2} : Holding(n)' \subseteq Holding(n)
    BY <2>3 DEF Holding
  <2>5. Used' <= MaxOpen
    BY <2>4, FewerHold
  <2>6. worker' \in [Worker -> State]
    BY <1>3, <2>2 DEF StateOK
  <2>7. QED
    BY <1>1, <2>2, <2>5, <2>6 DEF PoolInv, TypeOK, StateOK, State
<1>4. QED
  BY <1>2, <1>3 DEF Main, Open, Listen, Stop, Shutdown, Wait, Close, Exit,
                    ServeError, Signal, Kill

\* Every step keeps the pool's invariant.
LEMMA PoolNext ==
    ASSUME ControllerAssumption, PoolInv, [Next]_vars
    PROVE  PoolInv'
<1>1. CASE Main \/ ServeError \/ Signal \/ Kill
  BY <1>1, PoolMain
<1>2. CASE UNCHANGED vars
  BY <1>2 DEF vars, PoolInv, TypeOK, Used, Holding
<1>3. ASSUME NEW h \in Handler, Accept(h) \/ Refuse(h) \/ Leave(h) \/ Reclaim(h)
      PROVE  PoolInv'
  <2>1. h \in Worker /\ worker[h].held \in 0 .. 2
    BY DEF Worker, PoolInv, TypeOK
  <2>2. PICK p \in {"idle", "checking"} : Becomes(h, [Idle EXCEPT !.pc = p])
    BY <1>3 DEF Accept, Refuse, Leave, Reclaim, Idle
  <2>3. /\ StateOK(h, [Idle EXCEPT !.pc = p])
        /\ [Idle EXCEPT !.pc = p].held <= worker[h].held
    BY <2>1, IdleOK DEF Idle
  <2>4. QED
    BY <2>1, <2>2, <2>3, PoolStep
<1>4. ASSUME NEW h \in Handler, Panic(h)  PROVE PoolInv'
  <2> DEFINE s == [worker[h] EXCEPT !.pc = "leaked"]
  <2>1. h \in Worker /\ worker[h] \in State /\ Becomes(h, s)
    BY <1>4 DEF Worker, PoolInv, TypeOK, State, Panic
  <2>2. s = [pc |-> "leaked", left |-> worker[h].left, held |-> worker[h].held]
    BY <2>1 DEF State
  <2>3. StateOK(h, s) /\ s.held <= worker[h].held
    BY <2>1, <2>2 DEF StateOK, State, PC, PoolInv
  <2>4. QED
    BY <2>1, <2>3, PoolStep
<1>5. ASSUME NEW j \in Job, EndJob(j)  PROVE PoolInv'
  <2>1. j \in Worker /\ worker[j].held \in 0 .. 2
    BY DEF Worker, PoolInv, TypeOK
  <2>2. QED
    BY <1>5, <2>1, IdleOK, PoolStep DEF EndJob, Idle
<1>6. QED
  BY <1>1, <1>2, <1>3, <1>4, <1>5, ProgressOK, DispatchOK, StartJobOK
  DEF Next, Exited

\* No connection is in use at first.
LEMMA PoolInit == ASSUME ControllerAssumption, Init PROVE PoolInv
<1> DEFINE s(w) == IF w \in Job THEN [Idle EXCEPT !.pc = "none"] ELSE Idle
<1>1. \A w \in Worker : StateOK(w, s(w)) /\ s(w).held = 0
  <2>1. [Idle EXCEPT !.pc = "idle"] = Idle
    BY DEF Idle
  <2>2. QED
    BY <2>1, IdleOK DEF Idle
<1>2. worker = [w \in Worker |-> s(w)]
  BY DEF Init
<1>3. worker \in [Worker -> State] /\ \A w \in Worker : StateOK(w, worker[w])
  BY <1>1, <1>2 DEF StateOK
<1>4. Holding(1) = {} /\ Holding(2) = {}
  BY <1>1, <1>2 DEF Holding
<1>5. Used <= MaxOpen
  BY <1>4, FS_EmptySet DEF Used, ControllerAssumption
<1>6. QED
  BY <1>3, <1>5 DEF Init, PoolInv, TypeOK, StateOK, State, Phase

\* The pool never has more than maxOpenConnections in use, those that a panic
\* has left behind and that of the named lock included, and the state of the
\* process is well-typed.
THEOREM TypeCorrect == Spec => []TypeOK
<1>1. Init => PoolInv
  BY PoolInit, ControllerAssumption
<1>2. PoolInv /\ [Next]_vars => PoolInv'
  BY PoolNext, ControllerAssumption
<1>3. PoolInv => TypeOK
  BY DEF PoolInv
<1>4. QED
  BY <1>1, <1>2, <1>3, PTL DEF Spec
=============================================================================
