----------------------- MODULE ServerLifecycleProofs -----------------------
(***************************************************************************)
(* For any requests and any number of starts: ServerLifecycle keeps its    *)
(* types, a clean exit breaks off no handler and no statement, no handler  *)
(* meets a client that is not open, and a stop only goes on.               *)
(***************************************************************************)
EXTENDS ServerLifecycle, TLAPS

\* What main has done, by where it is: handlers run only between the last
\* connection and the end of Shutdown, when both clients are open, and a
\* process that has not listened yet, or has ended, has no goroutine.
Phases ==
  /\ phase \in {"boot", "off"} => running = {} /\ between = {} /\ busy = {}
  /\ phase = "boot" => clients \in {{}, {"pool"}}
  /\ phase \in {"listening", "up", "draining"} => clients = {"pool", "rdb"}
  /\ phase = "closing" => running = {} /\ "rdb" \notin clients

IInv == TypeOK /\ Phases /\ CleanExitDrains

LEMMA InitInv == Init => IInv
BY StartsAssumption DEF Init, IInv, TypeOK, Phases, CleanExitDrains

\* Only the return of main gives 0, and by then no handler and no statement runs.
LEMMA ExitInv ==
  ASSUME IInv, NEW c \in {"0", "1", "signal", "killed"}, Exit(c),
         c = "0" => running \union busy = {}
  PROVE  IInv'
<1>1. TypeOK'
  BY DEF Exit, IInv, TypeOK
<1>2. Phases'
  BY DEF Exit, Phases
<1>3. CleanExitDrains'
  BY DEF Exit, IInv, CleanExitDrains
<1> QED BY <1>1, <1>2, <1>3 DEF IInv

\* What goes on in one process: main, handlers and goroutines.
LEMMA MainInv ==
  ASSUME IInv, Connect \/ Notify \/ Drained \/ ClosePool \/ Restart
  PROVE  IInv'
<1> USE DEF IInv, TypeOK, Phases, CleanExitDrains, work
<1>1. CASE Connect
  BY <1>1 DEF Connect
<1>2. CASE Notify
  BY <1>2 DEF Notify
<1>3. CASE Drained
  BY <1>3 DEF Drained, Quiescent
<1>4. CASE ClosePool
  BY <1>4 DEF ClosePool
<1>5. CASE Restart
  BY <1>5, StartsAssumption DEF Restart
<1> QED BY <1>1, <1>2, <1>3, <1>4, <1>5

LEMMA RequestInv ==
  ASSUME IInv, NEW r \in Requests,
         Accept(r) \/ Answer(r) \/ Acquire(r) \/ Release(r) \/ Leave(r)
  PROVE  IInv'
<1> USE RequestsAssumption DEF IInv, TypeOK, Phases, CleanExitDrains
<1>1. CASE Accept(r)
  BY <1>1 DEF Accept
<1>2. CASE Answer(r)
  BY <1>2 DEF Answer
<1>3. CASE Acquire(r)
  BY <1>3 DEF Acquire
<1>4. CASE Release(r)
  BY <1>4 DEF Release
<1>5. CASE Leave(r)
  BY <1>5 DEF Leave
<1> QED BY <1>1, <1>2, <1>3, <1>4, <1>5

LEMMA StepInv == IInv /\ [Next]_vars => IInv'
<1> SUFFICES ASSUME IInv, [Next]_vars PROVE IInv'
  OBVIOUS
<1>1. CASE Return
  <2>1. running \union busy = {}
    BY <1>1 DEF Return, PoolIdle, IInv, Phases
  <2> QED BY <1>1, <2>1, ExitInv DEF Return
<1>2. CASE BootFails \/ ListenFails \/ ShutdownTimesOut \/ Kill
  BY <1>2, ExitInv DEF BootFails, ListenFails, ShutdownTimesOut, Kill
<1>3. CASE Terminate
  <2>1. CASE phase = "listening" /\ Exit("signal")
    BY <2>1, ExitInv
  <2>2. CASE /\ phase = "up"
             /\ phase' = "draining"
             /\ UNCHANGED <<code, clients, starts, work, cut>>
    BY <2>2 DEF IInv, TypeOK, Phases, CleanExitDrains, work
  <2> QED BY <1>3, <2>1, <2>2 DEF Terminate
<1>4. CASE UNCHANGED vars
  BY <1>4 DEF vars, IInv, TypeOK, Phases, CleanExitDrains
<1> QED
  BY <1>1, <1>2, <1>3, <1>4, MainInv, RequestInv DEF Next, Shutdown

THEOREM Invariant == Spec => []IInv
<1> QED BY InitInv, StepInv, PTL DEF Spec

\* The types of the variables, a request's place in one goroutine, and that a
\* process that has ended does nothing.
THEOREM TypeCorrect == Spec => []TypeOK
<1>1. IInv => TypeOK
  BY DEF IInv
<1> QED BY <1>1, Invariant, PTL

\* An exit with 0 breaks off no handler and no statement on the pool;
\* goroutines that are in neither end with the process.
THEOREM CleanExits == Spec => []CleanExitDrains
<1>1. IInv => CleanExitDrains
  BY DEF IInv
<1> QED BY <1>1, Invariant, PTL

\* Handlers run only while both clients are open.
THEOREM ClientsOpen == Spec => []HandlersHaveClients
<1>1. IInv => HandlersHaveClients
  BY DEF IInv, TypeOK, Phases, HandlersHaveClients
<1> QED BY <1>1, Invariant, PTL
-----------------------------------------------------------------------------
\* Once Shutdown is called main only goes on, nothing is begun that it would
\* have to wait for, and the pool hands out no connection after its Close.
Ahead ==
  /\ phase = "draining" => /\ phase' \in {"draining", "closing", "off"}
                           /\ running' \subseteq running
  /\ phase = "closing"  => /\ phase' \in {"closing", "off"}
                           /\ running' = {} /\ clients' \subseteq clients
                           /\ "pool" \notin clients => busy' \subseteq busy
StopGoesAhead == [][Ahead]_vars

LEMMA AheadStep == IInv /\ [Next]_vars => Ahead \/ UNCHANGED vars
<1> SUFFICES ASSUME IInv, [Next]_vars, ~UNCHANGED vars,
                    phase \in {"draining", "closing"}
             PROVE  Ahead
  BY DEF Ahead
<1>0. phase = "closing" => running = {}
  BY DEF IInv, Phases
<1>1. CASE Drained \/ ClosePool
  BY <1>0, <1>1 DEF Drained, ClosePool, Quiescent, work, Ahead
<1>2. ASSUME NEW c, Exit(c) PROVE Ahead
  BY <1>2 DEF Exit, Ahead
<1>3. ShutdownTimesOut \/ Return \/ Kill => Ahead
  BY <1>2 DEF ShutdownTimesOut, Return, Kill
<1>4. ASSUME NEW r \in Requests,
             Answer(r) \/ Acquire(r) \/ Release(r) \/ Leave(r)
      PROVE  Ahead
  BY <1>0, <1>4 DEF Answer, Acquire, Release, Leave, Ahead
<1>5. ~(\/ Connect \/ BootFails \/ Notify \/ ListenFails \/ Terminate \/ Restart
        \/ \E r \in Requests : Accept(r))
  BY DEF Connect, BootFails, Notify, ListenFails, Terminate, Restart, Accept
<1> QED BY <1>1, <1>3, <1>4, <1>5 DEF Next, Shutdown

\* After SIGTERM main does not go back, no request reaches a handler, and once
\* the pool is closed its connections only come back: with the ends of
\* handlers and statements, why the process ends (StopEnds).
THEOREM Progress == Spec => StopGoesAhead
<1>1. IInv /\ [Next]_vars => [Ahead]_vars
  BY AheadStep
<1> QED BY <1>1, Invariant, PTL DEF Spec, StopGoesAhead
=============================================================================
