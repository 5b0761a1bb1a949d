--------------------------- MODULE ServerLifecycle ---------------------------
(***************************************************************************)
(* The life of the process (cmd/server/main.go): it connects to the two    *)
(* stores, listens, and on SIGTERM stops listening, waits up to 10 s for   *)
(* the handlers, and closes its clients by the deferred calls.  Then the   *)
(* container is started again.  Handlers are net/http's; a visit's handler *)
(* leaves a goroutine behind (TrackAsync), which Shutdown does not know.   *)
(*                                                                         *)
(* Of a handler only its end matters; one of Slow need not end, as a test  *)
(* of a mail server that has stopped answering does (SmtpSession).  Of a   *)
(* goroutine it matters whether it is in a statement, and so has one of    *)
(* the pool's connections, or not.                                         *)
(***************************************************************************)
EXTENDS Integers, FiniteSets

CONSTANTS Requests,  \* requests, each handled once
          Visits,    \* those that leave a goroutine behind
          Slow,      \* those whose handler may never end
          MaxStarts  \* bound of the model: starts of the process

ASSUME RequestsAssumption ==
  /\ IsFiniteSet(Requests)
  /\ Visits \subseteq Requests /\ Slow \subseteq Requests
  /\ Visits \intersect Slow = {}
ASSUME StartsAssumption == MaxStarts \in Nat \ {0}

VARIABLES
  phase,     \* where main is
  code,      \* exit code of the last process that ended
  clients,   \* clients of stores that are open: "pool", "rdb"
  starts,    \* starts so far
  running,   \* requests whose handler runs
  answered,  \* requests whose handler has ended
  between,   \* goroutines of visits between two statements
  busy,      \* goroutines of visits in a statement, with a connection
  cut        \* history: exit codes of processes that ended with a handler,
             \* or a statement of a goroutine, under way

work == <<running, answered, between, busy>>
vars == <<phase, code, clients, starts, running, answered, between, busy, cut>>

Init == /\ phase = "boot"
        /\ code = "none"
        /\ clients = {}
        /\ starts = 1
        /\ running = {} /\ answered = {}
        /\ between = {} /\ busy = {}
        /\ cut = {}

-----------------------------------------------------------------------------
\* The process ends, and everything it was doing with it.
Exit(c) == /\ phase' = "off"
           /\ code' = c
           /\ clients' = {}
           /\ running' = {} /\ between' = {} /\ busy' = {}
           /\ cut' = IF running \union busy = {} THEN cut ELSE cut \union {c}
           /\ UNCHANGED <<starts, answered>>

\* db.Connect and then ConnectValkey, each with a ping.
Connect == /\ phase = "boot"
           /\ clients' = clients \union (IF clients = {} THEN {"pool"} ELSE {"rdb"})
           /\ phase' = IF clients = {} THEN "boot" ELSE "listening"
           /\ UNCHANGED <<code, starts, work, cut>>

\* The configuration or a connection is refused: os.Exit(1).
BootFails == phase = "boot" /\ Exit("1")

\* signal.Notify, after the goroutine that listens has been started.
Notify == /\ phase = "listening"
          /\ phase' = "up"
          /\ UNCHANGED <<code, clients, starts, work, cut>>

\* ListenAndServe returns an error other than ErrServerClosed: os.Exit(1).
ListenFails == phase \in {"listening", "up"} /\ Exit("1")

\* A request reaches its handler.
Accept(r) == /\ phase \in {"listening", "up"}
             /\ r \notin running \union answered
             /\ running' = running \union {r}
             /\ UNCHANGED <<phase, code, clients, starts, answered, between, busy, cut>>

\* The handler ends, by an answer or by a panic that withRecover answers.
Answer(r) == /\ r \in running
             /\ running' = running \ {r}
             /\ answered' = answered \union {r}
             /\ between' = IF r \in Visits THEN between \union {r} ELSE between
             /\ UNCHANGED <<phase, code, clients, starts, busy, cut>>

\* The goroutine of a visit gets a connection of the pool.
Acquire(r) == /\ r \in between /\ "pool" \in clients
              /\ between' = between \ {r}
              /\ busy' = busy \union {r}
              /\ UNCHANGED <<phase, code, clients, starts, running, answered, cut>>

\* The statement ends, at the latest with the 5 s of its context.
Release(r) == /\ r \in busy
              /\ busy' = busy \ {r}
              /\ between' = between \union {r}
              /\ UNCHANGED <<phase, code, clients, starts, running, answered, cut>>

\* The goroutine is done, or its context is over, or its client is closed.
Leave(r) == /\ r \in between
            /\ between' = between \ {r}
            /\ UNCHANGED <<phase, code, clients, starts, running, answered, busy, cut>>

-----------------------------------------------------------------------------
\* Before signal.Notify the default action of SIGTERM ends the process; after
\* it, main calls Shutdown, which closes the listener.
Terminate == \/ phase = "listening" /\ Exit("signal")
             \/ /\ phase = "up"
                /\ phase' = "draining"
                /\ UNCHANGED <<code, clients, starts, work, cut>>

\* Mutant of Quiescent: main goes on when ListenAndServe returns, which it
\* does as soon as Shutdown is called.
QuiescentAtOnce == TRUE

\* Shutdown has seen no active connection.
Quiescent == running = {}

\* Shutdown returns nil, and the deferred rdb.Close runs first.
Drained == /\ phase = "draining"
           /\ Quiescent
           /\ phase' = "closing"
           /\ clients' = clients \ {"rdb"}
           /\ UNCHANGED <<code, starts, work, cut>>

\* Mutant of MayTimeOut: Shutdown with a context that does not end.
MayTimeOutNever == FALSE

MayTimeOut == phase = "draining"

\* The 10 s are over: os.Exit(1), without the deferred calls.
ShutdownTimesOut == MayTimeOut /\ Exit("1")

\* pool.Close: no connection is handed out any more ...
ClosePool == /\ phase = "closing" /\ "pool" \in clients
             /\ clients' = clients \ {"pool"}
             /\ UNCHANGED <<phase, code, starts, work, cut>>

\* Mutant of PoolIdle: the process does not wait for connections.
PoolIdleAnyway == TRUE

\* ... and those handed out are waited for.
PoolIdle == busy = {}

Return == /\ phase = "closing" /\ "pool" \notin clients
          /\ PoolIdle
          /\ Exit("0")

\* SIGKILL: the 10 s that Docker waits after SIGTERM are over, or the memory
\* of the machine is.
Kill == phase # "off" /\ Exit("killed")

\* The container is started again.
Restart == /\ phase = "off" /\ starts < MaxStarts
           /\ phase' = "boot"
           /\ starts' = starts + 1
           /\ UNCHANGED <<code, clients, work, cut>>

Shutdown == Drained \/ ShutdownTimesOut \/ ClosePool \/ Return

Next == \/ Connect \/ BootFails \/ Notify \/ ListenFails
        \/ \E r \in Requests : \/ Accept(r)
                               \/ Answer(r)
                               \/ Acquire(r)
                               \/ Release(r)
                               \/ Leave(r)
        \/ Terminate
        \/ Shutdown
        \/ Kill
        \/ Restart

Spec == Init /\ [][Next]_vars

\* main goes on, statements end with their contexts, and a handler ends unless
\* it is one of Slow.  Nobody has to send a request, a signal or a restart.
FairSpec == /\ Spec
            /\ WF_vars(Connect) /\ WF_vars(Notify)
            /\ WF_vars(Drained) /\ WF_vars(ShutdownTimesOut)
            /\ WF_vars(ClosePool) /\ WF_vars(Return)
            /\ \A r \in Requests : WF_vars(Release(r))
            /\ \A r \in Requests \ Slow : WF_vars(Answer(r))

-----------------------------------------------------------------------------
\* The values of the variables; a request is handled by one goroutine at a
\* time, and a process that has ended does nothing.
TypeOK ==
  /\ phase \in {"boot", "listening", "up", "draining", "closing", "off"}
  /\ code \in {"none", "0", "1", "signal", "killed"}
  /\ clients \subseteq {"pool", "rdb"}
  /\ starts \in 1..MaxStarts
  /\ running \subseteq Requests /\ answered \subseteq Requests \ running
  /\ between \subseteq Visits \intersect answered
  /\ busy \subseteq (Visits \intersect answered) \ between
  /\ cut \subseteq {"0", "1", "signal", "killed"}
  /\ phase = "off" => running \union between \union busy \union clients = {}

\* A process that exits with 0 breaks off no handler and no statement of a
\* visit: Shutdown waits for the ones, pool.Close for the others.  It does end
\* goroutines of visits that are between two statements, or in a command of
\* Valkey, and their visits with them (ApiStops of VisitorTracker).
CleanExitDrains == "0" \notin cut

\* No handler meets a client that is not connected yet, or closed already: the
\* server listens after both are connected, and they are closed after the last
\* handler has ended, in whatever order requests, signals and ends come.
HandlersHaveClients == running # {} => clients = {"pool", "rdb"}

\* After SIGTERM the process ends, although a handler may wait for ever for a
\* mail server, and goroutines of visits hold connections that pool.Close
\* waits for.
StopEnds == phase = "draining" ~> phase = "off"
=============================================================================
