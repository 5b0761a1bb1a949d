---------------------------- MODULE RateLimiter ----------------------------
(***************************************************************************)
(* Limiter.Allow (internal/ratelimit/ratelimit.go) run by concurrent       *)
(* request goroutines against one Valkey server.  Allow is three commands, *)
(* INCR, EXPIRE and TTL, each a step of its own: other callers, the clock  *)
(* of the server, a restart of the server and a crash of the API process   *)
(* come between them.  Valkey runs without persistence                     *)
(* (docker-compose.yml: --save "" --appendonly no), so a restart forgets   *)
(* every counter.                                                          *)
(*                                                                         *)
(* Time is counted in ticks, of which a second has several: TTL answers    *)
(* whole seconds.  A command is sent only while the context of its call of *)
(* Allow lasts.  A grant is counted when INCR answers: the answer          *)
(* n <= Limit decides it, and nothing Allow does afterwards can turn it    *)
(* into a refusal.                                                         *)
(***************************************************************************)
EXTENDS Integers

CONSTANTS Callers,      \* goroutines that call Allow
          Keys,         \* rate-limited names, "rl:" + key
          Limit,        \* the limit argument of Allow
          Window,       \* the window argument of Allow, in ticks
          Second,       \* ticks in a second
          Timeout,      \* how long the context of Allow lasts, in ticks (2 s)
          MaxCount,     \* bound of the model: no INCR beyond this count
          MaxFaults,    \* bound of the model: lost commands and crashes
          MaxRestarts   \* bound of the model: restarts of Valkey

ASSUME LimitAssumption  == Limit \in Nat \ {0}
ASSUME WindowAssumption == Window \in Nat \ {0}
ASSUME TimeAssumption   == Second \in Nat \ {0} /\ Timeout \in Nat
ASSUME BoundAssumption  == MaxCount \in Nat /\ MaxFaults \in Nat /\ MaxRestarts \in Nat

NoTTL == -1  \* what TTL answers for a key without expiry (and -2, no key)

VARIABLES
  count,     \* count[k]: the counter at rl:k, 0 when there is no such key
  ttl,       \* ttl[k]: ticks until the key expires, NoTTL if it never does
  caller,    \* caller[c]: where goroutine c is in Allow, and the ticks left:
             \* of its context, or of the time it was told to wait
  faults,    \* lost commands and crashes so far
  restarts,  \* restarts of Valkey so far
  granted,   \* history: grants of the present life of the counter of k
  elapsed,   \* history: ticks since INCR created the counter, up to Window
  recent     \* history: recent[k][a]: grants of this tick and the a before it

store   == <<count, ttl>>
history == <<granted, elapsed, recent>>
vars    == <<count, ttl, caller, faults, restarts, granted, elapsed, recent>>

Idle(k) == [pc |-> "idle", key |-> k, left |-> 0]

Init == /\ count = [k \in Keys |-> 0]
        /\ ttl = [k \in Keys |-> NoTTL]
        /\ caller \in [Callers -> {Idle(k) : k \in Keys}]
        /\ faults = 0
        /\ restarts = 0
        /\ granted = [k \in Keys |-> 0]
        /\ elapsed = [k \in Keys |-> 0]
        /\ recent = [k \in Keys |-> [a \in 0..Window-1 |-> 0]]

-----------------------------------------------------------------------------
\* Places in Allow that wait for a command, and those of a caller that was
\* refused by a counter that is still there.
Commands == {"incr", "expire", "ttl"}
Told     == {"toldTTL", "toldWindow"}

\* Where a caller goes next, and how many ticks it has left there.
MoveTo(c, pc, left) ==
  caller' = [caller EXCEPT ![c] = [pc |-> pc, key |-> caller[c].key, left |-> left]]

Goto(c, pc) == MoveTo(c, pc, IF pc = "idle" THEN 0 ELSE caller[c].left)

\* A handler calls Allow; a caller once refused may call again at any time.
Call(c, k) ==
  /\ caller[c].pc \notin Commands
  /\ caller' = [caller EXCEPT ![c] = [pc |-> "incr", key |-> k, left |-> Timeout]]
  /\ UNCHANGED <<store, faults, restarts, history>>

\* What INCR does on the server: it creates the key, without expiry, or adds 1.
ApplyIncr(k) ==
  /\ count[k] < MaxCount
  /\ count' = [count EXCEPT ![k] = @ + 1]
  /\ elapsed' = IF count[k] = 0 THEN [elapsed EXCEPT ![k] = 0] ELSE elapsed
  /\ UNCHANGED ttl

\* Mutants of AfterIncr: EXPIRE at the limit, at every grant, never.
AfterIncrAtLimit(n) == IF n = Limit THEN "expire"
                       ELSE IF n > Limit THEN "ttl" ELSE "idle"
AfterIncrAlways(n)  == IF n > Limit THEN "ttl" ELSE "expire"
AfterIncrNever(n)   == IF n > Limit THEN "ttl" ELSE "idle"

\* The branches of Allow on the answer n of INCR.
AfterIncr(n) == IF n = 1 THEN "expire"
                ELSE IF n > Limit THEN "ttl" ELSE "idle"

\* Mutant of Grants: one call too many.
GrantsOneMore(n) == n <= Limit + 1

Grants(n) == n <= Limit

\* INCR is applied and answered.
Incr(c) ==
  LET k == caller[c].key
      n == count[k] + 1
  IN  /\ caller[c].pc = "incr"
      /\ ApplyIncr(k)
      /\ Goto(c, AfterIncr(n))
      /\ IF Grants(n)
         THEN /\ granted' = [granted EXCEPT ![k] = @ + 1]
              /\ recent' = [recent EXCEPT ![k] =
                              [a \in 0..Window-1 |-> @[a] + 1]]
         ELSE UNCHANGED <<granted, recent>>
      /\ UNCHANGED <<faults, restarts>>

\* INCR is not applied: Allow refuses, with a second to wait (fail closed).
IncrFails(c) ==
  /\ caller[c].pc = "incr"
  /\ Goto(c, "idle")
  /\ UNCHANGED <<store, faults, restarts, history>>

\* INCR is applied and its answer lost.  The client library sends it again,
\* or gives up and Allow refuses.
IncrAnswerLost(c) ==
  /\ caller[c].pc = "incr"
  /\ faults < MaxFaults
  /\ faults' = faults + 1
  /\ ApplyIncr(caller[c].key)
  /\ \/ UNCHANGED caller
     \/ Goto(c, "idle")
  /\ UNCHANGED <<restarts, granted, recent>>

\* Mutant of Life: the window is rounded down.
LifeCut == Window - 1

\* What EXPIRE is told.
Life == Window

\* What EXPIRE does on the server: a key that does not exist stays away, one
\* that has an expiry gets a new one.
ApplyExpire(k) ==
  /\ ttl' = IF count[k] > 0 THEN [ttl EXCEPT ![k] = Life] ELSE ttl
  /\ UNCHANGED count

\* EXPIRE is applied and answered.  n = 1 <= Limit, so the call is granted.
Expire(c) ==
  /\ caller[c].pc = "expire"
  /\ ApplyExpire(caller[c].key)
  /\ Goto(c, "idle")
  /\ UNCHANGED <<faults, restarts, history>>

\* EXPIRE is applied and its answer lost.  The client library sends it again,
\* to a window that runs, or gives up; the error is ignored.
ExpireAnswerLost(c) ==
  /\ caller[c].pc = "expire"
  /\ faults < MaxFaults
  /\ faults' = faults + 1
  /\ ApplyExpire(caller[c].key)
  /\ \/ UNCHANGED caller
     \/ Goto(c, "idle")
  /\ UNCHANGED <<restarts, history>>

\* EXPIRE does not reach the server; its error is ignored.
ExpireFails(c) ==
  /\ caller[c].pc = "expire"
  /\ faults < MaxFaults
  /\ faults' = faults + 1
  /\ Goto(c, "idle")
  /\ UNCHANGED <<store, restarts, history>>

\* TTL answers s whole seconds when t ticks remain: the nearest number, half a
\* second up.
Rounded(s, t) == 2 * (s * Second - t) \in 1-Second..Second

\* Mutant of RetryAfter: the rounding is not made up for.
RetryAfterRounded(s) == s * Second

\* The handlers tell the caller to come back a second after what Allow
\* returned.
RetryAfter(s) == s * Second + Second

\* TTL answers how long to wait; without an expiry, or on an error, the
\* caller is told to wait a whole window, even when the counter has gone
\* meanwhile and nothing stands in its way.
ReadTTL(c) ==
  LET k == caller[c].key
  IN  /\ caller[c].pc = "ttl"
      /\ \/ /\ ttl[k] # NoTTL
            /\ \E s \in 0..Window :
                 Rounded(s, ttl[k]) /\ MoveTo(c, "toldTTL", RetryAfter(s))
         \/ count[k] > 0 /\ MoveTo(c, "toldWindow", Window + Second)
         \/ count[k] = 0 /\ Goto(c, "idle")
      /\ UNCHANGED <<store, faults, restarts, history>>

-----------------------------------------------------------------------------
Dies(k) == ttl[k] = 1   \* the key expires at the next tick

\* A caller that was told to wait by a counter that is no more is free.
Freed(c) == caller[c].pc \in Told /\ Dies(caller[c].key)

\* Time passes on the server; keys whose time is up are gone.  No command is
\* still on its way when the context of its call ends.
Tick ==
  /\ \A c \in Callers : caller[c].pc \in Commands => caller[c].left > 0
  /\ count' = [k \in Keys |-> IF Dies(k) THEN 0 ELSE count[k]]
  /\ ttl' = [k \in Keys |-> IF Dies(k) \/ ttl[k] = NoTTL
                            THEN NoTTL ELSE ttl[k] - 1]
  /\ caller' = [c \in Callers |->
                  IF Freed(c) THEN Idle(caller[c].key)
                  ELSE [caller[c] EXCEPT !.left = IF @ > 0 THEN @ - 1 ELSE 0]]
  /\ granted' = [k \in Keys |-> IF Dies(k) THEN 0 ELSE granted[k]]
  /\ elapsed' = [k \in Keys |->
                   IF Dies(k) \/ count[k] = 0 THEN 0
                   ELSE IF elapsed[k] < Window THEN elapsed[k] + 1 ELSE Window]
  /\ recent' = [k \in Keys |-> [a \in 0..Window-1 |->
                   IF a = 0 THEN 0 ELSE recent[k][a-1]]]
  /\ UNCHANGED <<faults, restarts>>

\* Valkey restarts empty.
ValkeyRestart ==
  /\ restarts < MaxRestarts
  /\ restarts' = restarts + 1
  /\ count' = [k \in Keys |-> 0]
  /\ ttl' = [k \in Keys |-> NoTTL]
  /\ granted' = [k \in Keys |-> 0]
  /\ elapsed' = [k \in Keys |-> 0]
  /\ caller' = [c \in Callers |-> IF caller[c].pc \in Told
                                  THEN Idle(caller[c].key) ELSE caller[c]]
  /\ UNCHANGED <<faults, recent>>

\* The API process dies: every goroutine in the middle of Allow is gone.
ApiCrash ==
  /\ faults < MaxFaults
  /\ faults' = faults + 1
  /\ caller' = [c \in Callers |-> IF caller[c].pc \in Commands
                                  THEN Idle(caller[c].key) ELSE caller[c]]
  /\ UNCHANGED <<store, restarts, history>>

Step(c) == \/ Incr(c)
           \/ IncrFails(c)
           \/ IncrAnswerLost(c)
           \/ Expire(c)
           \/ ExpireAnswerLost(c)
           \/ ExpireFails(c)
           \/ ReadTTL(c)

Next == \/ \E c \in Callers, k \in Keys : Call(c, k)
        \/ \E c \in Callers : Step(c)
        \/ Tick
        \/ ValkeyRestart
        \/ ApiCrash

Spec == Init /\ [][Next]_vars

\* Every command ends within the context of Allow, and time passes.  Nobody
\* has to call.
FairSpec == /\ Spec
            /\ WF_vars(Tick)
            /\ \A c \in Callers : WF_vars(Step(c))

-----------------------------------------------------------------------------
CallerType == [pc: {"idle"} \union Commands \union Told, key: Keys, left: Nat]

\* The values the variables take.  A key has an expiry only if it exists.
TypeOK == /\ count \in [Keys -> 0..MaxCount]
          /\ ttl \in [Keys -> {NoTTL} \union 1..Window]
          /\ caller \in [Callers -> CallerType]
          /\ \A c \in Callers : caller[c].pc \in Commands => caller[c].left <= Timeout
          /\ faults \in 0..MaxFaults
          /\ restarts \in 0..MaxRestarts
          /\ granted \in [Keys -> Nat]
          /\ elapsed \in [Keys -> 0..Window]
          /\ recent \in [Keys -> [0..Window-1 -> Nat]]

\* A counter lets at most Limit calls through between its creation and its
\* end, however the commands of the callers interleave and whatever is lost
\* (Allow, the comparison n > limit on the answer of INCR).
GrantsBounded == \A k \in Keys : granted[k] <= Limit

\* Whatever the alignment of the windows, no Window consecutive ticks see
\* more than two windows' worth of grants, plus one for each time the store
\* was emptied: what the callers of Allow can really rely on.
BurstBounded ==
  \A k \in Keys : recent[k][Window-1] <= (2 + restarts) * Limit

\* Somebody may still be about to send the EXPIRE of k.
Opening(k) ==
  \E c \in Callers : caller[c].pc \in {"incr", "expire"} /\ caller[c].key = k

\* The comment at Allow, "implements a fixed-window counter": once the callers
\* that were opening it are done, a counter that exists has an end.
CounterHasWindow ==
  \A k \in Keys : count[k] > 0 /\ ~Opening(k) => ttl[k] # NoTTL

\* While no command is lost and the API does not die, it is so, whatever the
\* interleaving of the callers and the restarts of Valkey.
WindowUnlessFault == faults = 0 => CounterHasWindow

\* Somebody sends EXPIRE to a window that runs: again, when the answer is
\* lost, or to the key that another one has made after a restart.  So a counter
\* may outlive its window, but by no more than a context of Allow.
EndsOnTime ==
  \A k \in Keys : ttl[k] # NoTTL => elapsed[k] + ttl[k] <= Window + Timeout

\* How late the end of its counter may be for a refused caller: not at all for
\* one that was told the TTL while nothing was lost and Valkey did not restart.
Slip(c) == IF caller[c].pc = "toldTTL" /\ faults = 0 /\ restarts = 0 THEN 0 ELSE Timeout

\* A refused caller that waits as long as it was told (smtp.go, "Retry-After")
\* finds its counter gone, although TTL answers whole seconds, and windows are
\* prolonged by an EXPIRE that is sent late or again: then with that delay.
RetryAfterHolds ==
  \A c \in Callers :
    caller[c].pc \in Told => ttl[caller[c].key] <= caller[c].left + Slip(c)

\* Refusals do not last: a counter over its limit ends in time, as long as
\* no command was lost (a counter without an expiry refuses for ever).
RefusalEnds ==
  \A k \in Keys : count[k] > Limit ~> count[k] = 0 \/ faults > 0

\* Allow implements the fixed window of module FixedWindow: in particular no
\* counter is forgotten before its window has passed, restarts apart.
Promise == INSTANCE FixedWindow WITH losses <- restarts, MaxLosses <- MaxRestarts
FixedWindowSpec == Promise!Spec
=============================================================================
