----------------------------- MODULE HookIngest -----------------------------
(***************************************************************************)
(* handleHookIngest (internal/httpapi/webhook.go), the public address of a *)
(* bin, composed of the three components it calls one after the other:     *)
(*   - PublicExists, and the reading part of Ingest, command by command as *)
(*     in WebhookBins, next to the owner's calls of the store;             *)
(*   - the limiter, by what it promises (FixedWindow, which RateLimiter    *)
(*     implements);                                                        *)
(*   - the transaction of Ingest, by what it promises (WebhookHits): it is *)
(*     applied as a whole, and fails without a row for the bin.            *)
(* The cache of bins and the counters of the limiter are in one Valkey.    *)
(*                                                                         *)
(* The contents of requests are left out; ids look like ids.               *)
(***************************************************************************)
EXTENDS WebhookBins

CONSTANTS HookLimit,  \* requests to a bin that a window lets through
          HookWindow, \* length of a window, in ticks
          MaxRestarts \* bound of the model: restarts of Valkey

ASSUME HookAssumption ==
  HookLimit \in Nat \ {0} /\ HookWindow \in Nat \ {0} /\ MaxRestarts \in Nat

VARIABLES
  step,    \* step[w]: where the handler that w runs is
  target,  \* target[w]: the bin in the path of the request
  since,   \* since[w]: when the request arrived
  reply,   \* reply[w]: how the last request was answered
  live,    \* history: there was a row for target[w] when the request arrived
  grants,  \* grants[b]: calls that the window of "hook:b" has let through
  age,     \* age[b]: how long that window is open
  losses,  \* how often Valkey has restarted
  stores   \* history: hits stored in b since its window was opened

limits   == <<grants, age, losses>>
request  == <<target, since, live>>
hookVars == <<step, target, since, live, reply, grants, age, losses, stores>>
allVars  == <<vars, hookVars>>

Limiter == INSTANCE FixedWindow
             WITH Keys <- Ids, Limit <- HookLimit, Window <- HookWindow,
                  MaxLosses <- MaxRestarts, granted <- grants, elapsed <- age

HookInit == /\ Init
            /\ step = [w \in Workers |-> "idle"]
            /\ target \in [Workers -> Ids]
            /\ since = [w \in Workers |-> 0]
            /\ reply = [w \in Workers |-> "none"]
            /\ live = [w \in Workers |-> FALSE]
            /\ Limiter!Init
            /\ stores = [b \in Ids |-> 0]

-----------------------------------------------------------------------------
\* Worker w has returned from its last call, and its handler is at step s.
AtStep(w, s) == pc[w] = "idle" /\ step[w] = s

Advance(w, s) == step' = [step EXCEPT ![w] = s] /\ UNCHANGED reply

Respond(w, r) == /\ step' = [step EXCEPT ![w] = "idle"]
                 /\ reply' = [reply EXCEPT ![w] = r]

\* The handler calls the store, for nobody in particular.
CallStore(w, op, b) == Start(w, op, Nobody, b)

\* Some call has yet to forget the key of b.
Uncaching(b) == \E x \in Workers :
                  \/ /\ pc[x] \in {"uncacheOne", "uncacheDeleted"}
                     /\ task[x].bin = b
                  \/ b \in todo[x]

\* A request for an id, of a bin or of none: PublicExists.
Ask(w, b) ==
  /\ AtStep(w, "idle")
  /\ target' = [target EXCEPT ![w] = b]
  /\ since' = [since EXCEPT ![w] = now]
  /\ reply' = [reply EXCEPT ![w] = "none"]
  /\ step' = [step EXCEPT ![w] = "exists"]
  /\ CallStore(w, "exists", b)
  /\ live' = [live EXCEPT ![w] = (owner[b] # Nobody \/ Uncaching(b))]
  /\ UNCHANGED <<limits, stores>>

\* Mutant of Confirmed: the result of PublicExists is ignored.
ConfirmedAnyway(a) == a # "none"

\* PublicExists returned true.
Confirmed(a) == a = "exists"

AfterExists(w) ==
  /\ AtStep(w, "exists")
  /\ IF Confirmed(ans[w]) THEN Advance(w, "allow") ELSE Respond(w, "notFound")
  /\ UNCHANGED <<vars, request, limits, stores>>

\* A grant counts the hits of a fresh window from zero.
Grant(b) == /\ Limiter!Grant(b)
            /\ stores' = [stores EXCEPT ![b] = IF grants[b] = 0 THEN 0 ELSE @]

\* Allow lets the request through.
Allow(w) ==
  /\ AtStep(w, "allow")
  /\ Grant(target[w])
  /\ Advance(w, "method")
  /\ UNCHANGED <<vars, request>>

\* Mutant of AfterRefusal: 429 is written, and the handler goes on.
AfterRefusalGoesOn(w) == Advance(w, "method")

AfterRefusal(w) == Respond(w, "limited")

\* Allow refuses, because the window is used up or a command failed; the
\* command may have been counted all the same.
Refuse(w) ==
  /\ AtStep(w, "allow")
  /\ \/ Grant(target[w])
     \/ UNCHANGED <<limits, stores>>
  /\ AfterRefusal(w)
  /\ UNCHANGED <<vars, request>>

\* HEAD: the bin is confirmed and nothing is stored.
Confirm(w) ==
  /\ AtStep(w, "method")
  /\ Respond(w, "confirmed")
  /\ UNCHANGED <<vars, request, limits, stores>>

\* The body cannot be read, or is too large.
Reject(w) ==
  /\ AtStep(w, "method")
  /\ Respond(w, "failed")
  /\ UNCHANGED <<vars, request, limits, stores>>

\* The body is read: Ingest.
Ingest(w) ==
  /\ AtStep(w, "method")
  /\ CallStore(w, "ingest", target[w])
  /\ Advance(w, "ingest")
  /\ UNCHANGED <<request, limits, stores>>

\* Ingest has read the bin's row, or returns.
AfterSelect(w) ==
  /\ AtStep(w, "ingest")
  /\ CASE ans[w] = "ok" -> Advance(w, "store")
       [] ans[w] = "no" -> Respond(w, "notFound")
       [] OTHER         -> Respond(w, "failed")
  /\ UNCHANGED <<vars, request, limits, stores>>

\* The transaction of Ingest commits; its answer may be lost.
Store(w) ==
  /\ AtStep(w, "store")
  /\ owner[target[w]] # Nobody
  /\ stores' = [stores EXCEPT ![target[w]] = @ + 1]
  /\ Respond(w, "stored") \/ Respond(w, "failed")
  /\ UNCHANGED <<vars, request, limits>>

\* The transaction fails, as it must when the bin is gone.
StoreFails(w) ==
  /\ AtStep(w, "store")
  /\ Respond(w, "failed")
  /\ UNCHANGED <<vars, request, limits, stores>>

\* A request of a user is handled by a worker that has no other.  List and
\* getOwned alone do nothing that Get does not do.
UserCalls(w, op, u, b) ==
  /\ step[w] = "idle"
  /\ op \in {"create", "get", "delete"}
  /\ Start(w, op, u, b)
  /\ reply' = [reply EXCEPT ![w] = "none"]
  /\ UNCHANGED <<step, request, limits, stores>>

\* Time passes for bins, keys and windows.
Time == Tick /\ Limiter!Elapse /\ UNCHANGED <<step, request, reply, stores>>

\* Valkey loses keys and counters.
Restart == ValkeyRestart /\ Limiter!Lose /\ UNCHANGED <<step, request, reply, stores>>

Handle(w) == \/ AfterExists(w)
             \/ Allow(w)
             \/ Refuse(w)
             \/ Confirm(w)
             \/ Reject(w)
             \/ Ingest(w)
             \/ AfterSelect(w)
             \/ Store(w)
             \/ StoreFails(w)

HookNext ==
  \/ \E w \in Workers, b \in Ids : Ask(w, b)
  \/ \E w \in Workers : Handle(w)
  \/ \E w \in Workers : Command(w) /\ UNCHANGED hookVars
  \/ \E w \in Workers, op \in Ops, u \in Users, b \in Ids : UserCalls(w, op, u, b)
  \/ Time
  \/ Restart

HookSpec == HookInit /\ [][HookNext]_allVars

-----------------------------------------------------------------------------
\* The limit is on requests let through, not on hits stored: a request that a
\* window let through may store its hit in a later one.  Since a window was
\* opened, a bin has stored no more than the window lets through and the
\* other requests that were under way, however slow bodies, time-outs and
\* restarts of Valkey fall.
StoresBounded ==
  \A b \in Ids : stores[b] <= HookLimit + Cardinality(Workers) - 1

\* A counter of the limiter exists only for an id that is or was a bin:
\* requests for anything else end before Allow, whatever the cache says.
CountersOnlyForBins == \A b \in Ids : grants[b] > 0 => b \in created

\* README.md, "72h TTL", seen from outside: a request that arrives after the
\* expiry of a bin, by the timeout of a call or more, is answered 404, although
\* PublicExists trusts a key that another request may have set, after the
\* expiry, from what it had read before.
ExpiredIsGone ==
  \A w \in Workers :
    LET end == exp[target[w]]
    IN  reply[w] \in {"limited", "confirmed", "stored", "failed"}
          => since[w] <= end \/ since[w] < end + Timeout

\* handleHookIngest, "just confirm the bin exists": a HEAD request is answered
\* 200 only for a bin that had a row, or was just being removed, when the
\* request arrived.
HeadConfirmsExisting == \A w \in Workers : reply[w] = "confirmed" => live[w]
=============================================================================
