---------------------------- MODULE WebhookBins ----------------------------
(***************************************************************************)
(* The bins of internal/webhook/store.go: rows of webhook_bins, the cache  *)
(* keys "bin:<id>" in Valkey that PublicExists trusts, and the calls of    *)
(* Store that read and write both, run by concurrent request goroutines.   *)
(* Every SQL statement and every Valkey command is a step; between two     *)
(* steps of a call other calls run and time passes.  A call gives up when  *)
(* its context times out.  A command may fail, and one that changes rows   *)
(* may be applied although its answer is lost.                             *)
(*                                                                         *)
(* Names, hit counts and the hits are left out (module WebhookHits has the *)
(* hits); ids are drawn at random and never drawn twice.                   *)
(***************************************************************************)
EXTENDS Integers, FiniteSets

CONSTANTS Workers,   \* request goroutines
          Users,
          Ids,       \* bin ids
          Nobody,    \* owner of an id without a row, user of a public call
          NoTask,    \* what an idle worker is doing
          MaxBins,   \* MaxBinsPerUser
          BinTTL,    \* life of a bin, in ticks
          Timeout,   \* context timeout of a call, in ticks
          MaxTime,   \* bound of the model: last tick
          Faults     \* BOOLEAN: are answers lost, and do DELs fail?

Ops == {"create", "list", "get", "delete", "own", "exists", "ingest"}

\* The calls of handleHookIngest, which nobody has to be signed in for.
Public == {"exists", "ingest"}

Task == [op: Ops, user: Users \union {Nobody}, bin: Ids, begun: 0..MaxTime]

\* Where a worker can be, named for the command it is about to send, and what
\* a call can return.
Places == {"idle", "prune", "uncache", "count", "insert", "cacheNew", "list",
           "owned", "dropExpired", "delete", "uncacheOne", "uncacheDeleted",
           "probe", "select", "fill"}
Answers == {"none", "ok", "no", "exists", "limit", "error"}

ASSUME NamesAssumption ==
  /\ NoTask \notin Task
  /\ IsFiniteSet(Workers) /\ IsFiniteSet(Ids)
  /\ Workers # {} /\ Ids # {} /\ Users # {} /\ Nobody \notin Users
ASSUME BinsAssumption ==
  /\ MaxBins \in Nat \ {0} /\ BinTTL \in Nat \ {0}
  /\ Timeout \in Nat /\ MaxTime \in Nat /\ Faults \in BOOLEAN
ASSUME TimesAssumption == Timeout <= BinTTL  \* 8 s at most, and 72 h

VARIABLES
  owner,    \* owner[b]: user_id of the row of b, or Nobody
  exp,      \* exp[b]: expires_at of the row of b, kept when the row is gone
  created,  \* ids whose row was inserted
  cache,    \* cache[b]: when the key of b expires, 0 when there is none
  now,      \* the clock of the machine all parts run on
  pc,       \* pc[w]: the next command of worker w
  task,     \* task[w]: the call w is in
  seen,     \* seen[w]: an expiry, or a time to live, that w has computed
  todo,     \* todo[w]: pruned ids that w has yet to uncache
  ans       \* ans[w]: what the last call of w returned

rows  == <<owner, exp, created>>
local == <<task, seen, todo, ans>>
vars  == <<owner, exp, created, cache, now, pc, task, seen, todo, ans>>

Init == /\ owner = [b \in Ids |-> Nobody]
        /\ exp = [b \in Ids |-> 0]
        /\ created = {}
        /\ cache = [b \in Ids |-> 0]
        /\ now = 0
        /\ pc = [w \in Workers |-> "idle"]
        /\ task = [w \in Workers |-> NoTask]
        /\ seen = [w \in Workers |-> 0]
        /\ todo = [w \in Workers |-> {}]
        /\ ans = [w \in Workers |-> "none"]

-----------------------------------------------------------------------------
InTime(w) == now <= task[w].begun + Timeout

BinsOf(u) == {b \in Ids : owner[b] = u}

\* expires_at < NOW(), and time.Now().After(expires_at).
Expired(b) == now > exp[b]

Goto(w, to) == pc' = [pc EXCEPT ![w] = to]

\* The call returns a, and its local variables are gone.
Return(w, a) == /\ Goto(w, "idle")
                /\ ans' = [ans EXCEPT ![w] = a]
                /\ seen' = [seen EXCEPT ![w] = 0]
                /\ todo' = [todo EXCEPT ![w] = {}]
                /\ task' = [task EXCEPT ![w] = NoTask]

\* The call goes on.
Continue(w, to) == Goto(w, to) /\ UNCHANGED local

\* Worker w is at command `at` of a call that has time left.
At(w, at) == pc[w] = at /\ InTime(w)

RemoveRows(B) == /\ owner' = [b \in Ids |-> IF b \in B THEN Nobody ELSE owner[b]]
                 /\ UNCHANGED <<exp, created>>

-----------------------------------------------------------------------------
First(op) == IF op \in {"delete", "own"} THEN "owned"
             ELSE IF op = "exists" THEN "probe" ELSE "prune"

\* Mutant of Fresh: ids that two calls may draw at the same time.
FreshAmongRows(b) == b \notin created

\* newID: an id that nobody has.
Fresh(b) == /\ b \notin created
            /\ \A w \in Workers :
                 ~(pc[w] # "idle" /\ task[w].op = "create" /\ task[w].bin = b)

\* A handler calls the store: Create with a fresh id, PublicExists with any,
\* the others with an id whose row is or was there: the owner's List shows it
\* before Create returns, and Ingest comes after PublicExists.
Start(w, op, u, b) ==
  /\ pc[w] = "idle"
  /\ u = Nobody <=> op \in Public
  /\ op = "create" => Fresh(b)
  /\ op \notin {"create", "exists"} => b \in created
  /\ task' = [task EXCEPT ![w] = [op |-> op, user |-> u, bin |-> b, begun |-> now]]
  /\ Goto(w, First(op))
  /\ ans' = [ans EXCEPT ![w] = "none"]
  /\ UNCHANGED <<rows, cache, now, seen, todo>>

AfterPrune(op) == CASE op = "create" -> "count"
                    [] op = "list"   -> "list"
                    [] op = "get"    -> "owned"
                    [] OTHER         -> "select"

\* pruneExpired: DELETE ... WHERE expires_at < NOW() RETURNING id.
Prune(w) ==
  LET gone == {b \in Ids : owner[b] # Nobody /\ Expired(b)}
  IN  /\ At(w, "prune")
      /\ RemoveRows(gone)
      /\ todo' = [todo EXCEPT ![w] = gone]
      /\ Goto(w, IF gone = {} THEN AfterPrune(task[w].op) ELSE "uncache")
      /\ UNCHANGED <<cache, now, task, seen, ans>>

\* uncacheBin: DEL of the key; an error is ignored and the key stays.
Uncache(b) == \/ cache' = [cache EXCEPT ![b] = 0]
              \/ Faults /\ UNCHANGED cache

\* pruneExpired: uncacheBin for each returned id.
UncacheNext(w) ==
  /\ At(w, "uncache")
  /\ \E b \in todo[w] :
       /\ Uncache(b)
       /\ todo' = [todo EXCEPT ![w] = @ \ {b}]
       /\ Goto(w, IF todo[w] = {b} THEN AfterPrune(task[w].op) ELSE "uncache")
  /\ UNCHANGED <<rows, now, task, seen, ans>>

\* Mutant of AfterPruneError: Create ignores the error too.
AfterPruneErrorIgnored(w) == Continue(w, AfterPrune(task[w].op))

\* pruneExpired fails: Create returns the error, the others ignore it.
AfterPruneError(w) == IF task[w].op = "create" THEN Return(w, "error")
                      ELSE Continue(w, AfterPrune(task[w].op))

PruneFails(w) ==
  /\ At(w, "prune")
  /\ AfterPruneError(w)
  /\ UNCHANGED <<rows, cache, now>>

\* The rows are deleted, but their ids do not arrive.
PruneAnswerLost(w) ==
  /\ At(w, "prune")
  /\ Faults
  /\ RemoveRows({b \in Ids : owner[b] # Nobody /\ Expired(b)})
  /\ AfterPruneError(w)
  /\ UNCHANGED <<cache, now>>

\* Create: SELECT COUNT(*), the limit, and expires_at from time.Now().
Full(n) == n >= MaxBins

Count(w) ==
  /\ At(w, "count")
  /\ IF Full(Cardinality(BinsOf(task[w].user)))
     THEN Return(w, "limit")
     ELSE /\ Goto(w, "insert")
          /\ seen' = [seen EXCEPT ![w] = now + BinTTL]
          /\ UNCHANGED <<task, todo, ans>>
  /\ UNCHANGED <<rows, cache, now>>

\* Create: INSERT INTO webhook_bins.
InsertRow(w) == /\ owner' = [owner EXCEPT ![task[w].bin] = task[w].user]
                /\ exp' = [exp EXCEPT ![task[w].bin] = seen[w]]
                /\ created' = created \union {task[w].bin}

Insert(w) ==
  /\ At(w, "insert")
  /\ InsertRow(w)
  /\ Continue(w, "cacheNew")
  /\ UNCHANGED <<cache, now>>

InsertAnswerLost(w) ==
  /\ At(w, "insert")
  /\ Faults
  /\ InsertRow(w)
  /\ Return(w, "error")
  /\ UNCHANGED <<cache, now>>

\* Create: cacheBin for the full life of the bin; an error is ignored.
CacheNew(w) ==
  /\ At(w, "cacheNew")
  /\ cache' \in {cache, [cache EXCEPT ![task[w].bin] = now + BinTTL]}
  /\ Return(w, "ok")
  /\ UNCHANGED <<rows, now>>

\* List: the query; it changes nothing.
ListRows(w) ==
  /\ At(w, "list")
  /\ Return(w, "ok")
  /\ UNCHANGED <<rows, cache, now>>

\* Mutant of Mine: the owner is not compared.
AnyOnes(w) == owner[task[w].bin] # Nobody

Mine(w) == owner[task[w].bin] = task[w].user

\* getOwned: the row, its owner and its expiry.
Owned(w) ==
  LET b == task[w].bin
  IN  /\ At(w, "owned")
      /\ \/ /\ owner[b] = Nobody \/ ~Mine(w)
            /\ Return(w, "no")
         \/ /\ Mine(w) /\ Expired(b)
            /\ Continue(w, "dropExpired")
         \/ /\ Mine(w) /\ ~Expired(b)
            /\ IF task[w].op = "delete" THEN Continue(w, "delete")
               ELSE Return(w, "ok")
      /\ UNCHANGED <<rows, cache, now>>

\* getOwned and Ingest: DELETE of an expired bin, its error ignored.  Only
\* getOwned goes on to uncache it.
DropExpired(w) ==
  /\ At(w, "dropExpired")
  /\ \/ RemoveRows({task[w].bin})
     \/ UNCHANGED rows
  /\ IF task[w].op = "ingest" THEN Return(w, "no") ELSE Continue(w, "uncacheOne")
  /\ UNCHANGED <<cache, now>>

\* Delete: DELETE of the bin; on an error the key stays cached.
Delete(w) ==
  /\ At(w, "delete")
  /\ RemoveRows({task[w].bin})
  /\ Continue(w, "uncacheDeleted")
  /\ UNCHANGED <<cache, now>>

DeleteAnswerLost(w) ==
  /\ At(w, "delete")
  /\ Faults
  /\ RemoveRows({task[w].bin})
  /\ Return(w, "error")
  /\ UNCHANGED <<cache, now>>

\* uncacheBin at the end of a call.
UncacheOne(w) ==
  /\ \/ At(w, "uncacheOne") /\ Return(w, "no")
     \/ At(w, "uncacheDeleted") /\ Return(w, "ok")
  /\ Uncache(task[w].bin)
  /\ UNCHANGED <<rows, now>>

\* PublicExists: EXISTS; on a miss or an error the database is asked.
Probe(w) ==
  /\ At(w, "probe")
  /\ \/ cache[task[w].bin] > now /\ Return(w, "exists")
     \/ Continue(w, "prune")
  /\ UNCHANGED <<rows, cache, now>>

\* Mutant of Left: the key is set for a whole life.
LeftAll(b) == BinTTL

\* time.Until(expires_at).
Left(b) == exp[b] - now

\* PublicExists and Ingest: SELECT expires_at, compared with the clock.
\* PublicExists computes the time to live of the key it is about to set.
Select(w) ==
  LET b == task[w].bin
  IN  /\ At(w, "select")
      /\ \/ /\ owner[b] = Nobody
            /\ Return(w, "no")
         \/ /\ owner[b] # Nobody /\ Expired(b)
            /\ Continue(w, IF task[w].op = "exists" THEN "uncacheOne" ELSE "dropExpired")
         \/ /\ owner[b] # Nobody /\ ~Expired(b)
            /\ IF task[w].op = "ingest" THEN Return(w, "ok")
               ELSE /\ Goto(w, "fill")
                    /\ seen' = [seen EXCEPT ![w] = Left(b)]
                    /\ UNCHANGED <<task, todo, ans>>
      /\ UNCHANGED <<rows, cache, now>>

\* PublicExists: cacheBin with what was left of the bin's life; nothing left,
\* or an error: no key.
Fill(w) ==
  /\ At(w, "fill")
  /\ \/ UNCHANGED cache
     \/ seen[w] > 0 /\ cache' = [cache EXCEPT ![task[w].bin] = now + seen[w]]
  /\ Return(w, "exists")
  /\ UNCHANGED <<rows, now>>

\* What a call returns when it cannot go on: the cache is not essential, the
\* expired bin stays expired, PublicExists says no and List has no rows.
GivenUp(w) == CASE pc[w] \in {"cacheNew", "uncacheDeleted"} -> "ok"
                [] pc[w] = "fill"                           -> "exists"
                [] pc[w] \in {"dropExpired", "uncacheOne"}  -> "no"
                [] OTHER -> CASE task[w].op = "exists" -> "no"
                              [] task[w].op = "list"   -> "ok"
                              [] OTHER                 -> "error"

\* A statement that a call cannot do without fails, or the context is over.
Abandon(w) ==
  /\ \/ pc[w] \in {"count", "insert", "list", "owned", "delete", "select"}
     \/ pc[w] # "idle" /\ ~InTime(w)
  /\ Return(w, GivenUp(w))
  /\ UNCHANGED <<rows, cache, now>>

\* Time passes, and keys expire.
Tick == /\ now < MaxTime
        /\ now' = now + 1
        /\ cache' = [b \in Ids |-> IF cache[b] > now' THEN cache[b] ELSE 0]
        /\ UNCHANGED <<rows, pc, local>>

\* Valkey restarts empty.
ValkeyRestart == /\ cache' = [b \in Ids |-> 0]
                 /\ UNCHANGED <<rows, now, pc, local>>

Command(w) == \/ Prune(w)
              \/ PruneFails(w)
              \/ PruneAnswerLost(w)
              \/ UncacheNext(w)
              \/ Count(w)
              \/ Insert(w)
              \/ InsertAnswerLost(w)
              \/ CacheNew(w)
              \/ ListRows(w)
              \/ Owned(w)
              \/ DropExpired(w)
              \/ Delete(w)
              \/ DeleteAnswerLost(w)
              \/ UncacheOne(w)
              \/ Probe(w)
              \/ Select(w)
              \/ Fill(w)
              \/ Abandon(w)

Next == \/ \E w \in Workers, op \in Ops, u \in Users \union {Nobody}, b \in Ids :
             Start(w, op, u, b)
        \/ \E w \in Workers : Command(w)
        \/ Tick
        \/ ValkeyRestart

Spec == Init /\ [][Next]_vars

-----------------------------------------------------------------------------
\* The values of the variables; a row belongs to an id that was created, an
\* idle worker has no call, and a call that inserts has a fresh id.
TypeOK ==
  /\ owner \in [Ids -> Users \union {Nobody}]
  /\ exp \in [Ids -> 0..MaxTime+BinTTL]
  /\ created \subseteq Ids
  /\ cache \in [Ids -> Nat]
  /\ now \in 0..MaxTime
  /\ pc \in [Workers -> Places]
  /\ task \in [Workers -> Task \union {NoTask}]
  /\ seen \in [Workers -> 0..MaxTime+BinTTL]
  /\ todo \in [Workers -> SUBSET Ids]
  /\ ans \in [Workers -> Answers]
  /\ \A w \in Workers : pc[w] = "idle" <=> task[w] = NoTask
  /\ \A b \in Ids : owner[b] # Nobody => b \in created
  /\ \A w \in Workers : pc[w] \in {"count", "insert"} => task[w].op = "create"
  /\ \A w \in Workers : pc[w] = "insert" => task[w].bin \notin created

\* What checking before inserting really achieves: the limit of README.md and
\* FormatLimitErr is exceeded, but by no more than the calls of Create that ran
\* at the same time.
BinOvershootBounded ==
  \A u \in Users : Cardinality(BinsOf(u)) <= MaxBins + Cardinality(Workers) - 1

\* The cache forgets a bin, deleted or expired, no later than one context
\* timeout after the bin's own expiry, although keys are set with times to
\* live computed before the command is sent.
CacheEndsWithBin == \A b \in Ids : cache[b] > now => cache[b] <= exp[b] + Timeout

\* A bin that has not expired is removed by Delete, called by its owner, and
\* by nothing else: not by pruning, not by another user, not by the expiry
\* paths acting on what they read earlier.
OnlyOwnerRemovesLiveBin ==
  [][\A b \in Ids :
       owner[b] # Nobody /\ owner'[b] = Nobody /\ ~Expired(b)
         => \E w \in Workers : /\ pc[w] = "delete" /\ pc'[w] # "delete"
                              /\ task[w].bin = b /\ task[w].user = owner[b]]_vars

\* Create refuses only a user who has MaxBins bins that were alive when the
\* call began: expired bins are pruned first, and if that fails, Create
\* fails rather than count them.
LimitOnlyWhenFull ==
  [][\A w \in Workers :
       ans'[w] = "limit" /\ ans[w] # "limit"
         => Cardinality({b \in BinsOf(task[w].user) : exp[b] >= task[w].begun})
              >= MaxBins]_vars
\* The calls of the store, whichever of them interleave, fail or are given up,
\* change bins and their cache as OwnedBins says: among the rest, checking the
\* limit before inserting exceeds it by fewer bins than there are calls.
Shelf == INSTANCE OwnedBins WITH
           Spare <- Cardinality(Workers) - 1,
           asked <- {<<task[w].user, task[w].bin>> : w \in {x \in Workers : pc[x] = "delete"}}
OwnedBinsSpec == Shelf!Spec
=============================================================================
