---------------------------- MODULE WebhookHits ----------------------------
(***************************************************************************)
(* The hits of one webhook bin (internal/webhook/store.go): Ingest stores  *)
(* a hit, trims the bin to its newest MaxHits and writes hit_count, in one *)
(* transaction; ClearHits empties the bin; Delete, and the two expiry      *)
(* paths, delete the bin and with it, by ON DELETE CASCADE, its hits.      *)
(*                                                                         *)
(* PostgreSQL runs at READ COMMITTED: every statement sees what was        *)
(* committed when it began, and its own transaction's changes.  A deleted  *)
(* row stays locked until the transaction ends; INSERT of a hit takes KEY  *)
(* SHARE on the bin, UPDATE of hit_count NO KEY UPDATE, DELETE of the bin  *)
(* UPDATE.  A DELETE goes from row to row in no particular order, and      *)
(* keeps those it has deleted while it waits for one that another          *)
(* transaction has deleted; it skips the row if that one commits.  The     *)
(* server breaks a cycle of waits by aborting one transaction of it.       *)
(* Whoever waits for a lock keeps its connection of the pool.              *)
(*                                                                         *)
(* Each request runs once; an Ingest is named by the hit it stores.        *)
(* last_hit_at and the contents of a hit are left out.                     *)
(***************************************************************************)
EXTENDS Integers, FiniteSets

CONSTANTS Ingests,   \* calls of Ingest, and the hits they store
          Clears,    \* calls of ClearHits
          Drops,     \* deletions of the bin: Delete, expiry, pruneExpired
          MaxHits,   \* MaxHitsPerBin
          MaxConns,  \* connections of the pool, one per transaction
          NoOne,     \* nobody holds the lock
          MaxClock,  \* bound of the model: last instant of the clock
          MaxFails   \* bound of the model: failed transactions

Requests == Ingests \union Clears \union Drops

ASSUME RequestsAssumption ==
  /\ IsFiniteSet(Requests)
  /\ Ingests \intersect Clears = {}
  /\ Drops \intersect (Ingests \union Clears) = {}
  /\ NoOne \notin Requests
ASSUME LimitsAssumption == MaxHits \in Nat \ {0} /\ MaxConns \in Nat \ {0}
ASSUME BoundsAssumption == MaxClock \in Nat /\ MaxFails \in Nat

VARIABLES
  bin,        \* is there a row for the bin in webhook_bins?
  hits,       \* committed rows of webhook_hits
  hitCount,   \* committed column webhook_bins.hit_count
  clock,      \* time.Now(): two calls may read the same instant
  pc,         \* pc[r]: the next statement of request r
  recv,       \* recv[h]: received_at of hit h, read by its Ingest
  todo,       \* todo[r]: rows that the DELETE of r has yet to come to
  del,        \* del[r]: rows that r has deleted, not yet committed
  newCount,   \* newCount[r]: the hit_count that r writes
  share,      \* Ingests that hold KEY SHARE on the bin's row
  owner,      \* who holds NO KEY UPDATE or UPDATE on the bin's row
  fails,      \* failed transactions so far
  stored,     \* history: hits whose Ingest committed
  cleared,    \* history: hits removed by ClearHits or with the bin
  stale,      \* history: requests whose count was overtaken by a commit
  accuracy    \* history: whether the writer of hitCount was one of them

rows  == <<bin, hits, hitCount>>
locks == <<share, owner>>
past  == <<stored, cleared, stale, accuracy>>
vars  == <<bin, hits, hitCount, clock, pc, recv, todo, del, newCount, share,
           owner, fails, stored, cleared, stale, accuracy>>

Init == /\ bin = TRUE
        /\ hits = {}
        /\ hitCount = 0
        /\ clock = 0
        /\ pc = [r \in Requests |-> "start"]
        /\ recv = [h \in Ingests |-> 0]
        /\ todo = [r \in Requests |-> {}]
        /\ del = [r \in Requests |-> {}]
        /\ newCount = [r \in Requests |-> 0]
        /\ share = {}
        /\ owner = NoOne
        /\ fails = 0
        /\ stored = {}
        /\ cleared = {}
        /\ stale = {}
        /\ accuracy = "exact"

-----------------------------------------------------------------------------
\* r has a connection of the pool: at "first" it has sent the statement that
\* takes its first lock or snapshot.
InTx(r) == pc[r] \in {"first", "select", "delete", "count", "update", "commit"}

Finished(r) == pc[r] \in {"done", "failed"}

\* The row r itself has inserted, visible to no one else before it commits.
Own(r) == IF r \in Ingests THEN {r} ELSE {}

\* What a statement of r sees when it begins, before the deletions of r.
Visible(r) == hits \union Own(r)

\* The rows of the bin if r committed now.
Result(r) == Visible(r) \ del[r]

ConnectionFree == Cardinality({r \in Requests : InTx(r)}) < MaxConns

Goto(r, to) == pc' = [pc EXCEPT ![r] = to]

\* What a transaction holds is released when it ends, either way.
Release(r) == /\ share' = share \ {r}
              /\ owner' = IF owner = r THEN NoOne ELSE owner
              /\ todo' = [todo EXCEPT ![r] = {}]
              /\ del' = [del EXCEPT ![r] = {}]
              /\ newCount' = [newCount EXCEPT ![r] = 0]

-----------------------------------------------------------------------------
\* Ingest: SELECT expires_at, then time.Now().
Read(r) ==
  /\ r \in Ingests
  /\ pc[r] = "start"
  /\ ConnectionFree
  /\ IF bin
     THEN /\ recv' = [recv EXCEPT ![r] = clock]
          /\ clock' \in {clock, clock + 1} \intersect 0..MaxClock
          /\ Goto(r, "begin")
     ELSE /\ Goto(r, "failed")
          /\ UNCHANGED <<recv, clock>>
  /\ UNCHANGED <<rows, todo, del, newCount, locks, fails, past>>

\* ClearHits and Delete: getOwned.
Check(r) ==
  /\ r \in Clears \union Drops
  /\ pc[r] = "start"
  /\ ConnectionFree
  /\ Goto(r, IF bin THEN "begin" ELSE "failed")
  /\ UNCHANGED <<rows, clock, recv, todo, del, newCount, locks, fails, past>>

\* Begin, or the Exec of Delete: r gets a connection and sends its statement.
Begin(r) ==
  /\ pc[r] = "begin"
  /\ ConnectionFree
  /\ Goto(r, "first")
  /\ UNCHANGED <<rows, clock, recv, todo, del, newCount, locks, fails, past>>

\* Mutant of ForeignKeyHolds: a schema without the foreign key.
NoForeignKey == TRUE

\* The foreign key of the hit: its bin must be there.
ForeignKeyHolds == bin

\* Ingest: INSERT.  The foreign key takes KEY SHARE on the bin's row, and
\* waits for a transaction that is deleting it.
Insert(r) ==
  /\ r \in Ingests
  /\ pc[r] = "first"
  /\ owner \notin Drops
  /\ IF ForeignKeyHolds
     THEN share' = share \union {r} /\ Goto(r, "select")
     ELSE Goto(r, "failed") /\ UNCHANGED share
  /\ UNCHANGED <<rows, clock, recv, todo, del, newCount, owner, fails, past>>

\* Mutants of Surplus: OFFSET MaxHits + 1, and ORDER BY without DESC.
SurplusOneMore(S) ==
  {V \in SUBSET S :
     /\ Cardinality(V) = IF Cardinality(S) > MaxHits + 1
                         THEN Cardinality(S) - MaxHits - 1 ELSE 0
     /\ \A v \in V, h \in S \ V : recv[v] <= recv[h]}
SurplusNewest(S) ==
  {V \in SUBSET S :
     /\ Cardinality(V) = IF Cardinality(S) > MaxHits
                         THEN Cardinality(S) - MaxHits ELSE 0
     /\ \A v \in V, h \in S \ V : recv[v] >= recv[h]}

\* Rows that ORDER BY received_at DESC OFFSET MaxHits may leave of S: all but
\* the MaxHits newest, ties in any order.
Surplus(S) ==
  {V \in SUBSET S :
     /\ Cardinality(V) = IF Cardinality(S) > MaxHits
                         THEN Cardinality(S) - MaxHits ELSE 0
     /\ \A v \in V, h \in S \ V : recv[v] <= recv[h]}

\* Ingest: the subquery of the trimming DELETE, on its snapshot.
SelectSurplus(r) ==
  /\ r \in Ingests
  /\ pc[r] = "select"
  /\ \E V \in Surplus(Visible(r)) : todo' = [todo EXCEPT ![r] = V]
  /\ Goto(r, "delete")
  /\ UNCHANGED <<rows, clock, recv, del, newCount, locks, fails, past>>

\* ClearHits: the snapshot of DELETE FROM webhook_hits.
SelectAll(r) ==
  /\ r \in Clears
  /\ pc[r] = "first"
  /\ todo' = [todo EXCEPT ![r] = hits]
  /\ Goto(r, "delete")
  /\ UNCHANGED <<rows, clock, recv, del, newCount, locks, fails, past>>

\* Delete: DELETE FROM webhook_bins waits for everyone on the bin's row, then
\* the cascade looks for the hits.  Without a row there is nothing to do.
LockBin(r) ==
  /\ r \in Drops
  /\ pc[r] = "first"
  /\ share = {} /\ owner = NoOne
  /\ IF bin
     THEN /\ owner' = r
          /\ todo' = [todo EXCEPT ![r] = hits]
          /\ Goto(r, "delete")
     ELSE /\ Goto(r, "done")
          /\ UNCHANGED <<owner, todo>>
  /\ UNCHANGED <<rows, clock, recv, del, newCount, share, fails, past>>

AfterDelete(r) == IF r \in Ingests THEN "count"
                  ELSE IF r \in Clears THEN "update" ELSE "commit"

\* The DELETE comes to a row that nobody else holds, and deletes it unless
\* another transaction has, since the snapshot.
DeleteRow(r) ==
  /\ pc[r] = "delete"
  /\ \E h \in todo[r] :
       /\ \A x \in Requests \ {r} : h \notin del[x]
       /\ todo' = [todo EXCEPT ![r] = @ \ {h}]
       /\ del' = [del EXCEPT ![r] = @ \union ({h} \intersect Visible(r))]
  /\ UNCHANGED <<rows, clock, pc, recv, newCount, locks, fails, past>>

EndDelete(r) ==
  /\ pc[r] = "delete"
  /\ todo[r] = {}
  /\ Goto(r, AfterDelete(r))
  /\ UNCHANGED <<rows, clock, recv, todo, del, newCount, locks, fails, past>>

\* Mutant of Count: pool.QueryRow instead of tx.QueryRow, which needs another
\* connection.
CountOutside(r) ==
  /\ pc[r] = "count"
  /\ ConnectionFree
  /\ newCount' = [newCount EXCEPT ![r] = Cardinality(hits)]
  /\ Goto(r, "update")
  /\ UNCHANGED <<rows, clock, recv, todo, del, locks, fails, past>>

\* Ingest: SELECT COUNT(*), with a snapshot of its own.
Count(r) ==
  /\ pc[r] = "count"
  /\ newCount' = [newCount EXCEPT ![r] = Cardinality(Result(r))]
  /\ Goto(r, "update")
  /\ UNCHANGED <<rows, clock, recv, todo, del, locks, fails, past>>

\* UPDATE webhook_bins SET hit_count, which waits for the row's holder and
\* does nothing if the bin is gone.
UpdateBin(r) ==
  /\ pc[r] = "update"
  /\ owner = NoOne
  /\ owner' = IF bin THEN r ELSE NoOne
  /\ Goto(r, "commit")
  /\ UNCHANGED <<rows, clock, recv, todo, del, newCount, share, fails, past>>

\* Requests that have looked at the hits and not yet locked the bin: a commit
\* now makes what they are about to write stale.
Overtaken == {x \in Ingests : pc[x] = "update"}
               \union {x \in Clears : pc[x] \in {"delete", "update"}}

\* UPDATE webhook_bins of r found the bin's row.
WritesCount(r) == owner = r /\ r \notin Drops

\* The answer of COMMIT may be lost, and the request fails all the same.
Answer(r) == \/ Goto(r, "done") /\ UNCHANGED fails
             \/ Goto(r, "failed") /\ fails < MaxFails /\ fails' = fails + 1

\* The transaction commits.
Commit(r) ==
  /\ pc[r] = "commit"
  /\ bin' = IF r \in Drops THEN FALSE ELSE bin
  /\ hits' = Result(r)
  /\ stored' = stored \union Own(r)
  /\ cleared' = IF r \in Ingests THEN cleared ELSE cleared \union del[r]
  /\ stale' = (stale \union Overtaken) \ {r}
  /\ hitCount' = IF WritesCount(r) THEN newCount[r] ELSE hitCount
  /\ accuracy' = IF ~WritesCount(r) THEN accuracy
                 ELSE IF r \in stale THEN "overtaken" ELSE "exact"
  /\ Release(r)
  /\ Answer(r)
  /\ UNCHANGED <<clock, recv>>

\* Mutant of Rollback: without the deferred call, the locks stay.
RollbackForgotten(r) ==
  /\ Goto(r, "failed")
  /\ stale' = stale \ {r}
  /\ UNCHANGED <<rows, clock, recv, todo, del, newCount, locks, stored,
                 cleared, accuracy>>

\* defer tx.Rollback: nothing of the transaction remains.
Rollback(r) ==
  /\ Release(r)
  /\ Goto(r, "failed")
  /\ stale' = stale \ {r}
  /\ UNCHANGED <<rows, clock, recv, stored, cleared, accuracy>>

\* A statement fails, the context of the request times out, or the API dies.
Fail(r) ==
  /\ pc[r] = "begin" \/ InTx(r)
  /\ fails < MaxFails
  /\ fails' = fails + 1
  /\ Rollback(r)

\* a waits for a lock of b, or does if it comes next to a row that b holds.
Waits(a, b) ==
  \/ /\ a \in Ingests /\ pc[a] = "first"
     /\ owner = b /\ b \in Drops
  \/ /\ a \in Drops /\ pc[a] = "first"
     /\ b \in share \/ owner = b
  \/ /\ pc[a] = "delete"
     /\ todo[a] \intersect del[b] # {}
  \/ /\ pc[a] = "update"
     /\ owner = b

\* The waits of r lead back to r: it is in every set that has those r waits
\* for and, with a request, those that one waits for.
OnCycle(r) ==
  /\ \E x \in Requests : Waits(r, x)
  /\ \A S \in SUBSET Requests :
       /\ \A x \in Requests : Waits(r, x) => x \in S
       /\ \A a \in S, b \in Requests : Waits(a, b) => b \in S
       => r \in S

\* The deadlock detector of the server aborts a transaction of a cycle.
DeadlockAbort(r) ==
  /\ OnCycle(r)
  /\ UNCHANGED fails
  /\ Rollback(r)

\* Those who wait for the same row stand in a line, which the model leaves
\* out.  A cycle may lead through it, from one to who is before it (UPDATE of
\* an Ingest behind a Delete that waits for its KEY SHARE), and then any two
\* that wait may be part of it.
LineAbort(r) ==
  /\ \E x \in Requests : Waits(r, x)
  /\ \E a \in Requests \ {r}, b \in Requests : Waits(a, b)
  /\ UNCHANGED fails
  /\ Rollback(r)

-----------------------------------------------------------------------------
Arrive(r) == Read(r) \/ Check(r)

Statement(r) == \/ Begin(r)
                \/ Insert(r)
                \/ SelectSurplus(r)
                \/ SelectAll(r)
                \/ LockBin(r)
                \/ DeleteRow(r)
                \/ EndDelete(r)
                \/ Count(r)
                \/ UpdateBin(r)
                \/ Commit(r)
                \/ DeadlockAbort(r)

\* What befalls a request in the middle.
Break(r) == Fail(r) \/ LineAbort(r)

\* All requests are answered.
Quiet == (\A r \in Requests : Finished(r)) /\ UNCHANGED vars

Next == \/ \E r \in Requests : Arrive(r) \/ Statement(r) \/ Break(r)
        \/ Quiet

Spec == Init /\ [][Next]_vars

\* As long as statements can run, one does: each request runs once, so this is
\* all that is needed.  Nobody has to send a request.
FairSpec == Spec /\ WF_vars(\E r \in Requests : Statement(r))

-----------------------------------------------------------------------------
\* The values of the variables, and who may hold the locks of the bin's row:
\* KEY SHARE the Ingests that have inserted, the other one a transaction that
\* is about to commit, or a deletion that has it from its start.
TypeOK ==
  /\ bin \in BOOLEAN
  /\ hits \subseteq Ingests
  /\ hitCount \in Nat
  /\ clock \in 0..MaxClock
  /\ pc \in [Requests -> {"start", "begin", "first", "select", "delete",
                          "count", "update", "commit", "done", "failed"}]
  /\ recv \in [Ingests -> 0..MaxClock]
  /\ todo \in [Requests -> SUBSET Ingests]
  /\ del \in [Requests -> SUBSET Ingests]
  /\ newCount \in [Requests -> Nat]
  /\ share \subseteq Ingests /\ \A r \in Ingests : r \in share <=> InTx(r) /\ pc[r] # "first"
  /\ owner \in Requests \union {NoOne}
  /\ owner # NoOne => \/ pc[owner] = "commit"
                      \/ owner \in Drops /\ pc[owner] = "delete"
  /\ fails \in 0..MaxFails
  /\ stored \subseteq Ingests /\ cleared \subseteq Ingests
  /\ stale \subseteq Requests /\ accuracy \in {"exact", "overtaken"}

\* What "Cap to newest MaxHitsPerBin" really achieves: a bin exceeds the cap,
\* but by no more than the Ingests that ran at the same time, which the pool
\* limits, however many there have been.
OvershootBounded == Cardinality(hits) <= MaxHits + MaxConns - 1

\* The trim removes nothing but the oldest: a stored hit that no clearing
\* removed and that is not among the MaxHits newest ever stored is the only
\* kind that may be missing.
NewestKept ==
  \A h \in stored \ (hits \union cleared) :
    Cardinality({x \in stored \ {h} : recv[x] >= recv[h]}) >= MaxHits

\* hit_count is the number of hits unless another transaction committed
\* between the count of its writer and the writer's lock on the bin's row.
CountExactUnlessOvertaken == bin /\ accuracy = "exact" => hitCount = Cardinality(hits)

\* No hit outlives its bin, whichever of Ingest and Delete comes first
\* (bin_id REFERENCES webhook_bins ON DELETE CASCADE).
NoOrphanHits == ~bin => hits = {}

\* In the end nobody is left waiting: every request that was received is
\* answered, that is, waits for a connection and for locks end.  ClearHits,
\* Delete and trims that meet on the rows and the bin may wait for each other
\* in a circle, which the server breaks; but no circle leads through the pool,
\* whose connections it knows nothing of.
AllAnswered == <>[](\A r \in Requests : pc[r] = "start" \/ Finished(r))

\* The statements, snapshots and locks of any number of requests come to what
\* the bin of module CappedBin does in single steps: what "Cap to newest
\* MaxHitsPerBin", ClearHits and ON DELETE CASCADE achieve together.
Capped == INSTANCE CappedBin WITH
            Hits <- Ingests, Clearers <- Clears, Slack <- MaxConns - 1,
            ever <- stored, at <- recv,
            doomed <- [c \in Clears |-> (todo[c] \union del[c]) \intersect hits]
CappedBinSpec == Capped!Spec
=============================================================================
