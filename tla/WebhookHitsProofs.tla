------------------------- MODULE WebhookHitsProofs -------------------------
(***************************************************************************)
(* For any requests, any cap and any pool: WebhookHits keeps its types and *)
(* locks, leaves no hit without a bin, writes an exact hit_count unless it *)
(* was overtaken, trims nothing but the oldest hits, and exceeds its cap   *)
(* by fewer hits than the pool has connections.  It implements CappedBin,  *)
(* and somebody can always go on.  Meanwhile a walk of HitReads lists no   *)
(* hit twice, and misses none that was there all along but those that      *)
(* WalkComplete excepts.                                                   *)
(***************************************************************************)
EXTENDS HitReads, FiniteSetTheorems, TLAPS

\* Past its first statement, in the transaction.
Inside(r) == InTx(r) /\ pc[r] # "first"

\* The rows that r has deleted or is to delete.
Aim(r) == todo[r] \union del[r]

\* The values of the variables, the first part of TypeOK.
Types ==
  /\ bin \in BOOLEAN
  /\ hits \subseteq Ingests
  /\ hitCount \in Nat
  /\ clock \in 0..MaxClock
  /\ pc \in [Requests -> {"start", "begin", "first", "select", "delete",
                          "count", "update", "commit", "done", "failed"}]
  /\ recv \in [Ingests -> 0..MaxClock]
  /\ todo \in [Requests -> SUBSET Ingests]
  /\ del \in [Requests -> SUBSET Ingests]
  /\ newCount \in [Requests -> Nat]
  /\ share \subseteq Ingests
  /\ owner \in Requests \union {NoOne}
  /\ fails \in 0..MaxFails
  /\ stored \subseteq Ingests /\ cleared \subseteq Ingests
  /\ stale \subseteq Requests /\ accuracy \in {"exact", "overtaken"}

\* Who holds the bin's row, and where a request can be in its transaction.
\* A deletion of the bin excludes every Ingest, and an Ingest keeps the bin.
Holding ==
  /\ \A r \in Ingests : r \in share <=> Inside(r)
  /\ owner # NoOne => \/ pc[owner] = "commit"
                      \/ owner \in Drops /\ pc[owner] = "delete"
  /\ owner \in Drops => share = {}
  /\ share # {} => bin
  /\ \A r \in Clears : pc[r] \notin {"select", "count"}
  /\ \A r \in Drops : /\ pc[r] \notin {"select", "count", "update"}
                      /\ Inside(r) => owner = r /\ bin
  /\ \A r \in Ingests \union Clears :
       pc[r] = "commit" => owner = r \/ ~bin
  /\ \A r \in Requests : /\ todo[r] # {} => pc[r] = "delete"
                         /\ del[r] # {} => Inside(r) /\ pc[r] # "select"

\* A deletion of the bin has all its hits.
Cascade ==
  /\ NoOrphanHits
  /\ \A r \in Drops : Inside(r) => hits \subseteq Aim(r)

\* What a request is about to write into hit_count is right, if no commit
\* has overtaken it.
Counted(r) ==
  /\ r \in Ingests /\ pc[r] \in {"update", "commit"}
       => newCount[r] = Cardinality(Result(r))
  /\ r \in Clears /\ pc[r] \in {"delete", "update", "commit"}
       => hits \subseteq Aim(r) /\ newCount[r] = 0

Counts ==
  /\ CountExactUnlessOvertaken
  /\ \A r \in Ingests \union Clears : r \notin stale => Counted(r)
  /\ \A r \in Clears : newCount[r] = 0

LEMMA Finiteness ==
  ASSUME NEW S, S \subseteq Ingests
  PROVE  IsFiniteSet(S) /\ Cardinality(S) \in Nat
BY RequestsAssumption, FS_Subset, FS_CardinalityType DEF Requests

LEMMA Disjoint ==
  /\ Ingests \subseteq Requests /\ Clears \subseteq Requests /\ Drops \subseteq Requests
  /\ \A r \in Ingests : r \notin Clears /\ r \notin Drops
  /\ \A r \in Clears : r \notin Drops
  /\ NoOne \notin Requests
BY RequestsAssumption DEF Requests

-----------------------------------------------------------------------------
LEMMA TypesInit == Init => Types
<1> SUFFICES ASSUME Init PROVE Types
  OBVIOUS
<1>1. clock \in 0..MaxClock /\ fails \in 0..MaxFails
  BY BoundsAssumption DEF Init
<1>2. /\ recv \in [Ingests -> 0..MaxClock]
      /\ newCount \in [Requests -> Nat]
  BY BoundsAssumption DEF Init
<1>3. /\ del \in [Requests -> SUBSET Ingests]
      /\ todo \in [Requests -> SUBSET Ingests]
  BY DEF Init
<1> QED BY <1>1, <1>2, <1>3 DEF Init, Types

\* What r would leave of the hits is a set of hits.
LEMMA ResultType ==
  ASSUME Types, NEW r \in Requests
  PROVE  Result(r) \subseteq Ingests /\ Visible(r) \subseteq Ingests
BY DEF Types, Result, Visible, Own

\* The end of a transaction keeps the types of what it releases.
LEMMA ReleaseTypes ==
  ASSUME Types, NEW r \in Requests, Release(r)
  PROVE  /\ share' \subseteq Ingests
         /\ owner' \in Requests \union {NoOne}
         /\ todo' \in [Requests -> SUBSET Ingests]
         /\ del' \in [Requests -> SUBSET Ingests]
         /\ newCount' \in [Requests -> Nat]
BY DEF Types, Release

LEMMA GotoTypes ==
  ASSUME Types, NEW r \in Requests,
         NEW to \in {"start", "begin", "first", "select", "delete",
                     "count", "update", "commit", "done", "failed"},
         Goto(r, to)
  PROVE  pc' \in [Requests -> {"start", "begin", "first", "select", "delete",
                               "count", "update", "commit", "done", "failed"}]
BY DEF Types, Goto

LEMMA TypesStep == Types /\ [Next]_vars => Types'
<1> SUFFICES ASSUME Types, [Next]_vars PROVE Types'
  OBVIOUS
<1> USE DEF rows, locks, past
<1>1. ASSUME NEW r \in Requests, Read(r) PROVE Types'
  <2>1. PICK to \in {"begin", "failed"} : Goto(r, to)
    BY <1>1 DEF Read
  <2>2. recv' \in [Ingests -> 0..MaxClock] /\ clock' \in 0..MaxClock
    BY <1>1 DEF Read, Types
  <2> QED BY <1>1, <2>1, <2>2, GotoTypes DEF Read, Types
<1>2. ASSUME NEW r \in Requests, Check(r) PROVE Types'
  <2>1. PICK to \in {"begin", "failed"} : Goto(r, to)
    BY <1>2 DEF Check
  <2> QED BY <1>2, <2>1, GotoTypes DEF Check, Types
<1>3. ASSUME NEW r \in Requests, Insert(r) PROVE Types'
  <2>1. PICK to \in {"select", "failed"} : Goto(r, to)
    BY <1>3 DEF Insert
  <2>2. share' \subseteq Ingests
    BY <1>3 DEF Insert, Types
  <2> QED BY <1>3, <2>1, <2>2, GotoTypes DEF Insert, Types
<1>4. ASSUME NEW r \in Requests, SelectSurplus(r) PROVE Types'
  <2>1. PICK V \in SUBSET Ingests : todo' = [todo EXCEPT ![r] = V]
    BY <1>4, ResultType DEF SelectSurplus, Surplus
  <2>2. todo' \in [Requests -> SUBSET Ingests]
    BY <2>1 DEF Types
  <2> QED BY <1>4, <2>2, GotoTypes DEF SelectSurplus, Types
<1>5. ASSUME NEW r \in Requests, SelectAll(r) PROVE Types'
  <2>1. todo' \in [Requests -> SUBSET Ingests]
    BY <1>5 DEF SelectAll, Types
  <2> QED BY <1>5, <2>1, GotoTypes DEF SelectAll, Types
<1>6. ASSUME NEW r \in Requests, LockBin(r) PROVE Types'
  <2>1. PICK to \in {"delete", "done"} : Goto(r, to)
    BY <1>6 DEF LockBin
  <2>2. todo' \in [Requests -> SUBSET Ingests] /\ owner' \in Requests \union {NoOne}
    BY <1>6 DEF LockBin, Types
  <2> QED BY <1>6, <2>1, <2>2, GotoTypes DEF LockBin, Types
<1>7. ASSUME NEW r \in Requests, DeleteRow(r) PROVE Types'
  <2>1. /\ todo' \in [Requests -> SUBSET Ingests]
        /\ del' \in [Requests -> SUBSET Ingests]
    BY <1>7 DEF DeleteRow, Types
  <2> QED BY <1>7, <2>1 DEF DeleteRow, Types
<1>15. ASSUME NEW r \in Requests, EndDelete(r) PROVE Types'
  <2>1. PICK to \in {"count", "update", "commit"} : Goto(r, to)
    BY <1>15 DEF EndDelete, AfterDelete
  <2> QED BY <1>15, <2>1, GotoTypes DEF EndDelete, Types
<1>16. ASSUME NEW r \in Requests, Begin(r) PROVE Types'
  BY <1>16, GotoTypes DEF Begin, Types
<1>8. ASSUME NEW r \in Requests, Count(r) PROVE Types'
  <2>1. Cardinality(Result(r)) \in Nat
    BY ResultType, Finiteness
  <2>2. newCount' \in [Requests -> Nat]
    BY <1>8, <2>1 DEF Count, Types
  <2> QED BY <1>8, <2>2, GotoTypes DEF Count, Types
<1>9. ASSUME NEW r \in Requests, UpdateBin(r) PROVE Types'
  BY <1>9, GotoTypes DEF UpdateBin, Types
<1>10. ASSUME NEW r \in Requests, Commit(r) PROVE Types'
  <2>1. PICK to \in {"done", "failed"} : Goto(r, to)
    BY <1>10 DEF Commit, Answer
  <2>2. fails' \in 0..MaxFails
    BY <1>10, BoundsAssumption DEF Commit, Answer, Types
  <2>3. hits' \subseteq Ingests
    BY <1>10, ResultType DEF Commit
  <2>4. stored' \subseteq Ingests /\ cleared' \subseteq Ingests
    BY <1>10 DEF Commit, Own, Types
  <2>5. hitCount' \in Nat /\ bin' \in BOOLEAN
    BY <1>10 DEF Commit, Types
  <2>8. accuracy' \in {"exact", "overtaken"}
    BY <1>10 DEF Commit, Types
  <2>6. stale' \subseteq Requests
    BY <1>10, Disjoint DEF Commit, Overtaken, Types
  <2>7. UNCHANGED <<clock, recv>> /\ Release(r)
    BY <1>10 DEF Commit
  <2> QED
    BY <2>1, <2>2, <2>3, <2>4, <2>5, <2>6, <2>7, <2>8, GotoTypes, ReleaseTypes
       DEF Types
<1>11. ASSUME NEW r \in Requests, Rollback(r), fails' \in 0..MaxFails PROVE Types'
  BY <1>11, GotoTypes, ReleaseTypes DEF Rollback, Types
<1>12. ASSUME NEW r \in Requests, Fail(r) PROVE Types'
  <2>1. fails' \in 0..MaxFails
    BY <1>12, BoundsAssumption DEF Fail, Types
  <2> QED BY <1>11, <1>12, <2>1 DEF Fail
<1>13. ASSUME NEW r \in Requests, DeadlockAbort(r) \/ LineAbort(r) PROVE Types'
  BY <1>11, <1>13 DEF DeadlockAbort, LineAbort, Types
<1>14. ASSUME UNCHANGED vars PROVE Types'
  BY <1>14 DEF vars, Types
<1> QED
  BY <1>1, <1>2, <1>3, <1>4, <1>5, <1>6, <1>7, <1>8, <1>9, <1>10, <1>12,
     <1>13, <1>14, <1>15, <1>16 DEF Next, Arrive, Statement, Break, Quiet

-----------------------------------------------------------------------------
\* A step of r moves r alone.
LEMMA OthersStay ==
  ASSUME Types, NEW r \in Requests, NEW to, Goto(r, to)
  PROVE  /\ pc'[r] = to
         /\ \A x \in Requests \ {r} : pc'[x] = pc[x]
BY DEF Types, Goto

LEMMA HoldingInit == Init => Holding
BY Disjoint DEF Init, Holding, Inside, InTx

LEMMA HoldingStep == Types /\ Holding /\ [Next]_vars => Holding'
<1> SUFFICES ASSUME Types, Holding, [Next]_vars PROVE Holding'
  OBVIOUS
<1>0. /\ owner \in Requests \union {NoOne}
      /\ share \subseteq Ingests
      /\ todo \in [Requests -> SUBSET Ingests] /\ del \in [Requests -> SUBSET Ingests]
  BY DEF Types
<1> USE <1>0, Disjoint DEF Holding, Inside, InTx, rows, locks, past
<1>1. ASSUME NEW r \in Requests, Read(r) PROVE Holding'
  <2>1. PICK to \in {"begin", "failed"} : Goto(r, to)
    BY <1>1 DEF Read
  <2> QED BY <1>1, <2>1, OthersStay DEF Read
<1>2. ASSUME NEW r \in Requests, Check(r) PROVE Holding'
  <2>1. PICK to \in {"begin", "failed"} : Goto(r, to)
    BY <1>2 DEF Check
  <2> QED BY <1>2, <2>1, OthersStay DEF Check
<1>3. ASSUME NEW r \in Requests, Insert(r) PROVE Holding'
  <2>1. CASE ForeignKeyHolds
    BY <1>3, <2>1, OthersStay DEF Insert, ForeignKeyHolds
  <2>2. CASE ~ForeignKeyHolds
    BY <1>3, <2>2, OthersStay DEF Insert
  <2> QED BY <2>1, <2>2
<1>4. ASSUME NEW r \in Requests, SelectSurplus(r) PROVE Holding'
  BY <1>4, OthersStay DEF SelectSurplus
<1>5. ASSUME NEW r \in Requests, SelectAll(r) PROVE Holding'
  BY <1>5, OthersStay DEF SelectAll
<1>6. ASSUME NEW r \in Requests, LockBin(r) PROVE Holding'
  <2>1. CASE bin
    BY <1>6, <2>1, OthersStay DEF LockBin
  <2>2. CASE ~bin
    BY <1>6, <2>2, OthersStay DEF LockBin
  <2> QED BY <2>1, <2>2
<1>7. ASSUME NEW r \in Requests, DeleteRow(r) PROVE Holding'
  BY <1>7 DEF DeleteRow
<1>13. ASSUME NEW r \in Requests, EndDelete(r) PROVE Holding'
  BY <1>13, OthersStay DEF EndDelete, AfterDelete
<1>14. ASSUME NEW r \in Requests, Begin(r) PROVE Holding'
  BY <1>14, OthersStay DEF Begin
<1>8. ASSUME NEW r \in Requests, Count(r) PROVE Holding'
  BY <1>8, OthersStay DEF Count
<1>9. ASSUME NEW r \in Requests, UpdateBin(r) PROVE Holding'
  BY <1>9, OthersStay DEF UpdateBin
<1>10. ASSUME NEW r \in Requests, Commit(r) PROVE Holding'
  <2>1. PICK to \in {"done", "failed"} : Goto(r, to)
    BY <1>10 DEF Commit, Answer
  <2> QED BY <1>10, <2>1, OthersStay DEF Commit, Release
<1>11. ASSUME NEW r \in Requests, Rollback(r) PROVE Holding'
  BY <1>11, OthersStay DEF Rollback, Release
<1>12. ASSUME UNCHANGED vars PROVE Holding'
  BY <1>12 DEF vars
<1> QED
  BY <1>1, <1>2, <1>3, <1>4, <1>5, <1>6, <1>7, <1>8, <1>9, <1>10, <1>11,
     <1>12, <1>13, <1>14
     DEF Next, Arrive, Statement, Break, Quiet, Fail, DeadlockAbort, LineAbort

-----------------------------------------------------------------------------
\* All steps but a commit leave the committed rows and the histories alone.
LEMMA OnlyCommitWrites ==
  ASSUME [Next]_vars, ~ \E r \in Requests : Commit(r)
  PROVE  UNCHANGED <<rows, stored, cleared, accuracy>>
BY DEF Next, Arrive, Statement, Break, Quiet, Fail, DeadlockAbort, LineAbort,
       Rollback, Release, Read, Check, Begin, Insert, SelectSurplus, SelectAll,
       LockBin, DeleteRow, EndDelete, Count, UpdateBin, rows, past, vars

\* What a step may do to the rows that r has deleted or is to delete.
LEMMA AimStep ==
  ASSUME Types, Holding, [Next]_vars, NEW r \in Requests
  PROVE  \/ Aim(r)' = Aim(r)
         \/ Aim(r)' = {} /\ pc'[r] \in {"done", "failed"}
         \/ r \in Ingests /\ pc[r] = "select" /\ Aim(r)' \in Surplus(Visible(r))
         \/ r \in Clears /\ pc[r] = "first" /\ Aim(r)' = hits
         \/ r \in Drops /\ pc[r] = "first" /\ Aim(r)' = hits
         \/ /\ pc[r] = "delete" /\ pc'[r] = "delete"
            /\ Aim(r)' \subseteq Aim(r) /\ Aim(r) \intersect Visible(r) \subseteq Aim(r)'
<1>0. /\ todo \in [Requests -> SUBSET Ingests] /\ del \in [Requests -> SUBSET Ingests]
      /\ pc \in [Requests -> {"start", "begin", "first", "select", "delete",
                              "count", "update", "commit", "done", "failed"}]
      /\ pc[r] \in {"first", "select"} => todo[r] = {} /\ del[r] = {}
  BY DEF Types, Holding, Inside
<1> USE <1>0 DEF Aim
<1>1. ASSUME NEW x \in Requests, SelectSurplus(x)
      PROVE  \/ Aim(r)' = Aim(r)
             \/ r \in Ingests /\ pc[r] = "select" /\ Aim(r)' \in Surplus(Visible(r))
  BY <1>1 DEF SelectSurplus
<1>2. ASSUME NEW x \in Requests, SelectAll(x) \/ LockBin(x)
      PROVE  \/ Aim(r)' = Aim(r)
             \/ r \in Clears /\ pc[r] = "first" /\ Aim(r)' = hits
             \/ r \in Drops /\ pc[r] = "first" /\ Aim(r)' = hits
  BY <1>2 DEF SelectAll, LockBin
<1>3. ASSUME NEW x \in Requests, DeleteRow(x)
      PROVE  \/ Aim(r)' = Aim(r)
             \/ /\ pc[r] = "delete" /\ pc'[r] = "delete"
                /\ Aim(r)' \subseteq Aim(r) /\ Aim(r) \intersect Visible(r) \subseteq Aim(r)'
  <2>1. PICK h \in todo[x] : /\ todo' = [todo EXCEPT ![x] = @ \ {h}]
                             /\ del' = [del EXCEPT ![x] = @ \union ({h} \intersect Visible(x))]
    BY <1>3 DEF DeleteRow
  <2>2. CASE r = x
    <3>1. todo'[r] = todo[r] \ {h} /\ del'[r] = del[r] \union ({h} \intersect Visible(r))
      BY <2>1, <2>2
    <3> QED BY <1>3, <2>2, <3>1 DEF DeleteRow
  <2>3. CASE r # x
    BY <2>1, <2>3
  <2> QED BY <2>2, <2>3
<1>4. ASSUME NEW x \in Requests, Commit(x) \/ Rollback(x)
      PROVE  \/ Aim(r)' = Aim(r)
             \/ Aim(r)' = {} /\ pc'[r] \in {"done", "failed"}
  BY <1>4 DEF Commit, Rollback, Release, Answer, Goto
<1>5. ASSUME NEW x \in Requests,
             \/ Read(x) \/ Check(x) \/ Begin(x) \/ Insert(x) \/ EndDelete(x)
             \/ Count(x) \/ UpdateBin(x)
      PROVE  Aim(r)' = Aim(r)
  BY <1>5 DEF Read, Check, Begin, Insert, EndDelete, Count, UpdateBin
<1>6. ASSUME UNCHANGED vars PROVE Aim(r)' = Aim(r)
  BY <1>6 DEF vars
<1> QED
  BY <1>1, <1>2, <1>3, <1>4, <1>5, <1>6
     DEF Next, Arrive, Statement, Break, Quiet, Fail, DeadlockAbort, LineAbort

\* A deletion of the bin finds its hits when it gets the bin's row.
LEMMA DropEnters ==
  ASSUME Types, Holding, [Next]_vars, NEW d \in Drops, Inside(d)', ~Inside(d)
  PROVE  hits \subseteq Aim(d)' /\ UNCHANGED rows
<1>0. d \in Requests
  BY Disjoint
<1> USE DEF Inside, InTx
<1>1. ASSUME NEW x \in Requests,
             SelectSurplus(x) \/ SelectAll(x) \/ Insert(x) \/ Count(x)
               \/ UpdateBin(x) \/ DeleteRow(x) \/ EndDelete(x)
      PROVE  FALSE
  BY <1>0, <1>1, Disjoint
     DEF SelectSurplus, SelectAll, Insert, Count, UpdateBin, DeleteRow, EndDelete,
         Types, Goto, Holding
<1>2. ASSUME NEW x \in Requests,
             Read(x) \/ Check(x) \/ Begin(x) \/ Commit(x) \/ Rollback(x)
      PROVE  FALSE
  BY <1>0, <1>2 DEF Read, Check, Begin, Commit, Answer, Rollback, Types, Goto
<1>3. ASSUME NEW x \in Requests, LockBin(x)
      PROVE  hits \subseteq Aim(d)' /\ UNCHANGED rows
  BY <1>0, <1>3 DEF LockBin, Types, Goto, rows, Aim
<1>4. ~ UNCHANGED vars
  BY DEF vars
<1> QED
  BY <1>1, <1>2, <1>3, <1>4
     DEF Next, Arrive, Statement, Break, Quiet, Fail, DeadlockAbort, LineAbort

LEMMA CascadeStep ==
  Types /\ Holding /\ Cascade /\ [Next]_vars => Cascade'
<1> SUFFICES ASSUME Types, Holding, Cascade, [Next]_vars PROVE Cascade'
  OBVIOUS
<1>1. ASSUME NEW r \in Requests, Commit(r) PROVE Cascade'
  <2>1. PICK to \in {"done", "failed"} : Goto(r, to)
    BY <1>1 DEF Commit, Answer
  <2>2. /\ pc'[r] = to /\ \A x \in Requests \ {r} : pc'[x] = pc[x]
        /\ \A x \in Requests \ {r} : Aim(x)' = Aim(x)
        /\ hits' = Result(r) /\ pc[r] = "commit" /\ todo[r] = {}
    BY <1>1, <2>1, OthersStay DEF Commit, Release, Types, Holding, Aim
  <2>3. CASE r \in Ingests
    <3>1. bin' = bin /\ bin /\ \A d \in Drops : ~Inside(d)
      BY <1>1, <2>2, <2>3, Disjoint DEF Commit, Holding, Inside, InTx
    <3> QED BY <2>1, <2>2, <2>3, <3>1, Disjoint DEF Cascade, NoOrphanHits, Inside, InTx
  <2>4. CASE r \in Clears
    BY <1>1, <2>2, <2>4, Disjoint
       DEF Commit, Cascade, NoOrphanHits, Inside, InTx, Result, Visible, Own
  <2>5. CASE r \in Drops
    <3>1. hits' = {}
      BY <2>2, <2>5, Disjoint DEF Cascade, Result, Visible, Own, Inside, InTx, Aim
    <3> QED BY <3>1 DEF Cascade, NoOrphanHits
  <2> QED BY <2>3, <2>4, <2>5 DEF Requests
<1>2. ASSUME ~ \E r \in Requests : Commit(r) PROVE Cascade'
  <2>1. UNCHANGED <<bin, hits>>
    BY <1>2, OnlyCommitWrites DEF rows
  <2>2. ASSUME NEW d \in Drops, Inside(d)' PROVE hits \subseteq Aim(d)'
    <3>1. CASE ~Inside(d)
      BY <2>2, <3>1, DropEnters
    <3>2. CASE Inside(d)
      <4>1. hits \subseteq Aim(d) /\ d \in Requests /\ d \notin Ingests
        BY <2>2, <3>2, Disjoint DEF Cascade
      <4>2. pc'[d] \notin {"done", "failed"} /\ pc[d] # "first" /\ d \notin Clears
        BY <2>2, <3>2, Disjoint DEF Inside, InTx
      <4> QED BY <4>1, <4>2, AimStep DEF Visible
    <3> QED BY <3>1, <3>2
  <2> QED BY <2>1, <2>2 DEF Cascade, NoOrphanHits
<1> QED BY <1>1, <1>2

-----------------------------------------------------------------------------
\* A step that commits nothing: what a request counted stays counted.
LEMMA CountedStays ==
  ASSUME Types, Holding, Counts, [Next]_vars, ~ \E r \in Requests : Commit(r),
         NEW x \in Ingests \union Clears, x \notin stale'
  PROVE  Counted(x)'
<1>0. /\ x \in Requests
      /\ todo \in [Requests -> SUBSET Ingests]
      /\ del \in [Requests -> SUBSET Ingests]
      /\ newCount \in [Requests -> Nat]
      /\ pc \in [Requests -> {"start", "begin", "first", "select", "delete",
                              "count", "update", "commit", "done", "failed"}]
      /\ x \in Clears => x \notin Ingests /\ pc[x] \notin {"select", "count"}
      /\ x \in Clears => newCount[x] = 0
      /\ x \notin stale => Counted(x)
  BY Disjoint DEF Types, Holding, Counts
<1>1. hits' = hits
  BY OnlyCommitWrites DEF rows
<1> USE <1>0, <1>1 DEF Counted, Result, Visible, Own, Goto, Aim
<1>2. ASSUME NEW r \in Requests,
             Read(r) \/ Check(r) \/ Begin(r) \/ Insert(r) \/ LockBin(r)
      PROVE  Counted(x)'
  BY <1>2, Disjoint DEF Read, Check, Begin, Insert, LockBin, past
<1>3. ASSUME NEW r \in Requests, SelectSurplus(r) \/ SelectAll(r)
      PROVE  Counted(x)'
  BY <1>3 DEF SelectSurplus, SelectAll, past
<1>4. ASSUME NEW r \in Requests, DeleteRow(r)
      PROVE  Counted(x)'
  <2>1. PICK h \in todo[r] :
          /\ todo' = [todo EXCEPT ![r] = @ \ {h}]
          /\ del' = [del EXCEPT ![r] = @ \union ({h} \intersect Visible(r))]
    BY <1>4 DEF DeleteRow
  <2>2. pc[r] = "delete" /\ UNCHANGED <<pc, newCount, stale>>
    BY <1>4 DEF DeleteRow, past
  <2>3. CASE x = r
    <3>1. todo'[x] = todo[x] \ {h} /\ del'[x] = del[x] \union ({h} \intersect Visible(x))
      BY <2>1, <2>3
    <3> QED BY <2>2, <2>3, <3>1
  <2>4. CASE x # r
    BY <2>1, <2>2, <2>4
  <2> QED BY <2>3, <2>4
<1>9. ASSUME NEW r \in Requests, EndDelete(r)
      PROVE  Counted(x)'
  BY <1>9 DEF EndDelete, AfterDelete, past
<1>5. ASSUME NEW r \in Requests, Count(r)
      PROVE  Counted(x)'
  BY <1>5 DEF Count, past
<1>6. ASSUME NEW r \in Requests, UpdateBin(r)
      PROVE  Counted(x)'
  BY <1>6 DEF UpdateBin, past
<1>7. ASSUME NEW r \in Requests, Rollback(r)
      PROVE  Counted(x)'
  BY <1>7 DEF Rollback, Release
<1>8. ASSUME UNCHANGED vars
      PROVE  Counted(x)'
  BY <1>8 DEF vars
<1> QED
  BY <1>2, <1>3, <1>4, <1>5, <1>6, <1>7, <1>8, <1>9
     DEF Next, Arrive, Statement, Break, Quiet, Fail, DeadlockAbort, LineAbort

\* A commit: whoever has counted and not locked the bin is overtaken, and
\* nobody else but the one that commits holds the lock.
LEMMA CommitOvertakes ==
  ASSUME Types, Holding, Cascade, Counts, NEW r \in Requests, Commit(r),
         NEW x \in Ingests \union Clears, x # r, x \notin stale'
  PROVE  Counted(x)'
<1>0. PICK to \in {"done", "failed"} : Goto(r, to)
  BY DEF Commit, Answer
<1>1. /\ pc'[x] = pc[x] /\ Aim(x)' = Aim(x) /\ newCount'[x] = newCount[x]
      /\ pc[r] = "commit" /\ hits' = Result(r)
      /\ x \notin Overtaken /\ x \notin stale
  BY <1>0, OthersStay, Disjoint DEF Commit, Release, Types, Aim
<1>2. r \in Drops => owner = r /\ bin
  BY <1>1 DEF Holding, Inside, InTx
<1>3. r \notin Drops => owner = r \/ ~bin
  BY <1>1 DEF Holding, Requests
<1>4. CASE x \in Ingests
  <2>1. pc[x] # "update"
    BY <1>1, <1>4 DEF Overtaken
  <2>2. pc[x] # "commit"
    BY <1>2, <1>3, <1>4 DEF Holding, Inside, InTx
  <2> QED BY <1>1, <1>4, <2>1, <2>2, Disjoint DEF Counted
<1>5. CASE x \in Clears
  <2>1. pc[x] \notin {"delete", "update"}
    BY <1>1, <1>5 DEF Overtaken
  <2>2. CASE pc[x] = "commit"
    <3>1. ~bin /\ r \notin Drops
      BY <1>2, <1>3, <1>5, <2>2 DEF Holding
    <3>2. r \notin Ingests
      BY <1>1, <3>1 DEF Holding, Inside, InTx
    <3>3. hits' = {}
      BY <1>1, <3>1, <3>2 DEF Cascade, NoOrphanHits, Result, Visible, Own
    <3>4. newCount[x] = 0
      BY <1>5 DEF Counts
    <3> QED BY <1>1, <1>5, <3>3, <3>4, Disjoint DEF Counted
  <2>3. CASE pc[x] # "commit"
    BY <1>1, <1>5, <2>1, <2>3, Disjoint DEF Counted
  <2> QED BY <2>2, <2>3
<1> QED BY <1>4, <1>5

LEMMA CountsStep ==
  Types /\ Holding /\ Cascade /\ Counts /\ [Next]_vars => Counts'
<1> SUFFICES ASSUME Types, Holding, Cascade, Counts, [Next]_vars PROVE Counts'
  OBVIOUS
<1>1. ASSUME NEW r \in Requests, Commit(r) PROVE Counts'
  <2>0. PICK to \in {"done", "failed"} : Goto(r, to)
    BY <1>1 DEF Commit, Answer
  <2>1. /\ pc[r] = "commit" /\ pc'[r] = to
        /\ hits' = Result(r) /\ newCount'[r] = 0 /\ todo[r] = {}
        /\ \A x \in Requests \ {r} : newCount'[x] = newCount[x]
    BY <1>1, <2>0, OthersStay DEF Commit, Release, Types, Holding
  <2>2. CountExactUnlessOvertaken'
    <3>1. CASE WritesCount(r) /\ r \notin stale
      <4>1. hitCount' = newCount[r] /\ Counted(r) /\ r \in Ingests \union Clears
        BY <1>1, <3>1 DEF Commit, WritesCount, Counts, Requests
      <4>2. CASE r \in Ingests
        BY <2>1, <4>1, <4>2 DEF Counted, CountExactUnlessOvertaken
      <4>3. CASE r \in Clears
        <5>1. hits' = {} /\ hitCount' = 0
          BY <2>1, <4>1, <4>3, Disjoint DEF Counted, Result, Visible, Own, Aim
        <5> QED BY <5>1, FS_EmptySet DEF CountExactUnlessOvertaken
      <4> QED BY <4>1, <4>2, <4>3
    <3>2. CASE WritesCount(r) /\ r \in stale
      BY <1>1, <3>2 DEF Commit, CountExactUnlessOvertaken
    <3>3. CASE ~WritesCount(r)
      <4>1. ~bin'
        BY <1>1, <2>1, <3>3 DEF Commit, WritesCount, Holding, Requests
      <4> QED BY <4>1 DEF CountExactUnlessOvertaken
    <3> QED BY <3>1, <3>2, <3>3
  <2>3. ASSUME NEW x \in Ingests \union Clears, x \notin stale' PROVE Counted(x)'
    <3>1. CASE x = r
      BY <2>1, <3>1 DEF Counted
    <3>2. CASE x # r
      BY <1>1, <2>3, <3>2, CommitOvertakes
    <3> QED BY <3>1, <3>2
  <2>4. \A x \in Clears : newCount'[x] = 0
    BY <2>1, Disjoint DEF Counts
  <2> QED BY <2>2, <2>3, <2>4 DEF Counts
<1>2. ASSUME ~ \E r \in Requests : Commit(r) PROVE Counts'
  <2>1. CountExactUnlessOvertaken'
    BY <1>2, OnlyCommitWrites DEF Counts, CountExactUnlessOvertaken, rows
  <2>2. \A x \in Clears : newCount'[x] = 0
    <3>1. ASSUME NEW r \in Requests, Count(r) PROVE r \notin Clears
      BY <3>1 DEF Count, Holding
    <3>2. ASSUME NEW x \in Clears PROVE newCount'[x] = 0
      <4>0. newCount \in [Requests -> Nat] /\ newCount[x] = 0 /\ x \in Requests
        BY Disjoint DEF Types, Counts
      <4> QED
        BY <1>2, <3>1, <4>0
           DEF Next, Arrive, Statement, Break, Quiet, Fail, DeadlockAbort,
               LineAbort, Rollback, Release, Read, Check, Begin, Insert,
               SelectSurplus, SelectAll, LockBin, DeleteRow, EndDelete, Count,
               UpdateBin, vars
    <3> QED BY <3>2
  <2>3. ASSUME NEW x \in Ingests \union Clears, x \notin stale' PROVE Counted(x)'
    BY <1>2, <2>3, CountedStays
  <2> QED BY <2>1, <2>2, <2>3 DEF Counts
<1> QED BY <1>1, <1>2

-----------------------------------------------------------------------------
\* The hits of S, h apart, that are at least as new as h.
Newer(h, S) == {x \in S \ {h} : recv[x] >= recv[h]}

\* Stored hits belong to finished Ingests, rows in the table and rows to be
\* deleted are stored hits, and a transaction's own row.
Settled == /\ \A h \in stored : Finished(h)
           /\ hits \subseteq stored
           /\ \A r \in Requests : Aim(r) \subseteq stored \union Own(r)
           /\ \A r \in Requests : Aim(r) # {} => InTx(r)

\* Every hit that a trim is about to remove is older than MaxHits others.
TrimsOldest ==
  \A r \in Ingests : \A v \in Aim(r) :
    Cardinality(Newer(v, stored \union {r})) >= MaxHits

Newest == Settled /\ TrimsOldest /\ NewestKept

\* More hits, more newer hits.
LEMMA NewerGrows ==
  ASSUME NEW h, NEW S, NEW T, S \subseteq T, T \subseteq Ingests
  PROVE  Cardinality(Newer(h, S)) <= Cardinality(Newer(h, T))
<1>1. Newer(h, S) \subseteq Newer(h, T) /\ Newer(h, T) \subseteq Ingests
  BY DEF Newer
<1>2. IsFiniteSet(Newer(h, T))
  BY <1>1, Finiteness
<1> QED BY <1>1, <1>2, FS_Subset

\* What OFFSET MaxHits leaves is no newer than the MaxHits rows it skips.
LEMMA SurplusIsOld ==
  ASSUME Types, NEW S, S \subseteq Ingests, NEW V \in Surplus(S), NEW v \in V
  PROVE  Cardinality(Newer(v, S)) >= MaxHits
<1>1. /\ V \subseteq S
      /\ Cardinality(V) = IF Cardinality(S) > MaxHits
                          THEN Cardinality(S) - MaxHits ELSE 0
      /\ \A h \in S \ V : recv[v] <= recv[h]
  BY DEF Surplus
<1>2. IsFiniteSet(S) /\ IsFiniteSet(V) /\ Cardinality(S) \in Nat
  BY <1>1, Finiteness
<1>3. Cardinality(V) # 0
  BY <1>2, FS_EmptySet
<1>4. Cardinality(S) - Cardinality(V) = MaxHits
  BY <1>1, <1>2, <1>3, LimitsAssumption
<1>5. Cardinality(S \ V) = MaxHits
  <2>1. Cardinality(S \ V) = Cardinality(S) - Cardinality(S \intersect V)
    BY <1>2, FS_Difference
  <2>2. S \intersect V = V
    BY <1>1
  <2> QED BY <1>4, <2>1, <2>2
<1>6. S \ V \subseteq Newer(v, S)
  <2>1. ASSUME NEW h \in S \ V PROVE recv[h] >= recv[v] /\ h # v
    BY <1>1 DEF Types
  <2> QED BY <2>1 DEF Newer
<1>7. IsFiniteSet(Newer(v, S))
  BY Finiteness DEF Newer
<1>8. Cardinality(S \ V) <= Cardinality(Newer(v, S))
  BY <1>6, <1>7, FS_Subset
<1> QED BY <1>5, <1>8

LEMMA NewestInit == Init => Newest
BY Disjoint DEF Init, Newest, Settled, TrimsOldest, NewestKept, Own, Aim

\* received_at is read before the hit is stored, and never again.
LEMMA RecvFixed ==
  ASSUME Types, [Next]_vars, NEW h \in Ingests, pc[h] # "start"
  PROVE  recv'[h] = recv[h]
<1>1. ASSUME NEW r \in Requests, Read(r) PROVE recv'[h] = recv[h]
  BY <1>1 DEF Read, Types
<1>2. ASSUME ~ \E r \in Requests : Read(r) PROVE recv' = recv
  BY <1>2 DEF Next, Arrive, Statement, Break, Quiet, Fail, DeadlockAbort,
       LineAbort, Rollback, Check, Begin, Insert, SelectSurplus, SelectAll,
       LockBin, DeleteRow, EndDelete, Count, UpdateBin, Commit, vars
<1> QED BY <1>1, <1>2

\* A request that is finished stays so.
LEMMA Forward ==
  ASSUME Types, [Next]_vars, NEW h \in Requests, Finished(h)
  PROVE  Finished(h)'
<1> USE DEF Types, Finished, InTx, Goto
<1>1. ASSUME NEW r \in Requests, Rollback(r), ~Finished(r) PROVE Finished(h)'
  BY <1>1 DEF Rollback
<1>2. ASSUME NEW r \in Requests, Fail(r) \/ DeadlockAbort(r) \/ LineAbort(r)
      PROVE  ~Finished(r) /\ Rollback(r)
  BY <1>2 DEF Fail, DeadlockAbort, LineAbort, OnCycle, Waits
<1>3. ASSUME NEW r \in Requests,
             Read(r) \/ Check(r) \/ Insert(r) \/ LockBin(r) \/ Commit(r)
      PROVE  Finished(h)'
  BY <1>3 DEF Read, Check, Insert, LockBin, Commit, Answer
<1>4. ASSUME NEW r \in Requests,
             \/ Begin(r) \/ SelectSurplus(r) \/ SelectAll(r) \/ DeleteRow(r)
             \/ EndDelete(r) \/ Count(r) \/ UpdateBin(r)
      PROVE  Finished(h)'
  BY <1>4 DEF Begin, SelectSurplus, SelectAll, DeleteRow, EndDelete, Count, UpdateBin
<1>5. ASSUME UNCHANGED vars PROVE Finished(h)'
  BY <1>5 DEF vars
<1> QED
  BY <1>1, <1>2, <1>3, <1>4, <1>5 DEF Next, Arrive, Statement, Break, Quiet

\* A transaction with rows to delete is still open after the step.
LEMMA AimInTx ==
  ASSUME Types, Holding, Holding', [Next]_vars, NEW r \in Requests, Aim(r)' # {}
  PROVE  InTx(r)' /\ pc[r] # "start"
<1>1. InTx(r)'
  BY DEF Holding, Inside, InTx, Aim
<1>2. Aim(r) # {} => pc[r] # "start"
  BY DEF Holding, Inside, InTx, Aim
<1> QED BY <1>1, <1>2, AimStep

\* What a step does to the history of hits.
LEMMA StoredStep ==
  ASSUME [Next]_vars
  PROVE  \/ UNCHANGED <<hits, stored, cleared>>
         \/ \E r \in Requests :
              /\ Commit(r)
              /\ hits' = Result(r)
              /\ stored' = stored \union Own(r)
              /\ cleared' = IF r \in Ingests THEN cleared ELSE cleared \union del[r]
<1>1. ASSUME NEW r \in Requests, Commit(r)
      PROVE  /\ hits' = Result(r)
             /\ stored' = stored \union Own(r)
             /\ cleared' = IF r \in Ingests THEN cleared ELSE cleared \union del[r]
  BY <1>1 DEF Commit
<1> QED BY <1>1, OnlyCommitWrites DEF rows

LEMMA SettledStep ==
  Types /\ Holding /\ Holding' /\ Settled /\ [Next]_vars => Settled'
<1> SUFFICES ASSUME Types, Holding, Holding', Settled, [Next]_vars PROVE Settled'
  OBVIOUS
<1>1. stored \subseteq stored'
  BY StoredStep
<1>2. ASSUME NEW h \in stored' PROVE Finished(h)'
  <2>1. CASE h \in stored
    BY <2>1, Forward, Disjoint DEF Settled, Types
  <2>2. CASE h \notin stored
    <3>1. PICK r \in Requests : Commit(r) /\ stored' = stored \union Own(r)
      BY <1>2, <2>2, StoredStep
    <3>2. h = r
      BY <1>2, <2>2, <3>1 DEF Own
    <3> QED BY <3>1, <3>2 DEF Commit, Answer, Finished, Goto, Types
  <2> QED BY <2>1, <2>2
<1>3. hits' \subseteq stored'
  BY StoredStep DEF Settled, Result, Visible
<1>4. ASSUME NEW r \in Requests PROVE Aim(r)' \subseteq stored' \union Own(r)
  BY <1>1, AimStep DEF Settled, Surplus, Visible
<1>5. ASSUME NEW r \in Requests, Aim(r)' # {} PROVE InTx(r)'
  BY <1>5, AimInTx
<1> QED BY <1>2, <1>3, <1>4, <1>5 DEF Settled, Own

\* The newer hits of v stay newer: a step adds hits and changes no time.
LEMMA NewerKept ==
  ASSUME Types, [Next]_vars, NEW S, NEW T, S \subseteq T, T \subseteq Ingests,
         NEW v \in Ingests, pc[v] # "start", \A x \in S : pc[x] # "start"
  PROVE  Cardinality(Newer(v, S)) <=
           Cardinality({x \in T \ {v} : recv'[x] >= recv'[v]})
<1> DEFINE W == {x \in T \ {v} : recv'[x] >= recv'[v]}
<1>1. Newer(v, S) \subseteq W
  BY RecvFixed DEF Newer
<1>2. W \subseteq Ingests
  OBVIOUS
<1>3. IsFiniteSet(W)
  BY <1>2, Finiteness
<1> QED BY <1>1, <1>3, FS_Subset

LEMMA TrimsOldestStep ==
  Types /\ Types' /\ Holding /\ Holding' /\ Settled /\ TrimsOldest /\ [Next]_vars
    => TrimsOldest'
<1> SUFFICES ASSUME Types, Types', Holding, Holding', Settled, TrimsOldest, [Next]_vars,
                    NEW r \in Ingests, NEW v \in Aim(r)'
             PROVE  Cardinality({x \in (stored' \union {r}) \ {v} :
                                   recv'[x] >= recv'[v]}) >= MaxHits
  BY DEF TrimsOldest, Newer
<1> DEFINE S == stored \union {r}
           T == stored' \union {r}
<1>0. r \in Requests /\ r \notin Clears /\ r \notin Drops
  BY Disjoint
<1>1. S \subseteq T /\ T \subseteq Ingests /\ S \subseteq Ingests
  BY StoredStep DEF Types
<1>2. \A x \in S : pc[x] # "start"
  BY <1>0, AimInTx DEF Settled, Finished
<1>3. v \in S /\ Cardinality(Newer(v, S)) >= MaxHits
  <2>1. CASE v \in Aim(r)
    BY <1>0, <2>1 DEF TrimsOldest, Settled, Own
  <2>2. CASE v \notin Aim(r)
    <3>1. Aim(r)' \in Surplus(Visible(r)) /\ Visible(r) \subseteq S
      BY <1>0, <2>2, AimStep DEF Visible, Own, Settled
    <3>2. v \in Visible(r)
      BY <3>1 DEF Surplus
    <3>3. Cardinality(Newer(v, Visible(r))) >= MaxHits
      BY <1>0, <3>1, ResultType, SurplusIsOld
    <3>4. Cardinality(Newer(v, Visible(r))) <= Cardinality(Newer(v, S))
      BY <1>1, <3>1, NewerGrows
    <3>5. /\ Cardinality(Newer(v, Visible(r))) \in Nat
          /\ Cardinality(Newer(v, S)) \in Nat
      BY <1>0, <1>1, ResultType, Finiteness DEF Newer
    <3> QED BY <3>1, <3>2, <3>3, <3>4, <3>5, LimitsAssumption
  <2> QED BY <2>1, <2>2
<1>4. v \in Ingests /\ pc[v] # "start"
  BY <1>1, <1>2, <1>3
<1> DEFINE W == {x \in T \ {v} : recv'[x] >= recv'[v]}
<1> HIDE DEF S, T
<1>5. Cardinality(Newer(v, S)) <= Cardinality(W)
  BY <1>1, <1>2, <1>4, NewerKept
<1>6. Cardinality(W) \in Nat /\ Cardinality(Newer(v, S)) \in Nat
  <2>1. W \subseteq Ingests /\ Newer(v, S) \subseteq Ingests
    BY <1>1 DEF Newer
  <2> QED BY <2>1, Finiteness
<1> QED BY <1>3, <1>5, <1>6, LimitsAssumption DEF T

LEMMA NewestKeptStep ==
  Types /\ Types' /\ Newest /\ [Next]_vars => NewestKept'
<1> SUFFICES ASSUME Types, Types', Newest, [Next]_vars,
                    NEW h \in stored' \ (hits' \union cleared')
             PROVE  Cardinality({x \in stored' \ {h} : recv'[x] >= recv'[h]})
                      >= MaxHits
  BY DEF NewestKept
<1>1. stored \subseteq stored' /\ stored' \subseteq Ingests
  BY StoredStep DEF Types
<1> DEFINE W == {x \in stored' \ {h} : recv'[x] >= recv'[h]}
<1>2. PICK S : /\ S \subseteq stored' /\ h \in S
               /\ Cardinality(Newer(h, S)) >= MaxHits
               /\ \A x \in S : pc[x] # "start"
  <2>1. CASE h \in stored \ (hits \union cleared)
    <3>1. Cardinality(Newer(h, stored)) >= MaxHits
      BY <2>1 DEF Newest, NewestKept, Newer
    <3> QED BY <1>1, <2>1, <3>1 DEF Newest, Settled, Finished
  <2>2. CASE h \notin stored \ (hits \union cleared)
    <3>1. PICK r \in Requests :
            /\ Commit(r)
            /\ hits' = Result(r)
            /\ stored' = stored \union Own(r)
            /\ cleared' = IF r \in Ingests THEN cleared ELSE cleared \union del[r]
      BY <2>2, StoredStep
    <3>2. r \in Ingests /\ h \in del[r]
      BY <2>2, <3>1 DEF Result, Visible, Own
    <3>3. Cardinality(Newer(h, stored \union {r})) >= MaxHits
      BY <3>2 DEF Newest, TrimsOldest, Aim
    <3>4. pc[r] # "start" /\ stored' = stored \union {r}
      BY <3>1, <3>2 DEF Commit, Own
    <3> QED BY <3>3, <3>4 DEF Newest, Settled, Finished
  <2> QED BY <2>1, <2>2
<1>3. Cardinality(Newer(h, S)) <= Cardinality(W)
  <2>1. h \in Ingests /\ pc[h] # "start"
    BY <1>1, <1>2
  <2>2. \A x \in S : pc[x] # "start"
    BY <1>2
  <2> QED BY <1>1, <1>2, <2>1, <2>2, NewerKept
<1>4. Cardinality(W) \in Nat /\ Cardinality(Newer(h, S)) \in Nat
  <2>1. W \subseteq Ingests /\ Newer(h, S) \subseteq Ingests
    BY <1>1, <1>2 DEF Newer
  <2> QED BY <2>1, Finiteness
<1> QED BY <1>2, <1>3, <1>4, LimitsAssumption

-----------------------------------------------------------------------------
\* The inductive invariant: the properties need to know who holds the bin's
\* row, what a transaction has counted and what it is about to remove.
IInv == Types /\ Holding /\ Cascade /\ Counts /\ Newest

LEMMA InitInv == Init => IInv
<1> SUFFICES ASSUME Init PROVE IInv
  OBVIOUS
<1>1. Cascade
  BY Disjoint DEF Init, Cascade, NoOrphanHits, InTx
<1>2. Counts
  <2>1. CountExactUnlessOvertaken
    BY FS_EmptySet DEF Init, CountExactUnlessOvertaken
  <2> QED BY <2>1, Disjoint DEF Init, Counts, Counted
<1> QED BY <1>1, <1>2, TypesInit, HoldingInit, NewestInit DEF IInv

LEMMA StepInv == IInv /\ [Next]_vars => IInv'
BY TypesStep, HoldingStep, CascadeStep, CountsStep, SettledStep,
   TrimsOldestStep, NewestKeptStep DEF IInv, Newest

\* The invariant the theorems rest on.
THEOREM Invariant == Spec => []IInv
BY InitInv, StepInv, PTL DEF Spec

\* The variables keep their types, and the locks of the bin's row are held
\* by those transactions only that TypeOK names.
THEOREM TypeCorrect == Spec => []TypeOK
<1>1. IInv => TypeOK
  BY DEF IInv, Types, Holding, Inside, TypeOK
<1> QED BY <1>1, Invariant, PTL

\* No hit is left without its bin.
THEOREM NoOrphans == Spec => []NoOrphanHits
<1>1. IInv => NoOrphanHits
  BY DEF IInv, Cascade
<1> QED BY <1>1, Invariant, PTL

\* hit_count is exact unless a commit overtook the request that wrote it.
THEOREM CountExact == Spec => []CountExactUnlessOvertaken
<1>1. IInv => CountExactUnlessOvertaken
  BY DEF IInv, Counts
<1> QED BY <1>1, Invariant, PTL

\* The trims of any number of concurrent Ingests lose no hit that is among
\* the MaxHits newest.
THEOREM NewestSafe == Spec => []NewestKept
<1>1. IInv => NewestKept
  BY DEF IInv, Newest
<1> QED BY <1>1, Invariant, PTL

-----------------------------------------------------------------------------
\* Ingests whose surplus is chosen, and the bin if those of Q committed now.
Pending == {r \in Ingests : pc[r] \in {"delete", "count", "update", "commit"}}
Left(Q) == (hits \union Q) \ UNION {Aim(q) : q \in Q}
Running == {r \in Requests : InTx(r)}

\* A transaction that chooses its surplus leaves MaxHits hits and those that
\* the others add; the pool bounds the others.
Roomy ==
  /\ Cardinality(Running) <= MaxConns
  /\ \A Q \in SUBSET Pending : Cardinality(Left(Q)) <= MaxHits + MaxConns - 1

LEMMA RunningFinite ==
  /\ IsFiniteSet(Running) /\ Cardinality(Running) \in Nat
  /\ IsFiniteSet(Running') /\ Cardinality(Running') \in Nat
<1>1. Running \subseteq Requests /\ Running' \subseteq Requests
  BY DEF Running
<1> QED BY <1>1, RequestsAssumption, FS_Subset, FS_CardinalityType

\* The pool: a transaction begins where a connection is free.
LEMMA PoolStep ==
  ASSUME Types, Holding, Cardinality(Running) <= MaxConns, [Next]_vars
  PROVE  Cardinality(Running') <= MaxConns
<1> USE DEF Types, InTx, Goto
<1>1. ASSUME NEW r \in Requests, Begin(r)
      PROVE  Cardinality(Running') <= MaxConns
  <2>1. Running' \subseteq Running \union {r} /\ Cardinality(Running) < MaxConns
    BY <1>1 DEF Begin, ConnectionFree, Running
  <2>2. /\ IsFiniteSet(Running \union {r})
        /\ Cardinality(Running \union {r}) <= Cardinality(Running) + 1
    <3>1. IsFiniteSet(Running) /\ Cardinality(Running) \in Nat
      BY RunningFinite
    <3>2. /\ IsFiniteSet(Running \union {r})
          /\ Cardinality(Running \union {r}) =
               IF r \in Running THEN Cardinality(Running) ELSE Cardinality(Running) + 1
      BY <3>1, FS_AddElement
    <3> QED BY <3>1, <3>2
  <2>3. Cardinality(Running') <= Cardinality(Running \union {r})
    BY <2>1, <2>2, FS_Subset
  <2>4. Cardinality(Running \union {r}) \in Nat
    BY <2>2, FS_CardinalityType
  <2> QED BY <2>1, <2>2, <2>3, <2>4, RunningFinite, LimitsAssumption
<1>2. ASSUME Running' \subseteq Running PROVE Cardinality(Running') <= MaxConns
  BY <1>2, RunningFinite, FS_Subset, LimitsAssumption
<1>3. ASSUME NEW r \in Requests,
             \/ Read(r) \/ Check(r) \/ Insert(r) \/ SelectSurplus(r) \/ SelectAll(r)
             \/ LockBin(r) \/ DeleteRow(r) \/ EndDelete(r) \/ Count(r) \/ UpdateBin(r)
      PROVE  Running' \subseteq Running
  BY <1>3 DEF Read, Check, Insert, SelectSurplus, SelectAll, LockBin, DeleteRow,
       EndDelete, AfterDelete, Count, UpdateBin, Running
<1>4. ASSUME NEW r \in Requests, Commit(r) \/ Rollback(r)
      PROVE  Running' \subseteq Running
  BY <1>4 DEF Commit, Answer, Rollback, Running
<1>5. ASSUME UNCHANGED vars PROVE Running' \subseteq Running
  BY <1>5 DEF vars, Running
<1> QED BY <1>1, <1>2, <1>3, <1>4, <1>5
        DEF Next, Arrive, Statement, Break, Quiet, Fail, DeadlockAbort, LineAbort

\* The surplus of S leaves at most MaxHits of it.
LEMMA SurplusLeaves ==
  ASSUME NEW S, S \subseteq Ingests, NEW V \in Surplus(S)
  PROVE  Cardinality(S \ V) <= MaxHits
<1>1. V \subseteq S /\ Cardinality(V) = IF Cardinality(S) > MaxHits
                                        THEN Cardinality(S) - MaxHits ELSE 0
  BY DEF Surplus
<1>2. IsFiniteSet(S) /\ Cardinality(S) \in Nat
  BY Finiteness
<1>3. Cardinality(S \ V) = Cardinality(S) - Cardinality(S \intersect V)
  BY <1>2, FS_Difference
<1>4. S \intersect V = V
  BY <1>1
<1> QED BY <1>1, <1>2, <1>3, <1>4, LimitsAssumption

\* The one that chooses now.
LEMMA ChoosingLeaves ==
  ASSUME Types, Holding, Cardinality(Running') <= MaxConns,
         NEW x \in Ingests, SelectSurplus(x), NEW Q, Q \subseteq Pending', x \in Q
  PROVE  Cardinality(Left(Q)') <= MaxHits + MaxConns - 1
<1> DEFINE S == Visible(x) \ Aim(x)'
<1>1. Visible(x) \subseteq Ingests /\ x \in Requests
  BY ResultType, Disjoint
<1>2. Aim(x)' \in Surplus(Visible(x))
  <2>1. PICK V \in Surplus(Visible(x)) : todo' = [todo EXCEPT ![x] = V]
    BY DEF SelectSurplus
  <2>2. del'[x] = {} /\ todo'[x] = V
    BY <1>1, <2>1 DEF SelectSurplus, Types, Holding, Inside
  <2> QED BY <2>2 DEF Aim
<1>3. Cardinality(S) <= MaxHits /\ IsFiniteSet(S) /\ Cardinality(S) \in Nat
  BY <1>1, <1>2, SurplusLeaves, Finiteness
<1>4. IsFiniteSet(Q) /\ Cardinality(Q \ {x}) = Cardinality(Q) - 1
      /\ Cardinality(Q) \in Nat /\ Q \subseteq Ingests
  <2>1. Q \subseteq Ingests
    BY DEF Pending
  <2> QED BY <2>1, Finiteness, FS_RemoveElement
<1>5. Cardinality(Q) <= MaxConns
  <2>1. Q \subseteq Running'
    BY Disjoint DEF Pending, Running, InTx
  <2>2. Cardinality(Q) <= Cardinality(Running')
    BY <2>1, RunningFinite, FS_Subset
  <2> QED BY <1>4, <2>2, RunningFinite, LimitsAssumption
<1>6. Left(Q)' \subseteq S \union (Q \ {x})
  <2>1. hits' = hits
    BY DEF SelectSurplus, rows
  <2>2. \A h \in Left(Q)' : h \in hits \union Q /\ h \notin Aim(x)'
    BY <2>1 DEF Left
  <2> QED BY <2>2 DEF Visible, Own
<1>7. /\ IsFiniteSet(S \union (Q \ {x})) /\ IsFiniteSet(Q \ {x})
      /\ Cardinality(S \union (Q \ {x})) <= Cardinality(S) + Cardinality(Q \ {x})
  <2>1. IsFiniteSet(Q \ {x}) /\ Q \ {x} \subseteq Ingests
    BY <1>4, FS_Subset
  <2>2. /\ IsFiniteSet(S \union (Q \ {x}))
        /\ Cardinality(S \union (Q \ {x})) =
             Cardinality(S) + Cardinality(Q \ {x}) - Cardinality(S \intersect (Q \ {x}))
    BY <1>3, <2>1, FS_Union
  <2>3. Cardinality(S \intersect (Q \ {x})) \in Nat /\ Cardinality(Q \ {x}) \in Nat
    BY <2>1, Finiteness
  <2> QED BY <1>3, <2>1, <2>2, <2>3
<1>8. Cardinality(Left(Q)') <= Cardinality(S \union (Q \ {x}))
  BY <1>6, <1>7, FS_Subset
<1>9. Cardinality(Left(Q)') \in Nat /\ Cardinality(S \union (Q \ {x})) \in Nat
  BY <1>6, <1>7, FS_Subset, FS_CardinalityType
<1> HIDE DEF S
<1> QED BY <1>3, <1>4, <1>5, <1>7, <1>8, <1>9, LimitsAssumption

LEMMA RoomyStep == IInv /\ Roomy /\ [Next]_vars => Roomy'
<1> SUFFICES ASSUME IInv, Types, Holding, Settled, Roomy, [Next]_vars,
                    Cardinality(Running') <= MaxConns,
                    NEW Q \in SUBSET Pending'
             PROVE  Cardinality(Left(Q)') <= MaxHits + MaxConns - 1
  BY PoolStep DEF Roomy, IInv, Newest
<1>0. /\ Q \subseteq Ingests /\ Ingests \subseteq Requests
      /\ todo \in [Requests -> SUBSET Ingests] /\ del \in [Requests -> SUBSET Ingests]
      /\ \A T : T \subseteq Ingests => IsFiniteSet(T) /\ Cardinality(T) \in Nat
  BY Disjoint, Finiteness DEF Pending, Types
<1>6. ASSUME NEW T, T \subseteq Pending, Left(Q)' \subseteq Left(T)
      PROVE  Cardinality(Left(Q)') <= MaxHits + MaxConns - 1
  <2>1. Left(T) \subseteq Ingests /\ Cardinality(Left(T)) <= MaxHits + MaxConns - 1
    BY <1>6 DEF Roomy, Left, Pending, Types
  <2>2. Cardinality(Left(Q)') <= Cardinality(Left(T)) /\ Cardinality(Left(Q)') \in Nat
    BY <1>0, <1>6, <2>1, FS_Subset
  <2> QED BY <1>0, <2>1, <2>2, LimitsAssumption
<1> USE DEF Goto
<1>1. ASSUME NEW x \in Requests, SelectSurplus(x)
      PROVE  Cardinality(Left(Q)') <= MaxHits + MaxConns - 1
  <2>1. CASE x \in Q
    BY <1>0, <1>1, <2>1, ChoosingLeaves
  <2>2. CASE x \notin Q
    <3>1. /\ hits' = hits /\ \A q \in Q : Aim(q)' = Aim(q) /\ pc'[q] = pc[q]
      BY <1>0, <1>1, <2>2 DEF SelectSurplus, rows, Types, Aim
    <3>2. Q \subseteq Pending /\ Left(Q)' \subseteq Left(Q)
      BY <1>0, <3>1 DEF Left, Pending
    <3> QED BY <1>6, <3>2
  <2> QED BY <2>1, <2>2
<1>2. ASSUME NEW x \in Requests, DeleteRow(x)
      PROVE  Cardinality(Left(Q)') <= MaxHits + MaxConns - 1
  <2>1. hits' = hits /\ Q \subseteq Pending
    BY <1>2 DEF DeleteRow, rows, Pending
  <2>2. \A q \in Q : Aim(q) \intersect Visible(q) \subseteq Aim(q)'
    <3>1. \A q \in Q : pc'[q] \notin {"done", "failed"} /\ pc[q] # "select"
      BY <1>2, <2>1 DEF DeleteRow, Pending
    <3> QED BY <1>0, <3>1, Disjoint, AimStep
  <2>3. \A q \in Q : Q \intersect Aim(q) \subseteq {q}
    <3>1. \A q \in Q : ~Finished(q)
      BY <2>1 DEF Pending, Finished
    <3>2. \A q \in Q : Aim(q) \subseteq stored \union {q}
      BY <1>0 DEF Settled, Own
    <3> QED BY <3>1, <3>2 DEF Settled
  <2>4. Left(Q)' \subseteq Left(Q)
    BY <1>0, <2>1, <2>2, <2>3 DEF Left, Visible, Own
  <2> QED BY <1>6, <2>1, <2>4
<1>3. ASSUME NEW x \in Requests, Commit(x)
      PROVE  Cardinality(Left(Q)') <= MaxHits + MaxConns - 1
  <2>1. /\ hits' = Result(x) /\ x \notin Q /\ pc[x] = "commit"
        /\ \A q \in Q : Aim(q)' = Aim(q) /\ pc'[q] = pc[q]
        /\ Aim(x) = del[x]
    BY <1>0, <1>3 DEF Commit, Answer, Release, Pending, Types, Holding, Aim
  <2>2. CASE x \in Ingests
    <3>1. Q \union {x} \subseteq Pending
      BY <2>1, <2>2 DEF Pending
    <3>2. \A q \in Q : q \notin del[x]
      BY <1>0, <2>1, <2>2, <3>1 DEF Settled, Finished, Own, Pending
    <3>3. Left(Q)' \subseteq Left(Q \union {x})
      BY <2>1, <2>2, <3>2 DEF Left, Result, Visible, Own
    <3> QED BY <1>6, <3>1, <3>3
  <2>3. CASE x \notin Ingests
    BY <1>6, <2>1, <2>3 DEF Left, Result, Visible, Own, Pending
  <2> QED BY <2>2, <2>3
<1>4. ASSUME NEW x \in Requests,
             \/ Read(x) \/ Check(x) \/ Begin(x) \/ Insert(x) \/ SelectAll(x)
             \/ LockBin(x) \/ EndDelete(x) \/ Count(x) \/ UpdateBin(x) \/ Rollback(x)
      PROVE  Cardinality(Left(Q)') <= MaxHits + MaxConns - 1
  <2>1. hits' = hits
    BY <1>4 DEF Read, Check, Begin, Insert, SelectAll, LockBin, EndDelete, Count,
       UpdateBin, Rollback, rows
  <2>2. \A q \in Q : Aim(q)' = Aim(q) /\ q \in Pending
    BY <1>0, <1>4, Disjoint DEF Read, Check, Begin, Insert, SelectAll, LockBin, EndDelete,
       Count, UpdateBin, Rollback, Release, Pending, Types, Aim
  <2>3. Q \subseteq Pending /\ Left(Q)' \subseteq Left(Q)
    BY <2>1, <2>2 DEF Left
  <2> QED BY <1>6, <2>3
<1>5. CASE UNCHANGED vars
  <2>1. Pending' = Pending /\ Left(Q)' = Left(Q)
    BY <1>5 DEF vars, Left, Pending, Aim
  <2> QED BY <1>6, <2>1
<1>7. ASSUME NEW x \in Requests, Arrive(x) \/ Statement(x) \/ Break(x)
      PROVE  Cardinality(Left(Q)') <= MaxHits + MaxConns - 1
  <2>1. CASE SelectSurplus(x)
    BY <1>1, <2>1
  <2>2. CASE DeleteRow(x)
    BY <1>2, <2>2
  <2>3. CASE Commit(x)
    BY <1>3, <2>3
  <2>4. CASE \/ Read(x) \/ Check(x) \/ Begin(x) \/ Insert(x) \/ SelectAll(x)
             \/ LockBin(x) \/ EndDelete(x) \/ Count(x) \/ UpdateBin(x) \/ Rollback(x)
    BY <1>4, <2>4
  <2> QED BY <1>7, <2>1, <2>2, <2>3, <2>4
          DEF Arrive, Statement, Break, Fail, DeadlockAbort, LineAbort
<1> QED BY <1>5, <1>7 DEF Next, Quiet

\* The cap is exceeded by fewer hits than the pool has connections, however
\* many Ingests there are.
THEOREM OvershootSafe == Spec => []OvershootBounded
<1>1. Init => Roomy
  <2>1. SUFFICES ASSUME Init PROVE Roomy
    OBVIOUS
  <2>2. Running = {} /\ Pending = {} /\ \A Q \in SUBSET Pending : Left(Q) = {}
    BY <2>1, Disjoint DEF Init, Running, InTx, Pending, Left
  <2> QED BY <2>2, FS_EmptySet, LimitsAssumption DEF Roomy
<1>2. Roomy => OvershootBounded
  <2>1. Left({}) = hits
    BY DEF Left
  <2> QED BY <2>1 DEF Roomy, OvershootBounded
<1> QED BY <1>1, <1>2, Invariant, RoomyStep, PTL DEF Spec

-----------------------------------------------------------------------------
\* What the clearings under way will remove.
Doomed == [c \in Clears |-> Aim(c) \intersect hits]

LEMMA DoomedStays ==
  ASSUME \A c \in Clears : Aim(c)' \intersect hits' = Aim(c) \intersect hits
  PROVE  Doomed' = Doomed
BY DEF Doomed

\* Both modules count alike.
LEMMA SameCardinality == \A S : Cardinality(S) = Capped!Cardinality(S)
BY DEF Cardinality, Capped!Cardinality

\* A request with a transaction under way moves to the step of the bin that its
\* COMMIT is.
LEMMA CommitCapped ==
  ASSUME IInv, OvershootBounded', NEW r \in Requests, Commit(r)
  PROVE  Capped!Next
<1> USE Disjoint
<1>1. /\ Types /\ Holding /\ Cascade /\ Settled /\ TrimsOldest
      /\ pc[r] = "commit" /\ Inside(r) /\ Aim(r) = del[r]
      /\ todo \in [Requests -> SUBSET Ingests] /\ del \in [Requests -> SUBSET Ingests]
  BY DEF IInv, Newest, Types, Holding, Commit, Inside, InTx, Aim
<1>2. /\ hits' = (hits \union Own(r)) \ del[r]
      /\ stored' = stored \union Own(r)
      /\ bin' = IF r \in Drops THEN FALSE ELSE bin
      /\ UNCHANGED recv
      /\ \A c \in Clears : Aim(c)' = IF c = r THEN {} ELSE Aim(c)
  BY <1>1 DEF Commit, Result, Visible, Release, Aim
<1>3. CASE r \in Ingests
  <2>1. Own(r) = {r} /\ r \notin Drops
    BY <1>3 DEF Own
  <2>2. bin /\ r \notin stored /\ UNCHANGED bin
    BY <1>1, <1>2, <1>3, <2>1 DEF Holding, Inside, InTx, Settled, Finished
  <2>3. hits' \subseteq hits \union {r}
    BY <1>2, <2>1
  <2>4. ASSUME NEW x \in (hits \union {r}) \ hits'
        PROVE  Capped!Outdated(x, stored')
    <3>1. x \in del[r]
      BY <1>2, <2>1
    <3>2. Cardinality(Newer(x, stored')) >= MaxHits
      BY <1>1, <1>2, <1>3, <2>1, <3>1 DEF TrimsOldest
    <3> QED BY <3>2, SameCardinality DEF Newer, Capped!Outdated
  <2>5. Cardinality(hits') <= MaxHits + (MaxConns - 1)
    BY LimitsAssumption, <1>1, <2>3, <2>1, Finiteness DEF OvershootBounded, Types
  <2>6. Doomed' = [c \in Clears |-> Doomed[c] \intersect hits']
    <3>1. ASSUME NEW c \in Clears
          PROVE  Aim(c)' \intersect hits' = (Aim(c) \intersect hits) \intersect hits'
      BY <1>1, <1>2, <1>3, <2>1, <2>2 DEF Settled, Own
    <3> QED BY <3>1 DEF Doomed
  <2>7. Capped!Store(r)
    <3>1. stored' = stored \union {r} /\ UNCHANGED recv
      BY <1>2, <2>1
    <3>2. \A x \in (hits \union {r}) \ hits' : Capped!Outdated(x, stored')
      BY <2>4
    <3> QED BY <2>2, <2>3, <2>5, <2>6, <3>1, <3>2, SameCardinality DEF Capped!Store, Doomed, Aim
  <2> QED BY <1>3, <2>7 DEF Capped!Next
<1>4. CASE r \in Clears
  <2>1. Own(r) = {} /\ UNCHANGED <<bin, stored>>
    BY <1>2, <1>4 DEF Own
  <2>2. hits' = hits \ Doomed[r]
    BY <1>1, <1>2, <1>4, <2>1 DEF Doomed
  <2>3. Doomed' = [c \in Clears |-> Doomed[c] \intersect hits']
    <3>1. ASSUME NEW c \in Clears
          PROVE  Aim(c)' \intersect hits' = (Aim(c) \intersect hits) \intersect hits'
      BY <1>1, <1>2, <1>4, <2>1
    <3> QED BY <3>1 DEF Doomed
  <2>4. Capped!Clear(r)
    BY <1>2, <2>1, <2>2, <2>3 DEF Capped!Clear, Doomed, Aim
  <2> QED BY <1>4, <2>4 DEF Capped!Next
<1>5. CASE r \in Drops
  <2>1. hits' = {} /\ bin' = FALSE /\ UNCHANGED stored
    BY <1>1, <1>2, <1>5 DEF Own, Cascade
  <2>2. Doomed' = [c \in Clears |-> {}]
    BY <2>1 DEF Doomed
  <2>3. Capped!Drop
    BY <1>2, <2>1, <2>2 DEF Capped!Drop, Doomed, Aim
  <2> QED BY <2>3 DEF Capped!Next
<1> QED BY <1>3, <1>4, <1>5 DEF Requests

\* Every step of the transactions is a step of the bin, or none.
LEMMA StepCapped ==
  IInv /\ OvershootBounded' /\ [Next]_vars => [Capped!Next]_(Capped!vars)
<1> SUFFICES ASSUME IInv, OvershootBounded', [Next]_vars
             PROVE  Capped!Next \/ UNCHANGED <<bin, hits, stored, recv, Doomed>>
  BY DEF Capped!vars, Doomed, Aim
<1>0. /\ Types /\ Holding /\ Settled /\ Clears \subseteq Requests
      /\ todo \in [Requests -> SUBSET Ingests] /\ del \in [Requests -> SUBSET Ingests]
  BY Disjoint DEF IInv, Types, Newest
<1>1. ASSUME NEW r \in Requests, Read(r) PROVE Capped!Next
  <2>1. UNCHANGED <<bin, hits, stored, todo, del>>
    BY <1>1 DEF Read, rows, past
  <2>2. \A h \in stored : recv'[h] = recv[h]
    BY <1>0, <1>1 DEF Read, Types, Settled, Finished
  <2>3. Capped!Receive
    BY <2>1, <2>2 DEF Capped!Receive
  <2> QED BY <2>3 DEF Capped!Next
<1>2. ASSUME NEW r \in Requests,
             \/ Check(r) \/ Begin(r) \/ Insert(r) \/ EndDelete(r) \/ Count(r) \/ UpdateBin(r)
      PROVE  UNCHANGED <<bin, hits, stored, recv, Doomed>>
  BY <1>2 DEF Check, Begin, Insert, EndDelete, Count, UpdateBin, rows, past, Doomed, Aim
<1>3. ASSUME NEW r \in Requests, SelectSurplus(r) \/ LockBin(r) \/ DeleteRow(r)
      PROVE  UNCHANGED <<bin, hits, stored, recv, Doomed>>
  <2>1. UNCHANGED <<bin, hits, stored, recv>>
    BY <1>3 DEF SelectSurplus, LockBin, DeleteRow, rows, past
  <2>2. ASSUME NEW c \in Clears
        PROVE  Aim(c)' \intersect hits' = Aim(c) \intersect hits
    <3>1. CASE SelectSurplus(r) \/ LockBin(r)
      <4>1. Aim(c)' = Aim(c)
        BY <1>0, <3>1, Disjoint DEF SelectSurplus, LockBin, Aim
      <4> QED BY <2>1, <4>1
    <3>2. CASE DeleteRow(r)
      <4>1. pc'[c] = pc[c]
        BY <3>2 DEF DeleteRow
      <4>2. [Next]_vars /\ c \in Requests /\ c \notin Ingests
        BY <1>0, Disjoint
      <4>3. pc[c] = "first" => Aim(c)' = Aim(c)
        BY <1>0, <3>2 DEF DeleteRow, Aim
      <4>4. pc[c] \in {"done", "failed"} => Aim(c) = {}
        BY <1>0, <4>2 DEF Holding, Inside, InTx, Aim
      <4> QED BY <1>0, <2>1, <4>1, <4>2, <4>3, <4>4, Disjoint, AimStep DEF Visible
    <3> QED BY <1>3, <3>1, <3>2
  <2> QED BY <2>1, <2>2, DoomedStays
<1>4. ASSUME NEW r \in Requests, SelectAll(r) PROVE Capped!Next
  <2>1. /\ r \in Clears /\ UNCHANGED <<bin, hits, stored, recv>>
        /\ todo' = [todo EXCEPT ![r] = hits] /\ del' = del /\ pc[r] = "first"
    BY <1>4 DEF SelectAll, rows, past
  <2>2. \A c \in Clears : Aim(c)' = IF c = r THEN hits ELSE Aim(c)
    BY <1>0, <2>1 DEF Holding, Inside, Aim
  <2>5. Doomed' = [Doomed EXCEPT ![r] = hits]
    BY <1>0, <2>1, <2>2 DEF Doomed
  <2>3. Capped!BeginClear(r)
    BY <2>1, <2>5 DEF Capped!BeginClear, Doomed, Aim
  <2> QED BY <2>1, <2>3 DEF Capped!Next
<1>5. ASSUME NEW r \in Requests, Commit(r) PROVE Capped!Next
  BY <1>5, CommitCapped
<1>6. ASSUME NEW r \in Requests, Rollback(r)
      PROVE  Capped!Next \/ UNCHANGED <<bin, hits, stored, recv, Doomed>>
  <2>1. /\ UNCHANGED <<bin, hits, stored, recv>>
        /\ \A c \in Clears : Aim(c)' = IF c = r THEN {} ELSE Aim(c)
    BY <1>0, <1>6 DEF Rollback, Release, rows, Aim
  <2>2. CASE r \in Clears
    <3>1. Doomed' = [Doomed EXCEPT ![r] = {}]
      BY <1>0, <2>1, <2>2 DEF Doomed
    <3>2. Capped!GiveUp(r)
      BY <2>1, <3>1 DEF Capped!GiveUp, Doomed, Aim
    <3> QED BY <2>2, <3>2 DEF Capped!Next
  <2>3. CASE r \notin Clears
    <3>1. \A c \in Clears : Aim(c)' \intersect hits' = Aim(c) \intersect hits
      BY <1>0, <2>1, <2>3
    <3> QED BY <2>1, <3>1, DoomedStays
  <2> QED BY <2>2, <2>3
<1>7. CASE UNCHANGED vars
  BY <1>7 DEF vars, Doomed, Aim
<1> QED
  BY <1>1, <1>2, <1>3, <1>4, <1>5, <1>6, <1>7
     DEF Next, Arrive, Statement, Break, Quiet, Fail, DeadlockAbort, LineAbort

\* The transactions of any number of Ingests, clears and deletions implement
\* the bin of CappedBin.
THEOREM BinCapped == Spec => CappedBinSpec
<1>1. Init => Capped!Init
  <2>1. SUFFICES ASSUME Init PROVE Doomed = [c \in Clears |-> {}]
    BY DEF Init, Capped!Init, Doomed, Aim
  <2> QED BY <2>1 DEF Init, Doomed
<1> QED
  BY <1>1, Invariant, OvershootSafe, StepCapped, PTL DEF Spec, CappedBinSpec, Capped!Spec

-----------------------------------------------------------------------------
\* A request that was received and is not answered yet.
Active(r) == pc[r] # "start" /\ ~Finished(r)

\* What can keep a statement from running: the pool, the locks of the bin's
\* row, and rows that other transactions have deleted.
Blocked(r) ==
  \/ pc[r] = "begin" /\ ~ConnectionFree
  \/ pc[r] = "first" /\ r \in Ingests /\ owner \in Drops
  \/ pc[r] = "first" /\ r \in Drops /\ (share # {} \/ owner # NoOne)
  \/ pc[r] = "update" /\ owner # NoOne
  \/ /\ pc[r] = "delete" /\ todo[r] # {}
     /\ \A h \in todo[r] : \E x \in Requests \ {r} : h \in del[x]

\* Waiting ends: while a request is under way, one can go on, or waits in a
\* circle that the server breaks.  Nobody waits for ever for a connection of
\* those who wait for locks.
NoGridlock ==
  (\E r \in Requests : Active(r)) =>
    \E r \in Requests : Active(r) /\ (~Blocked(r) \/ OnCycle(r))

\* How far a request is.
Rank(p) == CASE p = "start" -> 0 [] p = "begin" -> 1 [] p = "first" -> 2
             [] p = "select" -> 3 [] p = "delete" -> 4 [] p = "count" -> 5
             [] p = "update" -> 6 [] p = "commit" -> 7 [] OTHER -> 8

\* Every statement takes its request further, or its DELETE past a row, and no
\* step of another sends it back or gives it more rows.
Advances ==
  \A r \in Requests :
    /\ Statement(r) => \/ Rank(pc[r]) < Rank(pc'[r])
                       \/ pc'[r] = pc[r] /\ todo'[r] # todo[r]
    /\ Rank(pc[r]) <= Rank(pc'[r])
    /\ pc'[r] = pc[r] => todo'[r] \subseteq todo[r]
RequestsAdvance == [][Advances]_vars

\* A statement that runs was not blocked, unless the server aborts it.
LEMMA StatementUnblocked ==
  ASSUME IInv, NEW r \in Requests, Statement(r)
  PROVE  Active(r) /\ (~Blocked(r) \/ OnCycle(r))
<1> USE DEF Active, Finished, Blocked
<1>1. ASSUME DeadlockAbort(r) PROVE Active(r) /\ OnCycle(r)
  BY <1>1 DEF DeadlockAbort, OnCycle, Waits
<1>2. ASSUME Begin(r) \/ Insert(r) \/ SelectAll(r) \/ LockBin(r)
      PROVE  Active(r) /\ ~Blocked(r)
  BY <1>2, Disjoint DEF Begin, Insert, SelectAll, LockBin
<1>3. ASSUME SelectSurplus(r) \/ Count(r) \/ Commit(r) \/ EndDelete(r)
      PROVE  Active(r) /\ ~Blocked(r)
  BY <1>3 DEF SelectSurplus, Count, Commit, EndDelete
<1>4. ASSUME DeleteRow(r) PROVE Active(r) /\ ~Blocked(r)
  BY <1>4 DEF DeleteRow
<1>5. ASSUME UpdateBin(r) PROVE Active(r) /\ ~Blocked(r)
  BY <1>5, Disjoint DEF UpdateBin
<1> QED BY <1>1, <1>2, <1>3, <1>4, <1>5 DEF Statement

\* If everyone of B waits, and only for others of B, some of them wait in a
\* circle: those of a smallest part of B in which that is so.
LEMMA SomeCircle ==
  ASSUME NEW B, B \subseteq Requests, B # {},
         \A a \in B : \E b \in Requests : Waits(a, b),
         \A a \in B, b \in Requests : Waits(a, b) => b \in B
  PROVE  \E r \in B : OnCycle(r)
<1> DEFINE Closed(S) == \A a \in S, b \in Requests : Waits(a, b) => b \in S
           F == {S \in SUBSET B : S # {} /\ Closed(S)}
<1>1. F \subseteq FiniteSubsetsOf(Requests) /\ B \in F
  BY RequestsAssumption, FS_Subset DEF FiniteSubsetsOf
<1>2. PICK S \in F : \A T \in F : <<T, S>> \notin StrictSubsetOrdering(Requests)
  <2>1. IsWellFoundedOn(StrictSubsetOrdering(Requests), FiniteSubsetsOf(Requests))
    BY FS_StrictSubsetOrderingWellFounded
  <2> HIDE DEF F
  <2> QED BY <1>1, <2>1, WFMin
<1>3. PICK r \in S : r \in B
  OBVIOUS
<1>4. ASSUME NEW T \in SUBSET Requests, Closed(T), r \notin T,
             \A x \in Requests : Waits(r, x) => x \in T
      PROVE  FALSE
  <2>1. S \intersect T \in F
    <3>1. PICK x \in Requests : Waits(r, x)
      BY <1>3
    <3>2. x \in S \intersect T
      BY <1>4, <3>1
    <3> QED BY <1>4, <3>2
  <2>2. <<S \intersect T, S>> \in StrictSubsetOrdering(Requests)
    BY <1>3, <1>4 DEF StrictSubsetOrdering
  <2> QED BY <1>2, <2>1, <2>2
<1>5. OnCycle(r)
  BY <1>3, <1>4 DEF OnCycle
<1> QED BY <1>3, <1>5

\* Who is blocked in a transaction waits for a lock, and who holds a lock is in
\* a transaction.
LEMMA BlockedWaits ==
  ASSUME IInv, NEW a \in Requests, InTx(a), Blocked(a)
  PROVE  \E b \in Requests : Waits(a, b)
<1>0. /\ owner \in Requests \union {NoOne} /\ share \subseteq Requests
      /\ todo \in [Requests -> SUBSET Ingests]
  BY Disjoint DEF IInv, Types
<1>1. CASE pc[a] \in {"first", "update"}
  BY <1>0, <1>1, Disjoint DEF Blocked, Waits
<1>2. CASE pc[a] = "delete"
  <2>1. PICK h \in todo[a], x \in Requests : h \in del[x]
    BY <1>2 DEF Blocked
  <2> QED BY <1>2, <2>1 DEF Waits
<1> QED BY <1>1, <1>2 DEF Blocked, InTx

LEMMA HoldersInTx ==
  ASSUME IInv, NEW a \in Requests, NEW b \in Requests, Waits(a, b)
  PROVE  InTx(b)
<1>0. Holding /\ owner # NoOne => InTx(owner)
  BY DEF IInv, Holding, InTx
<1> QED BY <1>0, Disjoint DEF Waits, Holding, Inside, InTx, IInv, Types

\* Someone can go on.
LEMMA SomeoneGoesOn == IInv => NoGridlock
<1> SUFFICES ASSUME IInv, NEW r \in Requests, Active(r),
                    \A x \in Requests : Active(x) => Blocked(x)
             PROVE  \E x \in Requests : Active(x) /\ OnCycle(x)
  BY DEF NoGridlock
<1>1. \A x \in Running : Active(x) /\ Blocked(x)
  BY DEF Running, Active, InTx, Finished
<1>2. Running # {}
  <2>1. SUFFICES ASSUME Running = {} PROVE FALSE
    OBVIOUS
  <2>2. ConnectionFree
    BY <2>1, FS_EmptySet, LimitsAssumption DEF ConnectionFree, Running
  <2>3. pc[r] = "begin"
    BY <2>1 DEF Running, InTx, Active, Finished, IInv, Types
  <2> QED BY <2>2, <2>3 DEF Blocked
<1>3. \A a \in Running : \E b \in Requests : Waits(a, b)
  BY <1>1, BlockedWaits DEF Running
<1>4. \A a \in Running, b \in Requests : Waits(a, b) => b \in Running
  BY HoldersInTx DEF Running
<1>5. PICK x \in Running : OnCycle(x)
  <2>1. Running \subseteq Requests
    BY DEF Running
  <2> HIDE DEF Running
  <2> QED BY <1>2, <1>3, <1>4, <2>1, SomeCircle
<1> QED BY <1>1, <1>5 DEF Running

LEMMA AdvanceStep == IInv /\ [Next]_vars => Advances \/ UNCHANGED vars
<1> SUFFICES ASSUME Types, [Next]_vars, ~UNCHANGED vars, NEW r \in Requests
             PROVE  /\ Statement(r) => \/ Rank(pc[r]) < Rank(pc'[r])
                                       \/ pc'[r] = pc[r] /\ todo'[r] # todo[r]
                    /\ Rank(pc[r]) <= Rank(pc'[r])
                    /\ pc'[r] = pc[r] => todo'[r] \subseteq todo[r]
  BY DEF IInv, Advances
<1>0. todo \in [Requests -> SUBSET Ingests]
  BY DEF Types
<1>1. ASSUME NEW x \in Requests, NEW to, Goto(x, to), Rank(pc[x]) < Rank(to),
             \A y \in Requests \ {x} : todo'[y] = todo[y]
      PROVE  /\ Rank(pc[x]) < Rank(pc'[x])
             /\ Rank(pc[r]) <= Rank(pc'[r])
             /\ pc'[r] = pc[r] => todo'[r] \subseteq todo[r]
  BY <1>1, OthersStay DEF Rank
<1>2. ASSUME NEW x \in Requests, Arrive(x)
      PROVE  /\ Rank(pc[r]) <= Rank(pc'[r])
             /\ pc'[r] = pc[r] => todo'[r] \subseteq todo[r]
  <2>1. /\ \E to \in {"begin", "failed"} : Goto(x, to) /\ pc[x] = "start"
        /\ UNCHANGED todo
    BY <1>2 DEF Arrive, Read, Check
  <2> QED BY <1>1, <2>1 DEF Rank
<1>3. ASSUME NEW x \in Requests, Statement(x), ~DeleteRow(x)
      PROVE  /\ Rank(pc[x]) < Rank(pc'[x])
             /\ Rank(pc[r]) <= Rank(pc'[r])
             /\ pc'[r] = pc[r] => todo'[r] \subseteq todo[r]
  <2>1. CASE \/ Begin(x) \/ Insert(x) \/ SelectSurplus(x) \/ SelectAll(x) \/ LockBin(x)
    <3>1. PICK to \in {"first", "select", "delete", "done", "failed"} :
            /\ Goto(x, to)
            /\ \/ pc[x] = "begin"
               \/ pc[x] = "first" /\ to # "first"
               \/ pc[x] = "select" /\ to = "delete"
      BY <2>1 DEF Begin, Insert, SelectSurplus, SelectAll, LockBin
    <3>2. \A y \in Requests \ {x} : todo'[y] = todo[y]
      BY <1>0, <2>1 DEF Begin, Insert, SelectSurplus, SelectAll, LockBin
    <3> QED BY <1>1, <3>1, <3>2 DEF Rank
  <2>2. CASE EndDelete(x) \/ Count(x) \/ UpdateBin(x)
    <3>1. PICK to \in {"count", "update", "commit"} :
            /\ Goto(x, to)
            /\ \/ pc[x] = "delete"
               \/ pc[x] = "count" /\ to = "update"
               \/ pc[x] = "update" /\ to = "commit"
      BY <2>2 DEF EndDelete, AfterDelete, Count, UpdateBin
    <3>2. UNCHANGED todo
      BY <2>2 DEF EndDelete, Count, UpdateBin
    <3> QED BY <1>1, <3>1, <3>2 DEF Rank
  <2>3. CASE Commit(x) \/ DeadlockAbort(x)
    <3>1. PICK to \in {"done", "failed"} :
            Goto(x, to) /\ pc[x] \in {"first", "delete", "update", "commit"}
      BY <2>3 DEF Commit, Answer, DeadlockAbort, OnCycle, Waits, Rollback
    <3>2. \A y \in Requests \ {x} : todo'[y] = todo[y]
      BY <1>0, <2>3 DEF Commit, DeadlockAbort, Rollback, Release
    <3> QED BY <1>1, <3>1, <3>2 DEF Rank
  <2> QED BY <1>3, <2>1, <2>2, <2>3 DEF Statement
<1>4. ASSUME NEW x \in Requests, DeleteRow(x)
      PROVE  /\ x = r => pc'[x] = pc[x] /\ todo'[x] # todo[x]
             /\ Rank(pc[r]) <= Rank(pc'[r])
             /\ todo'[r] \subseteq todo[r]
  BY <1>0, <1>4 DEF DeleteRow, Rank
<1>5. ASSUME NEW x \in Requests, Break(x)
      PROVE  /\ Rank(pc[r]) <= Rank(pc'[r])
             /\ pc'[r] = pc[r] => todo'[r] \subseteq todo[r]
  <2>1. Goto(x, "failed") /\ Rank(pc[x]) < Rank("failed") /\ Release(x)
    BY <1>5 DEF Break, Fail, LineAbort, Waits, Rollback, InTx, Rank
  <2>2. \A y \in Requests \ {x} : todo'[y] = todo[y]
    BY <1>0, <2>1 DEF Release
  <2> QED BY <1>1, <2>1, <2>2
<1> QED BY <1>2, <1>3, <1>4, <1>5 DEF Next, Quiet

\* While requests are under way, one of them can go on or is in a circle of
\* waits that the server breaks: circles of any length, through trims, clears
\* and deletions that meet on the rows and the bin, but none through the pool.
\* With Progress, it is the reason why every request is answered.
THEOREM Unstuck == Spec => []NoGridlock
BY Invariant, SomeoneGoesOn, PTL

\* A request advances with its every statement: it has eight at most, with one
\* more for every row that its DELETE comes to.
THEOREM Progress == Spec => RequestsAdvance
<1>1. IInv /\ [Next]_vars => [Advances]_vars
  BY AdvanceStep
<1> QED BY <1>1, Invariant, PTL DEF Spec, RequestsAdvance

-----------------------------------------------------------------------------
\* The values of the reader's variables.
ReadTypes ==
  /\ at \in {"idle", "get", "owned", "query", "listed", "over"}
  /\ after \in listed \union {NoOne}
  /\ page \subseteq listed /\ listed \subseteq stored
  /\ there \subseteq hits
  /\ at = "idle" => page = {} /\ after = NoOne
  /\ at = "listed" => page # {}
  /\ at = "over" => page = {}

\* The cursor is the oldest hit that was listed, and the next one will be in
\* the last page.
Ordered ==
  /\ at \in {"get", "listed"} /\ page # {} =>
       \A h \in listed : \E p \in page : recv[p] <= recv[h]
  /\ at \in {"owned", "query"} /\ after # NoOne =>
       \A h \in listed : recv[after] <= recv[h]

\* What was there all along and is not listed is older than what is, or was
\* received at the same instant as a hit that is.
Swept ==
  ~cut => \A h \in there \ listed :
            \/ \E c \in listed : recv[c] = recv[h]
            \/ \A c \in listed : recv[h] < recv[c]

\* A request that chose its rows after the walk had begun removes no hit
\* without those that are older.
OldestFirst ==
  \A r \in Chosen \ early : \A c \in Aim(r), h \in there :
    recv[h] < recv[c] => h \in Aim(r)

\* No hit that was there all along is older than c, or an early request has
\* removed c.
Bottom(c) == c \in lost \/ \A h \in there : recv[c] <= recv[h]

\* A listed hit that is gone was removed by an early request, or with all
\* that were older; so a page that is empty is the last.
Sound ==
  /\ \A c \in listed \ hits : Bottom(c)
  /\ at \in {"get", "over"} /\ page = {} /\ after # NoOne /\ ~cut => Bottom(after)
  /\ at = "over" /\ after = NoOne /\ ~cut => there = {}

ReadInv == /\ IInv
           /\ ReadTypes
           /\ Ordered
           /\ Swept
           /\ OldestFirst
           /\ Sound

LEMMA ReadStart == ReadInit => ReadInv
BY InitInv DEF ReadInit, ReadInv, ReadTypes, Ordered, Swept, OldestFirst, Sound,
               Init, Chosen

-----------------------------------------------------------------------------
\* Stored hits are what they were: received_at does not change.
LEMMA RecvOfStored ==
  ASSUME IInv, [Next]_vars
  PROVE  /\ stored \subseteq stored' /\ stored \subseteq Ingests
         /\ \A h \in stored : recv[h] \in Int /\ recv'[h] = recv[h]
<1>1. stored \subseteq stored'
  BY StoredStep
<1>2. \A h \in stored : h \in Ingests /\ pc[h] # "start"
  BY DEF IInv, Newest, Settled, Finished, Types
<1>3. \A h \in stored : recv[h] \in Int
  BY <1>2 DEF IInv, Types
<1>4. \A h \in stored : recv'[h] = recv[h]
  BY <1>2, RecvFixed DEF IInv
<1> QED BY <1>1, <1>2, <1>3, <1>4

\* Rows are removed by a commit of r, if r is the request that moves.
LEMMA RemovedRows ==
  ASSUME NEW r \in Requests, Arrive(r) \/ Statement(r) \/ Break(r)
  PROVE  \/ UNCHANGED rows
         \/ Commit(r) /\ hits \ hits' \subseteq del[r]
<1>1. CASE Commit(r)
  BY <1>1 DEF Commit, Result, Visible
<1>2. CASE ~Commit(r)
  BY <1>2 DEF Arrive, Statement, Break, Fail, LineAbort, DeadlockAbort, Rollback, Read,
       Check, Begin, Insert, SelectSurplus, SelectAll, LockBin, DeleteRow, EndDelete,
       Count, UpdateBin, rows
<1> QED BY <1>1, <1>2

\* A request that has chosen its rows had chosen them before, or chooses now.
LEMMA ChosenStep ==
  ASSUME Types, Holding, NEW r \in Requests, Arrive(r) \/ Statement(r) \/ Break(r),
         NEW x \in Chosen'
  PROVE  /\ pc[x] # "start"
         /\ \/ /\ x \in Chosen
               /\ Aim(x)' \subseteq Aim(x) /\ Aim(x) \intersect Visible(x) \subseteq Aim(x)'
            \/ x \in Ingests /\ Aim(x)' \in Surplus(Visible(x))
            \/ Aim(x)' = hits
<1>1. x \in Requests /\ [Next]_vars /\ pc'[x] \notin {"done", "failed"}
  BY DEF Next, Chosen
<1>2. pc[x] # "start" /\ (x \in Chosen \/ pc[x] \in {"first", "select"})
  <2> USE DEF Types, Chosen, Goto
  <2>1. CASE Arrive(r)
    BY <2>1 DEF Arrive, Read, Check
  <2>2. CASE Begin(r) \/ Insert(r) \/ SelectSurplus(r) \/ SelectAll(r) \/ LockBin(r)
    BY <2>2 DEF Begin, Insert, SelectSurplus, SelectAll, LockBin
  <2>3. CASE DeleteRow(r) \/ EndDelete(r) \/ Count(r) \/ UpdateBin(r)
    BY <2>3 DEF DeleteRow, EndDelete, Count, UpdateBin
  <2>4. CASE Commit(r) \/ Rollback(r)
    BY <2>4 DEF Commit, Rollback, Release, Answer
  <2> QED BY <2>1, <2>2, <2>3, <2>4 DEF Statement, Break, Fail, LineAbort, DeadlockAbort
<1>3. CASE Aim(x)' = Aim(x) /\ x \notin Chosen
  <2>1. \/ x \in Ingests /\ Aim(x)' \in Surplus(Visible(x))
        \/ Aim(x)' = hits
    <3>1. todo[x] = {} /\ del[x] = {}
      BY <1>1, <1>2, <1>3 DEF Types, Holding, Inside, Chosen
    <3>2. r = x /\ (SelectSurplus(r) \/ SelectAll(r) \/ LockBin(r))
      BY <1>2, <1>3 DEF Arrive, Statement, Break, Fail, LineAbort, DeadlockAbort, Rollback,
         Read, Check, Begin, Insert, SelectSurplus, SelectAll, LockBin, DeleteRow,
         EndDelete, Count, UpdateBin, Commit, Answer, Chosen, Goto, Types
    <3>3. CASE SelectSurplus(r)
      BY <3>1, <3>2, <3>3 DEF SelectSurplus, Types, Aim
    <3>4. CASE SelectAll(r)
      BY <3>1, <3>2, <3>4 DEF SelectAll, Types, Aim
    <3>5. CASE LockBin(r)
      <4>1. bin
        BY <1>1, <3>2, <3>5 DEF LockBin, Goto, Types
      <4> QED BY <3>1, <3>2, <3>5, <4>1 DEF LockBin, Types, Aim
    <3> QED BY <3>2, <3>3, <3>4, <3>5
  <2> QED BY <1>2, <2>1
<1> QED BY <1>1, <1>2, <1>3, AimStep DEF Chosen

-----------------------------------------------------------------------------
\* A cursor that was at the bottom of the bin stays there.
LEMMA BottomStays ==
  ASSUME IInv, NEW r \in Requests, Arrive(r) \/ Statement(r) \/ Break(r), Watch(r),
         there \subseteq hits, NEW c \in stored, Bottom(c)
  PROVE  Bottom(c)'
<1>1. [Next]_vars
  BY DEF Next
<1>2. there \subseteq stored
  BY DEF IInv, Newest, Settled
<1>3. recv'[c] = recv[c] /\ \A h \in there : recv'[h] = recv[h]
  BY <1>1, <1>2, RecvOfStored
<1>4. lost \subseteq lost' /\ there' \subseteq there
  BY DEF Watch
<1> QED BY <1>3, <1>4 DEF Bottom

\* Whatever chose its rows during the walk still has all older ones with them.
LEMMA ChoiceStaysOldest ==
  ASSUME ReadInv, NEW r \in Requests, Arrive(r) \/ Statement(r) \/ Break(r), Watch(r)
  PROVE  OldestFirst'
<1>1. SUFFICES ASSUME NEW x \in Chosen', x \notin early', NEW c \in Aim(x)',
                      NEW h \in there', recv'[h] < recv'[c]
               PROVE  h \in Aim(x)'
  BY DEF OldestFirst
<1>2. [Next]_vars /\ IInv
  BY DEF Next, ReadInv
<1>3. h \in there /\ h \in hits /\ h \in stored /\ x \in Requests /\ x \notin early
  BY <1>1, <1>2 DEF Watch, ReadInv, ReadTypes, IInv, Newest, Settled, Chosen
<1>4. pc[x] # "start"
  BY <1>1, <1>2, ChosenStep DEF IInv
<1>5. ASSUME c \in stored \union Own(x) PROVE recv[h] < recv[c]
  <2>1. recv'[h] = recv[h]
    BY <1>2, <1>3, RecvOfStored
  <2>2. CASE c \in stored
    BY <1>1, <1>2, <2>1, <2>2, RecvOfStored
  <2>3. CASE c \in Own(x)
    <3>1. c = x /\ x \in Ingests
      BY <2>3 DEF Own
    <3>2. recv'[c] = recv[c]
      BY <1>2, <1>4, <3>1, RecvFixed DEF IInv
    <3> QED BY <1>1, <2>1, <3>2
  <2> QED BY <1>5, <2>2, <2>3
<1>6. CASE /\ x \in Chosen
           /\ Aim(x)' \subseteq Aim(x) /\ Aim(x) \intersect Visible(x) \subseteq Aim(x)'
  <2>1. c \in Aim(x)
    BY <1>1, <1>6
  <2>2. c \in stored \union Own(x)
    BY <1>2, <1>3, <2>1 DEF IInv, Newest, Settled
  <2>3. h \in Aim(x)
    BY <1>3, <1>5, <1>6, <2>1, <2>2 DEF ReadInv, OldestFirst
  <2> QED BY <1>3, <1>6, <2>3 DEF Visible
<1>7. CASE Aim(x)' \in Surplus(Visible(x))
  <2>1. /\ Aim(x)' \subseteq Visible(x)
        /\ \A i \in Visible(x) \ Aim(x)' : recv[c] <= recv[i]
    BY <1>1, <1>7 DEF Surplus
  <2>2. recv[h] < recv[c]
    BY <1>1, <1>2, <1>5, <2>1 DEF Visible, IInv, Newest, Settled
  <2>3. recv[h] \in Int /\ recv[c] \in Int
    BY <1>1, <1>2, <1>3, <2>1, ResultType DEF IInv, Types
  <2> QED BY <1>3, <2>1, <2>2, <2>3 DEF Visible
<1>8. CASE Aim(x)' = hits
  BY <1>3, <1>8
<1> QED BY <1>1, <1>2, <1>6, <1>7, <1>8, ChosenStep DEF IInv

\* A listed hit that is removed: the one who removes it is early, or removes
\* all the older ones too.
LEMMA SoundStays ==
  ASSUME ReadInv, NEW r \in Requests, Arrive(r) \/ Statement(r) \/ Break(r), Watch(r)
  PROVE  Sound'
<1>1. [Next]_vars /\ IInv /\ there \subseteq hits /\ listed \subseteq stored
  BY DEF Next, ReadInv, ReadTypes
<1>2. ASSUME NEW c \in listed, c \notin hits' PROVE Bottom(c)'
  <2>1. CASE c \notin hits
    BY <1>1, <1>2, <2>1, BottomStays DEF ReadInv, Sound
  <2>2. CASE c \in hits
    <3>1. Commit(r) /\ c \in del[r] /\ hits' = Result(r) /\ pc[r] = "commit"
      BY <1>2, <2>2, RemovedRows DEF Commit, rows
    <3>4. Aim(r) = del[r]
      BY <1>1, <3>1 DEF Aim, IInv, Holding
    <3>2. CASE r \in early
      BY <1>2, <2>2, <3>2 DEF Watch, Bottom
    <3>3. CASE r \notin early
      <4>1. ASSUME NEW h \in there' PROVE recv'[c] <= recv'[h]
        <5>1. h \in there /\ h \notin del[r]
          BY <3>1, <4>1 DEF Watch, Result
        <5>2. ~(recv[h] < recv[c])
          BY <3>1, <3>3, <3>4, <5>1 DEF ReadInv, OldestFirst, Chosen
        <5>3. h \in stored /\ c \in stored
          BY <1>1, <1>2, <5>1 DEF IInv, Newest, Settled
        <5>4. recv[h] \in Int /\ recv[c] \in Int /\ recv'[h] = recv[h] /\ recv'[c] = recv[c]
          BY <1>1, <5>3, RecvOfStored
        <5> QED BY <5>2, <5>4
      <4> QED BY <4>1 DEF Bottom
    <3> QED BY <3>2, <3>3
  <2> QED BY <2>1, <2>2
<1>3. after # NoOne => after \in stored
  BY <1>1 DEF ReadInv, ReadTypes
<1>4. UNCHANGED <<at, after, page, listed, cut>> /\ there' \subseteq there
  BY DEF Watch
<1>5. ASSUME at \in {"get", "over"}, page = {}, after # NoOne, ~cut
      PROVE  Bottom(after)'
  <2>1. PICK c \in stored : c = after /\ Bottom(c)
    BY <1>3, <1>5 DEF ReadInv, Sound
  <2>2. Bottom(c)'
    BY <1>1, <2>1, BottomStays
  <2> QED BY <1>4, <2>1, <2>2 DEF Bottom
<1>6. at = "over" /\ after = NoOne /\ ~cut => there' = {}
  BY <1>4 DEF ReadInv, Sound
<1>7. \A c \in listed' \ hits' : Bottom(c)'
  BY <1>2, <1>4
<1>8. at' \in {"get", "over"} /\ page' = {} /\ after' # NoOne /\ ~cut' => Bottom(after)'
  BY <1>4, <1>5
<1>9. at' = "over" /\ after' = NoOne /\ ~cut' => there' = {}
  BY <1>4, <1>6
<1> QED BY <1>7, <1>8, <1>9 DEF Sound

LEMMA OthersStep ==
  ASSUME ReadInv, NEW r \in Requests, Arrive(r) \/ Statement(r) \/ Break(r), Watch(r)
  PROVE  ReadInv'
<1>1. [Next]_vars /\ IInv
  BY DEF Next, ReadInv
<1>2. IInv' /\ stored \subseteq stored'
  BY <1>1, StepInv, RecvOfStored
<1>3. UNCHANGED <<at, after, page, listed, early, cut>> /\ there' \subseteq there
  BY DEF Watch
<1>4. /\ \A h \in listed : recv'[h] = recv[h]
      /\ \A h \in there : recv'[h] = recv[h]
  BY <1>1, RecvOfStored DEF ReadInv, ReadTypes, IInv, Newest, Settled
<1>5. ReadTypes'
  BY <1>2, <1>3 DEF ReadInv, ReadTypes, Watch
<1>6. Ordered'
  <2>1. page \subseteq listed /\ after \in listed \union {NoOne}
    BY DEF ReadInv, ReadTypes
  <2> QED BY <1>3, <1>4, <2>1 DEF ReadInv, Ordered
<1>7. Swept'
  BY <1>3, <1>4 DEF ReadInv, Swept
<1> QED BY <1>2, <1>5, <1>6, <1>7, ChoiceStaysOldest, SoundStays DEF ReadInv

-----------------------------------------------------------------------------
\* The reader alone: the tables and the transactions stay as they are.
LEMMA ReaderKeeps ==
  ASSUME ReadInv, Reader
  PROVE  /\ IInv' /\ UNCHANGED vars /\ Chosen' = Chosen
         /\ hits \subseteq stored /\ stored \subseteq Ingests
         /\ \A h \in stored : recv[h] \in Int
         /\ NoOne \notin stored
<1>1. UNCHANGED vars /\ [Next]_vars /\ IInv
  BY DEF Reader, OpenBin, NextPage, Get, Owned, QueryFirst, QueryNext, GiveUp, ReadInv
<1>2. Chosen' = Chosen
  BY <1>1 DEF Chosen, vars
<1>3. hits \subseteq stored
  BY <1>1 DEF IInv, Newest, Settled
<1> QED BY <1>1, <1>2, <1>3, StepInv, RecvOfStored, Disjoint

LEMMA ForgetStep ==
  ASSUME ReadInv, Reader, Forget
  PROVE  ReadInv'
<1>1. ReadTypes' /\ Ordered' /\ Swept' /\ OldestFirst' /\ Sound'
  BY DEF Forget, ReadTypes, Ordered, Swept, OldestFirst, Sound
<1> QED BY <1>1, ReaderKeeps DEF ReadInv

\* The steps between two queries read nothing that moves.
LEMMA BetweenStep ==
  ASSUME ReadInv, OpenBin \/ NextPage \/ Get \/ Owned
  PROVE  ReadInv'
<1> SUFFICES ASSUME ~Forget PROVE ReadInv'
  BY ForgetStep DEF Reader
<1>1. Reader /\ UNCHANGED <<vars, page, walk>>
  BY DEF Reader, OpenBin, NextPage, Get, Owned
<1>2. IInv' /\ Chosen' = Chosen
  BY <1>1, ReaderKeeps
<1>3. Swept' /\ OldestFirst' /\ \A c \in listed \ hits : Bottom(c)'
  BY <1>1, <1>2 DEF ReadInv, Swept, OldestFirst, Aim, Sound, Bottom, walk, vars
<1>4. CASE OpenBin
  <2>1. ReadTypes' /\ Ordered'
    BY <1>1, <1>4 DEF OpenBin, ReadInv, ReadTypes, Ordered, walk, vars
  <2>2. Sound'
    BY <1>1, <1>3, <1>4 DEF OpenBin, ReadInv, ReadTypes, Sound, walk, vars
  <2> QED BY <1>2, <1>3, <2>1, <2>2 DEF ReadInv
<1>5. CASE NextPage
  <2>1. PICK c \in page : after' = c /\ \A h \in page : recv[c] <= recv[h]
    BY <1>5 DEF NextPage
  <2>2. c # NoOne /\ c \in listed /\ at = "listed" /\ at' = "owned" /\ page \subseteq listed
    BY <1>1, <1>5, <2>1, ReaderKeeps DEF ReadInv, ReadTypes, NextPage
  <2>3. \A h \in listed : recv[h] \in Int
    BY <1>1, ReaderKeeps DEF ReadInv, ReadTypes
  <2>4. \A h \in listed : recv[c] <= recv[h]
    <3>1. SUFFICES ASSUME NEW h \in listed PROVE recv[c] <= recv[h]
      OBVIOUS
    <3>2. PICK p \in page : recv[p] <= recv[h]
      BY <2>2, <3>1 DEF ReadInv, Ordered
    <3> QED BY <2>1, <2>2, <2>3, <3>2
  <2>5. Ordered'
    BY <1>1, <2>1, <2>2, <2>4 DEF Ordered, walk, vars
  <2>6. ReadTypes'  /\ Sound'
    BY <1>1, <1>3, <2>1, <2>2 DEF ReadInv, ReadTypes, Sound, walk, vars
  <2> QED BY <1>2, <1>3, <2>5, <2>6 DEF ReadInv
<1>6. CASE Get
  <2>1. /\ at = "get" /\ after' = after
        /\ at' = IF after = NoOne THEN "owned" ELSE Listed
    BY <1>6 DEF Get
  <2>2. ReadTypes' /\ Ordered'
    BY <1>1, <2>1 DEF ReadInv, ReadTypes, Ordered, Listed, walk, vars
  <2>4. at' = "over" => after # NoOne /\ page = {}
    BY <2>1 DEF Listed
  <2>5. at' # "get"
    BY <2>1 DEF Listed
  <2>6. at' = "over" /\ ~cut => Bottom(after)'
    BY <1>1, <2>1, <2>4 DEF ReadInv, Sound, Bottom, walk, vars
  <2>7. Sound'
    BY <1>1, <1>3, <2>1, <2>4, <2>5, <2>6 DEF Sound, walk, vars
  <2> QED BY <1>2, <1>3, <2>2, <2>7 DEF ReadInv
<1>7. CASE Owned
  <2>1. at = "owned" /\ at' = "query" /\ UNCHANGED after
    BY <1>7 DEF Owned
  <2>2. ReadTypes' /\ Ordered'
    BY <1>1, <2>1 DEF ReadInv, ReadTypes, Ordered, walk, vars
  <2>3. Sound'
    BY <1>1, <1>3, <2>1 DEF Sound, walk, vars
  <2> QED BY <1>2, <1>3, <2>2, <2>3 DEF ReadInv
<1> QED BY <1>4, <1>5, <1>6, <1>7

\* A page that is empty and not cut short: there was nothing to list.
LEMMA EmptyPage ==
  ASSUME NEW S, S \subseteq Ingests, {} \in Top(S)
  PROVE  S = {}
<1>1. Cardinality({}) = IF Cardinality(S) > MaxHits THEN MaxHits ELSE Cardinality(S)
  BY DEF Top
<1>2. Cardinality(S) = 0 /\ IsFiniteSet(S)
  BY <1>1, Finiteness, FS_EmptySet, LimitsAssumption
<1> QED BY <1>2, FS_EmptySet

\* The first page begins the walk.
LEMMA FirstPageStep ==
  ASSUME ReadInv, QueryFirst
  PROVE  ReadInv'
<1>1. /\ Reader /\ at = "query" /\ after = NoOne /\ UNCHANGED <<vars, after>>
      /\ listed' = page' /\ there' = hits /\ early' = Chosen /\ lost' = {}
      /\ at' = IF page' = {} THEN "over" ELSE "listed"
      /\ page' \subseteq hits /\ \A p \in page', h \in hits \ page' : recv[p] >= recv[h]
      /\ ~cut' => page' \in Top(hits)
  BY DEF QueryFirst, Deliver, Reader
<1>2. IInv' /\ Chosen' = Chosen /\ hits \subseteq stored /\ \A h \in hits : recv[h] \in Int
  BY <1>1, ReaderKeeps
<1>3. hits' = hits /\ recv' = recv /\ stored' = stored /\ hitCount' = hitCount
  BY <1>1 DEF vars
<1>4. ReadTypes' /\ OldestFirst'
  BY <1>1, <1>2, <1>3 DEF ReadTypes, OldestFirst
<1>5. Ordered'
  BY <1>1, <1>2, <1>3 DEF Ordered
<1>6. Swept'
  <2>1. ASSUME NEW h \in hits \ page'
        PROVE  \/ \E c \in page' : recv[c] = recv[h]
               \/ \A c \in page' : recv[h] < recv[c]
    BY <1>1, <1>2, <2>1
  <2> QED BY <1>1, <1>3, <2>1 DEF Swept
<1>7. at' = "over" /\ ~cut' => hits = {}
  <2>1. hits \subseteq Ingests
    BY DEF ReadInv, IInv, Types
  <2> QED BY <1>1, <2>1, EmptyPage
<1>8. Sound'
  BY <1>1, <1>3, <1>7 DEF Sound
<1> QED BY <1>2, <1>4, <1>5, <1>6, <1>8 DEF ReadInv

\* A later page goes on below the cursor.
LEMMA LaterPageStep ==
  ASSUME ReadInv, QueryNext
  PROVE  ReadInv'
<1>1. /\ Reader /\ at = "query" /\ after # NoOne /\ at' = "get"
      /\ UNCHANGED <<vars, after, there, early, lost>>
      /\ listed' = listed \union page' /\ page' \subseteq Before(after)
      /\ \A p \in page', h \in Before(after) \ page' : recv[p] >= recv[h]
      /\ cut' = (cut \/ page' \notin Top(Before(after)))
  BY DEF QueryNext, Deliver, Reader
<1>2. IInv' /\ Chosen' = Chosen /\ hits \subseteq stored /\ \A h \in stored : recv[h] \in Int
  BY <1>1, ReaderKeeps
<1>3. hits' = hits /\ recv' = recv /\ stored' = stored /\ todo' = todo /\ del' = del
  BY <1>1 DEF vars
<1>4. /\ after \in listed /\ listed \subseteq stored /\ there \subseteq hits
      /\ \A h \in listed : recv[after] <= recv[h]
  BY <1>1 DEF ReadInv, ReadTypes, Ordered
<1>5. page' \subseteq hits /\ \A p \in page' : recv[p] < recv[after]
  BY <1>1 DEF Before
<1>6. ReadTypes' /\ OldestFirst'
  BY <1>1, <1>2, <1>3, <1>4, <1>5 DEF ReadInv, ReadTypes, OldestFirst, Aim
<1>7. Ordered'
  <2>1. ASSUME NEW p \in page', NEW h \in listed PROVE recv[p] <= recv[h]
    BY <1>2, <1>4, <1>5, <2>1
  <2>2. \A h \in page' : recv[h] <= recv[h]
    BY <1>2, <1>5
  <2> QED BY <1>1, <1>3, <2>1, <2>2 DEF Ordered
<1>8. Swept'
  <2>1. SUFFICES ASSUME ~cut', NEW h \in there, h \notin listed, h \notin page',
                        \A c \in listed \union page' : recv[c] # recv[h],
                        NEW d \in listed \union page'
                 PROVE  recv[h] < recv[d]
    BY <1>1, <1>3 DEF Swept
  <2>2. \A c \in listed : recv[h] < recv[c]
    BY <1>1, <2>1 DEF ReadInv, Swept
  <2>3. CASE d \in page'
    <3>1. h \in Before(after)
      BY <1>1, <1>4, <2>1, <2>2, <2>3 DEF Before
    <3>2. recv[d] >= recv[h] /\ recv[d] # recv[h]
      BY <1>1, <2>1, <2>3, <3>1
    <3>3. recv[d] \in Int /\ recv[h] \in Int
      BY <1>2, <1>4, <1>5, <2>3
    <3> QED BY <3>2, <3>3
  <2> QED BY <2>1, <2>2, <2>3
<1>9. page' = {} /\ ~cut' => Bottom(after)
  <2>1. SUFFICES ASSUME page' = {}, ~cut', after \in hits PROVE Bottom(after)
    BY <1>4 DEF ReadInv, Sound
  <2>2. Before(after) = {}
    <3>1. Before(after) \subseteq Ingests /\ {} \in Top(Before(after))
      BY <1>1, <2>1 DEF ReadInv, IInv, Types, Before
    <3> QED BY <3>1, EmptyPage
  <2>3. \A h \in there : ~(recv[h] < recv[after])
    BY <1>4, <2>1, <2>2 DEF Before
  <2> QED BY <1>2, <1>4, <2>3 DEF Bottom
<1>10. \A c \in listed \ hits : Bottom(c)'
  BY <1>1, <1>3 DEF ReadInv, Sound, Bottom
<1>11. page' = {} /\ ~cut' => Bottom(after)'
  BY <1>1, <1>3, <1>9 DEF Bottom
<1>12. Sound'
  BY <1>1, <1>3, <1>5, <1>10, <1>11 DEF Sound
<1> QED BY <1>2, <1>6, <1>7, <1>8, <1>12 DEF ReadInv

LEMMA ReadStep == ReadInv /\ [ReadNext]_allVars => ReadInv'
<1> SUFFICES ASSUME ReadInv, [ReadNext]_allVars PROVE ReadInv'
  OBVIOUS
<1>1. CASE UNCHANGED allVars
  <2>1. UNCHANGED vars
    BY <1>1 DEF allVars
  <2>2. IInv' /\ Chosen' = Chosen
    BY <2>1, StepInv DEF ReadInv, Chosen, vars
  <2> QED
    BY <1>1, <2>2 DEF ReadInv, ReadTypes, Ordered, Swept, OldestFirst, Aim, Sound,
       Bottom, allVars, vars, readVars, walk
<1>2. CASE GiveUp
  BY <1>2, ForgetStep DEF GiveUp, Reader
<1> QED BY <1>1, <1>2, OthersStep, BetweenStep, FirstPageStep, LaterPageStep
        DEF ReadNext, Reader

-----------------------------------------------------------------------------
\* The invariant of a walk: where its cursor stands among what it has listed
\* and among what the transactions are about to remove.
THEOREM ReadInvariant == ReadSpec => []ReadInv
BY ReadStart, ReadStep, PTL DEF ReadSpec

\* However many pages a walk has and whatever is committed between them, at
\* its end it has listed every hit that was there all along, with the
\* exceptions that WalkComplete names.
THEOREM WalksComplete == ReadSpec => []WalkComplete
<1>1. ASSUME ReadInv PROVE WalkComplete
  <2>1. SUFFICES ASSUME at = "over", ~cut, NEW h \in there, h \notin listed,
                        after \notin lost, \A c \in listed : recv[c] # recv[h]
                 PROVE  FALSE
    BY DEF WalkComplete
  <2>2. after \in listed /\ \A x \in there : recv[after] <= recv[x]
    BY <1>1, <2>1 DEF ReadInv, Sound, Bottom, ReadTypes
  <2>3. recv[h] < recv[after]
    BY <1>1, <2>1, <2>2 DEF ReadInv, Swept
  <2>4. recv[h] \in Int /\ recv[after] \in Int
    BY <1>1, <2>1, <2>2 DEF ReadInv, ReadTypes, IInv, Types, Newest, Settled
  <2> QED BY <2>1, <2>2, <2>3, <2>4
<1> QED BY <1>1, ReadInvariant, PTL

\* No walk lists a hit twice.
THEOREM NeverTwice == ReadSpec => NoHitTwice
<1>1. ASSUME ReadInv, [ReadNext]_allVars, at = "query", at' = "get"
      PROVE  page' \intersect listed = {}
  <2>1. QueryNext
    BY <1>1 DEF ReadNext, Reader, OpenBin, NextPage, Get, Owned, QueryFirst, GiveUp,
                Forget, Watch, allVars, readVars
  <2>2. /\ after # NoOne
        /\ \A p \in page' : p \in hits /\ recv[p] < recv[after]
    BY <2>1 DEF QueryNext, Deliver, Before
  <2>3. after \in listed /\ \A h \in listed : recv[after] <= recv[h]
    BY <1>1, <2>2 DEF ReadInv, ReadTypes, Ordered
  <2>4. \A h \in listed : recv[h] \in Int
    BY <1>1, <2>1, ReaderKeeps DEF ReadInv, ReadTypes, Reader
  <2> QED BY <2>2, <2>3, <2>4
<1> QED BY <1>1, ReadInvariant, PTL DEF ReadSpec, NoHitTwice

\* The part of ReadTypeOK that the properties do not need.
Kinds ==
  /\ Cardinality(page) <= MaxHits
  /\ early \subseteq Requests /\ lost \subseteq stored \ hits
  /\ cut \in BOOLEAN

LEMMA KindsStep == ReadInv /\ Kinds /\ [ReadNext]_allVars => Kinds'
<1> SUFFICES ASSUME ReadInv, Kinds, [ReadNext]_allVars PROVE Kinds'
  OBVIOUS
<1>0. IInv /\ MaxHits \in Nat /\ Cardinality({}) = 0
  BY LimitsAssumption, FS_EmptySet DEF ReadInv
<1>1. ASSUME NEW r \in Requests, Arrive(r) \/ Statement(r) \/ Break(r), Watch(r)
      PROVE  Kinds'
  <2>1. stored \subseteq stored' /\ hits \subseteq stored
    BY <1>0, <1>1, RecvOfStored DEF Next, IInv, Newest, Settled
  <2>2. \A h \in stored : h \in hits' => h \in hits
    <3>1. CASE UNCHANGED rows
      BY <3>1 DEF rows
    <3>2. CASE Commit(r)
      BY <1>0, <3>2 DEF Commit, Result, Visible, Own, IInv, Newest, Settled, Finished
    <3> QED BY <1>1, <3>1, <3>2, RemovedRows
  <2>3. lost' \subseteq stored' \ hits'
    BY <1>1, <2>1, <2>2 DEF Kinds, Watch
  <2> QED BY <1>1, <2>3 DEF Kinds, Watch
<1>2. ASSUME Forget, UNCHANGED vars PROVE Kinds'
  <2>1. Cardinality(page') <= MaxHits
    BY <1>0, <1>2 DEF Forget
  <2>2. cut' \in BOOLEAN
    BY <1>2 DEF Forget
  <2> QED BY <1>2, <2>1, <2>2 DEF Forget, Kinds
<1>3. ASSUME NEW S, Deliver(S) PROVE Cardinality(page') <= MaxHits /\ cut' \in BOOLEAN
  BY <1>3 DEF Deliver, Kinds
<1>4. CASE OpenBin \/ NextPage \/ Owned
  BY <1>2, <1>4 DEF OpenBin, NextPage, Owned, Kinds, walk, vars
<1>5. CASE Get
  BY <1>0, <1>2, <1>5 DEF Get, Kinds, walk, vars, IInv, Types
<1>6. CASE QueryFirst
  BY <1>3, <1>6 DEF QueryFirst, Kinds, Chosen
<1>7. CASE QueryNext
  BY <1>3, <1>7 DEF QueryNext, Kinds, vars
<1>8. CASE GiveUp
  BY <1>2, <1>8 DEF GiveUp
<1>9. CASE UNCHANGED allVars
  BY <1>9 DEF allVars, vars, readVars, walk, Kinds
<1> QED BY <1>1, <1>4, <1>5, <1>6, <1>7, <1>8, <1>9 DEF ReadNext, Reader

\* A page keeps to its limit, and a hit that a request has removed during the
\* walk does not come back.
THEOREM ReadTypeCorrect == ReadSpec => []ReadTypeOK
<1>1. ReadInit => Kinds
  <2> SUFFICES ASSUME ReadInit PROVE Kinds
    OBVIOUS
  <2>1. Cardinality({}) = 0 /\ MaxHits \in Nat
    BY FS_EmptySet, LimitsAssumption
  <2>2. cut \in BOOLEAN
    BY DEF ReadInit
  <2>3. Cardinality(page) <= MaxHits
    BY <2>1 DEF ReadInit
  <2> QED BY <2>2, <2>3 DEF ReadInit, Kinds
<1>2. ReadInv /\ Kinds => ReadTypeOK
  BY DEF ReadInv, ReadTypes, Kinds, ReadTypeOK, IInv, Types
<1> QED BY <1>1, <1>2, ReadInvariant, KindsStep, PTL DEF ReadSpec
=============================================================================
