------------------------- MODULE WebhookBinsProofs -------------------------
(***************************************************************************)
(* For any workers, users, ids and limits: WebhookBins keeps its types,    *)
(* bounds how far concurrent calls of Create exceed the limit and how long *)
(* a cached key outlives its bin, and lets only its owner remove a bin     *)
(* that has not expired.  It implements OwnedBins.                         *)
(***************************************************************************)
EXTENDS WebhookBins, FiniteSetTheorems, TLAPS

\* The values of the variables, the first part of TypeOK.
Types ==
  /\ owner \in [Ids -> Users \union {Nobody}]
  /\ exp \in [Ids -> 0..MaxTime+BinTTL]
  /\ created \subseteq Ids
  /\ cache \in [Ids -> Nat]
  /\ now \in 0..MaxTime
  /\ pc \in [Workers -> Places]
  /\ task \in [Workers -> Task \union {NoTask}]
  /\ seen \in [Workers -> 0..MaxTime+BinTTL]
  /\ todo \in [Workers -> SUBSET Ids]
  /\ ans \in [Workers -> Answers]

\* What worker w knows, by the command it is about to send.
Settled(w) ==
  /\ pc[w] = "idle" <=> task[w] = NoTask
  /\ pc[w] # "idle" => task[w].begun <= now
  /\ pc[w] # "idle" => (task[w].user = Nobody <=> task[w].op \in Public)
  /\ pc[w] # "idle" /\ task[w].op \notin {"create", "exists"}
       => task[w].bin \in created
  /\ pc[w] \in {"prune", "uncache"} /\ task[w].op = "create"
       => task[w].bin \notin created
  /\ pc[w] \in {"count", "insert"}
       => task[w].op = "create" /\ task[w].bin \notin created
  /\ pc[w] \in {"uncache", "count"}
       => \A b \in Ids : owner[b] # Nobody => exp[b] >= task[w].begun
  /\ pc[w] = "probe" => task[w].op = "exists"
  /\ pc[w] = "owned" => task[w].op \notin Public
  /\ pc[w] = "select" => task[w].op # "create"
  /\ pc[w] = "insert" => seen[w] >= task[w].begun + BinTTL
  /\ pc[w] = "cacheNew" => /\ task[w].bin \in created
                           /\ exp[task[w].bin] >= task[w].begun + BinTTL
  /\ pc[w] = "dropExpired" => task[w].bin \in created /\ Expired(task[w].bin)
  /\ pc[w] = "delete" => /\ task[w].bin \in created
                         /\ owner[task[w].bin] \in {task[w].user, Nobody}
  /\ pc[w] = "fill" => /\ task[w].bin \in created
                       /\ seen[w] + task[w].begun <= exp[task[w].bin]

Control == \A w \in Workers : Settled(w)

\* Rows and keys belong to ids that were created, and a key ends soon after
\* its bin.
Kept ==
  /\ \A b \in Ids : owner[b] # Nobody => b \in created
  /\ \A b \in Ids : cache[b] > 0 => b \in created /\ cache[b] <= exp[b] + Timeout

\* The calls of Create that are under way have ids of their own.
Distinct ==
  \A w, x \in Workers :
    /\ w # x
    /\ pc[w] # "idle" /\ task[w].op = "create"
    /\ pc[x] # "idle" /\ task[x].op = "create"
    => task[w].bin # task[x].bin

LEMMA Numbers ==
  /\ MaxBins \in Nat /\ BinTTL \in Nat /\ Timeout \in Nat
  /\ MaxTime \in Nat /\ MaxBins > 0 /\ BinTTL > 0
  /\ Timeout <= BinTTL
BY BinsAssumption, TimesAssumption

LEMMA Names == NoTask \notin Task /\ Nobody \notin Users
BY NamesAssumption

\* A worker in a call has a task.
LEMMA Busy ==
  ASSUME Types, Control, NEW w \in Workers, pc[w] # "idle"
  PROVE  /\ task[w] \in Task /\ task[w].op \in Ops
         /\ task[w].user \in Users \union {Nobody}
         /\ task[w].bin \in Ids /\ task[w].begun \in 0..MaxTime
<1>1. task[w] \in Task
  BY DEF Types, Control, Settled
<1> QED BY <1>1 DEF Task

\* A bin is created, and a bin's owner is asked for, on behalf of a user.
LEMMA SignedIn ==
  ASSUME Types, Control, NEW w \in Workers, pc[w] # "idle",
         task[w].op = "create" \/ pc[w] = "owned"
  PROVE  task[w].user \in Users
BY Busy DEF Control, Settled, Public

-----------------------------------------------------------------------------
\* Types, by what the steps do to the variables of a worker.
Locals ==
  /\ pc \in [Workers -> Places]
  /\ task \in [Workers -> Task \union {NoTask}]
  /\ seen \in [Workers -> 0..MaxTime+BinTTL]
  /\ todo \in [Workers -> SUBSET Ids]
  /\ ans \in [Workers -> Answers]

Globals ==
  /\ owner \in [Ids -> Users \union {Nobody}]
  /\ exp \in [Ids -> 0..MaxTime+BinTTL]
  /\ created \subseteq Ids
  /\ cache \in [Ids -> Nat]
  /\ now \in 0..MaxTime

LEMMA Both == Types <=> Locals /\ Globals
BY DEF Types, Locals, Globals

LEMMA ReturnLocals ==
  ASSUME Locals, NEW w \in Workers, NEW a \in Answers, Return(w, a)
  PROVE  Locals'
BY Numbers DEF Locals, Return, Goto, Places

LEMMA ContinueLocals ==
  ASSUME Locals, NEW w \in Workers, NEW to \in Places, Continue(w, to)
  PROVE  Locals'
BY DEF Locals, Continue, Goto, local

LEMMA PlaceNames ==
  /\ \A op \in Ops : First(op) \in Places /\ AfterPrune(op) \in Places
  /\ \A op \in Ops : First(op) # "idle" /\ AfterPrune(op) # "idle"
BY DEF First, AfterPrune, Ops, Places

LEMMA GivenUpAnswers ==
  ASSUME NEW w \in Workers
  PROVE  GivenUp(w) \in Answers \ {"limit"}
BY DEF GivenUp, Answers

LEMMA AfterPruneErrorLocals ==
  ASSUME Types, Control, NEW w \in Workers, pc[w] # "idle", AfterPruneError(w)
  PROVE  Locals'
<1>1. task[w].op \in Ops /\ Locals
  BY Busy, Both
<1> QED
  BY <1>1, PlaceNames, ReturnLocals, ContinueLocals
     DEF AfterPruneError, Answers

LEMMA RemoveGlobals ==
  ASSUME Globals, NEW B, RemoveRows(B), UNCHANGED <<cache, now>>
  PROVE  Globals'
BY DEF Globals, RemoveRows

LEMMA InsertGlobals ==
  ASSUME Types, Control, NEW w \in Workers, pc[w] # "idle", InsertRow(w),
         UNCHANGED <<cache, now>>
  PROVE  Globals'
<1>1. task[w].bin \in Ids /\ task[w].user \in Users \union {Nobody}
  BY Busy
<1>2. owner' \in [Ids -> Users \union {Nobody}]
  BY <1>1 DEF InsertRow, Types
<1>3. exp' \in [Ids -> 0..MaxTime+BinTTL]
  BY <1>1 DEF InsertRow, Types
<1> QED BY <1>1, <1>2, <1>3 DEF InsertRow, Types, Globals

LEMMA UncacheGlobals ==
  ASSUME Globals, NEW b \in Ids, Uncache(b), UNCHANGED <<rows, now>>
  PROVE  Globals'
BY Numbers DEF Globals, Uncache, rows

LEMMA TypesStep == Types /\ Control /\ [Next]_vars => Types'
<1> SUFFICES ASSUME Types, Control, [Next]_vars PROVE Types'
  OBVIOUS
<1>0. Locals /\ Globals
  BY Both
<1> USE DEF At
<1>1. ASSUME NEW w \in Workers, NEW op \in Ops, NEW u \in Users \union {Nobody},
             NEW b \in Ids, Start(w, op, u, b)
      PROVE  Types'
  <2>1. [op |-> op, user |-> u, bin |-> b, begun |-> now] \in Task
    BY DEF Types, Task
  <2>2. task' \in [Workers -> Task \union {NoTask}]
    BY <1>1, <2>1 DEF Start, Types
  <2>3. pc' \in [Workers -> Places]
    BY <1>1, PlaceNames DEF Start, Goto, Types
  <2>4. ans' \in [Workers -> Answers]
    BY <1>1 DEF Start, Types, Answers
  <2> QED BY <1>1, <2>2, <2>3, <2>4 DEF Start, Types, rows
<1>2. ASSUME NEW w \in Workers, Prune(w) PROVE Types'
  <2>1. PICK B \in SUBSET Ids, to \in Places :
          /\ RemoveRows(B)
          /\ todo' = [todo EXCEPT ![w] = B]
          /\ Goto(w, to)
    BY <1>2, Busy, PlaceNames DEF Prune, Places
  <2>2. Locals'
    BY <1>0, <1>2, <2>1 DEF Prune, Locals, Goto
  <2>3. Globals'
    BY <1>0, <1>2, <2>1, RemoveGlobals DEF Prune, Globals
  <2> QED BY <2>2, <2>3, Both DEF Types, Locals, Globals
<1>3. ASSUME NEW w \in Workers, PruneFails(w) PROVE Types'
  <2>1. Locals'
    BY <1>3, AfterPruneErrorLocals DEF PruneFails
  <2> QED BY <1>0, <1>3, <2>1 DEF PruneFails, rows, Types, Locals, Globals
<1>4. ASSUME NEW w \in Workers, PruneAnswerLost(w) PROVE Types'
  <2>1. Locals'
    BY <1>4, AfterPruneErrorLocals DEF PruneAnswerLost
  <2>3. Globals'
    BY <1>0, <1>4, RemoveGlobals DEF PruneAnswerLost
  <2> QED BY <2>1, <2>3 DEF Types, Locals, Globals
<1>5. ASSUME NEW w \in Workers, UncacheNext(w) PROVE Types'
  <2>1. PICK b \in Ids, to \in Places :
          /\ Uncache(b)
          /\ todo' = [todo EXCEPT ![w] = @ \ {b}]
          /\ Goto(w, to)
    BY <1>0, <1>5, Busy, PlaceNames DEF UncacheNext, Places, Locals
  <2>2. Locals'
    BY <1>0, <1>5, <2>1 DEF UncacheNext, Locals, Goto
  <2>3. Globals'
    BY <1>0, <1>5, <2>1, UncacheGlobals DEF UncacheNext
  <2> QED BY <2>2, <2>3 DEF Types, Locals, Globals
<1>6. ASSUME NEW w \in Workers, Count(w) PROVE Types'
  <2>1. Locals'
    <3>1. CASE Return(w, "limit")
      BY <1>0, <3>1, ReturnLocals DEF Answers
    <3>2. CASE /\ Goto(w, "insert")
               /\ seen' = [seen EXCEPT ![w] = now + BinTTL]
               /\ UNCHANGED <<task, todo, ans>>
      <4>1. now + BinTTL \in 0..MaxTime+BinTTL
        BY <1>0, Numbers DEF Globals
      <4> QED BY <1>0, <3>2, <4>1 DEF Locals, Goto, Places
    <3> QED BY <1>6, <3>1, <3>2 DEF Count
  <2> QED BY <1>0, <1>6, <2>1 DEF Count, rows, Types, Locals, Globals
<1>7. ASSUME NEW w \in Workers, Insert(w) PROVE Types'
  <2>1. Locals'
    BY <1>0, <1>7, ContinueLocals DEF Insert, Places
  <2>2. Globals'
    BY <1>0, <1>7, InsertGlobals DEF Insert, Globals
  <2> QED BY <2>1, <2>2 DEF Types, Locals, Globals
<1>8. ASSUME NEW w \in Workers, InsertAnswerLost(w) PROVE Types'
  <2>1. Locals'
    BY <1>0, <1>8, ReturnLocals DEF InsertAnswerLost, Answers
  <2>3. Globals'
    BY <1>8, InsertGlobals DEF InsertAnswerLost
  <2> QED BY <2>1, <2>3 DEF Types, Locals, Globals
<1>9. ASSUME NEW w \in Workers, CacheNew(w) PROVE Types'
  <2>1. Locals'
    BY <1>0, <1>9, ReturnLocals DEF CacheNew, Answers
  <2>2. task[w].bin \in Ids /\ now + BinTTL \in Nat
    BY <1>0, <1>9, Busy, Numbers DEF CacheNew, Globals
  <2>3. cache' \in [Ids -> Nat]
    BY <1>0, <1>9, <2>2 DEF CacheNew, Globals
  <2> QED BY <1>0, <1>9, <2>1, <2>3 DEF CacheNew, rows, Types, Locals, Globals
<1>10. ASSUME NEW w \in Workers, ListRows(w) PROVE Types'
  <2>1. Locals'
    BY <1>0, <1>10, ReturnLocals DEF ListRows, Answers
  <2> QED BY <1>0, <1>10, <2>1 DEF ListRows, rows, Types, Locals, Globals
<1>11. ASSUME NEW w \in Workers, Owned(w) PROVE Types'
  <2>1. Locals'
    BY <1>0, <1>11, ReturnLocals, ContinueLocals DEF Owned, Answers, Places
  <2> QED BY <1>0, <1>11, <2>1 DEF Owned, rows, Types, Locals, Globals
<1>12. ASSUME NEW w \in Workers, DropExpired(w) PROVE Types'
  <2>1. Locals'
    BY <1>0, <1>12, ReturnLocals, ContinueLocals DEF DropExpired, Answers, Places
  <2>2. Globals'
    BY <1>0, <1>12, RemoveGlobals DEF DropExpired, Globals, rows
  <2> QED BY <2>1, <2>2 DEF Types, Locals, Globals
<1>13. ASSUME NEW w \in Workers, Delete(w) PROVE Types'
  <2>1. Locals'
    BY <1>0, <1>13, ContinueLocals DEF Delete, Places
  <2>2. Globals'
    BY <1>0, <1>13, RemoveGlobals DEF Delete, Globals
  <2> QED BY <2>1, <2>2 DEF Types, Locals, Globals
<1>14. ASSUME NEW w \in Workers, DeleteAnswerLost(w) PROVE Types'
  <2>1. Locals'
    BY <1>0, <1>14, ReturnLocals DEF DeleteAnswerLost, Answers
  <2>3. Globals'
    BY <1>0, <1>14, RemoveGlobals DEF DeleteAnswerLost
  <2> QED BY <2>1, <2>3 DEF Types, Locals, Globals
<1>15. ASSUME NEW w \in Workers, UncacheOne(w) PROVE Types'
  <2>1. Locals'
    BY <1>0, <1>15, ReturnLocals DEF UncacheOne, Answers
  <2>2. Globals'
    BY <1>0, <1>15, Busy, UncacheGlobals DEF UncacheOne
  <2> QED BY <2>1, <2>2 DEF Types, Locals, Globals
<1>16. ASSUME NEW w \in Workers, Probe(w) PROVE Types'
  <2>1. Locals'
    BY <1>0, <1>16, ReturnLocals, ContinueLocals DEF Probe, Answers, Places
  <2> QED BY <1>0, <1>16, <2>1 DEF Probe, rows, Types, Locals, Globals
<1>17. ASSUME NEW w \in Workers, Select(w) PROVE Types'
  <2> DEFINE b == task[w].bin
  <2>0. b \in Ids
    BY <1>17, Busy DEF Select
  <2>1. Locals'
    <3>1. CASE \/ Return(w, "no") \/ Return(w, "ok")
               \/ Continue(w, "uncacheOne") \/ Continue(w, "dropExpired")
      BY <1>0, <3>1, ReturnLocals, ContinueLocals DEF Answers, Places
    <3>2. CASE /\ ~Expired(b)
               /\ Goto(w, "fill")
               /\ seen' = [seen EXCEPT ![w] = exp[b] - now]
               /\ UNCHANGED <<task, todo, ans>>
      <4>1. exp[b] - now \in 0..MaxTime+BinTTL
        BY <1>0, <2>0, <3>2, Numbers DEF Globals, Expired
      <4> QED BY <1>0, <3>2, <4>1 DEF Locals, Goto, Places
    <3> QED BY <1>17, <3>1, <3>2 DEF Select, Left
  <2> QED BY <1>0, <1>17, <2>1 DEF Select, rows, Types, Locals, Globals
<1>18. ASSUME NEW w \in Workers, Fill(w) PROVE Types'
  <2>1. Locals'
    BY <1>0, <1>18, ReturnLocals DEF Fill, Answers
  <2>2. task[w].bin \in Ids /\ now + seen[w] \in Nat
    BY <1>0, <1>18, Busy, Numbers DEF Fill, Globals, Locals
  <2>3. cache' \in [Ids -> Nat]
    BY <1>0, <1>18, <2>2 DEF Fill, Globals
  <2> QED BY <1>0, <1>18, <2>1, <2>3 DEF Fill, rows, Types, Locals, Globals
<1>19. ASSUME NEW w \in Workers, Abandon(w) PROVE Types'
  <2>1. Locals'
    BY <1>0, <1>19, ReturnLocals, GivenUpAnswers DEF Abandon
  <2> QED BY <1>0, <1>19, <2>1 DEF Abandon, rows, Types, Locals, Globals
<1>20. ASSUME Tick PROVE Types'
  BY <1>20, Numbers DEF Tick, rows, local, Types
<1>21. ASSUME ValkeyRestart PROVE Types'
  BY <1>21 DEF ValkeyRestart, rows, local, Types
<1>22. ASSUME UNCHANGED vars PROVE Types'
  BY <1>22 DEF vars, Types
<1> QED
  BY <1>1, <1>2, <1>3, <1>4, <1>5, <1>6, <1>7, <1>8, <1>9, <1>10, <1>11,
     <1>12, <1>13, <1>14, <1>15, <1>16, <1>17, <1>18, <1>19, <1>20, <1>21,
     <1>22
     DEF Next, Command

-----------------------------------------------------------------------------
\* What every step leaves standing: ids stay created, a row keeps its expiry,
\* a row that is removed does not come back, and a row that appears expires
\* no earlier than now.
Frame ==
  /\ created \subseteq created' /\ now <= now'
  /\ \A b \in created : exp'[b] = exp[b] /\ owner'[b] \in {owner[b], Nobody}
  /\ \A b \in Ids : owner'[b] # Nobody =>
       \/ owner'[b] = owner[b] /\ exp'[b] = exp[b]
       \/ exp'[b] >= now

LEMMA RemoveFrame ==
  ASSUME Types, NEW B, RemoveRows(B), now' = now
  PROVE  Frame
BY DEF Types, RemoveRows, Frame

LEMMA SameFrame ==
  ASSUME Types, UNCHANGED rows, now <= now'
  PROVE  Frame
BY DEF Types, rows, Frame

LEMMA InsertFrame ==
  ASSUME Types, Control, NEW w \in Workers, At(w, "insert"), InsertRow(w),
         now' = now
  PROVE  Frame
<1>1. task[w].bin \in Ids \ created /\ seen[w] >= now
  <2>1. Settled(w) /\ task[w].bin \in Ids /\ task[w].begun \in Int
    BY Busy DEF At, Control
  <2> QED BY <2>1, Numbers DEF Settled, At, InTime, Types
<1>2. \A b \in Ids : b # task[w].bin => owner'[b] = owner[b] /\ exp'[b] = exp[b]
  BY <1>1 DEF InsertRow, Types
<1>3. exp'[task[w].bin] = seen[w]
  BY <1>1 DEF InsertRow, Types
<1> QED BY <1>1, <1>2, <1>3 DEF InsertRow, Types, Frame

LEMMA FrameStep == Types /\ Control /\ [Next]_vars => Frame
<1> SUFFICES ASSUME Types, Control, [Next]_vars PROVE Frame
  OBVIOUS
<1>0. now \in Int
  BY DEF Types
<1>1. ASSUME UNCHANGED rows, now' = now PROVE Frame
  BY <1>0, <1>1, SameFrame
<1>2. ASSUME NEW w \in Workers, Command(w) PROVE Frame
  <2>1. ASSUME Prune(w) PROVE Frame
    BY <2>1, RemoveFrame DEF Prune
  <2>2. ASSUME PruneAnswerLost(w) PROVE Frame
    BY <2>2, RemoveFrame DEF PruneAnswerLost
  <2>3. ASSUME Insert(w) \/ InsertAnswerLost(w) PROVE Frame
    BY <2>3, InsertFrame DEF Insert, InsertAnswerLost
  <2>4. ASSUME DropExpired(w) PROVE Frame
    BY <1>1, <2>4, RemoveFrame DEF DropExpired
  <2>5. ASSUME Delete(w) \/ DeleteAnswerLost(w) PROVE Frame
    BY <2>5, RemoveFrame DEF Delete, DeleteAnswerLost
  <2>6. ASSUME \/ PruneFails(w) \/ UncacheNext(w) \/ Count(w) \/ CacheNew(w)
               \/ ListRows(w) \/ Owned(w) \/ UncacheOne(w) \/ Probe(w)
               \/ Select(w) \/ Fill(w) \/ Abandon(w)
        PROVE  Frame
    <3>1. UNCHANGED rows /\ now' = now
      BY <2>6 DEF PruneFails, UncacheNext, Count, CacheNew, ListRows, Owned,
                  UncacheOne, Probe, Select, Fill, Abandon
    <3> QED BY <1>1, <3>1
  <2> QED BY <1>2, <2>1, <2>2, <2>3, <2>4, <2>5, <2>6 DEF Command
<1>3. ASSUME NEW w \in Workers, NEW op \in Ops, NEW u \in Users \union {Nobody},
             NEW b \in Ids, Start(w, op, u, b)
      PROVE  Frame
  BY <1>1, <1>3 DEF Start
<1>4. ASSUME Tick PROVE Frame
  BY <1>0, <1>4, SameFrame DEF Tick
<1>5. ASSUME ValkeyRestart PROVE Frame
  BY <1>1, <1>5 DEF ValkeyRestart
<1>6. ASSUME UNCHANGED vars PROVE Frame
  BY <1>1, <1>6 DEF vars, rows
<1> QED BY <1>2, <1>3, <1>4, <1>5, <1>6 DEF Next

-----------------------------------------------------------------------------
\* A worker that does not move stays settled, unless another call inserts the
\* row it was going to insert.
LEMMA StaySettled ==
  ASSUME Types, Types', Control, Frame, NEW x \in Workers,
         pc'[x] = pc[x], task'[x] = task[x], seen'[x] = seen[x],
         pc[x] # "idle" /\ task[x].op = "create" =>
           task[x].bin \in created \/ task[x].bin \notin created'
  PROVE  Settled(x)'
<1>1. CASE pc[x] = "idle"
  BY <1>1 DEF Control, Settled
<1>2. CASE pc[x] # "idle"
  <2> DEFINE b == task[x].bin
  <2>1. /\ b \in Ids /\ task[x].begun \in Int /\ task[x].user \in Users \union {Nobody}
        /\ task[x].op \in Ops
    BY <1>2, Busy
  <2>2. Settled(x)
    BY DEF Control
  <2>3. now \in Int /\ now' \in Int /\ now <= now'
    BY DEF Types, Frame
  <2>4. b \in created => /\ b \in created' /\ exp'[b] = exp[b]
                         /\ owner'[b] \in {owner[b], Nobody}
    BY DEF Frame
  <2>5. task[x].begun <= now'
    BY <1>2, <2>1, <2>2, <2>3 DEF Settled
  <2>6. pc[x] \in {"uncache", "count"}
          => \A c \in Ids : owner'[c] # Nobody => exp'[c] >= task[x].begun
    <3> SUFFICES ASSUME pc[x] \in {"uncache", "count"}, NEW c \in Ids,
                        owner'[c] # Nobody
                 PROVE  exp'[c] >= task[x].begun
      OBVIOUS
    <3>1. exp'[c] \in Int
      BY DEF Types
    <3>2. CASE owner'[c] = owner[c] /\ exp'[c] = exp[c]
      BY <2>2, <3>2 DEF Settled
    <3>3. CASE exp'[c] >= now
      BY <1>2, <2>1, <2>2, <2>3, <3>1, <3>3 DEF Settled
    <3> QED BY <3>2, <3>3 DEF Frame
  <2>7. b \in created /\ Expired(b) => Expired(b)'
    <3>1. exp[b] \in Int
      BY <2>1 DEF Types
    <3> QED BY <2>3, <2>4, <3>1 DEF Expired
  <2>8. b \notin created /\ task[x].op = "create" => b \notin created'
    BY <1>2
  <2> QED
    BY <1>2, <2>2, <2>4, <2>5, <2>6, <2>7, <2>8 DEF Settled
<1> QED BY <1>1, <1>2

\* A worker whose call returns is settled.
LEMMA ReturnSettled ==
  ASSUME Types, NEW w \in Workers, NEW a, Return(w, a)
  PROVE  Settled(w)'
<1>1. pc'[w] = "idle" /\ task'[w] = NoTask
  BY DEF Types, Return, Goto
<1> QED BY <1>1 DEF Settled

\* Where a worker goes, and the rest of what it knows.
LEMMA Went ==
  ASSUME Types, NEW w \in Workers, NEW to, Goto(w, to)
  PROVE  pc'[w] = to /\ \A x \in Workers \ {w} : pc'[x] = pc[x]
BY DEF Types, Goto

\* The workers other than w do not move.
Others(w) == \A x \in Workers \ {w} :
               pc'[x] = pc[x] /\ task'[x] = task[x] /\ seen'[x] = seen[x]

LEMMA OthersSettled ==
  ASSUME Types, Types', Control, Distinct, Frame, NEW w \in Workers, Others(w),
         \/ created' = created
         \/ /\ pc[w] # "idle" /\ task[w].op = "create"
            /\ created' = created \union {task[w].bin},
         Settled(w)'
  PROVE  Control'
<1> SUFFICES ASSUME NEW x \in Workers, x # w PROVE Settled(x)'
  BY DEF Control
<1>1. pc[x] # "idle" /\ task[x].op = "create" =>
           task[x].bin \in created \/ task[x].bin \notin created'
  BY DEF Distinct
<1>2. pc'[x] = pc[x] /\ task'[x] = task[x] /\ seen'[x] = seen[x]
  BY DEF Others
<1> QED BY <1>1, <1>2, StaySettled

LEMMA ReturnOthers ==
  ASSUME Types, NEW w \in Workers, NEW a, Return(w, a)
  PROVE  Others(w)
BY DEF Types, Return, Goto, Others

LEMMA ContinueOthers ==
  ASSUME Types, NEW w \in Workers, NEW to, Continue(w, to)
  PROVE  Others(w) /\ pc'[w] = to /\ task' = task /\ seen' = seen
BY DEF Types, Continue, Goto, local, Others

LEMMA GotoOthers ==
  ASSUME Types, NEW w \in Workers, NEW to, Goto(w, to), UNCHANGED <<task, seen>>
  PROVE  Others(w) /\ pc'[w] = to
BY DEF Types, Goto, Others

LEMMA ReturnControl ==
  ASSUME Types, Types', Control, Distinct, Frame, NEW w \in Workers, NEW a,
         Return(w, a),
         \/ created' = created
         \/ /\ pc[w] # "idle" /\ task[w].op = "create"
            /\ created' = created \union {task[w].bin}
  PROVE  Control'
BY ReturnSettled, ReturnOthers, OthersSettled

\* After pruning, whatever the call.
LEMMA AfterPruneSettled ==
  ASSUME Types, Types', Control, Distinct, Frame, NEW w \in Workers,
         pc[w] \in {"prune", "uncache"}, created' = created, now' = now,
         Goto(w, AfterPrune(task[w].op)), UNCHANGED <<task, seen>>,
         \A b \in Ids : owner'[b] # Nobody => exp'[b] >= task[w].begun
  PROVE  Settled(w)'
<1>1. task[w] \in Task /\ task[w].op \in Ops /\ Settled(w)
  BY Busy DEF Control
<1>2. pc'[w] = AfterPrune(task[w].op) /\ task'[w] = task[w]
  BY GotoOthers
<1>3. /\ AfterPrune(task[w].op) \in {"count", "list", "owned", "select"}
      /\ AfterPrune(task[w].op) = "count" <=> task[w].op = "create"
      /\ AfterPrune(task[w].op) = "owned" => task[w].op \notin Public
  BY <1>1 DEF AfterPrune, Ops, Public
<1>4. task'[w] # NoTask
  BY <1>1, <1>2, Names
<1> QED BY <1>1, <1>2, <1>3, <1>4 DEF Settled

LEMMA AfterPruneErrorControl ==
  ASSUME Types, Types', Control, Distinct, Frame, NEW w \in Workers,
         pc[w] = "prune", created' = created, now' = now, AfterPruneError(w)
  PROVE  Control'
<1>1. CASE task[w].op = "create"
  BY <1>1, ReturnControl DEF AfterPruneError
<1>2. CASE task[w].op # "create"
  <2>1. Continue(w, AfterPrune(task[w].op))
    BY <1>2 DEF AfterPruneError
  <2>2. /\ Others(w) /\ pc'[w] = AfterPrune(task[w].op)
        /\ task' = task /\ seen' = seen
    BY <2>1, ContinueOthers
  <2>3. task[w] \in Task /\ task[w].op \in Ops /\ Settled(w)
    BY Busy DEF Control
  <2>4. /\ AfterPrune(task[w].op) \in {"list", "owned", "select"}
        /\ AfterPrune(task[w].op) = "owned" => task[w].op \notin Public
    BY <1>2, <2>3 DEF AfterPrune, Ops, Public
  <2>5. Settled(w)'
    BY <1>2, <2>2, <2>3, <2>4, Names DEF Settled
  <2> QED BY <2>2, <2>5, OthersSettled
<1> QED BY <1>1, <1>2

LEMMA ControlStep ==
  Types /\ Control /\ Kept /\ Distinct /\ [Next]_vars => Control'
<1> SUFFICES ASSUME Types, Control, Kept, Distinct, [Next]_vars PROVE Control'
  OBVIOUS
<1>0. Types' /\ Frame
  BY TypesStep, FrameStep
<1>00. now \in 0..MaxTime
  BY DEF Types
<1> USE DEF At
<1>1. ASSUME NEW w \in Workers, NEW op \in Ops, NEW u \in Users \union {Nobody},
             NEW b \in Ids, Start(w, op, u, b)
      PROVE  Control'
  <2>1. Others(w) /\ pc'[w] = First(op) /\ created' = created /\ now' = now
    BY <1>1 DEF Start, Types, Goto, Others, rows
  <2>2. task'[w] = [op |-> op, user |-> u, bin |-> b, begun |-> now]
    BY <1>1 DEF Start, Types
  <2>3. /\ op = "create" => b \notin created
        /\ op \notin {"create", "exists"} => b \in created
    BY <1>1 DEF Start, Fresh
  <2>4. /\ First(op) \in {"owned", "probe", "prune"}
        /\ First(op) = "probe" => op = "exists"
    BY DEF First, Ops
  <2>5. task'[w] # NoTask
    BY <1>00, <2>2, Names DEF Task
  <2>6. now' \in Int
    BY <1>0 DEF Types
  <2>7. Settled(w)'
    BY <1>1, <2>1, <2>2, <2>3, <2>4, <2>5, <2>6 DEF Settled, Start, First, Public
  <2> QED BY <1>0, <2>1, <2>7, OthersSettled
<1>2. ASSUME NEW w \in Workers, Prune(w) PROVE Control'
  <2> DEFINE gone == {b \in Ids : owner[b] # Nobody /\ Expired(b)}
  <2>1. /\ created' = created /\ now' = now /\ UNCHANGED <<task, seen>>
        /\ task[w] \in Task /\ task[w].begun \in Int /\ Settled(w)
    BY <1>2, Busy DEF Prune, RemoveRows, Control
  <2>2. \A b \in Ids : owner'[b] # Nobody => exp'[b] >= task[w].begun
    <3> SUFFICES ASSUME NEW b \in Ids, owner'[b] # Nobody
                 PROVE  exp'[b] >= task[w].begun
      OBVIOUS
    <3>1. exp'[b] = exp[b] /\ ~Expired(b)
      BY <1>2 DEF Prune, RemoveRows
    <3> QED BY <1>2, <2>1, <3>1 DEF Expired, Types, Settled, Prune
  <2>3. CASE gone = {}
    <3>1. Goto(w, AfterPrune(task[w].op))
      BY <1>2, <2>3 DEF Prune
    <3>2. Settled(w)' /\ Others(w)
      BY <1>0, <1>2, <2>1, <2>2, <3>1, AfterPruneSettled, GotoOthers DEF Prune
    <3> QED BY <1>0, <2>1, <3>2, OthersSettled
  <2>4. CASE gone # {}
    <3>1. Goto(w, "uncache")
      BY <1>2, <2>4 DEF Prune
    <3>2. Others(w) /\ pc'[w] = "uncache"
      BY <2>1, <3>1, GotoOthers
    <3>3. Settled(w)'
      BY <1>2, <2>1, <2>2, <3>2, Names DEF Prune, Settled
    <3> QED BY <1>0, <2>1, <3>2, <3>3, OthersSettled
  <2> QED BY <2>3, <2>4
<1>3. ASSUME NEW w \in Workers, PruneFails(w) \/ PruneAnswerLost(w)
      PROVE  Control'
  <2>1. pc[w] = "prune" /\ created' = created /\ now' = now /\ AfterPruneError(w)
    BY <1>3 DEF PruneFails, PruneAnswerLost, RemoveRows, rows
  <2> QED BY <1>0, <2>1, AfterPruneErrorControl
<1>4. ASSUME NEW w \in Workers, UncacheNext(w) PROVE Control'
  <2>1. /\ created' = created /\ now' = now /\ UNCHANGED <<task, seen, owner, exp>>
        /\ task[w] \in Task /\ Settled(w) /\ pc[w] = "uncache"
    BY <1>4, Busy DEF UncacheNext, rows, Control
  <2>2. \A b \in Ids : owner'[b] # Nobody => exp'[b] >= task[w].begun
    BY <2>1 DEF Settled
  <2>3. CASE Goto(w, AfterPrune(task[w].op))
    <3>1. Settled(w)' /\ Others(w)
      BY <1>0, <2>1, <2>2, <2>3, AfterPruneSettled, GotoOthers
    <3> QED BY <1>0, <2>1, <3>1, OthersSettled
  <2>4. CASE Goto(w, "uncache")
    <3>1. Others(w) /\ pc'[w] = "uncache"
      BY <2>1, <2>4, GotoOthers
    <3>2. Settled(w)'
      BY <2>1, <3>1 DEF Settled
    <3> QED BY <1>0, <2>1, <3>1, <3>2, OthersSettled
  <2> QED BY <1>4, <2>3, <2>4 DEF UncacheNext
<1>5. ASSUME NEW w \in Workers, Count(w) PROVE Control'
  <2>1. created' = created /\ now' = now /\ Settled(w) /\ pc[w] = "count"
    BY <1>5 DEF Count, rows, Control
  <2>2. CASE Return(w, "limit")
    BY <1>0, <2>1, <2>2, ReturnControl
  <2>3. CASE /\ Goto(w, "insert")
             /\ seen' = [seen EXCEPT ![w] = now + BinTTL]
             /\ UNCHANGED <<task, todo, ans>>
    <3>1. Others(w) /\ pc'[w] = "insert" /\ seen'[w] = now + BinTTL
      BY <2>3 DEF Goto, Others, Types
    <3>2. task[w] \in Task /\ task[w].begun \in Int
      BY <2>1, Busy
    <3>3. Settled(w)'
      BY <1>00, <2>1, <2>3, <3>1, <3>2, Numbers, Names DEF Settled
    <3> QED BY <1>0, <2>1, <3>1, <3>3, OthersSettled
  <2> QED BY <1>5, <2>2, <2>3 DEF Count
<1>6. ASSUME NEW w \in Workers, Insert(w) PROVE Control'
  <2>1. /\ pc[w] = "insert" /\ Settled(w) /\ task[w] \in Task /\ task[w].bin \in Ids
        /\ created' = created \union {task[w].bin} /\ now' = now
        /\ exp'[task[w].bin] = seen[w]
    BY <1>6, Busy DEF Insert, InsertRow, Control, Types
  <2>2. Others(w) /\ pc'[w] = "cacheNew" /\ task' = task /\ seen' = seen
    BY <1>6, ContinueOthers DEF Insert
  <2>3. Settled(w)'
    BY <2>1, <2>2, Names DEF Settled
  <2> QED BY <1>0, <2>1, <2>2, <2>3, OthersSettled DEF Settled
<1>7. ASSUME NEW w \in Workers, InsertAnswerLost(w) PROVE Control'
  <2>1. /\ pc[w] = "insert" /\ Settled(w)
        /\ created' = created \union {task[w].bin} /\ Return(w, "error")
    BY <1>7 DEF InsertAnswerLost, InsertRow, Control
  <2> QED BY <1>0, <2>1, ReturnControl DEF Settled
<1>8. ASSUME NEW w \in Workers, NEW a, Return(w, a), created' = created
      PROVE  Control'
  BY <1>0, <1>8, ReturnControl
<1>9. ASSUME NEW w \in Workers, CacheNew(w) \/ ListRows(w) \/ UncacheOne(w)
                                \/ DeleteAnswerLost(w) \/ Fill(w) \/ Abandon(w)
      PROVE  Control'
  <2>1. PICK a \in Answers : Return(w, a)
    BY <1>9, GivenUpAnswers
       DEF CacheNew, ListRows, UncacheOne, DeleteAnswerLost, Fill, Abandon, Answers
  <2>2. created' = created
    BY <1>9 DEF CacheNew, ListRows, UncacheOne, DeleteAnswerLost, Fill, Abandon,
                rows, RemoveRows
  <2> QED BY <1>8, <2>1, <2>2
<1>10. ASSUME NEW w \in Workers, NEW to, Continue(w, to), created' = created,
              pc[w] # "idle", now' = now,
              to \in {"uncacheOne", "uncacheDeleted"}
       PROVE  Control'
  <2>1. Others(w) /\ pc'[w] = to /\ task' = task /\ Settled(w) /\ task[w] \in Task
    BY <1>10, ContinueOthers, Busy DEF Control
  <2>2. Settled(w)'
    BY <1>10, <2>1, Names DEF Settled
  <2> QED BY <1>0, <1>10, <2>1, <2>2, OthersSettled
<1>11. ASSUME NEW w \in Workers, Owned(w) PROVE Control'
  <2>1. /\ pc[w] = "owned" /\ created' = created /\ owner' = owner /\ exp' = exp
        /\ now' = now /\ Settled(w) /\ task[w] \in Task /\ task[w].bin \in Ids
        /\ task[w].user \in Users
    BY <1>11, Busy, SignedIn DEF Owned, rows, Control
  <2>2. CASE \/ Return(w, "no") \/ Return(w, "ok")
    BY <1>8, <2>1, <2>2
  <2>3. CASE \/ Mine(w) /\ Expired(task[w].bin) /\ Continue(w, "dropExpired")
             \/ Mine(w) /\ Continue(w, "delete")
    <3>1. Others(w) /\ pc'[w] \in {"dropExpired", "delete"} /\ task' = task
          /\ (pc'[w] = "dropExpired" => Expired(task[w].bin))
      BY <2>3, ContinueOthers
    <3>2. task[w].bin \in created /\ owner[task[w].bin] = task[w].user
      <4>1. owner[task[w].bin] # Nobody
        BY <2>1, <2>3, Names DEF Mine
      <4> QED BY <2>1, <2>3, <4>1 DEF Mine, Kept
    <3>3. Settled(w)'
      BY <2>1, <3>1, <3>2, Names DEF Settled, Expired
    <3> QED BY <1>0, <2>1, <3>1, <3>3, OthersSettled
  <2> QED BY <1>11, <2>2, <2>3 DEF Owned
<1>12. ASSUME NEW w \in Workers, DropExpired(w) PROVE Control'
  <2>1. created' = created /\ now' = now /\ pc[w] # "idle"
    BY <1>12 DEF DropExpired, RemoveRows, rows
  <2> QED BY <1>8, <1>10, <1>12, <2>1 DEF DropExpired
<1>13. ASSUME NEW w \in Workers, Delete(w) PROVE Control'
  BY <1>10, <1>13 DEF Delete, RemoveRows
<1>14. ASSUME NEW w \in Workers, Probe(w) PROVE Control'
  <2>1. created' = created /\ now' = now /\ pc[w] = "probe"
        /\ Settled(w) /\ task[w] \in Task
    BY <1>14, Busy DEF Probe, rows, Control
  <2>2. CASE Return(w, "exists")
    BY <1>8, <2>1, <2>2
  <2>3. CASE Continue(w, "prune")
    <3>1. Others(w) /\ pc'[w] = "prune" /\ task' = task
      BY <2>3, ContinueOthers
    <3>2. task[w].op # "create"
      BY <2>1 DEF Settled
    <3>3. Settled(w)'
      BY <2>1, <3>1, <3>2, Names DEF Settled
    <3> QED BY <1>0, <2>1, <3>1, <3>3, OthersSettled
  <2> QED BY <1>14, <2>2, <2>3 DEF Probe
<1>15. ASSUME NEW w \in Workers, Select(w) PROVE Control'
  <2>1. /\ pc[w] = "select" /\ created' = created /\ owner' = owner /\ exp' = exp
        /\ now' = now /\ Settled(w) /\ task[w] \in Task /\ task[w].bin \in Ids
        /\ task[w].begun \in Int /\ exp[task[w].bin] \in Int
        /\ owner[task[w].bin] # Nobody => task[w].bin \in created
    BY <1>15, Busy DEF Select, rows, Control, Types, Kept
  <2>2. CASE \/ Return(w, "no") \/ Return(w, "ok")
    BY <1>8, <2>1, <2>2
  <2>3. CASE Continue(w, "uncacheOne")
    BY <1>10, <2>1, <2>3
  <2>4. ASSUME owner[task[w].bin] # Nobody,
               \/ Expired(task[w].bin) /\ Continue(w, "dropExpired")
               \/ /\ Goto(w, "fill")
                  /\ seen' = [seen EXCEPT ![w] = exp[task[w].bin] - now]
                  /\ UNCHANGED <<task, todo, ans>>
        PROVE  Control'
    <3>1. /\ Others(w) /\ pc'[w] \in {"dropExpired", "fill"} /\ task' = task
          /\ pc'[w] = "dropExpired" => Expired(task[w].bin)
          /\ pc'[w] = "fill" => seen'[w] = exp[task[w].bin] - now
      BY <2>4 DEF Others, Types, Goto, Continue, local
    <3>2. task[w].op # "create" /\ task[w].bin \in created
      BY <2>1, <2>4 DEF Settled
    <3>3. Settled(w)'
      BY <1>00, <2>1, <3>1, <3>2, Names DEF Settled, Expired
    <3> QED BY <1>0, <2>1, <3>1, <3>3, OthersSettled
  <2> QED BY <1>15, <2>2, <2>3, <2>4 DEF Select, Left
<1>16. ASSUME UNCHANGED <<pc, local, created>> PROVE Control'
  <2> SUFFICES ASSUME NEW x \in Workers PROVE Settled(x)'
    BY DEF Control
  <2> QED BY <1>0, <1>16, StaySettled DEF local
<1>17. ASSUME Tick \/ ValkeyRestart \/ UNCHANGED vars PROVE Control'
  BY <1>16, <1>17 DEF Tick, ValkeyRestart, vars, rows, local
<1> QED
  BY <1>1, <1>2, <1>3, <1>4, <1>5, <1>6, <1>7, <1>9, <1>11, <1>12, <1>13,
     <1>14, <1>15, <1>17
     DEF Next, Command

-----------------------------------------------------------------------------
\* Only a CacheNew or a Fill sets a key, and no key outlives its bin by more
\* than a timeout.
LEMMA SetKey ==
  ASSUME Types, Kept, Frame, NEW b \in Ids, NEW t \in Nat,
         b \in created, t <= exp[b] + Timeout, owner' = owner, exp' = exp,
         created' = created, cache' \in {cache, [cache EXCEPT ![b] = t]}
  PROVE  Kept'
BY Numbers DEF Types, Kept

LEMMA KeysGo ==
  ASSUME Types, Types', Kept, Frame,
         \A b \in Ids : cache'[b] \in {cache[b], 0},
         \A b \in Ids : owner'[b] # Nobody => b \in created'
  PROVE  Kept'
<1> SUFFICES ASSUME NEW b \in Ids, cache'[b] > 0
             PROVE  b \in created' /\ cache'[b] <= exp'[b] + Timeout
  BY DEF Kept
<1>1. cache'[b] = cache[b] /\ cache[b] > 0
  OBVIOUS
<1>2. b \in created /\ cache[b] <= exp[b] + Timeout
  BY <1>1 DEF Kept
<1> QED BY <1>1, <1>2 DEF Frame

LEMMA KeptStep ==
  Types /\ Control /\ Kept /\ Distinct /\ [Next]_vars => Kept'
<1> SUFFICES ASSUME Types, Control, Kept, Distinct, [Next]_vars PROVE Kept'
  OBVIOUS
<1>0. Types' /\ Frame
  BY TypesStep, FrameStep
<1> USE DEF At
<1>1. ASSUME NEW w \in Workers, CacheNew(w) PROVE Kept'
  <2>1. /\ task[w].bin \in Ids /\ task[w].begun \in Int /\ Settled(w)
        /\ pc[w] = "cacheNew"
    BY <1>1, Busy DEF CacheNew, Control
  <2>2. /\ task[w].bin \in created /\ exp[task[w].bin] \in Int /\ now \in Nat
        /\ now + BinTTL \in Nat
        /\ now + BinTTL <= exp[task[w].bin] + Timeout
    BY <1>1, <2>1, Numbers DEF CacheNew, Settled, InTime, Types
  <2> QED BY <1>0, <1>1, <2>1, <2>2, SetKey DEF CacheNew, rows
<1>2. ASSUME NEW w \in Workers, Fill(w) PROVE Kept'
  <2>1. /\ task[w].bin \in Ids /\ task[w].begun \in Int /\ Settled(w)
        /\ pc[w] = "fill"
    BY <1>2, Busy DEF Fill, Control
  <2>2. /\ task[w].bin \in created /\ exp[task[w].bin] \in Int /\ now \in Nat
        /\ now + seen[w] \in Nat
        /\ now + seen[w] <= exp[task[w].bin] + Timeout
    BY <1>2, <2>1, Numbers DEF Fill, Settled, InTime, Types
  <2> QED BY <1>0, <1>2, <2>1, <2>2, SetKey DEF Fill, rows
<1>3. ASSUME UNCHANGED <<owner, created>>,
             \A b \in Ids : cache'[b] \in {cache[b], 0}
      PROVE  Kept'
  BY <1>0, <1>3, KeysGo DEF Kept
<1>4. ASSUME NEW w \in Workers, Insert(w) \/ InsertAnswerLost(w) PROVE Kept'
  <2>1. cache' = cache /\ InsertRow(w)
    BY <1>4 DEF Insert, InsertAnswerLost
  <2>2. \A b \in Ids : owner'[b] # Nobody => b \in created'
    BY <2>1 DEF InsertRow, Types, Kept
  <2> QED BY <1>0, <2>1, <2>2, KeysGo
<1>5. ASSUME NEW B, RemoveRows(B), cache' = cache PROVE Kept'
  <2>1. \A b \in Ids : owner'[b] # Nobody => b \in created'
    BY <1>5 DEF RemoveRows, Types, Kept
  <2> QED BY <1>0, <1>5, <2>1, KeysGo
<1>6. ASSUME NEW w \in Workers,
             \/ Prune(w) \/ PruneAnswerLost(w) \/ DropExpired(w) \/ Delete(w)
             \/ DeleteAnswerLost(w)
      PROVE  Kept'
  BY <1>3, <1>5, <1>6 DEF Prune, PruneAnswerLost, DropExpired, Delete,
                          DeleteAnswerLost, rows
<1>7. ASSUME NEW b \in Ids, Uncache(b), UNCHANGED rows PROVE Kept'
  <2>1. \A c \in Ids : cache'[c] \in {cache[c], 0}
    BY <1>7 DEF Uncache, Types
  <2> QED BY <1>3, <1>7, <2>1 DEF rows
<1>8. ASSUME NEW w \in Workers, UncacheNext(w) \/ UncacheOne(w) PROVE Kept'
  <2>1. task[w].bin \in Ids /\ todo[w] \subseteq Ids
    BY <1>8, Busy DEF UncacheNext, UncacheOne, Types
  <2> QED BY <1>7, <1>8, <2>1 DEF UncacheNext, UncacheOne
<1>9. ASSUME UNCHANGED <<owner, created, cache>> PROVE Kept'
  BY <1>3, <1>9
<1>10. ASSUME NEW w \in Workers,
              \/ PruneFails(w) \/ Count(w) \/ ListRows(w) \/ Owned(w)
              \/ Probe(w) \/ Select(w) \/ Abandon(w)
       PROVE  Kept'
  BY <1>9, <1>10 DEF PruneFails, Count, ListRows, Owned, Probe, Select, Abandon,
                     rows
<1>11. ASSUME NEW w \in Workers, NEW op \in Ops, NEW u \in Users \union {Nobody}, NEW b \in Ids,
              Start(w, op, u, b)
       PROVE  Kept'
  BY <1>9, <1>11 DEF Start, rows
<1>12. ASSUME Tick \/ ValkeyRestart PROVE Kept'
  <2>1. \A c \in Ids : cache'[c] \in {cache[c], 0}
    BY <1>12 DEF Tick, ValkeyRestart
  <2> QED BY <1>3, <1>12, <2>1 DEF Tick, ValkeyRestart, rows
<1>13. ASSUME UNCHANGED vars PROVE Kept'
  BY <1>9, <1>13 DEF vars
<1> QED
  BY <1>1, <1>2, <1>4, <1>6, <1>8, <1>10, <1>11, <1>12, <1>13
     DEF Next, Command

-----------------------------------------------------------------------------
\* A step either starts one call with a fresh id, or leaves every call what it
\* is or ends it.
LEMMA DistinctStep ==
  Types /\ Control /\ Distinct /\ [Next]_vars => Distinct'
<1> SUFFICES ASSUME Types, Control, Distinct, [Next]_vars PROVE Distinct'
  OBVIOUS
<1>1. ASSUME NEW w \in Workers, NEW op \in Ops, NEW u \in Users \union {Nobody},
             NEW b \in Ids, Start(w, op, u, b)
      PROVE  Distinct'
  <2>1. /\ task'[w] = [op |-> op, user |-> u, bin |-> b, begun |-> now]
        /\ \A x \in Workers \ {w} : pc'[x] = pc[x] /\ task'[x] = task[x]
        /\ op = "create" => Fresh(b)
    BY <1>1 DEF Start, Types, Goto
  <2>2. op = "create" =>
          \A x \in Workers : ~(pc[x] # "idle" /\ task[x].op = "create"
                               /\ task[x].bin = b)
    BY <2>1 DEF Fresh
  <2> QED BY <2>1, <2>2 DEF Distinct
<1>2. ASSUME \A x \in Workers : \/ pc'[x] = "idle"
                                \/ pc[x] # "idle" /\ task'[x] = task[x]
      PROVE  Distinct'
  BY <1>2 DEF Distinct
<1>3. ASSUME NEW w \in Workers, pc[w] # "idle",
             Others(w), pc'[w] = "idle" \/ task'[w] = task[w]
      PROVE  Distinct'
  BY <1>3 DEF Distinct, Others
<1>4. ASSUME NEW w \in Workers, NEW a, pc[w] # "idle", Return(w, a)
      PROVE  Distinct'
  <2>1. Others(w) /\ pc'[w] = "idle"
    BY <1>4, ReturnOthers DEF Return, Goto, Types
  <2> QED BY <1>3, <1>4, <2>1
<1>5. ASSUME NEW w \in Workers, NEW to, pc[w] # "idle", Goto(w, to), task' = task
      PROVE  Distinct'
  BY <1>5 DEF Goto, Types, Distinct
<1>6. ASSUME NEW w \in Workers, NEW to, pc[w] # "idle", Continue(w, to)
      PROVE  Distinct'
  BY <1>5, <1>6 DEF Continue, local
<1>7. ASSUME NEW w \in Workers, Command(w) PROVE Distinct'
  <2>1. pc[w] # "idle"
    BY <1>7 DEF Command, At, Prune, PruneFails, PruneAnswerLost, UncacheNext,
       Count, Insert, InsertAnswerLost, CacheNew, ListRows, Owned, DropExpired,
       Delete, DeleteAnswerLost, UncacheOne, Probe, Select, Fill, Abandon
  <2>2. CASE Prune(w) \/ UncacheNext(w)
    BY <1>5, <2>1, <2>2 DEF Prune, UncacheNext
  <2>3. CASE PruneFails(w) \/ PruneAnswerLost(w)
    BY <1>4, <1>6, <2>1, <2>3 DEF PruneFails, PruneAnswerLost, AfterPruneError
  <2>4. CASE Count(w) \/ Select(w)
    BY <1>4, <1>5, <1>6, <2>1, <2>4 DEF Count, Select
  <2>5. CASE Insert(w) \/ Delete(w) \/ Owned(w) \/ DropExpired(w) \/ Probe(w)
    BY <1>4, <1>6, <2>1, <2>5 DEF Insert, Delete, Owned, DropExpired, Probe
  <2>6. CASE \/ InsertAnswerLost(w) \/ CacheNew(w) \/ ListRows(w)
             \/ DeleteAnswerLost(w) \/ UncacheOne(w) \/ Fill(w) \/ Abandon(w)
    BY <1>4, <2>1, <2>6 DEF InsertAnswerLost, CacheNew, ListRows,
       DeleteAnswerLost, UncacheOne, Fill, Abandon
  <2> QED BY <1>7, <2>2, <2>3, <2>4, <2>5, <2>6 DEF Command
<1>8. ASSUME Tick \/ ValkeyRestart \/ UNCHANGED vars PROVE Distinct'
  BY <1>8 DEF Tick, ValkeyRestart, vars, local, Distinct
<1> QED BY <1>1, <1>7, <1>8 DEF Next

-----------------------------------------------------------------------------
\* Calls of Create by user u that have passed the count and not yet inserted.
Pending(u) == {w \in Workers : pc[w] = "insert" /\ task[w].user = u}

\* The rows of a user and the rows about to be inserted stay under the limit
\* plus the other workers: the rows alone would not be inductive.
Room == \A u \in Users :
          Cardinality(BinsOf(u)) + Cardinality(Pending(u))
            <= MaxBins + Cardinality(Workers) - 1

LEMMA Sizes ==
  \A u \in Users :
    /\ IsFiniteSet(BinsOf(u)) /\ Cardinality(BinsOf(u)) \in Nat
    /\ IsFiniteSet(Pending(u)) /\ Cardinality(Pending(u)) \in Nat
    /\ Cardinality(Pending(u)) <= Cardinality(Workers)
    /\ Cardinality(Workers) \in Nat
<1> SUFFICES ASSUME NEW u \in Users
             PROVE  /\ IsFiniteSet(BinsOf(u)) /\ Cardinality(BinsOf(u)) \in Nat
                    /\ IsFiniteSet(Pending(u)) /\ Cardinality(Pending(u)) \in Nat
                    /\ Cardinality(Pending(u)) <= Cardinality(Workers)
                    /\ Cardinality(Workers) \in Nat
  OBVIOUS
<1>1. BinsOf(u) \subseteq Ids /\ Pending(u) \subseteq Workers
  BY DEF BinsOf, Pending
<1> QED BY <1>1, NamesAssumption, FS_Subset, FS_CardinalityType

\* Rows go and calls end: there is no less room.
LEMMA RoomKept ==
  ASSUME Room,
         \A u \in Users : BinsOf(u)' \subseteq BinsOf(u)
                          /\ Pending(u)' \subseteq Pending(u)
  PROVE  Room'
<1> SUFFICES ASSUME NEW u \in Users
             PROVE  Cardinality(BinsOf(u)') + Cardinality(Pending(u)')
                      <= MaxBins + Cardinality(Workers) - 1
  BY DEF Room
<1>1. /\ Cardinality(BinsOf(u)') <= Cardinality(BinsOf(u))
      /\ Cardinality(Pending(u)') <= Cardinality(Pending(u))
      /\ Cardinality(BinsOf(u)') \in Nat /\ Cardinality(Pending(u)') \in Nat
  BY Sizes, FS_Subset, FS_CardinalityType
<1> QED BY <1>1, Sizes, Numbers DEF Room

\* The count lets one call more go on to insert.
LEMMA RoomCount ==
  ASSUME Types, Room, NEW w \in Workers, owner' = owner, Goto(w, "insert"),
         task' = task, task[w].user \in Users,
         ~Full(Cardinality(BinsOf(task[w].user))), pc[w] # "insert"
  PROVE  Room'
<1> SUFFICES ASSUME NEW u \in Users
             PROVE  Cardinality(BinsOf(u)') + Cardinality(Pending(u)')
                      <= MaxBins + Cardinality(Workers) - 1
  BY DEF Room
<1>1. BinsOf(u)' = BinsOf(u)
  BY DEF BinsOf
<1>2. CASE u = task[w].user
  <2>1. Cardinality(BinsOf(u)) <= MaxBins - 1
    BY <1>2, Sizes, Numbers DEF Full
  <2>2. Pending(u)' \subseteq Workers
    BY DEF Pending
  <2>3. /\ Cardinality(Pending(u)') <= Cardinality(Workers)
        /\ Cardinality(Pending(u)') \in Nat
    BY <2>2, NamesAssumption, FS_Subset, FS_CardinalityType
  <2> QED BY <1>1, <2>1, <2>3, Sizes, Numbers
<1>3. CASE u # task[w].user
  <2>1. Pending(u)' = Pending(u)
    BY <1>3 DEF Pending, Goto, Types
  <2> QED BY <1>1, <2>1 DEF Room
<1> QED BY <1>2, <1>3

\* A pending call becomes a row.
LEMMA RoomInsert ==
  ASSUME Types, Control, Kept, Room, NEW w \in Workers, At(w, "insert"),
         InsertRow(w), pc'[w] # "insert", Others(w)
  PROVE  Room'
<1>0. /\ pc[w] = "insert" /\ task[w].bin \in Ids /\ task[w].user \in Users
      /\ task[w].bin \notin created
  BY Busy, SignedIn DEF At, Control, Settled
<1> SUFFICES ASSUME NEW u \in Users
             PROVE  Cardinality(BinsOf(u)') + Cardinality(Pending(u)')
                      <= MaxBins + Cardinality(Workers) - 1
  BY DEF Room
<1>1. CASE u = task[w].user
  <2>1. BinsOf(u)' = BinsOf(u) \union {task[w].bin} /\ task[w].bin \notin BinsOf(u)
    <3>1. owner[task[w].bin] = Nobody
      BY <1>0 DEF Kept
    <3> QED BY <1>0, <1>1, <3>1, Names DEF InsertRow, BinsOf, Types
  <2>2. Pending(u)' = Pending(u) \ {w} /\ w \in Pending(u)
    BY <1>0, <1>1 DEF Pending, Others
  <2>3. Cardinality(BinsOf(u)') = Cardinality(BinsOf(u)) + 1
    BY <2>1, Sizes, FS_AddElement
  <2>4. Cardinality(Pending(u)') = Cardinality(Pending(u)) - 1
    BY <2>2, Sizes, FS_RemoveElement
  <2> QED BY <2>3, <2>4, Sizes, Numbers DEF Room
<1>2. CASE u # task[w].user
  <2>1. BinsOf(u)' = BinsOf(u)
    <3>1. owner[task[w].bin] = Nobody
      BY <1>0 DEF Kept
    <3> QED BY <1>0, <1>2, <3>1, Names DEF InsertRow, BinsOf, Types
  <2>2. Pending(u)' = Pending(u)
    BY <1>0, <1>2 DEF Pending, Others
  <2> QED BY <2>1, <2>2 DEF Room
<1> QED BY <1>1, <1>2

LEMMA RoomStep ==
  Types /\ Control /\ Kept /\ Room /\ [Next]_vars => Room'
<1> SUFFICES ASSUME Types, Control, Kept, Room, [Next]_vars PROVE Room'
  OBVIOUS
<1> USE DEF At
<1>1. ASSUME \A b \in Ids : owner'[b] \in {owner[b], Nobody},
             \A x \in Workers : pc'[x] = "insert" =>
                                  pc[x] = "insert" /\ task'[x] = task[x]
      PROVE  Room'
  <2>1. \A u \in Users : BinsOf(u)' \subseteq BinsOf(u)
                         /\ Pending(u)' \subseteq Pending(u)
    BY <1>1, Names DEF BinsOf, Pending
  <2> QED BY <2>1, RoomKept
<1>2. ASSUME NEW w \in Workers, Count(w) PROVE Room'
  <2>1. owner' = owner /\ task[w].user \in Users /\ pc[w] = "count"
    BY <1>2, SignedIn DEF Count, rows, Control, Settled
  <2>2. CASE Return(w, "limit")
    BY <1>1, <2>1, <2>2 DEF Return, Goto, Types
  <2>3. CASE ~Full(Cardinality(BinsOf(task[w].user)))
    BY <1>2, <2>1, <2>3, RoomCount DEF Count
  <2> QED BY <1>2, <2>2, <2>3 DEF Count
<1>3. ASSUME NEW w \in Workers, Insert(w) PROVE Room'
  BY <1>3, RoomInsert, ContinueOthers DEF Insert
<1>4. ASSUME NEW w \in Workers, InsertAnswerLost(w) PROVE Room'
  <2>1. pc'[w] # "insert" /\ Others(w)
    BY <1>4, ReturnOthers DEF InsertAnswerLost, Return, Goto, Types
  <2> QED BY <1>4, <2>1, RoomInsert DEF InsertAnswerLost
<1>5. ASSUME NEW w \in Workers, NEW a, Return(w, a),
             \A b \in Ids : owner'[b] \in {owner[b], Nobody}
      PROVE  Room'
  <2>1. \A x \in Workers : pc'[x] = "insert" =>
                             pc[x] = "insert" /\ task'[x] = task[x]
    BY <1>5 DEF Return, Goto, Types
  <2> QED BY <1>1, <1>5, <2>1
<1>6. ASSUME NEW w \in Workers, NEW to \in Places \ {"insert"}, Goto(w, to),
             task' = task, \A b \in Ids : owner'[b] \in {owner[b], Nobody}
      PROVE  Room'
  <2>1. \A x \in Workers : pc'[x] = "insert" =>
                             pc[x] = "insert" /\ task'[x] = task[x]
    BY <1>6 DEF Goto, Types
  <2> QED BY <1>1, <1>6, <2>1
<1>7. ASSUME NEW w \in Workers, NEW to \in Places \ {"insert"}, Continue(w, to),
             \A b \in Ids : owner'[b] \in {owner[b], Nobody}
      PROVE  Room'
  BY <1>6, <1>7 DEF Continue, local
<1>8. ASSUME NEW B, RemoveRows(B) \/ UNCHANGED rows
      PROVE  \A b \in Ids : owner'[b] \in {owner[b], Nobody}
  BY <1>8 DEF RemoveRows, rows
<1>9. \A op \in Ops : AfterPrune(op) \in Places \ {"insert"}
                      /\ First(op) \in Places \ {"insert"}
  BY DEF AfterPrune, First, Places, Ops
<1>10. ASSUME NEW w \in Workers, Command(w) PROVE Room'
  <2>0. pc[w] # "idle" => task[w].op \in Ops
    BY Busy
  <2>1. CASE Prune(w)
    <3>1. PICK to \in Places \ {"insert"} : Goto(w, to)
      BY <1>9, <2>0, <2>1 DEF Prune, Places
    <3> QED BY <1>6, <1>8, <2>1, <3>1 DEF Prune
  <2>2. CASE UncacheNext(w)
    <3>1. PICK to \in Places \ {"insert"} : Goto(w, to)
      BY <1>9, <2>0, <2>2 DEF UncacheNext, Places
    <3> QED BY <1>6, <1>8, <2>2, <3>1 DEF UncacheNext
  <2>3. CASE PruneFails(w) \/ PruneAnswerLost(w)
    BY <1>5, <1>7, <1>8, <1>9, <2>0, <2>3
       DEF PruneFails, PruneAnswerLost, AfterPruneError
  <2>4. CASE Select(w)
    BY <1>5, <1>6, <1>7, <1>8, <2>4 DEF Select, Places
  <2>5. CASE Delete(w) \/ Owned(w) \/ DropExpired(w) \/ Probe(w)
    BY <1>5, <1>7, <1>8, <2>5 DEF Delete, Owned, DropExpired, Probe, Places
  <2>6. CASE \/ CacheNew(w) \/ ListRows(w) \/ DeleteAnswerLost(w)
             \/ UncacheOne(w) \/ Fill(w) \/ Abandon(w)
    BY <1>5, <1>8, <2>6 DEF CacheNew, ListRows, DeleteAnswerLost, UncacheOne,
       Fill, Abandon
  <2> QED BY <1>2, <1>3, <1>4, <1>10, <2>1, <2>2, <2>3, <2>4, <2>5, <2>6
          DEF Command
<1>11. ASSUME NEW w \in Workers, NEW op \in Ops, NEW u \in Users \union {Nobody}, NEW b \in Ids,
              Start(w, op, u, b)
       PROVE  Room'
  <2>1. \A x \in Workers : pc'[x] = "insert" =>
                             pc[x] = "insert" /\ task'[x] = task[x]
    BY <1>9, <1>11 DEF Start, Goto, Types
  <2> QED BY <1>1, <1>8, <1>11, <2>1 DEF Start
<1>12. ASSUME Tick \/ ValkeyRestart \/ UNCHANGED vars PROVE Room'
  BY <1>1, <1>8, <1>12 DEF Tick, ValkeyRestart, vars, local, rows
<1> QED BY <1>10, <1>11, <1>12 DEF Next

-----------------------------------------------------------------------------
\* The inductive invariant.
IInv == Types /\ Control /\ Kept /\ Distinct /\ Room

LEMMA Start0 == Init => IInv
<1> SUFFICES ASSUME Init PROVE IInv
  OBVIOUS
<1> USE Numbers, Names
<1>1. Types
  BY DEF Init, Types, Places, Answers
<1>2. Control /\ Kept /\ Distinct
  BY DEF Init, Control, Settled, Kept, Distinct
<1>3. Room
  <2> SUFFICES ASSUME NEW u \in Users
               PROVE  Cardinality(BinsOf(u)) + Cardinality(Pending(u))
                        <= MaxBins + Cardinality(Workers) - 1
    BY DEF Room
  <2>1. BinsOf(u) = {} /\ Pending(u) = {}
    BY DEF Init, BinsOf, Pending
  <2>2. Cardinality(BinsOf(u)) = 0 /\ Cardinality(Pending(u)) = 0
    BY <2>1, FS_EmptySet
  <2>3. Cardinality(Workers) # 0
    BY NamesAssumption, FS_EmptySet
  <2> QED BY <2>2, <2>3, Sizes
<1> QED BY <1>1, <1>2, <1>3 DEF IInv

LEMMA IInvStep == IInv /\ [Next]_vars => IInv'
BY TypesStep, ControlStep, KeptStep, DistinctStep, RoomStep DEF IInv

\* The invariant holds in every reachable state of the store.
THEOREM Invariant == Spec => []IInv
<1>1. Init => IInv
  BY Start0
<1>2. IInv /\ [Next]_vars => IInv'
  BY IInvStep
<1> QED BY <1>1, <1>2, PTL DEF Spec

\* Variables keep their types, ids are used once, and only calls of Create
\* that hold a fresh id insert.
THEOREM TypeCorrect == Spec => []TypeOK
<1>1. IInv => TypeOK
  BY DEF IInv, Types, Control, Settled, Kept, TypeOK
<1> QED BY <1>1, Invariant, PTL

\* However many calls of Create run at once, a user's bins exceed the limit by
\* fewer than there are calls: counting before inserting allows no more.
THEOREM OvershootBounded == Spec => []BinOvershootBounded
<1>1. IInv => BinOvershootBounded
  <2> SUFFICES ASSUME Room, NEW u \in Users
               PROVE  Cardinality(BinsOf(u)) <= MaxBins + Cardinality(Workers) - 1
    BY DEF IInv, BinOvershootBounded
  <2> QED BY Sizes, Numbers DEF Room
<1> QED BY <1>1, Invariant, PTL

\* A cached key ends at most one timeout after its bin, whatever happened
\* between computing its time to live and setting it.
THEOREM CacheEnds == Spec => []CacheEndsWithBin
<1>1. IInv => CacheEndsWithBin
  BY DEF IInv, Types, Kept, CacheEndsWithBin
<1> QED BY <1>1, Invariant, PTL

\* A bin that has not expired goes only by its owner's Delete.
LEMMA RemovalStep ==
  ASSUME Types, Control, Kept, [Next]_vars, NEW b \in Ids,
         owner[b] # Nobody, owner'[b] = Nobody, ~Expired(b)
  PROVE  \E w \in Workers : /\ pc[w] = "delete" /\ pc'[w] # "delete"
                           /\ task[w].bin = b /\ task[w].user = owner[b]
<1> USE DEF At
<1>1. PICK w \in Workers : Command(w)
  <2>1. ~ UNCHANGED owner
    OBVIOUS
  <2> QED BY <2>1 DEF Next, Start, Tick, ValkeyRestart, vars, rows
<1>2. ASSUME Prune(w) \/ PruneAnswerLost(w) PROVE FALSE
  BY <1>2 DEF Prune, PruneAnswerLost, RemoveRows
<1>3. ASSUME Insert(w) \/ InsertAnswerLost(w) PROVE FALSE
  <2>1. task[w].user \in Users /\ task[w].bin \in Ids
    BY <1>3, Busy, SignedIn DEF Insert, InsertAnswerLost, Control, Settled
  <2> QED BY <1>3, <2>1, Names DEF Insert, InsertAnswerLost, InsertRow, Types
<1>4. ASSUME DropExpired(w) PROVE FALSE
  <2>1. Settled(w) /\ pc[w] = "dropExpired"
    BY <1>4 DEF DropExpired, Control
  <2> QED BY <1>4, <2>1 DEF DropExpired, RemoveRows, rows, Settled
<1>5. CASE Delete(w) \/ DeleteAnswerLost(w)
  <2>1. /\ pc[w] = "delete" /\ pc'[w] # "delete" /\ task[w].bin = b
        /\ owner[b] \in {task[w].user, Nobody}
    BY <1>5 DEF Delete, DeleteAnswerLost, RemoveRows, Control, Settled, Types,
       Continue, Return, Goto
  <2> QED BY <2>1
<1>6. ASSUME \/ PruneFails(w) \/ UncacheNext(w) \/ Count(w) \/ CacheNew(w)
             \/ ListRows(w) \/ Owned(w) \/ UncacheOne(w) \/ Probe(w)
             \/ Select(w) \/ Fill(w) \/ Abandon(w)
      PROVE  FALSE
  <2>1. owner' = owner
    BY <1>6 DEF PruneFails, UncacheNext, Count, CacheNew, ListRows, Owned,
                UncacheOne, Probe, Select, Fill, Abandon, rows
  <2> QED BY <2>1
<1> QED BY <1>1, <1>2, <1>3, <1>4, <1>5, <1>6 DEF Command

\* A bin that has not expired is removed by nobody but the owner who deletes
\* it, whichever calls interleave.
THEOREM RemovedByOwner == Spec => OnlyOwnerRemovesLiveBin
<1> DEFINE Removal ==
      \A b \in Ids :
        owner[b] # Nobody /\ owner'[b] = Nobody /\ ~Expired(b)
          => \E w \in Workers : /\ pc[w] = "delete" /\ pc'[w] # "delete"
                               /\ task[w].bin = b /\ task[w].user = owner[b]
<1>1. IInv /\ [Next]_vars => [Removal]_vars
  BY RemovalStep DEF IInv
<1>2. Spec => [][Removal]_vars
  BY <1>1, Invariant, PTL DEF Spec
<1> QED BY <1>2 DEF OnlyOwnerRemovesLiveBin

\* Create refuses only when MaxBins bins were alive as it began.
LEMMA LimitStep ==
  ASSUME Types, Control, [Next]_vars, NEW w \in Workers,
         ans'[w] = "limit", ans[w] # "limit"
  PROVE  Cardinality({b \in BinsOf(task[w].user) : exp[b] >= task[w].begun})
           >= MaxBins
<1> USE DEF At
<1>1. ASSUME NEW x \in Workers, NEW a, Return(x, a), a # "limit" PROVE FALSE
  BY <1>1 DEF Return, Types
<1>2. ASSUME ans' = ans PROVE FALSE
  BY <1>2
<1>3. ASSUME NEW x \in Workers, NEW to, Continue(x, to) PROVE FALSE
  BY <1>2, <1>3 DEF Continue, local
<1>4. PICK x \in Workers : Command(x)
  <2>1. ASSUME NEW x \in Workers, NEW op \in Ops, NEW u \in Users \union {Nobody}, NEW b \in Ids,
               Start(x, op, u, b)
        PROVE  FALSE
    BY <2>1 DEF Start, Types
  <2> QED BY <1>2, <2>1 DEF Next, Tick, ValkeyRestart, vars, local
<1>5. Count(x)
  <2>1. ASSUME Prune(x) \/ UncacheNext(x) PROVE FALSE
    BY <1>2, <2>1 DEF Prune, UncacheNext
  <2>2. ASSUME PruneFails(x) \/ PruneAnswerLost(x) PROVE FALSE
    BY <1>1, <1>3, <2>2 DEF PruneFails, PruneAnswerLost, AfterPruneError
  <2>3. ASSUME Select(x) PROVE FALSE
    BY <1>1, <1>2, <1>3, <2>3 DEF Select
  <2>4. ASSUME Insert(x) \/ Delete(x) \/ Owned(x) \/ DropExpired(x) \/ Probe(x)
        PROVE  FALSE
    BY <1>1, <1>3, <2>4 DEF Insert, Delete, Owned, DropExpired, Probe
  <2>5. ASSUME \/ InsertAnswerLost(x) \/ CacheNew(x) \/ ListRows(x)
               \/ DeleteAnswerLost(x) \/ UncacheOne(x) \/ Fill(x) \/ Abandon(x)
        PROVE  FALSE
    BY <1>1, <2>5, GivenUpAnswers
       DEF InsertAnswerLost, CacheNew, ListRows, DeleteAnswerLost, UncacheOne,
           Fill, Abandon
  <2> QED BY <1>4, <2>1, <2>2, <2>3, <2>4, <2>5 DEF Command
<1>6. Return(x, "limit") /\ Full(Cardinality(BinsOf(task[x].user)))
  BY <1>2, <1>5 DEF Count
<1>7. x = w
  BY <1>6 DEF Return, Types
<1>8. /\ task[w].user \in Users /\ task[w].begun \in Int
      /\ \A b \in Ids : owner[b] # Nobody => exp[b] >= task[w].begun
  BY <1>5, <1>7, Busy, SignedIn DEF Count, Control, Settled
<1>9. {b \in BinsOf(task[w].user) : exp[b] >= task[w].begun} = BinsOf(task[w].user)
  BY <1>8, Names DEF BinsOf
<1> QED BY <1>6, <1>7, <1>9 DEF Full

\* Expired bins never count against a user who creates a bin.
THEOREM LimitIsReal == Spec => LimitOnlyWhenFull
<1> DEFINE Limited ==
      \A w \in Workers :
        ans'[w] = "limit" /\ ans[w] # "limit"
          => Cardinality({b \in BinsOf(task[w].user) : exp[b] >= task[w].begun})
               >= MaxBins
<1>1. IInv /\ [Next]_vars => [Limited]_vars
  BY LimitStep DEF IInv
<1>2. Spec => [][Limited]_vars
  BY <1>1, Invariant, PTL DEF Spec
<1> QED BY <1>2, PTL DEF LimitOnlyWhenFull
-----------------------------------------------------------------------------
\* A command moves its worker and no other, and only one command leads to the
\* INSERT, and one to the DELETE.
LEMMA CommandMoves ==
  ASSUME Types, Control, NEW w \in Workers, Command(w)
  PROVE  /\ Others(w) /\ now' = now
         /\ pc'[w] = "insert" => Count(w)
         /\ pc'[w] = "delete" => Owned(w)
<1> DEFINE Moved == /\ Others(w)
                    /\ pc'[w] = "insert" => Count(w)
                    /\ pc'[w] = "delete" => Owned(w)
<1>0. now' = now
  BY DEF Command, Prune, PruneFails, PruneAnswerLost, UncacheNext, Count,
     Insert, InsertAnswerLost, CacheNew, ListRows, Owned, DropExpired, Delete,
     DeleteAnswerLost, UncacheOne, Probe, Select, Fill, Abandon
<1> SUFFICES Moved
  BY <1>0
<1>1. ASSUME NEW a, Return(w, a) PROVE Moved
  BY <1>1, ReturnOthers DEF Return, Goto, Types
<1>2. ASSUME NEW to, to \notin {"insert", "delete"}, Continue(w, to) PROVE Moved
  BY <1>2, ContinueOthers
<1>3. ASSUME NEW to, to \notin {"insert", "delete"}, Goto(w, to), task' = task,
             \A x \in Workers \ {w} : seen'[x] = seen[x]
      PROVE  Moved
  BY <1>3, Went DEF Others
<1>4. AfterPrune(task[w].op) \notin {"insert", "delete"}
  BY DEF AfterPrune
<1>5. CASE Count(w)
  <2>1. CASE Return(w, "limit")
    BY <1>1, <2>1
  <2>2. CASE Goto(w, "insert") /\ seen' = [seen EXCEPT ![w] = now + BinTTL] /\ task' = task
    BY <1>5, <2>2, Went DEF Others, Types
  <2> QED BY <1>5, <2>1, <2>2 DEF Count
<1>6. CASE Owned(w)
  <2>1. CASE Continue(w, "delete")
    BY <1>6, <2>1, ContinueOthers
  <2> QED BY <1>1, <1>2, <1>6, <2>1 DEF Owned
<1>7. CASE Prune(w) \/ UncacheNext(w)
  <2>1. PICK to : to \notin {"insert", "delete"} /\ Goto(w, to)
    BY <1>4, <1>7 DEF Prune, UncacheNext
  <2> QED BY <1>3, <1>7, <2>1 DEF Prune, UncacheNext
<1>8. CASE PruneFails(w) \/ PruneAnswerLost(w)
  BY <1>1, <1>2, <1>4, <1>8 DEF PruneFails, PruneAnswerLost, AfterPruneError
<1>9. CASE Select(w)
  <2>1. CASE Goto(w, "fill") /\ seen' = [seen EXCEPT ![w] = Left(task[w].bin)] /\ task' = task
    BY <1>3, <2>1 DEF Types
  <2> QED BY <1>1, <1>2, <1>9, <2>1 DEF Select
<1>10. CASE Insert(w) \/ DropExpired(w) \/ Delete(w) \/ Probe(w)
  BY <1>1, <1>2, <1>10 DEF Insert, DropExpired, Delete, Probe
<1>11. CASE \/ InsertAnswerLost(w) \/ CacheNew(w) \/ ListRows(w)
            \/ DeleteAnswerLost(w) \/ UncacheOne(w) \/ Fill(w) \/ Abandon(w)
  BY <1>1, <1>11 DEF InsertAnswerLost, CacheNew, ListRows, DeleteAnswerLost,
     UncacheOne, Fill, Abandon
<1> QED BY <1>5, <1>6, <1>7, <1>8, <1>9, <1>10, <1>11 DEF Command

\* What the abstract bin needs to know beyond IInv: the expiry that Create has
\* computed is at most a life ahead, and bins are deleted for users.
Ready(w) == /\ pc[w] = "insert" => seen[w] <= now + BinTTL
            /\ pc[w] = "delete" => task[w].user \in Users
AllReady == \A w \in Workers : Ready(w)

LEMMA ReadyStep == Types /\ Control /\ AllReady /\ [Next]_vars => AllReady'
<1> SUFFICES ASSUME Types, Control, AllReady, [Next]_vars PROVE AllReady'
  OBVIOUS
<1>0. now \in Int /\ BinTTL \in Int /\ \A w \in Workers : seen[w] \in Int
  BY Numbers DEF Types
<1>1. ASSUME NEW w \in Workers, pc'[w] = pc[w], task'[w] = task[w], seen'[w] = seen[w],
             now' \in Int, now <= now'
      PROVE  Ready(w)'
  BY <1>0, <1>1 DEF AllReady, Ready
<1>2. ASSUME NEW w \in Workers, Command(w) PROVE AllReady'
  <2>1. Others(w) /\ now' = now
    BY <1>2, CommandMoves
  <2>2. pc'[w] = "insert" => seen'[w] <= now' + BinTTL
    <3> SUFFICES ASSUME pc'[w] = "insert" PROVE seen'[w] = now + BinTTL
      BY <1>0, <2>1
    <3>1. Count(w)
      BY <1>2, CommandMoves
    <3> QED BY <3>1 DEF Count, Return, Goto, Types
  <2>3. pc'[w] = "delete" => task'[w].user \in Users
    <3> SUFFICES ASSUME pc'[w] = "delete" PROVE task'[w].user \in Users
      OBVIOUS
    <3>1. Owned(w)
      BY <1>2, CommandMoves
    <3>2. task' = task
      BY <3>1 DEF Owned, Return, Continue, Goto, local, Types
    <3> QED BY <3>1, <3>2, SignedIn DEF Owned, At
  <2>4. Ready(w)'
    BY <2>2, <2>3 DEF Ready
  <2>5. \A x \in Workers \ {w} : Ready(x)'
    BY <1>0, <1>1, <2>1 DEF Others
  <2> QED BY <2>4, <2>5 DEF AllReady
<1>3. ASSUME NEW w \in Workers, NEW op \in Ops, NEW u \in Users \union {Nobody},
             NEW b \in Ids, Start(w, op, u, b)
      PROVE  AllReady'
  <2>1. pc'[w] \notin {"insert", "delete"}
    BY <1>3 DEF Start, Goto, Types, First
  <2>2. \A x \in Workers \ {w} : pc'[x] = pc[x] /\ task'[x] = task[x] /\ seen'[x] = seen[x]
    BY <1>3 DEF Start, Goto, Types
  <2>3. now' = now
    BY <1>3 DEF Start
  <2>4. \A x \in Workers \ {w} : Ready(x)'
    BY <1>0, <1>1, <2>2, <2>3
  <2> QED BY <2>1, <2>4 DEF AllReady, Ready
<1>4. CASE Tick \/ ValkeyRestart \/ UNCHANGED vars
  <2>1. UNCHANGED <<pc, task, seen>> /\ now' \in Int /\ now <= now'
    BY <1>0, <1>4 DEF Tick, ValkeyRestart, vars, local
  <2> QED BY <1>1, <2>1 DEF AllReady
<1> QED BY <1>2, <1>3, <1>4 DEF Next

-----------------------------------------------------------------------------
\* Who has asked for the removal of which bin.
Asked == {<<task[w].user, task[w].bin>> : w \in {x \in Workers : pc[x] = "delete"}}

\* The calls that are not at their DELETE do not matter ...
LEMMA AskedSame ==
  ASSUME NEW w \in Workers, Others(w), pc[w] # "delete", pc'[w] # "delete"
  PROVE  Asked' = Asked
BY DEF Asked, Others

\* ... one that comes to it has asked ...
LEMMA AskedMore ==
  ASSUME NEW w \in Workers, Others(w), pc[w] # "delete", pc'[w] = "delete",
         task'[w] = task[w]
  PROVE  Asked' = Asked \union {<<task[w].user, task[w].bin>>}
BY DEF Asked, Others

\* ... and one that leaves it has not, unless another one has.
LEMMA AskedLess ==
  ASSUME NEW w \in Workers, Others(w), pc[w] = "delete", pc'[w] # "delete"
  PROVE  /\ <<task[w].user, task[w].bin>> \in Asked
         /\ Asked' \in {Asked, Asked \ {<<task[w].user, task[w].bin>>}}
<1> DEFINE p == <<task[w].user, task[w].bin>>
<1>1. p \in Asked
  BY DEF Asked
<1>2. Asked' \subseteq Asked /\ Asked \ {p} \subseteq Asked'
  BY DEF Asked, Others
<1> QED BY <1>1, <1>2

\* A step of the store, as OwnedBins names it.
LEMMA IsForget ==
  ASSUME UNCHANGED <<owner, exp, created, now>>, Asked' = Asked, cache' \in [Ids -> Nat],
         \A b \in Ids : cache'[b] \in {0, cache[b]}
  PROVE  Shelf!Next
BY DEF Shelf!Next, Shelf!Forget, Shelf!bins, Asked

LEMMA IsSweep ==
  ASSUME UNCHANGED <<exp, created, cache, now>>, Asked' = Asked,
         owner' \in [Ids -> Users \union {Nobody}],
         \A b \in Ids : owner'[b] # owner[b] => owner'[b] = Nobody /\ Expired(b)
  PROVE  Shelf!Next
BY DEF Shelf!Next, Shelf!Sweep, Shelf!Expired, Expired, Asked

LEMMA IsRemember ==
  ASSUME UNCHANGED <<owner, exp, created, now>>, Asked' = Asked, NEW b \in Ids,
         b \in created, NEW e \in now + 1 .. exp[b] + Timeout,
         cache' = [cache EXCEPT ![b] = e]
  PROVE  Shelf!Next
<1>1. Shelf!Remember(b)
  BY DEF Shelf!Remember, Shelf!bins, Asked
<1> QED BY <1>1 DEF Shelf!Next

LEMMA IsWithdraw ==
  ASSUME UNCHANGED <<exp, created, cache, now>>, NEW u \in Users, NEW b \in Ids,
         <<u, b>> \in Asked, Asked' \in {Asked, Asked \ {<<u, b>>}},
         owner' = [owner EXCEPT ![b] = Nobody]
  PROVE  Shelf!Next
<1>1. Shelf!Withdraw(u, b)
  BY DEF Shelf!Withdraw, Asked
<1> QED BY <1>1 DEF Shelf!Next

LEMMA SameCardinality == ASSUME NEW S PROVE Shelf!Cardinality(S) = Cardinality(S)
BY DEF Cardinality, Shelf!Cardinality

LEMMA IsAdd ==
  ASSUME UNCHANGED <<cache, now>>, Asked' = Asked, NEW u \in Users, NEW b \in Ids,
         b \notin created, created' = created \union {b},
         owner' = [owner EXCEPT ![b] = u],
         NEW e \in now + BinTTL - Timeout .. now + BinTTL, exp' = [exp EXCEPT ![b] = e],
         Cardinality(BinsOf(u)') <= MaxBins + (Cardinality(Workers) - 1)
  PROVE  Shelf!Next
<1>1. PICK B : B = BinsOf(u)'
  OBVIOUS
<1>2. Shelf!BinsOf(u)' = B
  BY <1>1 DEF BinsOf, Shelf!BinsOf
<1>3. Shelf!Cardinality(Shelf!BinsOf(u)') = Cardinality(BinsOf(u)')
  BY <1>1, <1>2, SameCardinality
<1>4. Shelf!Add(u, b)
  BY <1>3 DEF Shelf!Add, Asked
<1> QED BY <1>4 DEF Shelf!Next

LEMMA IsAsk ==
  ASSUME UNCHANGED <<owner, exp, created, cache, now>>, NEW u \in Users, NEW b \in Ids,
         owner[b] = u, ~Expired(b), Asked' = Asked \union {<<u, b>>}
  PROVE  Shelf!Next
<1>1. Shelf!Ask(u, b)
  BY DEF Shelf!Ask, Shelf!Expired, Expired, Shelf!bins, Asked
<1> QED BY <1>1 DEF Shelf!Next

LEMMA IsGiveUp ==
  ASSUME UNCHANGED <<owner, exp, created, cache, now>>, NEW u \in Users, NEW b \in Ids,
         Asked' \in {Asked, Asked \ {<<u, b>>}}
  PROVE  [Shelf!Next]_Shelf!vars
<1>1. CASE Asked' = Asked
  BY <1>1 DEF Shelf!vars, Asked
<1>2. CASE Asked' = Asked \ {<<u, b>>}
  <2>1. Shelf!GiveUp(u, b)
    BY <1>2 DEF Shelf!GiveUp, Shelf!bins, Asked
  <2> QED BY <2>1 DEF Shelf!Next
<1> QED BY <1>1, <1>2

\* The commands: each is one step of the abstract bins, or none.
LEMMA CommandShelf ==
  ASSUME Types, Control, Kept, Room', Types', Kept', AllReady, NEW w \in Workers, Command(w)
  PROVE  [Shelf!Next]_Shelf!vars
<1> USE Numbers DEF At
<1>0. /\ Others(w) /\ now' = now /\ now \in Nat
      /\ pc'[w] = "delete" => Owned(w)
      /\ Settled(w) /\ Ready(w)
  BY CommandMoves DEF Types, Control, AllReady
<1>1. pc[w] # "idle"
  BY DEF Command, Prune, PruneFails, PruneAnswerLost, UncacheNext, Count, Insert,
     InsertAnswerLost, CacheNew, ListRows, Owned, DropExpired, Delete,
     DeleteAnswerLost, UncacheOne, Probe, Select, Fill, Abandon
<1>2. /\ task[w].user \in Users \union {Nobody} /\ task[w].bin \in Ids
      /\ task[w].op \in Ops /\ task[w].begun \in Int
  BY <1>1, Busy
<1>3. ASSUME Asked' = Asked, UNCHANGED <<owner, exp, created, cache>>
      PROVE  UNCHANGED Shelf!vars
  BY <1>0, <1>3 DEF Shelf!vars, Asked
<1>4. ASSUME ~Owned(w), pc[w] # "delete" PROVE Asked' = Asked
  BY <1>0, <1>4, AskedSame
<1>5. CASE \/ PruneFails(w) \/ Count(w) \/ ListRows(w) \/ Probe(w) \/ Select(w)
  <2>1. /\ UNCHANGED <<owner, exp, created, cache>>
        /\ pc[w] \notin {"owned", "delete"}
    BY <1>5 DEF PruneFails, Count, ListRows, Probe, Select, rows
  <2> QED BY <1>3, <1>4, <2>1 DEF Owned
<1>6. CASE Prune(w) \/ PruneAnswerLost(w) \/ DropExpired(w)
  <2>1. /\ UNCHANGED <<exp, created, cache>>
        /\ pc[w] \notin {"owned", "delete"}
    BY <1>6 DEF Prune, PruneAnswerLost, DropExpired, RemoveRows, rows
  <2>2. \A b \in Ids : owner'[b] # owner[b] => owner'[b] = Nobody /\ Expired(b)
    BY <1>0, <1>6 DEF Prune, PruneAnswerLost, DropExpired, RemoveRows, rows, Settled
  <2> QED BY <1>0, <1>4, <2>1, <2>2, IsSweep DEF Owned, Types
<1>7. CASE UncacheNext(w) \/ UncacheOne(w)
  <2>1. PICK b \in Ids : Uncache(b)
    BY <1>2, <1>7 DEF UncacheNext, UncacheOne, Types
  <2>2. UNCHANGED <<owner, exp, created>> /\ pc[w] \notin {"owned", "delete"}
    BY <1>7 DEF UncacheNext, UncacheOne, rows
  <2>3. \A c \in Ids : cache'[c] \in {0, cache[c]}
    BY <2>1 DEF Uncache, Types
  <2> QED BY <1>0, <1>4, <2>2, <2>3, IsForget DEF Owned, Types
<1>8. CASE Insert(w) \/ InsertAnswerLost(w)
  <2>1. /\ pc[w] = "insert" /\ InsertRow(w) /\ cache' = cache
        /\ now <= task[w].begun + Timeout
    BY <1>8 DEF Insert, InsertAnswerLost, InTime
  <2>2. task[w].bin \notin created /\ task[w].user \in Users
    BY <1>0, <2>1, SignedIn DEF Settled
  <2>3. PICK u \in Users : u = task[w].user
    BY <2>2
  <2>4. seen[w] \in now + BinTTL - Timeout .. now + BinTTL
    BY <1>0, <1>2, <2>1 DEF Settled, Ready, Types
  <2>5. Cardinality(BinsOf(u)') <= MaxBins + (Cardinality(Workers) - 1)
    <3>1. Cardinality(BinsOf(u)') + Cardinality(Pending(u)')
            <= MaxBins + Cardinality(Workers) - 1
      BY DEF Room
    <3>2. BinsOf(u)' \subseteq Ids /\ Pending(u)' \subseteq Workers
      BY DEF BinsOf, Pending
    <3>3. /\ Cardinality(BinsOf(u)') \in Nat /\ Cardinality(Pending(u)') \in Nat
          /\ Cardinality(Workers) \in Nat
      BY <3>2, NamesAssumption, FS_Subset, FS_CardinalityType
    <3> QED BY <3>1, <3>3
  <2>6. Asked' = Asked
    BY <1>4, <2>1 DEF Owned
  <2>7. /\ owner' = [owner EXCEPT ![task[w].bin] = u]
        /\ exp' = [exp EXCEPT ![task[w].bin] = seen[w]]
        /\ created' = created \union {task[w].bin}
    BY <2>1, <2>3 DEF InsertRow
  <2>8. Shelf!Next
    BY <1>0, <1>2, <2>1, <2>2, <2>4, <2>5, <2>6, <2>7, IsAdd
  <2> QED BY <2>8
<1>9. CASE CacheNew(w) \/ Fill(w)
  <2>1. /\ UNCHANGED <<owner, exp, created>> /\ pc[w] \in {"cacheNew", "fill"}
        /\ pc[w] = "cacheNew" \/ pc[w] = "fill"
    BY <1>9 DEF CacheNew, Fill, rows
  <2>2. Asked' = Asked
    BY <1>4, <2>1 DEF Owned
  <2>3. CASE cache' = cache
    BY <1>3, <2>1, <2>2, <2>3
  <2>4. CASE cache' # cache
    <3>1. PICK e \in Nat : e > now /\ cache' = [cache EXCEPT ![task[w].bin] = e]
      <4>1. CASE CacheNew(w)
        BY <1>0, <2>4, <4>1 DEF CacheNew
      <4>2. CASE Fill(w)
        BY <1>0, <2>4, <4>2 DEF Fill, Types
      <4> QED BY <1>9, <4>1, <4>2
    <3>2. cache'[task[w].bin] = e
      BY <1>2, <3>1 DEF Types
    <3>3. task[w].bin \in created /\ e <= exp[task[w].bin] + Timeout
      BY <1>0, <1>2, <2>1, <3>1, <3>2 DEF Kept, Types
    <3>4. e \in now + 1 .. exp[task[w].bin] + Timeout
      BY <1>0, <1>2, <3>1, <3>3 DEF Types
    <3> QED BY <1>0, <1>2, <2>1, <2>2, <3>1, <3>3, <3>4, IsRemember
  <2> QED BY <2>3, <2>4
<1>10. CASE Owned(w)
  <2>1. UNCHANGED <<owner, exp, created, cache>> /\ pc[w] = "owned"
    BY <1>10 DEF Owned, rows
  <2>2. CASE pc'[w] # "delete"
    BY <1>0, <1>3, <2>1, <2>2, AskedSame
  <2>3. CASE pc'[w] = "delete"
    <3>1. Mine(w) /\ ~Expired(task[w].bin) /\ task'[w] = task[w]
      BY <1>10, <2>3 DEF Owned, Return, Continue, Goto, local, Types
    <3>2. task[w].user \in Users
      BY <1>1, <2>1, SignedIn
    <3> QED BY <1>0, <1>2, <2>1, <2>3, <3>1, <3>2, AskedMore, IsAsk DEF Mine
  <2> QED BY <2>2, <2>3
<1>11. CASE Delete(w) \/ DeleteAnswerLost(w)
  <2>1. /\ pc[w] = "delete" /\ pc'[w] # "delete"
        /\ RemoveRows({task[w].bin}) /\ cache' = cache
    BY <1>11 DEF Delete, DeleteAnswerLost, Continue, Return, Goto, Types
  <2>2. owner' = [owner EXCEPT ![task[w].bin] = Nobody] /\ UNCHANGED <<exp, created>>
    BY <1>2, <2>1 DEF RemoveRows, Types
  <2>3. task[w].user \in Users
    BY <1>0, <2>1 DEF Ready
  <2> QED BY <1>0, <1>2, <2>1, <2>2, <2>3, AskedLess, IsWithdraw
<1>12. CASE Abandon(w)
  <2>1. UNCHANGED <<owner, exp, created, cache>> /\ pc'[w] = "idle"
    BY <1>12 DEF Abandon, rows, Return, Goto, Types
  <2>2. CASE pc[w] = "delete"
    <3>1. task[w].user \in Users
      BY <1>0, <2>2 DEF Ready
    <3> QED BY <1>0, <1>2, <2>1, <2>2, <3>1, AskedLess, IsGiveUp
  <2>3. CASE pc[w] # "delete"
    BY <1>0, <1>3, <2>1, <2>3, AskedSame
  <2> QED BY <2>2, <2>3
<1> QED BY <1>5, <1>6, <1>7, <1>8, <1>9, <1>10, <1>11, <1>12 DEF Command

LEMMA ShelfStep ==
  IInv /\ IInv' /\ AllReady /\ [Next]_vars => [Shelf!Next]_Shelf!vars
<1> SUFFICES ASSUME IInv, IInv', AllReady, [Next]_vars PROVE [Shelf!Next]_Shelf!vars
  OBVIOUS
<1> USE DEF IInv
<1>1. ASSUME NEW w \in Workers, Command(w) PROVE [Shelf!Next]_Shelf!vars
  BY <1>1, CommandShelf
<1>2. ASSUME NEW w \in Workers, NEW op \in Ops, NEW u \in Users \union {Nobody},
             NEW b \in Ids, Start(w, op, u, b)
      PROVE  UNCHANGED Shelf!vars
  <2>1. /\ pc[w] = "idle" /\ pc'[w] # "delete" /\ Others(w)
        /\ UNCHANGED <<owner, exp, created, cache, now>>
    BY <1>2 DEF Start, Goto, Types, First, Others, rows
  <2> QED BY <2>1, AskedSame DEF Shelf!vars, Asked
<1>3. ASSUME UNCHANGED <<pc, task>> PROVE Asked' = Asked
  BY <1>3 DEF Asked
<1>4. CASE Tick
  <2>1. Shelf!Advance
    BY <1>3, <1>4 DEF Tick, Shelf!Advance, Shelf!bins, Asked, rows, local
  <2> QED BY <2>1 DEF Shelf!Next
<1>5. CASE ValkeyRestart
  <2>1. UNCHANGED <<owner, exp, created, now, pc, task>> /\ cache' = [b \in Ids |-> 0]
    BY <1>5 DEF ValkeyRestart, rows, local
  <2> QED BY <1>3, <2>1, IsForget
<1>6. CASE UNCHANGED vars
  BY <1>3, <1>6 DEF vars, Shelf!vars, Asked
<1> QED BY <1>1, <1>2, <1>4, <1>5, <1>6 DEF Next

\* The store implements OwnedBins, for any workers, users, ids and limits: what
\* a caller may rely on whichever calls interleave, fail or are given up.
THEOREM BinsOwned == Spec => OwnedBinsSpec
<1>1. Init => AllReady
  BY DEF Init, AllReady, Ready
<1>2. Init => Shelf!Init
  BY DEF Init, Shelf!Init
<1>3. IInv /\ AllReady /\ [Next]_vars => AllReady'
  BY ReadyStep DEF IInv
<1> QED BY <1>1, <1>2, <1>3, ShelfStep, Invariant, PTL
        DEF Spec, OwnedBinsSpec, Shelf!Spec
=============================================================================
