-------------------------- MODULE HookIngestProofs --------------------------
(***************************************************************************)
(* For any workers, bins, limits and windows: the handlers of HookIngest   *)
(* store no more hits in a window of a bin than its limit and the other    *)
(* requests under way, count only requests for what is or was a bin, and   *)
(* serve no bin that expired long before the request; bins behave under    *)
(* them as OwnedBins says.                                                 *)
(***************************************************************************)
EXTENDS HookIngest, WebhookBinsProofs

Steps == {"idle", "exists", "allow", "method", "ingest", "store"}

HookTypes ==
  /\ step \in [Workers -> Steps]
  /\ target \in [Workers -> Ids]
  /\ grants \in [Ids -> 0..HookLimit]
  /\ stores \in [Ids -> Nat]

\* Requests to b that a window has let through and that may still store.
Past == {"method", "ingest", "store"}
Admitted(b) == {w \in Workers : step[w] \in Past /\ target[w] = b}

\* What a bin has stored, with what may still be stored, is bounded by the
\* grants of the window and the workers that the first of them met, and by
\* the limit and the workers when the window has ended.
Budget(b) ==
  LET due == stores[b] + Cardinality(Admitted(b))
  IN  /\ due <= HookLimit + Cardinality(Workers) - 1
      /\ grants[b] > 0 => due <= grants[b] + Cardinality(Workers) - 1

HookInv == HookTypes /\ \A b \in Ids : Budget(b)

LEMMA HookNumbers == /\ HookLimit \in Nat /\ HookLimit > 0
                 /\ IsFiniteSet(Workers) /\ Cardinality(Workers) \in Nat
                 /\ Cardinality(Workers) > 0
<1>1. IsFiniteSet(Workers) /\ Workers # {}
  BY NamesAssumption
<1>2. Cardinality(Workers) \in Nat /\ Cardinality(Workers) # 0
  BY <1>1, FS_CardinalityType, FS_EmptySet
<1> QED BY <1>1, <1>2, HookAssumption

LEMMA AdmittedSizes ==
  ASSUME NEW b
  PROVE  /\ IsFiniteSet(Admitted(b)) /\ Cardinality(Admitted(b)) \in Nat
         /\ Cardinality(Admitted(b)) <= Cardinality(Workers)
BY HookNumbers, FS_Subset, FS_CardinalityType DEF Admitted

LEMMA AdmittedAfter ==
  ASSUME NEW b
  PROVE  /\ IsFiniteSet(Admitted(b)') /\ Cardinality(Admitted(b)') \in Nat
         /\ Cardinality(Admitted(b)') <= Cardinality(Workers)
BY HookNumbers, FS_Subset, FS_CardinalityType DEF Admitted

-----------------------------------------------------------------------------
LEMMA HookStart == HookInit => HookInv
<1> SUFFICES ASSUME HookInit PROVE HookInv
  OBVIOUS
<1>1. HookTypes
  BY HookNumbers DEF HookInit, HookTypes, Steps, Limiter!Init
<1>2. ASSUME NEW b \in Ids PROVE Budget(b)
  <2>1. Admitted(b) = {}
    BY DEF HookInit, Admitted, Past
  <2>2. stores[b] = 0 /\ grants[b] = 0 /\ Cardinality(Admitted(b)) = 0
    BY <2>1, FS_EmptySet DEF HookInit, Limiter!Init
  <2> QED BY <2>2, HookNumbers DEF Budget
<1> QED BY <1>1, <1>2 DEF HookInv

\* A worker that is let through by nothing lets nobody else through.
LEMMA Shrinks ==
  ASSUME HookTypes, NEW w \in Workers,
         \A x \in Workers \ {w} : step'[x] = step[x] /\ target'[x] = target[x],
         step'[w] \in Past => step[w] \in Past /\ target'[w] = target[w],
         NEW b \in Ids
  PROVE  Admitted(b)' \subseteq Admitted(b)
BY DEF Admitted

\* Nobody is let through, and windows stay or end.
LEMMA Quiet ==
  ASSUME HookInv, NEW b \in Ids,
         Admitted(b)' \subseteq Admitted(b), stores'[b] = stores[b],
         grants'[b] \in {grants[b], 0}
  PROVE  Budget(b)'
<1>1. Cardinality(Admitted(b)') <= Cardinality(Admitted(b))
  BY AdmittedSizes, FS_Subset
<1> QED
  BY <1>1, HookNumbers, AdmittedSizes, AdmittedAfter DEF HookInv, HookTypes, Budget

\* A grant that lets at most one worker through.
LEMMA Granted ==
  ASSUME HookInv, NEW b \in Ids, NEW w,
         Admitted(b)' \subseteq Admitted(b) \union {w},
         Grant(b)
  PROVE  Budget(b)'
<1>1. /\ grants[b] \in Nat /\ grants[b] < HookLimit /\ grants'[b] = grants[b] + 1
      /\ stores'[b] = IF grants[b] = 0 THEN 0 ELSE stores[b]
      /\ stores[b] \in Nat
  BY HookNumbers DEF Grant, Limiter!Grant, HookInv, HookTypes
<1>2. Cardinality(Admitted(b)') <= Cardinality(Admitted(b)) + 1
  <2> DEFINE S == Admitted(b)
  <2>0. IsFiniteSet(S) /\ Cardinality(S) \in Nat
    BY AdmittedSizes
  <2> HIDE DEF S
  <2>1. IsFiniteSet(S \union {w}) /\ Cardinality(S \union {w}) <= Cardinality(S) + 1
    BY <2>0, FS_AddElement
  <2>2. Admitted(b)' \subseteq S \union {w}
    BY DEF S
  <2>3. /\ Cardinality(Admitted(b)') <= Cardinality(S \union {w})
        /\ Cardinality(S \union {w}) \in Nat
    BY <2>1, <2>2, FS_Subset, FS_CardinalityType
  <2>4. Cardinality(Admitted(b)') <= Cardinality(S) + 1
    BY <2>0, <2>1, <2>3, AdmittedAfter
  <2> QED BY <2>4 DEF S
<1> QED
  BY <1>1, <1>2, HookNumbers, AdmittedSizes, AdmittedAfter DEF HookInv, Budget

\* A window is granted for one bin and leaves the others alone.
LEMMA GrantedOther ==
  ASSUME HookInv, NEW b \in Ids, NEW c \in Ids, b # c, Grant(c)
  PROVE  stores'[b] = stores[b] /\ grants'[b] = grants[b]
BY DEF Grant, Limiter!Grant, HookInv, HookTypes

LEMMA GrantTypes ==
  ASSUME HookTypes, NEW b \in Ids, Grant(b)
  PROVE  grants' \in [Ids -> 0..HookLimit] /\ stores' \in [Ids -> Nat]
BY HookNumbers DEF HookTypes, Grant, Limiter!Grant

-----------------------------------------------------------------------------
\* Actions that use neither the limiter nor the store of hits.
LEMMA Idle ==
  ASSUME HookInv, UNCHANGED <<grants, stores>>, HookTypes', NEW w \in Workers,
         \A x \in Workers \ {w} : step'[x] = step[x] /\ target'[x] = target[x],
         step'[w] \in Past => step[w] \in Past /\ target'[w] = target[w]
  PROVE  HookInv'
BY Shrinks, Quiet DEF HookInv

LEMMA HandlerMoves ==
  ASSUME HookInv, NEW w \in Workers, NEW s \in Steps,
         step' = [step EXCEPT ![w] = s], UNCHANGED target
  PROVE  /\ step' \in [Workers -> Steps] /\ target' \in [Workers -> Ids]
         /\ \A x \in Workers \ {w} : step'[x] = step[x] /\ target'[x] = target[x]
         /\ step'[w] = s /\ target'[w] = target[w]
BY DEF HookInv, HookTypes

LEMMA AskInv ==
  ASSUME HookInv, NEW w \in Workers, NEW b \in Ids, Ask(w, b)
  PROVE  HookInv'
<1>1. /\ HookTypes'
      /\ \A x \in Workers \ {w} : step'[x] = step[x] /\ target'[x] = target[x]
      /\ step'[w] \notin Past
  BY DEF HookInv, HookTypes, Ask, Steps, Past, limits
<1> QED BY <1>1, Idle DEF Ask, limits

LEMMA AllowInv ==
  ASSUME HookInv, NEW w \in Workers, Allow(w)
  PROVE  HookInv'
<1>1. /\ step' = [step EXCEPT ![w] = "method"] /\ UNCHANGED target
      /\ target[w] \in Ids /\ Grant(target[w])
  BY DEF Allow, Advance, request, HookInv, HookTypes
<1>2. HookTypes'
  BY <1>1, HandlerMoves, GrantTypes DEF Steps, HookTypes, HookInv
<1>3. ASSUME NEW b \in Ids PROVE Budget(b)'
  <2>1. CASE b = target[w]
    <3>1. Admitted(b)' \subseteq Admitted(b) \union {w}
      BY <1>1, HandlerMoves DEF Admitted, Steps
    <3> QED BY <1>1, <2>1, <3>1, Granted
  <2>2. CASE b # target[w]
    <3>1. Admitted(b)' \subseteq Admitted(b)
      BY <1>1, <2>2, HandlerMoves DEF Admitted, Steps
    <3> QED BY <1>1, <2>2, <3>1, GrantedOther, Quiet
  <2> QED BY <2>1, <2>2
<1> QED BY <1>2, <1>3 DEF HookInv

LEMMA RefuseInv ==
  ASSUME HookInv, NEW w \in Workers, Refuse(w)
  PROVE  HookInv'
<1>1. /\ step' = [step EXCEPT ![w] = "idle"] /\ UNCHANGED target
      /\ target[w] \in Ids
  BY DEF Refuse, AfterRefusal, Respond, request, HookInv, HookTypes
<1>2. ASSUME NEW b \in Ids PROVE Admitted(b)' \subseteq Admitted(b)
  BY <1>1, HandlerMoves, Shrinks DEF Steps, Past, HookInv
<1>3. CASE UNCHANGED <<limits, stores>>
  <2>1. HookTypes'
    BY <1>1, <1>3, HandlerMoves DEF Steps, HookTypes, HookInv, limits
  <2> QED BY <1>2, <1>3, <2>1, Quiet DEF HookInv, limits
<1>4. CASE Grant(target[w])
  <2>1. HookTypes'
    BY <1>1, <1>4, HandlerMoves, GrantTypes DEF Steps, HookTypes, HookInv
  <2>2. ASSUME NEW b \in Ids PROVE Budget(b)'
    <3>1. CASE b = target[w]
      BY <1>2, <1>4, <3>1, Granted
    <3>2. CASE b # target[w]
      BY <1>1, <1>2, <1>4, <3>2, GrantedOther, Quiet
    <3> QED BY <3>1, <3>2
  <2> QED BY <2>1, <2>2 DEF HookInv
<1> QED BY <1>3, <1>4 DEF Refuse

\* A hit is stored by a worker that has been let through, and is no more.
LEMMA StoreInv ==
  ASSUME HookInv, NEW w \in Workers, Store(w)
  PROVE  HookInv'
<1>1. /\ step' = [step EXCEPT ![w] = "idle"] /\ UNCHANGED <<target, grants>>
      /\ target[w] \in Ids /\ step[w] = "store"
      /\ stores' = [stores EXCEPT ![target[w]] = @ + 1]
  BY DEF Store, AtStep, Respond, request, limits, HookInv, HookTypes
<1>2. HookTypes'
  BY <1>1, HandlerMoves DEF Steps, HookTypes, HookInv
<1>3. ASSUME NEW b \in Ids PROVE Budget(b)'
  <2>1. CASE b = target[w]
    <3>1. Admitted(b)' = Admitted(b) \ {w} /\ w \in Admitted(b)
      BY <1>1, <2>1, HandlerMoves DEF Admitted, Past, Steps
    <3>2. Cardinality(Admitted(b)') = Cardinality(Admitted(b)) - 1
      BY <3>1, AdmittedSizes, FS_RemoveElement
    <3>3. stores'[b] = stores[b] + 1 /\ stores[b] \in Nat /\ grants'[b] = grants[b]
      BY <1>1, <2>1 DEF HookInv, HookTypes
    <3> QED
      BY <3>2, <3>3, HookNumbers, AdmittedSizes, AdmittedAfter DEF Budget, HookInv, HookTypes
  <2>2. CASE b # target[w]
    <3>1. Admitted(b)' \subseteq Admitted(b)
      BY <1>1, HandlerMoves, Shrinks DEF Steps, Past, HookInv
    <3>2. stores'[b] = stores[b] /\ grants'[b] = grants[b]
      BY <1>1, <2>2 DEF HookInv, HookTypes
    <3> QED BY <3>1, <3>2, Quiet
  <2> QED BY <2>1, <2>2
<1> QED BY <1>2, <1>3 DEF HookInv

\* The other steps of the handler move it on, or end it.
LEMMA HandleInv ==
  ASSUME HookInv, NEW w \in Workers, Handle(w)
  PROVE  HookInv'
<1>1. CASE \/ AfterExists(w) \/ Confirm(w) \/ Reject(w) \/ Ingest(w)
           \/ AfterSelect(w) \/ StoreFails(w)
  <2>1. /\ UNCHANGED <<target, grants, stores>>
        /\ \E s \in Steps : /\ step' = [step EXCEPT ![w] = s]
                            /\ s \in Past => step[w] \in Past
    <3>1. CASE AfterExists(w)
      BY <3>1 DEF AfterExists, Advance, Respond, request, limits, Steps, Past
    <3>2. CASE Confirm(w) \/ Reject(w) \/ StoreFails(w)
      BY <3>2 DEF Confirm, Reject, StoreFails, Respond, request, limits, Steps, Past
    <3>3. CASE Ingest(w)
      BY <3>3 DEF Ingest, AtStep, Advance, request, limits, Steps, Past
    <3>4. CASE AfterSelect(w)
      BY <3>4 DEF AfterSelect, AtStep, Advance, Respond, request, limits, Steps, Past
    <3> QED BY <1>1, <3>1, <3>2, <3>3, <3>4
  <2>2. PICK s \in Steps : /\ step' = [step EXCEPT ![w] = s]
                           /\ s \in Past => step[w] \in Past
    BY <2>1
  <2>3. HookTypes'
    BY <2>1, <2>2, HandlerMoves DEF HookInv, HookTypes
  <2> QED BY <2>1, <2>2, <2>3, HandlerMoves, Idle
<1> QED BY <1>1, AllowInv, RefuseInv, StoreInv DEF Handle

\* Time and restarts end windows and leave the handlers alone.
LEMMA WindowsEnd ==
  ASSUME HookInv, UNCHANGED <<step, target, stores>>,
         grants' \in [Ids -> 0..HookLimit],
         \A b \in Ids : grants'[b] \in {grants[b], 0}
  PROVE  HookInv'
<1>1. \A b \in Ids : Admitted(b)' = Admitted(b)
  BY DEF Admitted
<1> QED BY <1>1, Quiet DEF HookInv, HookTypes

LEMMA HookStep == HookInv /\ [HookNext]_allVars => HookInv'
<1> SUFFICES ASSUME HookInv, [HookNext]_allVars PROVE HookInv'
  OBVIOUS
<1>1. CASE Time
  BY <1>1, WindowsEnd DEF Time, request, Limiter!Elapse
<1>2. CASE Restart
  BY <1>2, WindowsEnd, HookNumbers DEF Restart, request, Limiter!Lose
<1>3. CASE UNCHANGED <<step, request, limits, stores>>
  BY <1>3, WindowsEnd DEF request, limits, HookInv, HookTypes
<1>4. ASSUME NEW w \in Workers, NEW op \in Ops, NEW u \in Users, NEW b \in Ids,
             UserCalls(w, op, u, b)
      PROVE  UNCHANGED <<step, request, limits, stores>>
  BY <1>4 DEF UserCalls
<1>5. ASSUME UNCHANGED hookVars
      PROVE  UNCHANGED <<step, request, limits, stores>>
  BY <1>5 DEF hookVars, request, limits
<1> QED
  BY <1>1, <1>2, <1>3, <1>4, <1>5, AskInv, HandleInv DEF HookNext, allVars

THEOREM HookInvariant == HookSpec => []HookInv
<1> QED BY HookStart, HookStep, PTL DEF HookSpec

\* A bin stores no more hits of a window than the limit and the other requests
\* under way, for any number of workers, bins, users, faults and restarts.
THEOREM StoresSafe == HookSpec => []StoresBounded
<1>1. HookInv => StoresBounded
  <2> SUFFICES ASSUME HookInv, NEW b \in Ids
               PROVE  stores[b] <= HookLimit + Cardinality(Workers) - 1
    BY DEF StoresBounded
  <2> QED BY AdmittedSizes, HookNumbers DEF HookInv, HookTypes, Budget
<1> QED BY <1>1, HookInvariant, PTL

-----------------------------------------------------------------------------
\* Every step of the composition is a step of the store's calls, or nothing to
\* them.
LEMMA StoreStep ==
  ASSUME HookInv, [HookNext]_allVars
  PROVE  [Next]_vars
<1>1. CASE \E w \in Workers : Handle(w)
  <2>1. PICK w \in Workers : Handle(w)
    BY <1>1
  <2>2. CASE Ingest(w)
    <3>1. Start(w, "ingest", Nobody, target[w]) /\ target[w] \in Ids
      BY <2>2 DEF Ingest, CallStore, HookInv, HookTypes
    <3> QED BY <3>1 DEF Next, Ops
  <2>3. CASE ~Ingest(w)
    BY <2>1, <2>3 DEF Handle, AfterExists, Allow, Refuse, Confirm, Reject,
                      AfterSelect, Store, StoreFails
  <2> QED BY <2>2, <2>3
<1>2. CASE \E w \in Workers, b \in Ids : Ask(w, b)
  BY <1>2 DEF Ask, CallStore, Next, Ops
<1>3. CASE \E w \in Workers, op \in Ops, u \in Users, b \in Ids : UserCalls(w, op, u, b)
  BY <1>3 DEF UserCalls, Next
<1>4. CASE Time \/ Restart \/ \E w \in Workers : Command(w) /\ UNCHANGED hookVars
  BY <1>4 DEF Time, Restart, Next
<1> QED BY <1>1, <1>2, <1>3, <1>4 DEF HookNext, allVars

\* The store's calls, made by the handlers, are those of WebhookBins: what is
\* proved of them can be used here.
LEMMA StoreKept == HookSpec => Spec
<1>1. HookInit => Init
  BY DEF HookInit
<1>2. HookInv /\ [HookNext]_allVars => [Next]_vars
  BY StoreStep
<1> QED BY <1>1, <1>2, HookInvariant, PTL DEF HookSpec, Spec

\* So bins keep under the handlers what OwnedBins promises of them.
THEOREM BinsKept == HookSpec => OwnedBinsSpec
BY StoreKept, BinsOwned, PTL

\* What a command does to the calls of the workers.
LEMMA CommandCalls ==
  ASSUME Types, Control, NEW w \in Workers, Command(w)
  PROVE  /\ pc[w] # "idle"
         /\ \A x \in Workers \ {w} :
              pc'[x] = pc[x] /\ task'[x] = task[x] /\ ans'[x] = ans[x]
         /\ \/ pc'[w] # "idle" /\ task'[w] = task[w]
            \/ pc'[w] = "idle"
<1> DEFINE Effect ==
      /\ \A x \in Workers \ {w} :
           pc'[x] = pc[x] /\ task'[x] = task[x] /\ ans'[x] = ans[x]
      /\ pc'[w] = "idle" \/ task'[w] = task[w]
<1>0. pc[w] # "idle"
  BY DEF Command, At, Prune, PruneFails, PruneAnswerLost, UncacheNext, Count, Insert,
         InsertAnswerLost, CacheNew, ListRows, Owned, DropExpired, Delete,
         DeleteAnswerLost, UncacheOne, Probe, Select, Fill, Abandon
<1>1. ASSUME NEW a, Return(w, a) PROVE Effect
  BY <1>1 DEF Return, Goto, Types
<1>2. ASSUME NEW to, Goto(w, to), UNCHANGED <<task, ans>> PROVE Effect
  BY <1>2 DEF Goto, Types
<1>3. ASSUME NEW to, Continue(w, to) PROVE Effect
  BY <1>2, <1>3 DEF Continue, local
<1>4. ASSUME AfterPruneError(w) PROVE Effect
  BY <1>1, <1>3, <1>4 DEF AfterPruneError
<1>5. Effect
  BY <1>1, <1>2, <1>3, <1>4
     DEF Command, Prune, PruneFails, PruneAnswerLost, UncacheNext, Count, Insert,
         InsertAnswerLost, CacheNew, ListRows, Owned, DropExpired, Delete,
         DeleteAnswerLost, UncacheOne, Probe, Select, Fill, Abandon
<1> QED BY <1>0, <1>5

\* Bin b was created, and an instant t was before the end of its life, or soon
\* after.
Lives(b, t) == b \in created /\ (t <= exp[b] \/ t < exp[b] + Timeout)

\* PublicExists says yes only for a bin whose life had not ended long before
\* the call: a key ends soon after its bin, and a row was read during the call.
LEMMA ExistsAnswer ==
  ASSUME Types, Control, Kept, NEW w \in Workers, Command(w),
         task[w].op = "exists", pc'[w] = "idle", ans'[w] = "exists"
  PROVE  Lives(task[w].bin, task[w].begun)
<1>0. /\ pc[w] # "idle" /\ Settled(w) /\ task[w].bin \in Ids
      /\ task[w].begun \in 0..MaxTime /\ task[w].begun <= now
  BY CommandCalls, Busy DEF Control, Settled
<1>1. ASSUME NEW a, Return(w, a) PROVE a = "exists"
  BY <1>1 DEF Return, Types
<1>2. ASSUME NEW to, to # "idle", Goto(w, to) PROVE FALSE
  BY <1>2 DEF Goto, Types
<1>3. ASSUME NEW to, to # "idle", Continue(w, to) PROVE FALSE
  BY <1>2, <1>3 DEF Continue
<1>4. CASE Probe(w)
  <2>1. cache[task[w].bin] > now
    BY <1>3, <1>4 DEF Probe
  <2>2. task[w].bin \in created /\ now < exp[task[w].bin] + Timeout
    BY <1>0, <2>1, Numbers DEF Kept, Types
  <2> QED BY <1>0, <2>2, Numbers DEF Lives, Types
<1>5. CASE pc[w] = "fill"
  BY <1>0, <1>5 DEF Settled, Lives, Types
<1>6. CASE Abandon(w) /\ pc[w] # "fill"
  BY <1>1, <1>6 DEF Abandon, GivenUp
<1>7. CASE Prune(w) \/ PruneFails(w) \/ PruneAnswerLost(w) \/ UncacheNext(w)
  <2>1. AfterPrune(task[w].op) # "idle" /\ task[w].op # "create"
    BY PlaceNames DEF Ops
  <2> QED BY <1>2, <1>3, <1>7, <2>1
          DEF Prune, PruneFails, PruneAnswerLost, UncacheNext, AfterPruneError
<1>8. CASE \/ Count(w) \/ Insert(w) \/ InsertAnswerLost(w) \/ CacheNew(w)
           \/ ListRows(w) \/ Owned(w) \/ DropExpired(w) \/ Delete(w)
           \/ DeleteAnswerLost(w) \/ UncacheOne(w)
  BY <1>1, <1>2, <1>3, <1>8
     DEF Count, Insert, InsertAnswerLost, CacheNew, ListRows, Owned, DropExpired,
         Delete, DeleteAnswerLost, UncacheOne
<1>9. CASE Select(w)
  BY <1>1, <1>2, <1>3, <1>9 DEF Select
<1>10. CASE Fill(w)
  BY <1>5, <1>10 DEF Fill, At
<1> QED BY <1>4, <1>5, <1>6, <1>7, <1>8, <1>9, <1>10 DEF Command

-----------------------------------------------------------------------------
Replies == {"none", "notFound", "limited", "confirmed", "stored", "failed"}
Served == {"limited", "confirmed", "stored", "failed"}

\* What the handler that w runs knows of its bin: PublicExists works for its
\* request, and the handler goes on only when it has said yes.
InLife(w) == Lives(target[w], since[w])

Knows(w) ==
  /\ step[w] = "exists" /\ pc[w] # "idle" =>
       /\ task[w].op = "exists" /\ task[w].bin = target[w]
       /\ task[w].begun = since[w]
  /\ step[w] = "exists" /\ pc[w] = "idle" /\ ans[w] = "exists" => InLife(w)
  /\ step[w] \in {"allow"} \union Past => InLife(w)
  /\ reply[w] \in Served => InLife(w)

Known ==
  /\ since \in [Workers -> Nat] /\ reply \in [Workers -> Replies]
  /\ \A w \in Workers : Knows(w)
  /\ \A b \in Ids : grants[b] > 0 => b \in created

JointInv == IInv /\ HookInv /\ Known

LEMMA KnownStart == HookInit => Known
BY DEF HookInit, Known, Knows, Replies, Served, Past, Limiter!Init

\* The life of a bin does not change, whatever happens to its row.
LEMMA LivesOn ==
  ASSUME Frame, NEW b, NEW t, Lives(b, t)
  PROVE  Lives(b, t)'
BY DEF Frame, Lives

\* A handler that does not move knows what it knew.
LEMMA StillKnows ==
  ASSUME Frame, Known, NEW w \in Workers,
         step'[w] = step[w], target'[w] = target[w], since'[w] = since[w],
         reply'[w] \in {reply[w], "none"},
         pc'[w] = pc[w], task'[w] = task[w], ans'[w] = ans[w]
  PROVE  Knows(w)'
<1>1. InLife(w) => InLife(w)'
  BY LivesOn DEF InLife, Lives
<1> QED BY <1>1 DEF Known, Knows, Served

\* Counters for ids that were created, when no grant adds one.
LEMMA CountersStay ==
  ASSUME Frame, Known, \A b \in Ids : grants'[b] \in {grants[b], 0}
  PROVE  \A b \in Ids : grants'[b] > 0 => b \in created'
BY DEF Frame, Known

LEMMA AskKnown ==
  ASSUME JointInv, Frame, NEW w \in Workers, NEW b \in Ids, Ask(w, b)
  PROVE  Known'
<1>1. now \in Nat /\ grants' = grants
  BY DEF JointInv, IInv, Types, Ask, limits
<1>2. /\ since' \in [Workers -> Nat] /\ reply' \in [Workers -> Replies]
      /\ since'[w] = now /\ reply'[w] = "none" /\ step'[w] = "exists"
      /\ target'[w] = b
  BY <1>1 DEF Ask, JointInv, HookInv, HookTypes, Known, Replies
<1>3. /\ pc'[w] = "probe"
      /\ task'[w] = [op |-> "exists", user |-> Nobody, bin |-> b, begun |-> now]
  BY DEF JointInv, IInv, Types, Ask, CallStore, Start, Goto, First
<1>4. Knows(w)'
  BY <1>2, <1>3 DEF Knows, Past, Served
<1>5. ASSUME NEW x \in Workers \ {w} PROVE Knows(x)'
  BY StillKnows DEF Ask, CallStore, Start, Goto, JointInv, IInv, Types, HookInv,
                    HookTypes, Known
<1> QED BY <1>1, <1>2, <1>4, <1>5, CountersStay DEF Known, JointInv

\* The steps of a handler after PublicExists are taken for a bin in its life.
LEMMA HandleKnown ==
  ASSUME JointInv, Frame, NEW w \in Workers, Handle(w)
  PROVE  Known'
<1>0. /\ UNCHANGED request /\ pc[w] = "idle"
      /\ \A x \in Workers \ {w} :
           pc'[x] = pc[x] /\ task'[x] = task[x] /\ ans'[x] = ans[x]
  BY DEF Handle, AfterExists, Allow, Refuse, Confirm, Reject, Ingest, AfterSelect,
         Store, StoreFails, AtStep, CallStore, Start, Goto, JointInv, IInv, Types, vars
<1>1. PICK s \in Steps, r \in Replies :
        /\ step' = [step EXCEPT ![w] = s] /\ reply' = [reply EXCEPT ![w] = r]
        /\ s # "exists"
        /\ s \in {"allow"} \union Past \/ r \in Served => InLife(w)
  <2>1. /\ reply[w] \in Replies /\ reply = [reply EXCEPT ![w] = reply[w]]
        /\ Knows(w)
    BY DEF JointInv, Known
  <2>2. CASE AfterExists(w)
    BY <2>1, <2>2 DEF AfterExists, AtStep, Confirmed, Advance, Respond, Knows,
                      Steps, Replies, Served, Past
  <2>3. CASE Allow(w) \/ Refuse(w)
    BY <2>1, <2>3 DEF Allow, Refuse, AfterRefusal, AtStep, Advance, Respond, Knows,
                      Steps, Replies, Served, Past
  <2>4. CASE Confirm(w) \/ Reject(w) \/ Store(w) \/ StoreFails(w)
    BY <2>1, <2>4 DEF Confirm, Reject, Store, StoreFails, AtStep, Respond, Knows,
                      Steps, Replies, Served, Past
  <2>5. CASE Ingest(w)
    BY <2>1, <2>5 DEF Ingest, AtStep, Advance, Knows, Steps, Past
  <2>6. CASE AfterSelect(w)
    BY <2>1, <2>6 DEF AfterSelect, AtStep, Advance, Respond, Knows,
                      Steps, Replies, Served, Past
  <2> QED BY <2>2, <2>3, <2>4, <2>5, <2>6 DEF Handle
<1>2. /\ step'[w] = s /\ reply'[w] = r
      /\ \A x \in Workers \ {w} : step'[x] = step[x] /\ reply'[x] = reply[x]
      /\ reply' \in [Workers -> Replies] /\ since' \in [Workers -> Nat]
  BY <1>0, <1>1 DEF JointInv, HookInv, HookTypes, Known, request
<1>3. Knows(w)'
  <2>1. InLife(w) => InLife(w)'
    BY <1>0, LivesOn DEF InLife, Lives, request
  <2> QED BY <1>1, <1>2, <2>1 DEF Knows, Past
<1>4. ASSUME NEW x \in Workers \ {w} PROVE Knows(x)'
  BY <1>0, <1>2, StillKnows DEF request, JointInv
<1>5. \A b \in Ids : grants'[b] > 0 => b \in created'
  <2>1. CASE UNCHANGED grants
    BY <2>1, CountersStay DEF JointInv
  <2>2. CASE Grant(target[w]) /\ step[w] = "allow"
    <3>1. target[w] \in created /\ target[w] \in Ids
      BY <2>2 DEF JointInv, HookInv, HookTypes, Known, Knows, InLife, Lives
    <3>2. \A b \in Ids \ {target[w]} : grants'[b] = grants[b]
      BY <2>2, <3>1, GrantedOther DEF JointInv
    <3> QED BY <3>1, <3>2 DEF JointInv, Known, Frame
  <2> QED
    BY <2>1, <2>2 DEF Handle, AfterExists, Allow, Refuse, Confirm, Reject, Ingest,
                      AfterSelect, Store, StoreFails, AtStep, limits
<1> QED BY <1>2, <1>3, <1>4, <1>5 DEF Known

\* The calls of the store: PublicExists returns, or goes on.
LEMMA CommandKnown ==
  ASSUME JointInv, Frame, NEW w \in Workers, Command(w), UNCHANGED hookVars
  PROVE  Known'
<1>0. Types /\ Control /\ Kept
  BY DEF JointInv, IInv
<1>1. Knows(w)'
  <2>1. /\ step'[w] = step[w] /\ target'[w] = target[w] /\ since'[w] = since[w]
        /\ reply'[w] = reply[w] /\ pc[w] # "idle" /\ Knows(w)
    BY <1>0, CommandCalls DEF hookVars, JointInv, Known
  <2>2. InLife(w) => InLife(w)'
    BY LivesOn DEF InLife, Lives, hookVars
  <2>3. pc'[w] # "idle" => task'[w] = task[w]
    BY <1>0, CommandCalls
  <2>4. step[w] = "exists" /\ pc'[w] = "idle" /\ ans'[w] = "exists" => InLife(w)
    BY <1>0, <2>1, ExistsAnswer DEF Knows, InLife
  <2> QED BY <2>1, <2>2, <2>3, <2>4 DEF Knows
<1>2. ASSUME NEW x \in Workers \ {w} PROVE Knows(x)'
  BY <1>0, CommandCalls, StillKnows DEF hookVars, JointInv
<1> QED BY <1>1, <1>2, CountersStay DEF hookVars, JointInv, Known

LEMMA KnownStep == JointInv /\ [HookNext]_allVars => Known'
<1> SUFFICES ASSUME JointInv, [HookNext]_allVars PROVE Known'
  OBVIOUS
<1>0. Frame
  BY StoreStep, FrameStep DEF JointInv, IInv
<1>1. CASE \E w \in Workers, b \in Ids : Ask(w, b)
  BY <1>0, <1>1, AskKnown
<1>2. CASE \E w \in Workers : Handle(w)
  BY <1>0, <1>2, HandleKnown
<1>3. CASE \E w \in Workers : Command(w) /\ UNCHANGED hookVars
  BY <1>0, <1>3, CommandKnown
<1>4. ASSUME NEW w \in Workers, NEW op \in Ops, NEW u \in Users, NEW b \in Ids,
             UserCalls(w, op, u, b)
      PROVE  Known'
  <2>1. /\ UNCHANGED <<step, target, since, grants>> /\ step[w] = "idle"
        /\ reply' \in [Workers -> Replies] /\ reply'[w] = "none"
        /\ \A x \in Workers \ {w} : reply'[x] = reply[x]
    BY <1>4 DEF UserCalls, request, limits, JointInv, Known, Replies
  <2>2. \A x \in Workers \ {w} :
          pc'[x] = pc[x] /\ task'[x] = task[x] /\ ans'[x] = ans[x]
    BY <1>4 DEF UserCalls, Start, Goto, JointInv, IInv, Types
  <2>3. ASSUME NEW x \in Workers \ {w} PROVE Knows(x)'
    BY <1>0, <2>1, <2>2, StillKnows DEF JointInv
  <2>4. Knows(w)'
    BY <2>1 DEF Knows, Served, Past
  <2> QED BY <1>0, <2>1, <2>3, <2>4, CountersStay DEF Known, JointInv
<1>5. ASSUME UNCHANGED <<pc, task, ans, step, target, since, reply>>,
             \A b \in Ids : grants'[b] \in {grants[b], 0}
      PROVE  Known'
  BY <1>0, <1>5, StillKnows, CountersStay DEF JointInv, Known
<1>6. CASE Time
  <2>1. \A b \in Ids : grants'[b] \in {grants[b], 0}
    BY <1>6 DEF Time, Limiter!Elapse
  <2> QED BY <1>5, <1>6, <2>1 DEF Time, Tick, request, local
<1>7. CASE Restart
  <2>1. \A b \in Ids : grants'[b] \in {grants[b], 0}
    BY <1>7 DEF Restart, Limiter!Lose
  <2> QED BY <1>5, <1>7, <2>1 DEF Restart, ValkeyRestart, request, local
<1>8. CASE UNCHANGED allVars
  BY <1>5, <1>8 DEF allVars, vars, hookVars
<1> QED BY <1>1, <1>2, <1>3, <1>4, <1>6, <1>7, <1>8 DEF HookNext

THEOREM JointInvariant == HookSpec => []JointInv
<1>1. HookInit => JointInv
  BY HookStart, KnownStart, Start0 DEF HookInit, JointInv
<1>2. JointInv /\ [HookNext]_allVars => JointInv'
  BY HookStep, KnownStep, StoreStep, IInvStep DEF JointInv
<1> QED BY <1>1, <1>2, PTL DEF HookSpec

\* No request, whatever the cache says, makes a counter for an id that never
\* was a bin.
THEOREM CountersSafe == HookSpec => []CountersOnlyForBins
<1>1. JointInv => CountersOnlyForBins
  BY DEF JointInv, Known, CountersOnlyForBins
<1> QED BY <1>1, JointInvariant, PTL

\* A bin that expired a context timeout ago is gone for every request.
THEOREM ExpirySeen == HookSpec => []ExpiredIsGone
<1>1. JointInv => ExpiredIsGone
  BY DEF JointInv, Known, Knows, InLife, Lives, Served, ExpiredIsGone
<1> QED BY <1>1, JointInvariant, PTL
=============================================================================
