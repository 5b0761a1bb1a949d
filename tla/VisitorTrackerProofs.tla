------------------------ MODULE VisitorTrackerProofs ------------------------
(***************************************************************************)
(* For any visits, fingerprints, users, timeout and number of faults:      *)
(* VisitorTracker keeps its types, the first visit of a fingerprint and,   *)
(* as long as the account is there, its user, and a last_seen_at that goes *)
(* back by no more than the timeout of track; without faults it leaves no  *)
(* tracked fingerprint without a row; and it implements the log of module  *)
(* VisitorLog.                                                             *)
(***************************************************************************)
EXTENDS VisitorTracker, TLAPS

\* A row is not of the future, and was seen last at most a timeout before it
\* was seen first.
Dated ==
  \A f \in Prints : row[f] # NoRow =>
    /\ row[f].first <= now /\ row[f].last <= now
    /\ row[f].first <= row[f].last + Timeout

\* While all goes well: once the marker of f is set, or a visit of f is past
\* it, there is the row of f or someone is about to insert it.
Inserter(f) == \E v \in Visits : PrintOf(v) = f /\ pc[v] \in {"toInsert", "insert"}
Well(f)     == faults = 0 /\ \A v \in Visits : PrintOf(v) = f => pc[v] # "failed"
Marked(f)   == f \in marker \/ \E v \in Visits : PrintOf(v) = f /\ pc[v] \notin {"none", "setNX"}

Covered == \A f \in Prints : Well(f) /\ Marked(f) /\ row[f] = NoRow => Inserter(f)

\* While nothing has failed, nobody's account is gone.
AllHere == faults = 0 => users = Users

\* The inductive invariant.
IInv == TypeOK /\ Dated /\ Covered /\ AllHere

Steps == {"none", "setNX", "toInsert", "insert", "toUpdate",
          "update", "done", "failed"}

\* Who has read the clock within the timeout of track has read at most a
\* timeout ago.
LEMMA StampNear ==
  ASSUME TypeOK, NEW v \in Visits, At(v, "insert") \/ At(v, "update")
  PROVE  now <= stamp[v] + Timeout /\ stamp[v] <= now /\ stamp[v] \in 0..MaxTime
BY TicksAssumption DEF TypeOK, At, Visit

\* A row that is inserted or updated is a row.
LEMMA WrittenRow ==
  ASSUME TypeOK, NEW v \in Visits, NEW old \in Row \union {NoRow}
  PROVE  /\ NewRow(v) \in Row /\ NewRow(v) # NoRow
         /\ Seen(v, old) \in Row \union {NoRow}
         /\ Seen(v, old) = NoRow <=> old = NoRow
<1>1. stamp[v] \in 0..MaxTime /\ visit[v].user \in Someone
  BY DEF TypeOK, Visit
<1>2. NewRow(v) \in Row
  BY <1>1 DEF NewRow, Row
<1>3. old # NoRow => Seen(v, old) \in Row
  BY <1>1 DEF Seen, Row, UserAfter
<1> QED BY <1>2, <1>3, RowAssumption DEF Seen

\* Nor does a row lose more than its user.
LEMMA ClearedRow ==
  ASSUME NEW u, NEW old \in Row \union {NoRow}
  PROVE  /\ Without(u, old) \in Row \union {NoRow}
         /\ Without(u, old) = NoRow <=> old = NoRow
         /\ old # NoRow =>
              /\ Without(u, old).first = old.first /\ Without(u, old).last = old.last
              /\ Without(u, old).opener = old.opener
              /\ Without(u, old).user = old.user \/ u = old.user
<1>1. CASE old # NoRow
  <2>1. old \in Row
    BY <1>1
  <2> QED BY <1>1, <2>1, RowAssumption DEF Without, Row, Someone
<1>2. CASE old = NoRow
  BY <1>2 DEF Without
<1> QED BY <1>1, <1>2

\* What a step does to the row of f.
LEMMA RowStep ==
  ASSUME TypeOK, [Next]_vars, NEW f \in Prints
  PROVE  \/ row'[f] = row[f]
         \/ \E v \in Visits : /\ PrintOf(v) = f /\ At(v, "insert")
                              /\ row[f] = NoRow /\ row'[f] = NewRow(v)
         \/ \E v \in Visits : /\ PrintOf(v) = f /\ At(v, "update")
                              /\ row'[f] = Seen(v, row[f])
         \/ \E u \in users : row'[f] = Without(u, row[f]) /\ u \notin users'
<1>0. row \in [Prints -> Row \union {NoRow}]
  BY DEF TypeOK
<1>1. ASSUME NEW v \in Visits, Insert(v) \/ InsertFails(v)
      PROVE  \/ row'[f] = row[f]
             \/ /\ PrintOf(v) = f /\ At(v, "insert")
                /\ row[f] = NoRow /\ row'[f] = NewRow(v)
  BY <1>0, <1>1 DEF Insert, InsertFails, Insertable
<1>2. ASSUME NEW v \in Visits, Update(v) \/ UpdateFails(v)
      PROVE  \/ row'[f] = row[f]
             \/ PrintOf(v) = f /\ At(v, "update") /\ row'[f] = Seen(v, row[f])
  BY <1>0, <1>2 DEF Update, UpdateFails
<1>3. ASSUME NEW v \in Visits,
             \/ Arrive(v) \/ SetNX(v) \/ SetNXFails(v) \/ SetNXAnswerLost(v)
             \/ ReadClock(v) \/ GiveUp(v)
      PROVE  row' = row
  BY <1>3 DEF Arrive, SetNX, SetNXFails, SetNXAnswerLost, ReadClock, GiveUp
<1>4. CASE Tick \/ ApiStops \/ ValkeyRestart \/ UNCHANGED vars
  BY <1>4 DEF Tick, ApiStops, ValkeyRestart, vars
<1>5. ASSUME NEW u \in Users, RemoveAccount(u)
      PROVE  u \in users /\ row'[f] = Without(u, row[f]) /\ u \notin users'
  BY <1>5 DEF RemoveAccount
<1>6. ASSUME NEW u \in Users, SignInAgain(u) PROVE row' = row
  BY <1>6 DEF SignInAgain
<1> QED BY <1>1, <1>2, <1>3, <1>4, <1>5, <1>6 DEF Next, Step

-----------------------------------------------------------------------------
LEMMA StartInv == Init => IInv
<1> SUFFICES ASSUME Init PROVE IInv
  OBVIOUS
<1>1. visit \in [Visits -> Visit] /\ \A v \in Visits : visit[v].begun = 0
  BY TicksAssumption DEF Init, Visit
<1>2. TypeOK
  BY <1>1, TicksAssumption DEF Init, TypeOK
<1>3. Dated /\ Covered /\ AllHere
  BY DEF Init, Dated, Covered, Marked, AllHere
<1> QED BY <1>2, <1>3 DEF IInv

\* The parts of TypeOK that a step of a visit can touch.
LEMMA TypeStep == TypeOK /\ [Next]_vars => TypeOK'
<1> SUFFICES ASSUME TypeOK, [Next]_vars PROVE TypeOK'
  OBVIOUS
<1>1. row' \in [Prints -> Row \union {NoRow}]
  <2>0. row \in [Prints -> Row \union {NoRow}]
    BY DEF TypeOK
  <2>1. ASSUME NEW v \in Visits, Insert(v) \/ InsertFails(v)
        PROVE  row' \in [Prints -> Row \union {NoRow}]
    BY <2>0, <2>1, WrittenRow DEF Insert, InsertFails
  <2>2. ASSUME NEW v \in Visits, Update(v) \/ UpdateFails(v)
        PROVE  row' \in [Prints -> Row \union {NoRow}]
    BY <2>0, <2>2, WrittenRow DEF Update, UpdateFails
  <2>3. ASSUME NEW v \in Visits,
               \/ Arrive(v) \/ SetNX(v) \/ SetNXFails(v) \/ SetNXAnswerLost(v)
               \/ ReadClock(v) \/ GiveUp(v)
        PROVE  row' = row
    BY <2>3 DEF Arrive, SetNX, SetNXFails, SetNXAnswerLost, ReadClock, GiveUp
  <2>4. CASE Tick \/ ApiStops \/ ValkeyRestart \/ UNCHANGED vars
    BY <2>0, <2>4 DEF Tick, ApiStops, ValkeyRestart, vars
  <2>5. ASSUME NEW u \in Users, RemoveAccount(u)
        PROVE  row' \in [Prints -> Row \union {NoRow}]
    BY <2>0, <2>5, ClearedRow DEF RemoveAccount
  <2>6. ASSUME NEW u \in Users, SignInAgain(u) PROVE row' = row
    BY <2>6 DEF SignInAgain
  <2> QED BY <2>0, <2>1, <2>2, <2>3, <2>4, <2>5, <2>6 DEF Next, Step
<1> USE TicksAssumption DEF TypeOK, At, Goto, Fault
<1>2. ASSUME NEW v \in Visits, Arrive(v) PROVE TypeOK'
  <2>1. visit' \in [Visits -> Visit]
    BY <1>2 DEF Arrive, Visit
  <2>2. /\ visit'[v].begun = now
        /\ \A x \in Visits \ {v} : visit'[x] = visit[x] /\ pc'[x] = pc[x]
        /\ pc'[v] = "setNX"
    BY <1>2 DEF Arrive
  <2> QED BY <1>2, <2>1, <2>2 DEF Arrive
<1>3. ASSUME NEW v \in Visits, SetNX(v) \/ SetNXFails(v) \/ SetNXAnswerLost(v)
      PROVE  TypeOK'
  <2>1. marker' \subseteq Prints
    BY <1>3 DEF SetNX, SetNXFails, SetNXAnswerLost, PrintOf, Visit
  <2>2. /\ pc' \in [Visits -> Steps]
        /\ \A x \in Visits : pc'[x] \in {"insert", "update"} => pc'[x] = pc[x]
    BY <1>3 DEF SetNX, SetNXFails, SetNXAnswerLost, NextStep, Steps
  <2> QED BY <1>1, <1>3, <2>1, <2>2 DEF SetNX, SetNXFails, SetNXAnswerLost, Steps
<1>4. ASSUME NEW v \in Visits, ReadClock(v) PROVE TypeOK'
  <2>1. visit[v].begun <= now
    OBVIOUS
  <2> QED BY <1>1, <1>4, <2>1 DEF ReadClock
<1>5. ASSUME NEW v \in Visits, Insert(v) \/ InsertFails(v) \/ Update(v) \/ UpdateFails(v)
      PROVE  TypeOK'
  BY <1>1, <1>5 DEF Insert, InsertFails, Update, UpdateFails
<1>6. ASSUME NEW v \in Visits, GiveUp(v) PROVE TypeOK'
  BY <1>1, <1>6 DEF GiveUp
<1>7. CASE Tick
  <2>1. now' \in 0..MaxTime /\ now <= now' /\ \A v \in Visits : visit[v].begun \in Int
    BY <1>7 DEF Tick, Visit
  <2> QED BY <1>7, <2>1 DEF Tick, Visit
<1>8. CASE ApiStops \/ ValkeyRestart \/ UNCHANGED vars
  BY <1>1, <1>8 DEF ApiStops, ValkeyRestart, vars
<1>9. ASSUME NEW u \in Users, RemoveAccount(u) \/ SignInAgain(u) PROVE TypeOK'
  BY <1>1, <1>9 DEF RemoveAccount, SignInAgain
<1> QED BY <1>2, <1>3, <1>4, <1>5, <1>6, <1>7, <1>8, <1>9 DEF Next, Step

\* Time does not go back.
LEMMA TimeStep ==
  ASSUME TypeOK, [Next]_vars
  PROVE  now \in Nat /\ now' \in Nat /\ now <= now'
BY TicksAssumption
   DEF TypeOK, Next, Step, Arrive, SetNX, SetNXFails, SetNXAnswerLost, ReadClock, Insert,
       InsertFails, Update, UpdateFails, GiveUp, RemoveAccount, SignInAgain, Tick,
     ApiStops, ValkeyRestart, vars

LEMMA DatedStep == TypeOK /\ Dated /\ [Next]_vars => Dated'
<1> SUFFICES ASSUME TypeOK, Dated, [Next]_vars, NEW f \in Prints, row'[f] # NoRow
             PROVE  /\ row'[f].first <= now' /\ row'[f].last <= now'
                    /\ row'[f].first <= row'[f].last + Timeout
  BY DEF Dated
<1>0. now \in Nat /\ now' \in Nat /\ now <= now' /\ Timeout \in Nat
  BY TimeStep, TicksAssumption
<1>1. ASSUME row'[f] = row[f]
      PROVE  /\ row'[f].first <= now' /\ row'[f].last <= now'
             /\ row'[f].first <= row'[f].last + Timeout
  <2>1. row[f] \in Row
    BY <1>1 DEF TypeOK
  <2> QED BY <1>0, <1>1, <2>1 DEF Dated, Row
<1>2. ASSUME NEW v \in Visits, At(v, "insert"), row'[f] = NewRow(v)
      PROVE  /\ row'[f].first <= now' /\ row'[f].last <= now'
             /\ row'[f].first <= row'[f].last + Timeout
  BY <1>0, <1>2, StampNear DEF NewRow
<1>3. ASSUME NEW v \in Visits, At(v, "update"), row'[f] = Seen(v, row[f])
      PROVE  /\ row'[f].first <= now' /\ row'[f].last <= now'
             /\ row'[f].first <= row'[f].last + Timeout
  <2>1. row[f] \in Row /\ row'[f].first = row[f].first /\ row'[f].last = stamp[v]
    BY <1>3 DEF Seen, TypeOK
  <2>2. row[f].first \in Nat /\ row[f].first <= now
    BY <1>3, <2>1 DEF Dated, Row, Seen
  <2> QED BY <1>0, <1>3, <2>1, <2>2, StampNear
<1>4. ASSUME NEW u \in users, row'[f] = Without(u, row[f])
      PROVE  /\ row'[f].first <= now' /\ row'[f].last <= now'
             /\ row'[f].first <= row'[f].last + Timeout
  <2>1. /\ row[f] \in Row /\ row[f] # NoRow
        /\ row'[f].first = row[f].first /\ row'[f].last = row[f].last
    BY <1>4, ClearedRow DEF TypeOK
  <2>2. row[f].first \in Nat /\ row[f].last \in Nat
    BY <2>1 DEF Row
  <2> QED BY <1>0, <2>1, <2>2 DEF Dated
<1> QED BY <1>1, <1>2, <1>3, <1>4, RowStep

-----------------------------------------------------------------------------
\* What went well at the end of a step went well before it.
LEMMA WellBefore ==
  ASSUME TypeOK, [Next]_vars, NEW f \in Prints, Well(f)'
  PROVE  /\ Well(f) /\ \A v \in Visits : PrintOf(v)' = PrintOf(v)
         /\ faults' = 0 /\ faults = 0
<1> USE DEF TypeOK, Goto, Fault
<1>1. \A v \in Visits : PrintOf(v)' = PrintOf(v)
  <2>1. ASSUME NEW x \in Visits, Arrive(x) PROVE \A v \in Visits : PrintOf(v)' = PrintOf(v)
    BY <2>1 DEF Arrive, PrintOf
  <2>2. ASSUME ~ \E x \in Visits : Arrive(x) PROVE visit' = visit
    BY <2>2 DEF Next, Step, SetNX, SetNXFails, SetNXAnswerLost, ReadClock, Insert,
       InsertFails, Update, UpdateFails, GiveUp, RemoveAccount, SignInAgain, Tick,
     ApiStops, ValkeyRestart, vars
  <2> QED BY <2>1, <2>2 DEF PrintOf
<1>2. faults' = 0
  BY DEF Well
<1>3. faults = 0
  BY <1>2 DEF Next, Step, Arrive, SetNX, SetNXFails, SetNXAnswerLost, ReadClock, Insert,
     InsertFails, Update, UpdateFails, GiveUp, RemoveAccount, SignInAgain, Tick,
     ApiStops, ValkeyRestart, vars
<1>4. ASSUME NEW v \in Visits, pc[v] = "failed" PROVE pc'[v] = "failed"
  BY <1>4 DEF Next, Step, Arrive, SetNX, SetNXFails, SetNXAnswerLost, ReadClock, Insert,
     InsertFails, Update, UpdateFails, GiveUp, RemoveAccount, SignInAgain, Tick,
     ApiStops, ValkeyRestart, vars,
     At, Active, Ended
<1> QED BY <1>1, <1>2, <1>3, <1>4 DEF Well

\* A step without a fault: the marker of f is set by a visit that goes on to
\* insert, and whoever is about to insert leaves a row.
LEMMA CoveredStep == TypeOK /\ Covered /\ AllHere /\ [Next]_vars => Covered'
<1> SUFFICES ASSUME TypeOK, Covered, AllHere, [Next]_vars, NEW f \in Prints,
                    Well(f)', Marked(f)', row'[f] = NoRow
             PROVE  Inserter(f)'
  BY DEF Covered
<1>1. /\ Well(f) /\ \A v \in Visits : PrintOf(v)' = PrintOf(v)
      /\ faults' = 0 /\ faults = 0
  BY WellBefore
<1>2. row[f] = NoRow
  BY RowStep, WrittenRow, ClearedRow DEF TypeOK
<1>3. Marked(f) => Inserter(f)
  BY <1>1, <1>2 DEF Covered
<1> USE DEF TypeOK, Goto, At
<1>4. ASSUME NEW v \in Visits, Arrive(v) PROVE Inserter(f)'
  <2>1. Marked(f)
    BY <1>1, <1>4 DEF Arrive, Marked
  <2> QED BY <1>1, <1>3, <1>4, <2>1 DEF Arrive, Inserter
<1>5. ASSUME NEW v \in Visits, SetNX(v) PROVE Inserter(f)'
  <2>1. CASE PrintOf(v) = f /\ f \notin marker
    BY <1>1, <1>5, <2>1 DEF SetNX, NextStep, Inserter
  <2>2. CASE PrintOf(v) # f \/ f \in marker
    <3>1. Marked(f)
      BY <1>1, <1>5, <2>2 DEF SetNX, Marked
    <3> QED BY <1>1, <1>3, <1>5, <3>1 DEF SetNX, Inserter
  <2> QED BY <2>1, <2>2
<1>6. ASSUME NEW v \in Visits, ReadClock(v) PROVE Inserter(f)'
  <2>1. Marked(f)
    BY <1>1, <1>6 DEF ReadClock, Marked
  <2> QED BY <1>1, <1>3, <1>6, <2>1 DEF ReadClock, Inserter
<1>7. ASSUME NEW v \in Visits, Insert(v) PROVE Inserter(f)'
  <2>1. PrintOf(v) # f
    <3>1. Allowed(visit[v].user)
      BY <1>1 DEF AllHere, Allowed, Visit, Someone
    <3> QED BY <1>2, <1>7, <3>1, WrittenRow DEF Insert, Insertable
  <2>2. Marked(f)
    BY <1>1, <1>7, <2>1 DEF Insert, Marked
  <2> QED BY <1>1, <1>3, <1>7, <2>1, <2>2 DEF Insert, Inserter
<1>8. ASSUME NEW v \in Visits, Update(v) PROVE Inserter(f)'
  <2>1. Marked(f)
    BY <1>1, <1>8 DEF Update, Marked
  <2> QED BY <1>1, <1>3, <1>8, <2>1 DEF Update, Inserter
<1>9. ASSUME NEW v \in Visits, GiveUp(v) PROVE Inserter(f)'
  <2>1. PrintOf(v) # f
    BY <1>1, <1>9 DEF GiveUp, Well
  <2>2. Marked(f)
    BY <1>1, <1>9, <2>1 DEF GiveUp, Marked
  <2> QED BY <1>1, <1>3, <1>9, <2>1, <2>2 DEF GiveUp, Inserter
<1>10. CASE Tick \/ ValkeyRestart \/ (\E u \in Users : SignInAgain(u)) \/ UNCHANGED vars
  <2>1. UNCHANGED pc /\ marker' \subseteq marker
    BY <1>10 DEF Tick, ValkeyRestart, SignInAgain, vars
  <2>2. Marked(f)
    BY <1>1, <2>1 DEF Marked
  <2> QED BY <1>1, <1>3, <2>1, <2>2 DEF Inserter
<1>11. ASSUME \/ ApiStops
              \/ \E u \in Users : RemoveAccount(u)
              \/ \E v \in Visits : \/ SetNXFails(v) \/ SetNXAnswerLost(v)
                                   \/ InsertFails(v) \/ UpdateFails(v)
       PROVE  FALSE
  BY <1>1, <1>11 DEF ApiStops, RemoveAccount, SetNXFails, SetNXAnswerLost, InsertFails, UpdateFails, Fault
<1> QED BY <1>4, <1>5, <1>6, <1>7, <1>8, <1>9, <1>10, <1>11 DEF Next, Step

LEMMA AllHereStep == TypeOK /\ AllHere /\ [Next]_vars => AllHere'
BY DEF TypeOK, AllHere, Fault, Next, Step, Arrive, SetNX, SetNXFails, SetNXAnswerLost,
     ReadClock, Insert, InsertFails, Update, UpdateFails, GiveUp, RemoveAccount, SignInAgain,
     Tick, ApiStops, ValkeyRestart, vars

LEMMA StepInv == IInv /\ [Next]_vars => IInv'
BY TypeStep, DatedStep, CoveredStep, AllHereStep DEF IInv

-----------------------------------------------------------------------------
\* The invariant the theorems rest on.
THEOREM Invariant == Spec => []IInv
BY StartInv, StepInv, PTL DEF Spec

\* The variables keep their types; no statement carries a time of the future
\* or from before its visit.
THEOREM TypeCorrect == Spec => []TypeOK
<1>1. IInv => TypeOK
  BY DEF IInv
<1> QED BY <1>1, Invariant, PTL

\* If no command fails, none is overdue and no account is removed, a tracked
\* fingerprint has a row, in whatever order inserts and updates of its visits
\* arrive and whenever Valkey forgets the markers.
THEOREM RowsKept == Spec => []RecordedUnlessFault
<1>1. ASSUME IInv PROVE RecordedUnlessFault
  <2>1. SUFFICES ASSUME NEW f \in Prints, Well(f), Settled(f), row[f] = NoRow PROVE FALSE
    BY DEF RecordedUnlessFault, Well
  <2>2. Inserter(f)
    BY <1>1, <2>1 DEF IInv, Covered, Marked, Settled
  <2> QED BY <2>1, <2>2 DEF Inserter, Settled, Active, Ended
<1> QED BY <1>1, Invariant, PTL

\* The first visit of a fingerprint stays its first, and a user that is known
\* stays until the account is removed.
THEOREM OriginSafe == Spec => OriginKept
<1>1. ASSUME IInv, [Next]_vars
      PROVE  \A f \in Prints :
               row[f] # NoRow =>
                 /\ row'[f] # NoRow
                 /\ row'[f].first = row[f].first /\ row'[f].opener = row[f].opener
                 /\ row[f].user # Nobody => \/ row'[f].user = row[f].user
                                            \/ row[f].user \in users \ users'
  <2>1. SUFFICES ASSUME NEW f \in Prints, row[f] # NoRow, row'[f] # row[f]
                 PROVE  /\ row'[f] # NoRow
                        /\ row'[f].first = row[f].first /\ row'[f].opener = row[f].opener
                        /\ row[f].user # Nobody => \/ row'[f].user = row[f].user
                                                   \/ row[f].user \in users \ users'
    OBVIOUS
  <2>5. row[f] \in Row
    BY <1>1, <2>1 DEF IInv, TypeOK
  <2>2. ASSUME NEW v \in Visits, row'[f] = Seen(v, row[f])
        PROVE  /\ row'[f] # NoRow
               /\ row'[f].first = row[f].first /\ row'[f].opener = row[f].opener
               /\ row'[f].user = UserAfter(row[f].user, visit[v].user)
    <3>1. row'[f] # NoRow
      BY <1>1, <2>1, <2>2, WrittenRow DEF IInv, TypeOK
    <3> QED BY <2>1, <2>2, <3>1 DEF Seen
  <2>3. ASSUME NEW u \in users, row'[f] = Without(u, row[f]), u \notin users'
        PROVE  /\ row'[f] # NoRow
               /\ row'[f].first = row[f].first /\ row'[f].opener = row[f].opener
               /\ row'[f].user = row[f].user \/ row[f].user \in users \ users'
    BY <2>1, <2>5, <2>3, ClearedRow
  <2>4. \/ \E v \in Visits : row'[f] = Seen(v, row[f])
        \/ \E u \in users : row'[f] = Without(u, row[f]) /\ u \notin users'
    BY <1>1, <2>1, RowStep DEF IInv
  <2> QED BY <2>2, <2>3, <2>4 DEF UserAfter
<1> QED BY <1>1, Invariant, PTL DEF Spec, OriginKept

\* Updates that overtake each other set last_seen_at back by no more than the
\* timeout of track.
THEOREM LastSeenSafe == Spec => LastSeenNearby
<1>1. ASSUME IInv, [Next]_vars
      PROVE  \A f \in Prints :
               row[f] # NoRow => /\ row'[f].last + Timeout >= row[f].last
                                 /\ row'[f].last + Timeout >= row[f].first
  <2>0. SUFFICES ASSUME NEW f \in Prints, row[f] # NoRow
                 PROVE  /\ row'[f].last + Timeout >= row[f].last
                        /\ row'[f].last + Timeout >= row[f].first
    OBVIOUS
  <2>1. /\ row[f] \in Row /\ row[f].first <= now /\ row[f].last <= now
        /\ row[f].first <= row[f].last + Timeout
    BY <1>1, <2>0 DEF IInv, TypeOK, Dated
  <2>2. row[f].first \in Nat /\ row[f].last \in Nat /\ Timeout \in Nat /\ now \in Nat
    BY <1>1, <2>1, TicksAssumption DEF Row, IInv, TypeOK
  <2>3. \/ row'[f] = row[f]
        \/ \E v \in Visits : At(v, "update") /\ row'[f] = Seen(v, row[f])
        \/ \E u \in users : row'[f] = Without(u, row[f])
    BY <1>1, <2>0, RowStep DEF IInv
  <2>4. ASSUME NEW v \in Visits, At(v, "update"), row'[f] = Seen(v, row[f])
        PROVE  row'[f].last + Timeout >= now /\ row'[f].last \in Nat
    <3>1. row'[f].last = stamp[v]
      BY <2>0, <2>4 DEF Seen
    <3> QED BY <1>1, <2>2, <2>4, <3>1, StampNear DEF IInv
  <2>5. ASSUME NEW u \in users, row'[f] = Without(u, row[f])
        PROVE  row'[f].last = row[f].last
    BY <2>0, <2>1, <2>5, ClearedRow
  <2> QED BY <2>1, <2>2, <2>3, <2>4, <2>5
<1> QED BY <1>1, Invariant, PTL DEF Spec, LastSeenNearby

-----------------------------------------------------------------------------
\* What a step does to the phases: that of v turns with its place.
LEMMA PhaseTurn ==
  ASSUME TypeOK, NEW v \in Visits, NEW s, Goto(v, s), pc[v] # "none", ~Ended(v)
  PROVE  /\ Phase[v] = "tracked"
         /\ s \in {"done", "failed"} => Log!Turn(v, "over")
         /\ s \notin {"none", "done", "failed"} => Phase' = Phase
<1>1. Phase = [Phase EXCEPT ![v] = "tracked"] /\ Phase[v] = "tracked"
  BY DEF Phase
<1>2. s \in {"done", "failed"} => Phase' = [Phase EXCEPT ![v] = "over"]
  BY DEF TypeOK, Goto, Phase, Ended
<1>3. s \notin {"none", "done", "failed"} => Phase' = Phase
  BY DEF TypeOK, Goto, Phase, Ended
<1> QED BY <1>1, <1>2, <1>3 DEF Log!Turn

\* A visit that ends leaves, if it writes nothing.
LEMMA EndLeaves ==
  ASSUME TypeOK, NEW v \in Visits, Active(v), NEW s \in {"done", "failed"}, Goto(v, s),
         UNCHANGED <<row, users, now, visit>>
  PROVE  Log!Leave({v})
BY DEF TypeOK, Active, Goto, Phase, Ended, Log!Leave

\* A statement that v may send carries a time that v may write.
LEMMA Timely ==
  ASSUME TypeOK, NEW v \in Visits, At(v, "insert") \/ At(v, "update")
  PROVE  /\ stamp[v] \in 0..now /\ stamp[v] \in visit[v].begun..now
         /\ now <= visit[v].begun + Timeout
         /\ Active(v) /\ Phase[v] = "tracked"
<1>1. stamp[v] \in Nat /\ now \in Nat /\ visit[v].begun \in Nat
  BY TicksAssumption DEF TypeOK, Visit
<1> QED BY <1>1 DEF TypeOK, At, Active, Ended, Phase

\* An INSERT that makes a row opens it.
LEMMA InsertOpens ==
  ASSUME TypeOK, NEW v \in Visits, At(v, "insert"), Insertable(v),
         row' = [row EXCEPT ![PrintOf(v)] = NewRow(v)], UNCHANGED <<users, now, visit>>,
         Phase' = Phase \/ Log!Turn(v, "over")
  PROVE  Log!Next
<1>1. Log!Open(v, stamp[v])
  BY Timely DEF Log!Open, Log!Write, PrintOf, NewRow, Insertable, Allowed
<1> QED BY <1>1, Timely DEF Log!Next

\* An UPDATE is the visit being seen, or finds no row.
LEMMA UpdateSees ==
  ASSUME TypeOK, NEW v \in Visits, At(v, "update"), NEW s \in {"done", "failed"}, Goto(v, s),
         row' = [row EXCEPT ![PrintOf(v)] = Seen(v, row[PrintOf(v)])], Updatable(v),
         UNCHANGED <<users, now, visit>>
  PROVE  Log!Next
<1>1. CASE row[PrintOf(v)] = NoRow
  <2>1. row' = row
    BY <1>1 DEF TypeOK, Seen
  <2> QED BY <2>1, Timely, EndLeaves DEF Log!Next
<1>2. CASE row[PrintOf(v)] # NoRow
  <2>1. Log!Turn(v, "over")
    BY Timely, PhaseTurn DEF Active
  <2>2. Log!See(v, stamp[v])
    BY <1>2, <2>1, Timely DEF Log!See, Log!Write, PrintOf, Seen, UserAfter,
       Updatable, Allowed
  <2> QED BY <2>2, Timely DEF Log!Next
<1> QED BY <1>1, <1>2

\* Every step of a visit is one of the log, or none.
LEMMA LogStep == TypeOK /\ [Next]_vars => [Log!Next]_Log!vars
<1> SUFFICES ASSUME TypeOK, [Next]_vars PROVE [Log!Next]_Log!vars
  OBVIOUS
<1> USE DEF Log!vars
<1>1. ASSUME NEW v \in Visits, Arrive(v) PROVE Log!Begin(v)
  BY <1>1 DEF TypeOK, Arrive, Goto, Phase, Ended, Log!Begin, Log!Turn
<1>2. ASSUME NEW v \in Visits, SetNX(v) \/ SetNXFails(v) \/ SetNXAnswerLost(v) \/ ReadClock(v)
      PROVE  UNCHANGED Log!vars
  <2>1. UNCHANGED <<row, users, now, visit>> /\ pc[v] \in {"setNX", "toInsert", "toUpdate"}
    BY <1>2 DEF SetNX, SetNXFails, SetNXAnswerLost, ReadClock, At
  <2>2. \/ UNCHANGED pc
        \/ \E s \in {"toInsert", "toUpdate", "insert", "update"} : Goto(v, s)
    BY <1>2 DEF SetNX, SetNXFails, SetNXAnswerLost, ReadClock, NextStep
  <2>3. Phase' = Phase
    BY <2>1, <2>2, PhaseTurn DEF Ended, Phase
  <2> QED BY <2>1, <2>3
<1>3. ASSUME NEW v \in Visits, Insert(v) \/ InsertFails(v) PROVE [Log!Next]_Log!vars
  <2>1. At(v, "insert") /\ UNCHANGED <<users, now, visit>>
    BY <1>3 DEF Insert, InsertFails
  <2>2. Goto(v, "done") => Log!Turn(v, "over")
    BY <2>1, PhaseTurn, Timely DEF Active
  <2>3. Goto(v, "toUpdate") => Phase' = Phase
    BY <2>1, PhaseTurn, Timely DEF Active
  <2>4. \/ /\ Insertable(v) /\ row' = [row EXCEPT ![PrintOf(v)] = NewRow(v)]
           /\ Goto(v, "done") \/ Goto(v, "toUpdate")
        \/ row' = row /\ Goto(v, "toUpdate")
    BY <1>3 DEF TypeOK, Insert, InsertFails
  <2> QED BY <2>1, <2>2, <2>3, <2>4, InsertOpens
<1>4. ASSUME NEW v \in Visits, Update(v) \/ UpdateFails(v) PROVE Log!Next
  <2>1. /\ At(v, "update") /\ UNCHANGED <<users, now, visit>>
        /\ \E s \in {"done", "failed"} : Goto(v, s)
        /\ \/ /\ row' = [row EXCEPT ![PrintOf(v)] = Seen(v, row[PrintOf(v)])]
              /\ Updatable(v)
           \/ row' = row
    BY <1>4 DEF TypeOK, Update, UpdateFails
  <2>2. row' = row => Log!Leave({v})
    BY <2>1, Timely, EndLeaves
  <2> QED BY <2>1, <2>2, UpdateSees DEF Log!Next
<1>5. ASSUME NEW v \in Visits, GiveUp(v) PROVE Log!Leave({v})
  BY <1>5, EndLeaves DEF GiveUp
<1>6. CASE ApiStops
  <2>1. Phase' = [v \in Visits |-> IF v \in Visits /\ Phase[v] = "tracked" THEN "over" ELSE Phase[v]]
    BY <1>6 DEF TypeOK, ApiStops, Active, Ended, Phase
  <2> QED BY <1>6, <2>1 DEF ApiStops, Log!Leave, Log!Next
<1>7. CASE Tick
  BY <1>7 DEF Tick, Phase, Ended, Log!Tick, Log!Next
<1>8. CASE ValkeyRestart \/ UNCHANGED vars
  BY <1>8 DEF ValkeyRestart, vars, Phase, Ended
<1>9. ASSUME NEW u \in Users, RemoveAccount(u) PROVE Log!Remove(u)
  BY <1>9 DEF RemoveAccount, Without, Phase, Ended, Log!Remove
<1>10. ASSUME NEW u \in Users, SignInAgain(u) PROVE Log!Return(u)
  BY <1>10 DEF SignInAgain, Phase, Ended, Log!Return
<1> QED BY <1>1, <1>2, <1>3, <1>4, <1>5, <1>6, <1>7, <1>8, <1>9, <1>10
        DEF Next, Step, Log!Next

\* Whatever fails, and whenever the API stops or Valkey forgets the markers,
\* tracking writes the rows as module VisitorLog does: in the time of a visit,
\* opening a row only where there is none, and being seen once, at the end.
THEOREM LogKept == Spec => VisitorLogSpec
<1>1. Init => Log!Init
  BY DEF Init, Log!Init, Phase, Ended, Someone
<1>2. IInv /\ [Next]_vars => [Log!Next]_Log!vars
  BY LogStep DEF IInv
<1> QED BY <1>1, <1>2, Invariant, PTL DEF Spec, VisitorLogSpec, Log!Spec
=============================================================================
