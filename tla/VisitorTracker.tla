--------------------------- MODULE VisitorTracker ---------------------------
(***************************************************************************)
(* The visitor log: handleVisitorEvent (internal/httpapi/visitor.go) sends *)
(* its response and leaves the visit to a goroutine of its own,            *)
(* Store.TrackAsync (internal/visitor/store.go), which nobody waits for.   *)
(* A marker "visitor:fp:<fingerprint>" in Valkey, set once and for ever,   *)
(* decides whether the goroutine inserts the row of the fingerprint or     *)
(* updates it; the row itself is in PostgreSQL.                            *)
(*                                                                         *)
(* Every command and every read of the clock is a step.  Goroutines of the *)
(* same fingerprint interleave, time passes between their steps, commands  *)
(* fail or lose their answers, the API stops, and Valkey restarts empty.   *)
(* An operator may remove the row of an account, which clears user_id      *)
(* wherever it names it (REFERENCES users ON DELETE SET NULL), and from    *)
(* then on refuses what would write it anew, until the user signs in       *)
(* again; a session outlives the row.                                      *)
(* Ids are valid and texts short: other visits end before the first step.  *)
(***************************************************************************)
EXTENDS Integers, FiniteSets

CONSTANTS Visits,    \* visits, each tracked by a goroutine of its own
          Prints,    \* fingerprints
          Users,
          Nobody,    \* the user of a visitor who is not signed in
          NoRow,     \* a fingerprint that has no row
          Timeout,   \* context timeout of track, in ticks
          MaxTime,   \* bound of the model: last tick
          MaxFaults  \* bound of the model: failures, lost answers, stops,
                     \* and accounts removed

ASSUME VisitsAssumption == IsFiniteSet(Visits) /\ Nobody \notin Users
ASSUME TicksAssumption  == Timeout \in Nat /\ MaxTime \in Nat /\ MaxFaults \in Nat

Someone == Users \union {Nobody}

\* A row of visitors: first_seen_at, last_seen_at, user_id, and the visits
\* that gave it its first_path and its session_id.
Row == [first: 0..MaxTime, last: 0..MaxTime, user: Someone,
        opener: Visits, session: Visits]
ASSUME RowAssumption == NoRow \notin Row

Visit == [print: Prints, user: Someone, begun: 0..MaxTime]

VARIABLES
  marker,  \* fingerprints that have a marker
  row,     \* row[f]: the row of f, or NoRow
  users,   \* accounts that have a row in users
  now,     \* the clock
  pc,      \* pc[v]: the next step of the goroutine of v
  visit,   \* visit[v]: what v is about
  stamp,   \* stamp[v]: time.Now() for the statement that v sends next
  faults   \* faults so far

vars == <<marker, row, users, now, pc, visit, stamp, faults>>

Init == /\ marker = {}
        /\ row = [f \in Prints |-> NoRow]
        /\ users = Users
        /\ now = 0
        /\ pc = [v \in Visits |-> "none"]
        /\ visit \in [Visits -> [print: Prints, user: Someone, begun: {0}]]
        /\ stamp = [v \in Visits |-> 0]
        /\ faults = 0

-----------------------------------------------------------------------------
Ended(v)  == pc[v] \in {"done", "failed"}
Active(v) == pc[v] # "none" /\ ~Ended(v)

PrintOf(v) == visit[v].print

\* Mutant of At: the goroutine runs without a timeout.
AtAnyTime(v, s) == pc[v] = s

\* The goroutine of v is at step s, and its context is not over.
At(v, s) == pc[v] = s /\ now <= visit[v].begun + Timeout

Goto(v, s) == pc' = [pc EXCEPT ![v] = s]

Fault == faults < MaxFaults /\ faults' = faults + 1

\* The handler answers 204 and calls TrackAsync.
Arrive(v) ==
  /\ pc[v] = "none"
  /\ visit' = [visit EXCEPT ![v] = [print |-> visit[v].print,
                                    user |-> visit[v].user, begun |-> now]]
  /\ Goto(v, "setNX")
  /\ UNCHANGED <<marker, row, users, now, stamp, faults>>

-----------------------------------------------------------------------------
\* Mutants of NextStep: who sets the marker leaves the row to others; the
\* statement is sent with the zero time.
NextStepSwapped(fresh)   == IF fresh THEN "toUpdate" ELSE "toInsert"
NextStepUnstamped(fresh) == IF fresh THEN "insert" ELSE "update"

\* Who sets the marker inserts the row, the others update it.
NextStep(fresh) == IF fresh THEN "toInsert" ELSE "toUpdate"

\* track: SETNX of the marker, without expiry.
SetNX(v) ==
  /\ At(v, "setNX")
  /\ marker' = marker \union {PrintOf(v)}
  /\ Goto(v, NextStep(PrintOf(v) \notin marker))
  /\ UNCHANGED <<row, users, now, visit, stamp, faults>>

\* SETNX fails: persist tries to insert, whatever the marker says.
SetNXFails(v) ==
  /\ At(v, "setNX")
  /\ Fault
  /\ Goto(v, "toInsert")
  /\ UNCHANGED <<marker, row, users, now, visit, stamp>>

\* SETNX is applied and its answer lost: the client library sends it again,
\* or gives up.
SetNXAnswerLost(v) ==
  /\ At(v, "setNX")
  /\ Fault
  /\ marker' = marker \union {PrintOf(v)}
  /\ \/ UNCHANGED pc
     \/ Goto(v, "toInsert")
  /\ UNCHANGED <<row, users, now, visit, stamp>>

\* insert and updateSeen begin with time.Now().
ReadClock(v) ==
  /\ \/ At(v, "toInsert") /\ Goto(v, "insert")
     \/ At(v, "toUpdate") /\ Goto(v, "update")
  /\ stamp' = [stamp EXCEPT ![v] = now]
  /\ UNCHANGED <<marker, row, users, now, visit, faults>>

NewRow(v) == [first |-> stamp[v], last |-> stamp[v], user |-> visit[v].user,
              opener |-> v, session |-> v]

\* The foreign key allows u as a user_id.
Allowed(u) == u \in users \union {Nobody}

\* There is no row yet, and the user is none or has an account.
Insertable(v) == row[PrintOf(v)] = NoRow /\ Allowed(visit[v].user)

\* insert: the primary key refuses a second row, the foreign key a user whose
\* account is gone, and then, as after every error, track goes on with
\* updateSeen.
Insert(v) ==
  /\ At(v, "insert")
  /\ IF Insertable(v)
     THEN /\ row' = [row EXCEPT ![PrintOf(v)] = NewRow(v)]
          /\ Goto(v, "done")
     ELSE /\ Goto(v, "toUpdate")
          /\ UNCHANGED row
  /\ UNCHANGED <<marker, users, now, visit, stamp, faults>>

\* INSERT fails, or is applied and its answer lost.
InsertFails(v) ==
  /\ At(v, "insert")
  /\ Fault
  /\ row' \in {row, [row EXCEPT ![PrintOf(v)] = IF Insertable(v) THEN NewRow(v) ELSE @]}
  /\ Goto(v, "toUpdate")
  /\ UNCHANGED <<marker, users, now, visit, stamp>>

\* Mutant of UserAfter: the arguments of COALESCE the other way round.
UserAfterLatest(old, u) == IF u # Nobody THEN u ELSE old

\* user_id = COALESCE(user_id, $4), where there is a user.
UserAfter(old, u) == IF old = Nobody THEN u ELSE old

\* What updateSeen makes of a row; of no row it makes nothing.
Seen(v, old) ==
  IF old = NoRow THEN NoRow
  ELSE [first |-> old.first, last |-> stamp[v],
        user |-> UserAfter(old.user, visit[v].user),
        opener |-> old.opener, session |-> v]

\* There is no row to change, or one that the foreign key lets have the user.
Updatable(v) ==
  LET old == row[PrintOf(v)]
  IN  old # NoRow => Allowed(UserAfter(old.user, visit[v].user))

\* updateSeen: UPDATE; that it changed no row goes unnoticed.
Update(v) ==
  /\ At(v, "update")
  /\ IF Updatable(v)
     THEN /\ row' = [row EXCEPT ![PrintOf(v)] = Seen(v, @)]
          /\ Goto(v, "done")
     ELSE /\ Goto(v, "failed")
          /\ UNCHANGED row
  /\ UNCHANGED <<marker, users, now, visit, stamp, faults>>

\* UPDATE fails, or is applied and its answer lost; a warning is logged.
UpdateFails(v) ==
  /\ At(v, "update")
  /\ Fault
  /\ row' \in {row, [row EXCEPT ![PrintOf(v)] = IF Updatable(v) THEN Seen(v, @) ELSE @]}
  /\ Goto(v, "failed")
  /\ UNCHANGED <<marker, users, now, visit, stamp>>

\* The context of track is over: the next command fails, and the one after.
GiveUp(v) ==
  /\ Active(v)
  /\ now > visit[v].begun + Timeout
  /\ Goto(v, "failed")
  /\ UNCHANGED <<marker, row, users, now, visit, stamp, faults>>

\* Time passes.
Tick == /\ now < MaxTime
        /\ now' = now + 1
        /\ UNCHANGED <<marker, row, users, pc, visit, stamp, faults>>

\* The API stops: Shutdown waits for handlers, not for their goroutines.
ApiStops ==
  /\ \E v \in Visits : Active(v)
  /\ Fault
  /\ pc' = [v \in Visits |-> IF Active(v) THEN "failed" ELSE pc[v]]
  /\ UNCHANGED <<marker, row, users, now, visit, stamp>>

\* Valkey restarts empty.
ValkeyRestart ==
  /\ marker # {}
  /\ marker' = {}
  /\ UNCHANGED <<row, users, now, pc, visit, stamp, faults>>

\* ON DELETE SET NULL.
Without(u, r) == IF r # NoRow /\ r.user = u THEN [r EXCEPT !.user = Nobody] ELSE r

\* An operator removes the account of u.
RemoveAccount(u) ==
  /\ u \in users
  /\ Fault
  /\ users' = users \ {u}
  /\ row' = [f \in Prints |-> Without(u, row[f])]
  /\ UNCHANGED <<marker, now, pc, visit, stamp>>

\* u signs in, and has an account again.
SignInAgain(u) ==
  /\ u \notin users
  /\ users' = users \union {u}
  /\ UNCHANGED <<marker, row, now, pc, visit, stamp, faults>>

Step(v) == \/ SetNX(v)
           \/ SetNXFails(v)
           \/ SetNXAnswerLost(v)
           \/ ReadClock(v)
           \/ Insert(v)
           \/ InsertFails(v)
           \/ Update(v)
           \/ UpdateFails(v)
           \/ GiveUp(v)

Next == \/ \E v \in Visits : Arrive(v) \/ Step(v)
        \/ \E u \in Users : RemoveAccount(u) \/ SignInAgain(u)
        \/ Tick
        \/ ApiStops
        \/ ValkeyRestart

Spec == Init /\ [][Next]_vars

-----------------------------------------------------------------------------
\* The values of the variables; a goroutine has not read the future, and sends
\* its statements with a time that it has read itself.
TypeOK ==
  /\ marker \subseteq Prints
  /\ row \in [Prints -> Row \union {NoRow}]
  /\ users \subseteq Users
  /\ now \in 0..MaxTime
  /\ pc \in [Visits -> {"none", "setNX", "toInsert", "insert", "toUpdate",
                        "update", "done", "failed"}]
  /\ visit \in [Visits -> Visit]
  /\ stamp \in [Visits -> 0..MaxTime]
  /\ faults \in 0..MaxFaults
  /\ \A v \in Visits : visit[v].begun <= now /\ stamp[v] <= now
  /\ \A v \in Visits : pc[v] \in {"insert", "update"} => visit[v].begun <= stamp[v]

\* A visit with fingerprint f was tracked, by its own account, and no other
\* is under way.
Settled(f) ==
  /\ \E v \in Visits : PrintOf(v) = f /\ pc[v] = "done"
  /\ \A v \in Visits : PrintOf(v) = f => ~Active(v)

\* The comment at Fingerprint, "New row when visitor_id, ip, location
\* (country/city), user_agent, or referer changes": whoever was tracked
\* without an error has a row when the dust has settled.
Recorded == \A f \in Prints : Settled(f) => row[f] # NoRow

\* It is so if nothing fails and no account is removed, although the update
\* of a second visit may be sent before the insert of the first, and Valkey
\* may forget the markers.
RecordedUnlessFault ==
  \A f \in Prints :
    /\ faults = 0
    /\ Settled(f)
    /\ \A v \in Visits : PrintOf(v) = f => pc[v] # "failed"
    => row[f] # NoRow

\* The first visit stays the first: updateSeen and a second insert leave
\* first_seen_at and first_path as they are, and a user_id once known, for as
\* long as its account is there.
OriginKept ==
  [][\A f \in Prints :
       row[f] # NoRow =>
         /\ row'[f] # NoRow
         /\ row'[f].first = row[f].first /\ row'[f].opener = row[f].opener
         /\ row[f].user # Nobody => \/ row'[f].user = row[f].user
                                    \/ row[f].user \in users \ users']_vars

\* last_seen_at may go back, even before first_seen_at, when the updates of
\* two visits overtake each other, but by no more than the context timeout of
\* track.
LastSeenNearby ==
  [][\A f \in Prints :
       row[f] # NoRow => /\ row'[f].last + Timeout >= row[f].last
                         /\ row'[f].last + Timeout >= row[f].first]_vars

\* A goroutine of TrackAsync, without its place.
Phase == [v \in Visits |-> IF pc[v] = "none" THEN "none"
                           ELSE IF Ended(v) THEN "over" ELSE "tracked"]
Log == INSTANCE VisitorLog WITH phase <- Phase

\* Steps, markers and faults come to what module VisitorLog does in single
\* steps: whatever fails, and whenever Valkey forgets the markers, a visit
\* writes only in its time, opens a row only where there is none, is seen as
\* its last act, and names only users that have an account (track, insert and
\* updateSeen together).
VisitorLogSpec == Log!Spec
=============================================================================
