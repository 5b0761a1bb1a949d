----------------------------- MODULE VisitorLog -----------------------------
(***************************************************************************)
(* The visitor log without its steps: what TrackAsync                      *)
(* (internal/visitor/store.go) makes of the table visitors.  A visit,      *)
(* while it is tracked, writes the row of its fingerprint in single steps: *)
(* it opens the row, if there is none, and is seen once, as its last act.  *)
(* It writes the time of a moment between its beginning and now, and       *)
(* nothing after its timeout, and a user only who has an account: one that *)
(* is removed is cleared from all rows.  It may also end without a trace.  *)
(* Markers, commands, failures and restarts do not appear.                 *)
(***************************************************************************)
EXTENDS Integers

CONSTANTS Visits, Prints, Users, Nobody, NoRow, Timeout, MaxTime

VARIABLES
  row,    \* row[f]: the row of fingerprint f, or NoRow
  users,  \* accounts
  now,    \* the clock
  visit,  \* visit[v]: fingerprint and user of v, and when it began
  phase   \* phase[v]: is v tracked, not yet or no longer?

vars == <<row, users, now, visit, phase>>

Init == /\ row = [f \in Prints |-> NoRow]
        /\ users = Users
        /\ now = 0
        /\ visit \in [Visits -> [print: Prints, user: Users \union {Nobody}, begun: {0}]]
        /\ phase = [v \in Visits |-> "none"]

Turn(v, to) == phase' = [phase EXCEPT ![v] = to]

\* A visit begins.
Begin(v) ==
  /\ phase[v] = "none"
  /\ visit' = [visit EXCEPT ![v] = [print |-> visit[v].print,
                                    user |-> visit[v].user, begun |-> now]]
  /\ Turn(v, "tracked")
  /\ UNCHANGED <<row, users, now>>

\* v writes r as the row of its fingerprint, at the time t.
Write(v, t, r) ==
  /\ phase[v] = "tracked"
  /\ t \in visit[v].begun..now
  /\ now <= visit[v].begun + Timeout
  /\ r.user \in users \union {Nobody}
  /\ row' = [row EXCEPT ![visit[v].print] = r]
  /\ UNCHANGED <<users, now, visit>>

\* v opens the row of its fingerprint, and may yet be seen.
Open(v, t) ==
  /\ row[visit[v].print] = NoRow
  /\ Write(v, t, [first |-> t, last |-> t, user |-> visit[v].user, opener |-> v, session |-> v])
  /\ \/ UNCHANGED phase
     \/ Turn(v, "over")

\* v is seen: what the first visit wrote stays, and a user once known.
See(v, t) ==
  LET old == row[visit[v].print]
  IN  /\ old # NoRow
      /\ Write(v, t, [first |-> old.first, last |-> t,
                      user |-> IF old.user = Nobody THEN visit[v].user ELSE old.user,
                      opener |-> old.opener, session |-> v])
      /\ Turn(v, "over")

\* Visits end without a trace: one of them, or, when the API stops, all.
Leave(V) ==
  /\ phase' = [v \in Visits |-> IF v \in V /\ phase[v] = "tracked" THEN "over" ELSE phase[v]]
  /\ UNCHANGED <<row, users, now, visit>>

Tick == /\ now < MaxTime
        /\ now' = now + 1
        /\ UNCHANGED <<row, users, visit, phase>>

\* An account is removed, or comes back.
Remove(u) ==
  /\ u \in users
  /\ users' = users \ {u}
  /\ row' = [f \in Prints |-> IF row[f] # NoRow /\ row[f].user = u
                              THEN [row[f] EXCEPT !.user = Nobody] ELSE row[f]]
  /\ UNCHANGED <<now, visit, phase>>

Return(u) ==
  /\ users' = users \union {u}
  /\ UNCHANGED <<row, now, visit, phase>>

Next == \/ \E v \in Visits : Begin(v) \/ Leave({v})
        \/ \E v \in Visits, t \in 0..now : Open(v, t) \/ See(v, t)
        \/ \E u \in Users : Remove(u) \/ Return(u)
        \/ Leave(Visits)
        \/ Tick

Spec == Init /\ [][Next]_vars
=============================================================================
