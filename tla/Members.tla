------------------------------ MODULE Members ------------------------------
(***************************************************************************)
(* What sign-in and bans promise, said without cookies, states or          *)
(* requests: whoever is signed in at a browser is an account that Google   *)
(* has vouched for in a sign-in of that very browser and that was not      *)
(* banned when it was admitted; whoever is served has been vouched for     *)
(* there and was not banned when the request was checked; and bans are     *)
(* made and lifted by the operator alone.                                  *)
(***************************************************************************)
CONSTANTS Users, Browsers,
          None    \* nobody

VARIABLES status,   \* status[u]: "none", "active" or "banned"
          vouched,  \* <<b, u>>: Google has vouched for u in a sign-in of b
          tickets,  \* <<b, u>>: u was admitted and may be signed in at b
          member,   \* member[b]: the account signed in at b, or None
          inside    \* <<b, u>>: u is served at b

vars == <<status, vouched, tickets, member, inside>>

Init == /\ status = [u \in Users |-> "none"]
        /\ vouched = {} /\ tickets = {} /\ inside = {}
        /\ member = [b \in Browsers |-> None]

Banned(u) == status[u] = "banned"

Vouch(b, u) == /\ vouched' = vouched \union {<<b, u>>}
               /\ UNCHANGED <<status, tickets, member, inside>>

\* An account becomes, or is, active; it may not come to hear of it.
Admit(b, u) == /\ <<b, u>> \in vouched /\ ~Banned(u)
               /\ status' = [status EXCEPT ![u] = "active"]
               /\ tickets' \in {tickets, tickets \union {<<b, u>>}}
               /\ UNCHANGED <<vouched, member, inside>>

\* Another sign-in of the same account may still be under way.
SignIn(b, u) == /\ <<b, u>> \in tickets
                /\ member' = [member EXCEPT ![b] = u]
                /\ tickets' \in {tickets, tickets \ {<<b, u>>}}
                /\ UNCHANGED <<status, vouched, inside>>

LoseTicket(b, u) == /\ tickets' = tickets \ {<<b, u>>}
                    /\ UNCHANGED <<status, vouched, member, inside>>

SignOut(b) == /\ member' = [member EXCEPT ![b] = None]
              /\ UNCHANGED <<status, vouched, tickets, inside>>

Enter(b, u) == /\ <<b, u>> \in vouched /\ ~Banned(u)
               /\ inside' = inside \union {<<b, u>>}
               /\ UNCHANGED <<status, vouched, tickets, member>>

Leave(b, u) == /\ inside' = inside \ {<<b, u>>}
               /\ UNCHANGED <<status, vouched, tickets, member>>

\* The operator.
Administer(u, s) == /\ status[u] # "none"
                    /\ status' = [status EXCEPT ![u] = s]
                    /\ UNCHANGED <<vouched, tickets, member, inside>>

Next == \/ \E b \in Browsers, u \in Users :
             \/ Vouch(b, u) \/ Admit(b, u) \/ SignIn(b, u) \/ LoseTicket(b, u)
             \/ Enter(b, u) \/ Leave(b, u)
        \/ \E b \in Browsers : SignOut(b)
        \/ \E u \in Users, s \in {"none", "active", "banned"} : Administer(u, s)

Spec == Init /\ [][Next]_vars
=============================================================================
