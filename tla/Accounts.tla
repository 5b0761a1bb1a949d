------------------------------ MODULE Accounts ------------------------------
(***************************************************************************)
(* Sign-in and bans: GoogleAuth.Begin, Callback and Logout                 *)
(* (internal/auth/google.go), the session cookie (internal/auth/session.go *)
(* and middleware.go), the table users (internal/user/store.go) and        *)
(* RequireActiveUser (internal/httpapi/visitor.go).                        *)
(*                                                                         *)
(* The server keeps no sessions: what a sign-in is about travels in three  *)
(* cookies.  A request carries the cookies of its browser as they are when *)
(* it is sent, and its response changes them when it arrives; a browser    *)
(* has several tabs, so requests of one browser overlap and responses      *)
(* arrive in any order, or never.  Accounts are banned by an operator in   *)
(* the database; no handler does it.                                       *)
(*                                                                         *)
(* A flow is one sign-in: its random state, which is never drawn twice,    *)
(* its destination, and the account that is chosen at Google.  A cookie    *)
(* holds the flow that it comes from; a session cookie, the flow by which  *)
(* it was issued.  Times are left out: a cookie may expire at any moment.  *)
(* A destination is short enough for a cookie that a browser keeps (4 kB); *)
(* Begin does not check that.                                              *)
(***************************************************************************)
EXTENDS Naturals

CONSTANTS Users,     \* Google accounts
          Browsers,
          Flows,     \* sign-ins, one for each call of Begin
          Calls,     \* requests under way
          None       \* no cookie, browser, flow or account

ASSUME NamesAssumption == None \notin Users \union Browsers \union Flows

Cookies  == {"state", "next", "session"}
Contents == Flows \union {None}

VARIABLES
  status,   \* status[u]: users.status of account u, "none" without a row
  jar,      \* jar[b]: the cookies of browser b
  begun,    \* begun[f]: the browser that called Begin for f
  chosen,   \* chosen[f]: the account that Google has for f
  used,     \* flows whose code Google has exchanged
  pc,       \* pc[c]: the next step of call c
  request,  \* request[c]: its browser, the flow it is about, and its cookies
  reply,    \* reply[c]: the cookies that the response of c sets or clears
  goes,     \* goes[c]: the flow to whose destination c redirects; None: home
  unbanned  \* history: unbanned[c]: at some moment since c was sent the
            \* account of c was not banned

google == <<begun, chosen, used>>
vars   == <<status, jar, begun, chosen, used, pc, request, reply, goes, unbanned>>

EmptyJar == [k \in Cookies |-> None]
NoReply  == [k \in {} |-> None]
Nothing  == [browser |-> None, flow |-> None, cookies |-> EmptyJar]

Init == /\ status = [u \in Users |-> "none"]
        /\ jar = [b \in Browsers |-> EmptyJar]
        /\ begun = [f \in Flows |-> None]
        /\ chosen = [f \in Flows |-> None]
        /\ used = {}
        /\ pc = [c \in Calls |-> "idle"]
        /\ request = [c \in Calls |-> Nothing]
        /\ reply = [c \in Calls |-> NoReply]
        /\ goes = [c \in Calls |-> None]
        /\ unbanned = [c \in Calls |-> FALSE]

-----------------------------------------------------------------------------
Banned(u) == status[u] = "banned"

\* Browser b sends a request about flow f, and its cookies with it.
Send(c, b, f) ==
  /\ pc[c] = "idle"
  /\ request' = [request EXCEPT ![c] = [browser |-> b, flow |-> f, cookies |-> jar[b]]]

Goto(c, at) == pc' = [pc EXCEPT ![c] = at]

\* The response of c, under way to its browser: the cookies of r, and a
\* redirect to the destination of d.
Respond(c, r, d) == /\ Goto(c, "answered")
                    /\ reply' = [reply EXCEPT ![c] = r]
                    /\ goes' = [goes EXCEPT ![c] = d]

Clear(K) == [k \in K |-> None]

\* c is over, and nothing is left of it.
End(c) == /\ Goto(c, "idle")
          /\ request' = [request EXCEPT ![c] = Nothing]
          /\ reply' = [reply EXCEPT ![c] = NoReply]
          /\ goes' = [goes EXCEPT ![c] = None]
          /\ unbanned' = [unbanned EXCEPT ![c] = FALSE]

\* From now on c is about account u.
Watch(c, u) == unbanned' = [unbanned EXCEPT ![c] = \A v \in Users : v = u => ~Banned(v)]

-----------------------------------------------------------------------------
\* Mutant of BeginSets: a destination that is there is left alone.
BeginSetsMissing(b, f) ==
  [k \in {"state"} \union {n \in {"next"} : jar[b][n] = None} |-> f]

\* Both cookies, whether there was a sign-in before or not.
BeginSets(b, f) == [k \in {"state", "next"} |-> f]

\* Begin: a state is drawn, and the user sent to Google.
Begin(c, b, f) ==
  /\ begun[f] = None
  /\ begun' = [begun EXCEPT ![f] = b]
  /\ Send(c, b, None)
  /\ Respond(c, BeginSets(b, f), None)
  /\ UNCHANGED <<status, jar, chosen, used, unbanned>>

\* Google: the user chooses an account for a sign-in that has begun.
Choose(f, u) ==
  /\ begun[f] # None
  /\ chosen[f] = None
  /\ chosen' = [chosen EXCEPT ![f] = u]
  /\ UNCHANGED <<status, jar, begun, used, pc, request, reply, goes, unbanned>>

\* Mutant of StateMatches: any state.
StateIsThere(b, f) == jar[b]["state"] # None

StateMatches(b, f) == jar[b]["state"] = f

HasCode(f) == chosen[f] # None

\* Callback: the address to which Google returns for f is opened in b, perhaps
\* once more.  Otherwise, and if Google reports an error, nothing changes.
Callback(c, b, f) ==
  /\ begun[f] # None
  /\ StateMatches(b, f)
  /\ HasCode(f)
  /\ Send(c, b, f)
  /\ Goto(c, "exchange")
  /\ Watch(c, chosen[f])
  /\ UNCHANGED <<status, jar, google, reply, goes>>

\* Callback: the code is exchanged, which Google does once, and the profile read.
Exchange(c) ==
  /\ pc[c] = "exchange"
  /\ request[c].flow \notin used
  /\ used' = used \union {request[c].flow}
  /\ Goto(c, "upsert")
  /\ UNCHANGED <<status, jar, begun, chosen, request, reply, goes, unbanned>>

\* The code is exchanged, and the token or the profile does not arrive: 502.
ExchangeAnswerLost(c) ==
  /\ pc[c] = "exchange"
  /\ request[c].flow \notin used
  /\ used' = used \union {request[c].flow}
  /\ End(c)
  /\ UNCHANGED <<status, jar, begun, chosen>>

\* Mutant of AfterLogin: the conflict clause sets the status, too.
AfterLoginActive(s) == "active"

\* INSERT ... ON CONFLICT DO UPDATE: the status of a row that is there stays.
AfterLogin(s) == IF s = "none" THEN "active" ELSE s

\* Issue: a session for the account of f; both short cookies have done their
\* part.
SessionFor(f) == [k \in Cookies |-> IF k = "session" THEN f ELSE None]

\* Callback: UpsertLogin.  A banned account loses the session of its browser,
\* whose ever it was.
Upsert(c) ==
  LET f == request[c].flow
      u == chosen[f]
  IN  /\ pc[c] = "upsert"
      /\ status' = [status EXCEPT ![u] = AfterLogin(@)]
      /\ IF AfterLogin(status[u]) = "banned"
         THEN Respond(c, Clear(Cookies), None)
         ELSE Respond(c, SessionFor(f), request[c].cookies["next"])
      /\ UNCHANGED <<jar, google, request, unbanned>>

\* The row is written and the answer of the statement lost: 500.
UpsertAnswerLost(c) ==
  LET u == chosen[request[c].flow]
  IN  /\ pc[c] = "upsert"
      /\ status' = [status EXCEPT ![u] = AfterLogin(@)]
      /\ End(c)
      /\ UNCHANGED <<jar, google>>

\* Logout.
Logout(c, b) ==
  /\ Send(c, b, None)
  /\ Respond(c, Clear({"session"}), None)
  /\ UNCHANGED <<status, jar, google, unbanned>>

-----------------------------------------------------------------------------
\* RequireUser: a request for the cloud API, with a session.
Enter(c, b) ==
  /\ jar[b]["session"] # None
  /\ Send(c, b, None)
  /\ Goto(c, "check")
  /\ Watch(c, chosen[jar[b]["session"]])
  /\ UNCHANGED <<status, jar, google, reply, goes>>

\* Mutant of Admitted: a row must be there, whatever it says.
AdmittedWithRow(u) == status[u] # "none"

\* IsBanned: an account without a row counts as not banned.
Admitted(u) == ~Banned(u)

\* RequireActiveUser: the ban check; a banned account loses its session.
Check(c) ==
  /\ pc[c] = "check"
  /\ IF Admitted(chosen[request[c].cookies["session"]])
     THEN Goto(c, "serve") /\ UNCHANGED <<reply, goes>>
     ELSE Respond(c, Clear({"session"}), None)
  /\ UNCHANGED <<status, jar, google, request, unbanned>>

\* The handler does its work and answers; it touches no cookie.
Serve(c) ==
  /\ pc[c] = "serve"
  /\ End(c)
  /\ UNCHANGED <<status, jar, google>>

\* An error without a cookie: the code was used before, a statement fails, the
\* session has expired, the client or the server goes away; or the response is
\* lost.
Fail(c) ==
  /\ pc[c] # "idle"
  /\ End(c)
  /\ UNCHANGED <<status, jar, google>>

\* The response arrives, and the browser does as it says.
Arrive(c) ==
  LET b == request[c].browser
  IN  /\ pc[c] = "answered"
      /\ jar' = [jar EXCEPT ![b] = [k \in Cookies |->
                   IF k \in DOMAIN reply[c] THEN reply[c][k] ELSE jar[b][k]]]
      /\ End(c)
      /\ UNCHANGED <<status, google>>

\* A cookie expires: 10 minutes for a sign-in, SESSION_TTL for a session.
Expire(b, k) ==
  /\ jar[b][k] # None
  /\ jar' = [jar EXCEPT ![b] = [@ EXCEPT ![k] = None]]
  /\ UNCHANGED <<status, google, pc, request, reply, goes, unbanned>>

\* Call c is about account u.
About(c, u) == LET f == request[c].flow
                   g == request[c].cookies["session"]
               IN  u = IF f # None THEN chosen[f] ELSE IF g # None THEN chosen[g] ELSE None

\* An operator changes, or removes, the row of an account.
Administer(u, s) ==
  /\ status[u] \notin {"none", s}
  /\ status' = [status EXCEPT ![u] = s]
  /\ unbanned' = [c \in Calls |-> unbanned[c] \/ (s # "banned" /\ About(c, u))]
  /\ UNCHANGED <<jar, google, pc, request, reply, goes>>

Statuses == {"none", "active", "banned"}

Next == \/ \E c \in Calls, b \in Browsers, f \in Flows : Begin(c, b, f) \/ Callback(c, b, f)
        \/ \E f \in Flows, u \in Users : Choose(f, u)
        \/ \E c \in Calls, b \in Browsers : Enter(c, b) \/ Logout(c, b)
        \/ \E c \in Calls : \/ Exchange(c)
                            \/ ExchangeAnswerLost(c)
                            \/ Upsert(c)
                            \/ UpsertAnswerLost(c)
                            \/ Check(c)
                            \/ Serve(c)
                            \/ Fail(c)
                            \/ Arrive(c)
        \/ \E b \in Browsers, k \in Cookies : Expire(b, k)
        \/ \E u \in Users, s \in Statuses : Administer(u, s)

Spec == Init /\ [][Next]_vars

-----------------------------------------------------------------------------
Request == [browser: Browsers \union {None}, flow: Contents,
            cookies: [Cookies -> Contents]]
Reply   == UNION {[K -> Contents] : K \in SUBSET Cookies}

\* The values of the variables; a call that is to exchange or to be checked is
\* about an account, which has a row once somebody signed in.
TypeOK ==
  /\ status \in [Users -> Statuses]
  /\ jar \in [Browsers -> [Cookies -> Contents]]
  /\ begun \in [Flows -> Browsers \union {None}]
  /\ chosen \in [Flows -> Users \union {None}]
  /\ used \subseteq {f \in Flows : chosen[f] # None}
  /\ pc \in [Calls -> {"idle", "exchange", "upsert", "check", "serve", "answered"}]
  /\ request \in [Calls -> Request]
  /\ reply \in [Calls -> Reply]
  /\ goes \in [Calls -> Contents]
  /\ unbanned \in [Calls -> BOOLEAN]
  /\ \A c \in Calls : pc[c] \in {"exchange", "upsert"} =>
       request[c].flow # None /\ chosen[request[c].flow] # None

\* A session in a browser was issued by a sign-in that began in the same
\* browser and for which Google vouched, although the three cookies are set by
\* responses that arrive in any order (Callback, "invalid oauth state").
SessionOfOwnSignIn ==
  \A b \in Browsers, f \in Flows :
    jar[b]["session"] = f => begun[f] = b /\ f \in used

\* A sign-in ends at its own destination, or at home, never at that of another
\* one in the same browser: oauth_state and oauth_next stay together.
NextOfSameSignIn ==
  \A c \in Calls, f \in Flows :
    pc[c] = "answered" /\ request[c].flow = f => goes[c] \in {f, None}

\* Whoever was banned before a request was sent, and is not pardoned while it
\* runs, gets neither service nor a session from it (UpsertLogin returns
\* ErrBanned; RequireActiveUser).
NothingForBanned ==
  \A c \in Calls :
    \/ pc[c] = "serve"
    \/ pc[c] = "answered" /\ request[c].flow # None /\ reply[c]["session"] # None
    => unbanned[c]

\* The comment in UpsertLogin, "status intentionally not overwritten (preserve
\* bans)": only the operator lifts a ban, no sign-in does.
BansKept ==
  [][\A u \in Users :
       Banned(u) /\ status'[u] # "banned" => UNCHANGED <<pc, request>>]_vars

-----------------------------------------------------------------------------
\* Who may be signed in and served where, read off cookies, requests and
\* responses: a ticket is a response with a session that is under way.
SignsIn(r) == "session" \in DOMAIN r /\ r["session"] # None

Vouched == {<<begun[f], chosen[f]>> : f \in used}
Ticket  == [c \in Calls |->
              IF SignsIn(reply[c])
              THEN {<<request[c].browser, chosen[reply[c]["session"]]>>} ELSE {}]
Tickets == UNION {Ticket[c] : c \in Calls}
Inside  == [c \in Calls |->
              IF pc[c] = "serve"
              THEN {<<request[c].browser, chosen[request[c].cookies["session"]]>>} ELSE {}]
Places  == UNION {Inside[c] : c \in Calls}
Member  == [b \in Browsers |->
              IF jar[b]["session"] = None THEN None ELSE chosen[jar[b]["session"]]]

Club == INSTANCE Members WITH
          vouched <- Vouched, tickets <- Tickets, member <- Member, inside <- Places

\* Sign-in and the ban check implement Members: whatever order requests and
\* responses come in and whatever is lost, only an account that Google vouched
\* for in a browser, and that was not banned when UpsertLogin or IsBanned looked,
\* is signed in or served there.
MembersSpec == Club!Spec
=============================================================================
