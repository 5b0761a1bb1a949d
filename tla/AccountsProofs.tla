--------------------------- MODULE AccountsProofs ---------------------------
(* Proofs about module Accounts: types, whose sign-in a session comes from, *)
(* where a sign-in ends, what a banned account gets, and that sign-in       *)
(* implements Members.                                                      *)
EXTENDS Accounts, TLAPS

\* A cookie of browser b comes from a sign-in that began there, and a session
\* from one that Google has vouched for; the two short cookies, where both are
\* there, from the same one.
JarInv(b) ==
  /\ \A k \in Cookies, f \in Flows :
       jar[b][k] = f => begun[f] = b /\ (k = "session" => f \in used)
  /\ jar[b]["next"] # None /\ jar[b]["state"] # None => jar[b]["next"] = jar[b]["state"]

\* The same of the cookies that a request carries, ...
RequestInv(c) ==
  /\ \A k \in Cookies, f \in Flows :
       request[c].cookies[k] = f =>
         /\ begun[f] # None /\ begun[f] = request[c].browser
         /\ k = "session" => f \in used
  /\ request[c].cookies["next"] # None /\ request[c].cookies["state"] # None
       => request[c].cookies["next"] = request[c].cookies["state"]

\* ... and of those that a response sets; it sets both short ones or none.
ReplyInv(c) ==
  /\ \A k \in DOMAIN reply[c], f \in Flows :
       reply[c][k] = f =>
         /\ begun[f] # None /\ begun[f] = request[c].browser
         /\ k = "session" => f \in used
  /\ "state" \in DOMAIN reply[c] <=> "next" \in DOMAIN reply[c]
  /\ "state" \in DOMAIN reply[c] => reply[c]["next"] = reply[c]["state"]

\* What a call may assume at each of its steps.
Stage(c) ==
  /\ pc[c] # "answered" => reply[c] = NoReply
  /\ pc[c] # "idle" => request[c].browser \in Browsers
  /\ pc[c] \in {"exchange", "upsert"} =>
       /\ request[c].flow \in Flows
       /\ request[c].cookies["state"] = request[c].flow
  /\ pc[c] = "upsert" => request[c].flow \in used
  /\ pc[c] \in {"check", "serve"} =>
       /\ request[c].flow = None
       /\ request[c].cookies["session"] \in Flows

\* The account that a call is still to ask the database about.
Subject(c) == IF request[c].flow # None THEN chosen[request[c].flow]
              ELSE chosen[request[c].cookies["session"]]

\* Until a call has asked the database, an account that is not banned has
\* left its trace in unbanned.
Watched(c) == pc[c] \in {"exchange", "upsert", "check"} /\ ~Banned(Subject(c)) => unbanned[c]

\* The two invariants about one call.
Destined(c) == \A f \in Flows :
  pc[c] = "answered" /\ request[c].flow = f => goes[c] \in {f, None}
Deserved(c) ==
  \/ pc[c] = "serve"
  \/ pc[c] = "answered" /\ request[c].flow # None /\ reply[c]["session"] # None
  => unbanned[c]

CallInv(c) == /\ RequestInv(c) /\ ReplyInv(c) /\ Stage(c)
              /\ Watched(c) /\ Destined(c) /\ Deserved(c)

\* The inductive invariant.
IInv == /\ TypeOK
        /\ \A b \in Browsers : JarInv(b)
        /\ \A c \in Calls : CallInv(c)

-----------------------------------------------------------------------------
LEMMA NoReplyType == NoReply \in Reply /\ DOMAIN NoReply = {}
BY DEF NoReply, Reply

LEMMA RepliesAre == ASSUME NEW r
                    PROVE  r \in Reply <=> \E K \in SUBSET Cookies : r \in [K -> Contents]
BY DEF Reply

LEMMA NothingType == Nothing \in Request
BY DEF Nothing, Request, EmptyJar, Contents

LEMMA InitInv == Init => IInv
<1> SUFFICES ASSUME Init PROVE IInv
  OBVIOUS
<1>1. TypeOK
  BY NoReplyType, NothingType DEF Init, TypeOK, EmptyJar, Contents, Statuses
<1>2. ASSUME NEW b \in Browsers PROVE JarInv(b)
  BY NamesAssumption DEF Init, JarInv, EmptyJar, Cookies
<1>3. ASSUME NEW c \in Calls PROVE CallInv(c)
  <2>1. RequestInv(c)
    BY NamesAssumption DEF Init, RequestInv, Nothing, EmptyJar, Cookies
  <2>2. ReplyInv(c)
    BY NoReplyType DEF Init, ReplyInv
  <2>3. Stage(c) /\ Watched(c) /\ Destined(c) /\ Deserved(c)
    BY DEF Init, Stage, Watched, Destined, Deserved
  <2> QED BY <2>1, <2>2, <2>3 DEF CallInv
<1> QED BY <1>1, <1>2, <1>3 DEF IInv

-----------------------------------------------------------------------------
\* Sign-ins go on and are not undone, and whoever is no longer banned after a
\* step has left a trace in the calls about them.
Grows ==
  /\ \A f \in Flows : begun[f] # None => begun'[f] = begun[f]
  /\ \A f \in Flows : chosen[f] # None => chosen'[f] = chosen[f]
  /\ used \subseteq used'

\* What a step does not touch stays as it should be.
LEMMA JarFrame ==
  ASSUME IInv, Grows, NEW b \in Browsers, jar'[b] = jar[b]
  PROVE  JarInv(b)'
BY NamesAssumption DEF IInv, JarInv, Grows

Untouched(c) == /\ pc'[c] = pc[c] /\ request'[c] = request[c]
                /\ reply'[c] = reply[c] /\ goes'[c] = goes[c]

\* The subject of a call that has still to ask is an account, and stays.
LEMMA SubjectStays ==
  ASSUME IInv, Grows, NEW c \in Calls, Untouched(c),
         pc[c] \in {"exchange", "upsert", "check"}
  PROVE  Subject(c) \in Users /\ Subject(c)' = Subject(c)
<1>1. CASE pc[c] \in {"exchange", "upsert"}
  <2>1. request[c].flow \in Flows /\ request[c].flow # None
        /\ chosen[request[c].flow] # None
    BY <1>1, NamesAssumption DEF IInv, TypeOK, CallInv, Stage
  <2>2. chosen[request[c].flow] \in Users
    BY <2>1 DEF IInv, TypeOK
  <2> QED BY <2>1, <2>2 DEF Subject, Grows, Untouched
<1>2. CASE pc[c] = "check"
  <2>1. request[c].flow = None /\ request[c].cookies["session"] \in Flows
    BY <1>2 DEF IInv, CallInv, Stage
  <2>2. request[c].cookies["session"] \in used
    BY <2>1 DEF IInv, CallInv, RequestInv, Cookies
  <2>3. /\ chosen[request[c].cookies["session"]] # None
        /\ chosen[request[c].cookies["session"]] \in Users
    BY <2>1, <2>2 DEF IInv, TypeOK
  <2> QED BY <2>1, <2>3 DEF Subject, Grows, Untouched
<1> QED BY <1>1, <1>2

\* A trace stays, and nobody is pardoned without one.
Traced(c) == /\ unbanned[c] => unbanned'[c]
             /\ pc[c] \in {"exchange", "upsert", "check"} /\ status[Subject(c)] = "banned"
                  => status'[Subject(c)] = "banned" \/ unbanned'[c]

LEMMA CallFrame ==
  ASSUME IInv, Grows, NEW c \in Calls, Untouched(c), Traced(c)
  PROVE  CallInv(c)'
<1>1. RequestInv(c)'
  BY DEF IInv, CallInv, RequestInv, Grows, Untouched
<1>2. ReplyInv(c)'
  BY DEF IInv, CallInv, ReplyInv, Grows, Untouched
<1>3. Stage(c)'
  BY DEF IInv, CallInv, Stage, Grows, Untouched
<1>4. Watched(c)'
  <2> SUFFICES ASSUME pc[c] \in {"exchange", "upsert", "check"},
                      status'[Subject(c)'] # "banned"
               PROVE  unbanned'[c]
    BY DEF Watched, Banned, Untouched
  <2>1. Subject(c)' = Subject(c)
    BY SubjectStays
  <2>2. CASE status[Subject(c)] = "banned"
    BY <2>1, <2>2 DEF Traced
  <2>3. CASE status[Subject(c)] # "banned"
    BY <2>3 DEF IInv, CallInv, Watched, Banned, Traced
  <2> QED BY <2>2, <2>3
<1>5. Destined(c)'
  BY DEF IInv, CallInv, Destined, Untouched
<1>6. Deserved(c)'
  BY DEF IInv, CallInv, Deserved, Untouched, Traced
<1> QED BY <1>1, <1>2, <1>3, <1>4, <1>5, <1>6 DEF CallInv

\* A step of call c, which lifts no ban, as the other calls see it.
Elsewhere(c) ==
  /\ \A d \in Calls : d # c => Untouched(d) /\ unbanned'[d] = unbanned[d]
  /\ \A u \in Users : status[u] = "banned" => status'[u] = "banned"

LEMMA OthersStay ==
  ASSUME IInv, Grows, NEW c \in Calls, Elsewhere(c), CallInv(c)'
  PROVE  \A d \in Calls : CallInv(d)'
<1> SUFFICES ASSUME NEW d \in Calls, d # c PROVE CallInv(d)'
  OBVIOUS
<1>1. Untouched(d) /\ unbanned'[d] = unbanned[d]
  BY DEF Elsewhere
<1>2. Traced(d)
  BY <1>1, SubjectStays DEF Traced, Elsewhere
<1> QED BY <1>1, <1>2, CallFrame

\* What End and Respond leave of the other calls, and of their own.
LEMMA EndKeeps ==
  ASSUME IInv, NEW c \in Calls, End(c)
  PROVE  /\ CallInv(c)'
         /\ \A d \in Calls : d # c => Untouched(d) /\ unbanned'[d] = unbanned[d]
<1>1. \A d \in Calls : d # c => Untouched(d) /\ unbanned'[d] = unbanned[d]
  BY DEF IInv, TypeOK, End, Goto, Untouched
<1>2. /\ pc'[c] = "idle" /\ request'[c] = Nothing /\ reply'[c] = NoReply
  BY DEF IInv, TypeOK, End, Goto
<1>3. RequestInv(c)'
  BY <1>2, NamesAssumption DEF RequestInv, Nothing, EmptyJar, Cookies
<1>4. ReplyInv(c)'
  BY <1>2, NoReplyType DEF ReplyInv
<1>5. Stage(c)' /\ Watched(c)' /\ Destined(c)' /\ Deserved(c)'
  BY <1>2 DEF Stage, Watched, Destined, Deserved
<1> QED BY <1>1, <1>3, <1>4, <1>5 DEF CallInv

LEMMA EndTypes ==
  ASSUME IInv, NEW c \in Calls, End(c)
  PROVE  /\ pc' \in [Calls -> {"idle", "exchange", "upsert", "check", "serve", "answered"}]
         /\ request' \in [Calls -> Request]
         /\ reply' \in [Calls -> Reply]
         /\ goes' \in [Calls -> Contents]
         /\ unbanned' \in [Calls -> BOOLEAN]
         /\ \A d \in Calls : pc'[d] \in {"exchange", "upsert"} =>
              pc[d] = pc'[d] /\ request'[d] = request[d]
BY NoReplyType, NothingType DEF IInv, TypeOK, End, Goto, Contents

\* The end of a call, together with what it does to flows and accounts.
LEMMA EndingKeeps ==
  ASSUME IInv, Grows, NEW c \in Calls, End(c), UNCHANGED <<jar, begun, chosen>>,
         used' \subseteq {f \in Flows : chosen[f] # None},
         status' \in [Users -> Statuses],
         \A u \in Users : status[u] = "banned" => status'[u] = "banned"
  PROVE  IInv'
<1>1. TypeOK'
  BY EndTypes DEF IInv, TypeOK
<1>2. \A b \in Browsers : JarInv(b)'
  BY JarFrame
<1>3. \A d \in Calls : CallInv(d)'
  BY EndKeeps, OthersStay DEF Elsewhere
<1> QED BY <1>1, <1>2, <1>3 DEF IInv

LEMMA FailKeeps ==
  ASSUME IInv, NEW c \in Calls, Fail(c) \/ Serve(c)
  PROVE  IInv'
<1>1. End(c) /\ UNCHANGED <<status, jar, google>>
  BY DEF Fail, Serve
<1>2. Grows
  BY <1>1 DEF Grows, google
<1> QED BY <1>1, <1>2, EndingKeeps DEF IInv, TypeOK, google

LEMMA ExchangeAnswerLostKeeps ==
  ASSUME IInv, NEW c \in Calls, ExchangeAnswerLost(c)
  PROVE  IInv'
<1>1. /\ End(c) /\ UNCHANGED <<status, jar, begun, chosen>>
      /\ used' = used \union {request[c].flow} /\ pc[c] = "exchange"
  BY DEF ExchangeAnswerLost
<1>2. request[c].flow \in Flows /\ chosen[request[c].flow] # None
  BY <1>1 DEF IInv, TypeOK, CallInv, Stage
<1>3. Grows /\ used' \subseteq {f \in Flows : chosen[f] # None}
  BY <1>1, <1>2 DEF Grows, IInv, TypeOK
<1> QED BY <1>1, <1>3, EndingKeeps DEF IInv, TypeOK

\* An upsert keeps bans.
LEMMA UpsertStatus ==
  ASSUME IInv, NEW c \in Calls, pc[c] = "upsert",
         status' = [status EXCEPT ![chosen[request[c].flow]] = AfterLogin(@)]
  PROVE  /\ status' \in [Users -> Statuses]
         /\ \A u \in Users : status[u] = "banned" => status'[u] = "banned"
BY DEF IInv, TypeOK, Statuses, AfterLogin

LEMMA UpsertAnswerLostKeeps ==
  ASSUME IInv, NEW c \in Calls, UpsertAnswerLost(c)
  PROVE  IInv'
<1>1. /\ End(c) /\ UNCHANGED <<jar, google>> /\ pc[c] = "upsert"
      /\ status' = [status EXCEPT ![chosen[request[c].flow]] = AfterLogin(@)]
  BY DEF UpsertAnswerLost
<1>2. Grows /\ used' \subseteq {f \in Flows : chosen[f] # None}
  BY <1>1 DEF Grows, google, IInv, TypeOK
<1> QED BY <1>1, <1>2, UpsertStatus, EndingKeeps DEF google

-----------------------------------------------------------------------------
\* A request carries the cookies of its browser.
LEMMA CarriesJar ==
  ASSUME IInv, NEW c \in Calls, NEW b \in Browsers, NEW f, Send(c, b, f),
         \A g \in Flows : begun[g] # None => begun'[g] = begun[g],
         used' = used
  PROVE  /\ request'[c] = [browser |-> b, flow |-> f, cookies |-> jar[b]]
         /\ RequestInv(c)'
<1>1. request'[c] = [browser |-> b, flow |-> f, cookies |-> jar[b]]
  BY DEF IInv, TypeOK, Send
<1>2. RequestInv(c)'
  BY <1>1, NamesAssumption DEF IInv, JarInv, RequestInv
<1> QED BY <1>1, <1>2

LEMMA SendTypes ==
  ASSUME IInv, NEW c \in Calls, NEW b \in Browsers, NEW f \in Contents, Send(c, b, f)
  PROVE  /\ request' \in [Calls -> Request]
         /\ \A d \in Calls : d # c => request'[d] = request[d]
BY DEF IInv, TypeOK, Send, Request

LEMMA BeginKeeps ==
  ASSUME IInv, NEW c \in Calls, NEW b \in Browsers, NEW f \in Flows, Begin(c, b, f)
  PROVE  IInv'
<1>1. /\ begun[f] = None /\ begun' = [begun EXCEPT ![f] = b]
      /\ Send(c, b, None) /\ Respond(c, BeginSets(b, f), None)
      /\ UNCHANGED <<status, jar, chosen, used, unbanned>>
  BY DEF Begin
<1>2. Grows /\ begun'[f] = b /\ b # None
  BY <1>1, NamesAssumption DEF Grows, IInv, TypeOK
<1>3. /\ DOMAIN BeginSets(b, f) = {"state", "next"}
      /\ \A k \in {"state", "next"} : BeginSets(b, f)[k] = f
      /\ BeginSets(b, f) \in Reply
  <2>1. {"state", "next"} \in SUBSET Cookies
    BY DEF Cookies
  <2>2. BeginSets(b, f) \in [{"state", "next"} -> Contents]
    BY DEF BeginSets, Contents
  <2> QED BY <2>1, <2>2, RepliesAre DEF BeginSets
<1>4. /\ pc'[c] = "answered" /\ reply'[c] = BeginSets(b, f) /\ goes'[c] = None
      /\ \A d \in Calls : d # c =>
           pc'[d] = pc[d] /\ reply'[d] = reply[d] /\ goes'[d] = goes[d]
  BY <1>1 DEF Respond, Goto, IInv, TypeOK
<1>5. /\ request'[c] = [browser |-> b, flow |-> None, cookies |-> jar[b]]
      /\ RequestInv(c)'
  BY <1>1, <1>2, CarriesJar DEF Grows
<1>6. TypeOK'
  <2>1. request' \in [Calls -> Request] /\ \A d \in Calls : d # c => request'[d] = request[d]
    BY <1>1, SendTypes DEF Contents
  <2>2. begun' \in [Flows -> Browsers \union {None}]
    BY <1>1 DEF IInv, TypeOK
  <2>3. /\ reply' \in [Calls -> Reply]
        /\ goes' \in [Calls -> Contents]
        /\ pc' \in [Calls -> {"idle", "exchange", "upsert", "check", "serve", "answered"}]
    BY <1>1, <1>3 DEF Respond, Goto, IInv, TypeOK, Contents
  <2> QED BY <1>1, <1>4, <2>1, <2>2, <2>3 DEF IInv, TypeOK
<1>7. CallInv(c)'
  <2>1. ReplyInv(c)'
    BY <1>2, <1>3, <1>4, <1>5 DEF ReplyInv
  <2>2. Stage(c)' /\ Watched(c)' /\ Destined(c)' /\ Deserved(c)'
    BY <1>4, <1>5, NamesAssumption DEF Stage, Watched, Destined, Deserved
  <2> QED BY <1>5, <2>1, <2>2 DEF CallInv
<1>8. Elsewhere(c)
  BY <1>1, <1>4, SendTypes DEF Elsewhere, Untouched, Contents
<1> QED BY <1>1, <1>2, <1>6, <1>7, <1>8, JarFrame, OthersStay DEF IInv

LEMMA ChooseKeeps ==
  ASSUME IInv, NEW f \in Flows, NEW u \in Users, Choose(f, u)
  PROVE  IInv'
<1>1. Grows
  BY DEF Choose, Grows, IInv, TypeOK
<1>2. TypeOK'
  BY NamesAssumption DEF Choose, IInv, TypeOK
<1>3. ASSUME NEW c \in Calls PROVE CallInv(c)'
  <2>1. Untouched(c) /\ Traced(c)
    BY DEF Choose, Untouched, Traced
  <2> QED BY <1>1, <2>1, CallFrame
<1>4. ASSUME NEW b \in Browsers PROVE JarInv(b)'
  BY <1>1, JarFrame DEF Choose
<1> QED BY <1>2, <1>3, <1>4 DEF IInv

LEMMA CallbackKeeps ==
  ASSUME IInv, NEW c \in Calls, NEW b \in Browsers, NEW f \in Flows, Callback(c, b, f)
  PROVE  IInv'
<1>1. /\ begun[f] # None /\ jar[b]["state"] = f /\ chosen[f] # None
      /\ Send(c, b, f) /\ Goto(c, "exchange") /\ Watch(c, chosen[f])
      /\ UNCHANGED <<status, jar, begun, chosen, used, reply, goes>>
      /\ pc[c] = "idle"
  BY DEF Callback, StateMatches, HasCode, google, Send
<1>2. Grows
  BY <1>1 DEF Grows
<1>3. /\ request'[c] = [browser |-> b, flow |-> f, cookies |-> jar[b]]
      /\ RequestInv(c)'
  BY <1>1, CarriesJar
<1>4. pc'[c] = "exchange" /\ \A d \in Calls : d # c => pc'[d] = pc[d]
  BY <1>1 DEF Goto, IInv, TypeOK
<1>5. \A d \in Calls : d # c => unbanned'[d] = unbanned[d]
  BY <1>1 DEF Watch, IInv, TypeOK
<1>6. unbanned'[c] = (\A v \in Users : v = chosen[f] => ~Banned(v))
  BY <1>1 DEF Watch, IInv, TypeOK
<1>7. unbanned' \in [Calls -> BOOLEAN]
  BY <1>1, Zenon DEF Watch, IInv, TypeOK
<1>8. TypeOK'
  <2>1. request' \in [Calls -> Request] /\ \A d \in Calls : d # c => request'[d] = request[d]
    BY <1>1, SendTypes DEF Contents
  <2>2. pc' \in [Calls -> {"idle", "exchange", "upsert", "check", "serve", "answered"}]
    BY <1>1 DEF Goto, IInv, TypeOK
  <2> QED BY <1>1, <1>3, <1>4, <1>7, <2>1, <2>2, NamesAssumption DEF IInv, TypeOK
<1>9. CallInv(c)'
  <2>1. ReplyInv(c)' /\ Stage(c)'
    BY <1>1, <1>3, <1>4, NoReplyType DEF IInv, CallInv, Stage, ReplyInv
  <2>2. Subject(c)' = chosen[f]
    BY <1>1, <1>3, NamesAssumption DEF Subject
  <2>3. Watched(c)'
    <3>1. chosen[f] \in Users /\ status' = status
      BY <1>1 DEF IInv, TypeOK
    <3>2. ASSUME status[chosen[f]] # "banned" PROVE unbanned'[c]
      BY <1>6, <3>1, <3>2 DEF Banned
    <3> QED BY <2>2, <3>1, <3>2 DEF Watched, Banned
  <2>4. Destined(c)' /\ Deserved(c)'
    BY <1>4 DEF Destined, Deserved
  <2> QED BY <1>3, <2>1, <2>3, <2>4 DEF CallInv
<1>10. Elsewhere(c)
  BY <1>1, <1>4, <1>5, SendTypes DEF Elsewhere, Untouched, Contents
<1> QED BY <1>1, <1>2, <1>8, <1>9, <1>10, JarFrame, OthersStay DEF IInv

LEMMA ExchangeKeeps ==
  ASSUME IInv, NEW c \in Calls, Exchange(c)
  PROVE  IInv'
<1>1. /\ pc[c] = "exchange" /\ used' = used \union {request[c].flow} /\ Goto(c, "upsert")
      /\ UNCHANGED <<status, jar, begun, chosen, request, reply, goes, unbanned>>
  BY DEF Exchange
<1>2. request[c].flow \in Flows /\ chosen[request[c].flow] # None
  BY <1>1 DEF IInv, TypeOK, CallInv, Stage
<1>3. Grows
  BY <1>1 DEF Grows
<1>4. pc'[c] = "upsert" /\ \A d \in Calls : d # c => pc'[d] = pc[d]
  BY <1>1 DEF Goto, IInv, TypeOK
<1>5. TypeOK'
  <2>1. pc' \in [Calls -> {"idle", "exchange", "upsert", "check", "serve", "answered"}]
    BY <1>1 DEF Goto, IInv, TypeOK
  <2> QED BY <1>1, <1>2, <1>4, <2>1, NamesAssumption DEF IInv, TypeOK
<1>6. CallInv(c)'
  <2>1. RequestInv(c)' /\ ReplyInv(c)'
    BY <1>1 DEF IInv, CallInv, RequestInv, ReplyInv
  <2>2. Stage(c)'
    BY <1>1, <1>4 DEF IInv, CallInv, Stage
  <2>3. Watched(c)'
    BY <1>1 DEF IInv, CallInv, Watched, Subject, Banned
  <2>4. Destined(c)' /\ Deserved(c)'
    BY <1>4 DEF Destined, Deserved
  <2> QED BY <2>1, <2>2, <2>3, <2>4 DEF CallInv
<1>7. Elsewhere(c)
  BY <1>1, <1>4 DEF Elsewhere, Untouched
<1> QED BY <1>1, <1>3, <1>5, <1>6, <1>7, JarFrame, OthersStay DEF IInv

\* The response of a call that has waited until now, in general.
LEMMA RespondKeeps ==
  ASSUME IInv, NEW c \in Calls, NEW r \in Reply, NEW d \in Contents,
         Respond(c, r, d), pc[c] # "idle",
         UNCHANGED <<jar, google, request, unbanned>>,
         status' \in [Users -> Statuses],
         \A u \in Users : status[u] = "banned" => status'[u] = "banned",
         \A k \in DOMAIN r : r[k] # None =>
           r[k] \in used /\ begun[r[k]] # None /\ begun[r[k]] = request[c].browser,
         "state" \in DOMAIN r <=> "next" \in DOMAIN r,
         "state" \in DOMAIN r => r["next"] = r["state"],
         request[c].flow \in Flows => d \in {request[c].flow, None},
         request[c].flow # None /\ r["session"] # None => unbanned[c]
  PROVE  IInv'
<1>1. /\ pc'[c] = "answered" /\ reply'[c] = r /\ goes'[c] = d
      /\ \A e \in Calls : e # c =>
           pc'[e] = pc[e] /\ reply'[e] = reply[e] /\ goes'[e] = goes[e]
  BY DEF Respond, Goto, IInv, TypeOK
<1>2. Grows
  BY DEF Grows, google
<1>3. TypeOK'
  <2>1. /\ pc' \in [Calls -> {"idle", "exchange", "upsert", "check", "serve", "answered"}]
        /\ reply' \in [Calls -> Reply]
        /\ goes' \in [Calls -> Contents]
    BY DEF Respond, Goto, IInv, TypeOK
  <2> QED BY <1>1, <2>1 DEF IInv, TypeOK, google
<1>4. CallInv(c)'
  <2>1. RequestInv(c)'
    BY DEF IInv, CallInv, RequestInv, google
  <2>2. ReplyInv(c)'
    BY <1>1, NamesAssumption DEF ReplyInv, google
  <2>3. Stage(c)' /\ Watched(c)'
    BY <1>1 DEF IInv, CallInv, Stage, Watched
  <2>4. Destined(c)'
    BY <1>1 DEF Destined
  <2>5. Deserved(c)'
    BY <1>1 DEF Deserved
  <2> QED BY <2>1, <2>2, <2>3, <2>4, <2>5 DEF CallInv
<1>5. Elsewhere(c)
  BY <1>1 DEF Elsewhere, Untouched
<1> QED BY <1>2, <1>3, <1>4, <1>5, JarFrame, OthersStay DEF IInv

LEMMA ClearReply ==
  ASSUME NEW K \in SUBSET Cookies
  PROVE  Clear(K) \in Reply /\ DOMAIN Clear(K) = K /\ \A k \in K : Clear(K)[k] = None
<1>1. Clear(K) \in [K -> Contents]
  BY DEF Clear, Contents
<1> QED BY <1>1, RepliesAre DEF Clear

LEMMA UpsertKeeps ==
  ASSUME IInv, NEW c \in Calls, Upsert(c)
  PROVE  IInv'
<1> DEFINE f == request[c].flow
           u == chosen[f]
<1>1. /\ pc[c] = "upsert" /\ status' = [status EXCEPT ![u] = AfterLogin(@)]
      /\ UNCHANGED <<jar, google, request, unbanned>>
  BY DEF Upsert
<1>2. /\ f \in Flows /\ f # None /\ f \in used /\ request[c].cookies["state"] = f
      /\ u \in Users /\ begun[f] # None /\ begun[f] = request[c].browser
  BY <1>1, NamesAssumption DEF IInv, TypeOK, CallInv, Stage, RequestInv, Cookies
<1>3. /\ status' \in [Users -> Statuses]
      /\ \A v \in Users : status[v] = "banned" => status'[v] = "banned"
  BY <1>1, UpsertStatus
<1>4. CASE AfterLogin(status[u]) = "banned"
  <2>1. Respond(c, Clear(Cookies), None)
    BY <1>4 DEF Upsert
  <2>2. "session" \in Cookies /\ "state" \in Cookies /\ "next" \in Cookies
    BY DEF Cookies
  <2> QED BY <1>1, <1>3, <2>1, <2>2, ClearReply, RespondKeeps DEF Contents
<1>5. CASE AfterLogin(status[u]) # "banned"
  <2>1. Respond(c, SessionFor(f), request[c].cookies["next"])
    BY <1>5 DEF Upsert
  <2>2. /\ DOMAIN SessionFor(f) = Cookies
        /\ \A k \in Cookies : SessionFor(f)[k] = IF k = "session" THEN f ELSE None
        /\ SessionFor(f) \in [Cookies -> Contents]
    BY <1>2 DEF SessionFor, Contents
  <2>3. SessionFor(f) \in Reply
    BY <2>2, RepliesAre
  <2>4. /\ request[c].cookies["next"] \in Contents
        /\ request[c].cookies["next"] \in {f, None}
    BY <1>2 DEF IInv, TypeOK, Request, Cookies, CallInv, RequestInv
  <2>5. unbanned[c]
    <3>1. Subject(c) = u /\ ~Banned(u)
      BY <1>2, <1>5 DEF Subject, Banned, AfterLogin
    <3> QED BY <1>1, <3>1 DEF IInv, CallInv, Watched
  <2>6. "state" \in Cookies /\ "next" \in Cookies
    BY DEF Cookies
  <2>7. \A k \in Cookies : SessionFor(f)[k] # None => SessionFor(f)[k] = f
    BY <2>2
  <2> HIDE DEF f, u
  <2> QED
    BY <1>1, <1>2, <1>3, <2>1, <2>2, <2>3, <2>4, <2>5, <2>6, <2>7, RespondKeeps DEF f
<1> QED BY <1>4, <1>5

LEMMA CheckKeeps ==
  ASSUME IInv, NEW c \in Calls, Check(c)
  PROVE  IInv'
<1>1. pc[c] = "check" /\ UNCHANGED <<status, jar, google, request, unbanned>>
  BY DEF Check
<1>2. request[c].flow = None /\ request[c].cookies["session"] \in Flows
  BY <1>1 DEF IInv, CallInv, Stage
<1>3. CASE Admitted(chosen[request[c].cookies["session"]])
  <2>1. Goto(c, "serve") /\ UNCHANGED <<reply, goes>>
    BY <1>3 DEF Check
  <2>2. pc'[c] = "serve" /\ \A d \in Calls : d # c => pc'[d] = pc[d]
    BY <2>1 DEF Goto, IInv, TypeOK
  <2>3. Grows
    BY <1>1 DEF Grows, google
  <2>4. TypeOK'
    <3>1. pc' \in [Calls -> {"idle", "exchange", "upsert", "check", "serve", "answered"}]
      BY <2>1 DEF Goto, IInv, TypeOK
    <3> QED BY <1>1, <2>1, <2>2, <3>1 DEF IInv, TypeOK, google
  <2>5. unbanned[c]
    BY <1>1, <1>2, <1>3 DEF Admitted, Subject, IInv, CallInv, Watched
  <2>6. CallInv(c)'
    <3>1. RequestInv(c)' /\ ReplyInv(c)'
      BY <1>1, <2>1 DEF IInv, CallInv, RequestInv, ReplyInv, google
    <3>2. Stage(c)'
      BY <1>1, <2>1, <2>2 DEF IInv, CallInv, Stage, google
    <3>3. Watched(c)' /\ Destined(c)' /\ Deserved(c)'
      BY <1>1, <2>2, <2>5 DEF Watched, Destined, Deserved
    <3> QED BY <3>1, <3>2, <3>3 DEF CallInv
  <2>7. Elsewhere(c)
    BY <1>1, <2>1, <2>2 DEF Elsewhere, Untouched
  <2> QED BY <1>1, <2>3, <2>4, <2>6, <2>7, JarFrame, OthersStay DEF IInv
<1>4. CASE ~Admitted(chosen[request[c].cookies["session"]])
  <2>1. Respond(c, Clear({"session"}), None)
    BY <1>4 DEF Check
  <2>2. {"session"} \in SUBSET Cookies
    BY DEF Cookies
  <2> QED BY <1>1, <1>2, <2>1, <2>2, ClearReply, RespondKeeps, NamesAssumption
          DEF Contents, IInv, TypeOK
<1> QED BY <1>3, <1>4

LEMMA LogoutKeeps ==
  ASSUME IInv, NEW c \in Calls, NEW b \in Browsers, Logout(c, b)
  PROVE  IInv'
<1>1. /\ Send(c, b, None) /\ Respond(c, Clear({"session"}), None)
      /\ UNCHANGED <<status, jar, begun, chosen, used, unbanned>>
  BY DEF Logout, google
<1>2. Grows
  BY <1>1 DEF Grows
<1>3. /\ request'[c] = [browser |-> b, flow |-> None, cookies |-> jar[b]]
      /\ RequestInv(c)'
  BY <1>1, CarriesJar
<1>4. /\ pc'[c] = "answered" /\ reply'[c] = Clear({"session"})
      /\ \A d \in Calls : d # c =>
           pc'[d] = pc[d] /\ reply'[d] = reply[d] /\ goes'[d] = goes[d]
  BY <1>1 DEF Respond, Goto, IInv, TypeOK
<1>5. /\ Clear({"session"}) \in Reply /\ DOMAIN Clear({"session"}) = {"session"}
      /\ Clear({"session"})["session"] = None
  BY ClearReply DEF Cookies
<1>6. request' \in [Calls -> Request] /\ \A d \in Calls : d # c => request'[d] = request[d]
  BY <1>1, SendTypes DEF Contents
<1>7. TypeOK'
  <2>1. /\ reply' \in [Calls -> Reply]
        /\ goes' \in [Calls -> Contents]
        /\ pc' \in [Calls -> {"idle", "exchange", "upsert", "check", "serve", "answered"}]
    BY <1>1, <1>5 DEF Respond, Goto, IInv, TypeOK, Contents
  <2> QED BY <1>1, <1>4, <1>6, <2>1 DEF IInv, TypeOK
<1>8. CallInv(c)'
  <2>1. ReplyInv(c)'
    BY <1>4, <1>5, NamesAssumption DEF ReplyInv
  <2>2. Stage(c)' /\ Watched(c)' /\ Destined(c)' /\ Deserved(c)'
    BY <1>3, <1>4, NamesAssumption DEF Stage, Watched, Destined, Deserved
  <2> QED BY <1>3, <2>1, <2>2 DEF CallInv
<1>9. Elsewhere(c)
  BY <1>1, <1>4, <1>6 DEF Elsewhere, Untouched
<1> QED BY <1>1, <1>2, <1>7, <1>8, <1>9, JarFrame, OthersStay DEF IInv

LEMMA EnterKeeps ==
  ASSUME IInv, NEW c \in Calls, NEW b \in Browsers, Enter(c, b)
  PROVE  IInv'
<1> DEFINE u == chosen[jar[b]["session"]]
<1>1. /\ jar[b]["session"] # None
      /\ Send(c, b, None) /\ Goto(c, "check") /\ Watch(c, u)
      /\ UNCHANGED <<status, jar, begun, chosen, used, reply, goes>>
      /\ pc[c] = "idle"
  BY DEF Enter, google, Send
<1>2. Grows
  BY <1>1 DEF Grows
<1>3. /\ jar[b]["session"] \in Flows /\ jar[b]["session"] \in used
      /\ u \in Users
  BY <1>1 DEF IInv, TypeOK, JarInv, Cookies, Contents
<1>4. /\ request'[c] = [browser |-> b, flow |-> None, cookies |-> jar[b]]
      /\ RequestInv(c)'
  BY <1>1, CarriesJar
<1>5. pc'[c] = "check" /\ \A d \in Calls : d # c => pc'[d] = pc[d]
  BY <1>1 DEF Goto, IInv, TypeOK
<1>6. /\ unbanned'[c] = (\A v \in Users : v = u => ~Banned(v))
      /\ \A d \in Calls : d # c => unbanned'[d] = unbanned[d]
  BY <1>1 DEF Watch, IInv, TypeOK
<1>7. unbanned' \in [Calls -> BOOLEAN]
  BY <1>1, Zenon DEF Watch, IInv, TypeOK
<1>8. request' \in [Calls -> Request] /\ \A d \in Calls : d # c => request'[d] = request[d]
  BY <1>1, SendTypes DEF Contents
<1>9. TypeOK'
  <2>1. pc' \in [Calls -> {"idle", "exchange", "upsert", "check", "serve", "answered"}]
    BY <1>1 DEF Goto, IInv, TypeOK
  <2> QED BY <1>1, <1>5, <1>7, <1>8, <2>1 DEF IInv, TypeOK
<1>10. CallInv(c)'
  <2>1. ReplyInv(c)' /\ Stage(c)'
    BY <1>1, <1>3, <1>4, <1>5, NoReplyType DEF IInv, CallInv, Stage, ReplyInv
  <2>2. Watched(c)'
    <3>1. Subject(c)' = u /\ status' = status
      BY <1>1, <1>4 DEF Subject
    <3>2. ASSUME status[u] # "banned" PROVE unbanned'[c]
      BY <1>3, <1>6, <3>2 DEF Banned
    <3> QED BY <3>1, <3>2 DEF Watched, Banned
  <2>3. Destined(c)' /\ Deserved(c)'
    BY <1>5 DEF Destined, Deserved
  <2> QED BY <1>4, <2>1, <2>2, <2>3 DEF CallInv
<1>11. Elsewhere(c)
  BY <1>1, <1>5, <1>6, <1>8 DEF Elsewhere, Untouched
<1> QED BY <1>1, <1>2, <1>9, <1>10, <1>11, JarFrame, OthersStay DEF IInv

LEMMA ArriveKeeps ==
  ASSUME IInv, NEW c \in Calls, Arrive(c)
  PROVE  IInv'
<1> DEFINE b == request[c].browser
           J == [k \in Cookies |-> IF k \in DOMAIN reply[c] THEN reply[c][k] ELSE jar[b][k]]
<1>1. /\ pc[c] = "answered" /\ jar' = [jar EXCEPT ![b] = J]
      /\ End(c) /\ UNCHANGED <<status, begun, chosen, used>>
  BY DEF Arrive, google
<1>2. Grows
  BY <1>1 DEF Grows
<1>3. b \in Browsers
  BY <1>1 DEF IInv, CallInv, Stage
<1>4. J \in [Cookies -> Contents]
  <2>1. PICK K \in SUBSET Cookies : reply[c] \in [K -> Contents]
    BY RepliesAre DEF IInv, TypeOK
  <2> QED BY <1>3, <2>1 DEF IInv, TypeOK
<1>5. /\ jar' \in [Browsers -> [Cookies -> Contents]]
      /\ jar'[b] = J /\ \A a \in Browsers : a # b => jar'[a] = jar[a]
  BY <1>1, <1>3, <1>4 DEF IInv, TypeOK
<1>6. TypeOK'
  BY <1>1, <1>5, EndTypes DEF IInv, TypeOK
<1>7. ASSUME NEW a \in Browsers, a = b PROVE JarInv(a)'
  <2>1. ASSUME NEW k \in Cookies, NEW f \in Flows, J[k] = f
        PROVE  begun[f] = b /\ (k = "session" => f \in used)
    BY <1>3, <2>1 DEF IInv, JarInv, CallInv, ReplyInv
  <2>2. J["next"] # None /\ J["state"] # None => J["next"] = J["state"]
    BY <1>3 DEF IInv, JarInv, CallInv, ReplyInv, Cookies
  <2>3. jar'[a] = J /\ UNCHANGED <<begun, used>>
    BY <1>1, <1>5, <1>7
  <2> HIDE DEF J
  <2> QED BY <1>7, <2>1, <2>2, <2>3 DEF JarInv
<1>8. ASSUME NEW a \in Browsers PROVE JarInv(a)'
  BY <1>2, <1>5, <1>7, JarFrame
<1>9. \A d \in Calls : CallInv(d)'
  BY <1>1, <1>2, EndKeeps, OthersStay DEF Elsewhere
<1> QED BY <1>6, <1>8, <1>9 DEF IInv

LEMMA ExpireKeeps ==
  ASSUME IInv, NEW b \in Browsers, NEW k \in Cookies, Expire(b, k)
  PROVE  IInv'
<1> DEFINE J == [jar[b] EXCEPT ![k] = None]
<1>1. /\ jar' = [jar EXCEPT ![b] = J]
      /\ UNCHANGED <<status, begun, chosen, used, pc, request, reply, goes, unbanned>>
  BY DEF Expire, google
<1>2. Grows
  BY <1>1 DEF Grows
<1>3. /\ J \in [Cookies -> Contents] /\ J[k] = None
      /\ \A n \in Cookies : n # k => J[n] = jar[b][n]
  BY DEF IInv, TypeOK, Contents
<1>4. /\ jar' \in [Browsers -> [Cookies -> Contents]]
      /\ jar'[b] = J /\ \A a \in Browsers : a # b => jar'[a] = jar[a]
  BY <1>1, <1>3 DEF IInv, TypeOK
<1>5. TypeOK'
  BY <1>1, <1>4 DEF IInv, TypeOK
<1>6. JarInv(b)'
  <2> HIDE DEF J
  <2> QED BY <1>1, <1>3, <1>4, NamesAssumption DEF IInv, JarInv, Cookies
<1>7. ASSUME NEW a \in Browsers PROVE JarInv(a)'
  BY <1>2, <1>4, <1>6, JarFrame
<1>8. ASSUME NEW c \in Calls PROVE CallInv(c)'
  BY <1>1, <1>2, CallFrame DEF Untouched, Traced
<1> QED BY <1>5, <1>7, <1>8 DEF IInv

\* A pardon leaves its trace.
LEMMA AdministerKeeps ==
  ASSUME IInv, NEW u \in Users, NEW s \in Statuses, Administer(u, s)
  PROVE  IInv'
<1>1. /\ status' = [status EXCEPT ![u] = s]
      /\ unbanned' = [c \in Calls |-> unbanned[c] \/ (s # "banned" /\ About(c, u))]
      /\ UNCHANGED <<jar, begun, chosen, used, pc, request, reply, goes>>
  BY DEF Administer, google
<1>2. Grows
  BY <1>1 DEF Grows
<1>3. status' \in [Users -> Statuses]
  BY <1>1 DEF IInv, TypeOK
<1>4. unbanned' \in [Calls -> BOOLEAN]
  BY <1>1, Zenon DEF IInv, TypeOK, About
<1>5. TypeOK'
  BY <1>1, <1>3, <1>4 DEF IInv, TypeOK
<1>6. ASSUME NEW c \in Calls PROVE CallInv(c)'
  <2>1. Untouched(c)
    BY <1>1 DEF Untouched
  <2>2. unbanned[c] \/ (s # "banned" /\ About(c, u)) => unbanned'[c]
    BY <1>1
  <2>3. ASSUME pc[c] \in {"exchange", "upsert", "check"}, status[Subject(c)] = "banned",
               status'[Subject(c)] # "banned"
        PROVE  unbanned'[c]
    <3>1. Subject(c) = u /\ s # "banned"
      BY <1>1, <1>2, <2>1, <2>3, SubjectStays DEF IInv, TypeOK
    <3>2. About(c, u)
      BY <2>3, <3>1, NamesAssumption DEF About, Subject, IInv, CallInv, Stage
    <3> QED BY <2>2, <3>1, <3>2
  <2>4. Traced(c)
    BY <2>2, <2>3 DEF Traced
  <2> QED BY <1>2, <2>1, <2>4, CallFrame
<1> QED BY <1>1, <1>2, <1>5, <1>6, JarFrame DEF IInv

LEMMA StutterKeeps ==
  ASSUME IInv, UNCHANGED vars
  PROVE  IInv'
<1>1. Grows /\ TypeOK'
  BY DEF vars, google, Grows, IInv, TypeOK
<1>2. \A c \in Calls : CallInv(c)'
  BY <1>1, CallFrame DEF vars, Untouched, Traced
<1> QED BY <1>1, <1>2, JarFrame DEF vars, IInv

LEMMA StepInv == IInv /\ [Next]_vars => IInv'
<1> SUFFICES ASSUME IInv, [Next]_vars PROVE IInv'
  OBVIOUS
<1>1. ASSUME NEW c \in Calls, NEW b \in Browsers, NEW f \in Flows,
             Begin(c, b, f) \/ Callback(c, b, f)
      PROVE  IInv'
  BY <1>1, BeginKeeps, CallbackKeeps
<1>2. ASSUME NEW f \in Flows, NEW u \in Users, Choose(f, u) PROVE IInv'
  BY <1>2, ChooseKeeps
<1>3. ASSUME NEW c \in Calls, NEW b \in Browsers, Enter(c, b) \/ Logout(c, b) PROVE IInv'
  BY <1>3, EnterKeeps, LogoutKeeps
<1>4. ASSUME NEW c \in Calls,
             Exchange(c) \/ ExchangeAnswerLost(c) \/ Upsert(c) \/ UpsertAnswerLost(c)
      PROVE  IInv'
  BY <1>4, ExchangeKeeps, ExchangeAnswerLostKeeps, UpsertKeeps, UpsertAnswerLostKeeps
<1>5. ASSUME NEW c \in Calls, Check(c) \/ Serve(c) \/ Fail(c) \/ Arrive(c) PROVE IInv'
  BY <1>5, CheckKeeps, FailKeeps, ArriveKeeps
<1>6. ASSUME NEW b \in Browsers, NEW k \in Cookies, Expire(b, k) PROVE IInv'
  BY <1>6, ExpireKeeps
<1>7. ASSUME NEW u \in Users, NEW s \in Statuses, Administer(u, s) PROVE IInv'
  BY <1>7, AdministerKeeps
<1>8. CASE UNCHANGED vars
  BY <1>8, StutterKeeps
<1> QED BY <1>1, <1>2, <1>3, <1>4, <1>5, <1>6, <1>7, <1>8 DEF Next

-----------------------------------------------------------------------------
\* The invariant holds in every state, for all users, browsers and requests.
THEOREM Invariant == Spec => []IInv
BY InitInv, StepInv, PTL DEF Spec

\* The types of rows, cookies and requests, and that Callback asks Google only
\* about a sign-in that has an account.
THEOREM TypeCorrect == Spec => []TypeOK
<1>1. IInv => TypeOK
  BY DEF IInv
<1> QED BY <1>1, Invariant, PTL

\* A browser holds sessions only of sign-ins that began in it: the state
\* cookie does its work (Callback, "invalid oauth state").
THEOREM OwnSessions == Spec => []SessionOfOwnSignIn
<1>1. IInv => SessionOfOwnSignIn
  BY DEF IInv, JarInv, SessionOfOwnSignIn, Cookies
<1> QED BY <1>1, Invariant, PTL

\* A sign-in ends at its own destination, or at home.
THEOREM OwnDestination == Spec => []NextOfSameSignIn
<1>1. IInv => NextOfSameSignIn
  BY DEF IInv, CallInv, Destined, NextOfSameSignIn
<1> QED BY <1>1, Invariant, PTL

\* UpsertLogin and RequireActiveUser give nothing to an account that is banned
\* all the time.
THEOREM BannedGetNothing == Spec => []NothingForBanned
<1>1. IInv => NothingForBanned
  BY DEF IInv, CallInv, Deserved, NothingForBanned
<1> QED BY <1>1, Invariant, PTL

\* A step that lifts a ban touches no request: no sign-in lifts one.
LEMMA BanStep ==
  ASSUME IInv, [Next]_vars, NEW u \in Users, Banned(u), status'[u] # "banned"
  PROVE  UNCHANGED <<pc, request>>
<1>1. ASSUME NEW c \in Calls, Upsert(c) \/ UpsertAnswerLost(c) PROVE FALSE
  BY <1>1, UpsertStatus DEF Upsert, UpsertAnswerLost, Banned
<1>2. \E v \in Users, s \in Statuses : Administer(v, s)
  BY <1>1 DEF Next, vars, google, Banned, Begin, Callback, Choose, Enter, Logout, Exchange,
              ExchangeAnswerLost, Check, Serve, Fail, Arrive, Expire
<1> QED BY <1>2 DEF Administer

THEOREM BansStay == Spec => BansKept
<1>1. IInv /\ [Next]_vars =>
        [\A u \in Users : Banned(u) /\ status'[u] # "banned" => UNCHANGED <<pc, request>>]_vars
  BY BanStep
<1> QED BY <1>1, Invariant, PTL DEF Spec, BansKept
-----------------------------------------------------------------------------
\* The codes that Google has exchanged are of sign-ins that have begun.
UsedBegun == \A f \in used : begun[f] # None

LEMMA StepGrows == IInv /\ [Next]_vars => Grows
<1> SUFFICES ASSUME IInv, [Next]_vars PROVE Grows
  OBVIOUS
<1>1. ASSUME NEW c \in Calls, NEW b \in Browsers, NEW f \in Flows, Begin(c, b, f) PROVE Grows
  BY <1>1 DEF Begin, Grows, IInv, TypeOK
<1>2. ASSUME NEW f \in Flows, NEW u \in Users, Choose(f, u) PROVE Grows
  BY <1>2 DEF Choose, Grows, IInv, TypeOK
<1>3. ASSUME NEW c \in Calls, Exchange(c) \/ ExchangeAnswerLost(c) PROVE Grows
  BY <1>3 DEF Exchange, ExchangeAnswerLost, Grows
<1>4. CASE UNCHANGED google
  BY <1>4 DEF Grows, google
<1> QED BY <1>1, <1>2, <1>3, <1>4 DEF Next, vars, google, Callback, Enter, Logout, Upsert,
              UpsertAnswerLost, Check, Serve, Fail, Arrive, Expire, Administer

LEMMA UsedStep == IInv /\ UsedBegun /\ [Next]_vars => UsedBegun'
<1> SUFFICES ASSUME IInv, UsedBegun, [Next]_vars PROVE UsedBegun'
  OBVIOUS
<1>1. ASSUME NEW c \in Calls, Exchange(c) \/ ExchangeAnswerLost(c) PROVE UsedBegun'
  <2>1. /\ used' = used \union {request[c].flow} /\ begun' = begun /\ pc[c] = "exchange"
    BY <1>1 DEF Exchange, ExchangeAnswerLost
  <2>2. begun[request[c].flow] # None
    BY <2>1 DEF IInv, CallInv, Stage, RequestInv, Cookies
  <2> QED BY <2>1, <2>2 DEF UsedBegun
<1>2. CASE used' = used
  BY <1>2, StepGrows DEF UsedBegun, Grows, IInv, TypeOK
<1> QED BY <1>1, <1>2 DEF Next, vars, google, Begin, Choose, Callback, Enter, Logout, Upsert,
              UpsertAnswerLost, Check, Serve, Fail, Arrive, Expire, Administer

\* A set that one call adds to, or no longer adds to.
LEMMA OneMore ==
  ASSUME NEW T, NEW U, NEW c \in Calls, NEW p, T[c] = {}, U[c] = {p},
         \A d \in Calls : d # c => U[d] = T[d]
  PROVE  UNION {U[d] : d \in Calls} = (UNION {T[d] : d \in Calls}) \union {p}
BY Zenon

LEMMA OneLess ==
  ASSUME NEW T, NEW U, NEW c \in Calls, NEW p, T[c] = {p}, U[c] = {},
         \A d \in Calls : d # c => U[d] = T[d]
  PROVE  \/ UNION {U[d] : d \in Calls} = UNION {T[d] : d \in Calls}
         \/ UNION {U[d] : d \in Calls} = (UNION {T[d] : d \in Calls}) \ {p}
<1> DEFINE A == UNION {T[d] : d \in Calls}
           B == UNION {U[d] : d \in Calls}
<1>1. \A x : x \in A <=> \E d \in Calls : x \in T[d]
  BY Zenon
<1>2. \A x : x \in B <=> \E d \in Calls : x \in U[d]
  BY Zenon
<1>3. \A x : x # p => (x \in A <=> x \in B)
  BY <1>1, <1>2
<1>4. p \in A
  BY <1>1
<1> HIDE DEF A, B
<1>5. CASE p \in B
  <2>1. B = A
    BY <1>3, <1>4, <1>5
  <2> QED BY <2>1 DEF A, B
<1>6. CASE p \notin B
  <2>1. B = A \ {p}
    BY <1>3, <1>4, <1>6
  <2> QED BY <2>1 DEF A, B
<1> QED BY <1>5, <1>6

LEMMA AllSame ==
  ASSUME NEW T, NEW U, \A d \in Calls : U[d] = T[d]
  PROVE  UNION {U[d] : d \in Calls} = UNION {T[d] : d \in Calls}
BY Zenon

\* What a step of one call leaves of the tickets and the places of the others.
LEMMA Bystander ==
  ASSUME IInv, Grows, NEW d \in Calls, Untouched(d)
  PROVE  Ticket'[d] = Ticket[d] /\ Inside'[d] = Inside[d]
<1>1. ASSUME SignsIn(reply[d])
      PROVE  chosen'[reply[d]["session"]] = chosen[reply[d]["session"]]
  <2>1. reply[d]["session"] \in Flows
    BY <1>1, RepliesAre DEF SignsIn, IInv, TypeOK, Contents
  <2>2. reply[d]["session"] \in used
    BY <1>1, <2>1 DEF SignsIn, IInv, CallInv, ReplyInv
  <2> QED BY <2>1, <2>2 DEF IInv, TypeOK, Grows
<1>2. ASSUME pc[d] = "serve"
      PROVE  chosen'[request[d].cookies["session"]] = chosen[request[d].cookies["session"]]
  <2>1. request[d].cookies["session"] \in Flows
    BY <1>2 DEF IInv, CallInv, Stage
  <2>2. request[d].cookies["session"] \in used
    BY <2>1 DEF IInv, CallInv, RequestInv, Cookies
  <2> QED BY <2>1, <2>2 DEF IInv, TypeOK, Grows
<1> QED BY <1>1, <1>2 DEF Ticket, Inside, Untouched

LEMMA VouchedStays ==
  ASSUME IInv, UsedBegun, Grows, used' = used
  PROVE  Vouched' = Vouched
<1>1. \A f \in used : begun'[f] = begun[f] /\ chosen'[f] = chosen[f]
  BY DEF IInv, TypeOK, UsedBegun, Grows
<1> QED BY <1>1, Zenon DEF Vouched

LEMMA MemberStays ==
  ASSUME IInv, Grows, NEW b \in Browsers, jar'[b]["session"] = jar[b]["session"]
  PROVE  Member'[b] = Member[b]
<1>1. ASSUME jar[b]["session"] # None
      PROVE  chosen'[jar[b]["session"]] = chosen[jar[b]["session"]]
  <2>1. jar[b]["session"] \in Flows
    BY <1>1 DEF IInv, TypeOK, Cookies, Contents
  <2>2. jar[b]["session"] \in used
    BY <2>1 DEF IInv, JarInv, Cookies
  <2> QED BY <2>1, <2>2 DEF IInv, TypeOK, Grows
<1> QED BY <1>1 DEF Member

\* A step that leaves all other calls as they are.
Apart(c) == \A d \in Calls : d # c => Untouched(d)

LEMMA CallsStay ==
  ASSUME IInv, Grows, \A d \in Calls : Ticket'[d] = Ticket[d] /\ Inside'[d] = Inside[d]
  PROVE  UNCHANGED <<Tickets, Places>>
<1>1. UNION {Ticket'[d] : d \in Calls} = UNION {Ticket[d] : d \in Calls}
  BY AllSame, Zenon
<1>2. UNION {Inside'[d] : d \in Calls} = UNION {Inside[d] : d \in Calls}
  BY AllSame, Zenon
<1> QED BY <1>1, <1>2 DEF Tickets, Places

\* A call that goes on, without a ticket or a place before and after.
Plain(c) == ~SignsIn(reply[c]) /\ pc[c] # "serve"

LEMMA PlainStep ==
  ASSUME IInv, Grows, NEW c \in Calls, Apart(c), Plain(c), Plain(c)'
  PROVE  UNCHANGED <<Tickets, Places>>
<1>1. Ticket'[c] = Ticket[c] /\ Inside'[c] = Inside[c]
  BY DEF Plain, Ticket, Inside
<1>2. \A d \in Calls : Ticket'[d] = Ticket[d] /\ Inside'[d] = Inside[d]
  BY <1>1, Bystander DEF Apart
<1> QED BY <1>2, CallsStay

LEMMA PlainUnless ==
  ASSUME IInv, NEW c \in Calls, pc[c] \notin {"answered", "serve"}
  PROVE  Plain(c)
BY NoReplyType DEF IInv, CallInv, Stage, Plain, SignsIn

LEMMA AllMembersStay ==
  ASSUME IInv, Grows, \A b \in Browsers : jar'[b]["session"] = jar[b]["session"]
  PROVE  Member' = Member
<1>1. \A b \in Browsers : Member'[b] = Member[b]
  BY MemberStays
<1> QED BY <1>1 DEF Member

\* The end of a call, whatever it was about: it takes its ticket or its place
\* with it.
LEMMA EndClub ==
  ASSUME IInv, Grows, NEW c \in Calls, End(c)
  PROVE  /\ Apart(c) /\ Plain(c)'
         /\ pc[c] # "answered" => Tickets' = Tickets
         /\ pc[c] # "serve" => Places' = Places
<1>1. Apart(c)
  BY EndKeeps DEF Apart
<1>2. pc'[c] = "idle" /\ reply'[c] = NoReply
  BY DEF IInv, TypeOK, End, Goto
<1>3. Plain(c)'
  BY <1>2, NoReplyType DEF Plain, SignsIn
<1>4. \A d \in Calls : d # c => Ticket'[d] = Ticket[d] /\ Inside'[d] = Inside[d]
  BY <1>1, Bystander DEF Apart
<1>5. ASSUME pc[c] # "answered" PROVE Tickets' = Tickets
  <2>1. ~SignsIn(reply[c])
    BY <1>5, NoReplyType DEF IInv, CallInv, Stage, SignsIn
  <2>2. \A d \in Calls : Ticket'[d] = Ticket[d]
    BY <2>1, <1>3, <1>4 DEF Ticket, Plain
  <2>3. UNION {Ticket'[d] : d \in Calls} = UNION {Ticket[d] : d \in Calls}
    BY <2>2, AllSame, Zenon
  <2> QED BY <2>3 DEF Tickets
<1>6. ASSUME pc[c] # "serve" PROVE Places' = Places
  <2>1. \A d \in Calls : Inside'[d] = Inside[d]
    BY <1>6, <1>3, <1>4 DEF Inside, Plain
  <2>2. UNION {Inside'[d] : d \in Calls} = UNION {Inside[d] : d \in Calls}
    BY <2>1, AllSame, Zenon
  <2> QED BY <2>2 DEF Places
<1> QED BY <1>1, <1>3, <1>5, <1>6

\* A response with a session: its browser and its account.
LEMMA TicketEnds ==
  ASSUME IInv, Grows, NEW c \in Calls, End(c), SignsIn(reply[c])
  PROVE  LET b == request[c].browser
             u == chosen[reply[c]["session"]]
         IN  /\ b \in Browsers /\ u \in Users /\ reply[c]["session"] \in used
             /\ <<b, u>> \in Tickets
             /\ Tickets' = Tickets \/ Tickets' = Tickets \ {<<b, u>>}
             /\ Places' = Places
<1> DEFINE b == request[c].browser
           u == chosen[reply[c]["session"]]
<1>1. pc[c] = "answered"
  BY PlainUnless, NoReplyType DEF Plain, SignsIn, IInv, CallInv, Stage
<1>2. reply[c]["session"] \in Flows
  BY RepliesAre DEF SignsIn, IInv, TypeOK, Contents
<1>3. reply[c]["session"] \in used
  BY <1>2 DEF SignsIn, IInv, CallInv, ReplyInv
<1>4. b \in Browsers /\ u \in Users
  BY <1>1, <1>2, <1>3 DEF IInv, TypeOK, CallInv, Stage
<1>5. Apart(c) /\ Plain(c)' /\ Places' = Places
  BY <1>1, EndClub
<1>6. Ticket[c] = {<<b, u>>} /\ Ticket'[c] = {}
  BY <1>5 DEF Ticket, Plain
<1>7. \A d \in Calls : d # c => Ticket'[d] = Ticket[d]
  BY <1>5, Bystander DEF Apart
<1>8. \/ UNION {Ticket'[d] : d \in Calls} = UNION {Ticket[d] : d \in Calls}
      \/ UNION {Ticket'[d] : d \in Calls} = (UNION {Ticket[d] : d \in Calls}) \ {<<b, u>>}
  <2> DEFINE T == Ticket
             U == Ticket'
             p == <<b, u>>
  <2>1. T[c] = {p} /\ U[c] = {} /\ \A d \in Calls : d # c => U[d] = T[d]
    BY <1>6, <1>7
  <2> HIDE DEF T, U, p
  <2>2. \/ UNION {U[d] : d \in Calls} = UNION {T[d] : d \in Calls}
        \/ UNION {U[d] : d \in Calls} = (UNION {T[d] : d \in Calls}) \ {p}
    BY <2>1, OneLess
  <2> QED BY <2>2 DEF T, U, p
<1> HIDE DEF b, u
<1>9. <<b, u>> \in UNION {Ticket[d] : d \in Calls}
  BY <1>6, Zenon
<1> QED BY <1>3, <1>4, <1>5, <1>8, <1>9 DEF b, u, Tickets

-----------------------------------------------------------------------------
\* Steps after which nobody is signed in, admitted or served who was not.
LEMMA BeginClub ==
  ASSUME IInv, UsedBegun, Grows, NEW c \in Calls, NEW b \in Browsers, NEW f \in Flows,
         Begin(c, b, f)
  PROVE  UNCHANGED Club!vars
<1>1. /\ pc[c] = "idle" /\ pc'[c] = "answered" /\ Apart(c)
      /\ reply'[c] = BeginSets(b, f) /\ UNCHANGED <<status, jar, used>>
  BY DEF Begin, Send, Respond, Goto, Apart, Untouched, IInv, TypeOK
<1>2. Plain(c) /\ Plain(c)'
  BY <1>1, PlainUnless DEF Plain, SignsIn, BeginSets
<1>3. UNCHANGED <<Tickets, Places>>
  BY <1>1, <1>2, PlainStep
<1> QED BY <1>1, <1>3, VouchedStays, AllMembersStay DEF Club!vars

LEMMA LogoutClub ==
  ASSUME IInv, UsedBegun, Grows, NEW c \in Calls, NEW b \in Browsers, Logout(c, b)
  PROVE  UNCHANGED Club!vars
<1>1. /\ pc[c] = "idle" /\ pc'[c] = "answered" /\ Apart(c)
      /\ reply'[c] = Clear({"session"}) /\ UNCHANGED <<status, jar, used>>
  BY DEF Logout, Send, Respond, Goto, Apart, Untouched, IInv, TypeOK, google
<1>2. Plain(c) /\ Plain(c)'
  BY <1>1, PlainUnless DEF Plain, SignsIn, Clear
<1>3. UNCHANGED <<Tickets, Places>>
  BY <1>1, <1>2, PlainStep
<1> QED BY <1>1, <1>3, VouchedStays, AllMembersStay DEF Club!vars

LEMMA SentClub ==
  ASSUME IInv, UsedBegun, Grows, NEW c \in Calls, NEW b \in Browsers, NEW f \in Flows,
         Callback(c, b, f) \/ Enter(c, b)
  PROVE  UNCHANGED Club!vars
<1>1. /\ pc[c] = "idle" /\ pc'[c] \in {"exchange", "check"} /\ Apart(c)
      /\ UNCHANGED <<reply, status, jar, used>>
  BY DEF Callback, Enter, Send, Goto, Apart, Untouched, IInv, TypeOK, google
<1>2. Plain(c)
  BY <1>1, PlainUnless
<1>3. Plain(c)'
  BY <1>1, <1>2 DEF Plain
<1>4. UNCHANGED <<Tickets, Places>>
  BY <1>1, <1>2, <1>3, PlainStep
<1> QED BY <1>1, <1>4, VouchedStays, AllMembersStay DEF Club!vars

LEMMA CallsAside ==
  ASSUME IInv, UsedBegun, Grows, UNCHANGED <<pc, request, reply, goes, used>>
  PROVE  UNCHANGED <<Vouched, Tickets, Places>>
<1>1. \A d \in Calls : Ticket'[d] = Ticket[d] /\ Inside'[d] = Inside[d]
  BY Bystander DEF Untouched
<1> QED BY <1>1, CallsStay, VouchedStays

LEMMA ChooseClub ==
  ASSUME IInv, UsedBegun, Grows, NEW f \in Flows, NEW u \in Users, Choose(f, u)
  PROVE  UNCHANGED Club!vars
BY CallsAside, AllMembersStay DEF Choose, Club!vars

\* Google vouches for whoever is chosen, and tells this server or does not.
LEMMA ExchangeClub ==
  ASSUME IInv, UsedBegun, Grows, NEW c \in Calls, Exchange(c) \/ ExchangeAnswerLost(c)
  PROVE  [Club!Next]_Club!vars
<1> DEFINE f == request[c].flow
<1>1. /\ pc[c] = "exchange" /\ used' = used \union {f}
      /\ UNCHANGED <<status, jar, begun, chosen>>
  BY DEF Exchange, ExchangeAnswerLost
<1>2. /\ f \in Flows /\ begun[f] = request[c].browser /\ begun[f] \in Browsers
      /\ chosen[f] \in Users
  BY <1>1 DEF IInv, TypeOK, CallInv, Stage, RequestInv, Cookies
<1>3. Vouched' = Vouched \union {<<begun[f], chosen[f]>>}
  BY <1>1 DEF Vouched
<1>4. UNCHANGED <<Tickets, Places>>
  <2>1. CASE Exchange(c)
    <3>1. Apart(c) /\ pc'[c] = "upsert" /\ reply' = reply
      BY <2>1 DEF Exchange, Goto, Apart, Untouched, IInv, TypeOK
    <3>2. Plain(c) /\ Plain(c)'
      BY <1>1, <3>1, PlainUnless DEF Plain
    <3> QED BY <3>1, <3>2, PlainStep
  <2>2. CASE ExchangeAnswerLost(c)
    BY <1>1, <2>2, EndClub DEF ExchangeAnswerLost
  <2> QED BY <2>1, <2>2
<1>5. Club!Vouch(begun[f], chosen[f])
  BY <1>1, <1>3, <1>4, AllMembersStay DEF Club!Vouch
<1> QED BY <1>2, <1>5 DEF Club!Next

\* What the upsert finds: Google has vouched for the account in this browser.
LEMMA UpsertAbout ==
  ASSUME IInv, NEW c \in Calls, pc[c] = "upsert"
  PROVE  LET f == request[c].flow
         IN  /\ f \in Flows /\ request[c].browser \in Browsers /\ chosen[f] \in Users
             /\ <<request[c].browser, chosen[f]>> \in Vouched
<1> DEFINE f == request[c].flow
<1>1. f \in used /\ f \in Flows /\ begun[f] = request[c].browser /\ chosen[f] # None
  BY DEF IInv, TypeOK, CallInv, Stage, RequestInv, Cookies
<1>2. <<begun[f], chosen[f]>> \in Vouched
  BY <1>1, Zenon DEF Vouched
<1> QED BY <1>1, <1>2 DEF IInv, TypeOK, CallInv, Stage

LEMMA UpsertAnswerLostClub ==
  ASSUME IInv, UsedBegun, Grows, NEW c \in Calls, UpsertAnswerLost(c)
  PROVE  [Club!Next]_Club!vars
<1> DEFINE b == request[c].browser
           u == chosen[request[c].flow]
<1>1. /\ pc[c] = "upsert" /\ End(c) /\ status' = [status EXCEPT ![u] = AfterLogin(@)]
      /\ UNCHANGED <<jar, used>>
  BY DEF UpsertAnswerLost, google
<1>2. b \in Browsers /\ u \in Users /\ <<b, u>> \in Vouched
  BY <1>1, UpsertAbout
<1>3. UNCHANGED <<Vouched, Tickets, Places, Member>>
  BY <1>1, EndClub, VouchedStays, AllMembersStay
<1>4. CASE status[u] = "banned"
  BY <1>1, <1>2, <1>3, <1>4 DEF Club!vars, AfterLogin, IInv, TypeOK
<1>5. CASE status[u] # "banned"
  <2>1. AfterLogin(status[u]) = "active"
    BY <1>2, <1>5 DEF AfterLogin, IInv, TypeOK, Statuses
  <2>2. Club!Admit(b, u)
    BY <1>1, <1>2, <1>3, <1>5, <2>1 DEF Club!Admit, Club!Banned, IInv, TypeOK
  <2> QED BY <1>2, <2>2 DEF Club!Next
<1> QED BY <1>4, <1>5

LEMMA UpsertClub ==
  ASSUME IInv, UsedBegun, Grows, NEW c \in Calls, Upsert(c)
  PROVE  [Club!Next]_Club!vars
<1> DEFINE b == request[c].browser
           f == request[c].flow
           u == chosen[f]
<1>1. /\ pc[c] = "upsert" /\ status' = [status EXCEPT ![u] = AfterLogin(@)]
      /\ pc'[c] = "answered" /\ Apart(c) /\ UNCHANGED <<jar, google, request>>
  BY DEF Upsert, Respond, Goto, Apart, Untouched, IInv, TypeOK
<1>2. f \in Flows /\ b \in Browsers /\ u \in Users /\ <<b, u>> \in Vouched
  BY <1>1, UpsertAbout
<1>3. UNCHANGED <<Vouched, Member>>
  BY <1>1, VouchedStays, AllMembersStay DEF google
<1>4. Plain(c)
  BY <1>1, PlainUnless
<1>5. CASE status[u] = "banned"
  <2>1. reply'[c] = Clear(Cookies)
    BY <1>5 DEF Upsert, Respond, AfterLogin, IInv, TypeOK
  <2>2. Plain(c)'
    BY <1>1, <2>1 DEF Plain, SignsIn, Clear, Cookies
  <2>3. UNCHANGED <<Tickets, Places>>
    BY <1>1, <1>4, <2>2, PlainStep
  <2> QED BY <1>1, <1>2, <1>3, <1>5, <2>3 DEF Club!vars, AfterLogin, IInv, TypeOK
<1>6. CASE status[u] # "banned"
  <2>1. AfterLogin(status[u]) = "active"
    BY <1>2, <1>6 DEF AfterLogin, IInv, TypeOK, Statuses
  <2>2. reply'[c] = SessionFor(f)
    BY <2>1 DEF Upsert, Respond, IInv, TypeOK
  <2>3. SignsIn(reply'[c]) /\ reply'[c]["session"] = f
    BY <1>2, <2>2, NamesAssumption DEF SignsIn, SessionFor, Cookies
  <2>4. Ticket[c] = {} /\ Ticket'[c] = {<<b, u>>} /\ Inside[c] = {} /\ Inside'[c] = {}
    BY <1>1, <1>4, <2>3 DEF Plain, Ticket, Inside, google
  <2>5. \A d \in Calls : d # c => Ticket'[d] = Ticket[d] /\ Inside'[d] = Inside[d]
    BY <1>1, Bystander DEF Apart
  <2>6. Tickets' = Tickets \union {<<b, u>>}
    <3> DEFINE T == Ticket
               U == Ticket'
               p == <<b, u>>
    <3>1. T[c] = {} /\ U[c] = {p} /\ \A d \in Calls : d # c => U[d] = T[d]
      BY <2>4, <2>5
    <3> HIDE DEF T, U, p
    <3>2. UNION {U[d] : d \in Calls} = (UNION {T[d] : d \in Calls}) \union {p}
      BY <3>1, OneMore
    <3> QED BY <3>2 DEF T, U, p, Tickets
  <2>7. Places' = Places
    <3>1. \A d \in Calls : Inside'[d] = Inside[d]
      BY <2>4, <2>5
    <3>2. UNION {Inside'[d] : d \in Calls} = UNION {Inside[d] : d \in Calls}
      BY <3>1, AllSame, Zenon
    <3> QED BY <3>2 DEF Places
  <2>8. Club!Admit(b, u)
    BY <1>1, <1>2, <1>3, <1>6, <2>1, <2>6, <2>7 DEF Club!Admit, Club!Banned, IInv, TypeOK
  <2> QED BY <1>2, <2>8 DEF Club!Next
<1> QED BY <1>5, <1>6

LEMMA CheckClub ==
  ASSUME IInv, UsedBegun, Grows, NEW c \in Calls, Check(c)
  PROVE  [Club!Next]_Club!vars
<1> DEFINE b == request[c].browser
           f == request[c].cookies["session"]
           u == chosen[f]
<1>1. pc[c] = "check" /\ Apart(c) /\ UNCHANGED <<status, jar, google, request>>
  BY DEF Check, Respond, Goto, Apart, Untouched, IInv, TypeOK
<1>2. f \in Flows /\ f \in used /\ begun[f] = b /\ b \in Browsers
  BY <1>1 DEF IInv, CallInv, Stage, RequestInv, Cookies
<1>3. u \in Users
  BY <1>2 DEF IInv, TypeOK
<1>4. <<b, u>> \in Vouched
  <2>1. <<begun[f], chosen[f]>> \in Vouched
    BY <1>2, Zenon DEF Vouched
  <2> QED BY <1>2, <2>1
<1>5. UNCHANGED <<Vouched, Member>>
  BY <1>1, VouchedStays, AllMembersStay DEF google
<1>6. Plain(c)
  BY <1>1, PlainUnless
<1>7. CASE Admitted(u)
  <2>1. pc'[c] = "serve" /\ reply' = reply
    BY <1>7 DEF Check, Goto, IInv, TypeOK
  <2>2. Ticket[c] = {} /\ Ticket'[c] = {} /\ Inside[c] = {} /\ Inside'[c] = {<<b, u>>}
    BY <1>1, <1>6, <2>1 DEF Plain, Ticket, Inside, google
  <2>3. \A d \in Calls : d # c => Ticket'[d] = Ticket[d] /\ Inside'[d] = Inside[d]
    BY <1>1, Bystander DEF Apart
  <2>4. Places' = Places \union {<<b, u>>}
    <3> DEFINE T == Inside
               U == Inside'
               p == <<b, u>>
    <3>1. T[c] = {} /\ U[c] = {p} /\ \A d \in Calls : d # c => U[d] = T[d]
      BY <2>2, <2>3
    <3> HIDE DEF T, U, p
    <3>2. UNION {U[d] : d \in Calls} = (UNION {T[d] : d \in Calls}) \union {p}
      BY <3>1, OneMore
    <3> QED BY <3>2 DEF T, U, p, Places
  <2>5. Tickets' = Tickets
    <3>1. \A d \in Calls : Ticket'[d] = Ticket[d]
      BY <2>2, <2>3
    <3>2. UNION {Ticket'[d] : d \in Calls} = UNION {Ticket[d] : d \in Calls}
      BY <3>1, AllSame, Zenon
    <3> QED BY <3>2 DEF Tickets
  <2>6. Club!Enter(b, u)
    BY <1>1, <1>4, <1>5, <1>7, <2>4, <2>5 DEF Club!Enter, Club!Banned, Admitted, Banned
  <2> QED BY <1>2, <1>3, <2>6 DEF Club!Next
<1>8. CASE ~Admitted(u)
  <2>1. pc'[c] = "answered" /\ reply'[c] = Clear({"session"})
    BY <1>8 DEF Check, Respond, Goto, IInv, TypeOK
  <2>2. Plain(c)'
    BY <2>1 DEF Plain, SignsIn, Clear
  <2>3. UNCHANGED <<Tickets, Places>>
    BY <1>1, <1>6, <2>2, PlainStep
  <2> QED BY <1>1, <1>5, <2>3 DEF Club!vars
<1> QED BY <1>7, <1>8

\* A call that has been served, or has failed: its session was of somebody.
LEMMA ServedEnds ==
  ASSUME IInv, Grows, NEW c \in Calls, End(c), pc[c] = "serve"
  PROVE  \E b \in Browsers, u \in Users :
           /\ Places' = Places \/ Places' = Places \ {<<b, u>>}
           /\ Tickets' = Tickets
<1> DEFINE b == request[c].browser
           f == request[c].cookies["session"]
           u == chosen[f]
<1>1. f \in Flows /\ f \in used /\ b \in Browsers
  BY DEF IInv, CallInv, Stage, RequestInv, Cookies
<1>2. u \in Users
  BY <1>1 DEF IInv, TypeOK
<1>3. Apart(c) /\ Plain(c)' /\ Tickets' = Tickets
  BY EndClub
<1>4. Inside[c] = {<<b, u>>} /\ Inside'[c] = {}
  BY <1>3 DEF Inside, Plain
<1>5. \A d \in Calls : d # c => Inside'[d] = Inside[d]
  BY <1>3, Bystander DEF Apart
<1>6. Places' = Places \/ Places' = Places \ {<<b, u>>}
  <2> DEFINE T == Inside
             U == Inside'
             p == <<b, u>>
  <2>1. T[c] = {p} /\ U[c] = {} /\ \A d \in Calls : d # c => U[d] = T[d]
    BY <1>4, <1>5
  <2> HIDE DEF T, U, p
  <2>2. \/ UNION {U[d] : d \in Calls} = UNION {T[d] : d \in Calls}
        \/ UNION {U[d] : d \in Calls} = (UNION {T[d] : d \in Calls}) \ {p}
    BY <2>1, OneLess
  <2> QED BY <2>2 DEF T, U, p, Places
<1> QED BY <1>1, <1>2, <1>3, <1>6

LEMMA EndingClub ==
  ASSUME IInv, UsedBegun, Grows, NEW c \in Calls, Serve(c) \/ Fail(c)
  PROVE  [Club!Next]_Club!vars
<1>1. End(c) /\ UNCHANGED <<status, jar, used>>
  BY DEF Serve, Fail, google
<1>2. UNCHANGED <<Vouched, Member>>
  BY <1>1, VouchedStays, AllMembersStay
<1>3. CASE pc[c] = "serve"
  <2>1. PICK b \in Browsers, u \in Users :
          /\ Places' = Places \/ Places' = Places \ {<<b, u>>}
          /\ Tickets' = Tickets
    BY <1>1, <1>3, ServedEnds
  <2>2. Club!Leave(b, u) \/ UNCHANGED Club!vars
    BY <1>1, <1>2, <2>1 DEF Club!Leave, Club!vars
  <2> QED BY <2>2 DEF Club!Next
<1>4. CASE SignsIn(reply[c])
  <2> DEFINE b == request[c].browser
             u == chosen[reply[c]["session"]]
  <2>1. /\ b \in Browsers /\ u \in Users /\ Places' = Places
        /\ Tickets' = Tickets \/ Tickets' = Tickets \ {<<b, u>>}
    BY <1>1, <1>4, TicketEnds
  <2>2. Club!LoseTicket(b, u) \/ UNCHANGED Club!vars
    BY <1>1, <1>2, <2>1 DEF Club!LoseTicket, Club!vars
  <2> QED BY <2>1, <2>2 DEF Club!Next
<1>5. CASE Plain(c)
  <2>1. UNCHANGED <<Tickets, Places>>
    BY <1>1, <1>5, EndClub, PlainStep
  <2> QED BY <1>1, <1>2, <2>1 DEF Club!vars
<1> QED BY <1>3, <1>4, <1>5 DEF Plain

\* A response arrives: only one with a session signs somebody in.
LEMMA ArriveClub ==
  ASSUME IInv, UsedBegun, Grows, NEW c \in Calls, Arrive(c)
  PROVE  [Club!Next]_Club!vars
<1> DEFINE b == request[c].browser
           now == IF "session" \in DOMAIN reply[c] THEN reply[c]["session"]
                  ELSE jar[b]["session"]
<1>1. /\ pc[c] = "answered" /\ End(c) /\ UNCHANGED <<status, google>>
      /\ jar' = [jar EXCEPT ![b] = [k \in Cookies |->
                   IF k \in DOMAIN reply[c] THEN reply[c][k] ELSE jar[b][k]]]
  BY DEF Arrive
<1>2. b \in Browsers
  BY <1>1 DEF IInv, CallInv, Stage
<1>3. /\ jar'[b]["session"] = now
      /\ \A a \in Browsers : a # b => jar'[a]["session"] = jar[a]["session"]
  BY <1>1, <1>2 DEF IInv, TypeOK, Cookies
<1>4. Vouched' = Vouched
  BY <1>1, VouchedStays DEF google
<1>5. \A a \in Browsers : a # b => Member'[a] = Member[a]
  BY <1>3, MemberStays
<1>6. Member'[b] = IF now = None THEN None ELSE chosen[now]
  <2>1. /\ Member'[b] = IF jar'[b]["session"] = None THEN None
                          ELSE chosen'[jar'[b]["session"]]
        /\ chosen' = chosen
    BY <1>1, <1>2 DEF Member, google
  <2> HIDE DEF now
  <2> QED BY <1>3, <2>1
<1>7. ASSUME NEW v, Member'[b] = v PROVE Member' = [Member EXCEPT ![b] = v]
  BY <1>2, <1>5, <1>7 DEF Member
<1>8. CASE SignsIn(reply[c])
  <2> DEFINE u == chosen[reply[c]["session"]]
  <2>1. /\ u \in Users /\ Places' = Places /\ <<b, u>> \in Tickets
        /\ Tickets' = Tickets \/ Tickets' = Tickets \ {<<b, u>>}
    BY <1>1, <1>8, TicketEnds
  <2>2. Member' = [Member EXCEPT ![b] = u]
    BY <1>6, <1>7, <1>8 DEF SignsIn
  <2>3. Club!SignIn(b, u)
    BY <1>1, <1>4, <2>1, <2>2 DEF Club!SignIn
  <2> QED BY <1>2, <2>1, <2>3 DEF Club!Next
<1>9. CASE ~SignsIn(reply[c])
  <2>1. UNCHANGED <<Tickets, Places>>
    BY <1>1, <1>9, EndClub, PlainStep DEF Plain
  <2>2. CASE "session" \in DOMAIN reply[c]
    <3>1. Member' = [Member EXCEPT ![b] = None]
      BY <1>6, <1>7, <1>9, <2>2 DEF SignsIn
    <3>2. Club!SignOut(b)
      BY <1>1, <1>4, <2>1, <3>1 DEF Club!SignOut
    <3> QED BY <1>2, <3>2 DEF Club!Next
  <2>3. CASE "session" \notin DOMAIN reply[c]
    <3>1. Member' = Member
      BY <1>3, <2>3, AllMembersStay
    <3> QED BY <1>1, <1>4, <2>1, <3>1 DEF Club!vars
  <2> QED BY <2>2, <2>3
<1> QED BY <1>8, <1>9

LEMMA ExpireClub ==
  ASSUME IInv, UsedBegun, Grows, NEW b \in Browsers, NEW k \in Cookies, Expire(b, k)
  PROVE  [Club!Next]_Club!vars
<1>1. /\ jar' = [jar EXCEPT ![b] = [@ EXCEPT ![k] = None]]
      /\ UNCHANGED <<status, google, pc, request, reply, goes>>
  BY DEF Expire
<1>2. UNCHANGED <<Vouched, Tickets, Places>>
  BY <1>1, CallsAside DEF google
<1>3. CASE k = "session"
  <2>1. jar'[b]["session"] = None
    BY <1>1, <1>3 DEF IInv, TypeOK
  <2>2. \A a \in Browsers : a # b => Member'[a] = Member[a]
    BY <1>1, MemberStays DEF IInv, TypeOK
  <2>3. Member' = [Member EXCEPT ![b] = None]
    BY <2>1, <2>2 DEF Member
  <2>4. Club!SignOut(b)
    BY <1>1, <1>2, <2>3 DEF Club!SignOut
  <2> QED BY <2>4 DEF Club!Next
<1>4. CASE k # "session"
  <2>1. \A a \in Browsers : jar'[a]["session"] = jar[a]["session"]
    BY <1>1, <1>4 DEF IInv, TypeOK, Cookies
  <2> QED BY <1>1, <1>2, <2>1, AllMembersStay DEF Club!vars
<1> QED BY <1>3, <1>4

LEMMA AdministerClub ==
  ASSUME IInv, UsedBegun, Grows, NEW u \in Users, NEW s \in Statuses, Administer(u, s)
  PROVE  [Club!Next]_Club!vars
<1>1. /\ status[u] # "none" /\ status' = [status EXCEPT ![u] = s]
      /\ UNCHANGED <<jar, used, pc, request, reply, goes>>
  BY DEF Administer, google
<1>2. UNCHANGED <<Vouched, Tickets, Places, Member>>
  BY <1>1, CallsAside, AllMembersStay
<1>3. Club!Administer(u, s)
  BY <1>1, <1>2 DEF Club!Administer
<1> QED BY <1>3 DEF Club!Next, Statuses

LEMMA ClubInit == Init => Club!Init
<1> SUFFICES ASSUME Init PROVE Club!Init
  OBVIOUS
<1>1. \A c \in Calls : Ticket[c] = {} /\ Inside[c] = {}
  BY NoReplyType DEF Init, Ticket, SignsIn, Inside
<1>2. Tickets = {} /\ Places = {}
  BY <1>1 DEF Tickets, Places
<1>3. Vouched = {}
  BY DEF Init, Vouched
<1>4. Member = [b \in Browsers |-> None]
  BY DEF Init, Member, EmptyJar, Cookies
<1> QED BY <1>2, <1>3, <1>4 DEF Init, Club!Init

LEMMA ClubStep == IInv /\ UsedBegun /\ [Next]_vars => [Club!Next]_Club!vars
<1> SUFFICES ASSUME IInv, UsedBegun, [Next]_vars PROVE [Club!Next]_Club!vars
  OBVIOUS
<1>1. Grows
  BY StepGrows
<1>2. ASSUME NEW c \in Calls, NEW b \in Browsers, NEW f \in Flows,
             Begin(c, b, f) \/ Callback(c, b, f)
      PROVE  [Club!Next]_Club!vars
  BY <1>1, <1>2, BeginClub, SentClub
<1>3. ASSUME NEW f \in Flows, NEW u \in Users, Choose(f, u) PROVE [Club!Next]_Club!vars
  BY <1>1, <1>3, ChooseClub
<1>4. ASSUME NEW c \in Calls, NEW b \in Browsers, Logout(c, b) PROVE [Club!Next]_Club!vars
  BY <1>1, <1>4, LogoutClub
<1>5. ASSUME NEW c \in Calls, NEW b \in Browsers, Enter(c, b) PROVE [Club!Next]_Club!vars
  <2>1. jar[b]["session"] \in Flows
    BY <1>5 DEF Enter, IInv, TypeOK, Cookies, Contents
  <2> QED BY <1>1, <1>5, <2>1, SentClub
<1>6. ASSUME NEW c \in Calls,
             Exchange(c) \/ ExchangeAnswerLost(c) \/ Upsert(c) \/ UpsertAnswerLost(c)
      PROVE  [Club!Next]_Club!vars
  BY <1>1, <1>6, ExchangeClub, UpsertClub, UpsertAnswerLostClub
<1>7. ASSUME NEW c \in Calls, Check(c) \/ Serve(c) \/ Fail(c) \/ Arrive(c)
      PROVE  [Club!Next]_Club!vars
  BY <1>1, <1>7, CheckClub, EndingClub, ArriveClub
<1>8. ASSUME NEW b \in Browsers, NEW k \in Cookies, Expire(b, k) PROVE [Club!Next]_Club!vars
  BY <1>1, <1>8, ExpireClub
<1>9. ASSUME NEW u \in Users, NEW s \in Statuses, Administer(u, s)
      PROVE  [Club!Next]_Club!vars
  BY <1>1, <1>9, AdministerClub
<1>10. CASE UNCHANGED vars
  BY <1>1, <1>10, CallsAside, AllMembersStay DEF vars, google, Club!vars
<1> QED BY <1>2, <1>3, <1>4, <1>5, <1>6, <1>7, <1>8, <1>9, <1>10 DEF Next

\* Sign-in implements Members, for any users, browsers and requests: who may be
\* signed in and served, whatever order responses arrive in and whatever is lost.
THEOREM SessionsAreMembers == Spec => MembersSpec
<1>1. Init => UsedBegun
  BY DEF Init, UsedBegun
<1> QED BY <1>1, UsedStep, ClubInit, ClubStep, Invariant, PTL
        DEF Spec, MembersSpec, Club!Spec
=============================================================================
