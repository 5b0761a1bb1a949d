------------------------- MODULE SmtpSessionProofs -------------------------
(* Proofs about module SmtpSession: types, what is reported of a message,   *)
(* how credentials travel, that a test sends one message, and its progress. *)
EXTENDS SmtpSession, TLAPS

\* Only a test with a message comes to the commands that send one.
SendingSends == pc \in {"mail", "rcpt", "data", "end"} => Sends

\* Where the connection must be encrypted already: from the start with SSL,
\* and after STARTTLS.
Secured == /\ Awaiting /\ test.security = "ssl" => secure
           /\ pc = "helloTLS" => secure
           /\ pc = "auth" /\ test.security = "starttls" => secure

\* The inductive invariant.
IInv == TypeOK /\ SendingSends /\ Secured /\ AcceptedAccounted /\ EncryptedAsAsked

\* What a test is made of.
LEMMA TestFields ==
  ASSUME NEW t \in Test
  PROVE  /\ t.kind \in Kinds /\ t.security \in Securities
         /\ t.local \in BOOLEAN
BY DEF Test

LEMMA NoTestType == NoTest \in Test
BY DEF NoTest, Test, Kinds, Securities

LEMMA InitInv == Init => IInv
<1> SUFFICES ASSUME Init PROVE IInv
  OBVIOUS
<1>1. TypeOK
  <2>1. tests \in 0..MaxTests
    BY TestsAssumption DEF Init
  <2>2. accepted \in Nat /\ oks \in Nat /\ late \in Nat
    BY DEF Init
  <2> QED BY <2>1, <2>2, NoTestType DEF Init, TypeOK, Places, Awaiting
<1>2. SendingSends /\ Secured
  BY DEF Init, SendingSends, Secured, Awaiting
<1>3. AcceptedAccounted
  BY DEF Init, AcceptedAccounted, Pending
<1>4. EncryptedAsAsked
  BY DEF Init, EncryptedAsAsked
<1> QED BY <1>1, <1>2, <1>3, <1>4 DEF IInv

\* The end of a test, and what it adds to the books: a success is reported
\* only after QUIT, and a failure counts as late at the end of DATA or at QUIT.
Closed == /\ pc' = "idle" /\ test' = NoTest
          /\ open' = FALSE /\ secure' = FALSE /\ stalled' = FALSE

Booked == \/ /\ ~Sends \/ pc \notin {"end", "quit"}
             /\ oks' = oks /\ late' = late
          \/ /\ Sends /\ pc = "quit"
             /\ oks' = oks + 1 /\ late' = late
          \/ /\ Sends /\ pc \in {"end", "quit"}
             /\ oks' = oks /\ late' = late + 1

LEMMA ReturnKeeps ==
  ASSUME IInv, Closed, Booked,
         UNCHANGED <<tests, exposed>>,
         accepted' \in Nat,
         accepted' = accepted \/ (pc = "end" /\ accepted' = accepted + 1)
  PROVE  IInv'
<1>1. TypeOK'
  <2>1. oks' \in Nat /\ late' \in Nat
    BY DEF IInv, TypeOK, Booked
  <2> QED BY <2>1, NoTestType DEF Closed, IInv, TypeOK, Places, Awaiting
<1>2. SendingSends' /\ Secured'
  BY DEF Closed, SendingSends, Secured, Awaiting
<1>3. AcceptedAccounted'
  <2>1. Pending' = 0
    BY DEF Closed, Pending
  <2>2. CASE Sends
    BY <2>1, <2>2 DEF IInv, TypeOK, AcceptedAccounted, Pending, Booked
  <2>3. CASE ~Sends
    BY <2>1, <2>3 DEF IInv, TypeOK, AcceptedAccounted, Pending, Booked, SendingSends
  <2> QED BY <2>2, <2>3
<1>4. EncryptedAsAsked'
  BY DEF IInv, EncryptedAsAsked
<1> QED BY <1>1, <1>2, <1>3, <1>4 DEF IInv

\* AUTH goes out only on a connection that is as it was asked for.
LEMMA SentProtected ==
  ASSUME IInv, Sent
  PROVE  exposed' = exposed
<1>1. ASSUME pc = "auth", MayAuth PROVE AsAsked
  BY <1>1 DEF IInv, TypeOK, Secured, Awaiting, AsAsked, MayAuth, Test, Securities
<1> QED BY <1>1 DEF Sent, IInv, TypeOK

LEMMA HandledTakes ==
  ASSUME IInv, Handled
  PROVE  /\ accepted' \in Nat
         /\ accepted' = accepted \/ (pc = "end" /\ accepted' = accepted + 1)
BY DEF Handled, IInv, TypeOK

\* However a test ends, it is booked: a failure of one with a message, the
\* end of CheckAuth, the success of RunTest.
LEMMA FailureBooked == Return(FALSE) => Closed /\ Booked
BY DEF Return, Closed, Booked

LEMMA ErrorBooked == Return(~ErrorIsFatal) => Closed /\ Booked
BY DEF Return, Closed, Booked, ErrorIsFatal, Sends

LEMMA BeginKeeps ==
  ASSUME IInv, NEW t \in Test, Begin(t)
  PROVE  IInv'
<1>1. TypeOK'
  BY TestsAssumption DEF IInv, TypeOK, Places, Begin, conn, reports, Awaiting
<1>2. SendingSends' /\ Secured'
  BY DEF Begin, conn, SendingSends, Secured, Awaiting
<1>3. AcceptedAccounted'
  BY DEF IInv, Begin, reports, AcceptedAccounted, Pending
<1>4. EncryptedAsAsked'
  BY DEF IInv, Begin, EncryptedAsAsked
<1> QED BY <1>1, <1>2, <1>3, <1>4 DEF IInv

LEMMA DialKeeps ==
  ASSUME IInv, Dial
  PROVE  IInv'
<1>1. TypeOK'
  BY DEF IInv, TypeOK, Places, Dial, reports, Awaiting
<1>2. SendingSends' /\ Secured'
  BY DEF Dial, SendingSends, Secured, Awaiting
<1>3. AcceptedAccounted'
  BY DEF IInv, Dial, reports, AcceptedAccounted, Pending
<1>4. EncryptedAsAsked'
  BY DEF IInv, Dial, EncryptedAsAsked
<1> QED BY <1>1, <1>2, <1>3, <1>4 DEF IInv

LEMMA StallKeeps ==
  ASSUME IInv, Stall
  PROVE  IInv'
<1>1. TypeOK'
  BY DEF IInv, TypeOK, Stall, reports, Awaiting, MayStall
<1>2. SendingSends' /\ Secured'
  BY DEF IInv, Stall, SendingSends, Secured, Awaiting, Sends
<1>3. AcceptedAccounted'
  BY DEF IInv, Stall, reports, AcceptedAccounted, Pending, Sends
<1>4. EncryptedAsAsked'
  BY DEF IInv, Stall, EncryptedAsAsked
<1> QED BY <1>1, <1>2, <1>3, <1>4 DEF IInv

\* Where a positive reply can lead, and from where.
LEMMA Replies ==
  ASSUME IInv, Awaiting
  PROVE  /\ AfterReply \in Places \union {"ok", "fail"}
         /\ AfterReply \notin {"idle", "dial", "greeting"}
         /\ AfterReply = "ok" => pc = "quit" \/ ~Sends
         /\ AfterReply = "quit" => pc = "end" \/ ~Sends
         /\ AfterReply \in {"mail", "rcpt", "data", "end"} => Sends
         /\ AfterReply = "helloTLS" => pc = "starttls"
         /\ AfterReply = "auth" => secure \/ test.security # "starttls"
         /\ pc = "end" => AfterReply = "quit"
<1>1. pc \in Places /\ pc \notin {"idle", "dial"}
  BY DEF IInv, TypeOK, Awaiting
<1>2. CASE pc \in {"greeting", "starttls", "mail", "rcpt", "data", "end", "quit"}
  BY <1>1, <1>2 DEF IInv, SendingSends, Places, AfterReply
<1>3. CASE pc \in {"hello", "helloTLS"}
  BY <1>1, <1>3 DEF IInv, Secured, Places, AfterReply, AfterHello, AfterAuth
<1>4. CASE pc = "auth"
  BY <1>1, <1>4 DEF Places, AfterReply, AfterAuth
<1> QED BY <1>1, <1>2, <1>3, <1>4 DEF Places

LEMMA ReplyKeeps ==
  ASSUME IInv, Reply
  PROVE  IInv'
<1>1. exposed' = exposed
  BY SentProtected DEF Reply
<1>2. /\ accepted' \in Nat
      /\ accepted' = accepted \/ (pc = "end" /\ accepted' = accepted + 1)
  BY HandledTakes DEF Reply
<1>3. CASE AfterReply \in {"ok", "fail"}
  <2>1. Return(AfterReply = "ok") /\ UNCHANGED tests
    BY <1>3 DEF Reply
  <2>2. Sends /\ AfterReply = "ok" => pc = "quit"
    BY Replies DEF Reply
  <2>3. pc # "end"
    BY <1>3, Replies DEF Reply
  <2>4. Sends /\ AfterReply = "fail" => pc # "quit"
    BY DEF AfterReply
  <2>5. Closed /\ Booked
    BY <1>3, <2>1, <2>2, <2>3, <2>4 DEF Return, Closed, Booked
  <2> QED BY <1>1, <1>2, <2>1, <2>5, ReturnKeeps
<1>4. CASE AfterReply \notin {"ok", "fail"}
  <2>1. /\ pc' = AfterReply
        /\ secure' = (secure \/ pc = "starttls")
        /\ UNCHANGED <<test, open, stalled, tests, oks, late>>
        /\ Awaiting
    BY <1>4 DEF Reply, reports
  <2>2. pc' \in Places /\ pc' \notin {"idle", "dial", "greeting"}
    BY <1>4, <2>1, Replies DEF Places
  <2>3. TypeOK'
    BY <1>1, <1>2, <2>1, <2>2 DEF IInv, TypeOK, Awaiting
  <2>4. SendingSends'
    BY <2>1, Replies DEF SendingSends, Sends
  <2>5. Secured'
    BY <2>1, Replies DEF IInv, Secured, Awaiting
  <2>6. AcceptedAccounted'
    <3>1. accepted' = IF pc = "end" THEN accepted + 1 ELSE accepted
      BY DEF Reply, Handled
    <3>2. Sends' = Sends
      BY <2>1 DEF Sends
    <3>3. CASE pc = "end"
      <4>1. pc' = "quit" /\ Sends
        BY <2>1, <3>3, Replies DEF IInv, SendingSends
      <4> QED
        BY <2>1, <3>1, <3>2, <3>3, <4>1 DEF IInv, TypeOK, AcceptedAccounted, Pending
    <3>4. CASE pc # "end"
      <4>1. Pending = 0 /\ Pending' = 0
        BY <1>4, <2>1, <3>2, <3>4, Replies DEF Pending, AfterReply
      <4> QED
        BY <2>1, <3>1, <3>4, <4>1 DEF IInv, TypeOK, AcceptedAccounted
    <3> QED BY <3>3, <3>4
  <2>7. EncryptedAsAsked'
    BY <1>1 DEF IInv, EncryptedAsAsked
  <2> QED BY <2>3, <2>4, <2>5, <2>6, <2>7 DEF IInv
<1> QED BY <1>3, <1>4

LEMMA StepInv == IInv /\ [Next]_vars => IInv'
<1> SUFFICES ASSUME IInv, [Next]_vars PROVE IInv'
  OBVIOUS
<1>1. ASSUME NEW t \in Test, Begin(t) PROVE IInv'
  BY <1>1, BeginKeeps
<1>2. CASE Dial
  BY <1>2, DialKeeps
<1>3. CASE DialFails
  <2>1. Return(FALSE) /\ UNCHANGED <<tests, exposed>> /\ accepted' = accepted
    BY <1>3 DEF DialFails
  <2> QED BY <2>1, FailureBooked, ReturnKeeps DEF IInv, TypeOK
<1>4. CASE GreetingFails
  <2>1. Return(FALSE) /\ UNCHANGED <<tests, exposed>> /\ accepted' = accepted
    BY <1>4 DEF GreetingFails
  <2> QED BY <2>1, FailureBooked, ReturnKeeps DEF IInv, TypeOK
<1>5. CASE Reply
  BY <1>5, ReplyKeeps
<1>6. CASE Refuse
  <2>1. exposed' = exposed
    BY <1>6, SentProtected DEF Refuse
  <2>2. Return(~ErrorIsFatal) /\ UNCHANGED tests /\ accepted' = accepted
    BY <1>6 DEF Refuse
  <2> QED BY <2>1, <2>2, ErrorBooked, ReturnKeeps DEF IInv, TypeOK
<1>7. CASE Break
  <2>1. exposed' = exposed
    BY <1>7, SentProtected DEF Break
  <2>2. Return(~ErrorIsFatal) /\ UNCHANGED tests /\ accepted' = accepted
    BY <1>7 DEF Break
  <2> QED BY <2>1, <2>2, ErrorBooked, ReturnKeeps DEF IInv, TypeOK
<1>8. CASE ReplyLost
  <2>1. exposed' = exposed
    BY <1>8, SentProtected DEF ReplyLost
  <2>2. Return(~ErrorIsFatal) /\ UNCHANGED tests /\ Handled
    BY <1>8 DEF ReplyLost
  <2> QED BY <2>1, <2>2, HandledTakes, ErrorBooked, ReturnKeeps
<1>9. CASE Stall
  BY <1>9, StallKeeps
<1>10. CASE UNCHANGED vars
  BY <1>10 DEF vars, IInv, TypeOK, SendingSends, Secured, AcceptedAccounted,
               EncryptedAsAsked, Awaiting, Pending, Sends
<1> QED BY <1>1, <1>2, <1>3, <1>4, <1>5, <1>6, <1>7, <1>8, <1>9, <1>10 DEF Next

-----------------------------------------------------------------------------
\* The invariant holds in every state, however many tests there are.
THEOREM Invariant == Spec => []IInv
BY InitInv, StepInv, PTL DEF Spec

\* The types, and that no connection outlives its test (defer client.Close,
\* and conn.Close where there is no client).
THEOREM TypeCorrect == Spec => []TypeOK
<1>1. IInv => TypeOK
  BY DEF IInv
<1> QED BY <1>1, Invariant, PTL

\* RunTest reports as accepted what was accepted, and reports a failure of an
\* accepted message only at the end of DATA and at QUIT.
THEOREM Accounted == Spec => []AcceptedAccounted
<1>1. IInv => AcceptedAccounted
  BY DEF IInv
<1> QED BY <1>1, Invariant, PTL

\* Credentials go out on a connection as it was asked for, or to localhost.
THEOREM Encrypted == Spec => []EncryptedAsAsked
<1>1. IInv => EncryptedAsAsked
  BY DEF IInv
<1> QED BY <1>1, Invariant, PTL
-----------------------------------------------------------------------------
\* A test sends at most one message, whatever replies are lost.
OneMessageEach == accepted <= tests

\* The test under way has not had its message taken yet.
Unsent == IF pc \in {"idle", "quit"} THEN 0 ELSE 1
Spared == accepted + Unsent <= tests

LEMMA SparedStep == IInv /\ Spared /\ [Next]_vars => Spared'
<1> SUFFICES ASSUME IInv, Spared, [Next]_vars PROVE Spared'
  OBVIOUS
<1>0. accepted \in Nat /\ tests \in Nat /\ pc \in Places
  BY DEF IInv, TypeOK
<1>1. ASSUME NEW t \in Test, Begin(t) PROVE Spared'
  BY <1>0, <1>1 DEF Begin, Spared, Unsent
<1>2. CASE Dial \/ Stall
  BY <1>0, <1>2 DEF Dial, Stall, MayStall, Awaiting, Spared, Unsent
<1>3. CASE DialFails \/ GreetingFails \/ Refuse \/ Break
  BY <1>0, <1>3 DEF DialFails, GreetingFails, Refuse, Break, Return, Spared, Unsent
<1>4. CASE ReplyLost
  BY <1>0, <1>4 DEF ReplyLost, Return, Handled, Awaiting, Spared, Unsent
<1>5. CASE Reply
  <2>1. /\ accepted' = (IF pc = "end" THEN accepted + 1 ELSE accepted)
        /\ tests' = tests /\ pc \notin {"idle", "dial"}
    BY <1>5 DEF Reply, Handled, Awaiting
  <2>2. CASE pc = "end"
    <3>1. pc' = "quit"
      BY <1>5, <2>2 DEF Reply, AfterReply
    <3> QED BY <1>0, <2>1, <2>2, <3>1 DEF Spared, Unsent
  <2>3. CASE pc = "quit"
    <3>1. pc' = "idle"
      BY <1>5, <2>3 DEF Reply, AfterReply, Return
    <3> QED BY <1>0, <2>1, <2>3, <3>1 DEF Spared, Unsent
  <2>4. CASE pc \notin {"end", "quit"}
    BY <1>0, <2>1, <2>4 DEF Spared, Unsent
  <2> QED BY <2>2, <2>3, <2>4
<1>6. CASE UNCHANGED vars
  BY <1>6 DEF vars, Spared, Unsent
<1> QED BY <1>1, <1>2, <1>3, <1>4, <1>5, <1>6 DEF Next

\* RunTest sends its message once: whoever runs n tests has not sent more than
\* n messages, whatever was reported of them.
THEOREM SentOnce == Spec => []OneMessageEach
<1>1. Init => Spared
  BY DEF Init, Spared, Unsent
<1>2. IInv /\ Spared => OneMessageEach
  BY DEF IInv, TypeOK, Spared, Unsent, OneMessageEach
<1> QED BY <1>1, <1>2, SparedStep, Invariant, PTL DEF Spec

-----------------------------------------------------------------------------
\* How far a test is.
Position(p) == CASE p = "dial" -> 1 [] p = "greeting" -> 2 [] p = "hello" -> 3
                 [] p = "starttls" -> 4 [] p = "helloTLS" -> 5 [] p = "auth" -> 6
                 [] p = "mail" -> 7 [] p = "rcpt" -> 8 [] p = "data" -> 9
                 [] p = "end" -> 10 [] OTHER -> 11

\* A test ends or comes further with every step, but for the one that stalls
\* the server: no answer to EHLO sends it back to STARTTLS.
Advances ==
  pc # "idle" => \/ pc' = "idle"
                 \/ Position(pc) < Position(pc')
                 \/ UNCHANGED pc /\ ~stalled /\ stalled'
DialogueAdvances == [][Advances]_vars

LEMMA AdvanceStep == IInv /\ [Next]_vars => Advances \/ UNCHANGED vars
<1> SUFFICES ASSUME IInv, [Next]_vars, ~UNCHANGED vars, pc # "idle"
             PROVE  Advances
  BY DEF Advances
<1>1. CASE Dial
  BY <1>1 DEF Dial, Advances, Position
<1>2. CASE DialFails \/ GreetingFails \/ Refuse \/ Break \/ ReplyLost
  BY <1>2 DEF DialFails, GreetingFails, Refuse, Break, ReplyLost, Return, Advances
<1>3. CASE Stall
  BY <1>3 DEF Stall, Advances
<1>4. CASE Reply
  <2>1. CASE AfterReply \in {"ok", "fail"}
    BY <1>4, <2>1 DEF Reply, Return, Advances
  <2>2. CASE AfterReply \notin {"ok", "fail"}
    <3>1. pc' = AfterReply /\ pc \in Places \ {"idle", "dial"}
      BY <1>4, <2>2 DEF Reply, Awaiting, IInv, TypeOK
    <3>2. CASE pc \in {"hello", "helloTLS"}
      <4>1. pc' = "auth" \/ (pc' = "starttls" /\ ~secure)
        BY <2>2, <3>1, <3>2 DEF AfterReply, AfterHello
      <4>2. pc = "helloTLS" => secure
        BY DEF IInv, Secured
      <4> QED BY <3>2, <4>1, <4>2 DEF Advances, Position
    <3>3. CASE pc = "auth"
      <4>1. pc' \in {"mail", "quit"}
        BY <2>2, <3>1, <3>3 DEF AfterReply, AfterAuth
      <4> QED BY <3>3, <4>1 DEF Advances, Position
    <3>4. CASE pc \in {"greeting", "starttls", "mail", "rcpt", "data", "end"}
      <4>1. pc = "greeting" => pc' = "hello"
        BY <3>1 DEF AfterReply
      <4>2. pc = "starttls" => pc' = "helloTLS"
        BY <3>1 DEF AfterReply
      <4>3. pc = "mail" => pc' = "rcpt"
        BY <3>1 DEF AfterReply
      <4>4. pc = "rcpt" => pc' = "data"
        BY <3>1 DEF AfterReply
      <4>5. pc = "data" => pc' = "end"
        BY <3>1 DEF AfterReply
      <4>6. pc = "end" => pc' = "quit"
        BY <3>1 DEF AfterReply
      <4> QED BY <3>4, <4>1, <4>2, <4>3, <4>4, <4>5, <4>6 DEF Advances, Position
    <3>5. pc # "quit"
      BY <2>2 DEF AfterReply
    <3> QED BY <3>1, <3>2, <3>3, <3>4, <3>5 DEF Places
  <2> QED BY <2>1, <2>2
<1> QED BY <1>1, <1>2, <1>3, <1>4 DEF Next, Begin

\* A test is over after ten replies at most, unless the server stops answering:
\* why tests end (TestEnds).
THEOREM Progress == Spec => DialogueAdvances
<1>1. IInv /\ [Next]_vars => [Advances]_vars
  BY AdvanceStep
<1> QED BY <1>1, Invariant, PTL DEF Spec, DialogueAdvances
=============================================================================
