---------------------------- MODULE SmtpSession ----------------------------
(***************************************************************************)
(* The SMTP tester: CheckAuth and RunTest (internal/smtp/test.go), which   *)
(* handleSMTPCheckAuth and handleSMTPTest run to their end before they     *)
(* answer.  A test is a dialogue with a mail server of the user's choice,  *)
(* over net/smtp: each command is sent and its reply awaited.  The server  *)
(* may refuse a command, the connection may break before the server has    *)
(* handled it or before the reply is back, and the server may stop         *)
(* answering.  Only the dial has a timeout (15 s); nothing sets a deadline *)
(* on the connection.                                                      *)
(*                                                                         *)
(* One user repeats tests as long as there are any left.  The rate limit   *)
(* of the handlers (module RateLimiter) and the contents of the message    *)
(* are left out.                                                           *)
(***************************************************************************)
EXTENDS Naturals

CONSTANT MaxTests  \* bound of the model: tests the user runs

ASSUME TestsAssumption == MaxTests \in Nat \ {0}

\* A test: of the credentials alone or with a message, how the connection is
\* to be secured, and what the server is: whether it is localhost, and what
\* it offers in reply to EHLO, in the clear and over TLS.
Kinds      == {"check", "send"}
Securities == {"starttls", "ssl", "none"}
Extensions == {"STARTTLS", "AUTH"}
Test == [kind: Kinds, security: Securities, local: BOOLEAN,
         clear: SUBSET Extensions, tls: SUBSET {"AUTH"}]

\* The commands, and what comes before the first one.
Places == {"idle", "dial", "greeting", "hello", "starttls", "helloTLS", "auth",
           "mail", "rcpt", "data", "end", "quit"}

NoTest == [kind |-> "check", security |-> "none", local |-> FALSE,
           clear |-> {}, tls |-> {}]

VARIABLES
  test,      \* the test under way
  pc,        \* the reply it waits for
  open,      \* is there a connection?
  secure,    \* is it encrypted?
  stalled,   \* the server has stopped answering
  tests,     \* tests begun
  accepted,  \* history: messages that servers have taken
  oks,       \* history: messages reported as accepted
  late,      \* history: failures reported of the end of DATA, or of QUIT
  exposed    \* history: credentials were sent less protected than asked for

conn    == <<open, secure, stalled>>
reports == <<oks, late>>
vars    == <<test, pc, open, secure, stalled, tests, accepted, oks, late, exposed>>

Init == /\ test = NoTest
        /\ pc = "idle"
        /\ open = FALSE /\ secure = FALSE /\ stalled = FALSE
        /\ tests = 0
        /\ accepted = 0 /\ oks = 0 /\ late = 0
        /\ exposed = FALSE

-----------------------------------------------------------------------------
Sends == test.kind = "send"

\* RunTest or CheckAuth returns ok or not, and the connection is closed.
Return(ok) ==
  /\ pc' = "idle"
  /\ test' = NoTest
  /\ open' = FALSE /\ secure' = FALSE /\ stalled' = FALSE
  /\ oks' = IF Sends /\ ok THEN oks + 1 ELSE oks
  /\ late' = IF Sends /\ ~ok /\ pc \in {"end", "quit"} THEN late + 1 ELSE late

\* Mutant of ErrorIsFatal: the end of DATA is not looked at.
ErrorIsFatalBefore == pc \notin {"end", "quit"}

\* CheckAuth does not look at QUIT, everything else must succeed.
ErrorIsFatal == ~(pc = "quit" /\ test.kind = "check")

-----------------------------------------------------------------------------
\* A handler runs a test with valid input; otherwise it answers at once.
Begin(t) ==
  /\ pc = "idle"
  /\ tests < MaxTests
  /\ tests' = tests + 1
  /\ test' = t
  /\ pc' = "dial"
  /\ UNCHANGED <<conn, accepted, reports, exposed>>

\* DialWithDialer makes the connection and encrypts it, DialTimeout makes it.
Dial ==
  /\ pc = "dial" /\ ~stalled
  /\ pc' = "greeting"
  /\ open' = TRUE
  /\ secure' = (test.security = "ssl")
  /\ UNCHANGED <<test, stalled, tests, accepted, reports, exposed>>

DialFails ==
  /\ pc = "dial" /\ ~stalled
  /\ Return(FALSE)
  /\ UNCHANGED <<tests, accepted, exposed>>

\* NewClient fails, and has closed the connection, which is closed once more.
GreetingFails ==
  /\ pc = "greeting"
  /\ Return(FALSE)
  /\ UNCHANGED <<tests, accepted, exposed>>

\* Mutant of AfterHello: without STARTTLS it goes on in the clear.
AfterHelloAnyway(offers) ==
  IF test.security = "starttls" /\ ~secure /\ "STARTTLS" \in offers THEN "starttls"
  ELSE IF "AUTH" \in offers THEN "auth" ELSE "fail"

\* What the extensions in the reply to EHLO allow: STARTTLS first where it was
\* asked for, and AUTH.
AfterHello(offers) ==
  IF test.security = "starttls" /\ ~secure
  THEN IF "STARTTLS" \in offers THEN "starttls" ELSE "fail"
  ELSE IF "AUTH" \in offers THEN "auth" ELSE "fail"

\* PlainAuth sends credentials over TLS, or to localhost, and otherwise says
\* QUIT and fails.
MayAuth == secure \/ test.local

\* authSTARTTLS returns without QUIT.
AfterAuth == IF ~MayAuth THEN "fail"
             ELSE IF Sends THEN "mail"
             ELSE IF test.security = "starttls" THEN "ok" ELSE "quit"

\* Where a positive reply leads.
AfterReply == CASE pc = "greeting" -> "hello"
                [] pc = "hello"    -> AfterHello(IF secure THEN test.tls ELSE test.clear)
                [] pc = "starttls" -> "helloTLS"
                [] pc = "helloTLS" -> AfterHello(test.tls)
                [] pc = "auth"     -> AfterAuth
                [] pc = "mail"     -> "rcpt"
                [] pc = "rcpt"     -> "data"
                [] pc = "data"     -> "end"
                [] pc = "end"      -> "quit"
                [] pc = "quit"     -> "ok"

Awaiting == pc \notin {"idle", "dial"}

\* The server has handled the command: after the end of DATA it has the message.
Handled == accepted' = IF pc = "end" THEN accepted + 1 ELSE accepted

\* The connection is what the user asked for, or to localhost.
AsAsked == secure \/ (test.security = "none" /\ test.local)

\* The command is sent: AUTH has the credentials with it.
Sent == exposed' = (exposed \/ (pc = "auth" /\ MayAuth /\ ~AsAsked))

\* The command succeeds.  StartTLS shakes hands before it says EHLO again.
Reply ==
  /\ Awaiting /\ ~stalled
  /\ Sent /\ Handled
  /\ IF AfterReply \in {"ok", "fail"}
     THEN Return(AfterReply = "ok")
     ELSE /\ pc' = AfterReply
          /\ secure' = (secure \/ pc = "starttls")
          /\ UNCHANGED <<test, open, stalled, reports>>
  /\ UNCHANGED tests

\* The server refuses the command.
Refuse ==
  /\ Awaiting /\ pc # "greeting" /\ ~stalled
  /\ Sent
  /\ Return(~ErrorIsFatal)
  /\ UNCHANGED <<tests, accepted>>

\* The connection breaks before the server has handled the command.
Break ==
  /\ Awaiting /\ pc # "greeting"
  /\ Sent
  /\ Return(~ErrorIsFatal)
  /\ UNCHANGED <<tests, accepted>>

\* The server handles the command and the connection breaks.
ReplyLost ==
  /\ Awaiting /\ pc # "greeting" /\ ~stalled
  /\ Sent /\ Handled
  /\ Return(~ErrorIsFatal)
  /\ UNCHANGED tests

\* Mutant of MayStall: the dial has no timeout either.
MayStallAnywhere == pc # "idle"

MayStall == Awaiting

\* The server stops answering, and the connection stays.
Stall ==
  /\ MayStall /\ ~stalled
  /\ stalled' = TRUE
  /\ UNCHANGED <<test, pc, open, secure, tests, accepted, reports, exposed>>

Next == \/ \E t \in Test : Begin(t)
        \/ Dial
        \/ DialFails
        \/ GreetingFails
        \/ Reply
        \/ Refuse
        \/ Break
        \/ ReplyLost
        \/ Stall

Spec == Init /\ [][Next]_vars

\* A server that has not stopped answers sooner or later, and the dial ends
\* by its timeout; a connection to one that has stopped need never break.
FairSpec == Spec /\ WF_vars(Dial \/ DialFails) /\ WF_vars(Reply)

-----------------------------------------------------------------------------
\* The values of the variables; a connection lives within a test, and only a
\* connection is encrypted or stalls.
TypeOK ==
  /\ test \in Test /\ pc \in Places
  /\ open \in BOOLEAN /\ secure \in BOOLEAN /\ stalled \in BOOLEAN
  /\ tests \in 0..MaxTests
  /\ accepted \in Nat /\ oks \in Nat /\ late \in Nat
  /\ exposed \in BOOLEAN
  /\ open <=> Awaiting
  /\ secure \/ stalled => pc # "idle"

\* A message that the server has taken, and whose test is not over.
Pending == IF pc = "quit" /\ Sends THEN 1 ELSE 0

\* RunTest reports "Message accepted by SMTP server" only of messages that
\* were, and a message that was accepted is reported as a failure only if the
\* reply to the end of DATA, or to QUIT, is what failed: whoever repeats a
\* test after any other failure does not send twice.
AcceptedAccounted ==
  oks + Pending <= accepted /\ accepted <= oks + late + Pending

\* With STARTTLS or SSL no credentials are sent in the clear, whatever the
\* server offers and wherever it is, and without them only to localhost.
EncryptedAsAsked == ~exposed

\* A test ends, unless the server stops answering when the connection is up.
TestEnds == pc # "idle" ~> pc = "idle" \/ (stalled /\ open)
=============================================================================
