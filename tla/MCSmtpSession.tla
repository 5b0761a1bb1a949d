--------------------------- MODULE MCSmtpSession ---------------------------
(* An instance of SmtpSession for TLC.  Tests follow each other, and two    *)
(* show what a repetition can do; a third one changes nothing more.         *)
EXTENDS SmtpSession
=============================================================================
