-------------------------------- MODULE Smtp --------------------------------
(***************************************************************************)
(* smtpSender.Send of internal/email/smtp.go, one step per answer of the   *)
(* mail server, which may refuse, close the connection, or say nothing.    *)
(* Only the dial has a deadline.                                           *)
(***************************************************************************)
CONSTANT NoServer  \* no SMTP_HOST: the sender of NewNoop

VARIABLES
  server,  \* SMTP_HOST and SMTP_PORT, as far as they matter
  mail     \* the command whose answer is awaited, and what left in clear text

Server == [implicit : BOOLEAN, loopback : BOOLEAN]
Command == {"dial", "greeting", "starttls", "auth", "mail", "rcpt", "data", "body", "quit"}
Ended == {"unsent", "dropped", "failed", "sent"}

SmtpTypeOK ==
  /\ server \in Server \cup {NoServer}
  /\ mail \in [at : Command \cup Ended, tls : BOOLEAN, taken : BOOLEAN,
               clear : SUBSET {"password", "message"}]

Unsent == [at |-> "unsent", tls |-> FALSE, taken |-> FALSE, clear |-> {}]

\* What goes out with a command.
Carries(command) ==
  CASE command = "auth" -> {"password"} [] command = "body" -> {"message"} [] OTHER -> {}

Says(m, command) ==
  [m EXCEPT !.at = command, !.clear = @ \cup (IF m.tls THEN {} ELSE Carries(command))]

Send ==
  /\ mail.at = "unsent"
  /\ mail' = [mail EXCEPT !.at = IF server = NoServer THEN "dropped" ELSE "dial"]
  /\ UNCHANGED server

\* Port 465: the dial ends with the TLS handshake.
Connected ==
  /\ mail.at = "dial"
  /\ mail' = [mail EXCEPT !.at = "greeting", !.tls = server.implicit]
  /\ UNCHANGED server

\* "refusing to send credentials in clear", unless the host is loopback.
ClearTextAllowed_Always == TRUE
ClearTextAllowed == server.loopback

Greeted ==
  /\ mail.at = "greeting"
  /\ \E offersTLS \in BOOLEAN :
       mail' = CASE mail.tls -> Says(mail, "auth")
                 [] ~mail.tls /\ offersTLS -> Says(mail, "starttls")
                 [] ~mail.tls /\ ~offersTLS ->
                      IF ClearTextAllowed THEN Says(mail, "auth")
                                          ELSE [mail EXCEPT !.at = "failed"]
  /\ UNCHANGED server

Secured ==
  /\ mail.at = "starttls"
  /\ mail' = Says([mail EXCEPT !.tls = TRUE], "auth")
  /\ UNCHANGED server

Following == [auth |-> "mail", mail |-> "rcpt", rcpt |-> "data", data |-> "body",
              body |-> "quit", quit |-> "sent"]

Accepted ==
  /\ mail.at \in DOMAIN Following
  /\ mail' = [Says(mail, Following[mail.at]) EXCEPT !.taken = @ \/ mail.at = "body"]
  /\ UNCHANGED server

\* A refusal or a lost connection: Send returns the error, also when it is the
\* answer to QUIT that is missing and the message was taken.
Refused ==
  /\ mail.at \in Command
  /\ mail' = [mail EXCEPT !.at = "failed"]
  /\ UNCHANGED server

\* The timeout of the dialer, 15 s.
GiveUpDialing == mail.at = "dial" /\ Refused

Answered == Connected \/ Greeted \/ Secured \/ Accepted \/ Refused
=============================================================================
