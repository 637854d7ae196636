-------------------------------- MODULE Front --------------------------------
(***************************************************************************)
(* One request through the layers of internal/api: TrustedProxy, the       *)
(* generated wrapper, the validation against the OpenAPI document, the     *)
(* strict handler, the chain of the operation's tier, the handler with the *)
(* mail it may send, and the answer.  What handlers do to the tables is in *)
(* Links, Tenancy and Accounts; here a handler is the ways it may end.     *)
(***************************************************************************)
EXTENDS Operations, Sequences, FiniteSets, Smtp

CONSTANTS
  MaxHops,  \* most proxies in front of the container
  Forged    \* what a client may write into X-Forwarded-For

ASSUME FrontAssumption ==
  /\ MaxHops \in Nat
  /\ \A f \in Forged : f \in Seq({"blank", "another"})

VARIABLES
  request,    \* the operation asked for, and the header X-Forwarded-For
  hops,       \* TRUSTED_PROXY_HOPS
  remoteAddr, \* Request.RemoteAddr, without its port
  pc,         \* the layer the request is in
  chain,      \* middlewares of the tier still to run
  context,    \* what they put on the request's context; did the limiter count it
  outcome,    \* how the handler ended; "nil" if it did not run
  written,    \* every header written: its status and the kind of body
  hungUp      \* the client closed the connection

vars == <<request, hops, remoteAddr, pc, chain, context, outcome, written, hungUp,
          server, mail>>
reads == <<request, hops, server, hungUp>>

Role == {"nobody", "member", "admin", "owner"}
Admins == {"admin", "owner"}
Context ==
  [session : BOOLEAN, org : Role, team : Role, counted : BOOLEAN, http : BOOLEAN]
Form == {"plain text", "envelope", "typed"}
Layer == {"proxy", "bind", "validate", "decode", "chain", "handler", "mail", "respond", "done"}
-----------------------------------------------------------------------------
\* Operations that send a mail, and how they may end after it.
MailThen(op) ==
  CASE op = "RequestEmailChange" -> {"ok"}
    [] op = "CreateInvitation" -> {"ok", "ErrNoRows", "other"}
    [] OTHER -> {}

\* Every proxy appends the address of its peer; the first one's is the client.
Arrives(forged, n) ==
  IF n = 0 THEN [header |-> forged, peer |-> "client"]
  ELSE [header |-> Append(forged, "client") \o [i \in 1 .. n - 1 |-> "proxy"], peer |-> "proxy"]

\* clientip.FromRequest: blank parts do not count.
Named(header) == {i \in DOMAIN header : header[i] # "blank"}
Nth(positions, n) == CHOOSE i \in positions : Cardinality({j \in positions : j <= i}) = n
Index_OneLeft(entries, n) == IF entries - n < 1 THEN 1 ELSE entries - n
Index(entries, n) == IF entries - n < 0 THEN 1 ELSE entries - n + 1
FromRequest ==
  LET named == Named(request.header) IN
  IF hops = 0 \/ named = {} THEN remoteAddr
  ELSE request.header[Nth(named, Index(Cardinality(named), hops))]

TypeOK ==
  /\ request.op \in Operation
  /\ request.header \in Seq({"blank", "another", "client", "proxy"})
  /\ hops \in 0..MaxHops
  /\ remoteAddr \in {"client", "another", "proxy"}
  /\ pc \in Layer
  /\ \E n \in 0..3 :
       LET all == Chain(Tier(request.op)) IN chain = SubSeq(all, n + 1, Len(all))
  /\ context \in Context
  /\ outcome \in {"nil"} \cup UNION {Outcome(op) : op \in Operation}
  /\ \A i \in DOMAIN written :
       /\ written[i].status \in {400, 500} \cup DOMAIN Classes
                                  \cup UNION {Declared(op) : op \in Operation}
       /\ written[i].form \in Form
  /\ hungUp \in BOOLEAN
  /\ SmtpTypeOK

Init ==
  /\ hops \in 0..MaxHops
  /\ \E op \in Operation, f \in Forged :
       /\ request = [op |-> op, header |-> Arrives(f, hops).header]
       /\ remoteAddr = Arrives(f, hops).peer
  /\ pc = "proxy"
  /\ chain = <<>>
  /\ context = [session |-> FALSE, org |-> "nobody", team |-> "nobody", counted |-> FALSE,
                http |-> FALSE]
  /\ outcome = "nil"
  /\ written = <<>>
  /\ hungUp = FALSE
  /\ server \in {NoServer} \cup IF MailThen(request.op) = {} THEN {} ELSE Server
  /\ mail = Unsent
-----------------------------------------------------------------------------
Goes(from, to) == pc = from /\ pc' = to
Writes(status, form) == written' = Append(written, [status |-> status, form |-> form])

TrustedProxy ==
  /\ Goes("proxy", "bind")
  /\ remoteAddr' = IF hops = 0 THEN remoteAddr ELSE FromRequest
  /\ UNCHANGED <<reads, chain, context, outcome, written, mail>>

\* ServerInterfaceWrapper: no ErrorHandlerFunc is set, so a parameter that
\* does not bind is answered with the generated default.
Bind ==
  /\ \/ Goes("bind", "validate") /\ UNCHANGED written
     \/ Goes("bind", "done") /\ Unbound(request.op) # {} /\ Writes(400, "plain text")
  /\ UNCHANGED <<reads, remoteAddr, chain, context, outcome, mail>>

\* withSpecValidation: what has neither body nor query has nothing to be wrong.
Validate ==
  /\ \/ Goes("validate", "decode") /\ UNCHANGED written
     \/ /\ Goes("validate", "done")
        /\ Contract[request.op].body \/ Unbound(request.op) # {}
        /\ Writes(400, "envelope")
  /\ UNCHANGED <<reads, remoteAddr, chain, context, outcome, mail>>

\* strictHandler: decode the body, or requestErrorHandler.
Decode ==
  /\ \/ Goes("decode", "chain") /\ chain' = Chain(Tier(request.op)) /\ UNCHANGED written
     \/ /\ Goes("decode", "done")
        /\ Contract[request.op].body
        /\ Writes(400, "envelope")
        /\ UNCHANGED chain
  /\ UNCHANGED <<reads, remoteAddr, context, outcome, mail>>
-----------------------------------------------------------------------------
\* A middleware answers itself, and the ones below it never run, or it passes
\* the request on.
At(middleware) == pc = "chain" /\ chain # <<>> /\ Head(chain) = middleware
Refuses(status) ==
  /\ Writes(status, "envelope")
  /\ pc' = "respond"
  /\ UNCHANGED <<chain, context>>
Passes(found) ==
  /\ context' = found
  /\ chain' = Tail(chain)
  /\ UNCHANGED <<pc, written>>
InChain == UNCHANGED <<reads, remoteAddr, outcome, mail>>

Session ==
  /\ At("session")
  /\ Refuses(500) \/ \E known \in BOOLEAN : Passes([context EXCEPT !.session = known])
  /\ InChain

RequireSession ==
  /\ At("require")
  /\ IF context.session THEN Passes(context) ELSE Refuses(401)
  /\ InChain

RequireOrg ==
  /\ At("org")
  /\ IF ~context.session THEN Refuses(401)
     ELSE \/ Refuses(500)
          \/ \E role \in Role :
               IF role = "nobody" THEN Refuses(403) ELSE Passes([context EXCEPT !.org = role])
  /\ InChain

RequireOrgAdmin ==
  /\ At("orgAdmin")
  /\ IF context.org \in Admins THEN Passes(context) ELSE Refuses(403)
  /\ InChain

\* 404 for an unknown team, 500 for a failing lookup.
RequireTeam ==
  /\ At("team")
  /\ IF ~context.session THEN Refuses(401)
     ELSE \/ Refuses(404) \/ Refuses(500)
          \/ \E role \in Role, inTeam \in BOOLEAN :
               IF role \in Admins \/ (role = "member" /\ inTeam)
               THEN Passes([context EXCEPT !.team = role]) ELSE Refuses(403)
  /\ InChain

RequireTeamAdmin ==
  /\ At("teamAdmin")
  /\ IF context.team \in Admins THEN Passes(context) ELSE Refuses(403)
  /\ InChain

CaptureHTTP ==
  /\ At("capture")
  /\ Passes([context EXCEPT !.http = TRUE])
  /\ InChain

RateLimit ==
  /\ At("limited")
  /\ Refuses(500) \/ Refuses(429) \/ Passes([context EXCEPT !.counted = TRUE])
  /\ InChain

Terminal ==
  /\ chain = <<>>
  /\ Goes("chain", "handler")
  /\ UNCHANGED <<reads, remoteAddr, chain, context, outcome, written, mail>>
-----------------------------------------------------------------------------
Has(field) ==
  CASE field = "session" -> context.session
    [] field = "org" -> context.org # "nobody"
    [] field = "team" -> context.team # "nobody"
    [] field = "http" -> context.http

\* A handler ends by itself, or goes on to its mail.
Handle ==
  /\ outcome' \in Outcome(request.op)
  /\ \/ Goes("handler", "respond") /\ ~(outcome' = "ok" /\ MailThen(request.op) # {})
     \/ Goes("handler", "mail") /\ outcome' \in MailThen(request.op)
  /\ UNCHANGED <<reads, remoteAddr, chain, context, written, mail>>

InMail == UNCHANGED <<request, hops, remoteAddr, chain, context, outcome, written, hungUp>>
SendMail == pc = "mail" /\ Send /\ UNCHANGED pc /\ InMail
DialTimeout == pc = "mail" /\ GiveUpDialing /\ UNCHANGED pc /\ InMail
MailServer == pc = "mail" /\ Answered /\ UNCHANGED pc /\ InMail

\* The handlers log what Send returns and carry on.
MailEnds ==
  /\ mail.at \in Ended \ {"unsent"}
  /\ Goes("mail", "respond")
  /\ UNCHANGED <<mail, server>>
  /\ InMail

\* The strict handler: the error handler for an error, nothing for no response
\* (a middleware has answered), else the response's Visit method, whose Write
\* may fail when nobody reads; the error handler then adds its own header.
OnNoResponse_Unexpected == <<[status |-> 500, form |-> "envelope"]>>
OnNoResponse == <<>>
Respond ==
  /\ Goes("respond", "done")
  /\ CASE outcome = "nil" -> written' = written \o OnNoResponse
       [] outcome = "ok" ->
            \E s \in Success(request.op) :
              \/ Writes(s, "typed")
              \/ /\ hungUp
                 /\ written' = written \o <<[status |-> s, form |-> "typed"],
                                            [status |-> 500, form |-> "envelope"]>>
       [] OTHER -> Writes(StatusOf(outcome), "envelope")
  /\ UNCHANGED <<reads, remoteAddr, chain, context, outcome, mail>>

HangUp ==
  /\ ~hungUp /\ pc # "done"
  /\ hungUp' = TRUE
  /\ UNCHANGED <<request, hops, remoteAddr, pc, chain, context, outcome, written, server, mail>>

Layers ==
  \/ TrustedProxy \/ Bind \/ Validate \/ Decode
  \/ Session \/ RequireSession \/ RequireOrg \/ RequireOrgAdmin \/ RequireTeam
  \/ RequireTeamAdmin \/ CaptureHTTP \/ RateLimit \/ Terminal
  \/ Handle \/ SendMail \/ DialTimeout \/ MailEnds \/ Respond

Next == Layers \/ MailServer \/ HangUp

\* The scheduler and the database make every layer go on; the mail server and
\* the client owe nothing.
Spec == Init /\ [][Next]_vars /\ WF_vars(Layers)
-----------------------------------------------------------------------------
\* What openapi/snarvei.yaml calls "(owner/admin)", the design "Owner/admin only".
OwnersAndAdmins ==
  {"ListInvitations", "CreateInvitation", "CancelInvitation",
   "CreateTeam", "AddTeamMember", "RemoveTeamMember"}

\* The table of tiers keeps what the contract, another file, says of each
\* operation: one declared to answer 401 runs its handler only for a session,
\* one declared to answer 429 only after the limiter has counted the request,
\* and one for owners and admins only for one of these; and a tier refuses
\* with a status the operation declares, or 500.
GuardedAsPromised ==
  LET op == request.op IN
  /\ pc = "handler" =>
       /\ 401 \in Declared(op) => context.session
       /\ 429 \in Declared(op) => context.counted
       /\ op \in OwnersAndAdmins => {context.org, context.team} \cap Admins # {}
  /\ pc = "respond" /\ outcome = "nil" => written[1].status \in Declared(op) \cup {500}

\* What a client is told is what openapi/snarvei.yaml says it may be told,
\* whichever layer says it: a status declared for the operation, or 500; and
\* the migration design, "Error envelope for every API error".  (The probe's
\* 503 has a schema of its own.)
KeepsContract ==
  LET op == request.op IN
  written # <<>> =>
    /\ written[1].status \in Declared(op) \cup {500}
    /\ written[1].status >= 400 => written[1].form = "envelope" \/ op = "Readyz"

\* A request is answered once, and in the end it is answered, unless a mail
\* server keeps the sender waiting for ever; only when the client has gone may
\* the error handler write a second header that nobody sees.
OneAnswer ==
  /\ [](Len(written) > 1 => hungUp)
  /\ <>[](pc = "mail") \/ <>(pc = "done" /\ written # <<>>)

\* Whatever the client writes into X-Forwarded-For, the address limits and
\* digests are taken of is the client's when hops counts the proxies, and the
\* rewritten RemoteAddr agrees; and a handler finds in its context everything
\* it reads there, because the tier of its operation put it there.
KnowsItsCaller ==
  /\ pc # "proxy" => FromRequest = "client" /\ remoteAddr = "client"
  /\ pc = "handler" => \A field \in Needs(request.op) : Has(field)

\* No password of the mail account and no message, which carries a link that
\* signs somebody in or changes an address, crosses a network in clear text;
\* and mail reported as sent was taken by the server.
PrivateMail ==
  /\ server # NoServer /\ ~server.loopback => mail.clear = {}
  /\ mail.at = "sent" => mail.taken
=============================================================================
