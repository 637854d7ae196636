----------------------------- MODULE FrontProofs -----------------------------
(***************************************************************************)
(* Front for any number of proxies and whatever a client forges: type      *)
(* correctness and the invariants MCFront checks for two proxies.          *)
(*                                                                         *)
(* Mail: the password and the message go to a remote server only after     *)
(* STARTTLS or an implicit handshake (Encrypted).  The caller: the parts   *)
(* proxies append are never blank, so the client's is the one with as many *)
(* parts from it to the right as there are proxies (Locates).  The         *)
(* context: the middlewares that are no longer in the chain have let the   *)
(* request pass (Passed), and every chain sees to what the contract says   *)
(* of its operations (Fits, ChainsGuard, RefusalsDeclared).  The answer:   *)
(* how often it was written follows from the layer the request is in       *)
(* (Once).                                                                 *)
(***************************************************************************)
EXTENDS Front, FiniteSetTheorems, SequenceTheorems, TLAPS

(***************************************************************************)
(* The mail server.                                                        *)
(***************************************************************************)
Talking == {"auth", "mail", "rcpt", "data", "body", "quit", "sent"}
Remote == server # NoServer /\ ~server.loopback

Encrypted ==
  /\ SmtpTypeOK
  /\ mail.at \notin {"unsent", "dropped"} => server # NoServer
  /\ Remote => mail.clear = {} /\ (mail.at \in Talking => mail.tls)
  /\ mail.at \in {"quit", "sent"} => mail.taken

Mails == Send \/ GiveUpDialing \/ Answered

Mail == [at : Command \cup Ended, tls : BOOLEAN, taken : BOOLEAN,
         clear : SUBSET {"password", "message"}]

LEMMA SaysEffect ==
  ASSUME NEW m \in Mail, NEW command \in Command \cup Ended
  PROVE  /\ Says(m, command) \in Mail /\ Says(m, command).at = command
         /\ Says(m, command).tls = m.tls /\ Says(m, command).taken = m.taken
         /\ m.tls => Says(m, command).clear = m.clear
BY DEF Says, Carries, Mail

LEMMA MailStep == Encrypted /\ Mails => Encrypted'
<1> SUFFICES ASSUME Encrypted, Mails PROVE Encrypted'
  OBVIOUS
<1>1. mail \in Mail /\ server \in Server \cup {NoServer}
  BY DEF Encrypted, SmtpTypeOK, Mail
<1> USE DEF Encrypted, SmtpTypeOK, Mail, Command, Ended, Talking, Remote
<1>2. CASE Send
  BY <1>1, <1>2 DEF Send
<1>3. CASE Connected
  BY <1>1, <1>3 DEF Connected, Server
<1>4. CASE Secured
  BY <1>1, <1>4 DEF Secured, Says, Carries
<1>5. CASE Greeted
  <2>1. mail.at = "greeting" /\ server' = server /\ (Remote => mail.clear = {})
    BY <1>5 DEF Greeted
  <2>2. CASE mail' = Says(mail, "auth") /\ (mail.tls \/ server.loopback)
    BY <1>1, <2>1, <2>2, SaysEffect
  <2>3. CASE mail' = Says(mail, "starttls")
    <3>1. mail'.clear = mail.clear
      BY <1>1, <2>3 DEF Says, Carries
    <3> QED BY <1>1, <2>1, <2>3, <3>1, SaysEffect
  <2>4. CASE mail' = [mail EXCEPT !.at = "failed"]
    BY <1>1, <2>1, <2>4
  <2> QED BY <1>5, <2>2, <2>3, <2>4 DEF Greeted, ClearTextAllowed
<1>6. CASE Accepted
  <2> DEFINE next == Following[mail.at]
             said == Says(mail, next)
  <2>1. /\ mail.at \in {"auth", "mail", "rcpt", "data", "body", "quit"}
        /\ server' = server
        /\ mail' = [said EXCEPT !.taken = @ \/ mail.at = "body"]
    BY <1>6 DEF Accepted, Following
  <2>2. /\ next \in Talking /\ (next = "sent" => mail.at = "quit")
        /\ next = "quit" => mail.at = "body"
    BY <2>1 DEF Following
  <2> HIDE DEF next
  <2>3. /\ said \in Mail /\ said.at = next /\ said.tls = mail.tls /\ said.taken = mail.taken
        /\ mail.tls => said.clear = mail.clear
    BY <1>1, <2>2, SaysEffect
  <2> HIDE DEF said
  <2>4. /\ mail' \in Mail /\ mail'.at = next /\ mail'.tls = mail.tls
        /\ mail'.taken = (mail.taken \/ mail.at = "body") /\ mail'.clear = said.clear
    BY <1>1, <2>1, <2>3
  <2> QED BY <1>1, <2>1, <2>2, <2>3, <2>4
<1>7. CASE Refused
  BY <1>1, <1>7 DEF Refused
<1> QED BY <1>2, <1>3, <1>4, <1>5, <1>6, <1>7 DEF Mails, Answered, GiveUpDialing
-----------------------------------------------------------------------------

(***************************************************************************)
(* The client's address.                                                   *)
(***************************************************************************)

\* The header the container receives through n proxies.
LEMMA HeaderParts ==
  ASSUME NEW forged \in Seq({"blank", "another"}), NEW n \in Nat \ {0}
  PROVE  LET header == Arrives(forged, n).header
             f == Len(forged)
         IN  /\ header \in Seq({"blank", "another", "client", "proxy"})
             /\ f \in Nat /\ Len(header) = f + n /\ DOMAIN header = 1 .. f + n
             /\ header[f + 1] = "client"
             /\ \A i \in f + 2 .. f + n : header[i] = "proxy"
<1> DEFINE f == Len(forged)
           all == {"blank", "another", "client", "proxy"}
           named == Append(forged, "client")
           proxies == [i \in 1 .. n - 1 |-> "proxy"]
<1>1. /\ named \in Seq(all) /\ Len(named) = f + 1 /\ named[f + 1] = "client" /\ f \in Nat
  <2>1. forged \in Seq(all)
    BY SeqDef
  <2> QED BY <2>1
<1>2. proxies \in Seq(all) /\ Len(proxies) = n - 1 /\ \A i \in 1 .. n - 1 : proxies[i] = "proxy"
  <2>1. proxies \in [1 .. n - 1 -> all] /\ n - 1 \in Nat
    OBVIOUS
  <2>2. proxies \in Seq(all)
    BY <2>1, SeqDef
  <2> QED BY <2>1, <2>2
<1>3. Arrives(forged, n).header = named \o proxies
  BY DEF Arrives
<1> HIDE DEF named, proxies
<1>4. /\ named \o proxies \in Seq(all) /\ Len(named \o proxies) = f + n
      /\ \A i \in 1 .. f + n :
           (named \o proxies)[i] = IF i <= f + 1 THEN named[i] ELSE proxies[i - (f + 1)]
  <2>1. /\ named \o proxies \in Seq(all)
        /\ Len(named \o proxies) = Len(named) + Len(proxies)
        /\ \A i \in 1 .. Len(named) + Len(proxies) :
             (named \o proxies)[i] = IF i <= Len(named) THEN named[i] ELSE proxies[i - Len(named)]
    BY <1>1, <1>2, ConcatProperties
  <2>2. Len(named) + Len(proxies) = f + n
    BY <1>1, <1>2
  <2> QED BY <1>1, <2>1, <2>2
<1>5. /\ (named \o proxies)[f + 1] = "client"
      /\ \A i \in f + 2 .. f + n : (named \o proxies)[i] = "proxy"
  BY <1>1, <1>2, <1>4
<1>6. DOMAIN (named \o proxies) = 1 .. f + n
  BY <1>4, LenProperties
<1> QED BY <1>1, <1>3, <1>4, <1>5, <1>6

\* Counted from the right, the n-th part that is not blank is the client's.
LEMMA Locates ==
  ASSUME NEW forged \in Seq({"blank", "another"}), NEW n \in Nat \ {0},
         NEW header, header = Arrives(forged, n).header
  PROVE  /\ Named(header) # {}
         /\ header[Nth(Named(header), Index(Cardinality(Named(header)), n))] = "client"
<1> DEFINE c == Len(forged) + 1
           named == Named(header)
           early == {i \in 1 .. Len(forged) : header[i] # "blank"}
           upto(i) == {j \in named : j <= i}
<1>1. /\ c \in Nat /\ DOMAIN header = 1 .. Len(forged) + n /\ Len(forged) \in Nat
      /\ header[c] = "client" /\ \A i \in c + 1 .. Len(forged) + n : header[i] = "proxy"
  BY HeaderParts
<1>2. named = early \cup (c .. Len(forged) + n)
  BY <1>1 DEF Named
<1>3. IsFiniteSet(early) /\ Cardinality(early) \in Nat
  <2>1. early \in SUBSET (1 .. Len(forged)) /\ IsFiniteSet(1 .. Len(forged))
    BY <1>1, FS_Interval
  <2>2. IsFiniteSet(early)
    BY <2>1, FS_Subset
  <2> QED BY <2>2, FS_CardinalityType
<1>4. IsFiniteSet(named) /\ Cardinality(named) = Cardinality(early) + n
  <2>1. /\ IsFiniteSet(c .. Len(forged) + n)
        /\ Cardinality(c .. Len(forged) + n) = n
    BY <1>1, FS_Interval
  <2>2. early \cap (c .. Len(forged) + n) = {}
    BY <1>1
  <2>3. Cardinality(early \cap (c .. Len(forged) + n)) = 0
    BY <2>2, FS_EmptySet
  <2> DEFINE late == c .. Len(forged) + n
  <2>4. /\ IsFiniteSet(early \cup late)
        /\ Cardinality(early \cup late)
             = Cardinality(early) + Cardinality(late) - Cardinality(early \cap late)
    BY <1>3, <2>1, FS_Union
  <2>5. Cardinality(early) + Cardinality(late) - Cardinality(early \cap late)
          = Cardinality(early) + n
    BY <1>3, <2>1, <2>3
  <2> QED BY <1>2, <2>4, <2>5
<1>5. Index(Cardinality(named), n) = Cardinality(early) + 1
  BY <1>3, <1>4 DEF Index
<1>6. c \in named /\ Cardinality(upto(c)) = Cardinality(early) + 1
  <2>1. c \in named
    BY <1>1, <1>2
  <2>2. upto(c) = early \cup {c} /\ c \notin early
    BY <1>1, <1>2
  <2> QED BY <1>3, <2>1, <2>2, FS_AddElement
<1>7. ASSUME NEW i \in named, Cardinality(upto(i)) = Cardinality(early) + 1
      PROVE  i = c
  <2>1. CASE i < c
    <3>1. upto(i) \in SUBSET early
      BY <1>1, <1>2, <2>1
    <3> QED BY <1>3, <1>7, <3>1, FS_Subset, FS_CardinalityType
  <2>2. CASE i > c
    <3> DEFINE more == (early \cup {c}) \cup {i}
    <3>1. c \notin early /\ i \notin early \cup {c}
      BY <1>1, <2>2
    <3>2. IsFiniteSet(early \cup {c}) /\ Cardinality(early \cup {c}) = Cardinality(early) + 1
      BY <1>3, <3>1, FS_AddElement
    <3>3. Cardinality(more) = Cardinality(early) + 2
      <4>1. Cardinality(more) = Cardinality(early \cup {c}) + 1
        BY <3>1, <3>2, FS_AddElement
      <4> QED BY <1>3, <3>2, <4>1
    <3>4. more \in SUBSET upto(i)
      BY <1>1, <1>2, <1>6, <1>7, <2>2
    <3>5. IsFiniteSet(upto(i))
      BY <1>4, FS_Subset
    <3> HIDE DEF more, upto
    <3> QED BY <1>3, <1>7, <3>3, <3>4, <3>5, FS_Subset, FS_CardinalityType
  <2> QED BY <1>1, <1>2, <2>1, <2>2
<1>8. Nth(named, Cardinality(early) + 1) = c
  BY <1>6, <1>7 DEF Nth
<1> QED BY <1>1, <1>5, <1>6, <1>8
-----------------------------------------------------------------------------

(***************************************************************************)
(* The tables of the contract, operation by operation.                     *)
(***************************************************************************)
LEMMA OperationNames ==
  Operation =
    {"GetConfig", "GetInvitation", "AcceptInvitation", "RegisterWithInvitation",
     "RejectInvitation", "ListLinks", "CreateLink", "DeleteLink", "GetLink", "UpdateLink",
     "GetLinkAnalytics", "ListLinkHistory", "DeleteMe", "GetMe", "UpdateMe",
     "RequestEmailChange", "ConfirmEmailChange", "RevokeOtherSessions", "ListMySessions",
     "RevokeMySession", "ListOrganizations", "CreateOrganization", "ListInvitations",
     "CreateInvitation", "CancelInvitation", "ListOrganizationMembers", "SwitchOrganization",
     "ListTeams", "CreateTeam", "ListTeamMembers", "AddTeamMember", "RemoveTeamMember",
     "Healthz", "Readyz"}
BY DEF Operation, Contract

\* With what a middleware may answer itself.
Refusals(middleware) ==
  CASE middleware = "session" -> {500}
    [] middleware = "require" -> {401}
    [] middleware = "org" -> {401, 403, 500}
    [] middleware = "orgAdmin" -> {403}
    [] middleware = "team" -> {401, 403, 404, 500}
    [] middleware = "teamAdmin" -> {403}
    [] middleware = "limited" -> {429, 500}
    [] OTHER -> {}

\* The chain of an operation, what its handler reads, and what the contract says
\* of it.
Unlimited(op) == 429 \notin Declared(op)
Fits(op) ==
  \/ /\ Chain(Tier(op)) = <<>>
     /\ op \in Public \ OwnersAndAdmins /\ Needs(op) = {}
     /\ 401 \notin Declared(op) /\ Unlimited(op)
  \/ /\ Chain(Tier(op)) = <<"limited", "capture">>
     /\ op = "RegisterWithInvitation" /\ Needs(op) = {"http"}
     /\ 401 \notin Declared(op) /\ 429 \in Declared(op)
  \/ /\ Chain(Tier(op)) = <<"session", "require", "capture">>
     /\ op \notin Public \cup OwnersAndAdmins \cup {"RegisterWithInvitation"}
     /\ Needs(op) = {"session"} /\ 401 \in Declared(op) /\ Unlimited(op)
  \/ /\ Chain(Tier(op)) = <<"session", "require", "limited">>
     /\ op \notin OwnersAndAdmins
     /\ Needs(op) = {"session"} /\ {401, 429} \subseteq Declared(op)
  \/ /\ Chain(Tier(op)) = <<"session", "org">>
     /\ op \notin OwnersAndAdmins /\ Needs(op) \subseteq {"session", "org"}
     /\ {401, 403} \subseteq Declared(op) /\ Unlimited(op)
  \/ /\ Chain(Tier(op)) = <<"session", "org", "orgAdmin">>
     /\ Needs(op) = {"org"} /\ {401, 403} \subseteq Declared(op) /\ Unlimited(op)
  \/ /\ Chain(Tier(op)) = <<"session", "team">>
     /\ op \notin OwnersAndAdmins
     /\ Needs(op) = {"team"} /\ {401, 403, 404} \subseteq Declared(op) /\ Unlimited(op)
  \/ /\ Chain(Tier(op)) = <<"session", "team", "teamAdmin">>
     /\ Needs(op) = {"team"} /\ {401, 403, 404} \subseteq Declared(op) /\ Unlimited(op)

LEMMA Chains ==
  ASSUME NEW op \in Operation
  PROVE  Fits(op)
<1> USE DEF Unlimited
<1>1. CASE op \in Public
  <2>1. Tier(op) = "public"
    BY <1>1 DEF Tier, TeamTier, Public
  <2>2. Chain(Tier(op)) = <<>>
    BY <2>1 DEF Chain
  <2>3. Needs(op) = {}
    BY <1>1 DEF Needs, Public
  <2>4. 401 \notin Declared(op) /\ 429 \notin Declared(op) /\ op \notin OwnersAndAdmins
    BY <1>1 DEF Public, OwnersAndAdmins, Declared, Contract, Bodiless, Healthz, Readyz,
                GetConfig, GetInvitation
  <2> QED BY <1>1, <2>2, <2>3, <2>4 DEF Fits
<1>2. CASE op = "RegisterWithInvitation"
  <2>1. Tier(op) = "publicCapture"
    BY <1>2 DEF Tier, TeamTier, Public
  <2>2. Chain(Tier(op)) = <<"limited", "capture">>
    BY <2>1 DEF Chain
  <2>3. Needs(op) = {"http"} /\ 429 \in Declared(op) /\ 401 \notin Declared(op)
    BY <1>2 DEF Needs, Public, Declared, Contract, Posted, RegisterWithInvitation
  <2> QED BY <1>2, <2>2, <2>3 DEF Fits
<1>3. CASE op \in {"RequestEmailChange", "CreateLink"}
  <2>1. Tier(op) = "sessionRateLimited" /\ Needs(op) = {"session"}
    BY <1>3 DEF Tier, TeamTier, Needs, Public
  <2>2. Chain(Tier(op)) = <<"session", "require", "limited">>
    BY <2>1 DEF Chain
  <2>3. {401, 429} \subseteq Declared(op) /\ op \notin OwnersAndAdmins
    BY <1>3 DEF Declared, Contract, Posted, RequestEmailChange, CreateLink, OwnersAndAdmins
  <2> QED BY <2>1, <2>2, <2>3 DEF Fits
<1>4. CASE op \in {"SwitchOrganization", "ListOrganizationMembers", "ListTeams"}
  <2>1. Tier(op) = "org" /\ Needs(op) \subseteq {"session", "org"}
    BY <1>4 DEF Tier, TeamTier, Needs, Public
  <2>2. Chain(Tier(op)) = <<"session", "org">>
    BY <2>1 DEF Chain
  <2>3. {401, 403} \subseteq Declared(op) /\ 429 \notin Declared(op) /\ op \notin OwnersAndAdmins
    BY <1>4 DEF Declared, Contract, Bodiless, SwitchOrganization, ListOrganizationMembers,
                ListTeams, OwnersAndAdmins
  <2> QED BY <2>1, <2>2, <2>3 DEF Fits
<1>5. CASE op \in {"ListInvitations", "CreateInvitation", "CancelInvitation", "CreateTeam"}
  <2>1. Tier(op) = "orgAdmin" /\ Needs(op) = {"org"}
    BY <1>5 DEF Tier, TeamTier, Needs, Public
  <2>2. Chain(Tier(op)) = <<"session", "org", "orgAdmin">>
    BY <2>1 DEF Chain
  <2>3. {401, 403} \subseteq Declared(op) /\ 429 \notin Declared(op)
    BY <1>5 DEF Declared, Contract, Bodiless, Posted, ListInvitations, CreateInvitation,
                CancelInvitation, CreateTeam
  <2> QED BY <2>1, <2>2, <2>3 DEF Fits
<1>6. CASE op = "ListTeamMembers"
  <2>1. Tier(op) = "team" /\ Needs(op) = {"team"}
    BY <1>6 DEF Tier, TeamTier, Needs, Public
  <2>2. Chain(Tier(op)) = <<"session", "team">>
    BY <2>1 DEF Chain
  <2>3. {401, 403, 404} \subseteq Declared(op) /\ 429 \notin Declared(op)
        /\ op \notin OwnersAndAdmins
    BY <1>6 DEF Declared, Contract, Bodiless, ListTeamMembers, OwnersAndAdmins
  <2> QED BY <2>1, <2>2, <2>3 DEF Fits
<1>7. CASE op \in {"AddTeamMember", "RemoveTeamMember"}
  <2>1. Tier(op) = "teamAdmin" /\ Needs(op) = {"team"}
    BY <1>7 DEF Tier, TeamTier, Needs, Public
  <2>2. Chain(Tier(op)) = <<"session", "team", "teamAdmin">>
    BY <2>1 DEF Chain
  <2>3. {401, 403, 404} \subseteq Declared(op) /\ 429 \notin Declared(op)
    BY <1>7 DEF Declared, Contract, Bodiless, Posted, AddTeamMember, RemoveTeamMember
  <2> QED BY <2>1, <2>2, <2>3 DEF Fits
<1>8. CASE op \in {"AcceptInvitation", "RejectInvitation", "ListLinks", "DeleteLink", "GetLink",
                   "UpdateLink", "GetLinkAnalytics", "ListLinkHistory", "DeleteMe", "GetMe",
                   "UpdateMe", "ConfirmEmailChange", "RevokeOtherSessions", "ListMySessions",
                   "RevokeMySession", "ListOrganizations", "CreateOrganization"}
  <2>1. Tier(op) = "session" /\ Needs(op) = {"session"}
    BY <1>8 DEF Tier, TeamTier, Needs, Public
  <2>2. Chain(Tier(op)) = <<"session", "require", "capture">>
    BY <2>1 DEF Chain
  <2>3. 401 \in Declared(op) /\ 429 \notin Declared(op)
    BY <1>8 DEF Declared, Contract, Bodiless, Posted, AcceptInvitation, RejectInvitation,
                ListLinks, DeleteLink, GetLink, UpdateLink, GetLinkAnalytics, ListLinkHistory,
                DeleteMe, GetMe, UpdateMe, ConfirmEmailChange, RevokeOtherSessions,
                ListMySessions, RevokeMySession, ListOrganizations, CreateOrganization
  <2>4. op \notin Public \cup OwnersAndAdmins \cup {"RegisterWithInvitation"}
    BY <1>8 DEF Public, OwnersAndAdmins
  <2> QED BY <2>1, <2>2, <2>3, <2>4 DEF Fits
<1> QED BY <1>1, <1>2, <1>3, <1>4, <1>5, <1>6, <1>7, <1>8, OperationNames DEF Public

LEMMA RefusalsDeclared ==
  ASSUME NEW op \in Operation, NEW i \in 1 .. Len(Chain(Tier(op))),
         NEW status \in Refusals(Chain(Tier(op))[i])
  PROVE  status \in Declared(op) \cup {500}
<1> DEFINE all == Chain(Tier(op))
<1>1. Fits(op)
  BY Chains
<1>2. CASE all = <<>>
  BY <1>2
<1>3. CASE all = <<"limited", "capture">> /\ 429 \in Declared(op)
  <2>1. all[i] \in {"limited", "capture"}
    BY <1>3
  <2> QED BY <1>3, <2>1 DEF Refusals
<1>4. CASE all = <<"session", "require", "capture">> /\ 401 \in Declared(op)
  <2>1. all[i] \in {"session", "require", "capture"}
    BY <1>4
  <2> QED BY <1>4, <2>1 DEF Refusals
<1>5. CASE all = <<"session", "require", "limited">> /\ {401, 429} \subseteq Declared(op)
  <2>1. all[i] \in {"session", "require", "limited"}
    BY <1>5
  <2> QED BY <1>5, <2>1 DEF Refusals
<1>6. CASE /\ all \in {<<"session", "org">>, <<"session", "org", "orgAdmin">>}
           /\ {401, 403} \subseteq Declared(op)
  <2>1. all[i] \in {"session", "org", "orgAdmin"}
    BY <1>6
  <2> QED BY <1>6, <2>1 DEF Refusals
<1>7. CASE /\ all \in {<<"session", "team">>, <<"session", "team", "teamAdmin">>}
           /\ {401, 403, 404} \subseteq Declared(op)
  <2>1. all[i] \in {"session", "team", "teamAdmin"}
    BY <1>7
  <2> QED BY <1>7, <2>1 DEF Refusals
<1> QED BY <1>1, <1>2, <1>3, <1>4, <1>5, <1>6, <1>7 DEF Fits

\* What a middleware has seen to when it passes a request on.
Granted(found, middleware) ==
  CASE middleware = "require" -> found.session
    [] middleware = "org" -> found.session /\ found.org # "nobody"
    [] middleware = "orgAdmin" -> found.org \in Admins
    [] middleware = "team" -> found.session /\ found.team # "nobody"
    [] middleware = "teamAdmin" -> found.team \in Admins
    [] middleware = "limited" -> found.counted
    [] middleware = "capture" -> found.http
    [] OTHER -> TRUE

LEMMA ChainsSuffice ==
  ASSUME NEW op \in Operation, NEW field \in Needs(op),
         \A i \in 1 .. Len(Chain(Tier(op))) : Granted(context, Chain(Tier(op))[i])
  PROVE  Has(field)
<1> DEFINE all == Chain(Tier(op))
<1>1. Fits(op)
  BY Chains
<1>2. CASE all = <<"limited", "capture">> /\ Needs(op) = {"http"}
  <2>1. Granted(context, "capture")
    BY <1>2
  <2> QED BY <1>2, <2>1 DEF Granted, Has
<1>3. CASE /\ all \in {<<"session", "require", "capture">>, <<"session", "require", "limited">>}
           /\ Needs(op) = {"session"}
  <2>1. Granted(context, "require")
    BY <1>3
  <2> QED BY <1>3, <2>1 DEF Granted, Has
<1>4. CASE /\ all \in {<<"session", "org">>, <<"session", "org", "orgAdmin">>}
           /\ Needs(op) \subseteq {"session", "org"}
  <2>1. Granted(context, "org")
    BY <1>4
  <2> QED BY <1>4, <2>1 DEF Granted, Has
<1>5. CASE /\ all \in {<<"session", "team">>, <<"session", "team", "teamAdmin">>}
           /\ Needs(op) = {"team"}
  <2>1. Granted(context, "team")
    BY <1>5
  <2> QED BY <1>5, <2>1 DEF Granted, Has
<1> QED BY <1>1, <1>2, <1>3, <1>4, <1>5 DEF Fits

\* What the contract asks of a tier before its handler runs.
Guarded(op) ==
  /\ 401 \in Declared(op) => context.session
  /\ 429 \in Declared(op) => context.counted
  /\ op \in OwnersAndAdmins => {context.org, context.team} \cap Admins # {}

LEMMA ChainsGuard ==
  ASSUME NEW op \in Operation,
         \A i \in 1 .. Len(Chain(Tier(op))) : Granted(context, Chain(Tier(op))[i])
  PROVE  Guarded(op)
<1> DEFINE all == Chain(Tier(op))
<1> USE DEF Guarded, Unlimited
<1>1. Fits(op)
  BY Chains
<1>2. CASE all = <<>> /\ op \notin OwnersAndAdmins /\ 401 \notin Declared(op) /\ Unlimited(op)
  BY <1>2
<1>3. CASE /\ all = <<"limited", "capture">>
           /\ op = "RegisterWithInvitation" /\ 401 \notin Declared(op)
  <2>1. Granted(context, "limited")
    BY <1>3
  <2> QED BY <1>3, <2>1 DEF Granted, OwnersAndAdmins
<1>4. CASE all = <<"session", "require", "capture">> /\ op \notin OwnersAndAdmins /\ Unlimited(op)
  <2>1. Granted(context, "require")
    BY <1>4
  <2> QED BY <1>4, <2>1 DEF Granted
<1>5. CASE all = <<"session", "require", "limited">> /\ op \notin OwnersAndAdmins
  <2>1. Granted(context, "require") /\ Granted(context, "limited")
    BY <1>5
  <2> QED BY <1>5, <2>1 DEF Granted
<1>6. CASE all = <<"session", "org">> /\ op \notin OwnersAndAdmins /\ Unlimited(op)
  <2>1. Granted(context, "org")
    BY <1>6
  <2> QED BY <1>6, <2>1 DEF Granted
<1>7. CASE all = <<"session", "org", "orgAdmin">> /\ Unlimited(op)
  <2>1. Granted(context, "org") /\ Granted(context, "orgAdmin")
    BY <1>7
  <2> QED BY <1>7, <2>1 DEF Granted
<1>8. CASE all = <<"session", "team">> /\ op \notin OwnersAndAdmins /\ Unlimited(op)
  <2>1. Granted(context, "team")
    BY <1>8
  <2> QED BY <1>8, <2>1 DEF Granted
<1>9. CASE all = <<"session", "team", "teamAdmin">> /\ Unlimited(op)
  <2>1. Granted(context, "team") /\ Granted(context, "teamAdmin")
    BY <1>9
  <2> QED BY <1>9, <2>1 DEF Granted
<1> QED BY <1>1, <1>2, <1>3, <1>4, <1>5, <1>6, <1>7, <1>8, <1>9 DEF Fits

\* The five tables of errors.
LEMMA OutcomeTables ==
  ASSUME NEW op \in Operation, NEW ended \in Outcome(op)
  PROVE  \/ ended \in {"ok", "other"}
         \/ op \in DOMAIN MeErrors /\ ended \in MeErrors[op]
         \/ op \in DOMAIN InvitationErrors /\ ended \in InvitationErrors[op]
         \/ op \in DOMAIN OrganizationErrors /\ ended \in OrganizationErrors[op]
         \/ op \in DOMAIN TeamErrors /\ ended \in TeamErrors[op]
         \/ op \in DOMAIN LinkErrors /\ ended \in LinkErrors[op]
BY DEF Outcome

LEMMA HandlersEnd ==
  ASSUME NEW op \in Operation, NEW ended \in Outcome(op)
  PROVE  ended # "nil"
BY OutcomeTables DEF MeErrors, VerifyPassword, InvitationErrors, RespondToInvitation,
   SetActiveOrganization, OrganizationErrors, TeamErrors, LinkErrors, LinkForCaller

\* What a handler returns after its mail is one of its outcomes.
LEMMA MailOutcomes ==
  ASSUME NEW op \in Operation
  PROVE  MailThen(op) \subseteq Outcome(op)
<1>1. CASE op = "CreateInvitation"
  <2>1. "ErrNoRows" \in InvitationErrors[op] /\ op \in DOMAIN InvitationErrors
    BY <1>1 DEF InvitationErrors
  <2>2. {"ok", "other"} \subseteq Outcome(op)
    BY <1>1 DEF Outcome
  <2>3. InvitationErrors[op] \subseteq Outcome(op)
    BY <2>1 DEF Outcome
  <2> QED BY <1>1, <2>1, <2>2, <2>3 DEF MailThen
<1>2. CASE op # "CreateInvitation"
  BY <1>2 DEF MailThen, Outcome
<1> QED BY <1>1, <1>2
-----------------------------------------------------------------------------

(***************************************************************************)
(* The invariant of the layers.                                            *)
(***************************************************************************)
Status == {400, 500} \cup DOMAIN Classes \cup UNION {Declared(op) : op \in Operation}

Types ==
  /\ request.op \in Operation
  /\ pc \in Layer
  /\ context \in Context
  /\ outcome \in {"nil"} \cup Outcome(request.op)
  /\ written \in Seq([status : Status, form : Form])
  /\ hungUp \in BOOLEAN

Caller ==
  /\ hops \in 0 .. MaxHops
  /\ \E f \in Forged : request.header = Arrives(f, hops).header
  /\ remoteAddr = IF pc = "proxy" /\ hops > 0 THEN "proxy" ELSE "client"

\* The middlewares that are no longer in the chain have let the request pass.
Started == {"chain", "handler"}
Passed ==
  LET all == Chain(Tier(request.op)) IN
  /\ pc \in {"proxy", "bind", "validate", "decode"} => chain = <<>>
  /\ \E n \in 0 .. 3 :
       /\ chain = SubSeq(all, n + 1, Len(all))
       /\ pc \in Started =>
            n <= Len(all) /\ \A i \in 1 .. n : Granted(context, all[i])
  /\ pc = "handler" => chain = <<>>

\* A middleware refuses with what the operation declares.
RefusesAsDeclared ==
  pc = "respond" /\ outcome = "nil" => written[1].status \in Declared(request.op) \cup {500}

\* How often the request was answered.
Once ==
  /\ pc \in {"proxy", "bind", "validate", "decode", "chain", "handler"} =>
       outcome = "nil" /\ written = <<>>
  /\ pc = "mail" => outcome # "nil" /\ written = <<>>
  /\ pc = "respond" => Len(written) = IF outcome = "nil" THEN 1 ELSE 0
  /\ pc = "done" => Len(written) \in {1, 2} /\ (Len(written) > 1 => hungUp)

IndInv == Types /\ Caller /\ Passed /\ RefusesAsDeclared /\ Once /\ Encrypted
-----------------------------------------------------------------------------

(***************************************************************************)
(* What is left of a chain.                                                *)
(***************************************************************************)
Middleware ==
  {"session", "require", "org", "orgAdmin", "team", "teamAdmin", "capture", "limited"}

LEMMA ChainType ==
  ASSUME NEW op \in Operation
  PROVE  /\ Chain(Tier(op)) \in Seq(Middleware)
         /\ Len(Chain(Tier(op))) \in 0 .. 3
         /\ \A i \in 1 .. Len(Chain(Tier(op))) :
              /\ Chain(Tier(op))[i] = "session" => i = 1
              /\ Chain(Tier(op))[i] \in {"orgAdmin", "teamAdmin"} => i = 3
<1>1. Fits(op)
  BY Chains
<1> DEFINE all == Chain(Tier(op))
           Typed == /\ all \in Seq(Middleware) /\ Len(all) \in 0 .. 3
                    /\ \A i \in 1 .. Len(all) :
                         /\ all[i] = "session" => i = 1
                         /\ all[i] \in {"orgAdmin", "teamAdmin"} => i = 3
<1> HIDE DEF all
<1>2. all = <<>> => Typed
  BY DEF Middleware
<1>3. all = <<"limited", "capture">> => Typed
  BY DEF Middleware
<1>4. all = <<"session", "org">> => Typed
  BY DEF Middleware
<1>5. all = <<"session", "team">> => Typed
  BY DEF Middleware
<1>6. all = <<"session", "require", "capture">> => Typed
  BY DEF Middleware
<1>7. all = <<"session", "require", "limited">> => Typed
  BY DEF Middleware
<1>8. all = <<"session", "org", "orgAdmin">> => Typed
  BY DEF Middleware
<1>9. all = <<"session", "team", "teamAdmin">> => Typed
  BY DEF Middleware
<1>10. \/ all \in {<<>>, <<"limited", "capture">>, <<"session", "org">>, <<"session", "team">>}
       \/ all \in {<<"session", "require", "capture">>, <<"session", "require", "limited">>,
                  <<"session", "org", "orgAdmin">>, <<"session", "team", "teamAdmin">>}
  BY <1>1 DEF Fits, all
<1>11. Typed
  BY <1>2, <1>3, <1>4, <1>5, <1>6, <1>7, <1>8, <1>9, <1>10
<1> QED BY <1>11 DEF all

LEMMA Suffix ==
  ASSUME NEW all \in Seq(Middleware), NEW n \in 0 .. Len(all),
         NEW left, left = SubSeq(all, n + 1, Len(all))
  PROVE  /\ left = <<>> <=> n = Len(all)
         /\ left # <<>> => /\ n + 1 \in 1 .. Len(all) /\ Head(left) = all[n + 1]
                           /\ Tail(left) = SubSeq(all, n + 2, Len(all))
<1>1. Len(all) \in Nat /\ \A i \in 1 .. Len(all) : all[i] \in Middleware
  BY LenProperties
<1>2. CASE n = Len(all)
  <2>1. left = <<>>
    BY <1>1, <1>2, SubSeqEmpty
  <2> QED BY <1>2, <2>1
<1>3. CASE n # Len(all)
  <2>1. n + 1 \in 1 .. Len(all) /\ Len(all) \in n + 1 .. Len(all)
    BY <1>1, <1>3
  <2>2. Head(left) = all[n + 1] /\ Tail(left) = SubSeq(all, n + 1 + 1, Len(all))
    BY <2>1, HeadTailOfSubSeq
  <2>3. Len(left) = Len(all) - (n + 1) + 1
    BY <1>1, <2>1, SubSeqProperties
  <2>4. left # <<>>
    <3> DEFINE size == Len(left)
    <3>1. size # 0
      <4>1. size = Len(all) - n /\ Len(all) - n \in Nat \ {0}
        BY <1>1, <1>3, <2>3
      <4> HIDE DEF size
      <4> QED BY <4>1
    <3>2. Len(<<>>) = 0
      BY SMT
    <3> QED BY <3>1, <3>2, Zenon
  <2> QED BY <1>1, <1>3, <2>1, <2>2, <2>4
<1> QED BY <1>2, <1>3

(***************************************************************************)
(* The middlewares, by what they do.                                       *)
(***************************************************************************)
Middlewares ==
  \/ Session \/ RequireSession \/ RequireOrg \/ RequireOrgAdmin
  \/ RequireTeam \/ RequireTeamAdmin \/ CaptureHTTP \/ RateLimit

\* One refuses with a status of its own, or passes the request on and takes
\* back nothing an earlier one saw to (the admins' come last).
Preserved ==
  \A x : x \notin {"orgAdmin", "teamAdmin"} /\ Granted(context, x) => Granted(context', x)
Runs(m) ==
  /\ At(m) /\ InChain
  /\ \/ \E status \in Refusals(m) : Refuses(status)
     \/ /\ \E found \in Context : Passes(found)
        /\ Granted(context', m)
        /\ m # "session" => Preserved

LEMMA MiddlewareEffect ==
  ASSUME Types, Middlewares
  PROVE  \E m : Runs(m)
<1> USE DEF Refusals, Granted, Preserved
<1>0. context \in Context
  BY DEF Types
<1>1. CASE Session
  <2>1. ASSUME NEW known \in BOOLEAN, Passes([context EXCEPT !.session = known])
        PROVE  \E found \in Context : Passes(found)
    BY <1>0, <2>1 DEF Context
  <2>2. /\ At("session") /\ InChain
        /\ Refuses(500) \/ \E known \in BOOLEAN : Passes([context EXCEPT !.session = known])
    BY <1>1 DEF Session
  <2>3. {500} = Refusals("session") /\ Granted(context', "session")
    OBVIOUS
  <2> HIDE DEF Refusals, Granted, Preserved
  <2>4. CASE Refuses(500)
    <3>1. Runs("session")
      BY <2>2, <2>3, <2>4 DEF Runs
    <3> QED BY <3>1
  <2>5. CASE \E known \in BOOLEAN : Passes([context EXCEPT !.session = known])
    <3>1. \E found \in Context : Passes(found)
      BY <2>1, <2>5
    <3>2. Runs("session")
      BY <2>2, <2>3, <3>1 DEF Runs
    <3> QED BY <3>2
  <2> QED BY <2>2, <2>4, <2>5, Zenon
<1>2. CASE RequireSession
  BY <1>0, <1>2 DEF RequireSession, Runs, Passes
<1>3. CASE RequireOrg
  <2> DEFINE Denied == Refuses(401) \/ Refuses(500) \/ Refuses(403)
             Let == \E role \in Role : /\ role # "nobody" /\ context.session
                            /\ Passes([context EXCEPT !.org = role])
  <2>1. ASSUME NEW role \in Role, role # "nobody", context.session,
               Passes([context EXCEPT !.org = role])
        PROVE  /\ \E found \in Context : Passes(found)
               /\ Granted(context', "org") /\ Preserved
    BY <1>0, <2>1 DEF Context, Passes
  <2>2. At("org") /\ InChain /\ (Denied \/ Let)
    BY <1>3 DEF RequireOrg
  <2>3. {401, 403, 500} = Refusals("org")
    OBVIOUS
  <2> HIDE DEF Refusals, Granted, Preserved
  <2>4. ASSUME Denied PROVE Runs("org")
    BY <2>2, <2>3, <2>4 DEF Runs
  <2>5. ASSUME Let PROVE Runs("org")
    <3>1. /\ \E found \in Context : Passes(found)
          /\ Granted(context', "org") /\ Preserved
      BY <2>1, <2>5
    <3> QED BY <2>2, <3>1 DEF Runs
  <2> HIDE DEF Denied, Let
  <2>6. Runs("org")
    BY <2>2, <2>4, <2>5
  <2> QED BY <2>6
<1>4. CASE RequireOrgAdmin \/ RequireTeamAdmin
  BY <1>0, <1>4 DEF RequireOrgAdmin, RequireTeamAdmin, Runs, Passes
<1>5. CASE RequireTeam
  <2> DEFINE Denied == Refuses(401) \/ Refuses(500) \/ Refuses(403) \/ Refuses(404)
             Let == \E role \in Role : /\ role # "nobody" /\ context.session
                            /\ Passes([context EXCEPT !.team = role])
  <2>1. ASSUME NEW role \in Role, role # "nobody", context.session,
               Passes([context EXCEPT !.team = role])
        PROVE  /\ \E found \in Context : Passes(found)
               /\ Granted(context', "team") /\ Preserved
    BY <1>0, <2>1 DEF Context, Passes
  <2>2. At("team") /\ InChain /\ (Denied \/ Let)
    BY <1>5 DEF RequireTeam, Admins
  <2>3. {401, 403, 404, 500} = Refusals("team")
    OBVIOUS
  <2> HIDE DEF Refusals, Granted, Preserved
  <2>4. ASSUME Denied PROVE Runs("team")
    BY <2>2, <2>3, <2>4 DEF Runs
  <2>5. ASSUME Let PROVE Runs("team")
    <3>1. /\ \E found \in Context : Passes(found)
          /\ Granted(context', "team") /\ Preserved
      BY <2>1, <2>5
    <3> QED BY <2>2, <3>1 DEF Runs
  <2> HIDE DEF Denied, Let
  <2>6. Runs("team")
    BY <2>2, <2>4, <2>5
  <2> QED BY <2>6
<1>6. CASE CaptureHTTP
  <2>1. /\ [context EXCEPT !.http = TRUE] \in Context
        /\ Granted(context', "capture") /\ Preserved
    BY <1>0, <1>6 DEF CaptureHTTP, Context, Passes
  <2> QED BY <1>6, <2>1 DEF CaptureHTTP, Runs
<1>7. CASE RateLimit
  <2> DEFINE found == [context EXCEPT !.counted = TRUE]
  <2>1. At("limited") /\ InChain /\ (Refuses(500) \/ Refuses(429) \/ Passes(found))
    BY <1>7 DEF RateLimit
  <2>2. ASSUME Passes(found) PROVE Granted(context', "limited") /\ Preserved
    BY <1>0, <2>2 DEF Context, Passes
  <2>3. found \in Context
    BY <1>0 DEF Context
  <2>4. {429, 500} = Refusals("limited")
    OBVIOUS
  <2> HIDE DEF found, Refusals, Granted, Preserved
  <2>5. Runs("limited")
    BY <2>1, <2>2, <2>3, <2>4 DEF Runs
  <2> QED BY <2>5
<1> QED BY <1>1, <1>2, <1>3, <1>4, <1>5, <1>6, <1>7 DEF Middlewares
-----------------------------------------------------------------------------

(***************************************************************************)
(* What the conjuncts of the invariant depend on.                          *)
(***************************************************************************)

\* The part of the header the client's proxy wrote is the one FromRequest takes.
LEMMA FindsTheClient == Caller => FromRequest = "client"
<1> SUFFICES ASSUME Caller PROVE FromRequest = "client"
  OBVIOUS
<1>1. CASE hops = 0
  BY <1>1 DEF Caller, FromRequest
<1>2. CASE hops # 0
  <2>1. hops \in Nat \ {0}
    BY <1>2, FrontAssumption DEF Caller
  <2>2. PICK f \in Forged : request.header = Arrives(f, hops).header
    BY DEF Caller
  <2>3. f \in Seq({"blank", "another"})
    BY <2>2, FrontAssumption
  <2> DEFINE named == Named(request.header)
  <2>4. /\ named # {}
        /\ request.header[Nth(named, Index(Cardinality(named), hops))] = "client"
    BY <2>1, <2>2, <2>3, Locates
  <2> HIDE DEF named
  <2>5. FromRequest = IF hops = 0 \/ named = {} THEN remoteAddr
                      ELSE request.header[Nth(named, Index(Cardinality(named), hops))]
    BY DEF FromRequest, named
  <2> QED BY <1>2, <2>4, <2>5
<1> QED BY <1>1, <1>2

LEMMA CallerKept ==
  Caller /\ UNCHANGED <<request, hops, remoteAddr>> /\ (pc' = "proxy" <=> pc = "proxy")
    => Caller'
BY DEF Caller

LEMMA EncryptedKept == Encrypted /\ UNCHANGED <<server, mail>> => Encrypted'
BY DEF Encrypted, SmtpTypeOK, Remote

LEMMA PassedKept ==
  ASSUME Passed, UNCHANGED <<request, chain>>,
         pc' \in Started => pc \in Started /\ context' = context,
         pc' \in {"proxy", "bind", "validate", "decode", "handler"} => chain = <<>>
  PROVE  Passed'
<1> DEFINE all == Chain(Tier(request.op))
<1>1. all' = all /\ chain' = chain
  OBVIOUS
<1>2. PICK n \in 0 .. 3 :
        /\ chain = SubSeq(all, n + 1, Len(all))
        /\ pc \in Started => n <= Len(all) /\ \A i \in 1 .. n : Granted(context, all[i])
  BY DEF Passed
<1> HIDE DEF all
<1>3. /\ chain' = SubSeq(all', n + 1, Len(all'))
      /\ pc' \in Started => n <= Len(all') /\ \A i \in 1 .. n : Granted(context', all'[i])
  BY <1>1, <1>2
<1>4. \E k \in 0 .. 3 :
        /\ chain' = SubSeq(all', k + 1, Len(all'))
        /\ pc' \in Started => k <= Len(all') /\ \A i \in 1 .. k : Granted(context', all'[i])
  BY <1>3
<1> QED BY <1>1, <1>4 DEF Passed, all

LEMMA AppendToNothing ==
  ASSUME NEW S, NEW e \in S
  PROVE  Append(<<>>, e) \in Seq(S) /\ Len(Append(<<>>, e)) = 1 /\ Append(<<>>, e)[1] = e
OBVIOUS

\* The statuses of errors and of answers that succeed.
LEMMA StatusType ==
  /\ \A error : StatusOf(error) \in Status
  /\ \A op \in Operation : Success(op) \subseteq Status
<1>1. \A error : StatusOf(error) \in DOMAIN Classes \cup {500}
  BY DEF StatusOf
<1>2. \A op \in Operation : Declared(op) \subseteq Status
  BY DEF Status
<1>3. "Readyz" \in Operation /\ 503 \in Declared("Readyz")
  BY OperationNames DEF Declared, Contract, Readyz, Bodiless
<1>4. \A op \in Operation : Success(op) \subseteq Declared(op)
  BY <1>3 DEF Success
<1> QED BY <1>1, <1>2, <1>4 DEF Status

\* The first header of an answer.
LEMMA FirstAnswer ==
  ASSUME written = <<>>, NEW status \in Status, NEW form \in Form, Writes(status, form)
  PROVE  /\ written' \in Seq([status : Status, form : Form]) /\ Len(written') = 1
         /\ written'[1].status = status
<1> DEFINE answer == [status |-> status, form |-> form]
           S == [status : Status, form : Form]
<1>1. answer \in S /\ answer.status = status
  OBVIOUS
<1>2. written' = Append(<<>>, answer)
  BY DEF Writes
<1> HIDE DEF answer, S
<1>3. written' \in Seq(S) /\ Len(written') = 1 /\ written'[1] = answer
  BY <1>1, <1>2, AppendToNothing
<1> QED BY <1>1, <1>3 DEF S

\* Exactly one header has been written.
LEMMA OnceAnswered ==
  ASSUME Len(written') = 1, \/ pc' = "done"
                            \/ pc' = "respond" /\ outcome' = "nil"
  PROVE  Once'
<1> DEFINE size == Len(written')
<1>1. size = 1
  OBVIOUS
<1> HIDE DEF size
<1>2. size \in {1, 2} /\ ~(size > 1)
  BY <1>1
<1> QED BY <1>1, <1>2, Zenon DEF Once, size
-----------------------------------------------------------------------------

(***************************************************************************)
(* The invariant holds initially, and every action preserves it.           *)
(***************************************************************************)
Before == {"proxy", "bind", "validate", "decode"}

LEMMA InvInit == Init => IndInv
<1> SUFFICES ASSUME Init PROVE IndInv
  OBVIOUS
<1>1. /\ pc = "proxy" /\ chain = <<>> /\ outcome = "nil" /\ written = <<>> /\ hungUp = FALSE
      /\ hops \in 0 .. MaxHops /\ mail = Unsent
      /\ context = [session |-> FALSE, org |-> "nobody", team |-> "nobody", counted |-> FALSE,
                    http |-> FALSE]
  BY DEF Init
<1>2. PICK op \in Operation, f \in Forged :
        /\ request = [op |-> op, header |-> Arrives(f, hops).header]
        /\ remoteAddr = Arrives(f, hops).peer
  BY DEF Init
<1>3. request.op = op /\ request.header = Arrives(f, hops).header
  BY <1>2
<1>4. Types
  <2>1. context \in Context
    BY <1>1 DEF Context, Role
  <2>2. written \in Seq([status : Status, form : Form])
    BY <1>1
  <2> QED BY <1>1, <1>3, <2>1, <2>2 DEF Types, Layer
<1>5. Caller
  <2>1. remoteAddr = IF hops > 0 THEN "proxy" ELSE "client"
    BY <1>1, <1>2, FrontAssumption DEF Arrives
  <2> QED BY <1>1, <1>3, <2>1 DEF Caller
<1>6. Passed
  <2> DEFINE all == Chain(Tier(request.op))
             n == Len(all)
  <2>1. n \in 0 .. 3
    BY <1>3, ChainType
  <2> HIDE DEF n
  <2>2. SubSeq(all, n + 1, n) = <<>>
    BY <2>1, SubSeqEmpty
  <2>3. \E k \in 0 .. 3 : chain = SubSeq(all, k + 1, Len(all))
    BY <1>1, <2>1, <2>2 DEF n
  <2> HIDE DEF all
  <2> QED BY <1>1, <2>3 DEF Passed, Started, all
<1>7. Once
  BY <1>1 DEF Once
<1>8. Encrypted
  <2>1. server \in Server \cup {NoServer}
    BY DEF Init
  <2> QED BY <1>1, <2>1 DEF Encrypted, SmtpTypeOK, Unsent, Ended, Remote, Talking
<1>9. RefusesAsDeclared
  BY <1>1 DEF RefusesAsDeclared
<1> QED BY <1>4, <1>5, <1>6, <1>7, <1>8, <1>9 DEF IndInv

LEMMA ProxyStep == IndInv /\ TrustedProxy => IndInv'
<1> SUFFICES ASSUME IndInv, TrustedProxy PROVE IndInv'
  OBVIOUS
<1>1. /\ pc = "proxy" /\ pc' = "bind"
      /\ UNCHANGED <<request, hops, server, hungUp, chain, context, outcome, written, mail>>
      /\ remoteAddr' = IF hops = 0 THEN remoteAddr ELSE FromRequest
  BY DEF TrustedProxy, Goes, reads
<1>2. Types'
  BY <1>1 DEF IndInv, Types, Layer
<1>3. Caller'
  <2>1. remoteAddr' = "client"
    BY <1>1, FindsTheClient, FrontAssumption DEF IndInv, Caller
  <2> QED BY <1>1, <2>1 DEF IndInv, Caller
<1>4. Passed'
  <2>1. Passed /\ chain = <<>>
    BY <1>1 DEF IndInv, Passed
  <2> QED BY <1>1, <2>1, PassedKept DEF Started
<1>5. Once'
  BY <1>1 DEF IndInv, Once
<1>6. Encrypted' /\ RefusesAsDeclared'
  BY <1>1, EncryptedKept DEF IndInv, RefusesAsDeclared
<1> QED BY <1>2, <1>3, <1>4, <1>5, <1>6 DEF IndInv

\* Bind, Validate and Decode let the request pass, or answer it with 400.
LEMMA GateStep == IndInv /\ (Bind \/ Validate \/ Decode) => IndInv'
<1> SUFFICES ASSUME IndInv, Bind \/ Validate \/ Decode PROVE IndInv'
  OBVIOUS
<1>1. /\ UNCHANGED <<request, hops, server, hungUp, remoteAddr, context, outcome, mail>>
      /\ pc \in {"bind", "validate", "decode"} /\ pc' \notin {"proxy", "handler", "respond"}
  BY DEF Bind, Validate, Decode, Goes, reads
<1>2. Types /\ outcome = "nil" /\ written = <<>> /\ chain = <<>>
  BY <1>1 DEF IndInv, Once, Passed
<1>3. Caller' /\ Encrypted' /\ RefusesAsDeclared'
  BY <1>1, CallerKept, EncryptedKept DEF IndInv, RefusesAsDeclared
<1>4. CASE /\ pc' = "done" /\ chain' = chain
           /\ Writes(400, "envelope") \/ Writes(400, "plain text")
  <2>1. {"envelope", "plain text"} \subseteq Form /\ 400 \in Status
    BY DEF Form, Status
  <2>4. written' \in Seq([status : Status, form : Form]) /\ Len(written') = 1
    BY <1>2, <1>4, <2>1, FirstAnswer, Zenon
  <2>5. Types'
    BY <1>1, <1>2, <1>4, <2>4 DEF Types, Layer
  <2>6. Passed'
    BY <1>1, <1>2, <1>4, PassedKept DEF IndInv, Started
  <2>7. Once'
    BY <1>4, <2>4, OnceAnswered
  <2> QED BY <1>3, <2>5, <2>6, <2>7 DEF IndInv
<1>5. CASE /\ pc' \in {"validate", "decode"} /\ UNCHANGED <<chain, written>>
  <2>1. Types'
    BY <1>1, <1>2, <1>5 DEF Types, Layer
  <2>2. Passed'
    BY <1>1, <1>2, <1>5, PassedKept DEF IndInv, Started
  <2>3. Once'
    BY <1>1, <1>2, <1>5 DEF Once
  <2> QED BY <1>3, <2>1, <2>2, <2>3 DEF IndInv
<1>6. CASE pc' = "chain" /\ chain' = Chain(Tier(request.op)) /\ written' = written
  <2>1. Types'
    BY <1>1, <1>2, <1>6 DEF Types, Layer
  <2>2. Passed'
    <3> DEFINE all == Chain(Tier(request.op))
    <3>1. all' = all
      BY <1>1
    <3>2. all \in Seq(Middleware) /\ Len(all) \in Nat
      BY <1>2, ChainType DEF Types
    <3>3. SubSeq(all, 1, Len(all)) = all
      BY <3>2, SubSeqFull
    <3> HIDE DEF all
    <3>4. chain' = SubSeq(all', 0 + 1, Len(all')) /\ 0 <= Len(all')
      BY <1>6, <3>1, <3>2, <3>3 DEF all
    <3>5. \E k \in 0 .. 3 :
            /\ chain' = SubSeq(all', k + 1, Len(all'))
            /\ k <= Len(all') /\ \A i \in 1 .. k : Granted(context', all'[i])
      BY <3>4
    <3> QED BY <1>6, <3>5 DEF Passed, all
  <2>3. Once'
    BY <1>1, <1>2, <1>6 DEF Once
  <2> QED BY <1>3, <2>1, <2>2, <2>3 DEF IndInv
<1> QED
  <2>1. CASE Bind
    BY <1>2, <1>4, <1>5, <2>1 DEF Bind, Goes
  <2>2. CASE Validate
    BY <1>2, <1>4, <1>5, <2>2 DEF Validate, Goes
  <2>3. CASE Decode
    BY <1>2, <1>4, <1>5, <1>6, <2>3 DEF Decode, Goes
  <2> QED BY <2>1, <2>2, <2>3


LEMMA MiddlewareStep == IndInv /\ Middlewares => IndInv'
<1> SUFFICES ASSUME IndInv, Middlewares PROVE IndInv'
  OBVIOUS
<1>1. PICK m : Runs(m)
  BY MiddlewareEffect DEF IndInv
<1>2. /\ pc = "chain" /\ chain # <<>> /\ Head(chain) = m
      /\ UNCHANGED <<request, hops, server, hungUp, remoteAddr, outcome, mail>>
  BY <1>1 DEF Runs, At, InChain, reads
<1>3. Types /\ outcome = "nil" /\ written = <<>>
  BY <1>2 DEF IndInv, Once
<1> DEFINE all == Chain(Tier(request.op))
<1>4. PICK n \in 0 .. 3 :
        /\ chain = SubSeq(all, n + 1, Len(all))
        /\ n <= Len(all) /\ \A i \in 1 .. n : Granted(context, all[i])
  BY <1>2 DEF IndInv, Passed, Started
<1>5. /\ all \in Seq(Middleware) /\ Len(all) \in 0 .. 3
      /\ \A i \in 1 .. Len(all) : all[i] = "session" => i = 1
      /\ \A i \in 1 .. Len(all) : all[i] \in {"orgAdmin", "teamAdmin"} => i = 3
  BY <1>3, ChainType DEF Types
<1>6. /\ n + 1 \in 1 .. Len(all) /\ m = all[n + 1]
      /\ Tail(chain) = SubSeq(all, n + 2, Len(all))
  <2> HIDE DEF all
  <2>1. n \in 0 .. Len(all)
    BY <1>4, <1>5
  <2> QED BY <1>2, <1>4, <1>5, <2>1, Suffix
<1>7. ASSUME NEW status \in Refusals(m), Refuses(status)
      PROVE  IndInv'
  <2>1. /\ Writes(status, "envelope") /\ pc' = "respond" /\ UNCHANGED <<chain, context>>
        /\ "envelope" \in Form
    BY <1>7 DEF Refuses, Form
  <2>2. request.op \in Operation /\ status \in Declared(request.op) \cup {500}
    BY <1>3, <1>6, <1>7, RefusalsDeclared DEF Types
  <2>8. status \in Status
    BY <2>2 DEF Status
  <2>3. /\ written' \in Seq([status : Status, form : Form]) /\ Len(written') = 1
        /\ written'[1].status = status
    BY <1>3, <2>1, <2>8, FirstAnswer, Zenon
  <2>4. Types'
    BY <1>2, <1>3, <2>1, <2>3 DEF Types, Layer
  <2>5. Passed'
    BY <1>2, <2>1, PassedKept DEF IndInv, Started
  <2>6. Caller' /\ Encrypted' /\ RefusesAsDeclared'
    BY <1>2, <2>1, <2>2, <2>3, CallerKept, EncryptedKept DEF IndInv, RefusesAsDeclared
  <2>7. Once'
    BY <1>2, <1>3, <2>1, <2>3, OnceAnswered
  <2> QED BY <2>4, <2>5, <2>6, <2>7 DEF IndInv
<1>8. ASSUME NEW found \in Context, Passes(found), Granted(context', m),
             m # "session" => Preserved
      PROVE  IndInv'
  <2>1. context' = found /\ chain' = Tail(chain) /\ pc' = pc /\ written' = written
    BY <1>8 DEF Passes
  <2>2. Types'
    BY <1>2, <1>3, <2>1 DEF Types
  <2>3. Passed'
    <3>1. all' = all
      BY <1>2
    <3> HIDE DEF all
    <3>2. \A i \in 1 .. n + 1 : Granted(context', all[i])
      <4>1. CASE m = "session"
        <5>1. n = 0
          <6>1. all[n + 1] = "session" /\ n + 1 \in 1 .. Len(all)
            BY <1>6, <4>1
          <6>2. n + 1 = 1
            BY <1>5, <6>1
          <6>3. n \in Nat
            BY <1>4
          <6> QED BY <6>2, <6>3
        <5> QED BY <1>6, <1>8, <5>1
      <4>2. CASE m # "session"
        <5>1. \A i \in 1 .. n : Granted(context', all[i])
          <6>1. ASSUME NEW i \in 1 .. n
                PROVE  all[i] \notin {"orgAdmin", "teamAdmin"}
            <7>1. i \in 1 .. Len(all) /\ i # 3
              BY <1>4, <1>5, <1>6
            <7> QED BY <1>5, <7>1
          <6> QED BY <1>4, <1>8, <4>2, <6>1 DEF Preserved
        <5> QED BY <1>6, <1>8, <5>1
      <4> QED BY <4>1, <4>2
    <3>3. n + 1 \in 0 .. 3 /\ n + 1 <= Len(all) /\ (n + 1) + 1 = n + 2
      BY <1>5, <1>6
    <3>4. chain' = SubSeq(all', (n + 1) + 1, Len(all'))
      BY <1>6, <2>1, <3>1, <3>3
    <3>5. \E k \in 0 .. 3 :
            /\ chain' = SubSeq(all', k + 1, Len(all'))
            /\ k <= Len(all') /\ \A i \in 1 .. k : Granted(context', all'[i])
      BY <3>1, <3>2, <3>3, <3>4
    <3> QED BY <1>2, <2>1, <3>5 DEF Passed, all
  <2>4. Caller' /\ Encrypted' /\ RefusesAsDeclared'
    BY <1>2, <2>1, CallerKept, EncryptedKept DEF IndInv, RefusesAsDeclared
  <2>5. Once'
    BY <1>2, <1>3, <2>1 DEF Once
  <2> QED BY <2>2, <2>3, <2>4, <2>5 DEF IndInv
<1> QED BY <1>1, <1>7, <1>8 DEF Runs

LEMMA TerminalStep == IndInv /\ Terminal => IndInv'
<1> SUFFICES ASSUME IndInv, Terminal PROVE IndInv'
  OBVIOUS
<1>1. /\ pc = "chain" /\ pc' = "handler" /\ chain = <<>>
      /\ UNCHANGED <<request, hops, server, hungUp, remoteAddr, chain, context, outcome,
                     written, mail>>
  BY DEF Terminal, Goes, reads
<1>2. Types'
  BY <1>1 DEF IndInv, Types, Layer
<1>3. Passed'
  BY <1>1, PassedKept DEF IndInv, Started
<1>4. Once'
  BY <1>1 DEF IndInv, Once
<1> QED BY <1>1, <1>2, <1>3, <1>4, CallerKept, EncryptedKept DEF IndInv, RefusesAsDeclared

LEMMA HandleStep == IndInv /\ Handle => IndInv'
<1> SUFFICES ASSUME IndInv, Handle PROVE IndInv'
  OBVIOUS
<1>1. /\ pc = "handler" /\ pc' \in {"respond", "mail"}
      /\ outcome' \in Outcome(request.op)
      /\ UNCHANGED <<request, hops, server, hungUp, remoteAddr, chain, context, written, mail>>
  BY DEF Handle, Goes, reads
<1>2. outcome' # "nil" /\ written = <<>>
  BY <1>1, HandlersEnd DEF IndInv, Types, Once
<1>3. Types'
  BY <1>1 DEF IndInv, Types, Layer
<1>4. Passed'
  BY <1>1, PassedKept DEF IndInv, Started
<1>5. Once'
  BY <1>1, <1>2 DEF Once
<1> QED BY <1>1, <1>2, <1>3, <1>4, <1>5, CallerKept, EncryptedKept DEF IndInv, RefusesAsDeclared

LEMMA SendingStep == IndInv /\ (SendMail \/ DialTimeout \/ MailServer) => IndInv'
<1> SUFFICES ASSUME IndInv, SendMail \/ DialTimeout \/ MailServer PROVE IndInv'
  OBVIOUS
<1>1. /\ pc = "mail" /\ pc' = "mail" /\ Mails
      /\ UNCHANGED <<request, hops, remoteAddr, chain, context, outcome, written, hungUp>>
  BY DEF SendMail, DialTimeout, MailServer, InMail, Mails
<1>2. Encrypted'
  BY <1>1, MailStep DEF IndInv
<1>3. Types'
  BY <1>1 DEF IndInv, Types
<1>4. Passed'
  BY <1>1, PassedKept DEF IndInv, Started
<1>5. Once'
  BY <1>1 DEF IndInv, Once
<1> QED BY <1>1, <1>2, <1>3, <1>4, <1>5, CallerKept DEF IndInv, RefusesAsDeclared

LEMMA MailEndsStep == IndInv /\ MailEnds => IndInv'
<1> SUFFICES ASSUME IndInv, MailEnds PROVE IndInv'
  OBVIOUS
<1>1. /\ pc = "mail" /\ pc' = "respond"
      /\ UNCHANGED <<request, hops, remoteAddr, chain, context, outcome, written, hungUp,
                     server, mail>>
  BY DEF MailEnds, Goes, InMail
<1>2. Types'
  BY <1>1 DEF IndInv, Types, Layer
<1>3. Passed'
  BY <1>1, PassedKept DEF IndInv, Started
<1>4. Once'
  BY <1>1 DEF IndInv, Once
<1> QED BY <1>1, <1>2, <1>3, <1>4, CallerKept, EncryptedKept DEF IndInv, Once, RefusesAsDeclared

LEMMA HangUpStep == IndInv /\ HangUp => IndInv'
<1> SUFFICES ASSUME IndInv, HangUp PROVE IndInv'
  OBVIOUS
<1>1. /\ hungUp' = TRUE
      /\ UNCHANGED <<request, hops, remoteAddr, pc, chain, context, outcome, written, server,
                     mail>>
  BY DEF HangUp
<1>2. Types'
  BY <1>1 DEF IndInv, Types
<1>3. Passed'
  <2>1. Passed /\ (pc' \in {"proxy", "bind", "validate", "decode", "handler"} => chain = <<>>)
    BY <1>1 DEF IndInv, Passed
  <2> QED BY <1>1, <2>1, PassedKept
<1>4. Once'
  BY <1>1 DEF IndInv, Once
<1> QED BY <1>1, <1>2, <1>3, <1>4, CallerKept, EncryptedKept DEF IndInv, RefusesAsDeclared

LEMMA PairProperties ==
  ASSUME NEW S, NEW e \in S, NEW f \in S
  PROVE  <<>> \o <<e, f>> \in Seq(S) /\ Len(<<>> \o <<e, f>>) = 2
<1>1. <<e, f>> \in Seq(S) /\ Len(<<e, f>>) = 2
  OBVIOUS
<1>2. <<>> \o <<e, f>> = <<e, f>>
  BY <1>1, ConcatEmptySeq, Zenon
<1> QED BY <1>1, <1>2

LEMMA RespondStep == IndInv /\ Respond => IndInv'
<1> SUFFICES ASSUME IndInv, Respond PROVE IndInv'
  OBVIOUS
<1>1. /\ pc = "respond" /\ pc' = "done"
      /\ UNCHANGED <<request, hops, server, hungUp, remoteAddr, chain, context, outcome, mail>>
  BY DEF Respond, Goes, reads
<1> DEFINE op == request.op
           Answers == [status : Status, form : Form]
<1>2. /\ Types /\ op \in Operation /\ written \in Seq(Answers)
      /\ Len(written) = IF outcome = "nil" THEN 1 ELSE 0
      /\ {"envelope", "typed"} \subseteq Form /\ request' = request
  BY <1>1 DEF IndInv, Types, Once, Form
<1>3. Caller' /\ Encrypted' /\ RefusesAsDeclared'
  BY <1>1, CallerKept, EncryptedKept DEF IndInv, RefusesAsDeclared
<1>4. Passed'
  BY <1>1, PassedKept DEF IndInv, Started
<1>5. ASSUME written' \in Seq(Answers)
      PROVE  Types'
  BY <1>1, <1>2, <1>5 DEF Types, Layer
<1>6. ASSUME written' \in Seq(Answers), Len(written') = 1
      PROVE  IndInv'
  <2>1. Once'
    BY <1>1, <1>6, OnceAnswered
  <2> QED BY <1>3, <1>4, <1>5, <1>6, <2>1 DEF IndInv
<1>7. CASE outcome = "nil"
  <2>1. written' = written
    <3>1. written' = written \o <<>>
      BY <1>7 DEF Respond, OnNoResponse
    <3> QED BY <1>2, <3>1, ConcatEmptySeq, Zenon
  <2>2. Len(written') = 1
    BY <1>2, <1>7, <2>1
  <2> QED BY <1>2, <1>6, <2>1, <2>2
<1>8. CASE outcome # "nil"
  <2>1. written = <<>>
    BY <1>2, <1>8, EmptySeq
  <2>2. CASE outcome = "ok"
    <3>1. PICK s \in Success(op) :
            \/ Writes(s, "typed")
            \/ /\ hungUp
               /\ written' = written \o <<[status |-> s, form |-> "typed"],
                                          [status |-> 500, form |-> "envelope"]>>
      BY <2>2 DEF Respond
    <3>2. s \in Status /\ 500 \in Status
      BY <1>2, <3>1, StatusType DEF Status
    <3>3. CASE Writes(s, "typed")
      <4>1. written' \in Seq(Answers) /\ Len(written') = 1
        BY <1>2, <2>1, <3>2, <3>3, FirstAnswer, Zenon
      <4> QED BY <1>6, <4>1
    <3>4. CASE /\ hungUp
               /\ written' = written \o <<[status |-> s, form |-> "typed"],
                                          [status |-> 500, form |-> "envelope"]>>
      <4> DEFINE first == [status |-> s, form |-> "typed"]
                 second == [status |-> 500, form |-> "envelope"]
      <4>2. first \in Answers /\ second \in Answers
        BY <1>2, <3>2
      <4>4. written' = <<>> \o <<first, second>>
        BY <2>1, <3>4
      <4> HIDE DEF first, second, Answers
      <4>5. written' \in Seq(Answers) /\ Len(written') = 2
        BY <4>2, <4>4, PairProperties
      <4>8. Types'
        BY <1>5, <4>5 DEF Answers
      <4>9. Once'
        <5> DEFINE size == Len(written')
        <5>1. size = 2
          BY <4>5
        <5> HIDE DEF size
        <5>2. size \in {1, 2} /\ hungUp'
          BY <1>1, <3>4, <5>1
        <5> QED BY <1>1, <5>2, Zenon DEF Once, size
      <4> QED BY <1>3, <1>4, <4>8, <4>9 DEF IndInv
    <3> QED BY <3>1, <3>3, <3>4
  <2>3. CASE outcome # "ok"
    <3>1. Writes(StatusOf(outcome), "envelope")
      BY <1>8, <2>3 DEF Respond
    <3>2. StatusOf(outcome) \in Status
      BY StatusType
    <3>3. written' \in Seq(Answers) /\ Len(written') = 1
      BY <1>2, <2>1, <3>1, <3>2, FirstAnswer, Zenon
    <3> QED BY <1>6, <3>3
  <2> QED BY <2>2, <2>3
<1> QED BY <1>7, <1>8

LEMMA InvStep == IndInv /\ [Next]_vars => IndInv'
<1> SUFFICES ASSUME IndInv, [Next]_vars PROVE IndInv'
  OBVIOUS
<1>1. CASE UNCHANGED vars
  <2>1. UNCHANGED <<request, hops, remoteAddr, pc, chain, context, outcome, written, hungUp,
                    server, mail>>
    BY <1>1 DEF vars
  <2>2. Passed'
    BY <2>1 DEF IndInv, Passed
  <2>3. Types' /\ Once'
    BY <2>1 DEF IndInv, Types, Once
  <2> QED BY <2>1, <2>2, <2>3, CallerKept, EncryptedKept DEF IndInv, RefusesAsDeclared
<1>2. CASE Next
  BY <1>2, ProxyStep, GateStep, MiddlewareStep, TerminalStep, HandleStep, SendingStep,
     MailEndsStep, RespondStep, HangUpStep DEF Next, Layers, Middlewares
<1> QED BY <1>1, <1>2
-----------------------------------------------------------------------------

(***************************************************************************)
(* The theorems.                                                           *)
(***************************************************************************)

\* The inductive invariant.
THEOREM Invariant == Spec => []IndInv
<1>1. Init => IndInv
  BY InvInit
<1>2. IndInv /\ [Next]_vars => IndInv'
  BY InvStep
<1> QED BY <1>1, <1>2, PTL DEF Spec

\* The variables of a request keep their types in every layer.
THEOREM TypeCorrect == Spec => []TypeOK
<1>1. IndInv => TypeOK
  <2> SUFFICES ASSUME IndInv PROVE TypeOK
    OBVIOUS
  <2>1. request.op \in Operation /\ pc \in Layer /\ context \in Context /\ hungUp \in BOOLEAN
    BY DEF IndInv, Types
  <2>2. request.header \in Seq({"blank", "another", "client", "proxy"})
    <3>1. PICK f \in Forged : request.header = Arrives(f, hops).header
      BY DEF IndInv, Caller
    <3>2. f \in Seq({"blank", "another"})
      BY <3>1, FrontAssumption
    <3>3. CASE hops = 0
      <4>1. f \in Seq({"blank", "another", "client", "proxy"})
        BY <3>2, SeqDef
      <4>2. request.header = f
        BY <3>1, <3>3 DEF Arrives
      <4> QED BY <4>1, <4>2
    <3>4. CASE hops # 0
      <4>1. hops \in Nat \ {0}
        BY <3>4, FrontAssumption DEF IndInv, Caller
      <4> QED BY <3>1, <3>2, <4>1, HeaderParts
    <3> QED BY <3>3, <3>4
  <2>3. hops \in 0 .. MaxHops /\ remoteAddr \in {"client", "another", "proxy"}
    BY DEF IndInv, Caller
  <2>4. \E n \in 0 .. 3 :
          LET all == Chain(Tier(request.op)) IN chain = SubSeq(all, n + 1, Len(all))
    BY DEF IndInv, Passed
  <2>5. outcome \in {"nil"} \cup UNION {Outcome(op) : op \in Operation}
    BY DEF IndInv, Types
  <2>6. ASSUME NEW i \in DOMAIN written
        PROVE  written[i].status \in Status /\ written[i].form \in Form
    <3> DEFINE Answers == [status : Status, form : Form]
    <3>1. written \in Seq(Answers)
      BY DEF IndInv, Types
    <3> HIDE DEF Answers
    <3>2. written[i] \in Answers
      BY <2>6, <3>1, LenProperties
    <3> QED BY <3>2 DEF Answers
  <2>7. SmtpTypeOK
    BY DEF IndInv, Encrypted
  <2> QED BY <2>1, <2>2, <2>3, <2>4, <2>5, <2>6, <2>7 DEF TypeOK, Status
<1> QED BY <1>1, Invariant, PTL

\* Where a handler runs every middleware of its tier has let the request pass.
LEMMA AllGranted ==
  ASSUME IndInv, pc = "handler"
  PROVE  LET all == Chain(Tier(request.op)) IN
         /\ request.op \in Operation
         /\ \A i \in 1 .. Len(all) : Granted(context, all[i])
<1> DEFINE all == Chain(Tier(request.op))
<1>1. request.op \in Operation /\ chain = <<>>
  BY DEF IndInv, Types, Passed
<1>2. all \in Seq(Middleware) /\ Len(all) \in 0 .. 3
  BY <1>1, ChainType
<1>3. PICK n \in 0 .. 3 :
        /\ chain = SubSeq(all, n + 1, Len(all))
        /\ n <= Len(all) /\ \A i \in 1 .. n : Granted(context, all[i])
  BY DEF IndInv, Passed, Started
<1>4. n = Len(all)
  <2> HIDE DEF all
  <2>1. n \in 0 .. Len(all)
    BY <1>2, <1>3
  <2> QED BY <1>1, <1>2, <1>3, <2>1, Suffix
<1> QED BY <1>1, <1>3, <1>4

\* A handler whose operation is declared to answer 401 runs only for a session,
\* one declared to answer 429 only for a request the limiter has counted, one
\* for owners and admins only for these; and a tier refuses with a status the
\* operation declares, or 500: for every operation and any number of proxies.
THEOREM TiersGuardAsPromised == Spec => []GuardedAsPromised
<1>1. IndInv => GuardedAsPromised
  <2> SUFFICES ASSUME IndInv PROVE GuardedAsPromised
    OBVIOUS
  <2>1. pc = "handler" => Guarded(request.op)
    BY AllGranted, ChainsGuard
  <2>2. RefusesAsDeclared
    BY DEF IndInv
  <2> QED BY <2>1, <2>2 DEF GuardedAsPromised, Guarded, RefusesAsDeclared
<1> QED BY <1>1, Invariant, PTL

\* However many proxies there are and whatever the client wrote into
\* X-Forwarded-For, limits and digests are taken of the client's own address;
\* and every handler finds in its context what it reads there.
THEOREM CallerIsKnown == Spec => []KnowsItsCaller
<1>1. IndInv => KnowsItsCaller
  <2> SUFFICES ASSUME IndInv PROVE KnowsItsCaller
    OBVIOUS
  <2>1. pc # "proxy" => FromRequest = "client" /\ remoteAddr = "client"
    BY FindsTheClient DEF IndInv, Caller
  <2>2. pc = "handler" => \A field \in Needs(request.op) : Has(field)
    BY AllGranted, ChainsSuffice
  <2> QED BY <2>1, <2>2 DEF KnowsItsCaller
<1> QED BY <1>1, Invariant, PTL

\* Whatever the mail server offers, refuses or answers, neither the password
\* nor a message reaches a remote one in clear text, and mail reported as sent
\* was taken.
THEOREM MailIsPrivate == Spec => []PrivateMail
<1>1. IndInv => PrivateMail
  BY DEF IndInv, Encrypted, Remote, PrivateMail
<1> QED BY <1>1, Invariant, PTL

\* The safety half of OneAnswer: who has not hung up is answered once, and a
\* request the layers are done with was answered.
THEOREM AnsweredOnce ==
  Spec => [](/\ Len(written) > 1 => hungUp
             /\ pc = "done" => Len(written) \in {1, 2})
<1>1. IndInv => (/\ Len(written) > 1 => hungUp
                 /\ pc = "done" => Len(written) \in {1, 2})
  <2> SUFFICES ASSUME IndInv
               PROVE  /\ Len(written) > 1 => hungUp
                      /\ pc = "done" => Len(written) \in {1, 2}
    OBVIOUS
  <2>1. CASE pc = "done"
    BY <2>1 DEF IndInv, Once
  <2>2. CASE pc # "done"
    <3> DEFINE size == Len(written)
    <3>1. size \in {0, 1}
      <4>1. \/ written = <<>>
            \/ Len(written) = IF outcome = "nil" THEN 1 ELSE 0
        BY <2>2 DEF IndInv, Once, Types, Layer
      <4> QED BY <4>1
    <3> HIDE DEF size
    <3>2. ~(size > 1)
      BY <3>1
    <3> QED BY <2>2, <3>2, Zenon DEF size
  <2> QED BY <2>1, <2>2
<1> QED BY <1>1, Invariant, PTL
=============================================================================
