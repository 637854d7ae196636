----------------------------- MODULE Operations -----------------------------
(***************************************************************************)
(* The contract of the API as the generated server has it (server.gen.go,  *)
(* from openapi/snarvei.yaml), and what the code written by hand adds to   *)
(* each operation: the tier it runs behind (tiers.go), what its handler    *)
(* reads from the request's context, and how the handler may fail.         *)
(***************************************************************************)
EXTENDS Integers

\* An operation's types: does its request carry a JSON body, and the statuses
\* there is a response type for.
Posted(statuses) == [body |-> TRUE, statuses |-> statuses]
Bodiless(statuses) == [body |-> FALSE, statuses |-> statuses]

GetConfig == Bodiless({200})
GetInvitation == Bodiless({200, 404})
AcceptInvitation == Bodiless({200, 401, 403, 404, 410})
RegisterWithInvitation == Posted({201, 400, 404, 409, 410, 429})
RejectInvitation == Bodiless({204, 401, 403, 404, 410})
ListLinks == Bodiless({200, 400, 401, 403, 404})
CreateLink == Posted({201, 400, 401, 403, 404, 409, 429})
DeleteLink == Bodiless({204, 401, 403, 404})
GetLink == Bodiless({200, 401, 403, 404})
UpdateLink == Posted({200, 400, 401, 403, 404})
GetLinkAnalytics == Bodiless({200, 400, 401, 403, 404})
ListLinkHistory == Bodiless({200, 400, 401, 403, 404})
DeleteMe == Posted({204, 401, 409})
GetMe == Bodiless({200, 401})
UpdateMe == Posted({200, 400, 401})
RequestEmailChange == Posted({202, 400, 401, 409, 429})
ConfirmEmailChange == Posted({200, 400, 401, 409})
RevokeOtherSessions == Bodiless({204, 401})
ListMySessions == Bodiless({200, 401})
RevokeMySession == Bodiless({204, 401, 404})
ListOrganizations == Bodiless({200, 401})
CreateOrganization == Posted({201, 400, 401, 409})
ListInvitations == Bodiless({200, 401, 403})
CreateInvitation == Posted({201, 400, 401, 403, 404, 409})
CancelInvitation == Bodiless({204, 401, 403, 404})
ListOrganizationMembers == Bodiless({200, 401, 403})
SwitchOrganization == Bodiless({204, 401, 403})
ListTeams == Bodiless({200, 401, 403})
CreateTeam == Posted({201, 400, 401, 403, 409})
ListTeamMembers == Bodiless({200, 401, 403, 404})
AddTeamMember == Posted({204, 400, 401, 403, 404})
RemoveTeamMember == Bodiless({204, 401, 403, 404})
Healthz == Bodiless({200})
Readyz == Bodiless({200, 503})

Contract ==
  [GetConfig |-> GetConfig, GetInvitation |-> GetInvitation,
   AcceptInvitation |-> AcceptInvitation,
   RegisterWithInvitation |-> RegisterWithInvitation,
   RejectInvitation |-> RejectInvitation, ListLinks |-> ListLinks,
   CreateLink |-> CreateLink, DeleteLink |-> DeleteLink, GetLink |-> GetLink,
   UpdateLink |-> UpdateLink, GetLinkAnalytics |-> GetLinkAnalytics,
   ListLinkHistory |-> ListLinkHistory, DeleteMe |-> DeleteMe,
   GetMe |-> GetMe, UpdateMe |-> UpdateMe,
   RequestEmailChange |-> RequestEmailChange,
   ConfirmEmailChange |-> ConfirmEmailChange,
   RevokeOtherSessions |-> RevokeOtherSessions,
   ListMySessions |-> ListMySessions, RevokeMySession |-> RevokeMySession,
   ListOrganizations |-> ListOrganizations,
   CreateOrganization |-> CreateOrganization,
   ListInvitations |-> ListInvitations,
   CreateInvitation |-> CreateInvitation,
   CancelInvitation |-> CancelInvitation,
   ListOrganizationMembers |-> ListOrganizationMembers,
   SwitchOrganization |-> SwitchOrganization, ListTeams |-> ListTeams,
   CreateTeam |-> CreateTeam, ListTeamMembers |-> ListTeamMembers,
   AddTeamMember |-> AddTeamMember, RemoveTeamMember |-> RemoveTeamMember,
   Healthz |-> Healthz, Readyz |-> Readyz]

Operation == DOMAIN Contract
Declared(op) == Contract[op].statuses
Success(op) == {s \in Declared(op) : s < 300} \cup (IF op = "Readyz" THEN {503} ELSE {})
-----------------------------------------------------------------------------
\* The query parameters whose text the generated wrapper may fail to bind:
\* one that must be there, and the integers.  Strings in paths always bind.
ListLinksParams == {"organizationId", "page", "pageSize"}
ListLinkHistoryParams == {"page", "pageSize"}
GetLinkAnalyticsParams == {"days"}
Unbound(op) ==
  CASE op = "ListLinks" -> ListLinksParams
    [] op = "ListLinkHistory" -> ListLinkHistoryParams
    [] op = "GetLinkAnalytics" -> GetLinkAnalyticsParams
    [] OTHER -> {}
-----------------------------------------------------------------------------
\* operationTiers; what is not named is tierSession.
Public == {"Healthz", "Readyz", "GetConfig", "GetInvitation"}
TeamTier_Writes == {"ListTeamMembers", "AddTeamMember", "RemoveTeamMember"}
TeamTier == {"ListTeamMembers"}
Tier(op) ==
  CASE op \in Public -> "public"
    [] op = "RegisterWithInvitation" -> "publicCapture"
    [] op \in {"RequestEmailChange", "CreateLink"} -> "sessionRateLimited"
    [] op \in {"SwitchOrganization", "ListOrganizationMembers", "ListTeams"} -> "org"
    [] op \in {"ListInvitations", "CreateInvitation", "CancelInvitation", "CreateTeam"} ->
         "orgAdmin"
    [] op \in TeamTier -> "team"
    [] op \in {"AddTeamMember", "RemoveTeamMember"} -> "teamAdmin"
    [] OTHER -> "session"

\* Deps.chain, outermost first.
Chain(tier) ==
  CASE tier = "public" -> <<>>
    [] tier = "publicCapture" -> <<"limited", "capture">>
    [] tier = "session" -> <<"session", "require", "capture">>
    [] tier = "sessionRateLimited" -> <<"session", "require", "limited">>
    [] tier = "org" -> <<"session", "org">>
    [] tier = "orgAdmin" -> <<"session", "org", "orgAdmin">>
    [] tier = "team" -> <<"session", "team">>
    [] tier = "teamAdmin" -> <<"session", "team", "teamAdmin">>

\* What the handlers take from the context: SessionFromContext, OrgFromContext,
\* TeamFromContext and HTTPFromContext.
Needs(op) ==
  CASE op \in Public -> {}
    [] op = "RegisterWithInvitation" -> {"http"}
    [] op = "SwitchOrganization" -> {"session", "org"}
    [] op \in {"ListOrganizationMembers", "ListTeams", "ListInvitations",
               "CreateInvitation", "CancelInvitation", "CreateTeam"} -> {"org"}
    [] op \in {"ListTeamMembers", "AddTeamMember", "RemoveTeamMember"} -> {"team"}
    [] OTHER -> {"session"}
-----------------------------------------------------------------------------
\* How handlers fail, apart from errors nobody classifies ("other": the
\* database, the random source): codes of their own httpErrors, and sentinels
\* of auth, links, middleware and pgx.
VerifyPassword == {"ErrNotFound", "ErrInvalidPassword"}
SetActiveOrganization == {"ErrSessionNotFound", "ErrNotMember"}
RespondToInvitation == {"ErrNotFound", "ErrInvitationInvalid", "ErrInvitationEmailMismatch"}
ResolveTeamAccess == {"ErrTeamNotFound", "ErrTeamForbidden"}
LinkForCaller == {"NOT_FOUND", "FORBIDDEN", "ErrTeamNotFound"}

MeErrors ==
  [GetMe |-> {"ErrNoRows"}, UpdateMe |-> {"VALIDATION_FAILED", "ErrNoRows"},
   DeleteMe |-> VerifyPassword \cup {"LAST_OWNER"},
   RequestEmailChange |-> VerifyPassword \cup {"VALIDATION_FAILED", "EMAIL_TAKEN"},
   ConfirmEmailChange |-> {"VALIDATION_FAILED", "EMAIL_TAKEN", "ErrNoRows"},
   RevokeMySession |-> {"ErrNoRows", "ErrNotFound"}]

InvitationErrors ==
  [CreateInvitation |-> {"VALIDATION_FAILED", "NOT_FOUND", "ErrNotFound", "ErrNoRows",
                         "ErrAlreadyMember", "ErrInvitationExists", "ErrForbidden"},
   CancelInvitation |-> {"NOT_FOUND", "ErrNotFound", "ErrInvitationInvalid", "ErrForbidden"},
   GetInvitation |-> {"ErrNoRows"},
   AcceptInvitation |-> RespondToInvitation \cup SetActiveOrganization
                          \cup {"ErrAlreadyMember", "ErrNoRows"},
   RejectInvitation |-> RespondToInvitation,
   RegisterWithInvitation |->
     RespondToInvitation \cup SetActiveOrganization
       \cup {"INVITATION_INVALID", "VALIDATION_FAILED", "EMAIL_TAKEN", "ErrAlreadyMember",
             "ErrNoRows", "ErrEmailTaken", "PasswordPolicyError"}]

OrganizationErrors ==
  [CreateOrganization |-> {"VALIDATION_FAILED", "ErrNotFound", "ErrSlugTaken", "ErrInvalidSlug"},
   SwitchOrganization |-> SetActiveOrganization]

TeamErrors ==
  [CreateTeam |-> {"VALIDATION_FAILED", "TEAM_EXISTS"},
   AddTeamMember |-> {"NOT_FOUND"}, RemoveTeamMember |-> {"NOT_FOUND"}]

LinkErrors ==
  [CreateLink |-> {"NOT_FOUND", "FORBIDDEN", "VALIDATION_FAILED", "ErrInvalidTargetURL",
                   "ErrInvalidLinkSlug", "SLUG_TAKEN", "UniqueViolation", "ErrNoRows"},
   GetLink |-> LinkForCaller,
   UpdateLink |-> LinkForCaller
     \cup {"ErrInvalidTargetURL", "VALIDATION_FAILED", "ErrNoRows"},
   DeleteLink |-> LinkForCaller,
   ListLinks |-> {"VALIDATION_FAILED", "FORBIDDEN", "NOT_FOUND"},
   ListLinkHistory |-> LinkForCaller \cup {"VALIDATION_FAILED"},
   GetLinkAnalytics |-> LinkForCaller \cup {"VALIDATION_FAILED"}]

Outcome(op) ==
  {"ok"} \cup (IF op \in {"Healthz", "Readyz", "GetConfig"} THEN {} ELSE {"other"})
    \cup UNION {errors[op] : errors \in
                  {e \in {MeErrors, InvitationErrors, OrganizationErrors, TeamErrors, LinkErrors} :
                     op \in DOMAIN e}}

\* classify, and responseErrorHandler for what it leaves alone.
Classes ==
  [s \in {400, 401, 403, 404, 409, 410} |->
     CASE s = 400 -> {"VALIDATION_FAILED", "PasswordPolicyError", "ErrInvalidSlug",
                      "ErrInvalidLinkSlug", "ErrInvalidTargetURL"}
       [] s = 401 -> {"ErrInvalidPassword"}
       [] s = 403 -> {"FORBIDDEN", "ErrNotMember", "ErrForbidden",
                      "ErrInvitationEmailMismatch", "ErrTeamForbidden"}
       [] s = 404 -> {"NOT_FOUND", "ErrNotFound", "ErrSessionNotFound", "ErrNoRows",
                      "ErrTeamNotFound"}
       [] s = 409 -> {"EMAIL_TAKEN", "SLUG_TAKEN", "LAST_OWNER", "TEAM_EXISTS", "ErrEmailTaken",
                      "ErrSlugTaken", "ErrAlreadyMember", "ErrInvitationExists",
                      "UniqueViolation"}
       [] s = 410 -> {"INVITATION_INVALID", "ErrInvitationInvalid"}]

StatusOf_Unset(error) ==
  IF \E s \in DOMAIN Classes : error \in Classes[s]
  THEN CHOOSE s \in DOMAIN Classes : error \in Classes[s] ELSE 0
StatusOf(error) ==
  IF \E s \in DOMAIN Classes : error \in Classes[s]
  THEN CHOOSE s \in DOMAIN Classes : error \in Classes[s] ELSE 500
=============================================================================
