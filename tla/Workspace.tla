------------------------------ MODULE Workspace ------------------------------
(***************************************************************************)
(* The shell of the web client: whose session the requests carry, which    *)
(* project they name, and what the pages show.  Every request is sent with *)
(* the headers of one moment, read by the server at another and answered   *)
(* at a third; in between the user signs in or out, switches projects, or  *)
(* an administrator changes a role or closes a project.                    *)
(*                                                                         *)
(* src/frontend/src/App.tsx, services/api.ts, components/SessionModal.tsx  *)
(* and components/ProjectLifecycle.tsx.  The server is modelled by what    *)
(* identity/auth.py and configuration/projects.py answer.                  *)
(***************************************************************************)
EXTENDS Naturals, FiniteSets

CONSTANTS
    Accounts,       \* subjects that can sign in
    Projects,
    None,
    Membership,     \* the projects of each account before anything changes
    Owners,         \* the accounts that manage their projects at first
    Starts,         \* the cookie of the browser and the project of its address
    MaxActs,        \* bound: what the user does
    MaxChanges      \* bound: changes made by administrators

Roles == {"owner", "member"}

VARIABLES
    open,        \* the active projects
    members,     \* members[a]: projects of which a is an active member
    role,        \* role[a]: the role of a in its projects
    changes,     \* changes administrators made so far
    cookie,      \* account of the browser's session cookie, or None
    token,       \* inMemoryToken: the account it was issued to, or None
    csrf,        \* inMemoryCsrf is set
    context,     \* projectContext
    generation,  \* sessionGeneration
    principal,   \* principal of WorkspaceApp, or None
    settings,    \* uiSettings: the scope they were read in, or None
    shown,       \* agents, runs, tools, auditLogs: the project they were read in, or None
    health,      \* health: the project it was read in, or None; no switch clears it
    fresh,       \* healthUpdatedAt is set: health counts as read in this session
    switching,   \* switchingProject
    signing,     \* loading of SessionModal
    stranded,    \* the last lifecycle change could not reload the principal
    acts,        \* what the user did so far
    calls        \* requests without an answer, and answers not yet handled

server == <<open, members, role, cookie, changes>>
view == <<principal, settings, shown, health, fresh>>
session == <<token, csrf, context, generation>>
flags == <<switching, signing, stranded>>
vars == <<server, session, view, flags, acts, calls>>

Scope == [account : Accounts, project : Projects \cup {None}, role : Roles \cup {"none"}]

\* What the server answers: the principal of the request, or why there is none.
Answer == [outcome : {"ok"}, scope : Scope]
          \cup [outcome : {"expired", "denied", "lost"}, scope : {None}]

Call == [kind : {"session", "connect", "logout", "select", "close", "reopen",
                 "recover", "load", "settings", "health"},
         account : Accounts \cup {None}, bearer : BOOLEAN, verified : BOOLEAN,
         project : Projects \cup {None}, target : Projects \cup {None},
         generation : Nat \cup {None}, closure : Scope \cup {None},
         answer : Answer \cup {None}]

ASSUME NoneAssumption == None \notin Accounts /\ None \notin Projects /\ None \notin Scope
                         /\ None \notin Answer
ASSUME StartAssumption ==
    /\ Membership \in [Accounts -> SUBSET Projects]
    /\ Starts \subseteq [cookie : Accounts \cup {None}, project : Projects \cup {None}]
ASSUME BoundsAssumption == MaxActs \in Nat /\ MaxChanges \in Nat

-----------------------------------------------------------------------------
(* The server.                                                             *)

\* The principals the server may derive for an account and a project header:
\* without a header it prefers one of the account's projects, and the paths
\* of an identity also serve those who manage a closed project.
Principals(a, p, identityPath) ==
    LET available == members[a] \cap open
        managed == IF role[a] = "owner" THEN members[a] \ open ELSE {}
        recovers == p \in managed \/ (p = None /\ available = {} /\ managed # {})
    IN  IF identityPath /\ recovers
        THEN {[account |-> a, project |-> None, role |-> "none"]}
        ELSE {[account |-> a, project |-> q, role |-> role[a]] :
                q \in {q \in available : p \in {None, q}}}

Valid(c) == c.account # None /\ (c.bearer \/ cookie = c.account)

\* A POST with the cookie must carry the token of the session.
Posted == {"logout", "select", "close", "reopen"}
Verified(c) == c.kind \in Posted /\ ~c.bearer => c.verified

Identity(c) == c.kind \notin {"settings", "health"}

\* A lifecycle change needs an owner and the other state of the project.
Changeable(c) ==
    c.kind \in {"close", "reopen"} =>
        /\ role[c.account] = "owner" /\ c.target \in members[c.account]
        /\ c.kind = "close" <=> c.target \in open

Rest(c) == calls \ {c}

Refused(why) == [outcome |-> why, scope |-> None]

\* The principal of a request; a selection is answered with the selected one.
Answers(c) ==
    IF ~Valid(c) THEN {Refused("expired")}
    ELSE LET own == Principals(c.account, c.project, Identity(c))
             asked == IF c.kind = "select" THEN Principals(c.account, c.target, FALSE) ELSE own
         IN  IF ~Verified(c) \/ ~Changeable(c) \/ own = {} \/ asked = {}
             THEN {Refused("denied")}
             ELSE [outcome : {"ok"}, scope : asked]

\* A request reaches the server, or is lost on the way; so may the answer be.
Serve(c) ==
    /\ c.answer = None
    /\ \E a \in Answers(c) \cup {Refused("lost")} : \E reply \in {a, Refused("lost")} :
        /\ calls' = Rest(c) \cup {[c EXCEPT !.answer = reply]}
        /\ cookie' = IF c.kind = "logout" /\ a.outcome = "ok" THEN None ELSE cookie
        /\ open' = CASE c.kind = "close" /\ a.outcome = "ok" -> open \ {c.target}
                     [] c.kind = "reopen" /\ a.outcome = "ok" -> open \cup {c.target}
                     [] OTHER -> open
    /\ UNCHANGED <<members, role, changes, session, view, flags, acts>>

ChangeRole(a) ==
    /\ changes < MaxChanges
    /\ changes' = changes + 1
    /\ role' = [role EXCEPT ![a] = CHOOSE r \in Roles : r # role[a]]
    /\ UNCHANGED <<open, members, cookie, session, view, flags, acts, calls>>

RemoveMember(a, p) ==
    /\ changes < MaxChanges /\ p \in members[a]
    /\ changes' = changes + 1
    /\ members' = [members EXCEPT ![a] = @ \ {p}]
    /\ UNCHANGED <<open, role, cookie, session, view, flags, acts, calls>>

ExpireCookie ==
    /\ changes < MaxChanges /\ cookie # None
    /\ changes' = changes + 1
    /\ cookie' = None
    /\ UNCHANGED <<open, members, role, session, view, flags, acts, calls>>

-----------------------------------------------------------------------------
(* Requests, and the two ways the shell changes the session.               *)

Bearer == token # None
Credential == IF Bearer THEN token ELSE cookie

\* authHeaders: the headers are those of the moment of the call.  The handler of
\* the answer remembers the generation and the principal only where it compares
\* the answer with them.
Request(kind, a, bearer, p, g, who, target) ==
    [kind |-> kind, account |-> a, bearer |-> bearer,
     verified |-> kind \in Posted /\ csrf /\ ~bearer,
     project |-> p, target |-> target,
     generation |-> IF kind \in {"session", "load", "settings", "health"} THEN g ELSE None,
     closure |-> IF kind \in {"load", "close", "reopen"} THEN who ELSE None,
     answer |-> None]

Send(kind, target) ==
    calls' = calls \cup {Request(kind, Credential, Bearer, context, generation,
                                 principal, target)}

\* The cleanup of an effect: its answer will be ignored.
Uncancelled(rest) == {c \in rest : c.kind # "settings"}

\* A mutated form: the project of the requests stays.
AuthenticateOnly(next, rest) ==
    LET effect(kind) == Request(kind, Credential, Bearer, context, generation, next, None)
    IN  /\ principal' = next
        /\ settings' = None /\ shown' = None /\ fresh' = FALSE
        /\ signing' = FALSE /\ stranded' = FALSE
        /\ calls' = Uncancelled(rest) \cup
             (IF next.project = None THEN {} ELSE {effect("load"), effect("settings")})
        /\ UNCHANGED <<token, context, generation, health>>

\* handleAuthenticated, and the effects of the new principal.  The health is only
\* marked as not read yet.
Authenticate(next, rest) ==
    LET g == IF next.project # context THEN generation + 1 ELSE generation
        effect(kind) == Request(kind, Credential, Bearer, next.project, g, next, None)
    IN  /\ context' = next.project /\ generation' = g
        /\ principal' = next
        /\ settings' = None /\ shown' = None /\ fresh' = FALSE
        /\ signing' = FALSE /\ stranded' = FALSE
        /\ calls' = Uncancelled(rest) \cup
             (IF next.project = None THEN {} ELSE {effect("load"), effect("settings")})
        /\ UNCHANGED <<token, health>>

\* clearScopedData: back to the sign-in dialog.  The project stays selected.
ClearScopedData(rest) ==
    /\ token' = None /\ csrf' = FALSE /\ generation' = generation + 1
    /\ principal' = None /\ settings' = None /\ shown' = None /\ fresh' = FALSE
    /\ signing' = FALSE /\ stranded' = FALSE
    /\ calls' = Uncancelled(rest)
    /\ UNCHANGED <<context, health>>

Ignore(rest) ==
    /\ calls' = rest
    /\ UNCHANGED <<session, view, signing, stranded>>

-----------------------------------------------------------------------------
(* What the user does.                                                     *)

Act == acts < MaxActs /\ acts' = acts + 1

\* connectToken: the headers change before the principal is known.
Connect(a) ==
    /\ Act /\ ~signing
    /\ token' = a /\ csrf' = FALSE /\ generation' = generation + 1
    /\ signing' = TRUE
    /\ calls' = calls \cup {Request("connect", a, TRUE, context, generation + 1, None, None)}
    /\ UNCHANGED <<server, context, view, switching, stranded>>

SignOut ==
    /\ Act /\ principal # None
    /\ Send("logout", None)
    /\ UNCHANGED <<server, session, view, flags>>

ActivateProject(p) ==
    /\ Act /\ principal # None /\ ~switching
    /\ switching' = TRUE
    /\ Send("select", p)
    /\ UNCHANGED <<server, session, view, signing, stranded>>

\* The dialog of ProjectLifecycle offers an owner to deactivate an active project
\* and to activate an inactive one.
ChangeLifecycle(p) ==
    /\ Act /\ principal # None
    /\ principal.project = None \/ settings # None
    /\ role[principal.account] = "owner" /\ p \in members[principal.account]
    /\ Send(IF p \in open THEN "close" ELSE "reopen", p)
    /\ UNCHANGED <<server, session, view, flags>>

\* The page changes, or the user asks for the data again.
LoadData ==
    /\ Act /\ principal # None /\ principal.project # None
    /\ Send("load", None)
    /\ UNCHANGED <<server, session, view, flags>>

\* refreshTelemetry, a button of the Topbar.  (That it is disabled while a refresh is on
\* its way is left out; more refreshes only add behaviours.)
RefreshTelemetry ==
    /\ Act /\ principal # None /\ principal.project # None /\ settings # None
    /\ Send("health", None)
    /\ UNCHANGED <<server, session, view, flags>>

\* The settings are read again: a retry, or another project in the address.
ReloadSettings ==
    /\ Act /\ principal # None /\ principal.project # None
    /\ calls' = Uncancelled(calls) \cup
         {Request("settings", Credential, Bearer, context, generation, None, None)}
    /\ UNCHANGED <<server, session, view, flags>>

-----------------------------------------------------------------------------
(* Answers.                                                                *)

Take(c, kind) == c.kind = kind /\ c.answer # None
Succeeded(c) == c.answer.outcome = "ok"
Found(c) == c.answer.scope
Current(c) == c.generation = generation

\* The probe of the first render: a cookie session also brings its token.
SessionAnswer(c) ==
    /\ Take(c, "session")
    /\ IF Succeeded(c) /\ Current(c)
       THEN Authenticate(Found(c), Rest(c)) /\ csrf' = ~c.bearer
       ELSE Ignore(Rest(c))
    /\ UNCHANGED <<server, acts, switching>>

ConnectAnswer(c) ==
    /\ Take(c, "connect")
    /\ IF Succeeded(c) THEN Authenticate(Found(c), Rest(c)) /\ UNCHANGED csrf
       ELSE ClearScopedData(Rest(c))
    /\ UNCHANGED <<server, acts, switching>>

LogoutAnswer(c) ==
    /\ Take(c, "logout")
    /\ IF Succeeded(c) THEN ClearScopedData(Rest(c)) ELSE Ignore(Rest(c))
    /\ UNCHANGED <<server, acts, switching>>

SelectAnswer(c) ==
    /\ Take(c, "select")
    /\ IF Succeeded(c) THEN Authenticate(Found(c), Rest(c)) /\ UNCHANGED csrf
       ELSE Ignore(Rest(c))
    /\ switching' = FALSE
    /\ UNCHANGED <<server, acts>>

\* handleLifecycleChanged, up to its await: the open project was closed, or
\* none was open.
ChangeAnswer(c) ==
    LET who == c.closure
        leaves == /\ Succeeded(c)
                  /\ \/ who.project = None
                     \/ c.kind = "close" /\ who.project = c.target
    IN  /\ Take(c, "close") \/ Take(c, "reopen")
        /\ IF leaves
           THEN /\ context' = None
                /\ generation' = IF context # None THEN generation + 1 ELSE generation
                /\ calls' = Rest(c) \cup {Request("recover", Credential, Bearer, None,
                                                  generation', None, None)}
                /\ UNCHANGED <<token, csrf, view, signing, stranded>>
           ELSE Ignore(Rest(c))
        /\ UNCHANGED <<server, acts, switching>>

RecoverAnswer(c) ==
    /\ Take(c, "recover")
    /\ IF Succeeded(c) THEN Authenticate(Found(c), Rest(c)) /\ UNCHANGED csrf
       ELSE /\ calls' = Rest(c) /\ stranded' = TRUE
            /\ UNCHANGED <<session, view, signing>>
    /\ UNCHANGED <<server, acts, switching>>

\* The project the page data and the health of a load are read in.  Where the headers
\* name none, the server chooses one whenever it reads one of them.
ReadIn(c) == IF c.project # None THEN {c.project} ELSE Projects

\* Each of these requests fails on its own; what failed stays as it was.
ShowData(c) ==
    /\ \E q \in ReadIn(c) : shown' \in {shown, q}
    /\ \/ fresh' = TRUE /\ health' \in ReadIn(c)
       \/ UNCHANGED <<health, fresh>>
    /\ calls' = Rest(c)
    /\ UNCHANGED <<session, principal, settings, signing, stranded>>

\* A mutated form: the answer is not compared with the session.
LoadAnyAnswer(c) ==
    /\ Take(c, "load")
    /\ IF Succeeded(c) THEN ShowData(c) ELSE Ignore(Rest(c))
    /\ UNCHANGED <<server, acts, switching>>

\* loadData after its requests: the principal is looked at first, then whether the
\* session ended before the other requests were read.
LoadAnswer(c) ==
    LET who == c.closure IN
    /\ Take(c, "load")
    /\ \/ /\ ~Current(c) \/ c.answer.outcome = "lost"
          /\ Ignore(Rest(c))
       \/ /\ Current(c) /\ c.answer.outcome \in {"expired", "denied"}
          /\ ClearScopedData(Rest(c))
       \/ /\ Current(c) /\ Succeeded(c)
          /\ <<Found(c).account, Found(c).project>> # <<who.account, who.project>>
          /\ ClearScopedData(Rest(c))
       \/ /\ Current(c) /\ Succeeded(c)
          /\ <<Found(c).account, Found(c).project>> = <<who.account, who.project>>
          /\ Found(c).role # who.role
          /\ Authenticate(Found(c), Rest(c)) /\ UNCHANGED csrf
       \/ /\ Current(c) /\ Succeeded(c) /\ Found(c) = who
          /\ ~Valid(c)
          /\ ClearScopedData(Rest(c))
       \/ /\ Current(c) /\ Succeeded(c) /\ Found(c) = who
          /\ ShowData(c)
    /\ UNCHANGED <<server, acts, switching>>

\* refreshTelemetry after its request.
HealthAnswer(c) ==
    /\ Take(c, "health")
    /\ IF Succeeded(c) /\ Current(c)
       THEN /\ health' = Found(c).project /\ fresh' = TRUE
            /\ calls' = Rest(c)
            /\ UNCHANGED <<session, principal, settings, shown, signing, stranded>>
       ELSE Ignore(Rest(c))
    /\ UNCHANGED <<server, acts, switching>>

SettingsAnswer(c) ==
    /\ Take(c, "settings")
    /\ IF ~Current(c) \/ c.answer.outcome \in {"denied", "lost"} THEN Ignore(Rest(c))
       ELSE IF ~Succeeded(c) THEN ClearScopedData(Rest(c))
       ELSE /\ settings' = Found(c)
            /\ calls' = Rest(c)
            /\ UNCHANGED <<session, principal, shown, health, fresh, signing, stranded>>
    /\ UNCHANGED <<server, acts, switching>>

-----------------------------------------------------------------------------
Init ==
    /\ open = Projects
    /\ members = Membership
    /\ role = [a \in Accounts |-> IF a \in Owners THEN "owner" ELSE "member"]
    /\ changes = 0
    /\ \E s \in Starts : cookie = s.cookie /\ context = s.project
    /\ token = None /\ csrf = FALSE /\ generation = 0
    /\ principal = None /\ settings = None /\ shown = None
    /\ health = None /\ fresh = FALSE
    /\ acts = 0
    /\ switching = FALSE /\ signing = FALSE /\ stranded = FALSE
    /\ calls = {Request("session", cookie, FALSE, context, 0, None, None)}

User ==
    \/ \E a \in Accounts : Connect(a)
    \/ SignOut
    \/ \E p \in Projects : ActivateProject(p)
    \/ \E p \in Projects : ChangeLifecycle(p)
    \/ LoadData
    \/ RefreshTelemetry
    \/ ReloadSettings

Administrators ==
    \/ \E a \in Accounts : ChangeRole(a)
    \/ \E a \in Accounts, p \in Projects : RemoveMember(a, p)
    \/ ExpireCookie

Handle(c) ==
    \/ SessionAnswer(c) \/ ConnectAnswer(c) \/ LogoutAnswer(c) \/ SelectAnswer(c)
    \/ ChangeAnswer(c) \/ RecoverAnswer(c) \/ LoadAnswer(c) \/ SettingsAnswer(c)
    \/ HealthAnswer(c)

Next ==
    \/ User
    \/ Administrators
    \/ \E c \in calls : Serve(c) \/ Handle(c)

Spec == Init /\ [][Next]_vars

-----------------------------------------------------------------------------
(* Properties.                                                             *)

\* The values each variable takes.
TypeOK ==
    /\ open \subseteq Projects
    /\ members \in [Accounts -> SUBSET Projects]
    /\ role \in [Accounts -> Roles]
    /\ changes \in 0 .. MaxChanges
    /\ cookie \in Accounts \cup {None} /\ token \in Accounts \cup {None}
    /\ csrf \in BOOLEAN /\ generation \in Nat /\ acts \in 0 .. MaxActs
    /\ context \in Projects \cup {None}
    /\ principal \in Scope \cup {None}
    /\ settings \in Scope \cup {None} /\ shown \in Projects \cup {None}
    /\ health \in Projects \cup {None} /\ fresh \in BOOLEAN
    /\ switching \in BOOLEAN /\ signing \in BOOLEAN /\ stranded \in BOOLEAN
    /\ calls \subseteq Call

\* What counts as current was read in the project of the principal on display: the lists,
\* and the health once it has a time of its own.  No answer of another session or
\* project gets there after a switch, a sign-in or a lifecycle change, in whatever
\* order the answers come (the generation that loadData and refreshTelemetry compare,
\* and the clearing of handleAuthenticated).  Left out are the reload of the
\* principal after a lifecycle change, when the requests name no project, and the values
\* of a health without a time, which the Topbar shows although they may be of the
\* project before.
ShownOfProject ==
    principal # None /\ context # None =>
        /\ shown \in {None, principal.project}
        /\ fresh => health = principal.project

\* When every answer was handled, the requests name the project of the principal
\* (projectContext of services/api.ts agrees with App.tsx), and the settings of
\* the interface are those of that project.  The exception is a lifecycle change
\* whose reload of the principal failed: the page says so and offers to retry.
QuietIsConsistent ==
    calls = {} /\ ~stranded /\ principal # None =>
        /\ context = principal.project
        /\ settings # None => settings.project = principal.project
=============================================================================
