--------------------------- MODULE WorkspaceProofs ---------------------------
(***************************************************************************)
(* Theorems about Workspace for any accounts, projects and memberships: no *)
(* late answer of another project counts as current, and once every        *)
(* request was answered the requests name the project of the principal.    *)
(***************************************************************************)
EXTENDS Workspace, TLAPS

\* What a call of each kind carries, and what its answer says.
Typed(c) ==
    /\ c \in Call
    /\ c.kind \in {"session", "load", "settings", "health"} => c.generation \in Nat
    /\ c.kind \in {"load", "close", "reopen"} => c.closure \in Scope
    /\ c.kind \in {"select", "close", "reopen"} => c.target \in Projects
    /\ ~Identity(c) /\ c.project # None /\ c.answer # None /\ c.answer.outcome = "ok" =>
         c.answer.scope.project = c.project

\* A call and the session: generation g, project x of the requests, principal p.
\* What was asked for in the current generation was asked for in the project of the requests.
Fits(c, g, x, p) ==
    /\ c.kind \in {"session", "load", "settings", "health"} => c.generation <= g
    /\ c.kind \in {"load", "settings", "health"} /\ c.generation = g => c.project = x
    /\ c.kind = "settings" => p # None /\ p.project # None

Good(cs, g, x, p) == \A c \in cs : Typed(c) /\ Fits(c, g, x, p)

\* The requests name another project than the page only until the principal was
\* read again after a lifecycle change.
Agreed ==
    principal # None =>
        /\ context \in {principal.project, None}
        /\ context # principal.project /\ ~stranded => \E c \in calls : c.kind = "recover"

SettingsOfProject ==
    settings # None =>
        /\ principal # None /\ principal.project # None
        /\ context = principal.project => settings.project = principal.project

IInv ==
    /\ TypeOK
    /\ Good(calls, generation, context, principal)
    /\ Agreed
    /\ SettingsOfProject
    /\ ShownOfProject

\* The parts of the type invariant: what an answer may change, and the others.
ShellTyped ==
    /\ token \in Accounts \cup {None} /\ generation \in Nat
    /\ context \in Projects \cup {None}
    /\ principal \in Scope \cup {None}
    /\ settings \in Scope \cup {None} /\ shown \in Projects \cup {None}
    /\ health \in Projects \cup {None} /\ fresh \in BOOLEAN
    /\ signing \in BOOLEAN /\ stranded \in BOOLEAN

ServerTyped ==
    /\ open \subseteq Projects
    /\ members \in [Accounts -> SUBSET Projects]
    /\ role \in [Accounts -> Roles]
    /\ changes \in 0 .. MaxChanges
    /\ cookie \in Accounts \cup {None}

\* What an answer has to keep.
Shell ==
    /\ ShellTyped
    /\ Good(calls, generation, context, principal)
    /\ Agreed
    /\ SettingsOfProject
    /\ ShownOfProject
-----------------------------------------------------------------------------
LEMMA Requested ==
    ASSUME NEW kind \in {"session", "connect", "logout", "select", "close", "reopen",
                         "recover", "load", "settings", "health"},
           NEW a \in Accounts \cup {None}, NEW bearer \in BOOLEAN, NEW p \in Projects \cup {None},
           NEW g \in Nat, NEW who \in Scope \cup {None}, NEW target \in Projects \cup {None},
           csrf \in BOOLEAN,
           kind \in {"load", "close", "reopen"} => who \in Scope,
           kind \in {"select", "close", "reopen"} => target \in Projects
    PROVE  LET d == Request(kind, a, bearer, p, g, who, target)
           IN  /\ Typed(d) /\ d.kind = kind /\ d.project = p
               /\ kind \in {"session", "load", "settings", "health"} => d.generation = g
<1> DEFINE d == Request(kind, a, bearer, p, g, who, target)
<1>1. /\ d.kind = kind /\ d.project = p /\ d.target = target /\ d.answer = None
      /\ kind \in {"session", "load", "settings", "health"} => d.generation = g
      /\ kind \in {"load", "close", "reopen"} => d.closure = who
    BY DEF Request
<1>2. d \in Call
    BY DEF Request, Call, Posted
<1> QED
    BY <1>1, <1>2 DEF Typed

LEMMA FoundScope ==
    ASSUME NEW c, Typed(c), c.answer # None, Succeeded(c)
    PROVE  Found(c) \in Scope
<1>1. c.answer \in Answer
    BY DEF Typed, Call
<1> QED
    BY <1>1 DEF Answer, Succeeded, Found

LEMMA CredentialType ==
    ASSUME TypeOK
    PROVE  Credential \in Accounts \cup {None} /\ Bearer \in BOOLEAN
BY DEF TypeOK, Credential, Bearer

\* A session of its own generation outdates what was asked for in another one.
LEMMA NewGeneration ==
    ASSUME NEW cs, NEW g \in Nat, NEW x, NEW p, Good(cs, g, x, p), NEW y, NEW q
    PROVE  Good({c \in cs : c.kind # "settings"}, g + 1, y, q)
BY DEF Good, Fits, Typed

\* The initial state.
LEMMA InitIInv == Init => IInv
<1> SUFFICES ASSUME Init PROVE IInv
    OBVIOUS
<1>1. cookie \in Accounts \cup {None} /\ context \in Projects \cup {None} /\ csrf = FALSE
    BY StartAssumption DEF Init
<1>2. PICK d : calls = {d} /\ d = Request("session", cookie, FALSE, context, 0, None, None)
    BY Zenon DEF Init
<1>3. Typed(d) /\ Fits(d, generation, context, principal)
    <2>1. d.kind = "session" /\ d.generation = 0 /\ d.answer = None
        BY <1>2 DEF Request
    <2>2. d \in Call
        BY <1>1, <1>2 DEF Request, Call, Posted
    <2>3. generation = 0
        BY DEF Init
    <2> QED
        BY <2>1, <2>2, <2>3 DEF Typed, Fits
<1>4. role \in [Accounts -> Roles]
    BY DEF Init, Roles
<1>5. TypeOK
    <2>1. changes \in 0 .. MaxChanges /\ acts \in 0 .. MaxActs
        BY BoundsAssumption DEF Init
    <2>2. calls \subseteq Call
        BY <1>2, <1>3 DEF Typed
    <2>3. /\ open \subseteq Projects /\ members \in [Accounts -> SUBSET Projects]
          /\ csrf \in BOOLEAN /\ generation \in Nat /\ switching \in BOOLEAN /\ signing \in BOOLEAN
          /\ stranded \in BOOLEAN
        BY StartAssumption DEF Init
    <2>4. /\ token = None /\ principal = None /\ settings = None /\ shown = None
          /\ health = None /\ fresh \in BOOLEAN
        BY DEF Init
    <2> QED
        BY <1>1, <1>4, <2>1, <2>2, <2>3, <2>4 DEF TypeOK
<1> QED
    BY <1>2, <1>3, <1>5 DEF Init, IInv, Good, Agreed, SettingsOfProject, ShownOfProject
-----------------------------------------------------------------------------
(* How the shell changes the session.                                      *)

LEMMA AuthenticateGood ==
    ASSUME IInv, NEW next \in Scope, NEW rest, rest \subseteq calls, Authenticate(next, rest)
    PROVE  Shell'
<1> DEFINE g == IF next.project # context THEN generation + 1 ELSE generation
           effect(kind) == Request(kind, Credential, Bearer, next.project, g, next, None)
<1>1. next.project \in Projects \cup {None} /\ next # None
    BY NoneAssumption DEF Scope
<1>2. generation \in Nat /\ g \in Nat /\ csrf \in BOOLEAN /\ Good(calls, generation, context, principal)
    BY DEF IInv, TypeOK
<1>3. ASSUME NEW c \in Uncancelled(rest) PROVE Typed(c) /\ Fits(c, g, next.project, next)
    <2>1. c \in calls /\ c.kind # "settings" /\ Typed(c) /\ Fits(c, generation, context, principal)
        BY <1>2, <1>3 DEF Uncancelled, Good
    <2>2. CASE next.project = context
        BY <2>1, <2>2 DEF Fits
    <2>3. CASE next.project # context
        BY <1>2, <2>1, <2>3 DEF Fits, Typed
    <2> QED
        BY <2>1, <2>2, <2>3
<1>4. ASSUME NEW kind \in {"load", "settings"}, next.project # None
      PROVE  Typed(effect(kind)) /\ Fits(effect(kind), g, next.project, next)
    <2>1. Bearer \in BOOLEAN /\ Credential \in Accounts \cup {None}
        BY CredentialType DEF IInv
    <2>2. next \in Scope \cup {None} /\ None \in Projects \cup {None}
        OBVIOUS
    <2>3. /\ Typed(effect(kind)) /\ effect(kind).kind = kind /\ effect(kind).project = next.project
          /\ effect(kind).generation = g
        BY <1>1, <1>2, <1>4, <2>1, <2>2, Requested
    <2> QED
        BY <1>1, <1>2, <1>4, <2>3 DEF Fits
<1>5. /\ generation' = g /\ context' = next.project /\ principal' = next
      /\ settings' = None /\ shown' = None /\ fresh' = FALSE /\ health' = health
      /\ calls' = Uncancelled(rest) \cup
           (IF next.project = None THEN {} ELSE {effect("load"), effect("settings")})
    BY Zenon DEF Authenticate
<1>6. Good(calls', g, next.project, next)
    BY <1>3, <1>4, <1>5 DEF Good
<1>7. ShellTyped'
    BY <1>1, <1>2, <1>5 DEF Authenticate, ShellTyped, IInv, TypeOK
<1> QED
    BY <1>2, <1>5, <1>6, <1>7 DEF Shell, Agreed, SettingsOfProject, ShownOfProject

LEMMA ClearGood ==
    ASSUME IInv, NEW rest, rest \subseteq calls, ClearScopedData(rest)
    PROVE  Shell'
<1>1. Good(rest, generation, context, principal) /\ generation \in Nat
    BY DEF IInv, Good, TypeOK
<1>2. Good(calls', generation', context', principal')
    BY <1>1, NewGeneration DEF ClearScopedData, Uncancelled
<1>3. ShellTyped'
    <2>1. /\ token' = None /\ generation' = generation + 1 /\ context' = context
          /\ principal' = None /\ settings' = None /\ shown' = None /\ fresh' = FALSE
          /\ health' = health /\ signing' = FALSE /\ stranded' = FALSE
        BY DEF ClearScopedData
    <2>2. context \in Projects \cup {None}
        BY DEF IInv, TypeOK
    <2>3. generation' \in Nat
        BY <1>1, <2>1
    <2>4. signing' \in BOOLEAN /\ stranded' \in BOOLEAN /\ fresh' \in BOOLEAN
          /\ health' \in Projects \cup {None}
        BY <2>1 DEF IInv, TypeOK
    <2> QED
        BY <2>1, <2>2, <2>3, <2>4 DEF ShellTyped
<1> QED
    BY <1>2, <1>3 DEF ClearScopedData, Shell, Agreed, SettingsOfProject, ShownOfProject

\* A step that leaves the page and the session as they are.
LEMMA Unmoved ==
    ASSUME IInv, UNCHANGED <<context, generation, view, stranded>>,
           ShellTyped', Good(calls', generation, context, principal),
           \A c \in calls : c.kind = "recover" => \E d \in calls' : d.kind = "recover"
    PROVE  Shell'
<1>1. /\ Agreed /\ SettingsOfProject /\ ShownOfProject
      /\ context' = context /\ generation' = generation /\ stranded' = stranded
      /\ principal' = principal /\ settings' = settings /\ shown' = shown
      /\ health' = health /\ fresh' = fresh
    BY DEF IInv, view
<1>2. Good(calls', generation', context', principal')
    BY <1>1
<1>3. Agreed'
    BY <1>1 DEF Agreed
<1>4. SettingsOfProject' /\ ShownOfProject'
    BY <1>1 DEF SettingsOfProject, ShownOfProject
<1> QED
    BY <1>2, <1>3, <1>4 DEF Shell

\* An answer that changes nothing on the page.
LEMMA IgnoreGood ==
    ASSUME IInv, NEW c \in calls, Ignore(Rest(c)), c.kind # "recover"
    PROVE  Shell'
<1>1. \A d \in calls : d.kind = "recover" => d \in calls'
    BY DEF Ignore, Rest
<1>2. Good(calls', generation, context, principal)
    BY DEF Ignore, Rest, IInv, Good
<1>3. ShellTyped' /\ UNCHANGED <<context, generation, view, stranded>>
    BY DEF Ignore, session, view, ShellTyped, IInv, TypeOK
<1> QED
    BY <1>1, <1>2, <1>3, Unmoved

\* A request with the headers of the moment.
LEMMA SendGood ==
    ASSUME IInv, NEW kind \in {"logout", "select", "close", "reopen", "load", "health"},
           NEW target \in Projects \cup {None},
           kind \in {"select", "close", "reopen"} => target \in Projects,
           principal # None,
           Send(kind, target), UNCHANGED <<session, view, stranded, signing>>
    PROVE  Shell'
<1> DEFINE d == Request(kind, Credential, Bearer, context, generation, principal, target)
<1>1. /\ Good(calls, generation, context, principal) /\ Agreed /\ generation \in Nat
      /\ csrf \in BOOLEAN /\ context \in Projects \cup {None} /\ principal \in Scope
    BY DEF IInv, TypeOK
<1>2. Credential \in Accounts \cup {None} /\ Bearer \in BOOLEAN
    BY CredentialType DEF IInv
<1>3. /\ Typed(d) /\ d.kind = kind /\ d.project = context
      /\ kind \in {"load", "health"} => d.generation = generation
    <2>1. /\ d.kind = kind /\ d.project = context /\ d.target = target /\ d.answer = None
          /\ kind \in {"load", "health"} => d.generation = generation
          /\ kind \in {"load", "close", "reopen"} => d.closure = principal
        BY DEF Request
    <2>2. d \in Call
        BY <1>1, <1>2 DEF Request, Call, Posted
    <2> QED
        BY <1>1, <2>1, <2>2 DEF Typed
<1>4. Fits(d, generation, context, principal)
    BY <1>1, <1>3 DEF Fits, Agreed
<1>5. calls' = calls \cup {d}
    BY DEF Send
<1>6. Good(calls', generation, context, principal)
    BY <1>1, <1>3, <1>4, <1>5 DEF Good
<1>7. ShellTyped' /\ UNCHANGED <<context, generation, view, stranded>>
    BY DEF session, view, ShellTyped, IInv, TypeOK
<1> QED
    BY <1>5, <1>6, <1>7, Unmoved

LEMMA Types ==
    ASSUME ShellTyped', ServerTyped', csrf' \in BOOLEAN, acts' \in 0 .. MaxActs,
           switching' \in BOOLEAN, Good(calls', generation', context', principal')
    PROVE  TypeOK'
<1>1. calls' \subseteq Call
    BY DEF Good, Typed
<1> QED
    BY <1>1 DEF ShellTyped, ServerTyped, TypeOK
-----------------------------------------------------------------------------
(* The server and the administrators.                                      *)

\* What the server finds is a scope, and the project the request names.
LEMMA PrincipalType ==
    ASSUME TypeOK, NEW a \in Accounts, NEW p \in Projects \cup {None}, NEW identityPath \in BOOLEAN,
           NEW s \in Principals(a, p, identityPath)
    PROVE  s \in Scope /\ (~identityPath /\ p # None => s.project = p)
BY DEF TypeOK, Principals, Scope, Roles

LEMMA AnswerType ==
    ASSUME TypeOK, NEW c, Typed(c), NEW a \in Answers(c)
    PROVE  /\ a \in Answer
           /\ ~Identity(c) /\ c.project # None /\ a.outcome = "ok" =>
                a.scope.project = c.project
<1>1. CASE a \in {Refused("expired"), Refused("denied")}
    BY <1>1 DEF Refused, Answer
<1>2. CASE a \notin {Refused("expired"), Refused("denied")}
    <2> DEFINE own == Principals(c.account, c.project, Identity(c))
               asked == IF c.kind = "select" THEN Principals(c.account, c.target, FALSE) ELSE own
    <2>1. a \in [outcome : {"ok"}, scope : asked] /\ Valid(c)
        BY <1>2, Zenon DEF Answers
    <2>2. a = [outcome |-> "ok", scope |-> a.scope] /\ a.scope \in asked
        BY <2>1
    <2>3. /\ c.account \in Accounts /\ c.project \in Projects \cup {None}
          /\ c.target \in Projects \cup {None}
        BY <2>1 DEF Typed, Call, Valid
    <2>4. Identity(c) \in BOOLEAN /\ (~Identity(c) => c.kind # "select")
        BY DEF Identity
    <2>5. a.scope \in Scope
        <3>1. CASE c.kind = "select"
            BY <2>2, <2>3, <3>1, PrincipalType DEF Typed
        <3>2. CASE c.kind # "select"
            BY <2>2, <2>3, <2>4, <3>2, PrincipalType
        <3> QED
            BY <3>1, <3>2
    <2>6. ~Identity(c) /\ c.project # None => a.scope.project = c.project
        BY <2>2, <2>3, <2>4, PrincipalType
    <2> QED
        BY <2>2, <2>5, <2>6 DEF Answer
<1> QED
    BY <1>1, <1>2

LEMMA ServeStep ==
    ASSUME IInv, NEW c \in calls, Serve(c)
    PROVE  Shell' /\ TypeOK'
<1>1. TypeOK /\ Good(calls, generation, context, principal) /\ Typed(c)
      /\ Fits(c, generation, context, principal) /\ c \in Call
    BY DEF IInv, Good, Typed
<1>2. PICK a \in Answers(c) \cup {Refused("lost")} : \E reply \in {a, Refused("lost")} :
        /\ calls' = Rest(c) \cup {[c EXCEPT !.answer = reply]}
        /\ cookie' = IF c.kind = "logout" /\ a.outcome = "ok" THEN None ELSE cookie
        /\ open' = CASE c.kind = "close" /\ a.outcome = "ok" -> open \ {c.target}
                     [] c.kind = "reopen" /\ a.outcome = "ok" -> open \cup {c.target}
                     [] OTHER -> open
    BY Zenon DEF Serve
<1>3. PICK reply \in {a, Refused("lost")} : calls' = Rest(c) \cup {[c EXCEPT !.answer = reply]}
    BY <1>2
<1>4. /\ reply \in Answer
      /\ ~Identity(c) /\ c.project # None /\ reply.outcome = "ok" =>
           reply.scope.project = c.project
    <2>1. Refused("lost") \in Answer /\ Refused("lost").outcome # "ok"
        BY DEF Refused, Answer
    <2>2. CASE reply \in Answers(c)
        BY <1>1, <2>2, AnswerType
    <2> QED
        BY <1>2, <1>3, <2>1, <2>2
<1> DEFINE d == [c EXCEPT !.answer = reply]
<1>5. /\ d \in Call /\ d.answer = reply /\ d.kind = c.kind /\ d.project = c.project
      /\ d.generation = c.generation /\ d.closure = c.closure /\ d.target = c.target
    BY <1>1, <1>4 DEF Call
<1>6. Typed(d) /\ Fits(d, generation, context, principal)
    <2>1. Typed(d)
        BY <1>1, <1>4, <1>5 DEF Typed, Identity
    <2>2. Fits(d, generation, context, principal)
        BY <1>1, <1>5 DEF Fits
    <2> QED
        BY <2>1, <2>2
<1>7. Good(calls', generation, context, principal)
    BY <1>1, <1>3, <1>6 DEF Good, Rest
<1>8. \A e \in calls : e.kind = "recover" => \E f \in calls' : f.kind = "recover"
    BY <1>3, <1>5 DEF Rest
<1>9. ShellTyped' /\ UNCHANGED <<context, generation, view, stranded>>
    BY <1>1 DEF Serve, session, view, flags, ShellTyped, TypeOK
<1>10. Shell'
    BY <1>7, <1>8, <1>9, Unmoved
<1>11. open' \subseteq Projects /\ cookie' \in Accounts \cup {None}
    <2>1. c.kind \in {"close", "reopen"} => c.target \in Projects
        BY <1>1 DEF Typed
    <2> QED
        BY <1>1, <1>2, <2>1 DEF TypeOK
<1>12. /\ members' = members /\ role' = role /\ changes' = changes /\ csrf' = csrf
       /\ acts' = acts /\ switching' = switching
    BY DEF Serve, session, flags
<1>13. ServerTyped'
    BY <1>1, <1>11, <1>12 DEF ServerTyped, TypeOK
<1>14. csrf' \in BOOLEAN /\ acts' \in 0 .. MaxActs /\ switching' \in BOOLEAN
    BY <1>1, <1>12 DEF TypeOK
<1> QED
    BY <1>10, <1>13, <1>14, Types DEF Shell

\* A step of the server alone.
LEMMA ServerStep ==
    ASSUME IInv, ServerTyped', UNCHANGED <<session, view, flags, acts, calls>>
    PROVE  Shell' /\ TypeOK'
<1>1. TypeOK /\ Good(calls, generation, context, principal)
    BY DEF IInv
<1>2. /\ calls' = calls /\ csrf' = csrf /\ acts' = acts /\ switching' = switching
    BY DEF session, flags
<1>3. Good(calls', generation, context, principal)
    BY <1>1, <1>2
<1>4. ShellTyped' /\ UNCHANGED <<context, generation, view, stranded>>
    BY <1>1 DEF session, view, flags, ShellTyped, TypeOK
<1>5. Shell'
    BY <1>2, <1>3, <1>4, Unmoved
<1>6. csrf' \in BOOLEAN /\ acts' \in 0 .. MaxActs /\ switching' \in BOOLEAN
    BY <1>1, <1>2 DEF TypeOK
<1> QED
    BY <1>5, <1>6, Types DEF Shell

LEMMA AdministratorsStep ==
    ASSUME IInv, Administrators
    PROVE  Shell' /\ TypeOK'
<1>1. TypeOK /\ MaxChanges \in Nat
    BY BoundsAssumption DEF IInv
<1>2. ASSUME NEW a \in Accounts, ChangeRole(a) PROVE ServerTyped'
    <2>1. (CHOOSE r \in Roles : r # role[a]) \in Roles
        BY DEF Roles
    <2> QED
        BY <1>1, <1>2, <2>1 DEF ChangeRole, ServerTyped, TypeOK
<1>3. ASSUME NEW a \in Accounts, NEW p \in Projects, RemoveMember(a, p) PROVE ServerTyped'
    BY <1>1, <1>3 DEF RemoveMember, ServerTyped, TypeOK
<1>4. ASSUME ExpireCookie PROVE ServerTyped'
    BY <1>1, <1>4 DEF ExpireCookie, ServerTyped, TypeOK
<1>5. ServerTyped' /\ UNCHANGED <<session, view, flags, acts, calls>>
    BY <1>2, <1>3, <1>4 DEF Administrators, ChangeRole, RemoveMember, ExpireCookie
<1> QED
    BY <1>5, ServerStep
-----------------------------------------------------------------------------
(* The user.                                                               *)

\* What the steps of the page leave alone.
LEMMA PageTypes ==
    ASSUME IInv, Shell', UNCHANGED server, csrf' \in BOOLEAN, acts' \in 0 .. MaxActs,
           switching' \in BOOLEAN
    PROVE  TypeOK'
<1>1. ServerTyped'
    BY DEF server, ServerTyped, IInv, TypeOK
<1> QED
    BY <1>1, Types DEF Shell

LEMMA ActType ==
    ASSUME IInv, Act
    PROVE  acts' \in 0 .. MaxActs
BY BoundsAssumption DEF IInv, TypeOK, Act

LEMMA ConnectStep ==
    ASSUME IInv, NEW a \in Accounts, Connect(a)
    PROVE  Shell' /\ TypeOK'
<1> DEFINE d == Request("connect", a, TRUE, context, generation + 1, None, None)
<1>1. TypeOK /\ Good(calls, generation, context, principal) /\ generation \in Nat
    BY DEF IInv, TypeOK
<1>2. /\ calls' = calls \cup {d} /\ generation' = generation + 1 /\ context' = context
      /\ principal' = principal /\ settings' = settings /\ shown' = shown
      /\ health' = health /\ fresh' = fresh
      /\ stranded' = stranded /\ signing' = TRUE /\ token' = a /\ csrf' = FALSE
      /\ switching' = switching
    BY DEF Connect, view
<1>3. d.kind = "connect" /\ d \in Call
    BY <1>1 DEF Request, Call, Posted, TypeOK
<1>4. Typed(d) /\ Fits(d, generation + 1, context, principal)
    BY <1>3 DEF Typed, Fits, Identity
<1>5. Good(calls', generation', context', principal')
    <2>1. ASSUME NEW c \in calls PROVE Typed(c) /\ Fits(c, generation + 1, context, principal)
        <3>1. Typed(c) /\ Fits(c, generation, context, principal)
            BY <1>1, <2>1 DEF Good
        <3> QED
            BY <1>1, <3>1 DEF Fits, Typed
    <2>2. Good(calls', generation + 1, context, principal)
        BY <1>2, <1>4, <2>1 DEF Good
    <2> QED
        BY <1>2, <2>2
<1>6. /\ signing' \in BOOLEAN /\ csrf' \in BOOLEAN
    BY <1>2
<1>7. ShellTyped' /\ switching' \in BOOLEAN
    BY <1>1, <1>2, <1>6 DEF ShellTyped, TypeOK
<1>8. Agreed'
    BY <1>2 DEF IInv, Agreed
<1>9. SettingsOfProject' /\ ShownOfProject'
    BY <1>2 DEF IInv, SettingsOfProject, ShownOfProject
<1>10. Shell'
    BY <1>5, <1>7, <1>8, <1>9 DEF Shell
<1>11. acts' \in 0 .. MaxActs /\ UNCHANGED server
    BY ActType DEF Connect
<1> QED
    BY <1>6, <1>7, <1>10, <1>11, PageTypes

LEMMA SignOutStep ==
    ASSUME IInv, SignOut
    PROVE  Shell' /\ TypeOK'
<1>1. UNCHANGED <<session, view, stranded, signing, server, csrf, switching>> /\ Act
      /\ principal # None /\ Send("logout", None)
    BY DEF SignOut, flags, session
<1>2. Shell'
    BY <1>1, SendGood
<1>3. csrf' \in BOOLEAN /\ switching' \in BOOLEAN /\ acts' \in 0 .. MaxActs
    BY <1>1, ActType DEF IInv, TypeOK
<1> QED
    BY <1>1, <1>2, <1>3, PageTypes

LEMMA ActivateStep ==
    ASSUME IInv, NEW p \in Projects, ActivateProject(p)
    PROVE  Shell' /\ TypeOK'
<1>1. UNCHANGED <<session, view, stranded, signing, server, csrf>> /\ Act
      /\ principal # None /\ Send("select", p) /\ switching' = TRUE
    BY DEF ActivateProject, session
<1>2. Shell'
    BY <1>1, SendGood
<1>3. csrf' \in BOOLEAN /\ switching' \in BOOLEAN /\ acts' \in 0 .. MaxActs
    BY <1>1, ActType DEF IInv, TypeOK
<1> QED
    BY <1>1, <1>2, <1>3, PageTypes

LEMMA ChangeLifecycleStep ==
    ASSUME IInv, NEW p \in Projects, ChangeLifecycle(p)
    PROVE  Shell' /\ TypeOK'
<1>1. UNCHANGED <<session, view, stranded, signing, server, csrf, switching>> /\ Act
      /\ principal # None /\ (Send("close", p) \/ Send("reopen", p))
    BY DEF ChangeLifecycle, flags, session
<1>2. Shell'
    BY <1>1, SendGood
<1>3. csrf' \in BOOLEAN /\ switching' \in BOOLEAN /\ acts' \in 0 .. MaxActs
    BY <1>1, ActType DEF IInv, TypeOK
<1> QED
    BY <1>1, <1>2, <1>3, PageTypes

LEMMA LoadDataStep ==
    ASSUME IInv, LoadData
    PROVE  Shell' /\ TypeOK'
<1>1. UNCHANGED <<session, view, stranded, signing, server, csrf, switching>> /\ Act
      /\ principal # None /\ principal.project # None /\ Send("load", None)
    BY DEF LoadData, flags, session
<1>2. Shell'
    BY <1>1, SendGood
<1>3. csrf' \in BOOLEAN /\ switching' \in BOOLEAN /\ acts' \in 0 .. MaxActs
    BY <1>1, ActType DEF IInv, TypeOK
<1> QED
    BY <1>1, <1>2, <1>3, PageTypes

LEMMA RefreshTelemetryStep ==
    ASSUME IInv, RefreshTelemetry
    PROVE  Shell' /\ TypeOK'
<1>1. UNCHANGED <<session, view, stranded, signing, server, csrf, switching>> /\ Act
      /\ principal # None /\ Send("health", None)
    BY DEF RefreshTelemetry, flags, session
<1>2. Shell'
    BY <1>1, SendGood
<1>3. csrf' \in BOOLEAN /\ switching' \in BOOLEAN /\ acts' \in 0 .. MaxActs
    BY <1>1, ActType DEF IInv, TypeOK
<1> QED
    BY <1>1, <1>2, <1>3, PageTypes

LEMMA ReloadSettingsStep ==
    ASSUME IInv, ReloadSettings
    PROVE  Shell' /\ TypeOK'
<1> DEFINE d == Request("settings", Credential, Bearer, context, generation, None, None)
<1>1. TypeOK /\ Good(calls, generation, context, principal) /\ generation \in Nat
    BY DEF IInv, TypeOK
<1>2. UNCHANGED <<session, view, stranded, signing, server, csrf, switching>> /\ Act
      /\ principal # None /\ principal.project # None
      /\ calls' = Uncancelled(calls) \cup {d}
    BY DEF ReloadSettings, flags, session
<1>3. Credential \in Accounts \cup {None} /\ Bearer \in BOOLEAN
    BY <1>1, CredentialType
<1>4. /\ d.kind = "settings" /\ d.generation = generation /\ d.project = context
      /\ d.answer = None
    BY DEF Request
<1>5. d \in Call
    BY <1>1, <1>3 DEF Request, Call, Posted, TypeOK
<1>6. Typed(d) /\ Fits(d, generation, context, principal)
    BY <1>1, <1>2, <1>4, <1>5 DEF Typed, Fits
<1>7. Good(calls', generation, context, principal)
    BY <1>1, <1>2, <1>6 DEF Good, Uncancelled
<1>8. ShellTyped' /\ UNCHANGED <<context, generation, view, stranded>>
    BY <1>1, <1>2 DEF session, view, ShellTyped, TypeOK
<1>9. \A e \in calls : e.kind = "recover" => e \in calls'
    BY <1>2 DEF Uncancelled
<1>10. Shell'
    BY <1>7, <1>8, <1>9, Unmoved
<1>11. csrf' \in BOOLEAN /\ switching' \in BOOLEAN /\ acts' \in 0 .. MaxActs
    BY <1>1, <1>2, ActType DEF TypeOK
<1> QED
    BY <1>2, <1>10, <1>11, PageTypes
-----------------------------------------------------------------------------
(* The answers.                                                            *)

LEMMA SessionAnswerStep ==
    ASSUME IInv, NEW c \in calls, SessionAnswer(c)
    PROVE  Shell' /\ TypeOK'
<1>1. TypeOK /\ Typed(c) /\ c \in Call
    BY DEF IInv, Good, Typed
<1>2. UNCHANGED <<server, acts, switching>> /\ c.kind = "session" /\ c.answer # None
    BY DEF SessionAnswer, Take
<1>3. CASE Succeeded(c) /\ Current(c)
    <2>1. Authenticate(Found(c), Rest(c)) /\ csrf' = ~c.bearer
        BY <1>3 DEF SessionAnswer
    <2>2. Found(c) \in Scope /\ Rest(c) \subseteq calls
        BY <1>1, <1>2, <1>3, FoundScope DEF Rest
    <2>3. Shell'
        BY <2>1, <2>2, AuthenticateGood
    <2>4. csrf' \in BOOLEAN
        BY <2>1
    <2> QED
        BY <1>1, <1>2, <2>3, <2>4, PageTypes DEF TypeOK
<1>4. CASE ~(Succeeded(c) /\ Current(c))
    <2>1. Ignore(Rest(c)) /\ csrf' = csrf
        BY <1>4 DEF SessionAnswer, Ignore, session
    <2>2. Shell'
        BY <1>2, <2>1, IgnoreGood
    <2> QED
        BY <1>1, <1>2, <2>1, <2>2, PageTypes DEF TypeOK
<1> QED
    BY <1>3, <1>4

\* The answers that either start a session, end it or change nothing.
LEMMA SettledStep ==
    ASSUME IInv, NEW c \in calls, c.answer # None, UNCHANGED <<server, acts>>,
           switching' \in BOOLEAN,
           \/ Succeeded(c) /\ Authenticate(Found(c), Rest(c)) /\ csrf' = csrf
           \/ ClearScopedData(Rest(c))
           \/ Ignore(Rest(c)) /\ c.kind # "recover"
    PROVE  Shell' /\ TypeOK'
<1>1. TypeOK /\ Typed(c) /\ Rest(c) \subseteq calls
    BY DEF IInv, Good, Rest
<1>2. CASE Succeeded(c) /\ Authenticate(Found(c), Rest(c)) /\ csrf' = csrf
    <2>1. Found(c) \in Scope
        BY <1>1, <1>2, FoundScope
    <2>2. Shell'
        BY <1>1, <1>2, <2>1, AuthenticateGood
    <2> QED
        BY <1>1, <1>2, <2>2, PageTypes DEF TypeOK
<1>3. CASE ClearScopedData(Rest(c))
    <2>1. Shell'
        BY <1>1, <1>3, ClearGood
    <2>2. csrf' \in BOOLEAN
        BY <1>3 DEF ClearScopedData
    <2> QED
        BY <1>1, <2>1, <2>2, PageTypes DEF TypeOK
<1>4. CASE Ignore(Rest(c)) /\ c.kind # "recover"
    <2>1. Shell'
        BY <1>4, IgnoreGood
    <2>2. csrf' = csrf
        BY <1>4 DEF Ignore, session
    <2> QED
        BY <1>1, <2>1, <2>2, PageTypes DEF TypeOK
<1> QED
    BY <1>2, <1>3, <1>4

LEMMA ConnectAnswerStep ==
    ASSUME IInv, NEW c \in calls, ConnectAnswer(c)
    PROVE  Shell' /\ TypeOK'
<1>1. c.answer # None /\ UNCHANGED <<server, acts>> /\ switching' \in BOOLEAN
    BY DEF ConnectAnswer, Take, IInv, TypeOK
<1> QED
    BY <1>1, SettledStep DEF ConnectAnswer

LEMMA LogoutAnswerStep ==
    ASSUME IInv, NEW c \in calls, LogoutAnswer(c)
    PROVE  Shell' /\ TypeOK'
<1>1. /\ c.answer # None /\ c.kind = "logout" /\ UNCHANGED <<server, acts>>
      /\ switching' \in BOOLEAN
    BY DEF LogoutAnswer, Take, IInv, TypeOK
<1> QED
    BY <1>1, SettledStep DEF LogoutAnswer

LEMMA SelectAnswerStep ==
    ASSUME IInv, NEW c \in calls, SelectAnswer(c)
    PROVE  Shell' /\ TypeOK'
<1>1. /\ c.answer # None /\ c.kind = "select" /\ UNCHANGED <<server, acts>>
      /\ switching' = FALSE
    BY DEF SelectAnswer, Take
<1> QED
    BY <1>1, SettledStep DEF SelectAnswer

LEMMA RecoverAnswerStep ==
    ASSUME IInv, NEW c \in calls, RecoverAnswer(c)
    PROVE  Shell' /\ TypeOK'
<1>1. /\ c.answer # None /\ c.kind = "recover" /\ UNCHANGED <<server, acts>>
      /\ switching' = switching /\ switching' \in BOOLEAN
    BY DEF RecoverAnswer, Take, IInv, TypeOK
<1>2. CASE Succeeded(c)
    BY <1>1, <1>2, SettledStep DEF RecoverAnswer
<1>3. CASE ~Succeeded(c)
    <2>1. /\ calls' = Rest(c) /\ stranded' = TRUE /\ UNCHANGED <<session, view, signing>>
        BY <1>3 DEF RecoverAnswer
    <2>2. TypeOK /\ Good(calls', generation, context, principal)
        BY <2>1 DEF IInv, Good, Rest
    <2>3. /\ context' = context /\ generation' = generation /\ principal' = principal
          /\ settings' = settings /\ shown' = shown /\ csrf' = csrf /\ token' = token
          /\ health' = health /\ fresh' = fresh
        BY <2>1 DEF session, view
    <2>4. stranded' \in BOOLEAN
        BY <2>1
    <2>5. ShellTyped'
        BY <2>1, <2>2, <2>3, <2>4 DEF ShellTyped, TypeOK
    <2>6. Agreed'
        BY <2>1, <2>3 DEF IInv, Agreed
    <2>7. SettingsOfProject' /\ ShownOfProject'
        BY <2>3 DEF IInv, SettingsOfProject, ShownOfProject
    <2>8. Good(calls', generation', context', principal')
        BY <2>2, <2>3
    <2>9. Shell'
        BY <2>5, <2>6, <2>7, <2>8 DEF Shell
    <2> QED
        BY <1>1, <2>2, <2>3, <2>9, PageTypes DEF TypeOK
<1> QED
    BY <1>2, <1>3

\* What an answer of the current session brings was read in the project of the requests.
LEMMA ShowStep ==
    ASSUME IInv, NEW c \in calls, Current(c), c.kind # "recover", calls' = Rest(c),
           NEW ps, ps \subseteq Projects \cup {None}, context # None => ps = {context},
           shown' = shown \/ shown' \in ps,
           (fresh' = TRUE /\ health' \in ps) \/ UNCHANGED <<fresh, health>>,
           UNCHANGED <<session, principal, settings, signing, stranded>>
    PROVE  Shell' /\ csrf' \in BOOLEAN
<1>1. TypeOK /\ Good(calls', generation, context, principal)
    BY DEF IInv, Good, Rest
<1>2. /\ context' = context /\ generation' = generation /\ principal' = principal
      /\ settings' = settings /\ stranded' = stranded /\ csrf' = csrf /\ token' = token
      /\ signing' = signing
    BY DEF session
<1>3. shown' \in Projects \cup {None} /\ health' \in Projects \cup {None} /\ fresh' \in BOOLEAN
    BY <1>1 DEF TypeOK
<1>4. ShellTyped'
    BY <1>1, <1>2, <1>3 DEF ShellTyped, TypeOK
<1>5. Agreed'
    BY <1>2 DEF IInv, Agreed, Rest
<1>6. SettingsOfProject'
    BY <1>2 DEF IInv, SettingsOfProject
<1>7. ShownOfProject'
    <2> SUFFICES ASSUME principal # None, context # None
                 PROVE  /\ shown' \in {None, principal.project}
                        /\ fresh' => health' = principal.project
        BY <1>2 DEF ShownOfProject
    <2>1. ps = {principal.project}
        BY DEF IInv, Agreed
    <2>2. shown \in {None, principal.project} /\ (fresh => health = principal.project)
        BY DEF IInv, ShownOfProject
    <2> QED
        BY <2>1, <2>2
<1>8. Good(calls', generation', context', principal')
    BY <1>1, <1>2
<1> QED
    BY <1>1, <1>2, <1>4, <1>5, <1>6, <1>7, <1>8 DEF Shell, TypeOK

LEMMA LoadAnswerStep ==
    ASSUME IInv, NEW c \in calls, LoadAnswer(c)
    PROVE  Shell' /\ TypeOK'
<1>1. /\ c.answer # None /\ c.kind = "load" /\ UNCHANGED <<server, acts>>
      /\ switching' = switching /\ switching' \in BOOLEAN
    BY DEF LoadAnswer, Take, IInv, TypeOK
<1>2. \/ Ignore(Rest(c))
      \/ ClearScopedData(Rest(c))
      \/ Succeeded(c) /\ Authenticate(Found(c), Rest(c)) /\ csrf' = csrf
      \/ Current(c) /\ ShowData(c)
    BY DEF LoadAnswer
<1>3. CASE Current(c) /\ ShowData(c)
    <2>1. Typed(c) /\ Fits(c, generation, context, principal) /\ c \in Call
        BY DEF IInv, Good, Typed
    <2>2. c.project = context
        BY <1>1, <1>3, <2>1 DEF Fits, Current
    <2>3. ReadIn(c) \subseteq Projects /\ (context # None => ReadIn(c) = {context})
        BY <2>1, <2>2 DEF ReadIn, Call
    <2>4. /\ shown' = shown \/ shown' \in ReadIn(c)
          /\ (fresh' = TRUE /\ health' \in ReadIn(c)) \/ UNCHANGED <<fresh, health>>
          /\ calls' = Rest(c)
          /\ UNCHANGED <<session, principal, settings, signing, stranded>>
        BY <1>3 DEF ShowData
    <2>5. Shell' /\ csrf' \in BOOLEAN
        BY <1>1, <1>3, <2>3, <2>4, ShowStep
    <2>6. acts' \in 0 .. MaxActs
        BY <1>1 DEF IInv, TypeOK
    <2> QED
        BY <1>1, <2>5, <2>6, PageTypes
<1> QED
    BY <1>1, <1>2, <1>3, SettledStep

LEMMA HealthAnswerStep ==
    ASSUME IInv, NEW c \in calls, HealthAnswer(c)
    PROVE  Shell' /\ TypeOK'
<1>1. /\ c.answer # None /\ c.kind = "health" /\ UNCHANGED <<server, acts>>
      /\ switching' = switching /\ switching' \in BOOLEAN
    BY DEF HealthAnswer, Take, IInv, TypeOK
<1>2. CASE Succeeded(c) /\ Current(c)
    <2>1. Typed(c) /\ Fits(c, generation, context, principal) /\ c \in Call
        BY DEF IInv, Good, Typed
    <2>2. c.project = context /\ Found(c) \in Scope
        BY <1>1, <1>2, <2>1, FoundScope DEF Fits, Current
    <2>3. context # None => Found(c).project = context
        BY <1>1, <1>2, <2>1, <2>2 DEF Typed, Identity, Succeeded, Found
    <2>4. /\ health' = Found(c).project /\ fresh' = TRUE /\ calls' = Rest(c)
          /\ UNCHANGED <<session, principal, settings, shown, signing, stranded>>
        BY <1>2 DEF HealthAnswer
    <2>5. Found(c).project \in Projects \cup {None}
        BY <2>2 DEF Scope
    <2>6. Shell' /\ csrf' \in BOOLEAN
        BY <1>1, <1>2, <2>3, <2>4, <2>5, ShowStep
    <2>7. acts' \in 0 .. MaxActs
        BY <1>1 DEF IInv, TypeOK
    <2> QED
        BY <1>1, <2>6, <2>7, PageTypes
<1>3. CASE ~(Succeeded(c) /\ Current(c))
    <2>1. Ignore(Rest(c))
        BY <1>3 DEF HealthAnswer
    <2> QED
        BY <1>1, <2>1, SettledStep
<1> QED
    BY <1>2, <1>3

LEMMA SettingsAnswerStep ==
    ASSUME IInv, NEW c \in calls, SettingsAnswer(c)
    PROVE  Shell' /\ TypeOK'
<1>1. /\ c.answer # None /\ c.kind = "settings" /\ UNCHANGED <<server, acts>>
      /\ switching' = switching /\ switching' \in BOOLEAN
    BY DEF SettingsAnswer, Take, IInv, TypeOK
<1>2. \/ Ignore(Rest(c))
      \/ ClearScopedData(Rest(c))
      \/ /\ Current(c) /\ Succeeded(c)
         /\ settings' = Found(c) /\ calls' = Rest(c)
         /\ UNCHANGED <<session, principal, shown, health, fresh, signing, stranded>>
    BY DEF SettingsAnswer
<1>3. CASE /\ Current(c) /\ Succeeded(c)
           /\ settings' = Found(c) /\ calls' = Rest(c)
           /\ UNCHANGED <<session, principal, shown, health, fresh, signing, stranded>>
    <2>1. /\ TypeOK /\ Good(calls', generation, context, principal)
          /\ Typed(c) /\ Fits(c, generation, context, principal)
        BY <1>3 DEF IInv, Good, Rest
    <2>2. Found(c) \in Scope
        BY <1>1, <1>3, <2>1, FoundScope
    <2>3. /\ context' = context /\ generation' = generation /\ principal' = principal
          /\ shown' = shown /\ stranded' = stranded /\ csrf' = csrf
          /\ health' = health /\ fresh' = fresh
        BY <1>3 DEF session
    <2>4. ShellTyped'
        BY <1>3, <2>1, <2>2 DEF ShellTyped, TypeOK, session
    <2>5. Agreed'
        BY <1>1, <1>3, <2>3 DEF IInv, Agreed, Rest
    <2>6. SettingsOfProject'
        <3>1. principal # None /\ principal.project # None /\ c.project = context
            BY <1>1, <1>3, <2>1 DEF Fits, Current
        <3>2. c.project # None => Found(c).project = c.project
            BY <1>1, <1>3, <2>1 DEF Typed, Identity, Succeeded, Found
        <3> QED
            BY <1>3, <2>3, <3>1, <3>2 DEF SettingsOfProject
    <2>7. ShownOfProject'
        BY <2>3 DEF IInv, ShownOfProject
    <2>8. Good(calls', generation', context', principal')
        BY <2>1, <2>3
    <2>9. Shell'
        BY <2>4, <2>5, <2>6, <2>7, <2>8 DEF Shell
    <2> QED
        BY <1>1, <2>1, <2>3, <2>9, PageTypes DEF TypeOK
<1> QED
    BY <1>1, <1>2, <1>3, SettledStep

\* The project is left: the requests name none until the principal was read again.
LEMMA ChangeAnswerStep ==
    ASSUME IInv, NEW c \in calls, ChangeAnswer(c)
    PROVE  Shell' /\ TypeOK'
<1> DEFINE leaves == /\ Succeeded(c)
                     /\ \/ c.closure.project = None
                        \/ c.kind = "close" /\ c.closure.project = c.target
           d == Request("recover", Credential, Bearer, None, generation', None, None)
<1>1. /\ c.answer # None /\ c.kind \in {"close", "reopen"} /\ UNCHANGED <<server, acts>>
      /\ switching' = switching /\ switching' \in BOOLEAN
    BY DEF ChangeAnswer, Take, IInv, TypeOK
<1>2. CASE ~leaves
    <2>1. Ignore(Rest(c))
        BY <1>2 DEF ChangeAnswer
    <2> QED
        BY <1>1, <2>1, SettledStep
<1>3. CASE leaves
    <2>1. /\ context' = None
          /\ generation' = IF context # None THEN generation + 1 ELSE generation
          /\ calls' = Rest(c) \cup {d}
          /\ UNCHANGED <<token, csrf, view, signing, stranded>>
        BY <1>3 DEF ChangeAnswer
    <2>2. TypeOK /\ Good(calls, generation, context, principal) /\ generation \in Nat
        BY DEF IInv, TypeOK
    <2>3. /\ principal' = principal /\ settings' = settings /\ shown' = shown
          /\ health' = health /\ fresh' = fresh
          /\ stranded' = stranded /\ csrf' = csrf /\ generation' \in Nat
        BY <2>1, <2>2 DEF view
    <2>4. Credential \in Accounts \cup {None} /\ Bearer \in BOOLEAN
        BY <2>2, CredentialType
    <2>5. d.kind = "recover" /\ d \in Call
        BY <2>2, <2>3, <2>4 DEF Request, Call, Posted, TypeOK
    <2>6. Typed(d) /\ Fits(d, generation', None, principal)
        BY <2>5 DEF Typed, Fits, Identity
    <2>7. ASSUME NEW e \in Rest(c) PROVE Typed(e) /\ Fits(e, generation', None, principal)
        <3>1. Typed(e) /\ Fits(e, generation, context, principal)
            BY <2>2, <2>7 DEF Good, Rest
        <3>2. CASE context = None
            BY <2>1, <3>1, <3>2
        <3>3. CASE context # None
            BY <2>1, <2>2, <3>1, <3>3 DEF Fits, Typed
        <3> QED
            BY <3>1, <3>2, <3>3
    <2>8. Good(calls', generation', None, principal)
        BY <2>1, <2>6, <2>7 DEF Good
    <2>9. Good(calls', generation', context', principal')
        BY <2>1, <2>3, <2>8
    <2>10. ShellTyped'
        BY <2>1, <2>2, <2>3 DEF ShellTyped, TypeOK, view
    <2>11. Agreed'
        BY <2>1, <2>3, <2>5 DEF Agreed
    <2>12. SettingsOfProject' /\ ShownOfProject'
        BY <2>1, <2>3 DEF IInv, SettingsOfProject, ShownOfProject
    <2>13. Shell'
        BY <2>9, <2>10, <2>11, <2>12 DEF Shell
    <2> QED
        BY <1>1, <2>2, <2>3, <2>13, PageTypes DEF TypeOK
<1> QED
    BY <1>2, <1>3
-----------------------------------------------------------------------------
\* Every step keeps the invariant.
LEMMA NextIInv == IInv /\ [Next]_vars => IInv'
<1> SUFFICES ASSUME IInv, [Next]_vars PROVE Shell' /\ TypeOK'
    BY DEF Shell, IInv
<1>1. CASE User
    BY <1>1, ConnectStep, SignOutStep, ActivateStep, ChangeLifecycleStep, LoadDataStep,
       RefreshTelemetryStep, ReloadSettingsStep DEF User
<1>2. CASE Administrators
    BY <1>2, AdministratorsStep
<1>3. ASSUME NEW c \in calls, Serve(c) PROVE Shell' /\ TypeOK'
    BY <1>3, ServeStep
<1>4. ASSUME NEW c \in calls, Handle(c) PROVE Shell' /\ TypeOK'
    BY <1>4, SessionAnswerStep, ConnectAnswerStep, LogoutAnswerStep, SelectAnswerStep,
       ChangeAnswerStep, RecoverAnswerStep, LoadAnswerStep, SettingsAnswerStep,
       HealthAnswerStep DEF Handle
<1>5. CASE UNCHANGED vars
    <2>1. UNCHANGED <<server, session, view, flags, acts, calls>> /\ ServerTyped'
        BY <1>5 DEF vars, server, ServerTyped, IInv, TypeOK
    <2> QED
        BY <2>1, ServerStep
<1> QED
    BY <1>1, <1>2, <1>3, <1>4, <1>5 DEF Next

\* The invariant holds in every reachable state.
THEOREM Inductive == Spec => []IInv
<1> QED
    BY InitIInv, NextIInv, PTL DEF Spec

\* Every variable keeps its type.
THEOREM TypeCorrect == Spec => []TypeOK
<1>1. IInv => TypeOK
    BY DEF IInv
<1> QED
    BY <1>1, Inductive, PTL

\* The lists on display, and the health that has a time, were read in the project of the
\* principal on display (loadData, refreshTelemetry and handleAuthenticated of App.tsx).
THEOREM ShownData == Spec => []ShownOfProject
<1>1. IInv => ShownOfProject
    BY DEF IInv
<1> QED
    BY <1>1, Inductive, PTL

\* Once every answer was handled, the requests and the settings of the interface
\* are those of the principal's project.
THEOREM QuietShell == Spec => []QuietIsConsistent
<1>1. IInv => QuietIsConsistent
    <2> SUFFICES ASSUME IInv, calls = {}, ~stranded, principal # None
                 PROVE  /\ context = principal.project
                        /\ settings # None => settings.project = principal.project
        BY DEF QuietIsConsistent
    <2>1. context = principal.project
        BY DEF IInv, Agreed
    <2> QED
        BY <2>1 DEF IInv, SettingsOfProject
<1> QED
    BY <1>1, Inductive, PTL
=============================================================================
