------------------------------ MODULE Session ------------------------------
(***************************************************************************)
(* Accounts and sessions: the registration, login and project requests of  *)
(* the API, and AuthContext, which keeps the session of a browser in the   *)
(* state of the page and in localStorage. The page sends a request and     *)
(* goes on; the user may log out, log in as another user, choose another   *)
(* project or reload the page before the answer comes.                     *)
(*                                                                         *)
(* The API serves a request in one step and the page receives the answer   *)
(* in a later one, when what was served may be out of date. (A refusal,    *)
(* which changes nothing, is received at once.)                            *)
(*                                                                         *)
(* A token stands for the user it was issued to. There is one page: that   *)
(* another tab of the browser shares its localStorage is left out.         *)
(***************************************************************************)
EXTENDS Naturals, Sequences

CONSTANTS
    Users,       \* email addresses
    Orgs,        \* organizations, by slug
    Names,       \* slugs of projects, DefaultName among them
    DefaultName, \* "default-project"
    Known,       \* the users that have an account from the beginning
    MaxFailures, \* bound: requests that fail, for whatever reason
    MaxLoads,    \* bound: reloads of the page
    NULL

ASSUME SessionBounds == MaxFailures \in Nat /\ MaxLoads \in Nat
ASSUME NamesIncludeDefault == DefaultName \in Names
ASSUME NullIsNoName == NULL \notin Users \cup Orgs
ASSUME KnownAccounts == Known \in [Users -> Orgs \cup {NULL}]

VARIABLES
    org,       \* users.organizationId, NULL without an account
    projects,  \* the projects of an organization, the newest first
    stored,    \* localStorage: djs_auth_token, djs_user, djs_current_project
    user, token, list, current,  \* the state of AuthProvider
    auth,      \* the call of login or register that is under way
    refresh,   \* calls of refreshProjects, by who made them
    post,      \* the request for a new project that is under way
    crossed,   \* history: the last answer was for another session than it met
    partial,   \* history: a login got no list of projects
    failures, loads

server == <<org, projects>>
page == <<stored, user, token, list, current>>
vars == <<server, page, auth, refresh, post, crossed, partial, failures, loads>>

Callers == {"init", "create"}
Project == [org : Orgs, name : Names]
Empty == [token |-> NULL, user |-> NULL, project |-> NULL]
NoAuth == [pc |-> "idle", user |-> NULL, org |-> NULL, data |-> <<>>]
NoPost == [pc |-> "idle", user |-> NULL, name |-> NULL]

\* A request for the projects of a token, if there is one.
Refresh(t) == [pc |-> IF t = NULL THEN "idle" ELSE "sent", user |-> t, data |-> <<>>]
NoRefresh == Refresh(NULL)

Elements(s) == {s[i] : i \in DOMAIN s}
Default(o) == [org |-> o, name |-> DefaultName]

Init ==
    /\ org = Known
    /\ projects = [o \in Orgs |-> IF \E u \in Users : Known[u] = o THEN <<Default(o)>> ELSE <<>>]
    /\ stored \in {Empty} \cup {[token |-> u, user |-> u, project |-> NULL] :
                                    u \in {v \in Users : Known[v] # NULL}}
    /\ user = NULL /\ token = stored.token /\ list = {} /\ current = NULL
    /\ auth = NoAuth
    /\ refresh = [f \in Callers |-> Refresh(IF f = "init" THEN stored.token ELSE NULL)]
    /\ post = NoPost
    /\ crossed = FALSE /\ partial = FALSE
    /\ failures = 0 /\ loads = 0

(***************************************************************************)
(* AuthProvider.                                                           *)
(***************************************************************************)
\* logout
ClearedBug == [Empty EXCEPT !.user = stored.user, !.token = stored.token]
Cleared == Empty
ForgetBug ==
    /\ user' = NULL /\ token' = NULL /\ list' = {} /\ UNCHANGED current
    /\ stored' = Cleared
    /\ crossed' = FALSE
Forget ==
    /\ user' = NULL /\ token' = NULL /\ list' = {} /\ current' = NULL
    /\ stored' = Cleared
    /\ crossed' = FALSE

Logout ==
    /\ user # NULL
    /\ Forget
    /\ UNCHANGED <<server, auth, refresh, post, partial, failures, loads>>

\* refreshProjects sends the token of localStorage, or logs out.
StartRefresh(f) ==
    /\ refresh' = [refresh EXCEPT ![f] = Refresh(stored.token)]
    /\ IF stored.token = NULL THEN Forget ELSE UNCHANGED <<page, crossed>>

EndRefresh(f) == refresh' = [refresh EXCEPT ![f] = NoRefresh]

\* ProjectService.listProjects.
RefreshServed(f) ==
    /\ refresh[f].pc = "sent"
    /\ refresh' = [refresh EXCEPT ![f].pc = "served",
                                 ![f].data = projects[org[refresh[f].user]]]
    /\ UNCHANGED <<server, page, auth, post, crossed, partial, failures, loads>>

\* The user and the choice of project are those of localStorage when the
\* answer comes, the projects those of the token that was sent, when it was
\* served.
ChosenBug(data) == data[1]
Chosen(data) == IF stored.project \in Elements(data) THEN stored.project ELSE data[1]

RefreshAnswer(f) ==
    LET data == refresh[f].data
    IN  /\ refresh[f].pc = "served"
        /\ IF data = <<>> \/ stored.user = NULL
           THEN Forget
           ELSE /\ user' = stored.user
                /\ list' = Elements(data)
                /\ current' = Chosen(data)
                /\ stored' = [stored EXCEPT !.project = Chosen(data)]
                /\ crossed' = (refresh[f].user # stored.user)
                /\ UNCHANGED token
        /\ EndRefresh(f)
        /\ UNCHANGED <<server, auth, post, partial, failures, loads>>

\* An expired token, an error of the server, no connection.
RefreshFails(f) ==
    /\ refresh[f].pc # "idle"
    /\ failures < MaxFailures
    /\ failures' = failures + 1
    /\ Forget
    /\ EndRefresh(f)
    /\ UNCHANGED <<server, auth, post, partial, loads>>

\* The form is shown whenever there is no user, even while a stored session
\* is being restored; its button is disabled while a call is under way.
Submit(u, o) ==
    /\ user = NULL
    /\ auth.pc = "idle"
    /\ auth' = [pc |-> IF o = NULL THEN "login" ELSE "register", user |-> u, org |-> o,
                data |-> <<>>]
    /\ UNCHANGED <<server, page, refresh, post, crossed, partial, failures, loads>>

LoginServed ==
    /\ auth.pc = "login"
    /\ auth' = IF org[auth.user] # NULL THEN [auth EXCEPT !.pc = "granted"] ELSE NoAuth
    /\ UNCHANGED <<server, page, refresh, post, crossed, partial, failures, loads>>

\* AuthService.register: the organization, the user and the default project in
\* one transaction. The default project of an organization that exists violates
\* the unique index on its slug, and undoes the transaction.
ProvisionBug(o) == UNCHANGED projects
Provision(o) == projects' = [projects EXCEPT ![o] = <<Default(o)>> \o @]
CanRegister(u, o) == org[u] = NULL /\ Default(o) \notin Elements(projects[o])

RegisterServed ==
    /\ auth.pc = "register"
    /\ IF CanRegister(auth.user, auth.org)
       THEN /\ org' = [org EXCEPT ![auth.user] = auth.org]
            /\ Provision(auth.org)
            /\ auth' = [auth EXCEPT !.pc = "granted"]
       ELSE auth' = NoAuth /\ UNCHANGED server
    /\ UNCHANGED <<page, refresh, post, crossed, partial, failures, loads>>

SignIn ==
    /\ auth.pc = "granted"
    /\ user' = auth.user /\ token' = auth.user
    /\ stored' = [stored EXCEPT !.user = auth.user, !.token = auth.user]
    /\ auth' = [auth EXCEPT !.pc = "projects"]
    /\ crossed' = (crossed \/ user \notin {NULL, auth.user})
    /\ UNCHANGED <<server, list, current, refresh, post, partial, failures, loads>>

\* The second request of login and register, with the token of the first.
ProjectsServed ==
    /\ auth.pc = "projects"
    /\ auth' = [auth EXCEPT !.pc = "listed", !.data = projects[org[auth.user]]]
    /\ UNCHANGED <<server, page, refresh, post, crossed, partial, failures, loads>>

AuthProjects ==
    LET data == auth.data
    IN  /\ auth.pc = "listed"
        /\ list' = Elements(data)
        /\ IF data = <<>>
           THEN UNCHANGED <<current, stored>>
           ELSE current' = data[1] /\ stored' = [stored EXCEPT !.project = data[1]]
        /\ crossed' = (auth.user # token)
        /\ auth' = NoAuth
        /\ UNCHANGED <<server, user, token, refresh, post, partial, failures, loads>>

AuthFails ==
    /\ auth.pc # "idle"
    /\ failures < MaxFailures
    /\ failures' = failures + 1
    /\ partial' = (partial \/ auth.pc \in {"projects", "listed"})
    /\ auth' = NoAuth
    /\ UNCHANGED <<server, page, refresh, post, crossed, loads>>

\* The switch in the header.
Choose(p) ==
    /\ user # NULL
    /\ p \in list
    /\ current' = p
    /\ stored' = [stored EXCEPT !.project = p]
    /\ UNCHANGED <<server, user, token, list, auth, refresh, post, crossed, partial, failures, loads>>

(***************************************************************************)
(* App: a new project, and then a refresh.                                 *)
(***************************************************************************)
PostProject(n) ==
    /\ user # NULL
    /\ post.pc = "idle" /\ refresh["create"].pc = "idle"
    /\ post' = [pc |-> "sent", user |-> stored.token, name |-> n]
    /\ UNCHANGED <<server, page, auth, refresh, crossed, partial, failures, loads>>

\* ProjectService.createProject; a slug that is taken is refused.
PostServed ==
    LET o == org[post.user]
        p == [org |-> o, name |-> post.name]
    IN  /\ post.pc = "sent"
        /\ post.user # NULL
        /\ p \notin Elements(projects[o])
        /\ projects' = [projects EXCEPT ![o] = <<p>> \o @]
        /\ post' = [post EXCEPT !.pc = "created"]
        /\ UNCHANGED <<org, page, auth, refresh, crossed, partial, failures, loads>>

PostAnswer ==
    /\ post.pc = "created"
    /\ post' = NoPost
    /\ StartRefresh("create")
    /\ UNCHANGED <<server, auth, partial, failures, loads>>

\* The request is refused or fails, or the answer to it is lost.
PostFails ==
    /\ post.pc # "idle"
    /\ post' = NoPost
    /\ UNCHANGED <<server, page, auth, refresh, crossed, partial, failures, loads>>

\* The page starts again from localStorage, and its calls are gone.
Load ==
    /\ loads < MaxLoads
    /\ loads' = loads + 1
    /\ user' = NULL /\ token' = stored.token /\ list' = {} /\ current' = NULL
    /\ stored' = IF stored.token = NULL THEN Empty ELSE stored
    /\ auth' = NoAuth /\ post' = NoPost
    /\ refresh' = [f \in Callers |-> Refresh(IF f = "init" THEN stored.token ELSE NULL)]
    /\ crossed' = FALSE
    /\ UNCHANGED <<server, partial, failures>>

-----------------------------------------------------------------------------
Authenticate ==
    LoginServed \/ RegisterServed \/ SignIn \/ ProjectsServed \/ AuthProjects \/ AuthFails
Refreshes(f) == RefreshServed(f) \/ RefreshAnswer(f) \/ RefreshFails(f)

Next ==
    \/ Logout \/ Load \/ Authenticate \/ PostServed \/ PostAnswer \/ PostFails
    \/ \E f \in Callers : Refreshes(f)
    \/ \E u \in Users, o \in Orgs \cup {NULL} : Submit(u, o)
    \/ \E p \in Project : Choose(p)
    \/ \E n \in Names : PostProject(n)

Spec == Init /\ [][Next]_vars

\* Every request is answered, or fails.
FairSpec == Spec /\ WF_vars(Authenticate) /\ \A f \in Callers : WF_vars(Refreshes(f))

-----------------------------------------------------------------------------
AuthCall ==
    [pc : {"idle", "login", "register", "granted", "projects", "listed"},
     user : Users \cup {NULL}, org : Orgs \cup {NULL}, data : Seq(Project)]
RefreshCall ==
    [pc : {"idle", "sent", "served"}, user : Users \cup {NULL}, data : Seq(Project)]
PostCall ==
    [pc : {"idle", "sent", "created"}, user : Users \cup {NULL}, name : Names \cup {NULL}]

\* The type invariant.
TypeOK ==
    /\ org \in [Users -> Orgs \cup {NULL}]
    /\ projects \in [Orgs -> Seq(Project)]
    /\ \A o \in Orgs : \A p \in Elements(projects[o]) : p.org = o
    /\ stored \in [token : Users \cup {NULL}, user : Users \cup {NULL}, project : Project \cup {NULL}]
    /\ {user, token} \subseteq Users \cup {NULL}
    /\ list \subseteq Project /\ current \in Project \cup {NULL}
    /\ auth \in AuthCall
    /\ refresh \in [Callers -> RefreshCall]
    /\ post \in PostCall
    /\ crossed \in BOOLEAN /\ partial \in BOOLEAN

\* The page, the token it holds and localStorage speak of one user, whatever
\* logins, logouts and answers come in which order.
OneIdentity == user # NULL => token = user /\ stored.user = user /\ stored.token = user

\* The projects shown are those of the user, in spite of requests that were
\* sent for another session, unless the answer to one of them came late:
\* nothing tells the page whom an answer is for. A reload or a logout repairs
\* the page even then.
ProjectsOfUser ==
    ~crossed /\ user # NULL => \A p \in list \cup {current} : p # NULL => p.org = org[user]

\* Nothing of a session is left in the page or in localStorage when it has
\* ended, but for an answer that comes late.
LogoutIsComplete ==
    user = NULL /\ ~crossed /\ refresh["init"].pc = "idle"
        => stored = Empty /\ token = NULL /\ list = {} /\ current = NULL

\* Nobody is locked out: an account has a project, without which every
\* refresh would end its sessions.
AccountHasProject == \A u \in Users : org[u] # NULL => projects[org[u]] # <<>>

\* The projects that are newer than an answer under way.
Newer(f) == Elements(projects[org[refresh[f].user]]) \ Elements(refresh[f].data)

\* The choice of a project survives the refreshes of its session, also a choice
\* that is made while one is under way, except when the project is newer than
\* the answer: an answer that was served before the project was created, and
\* comes after it was chosen, puts another in its place. (The list that a login
\* asks for is no refresh; it always selects its first project.)
ChoiceSurvives ==
    [][\A f \in Callers :
          refresh[f].pc = "served" /\ refresh'[f].pc = "idle" /\ refresh[f].user = user
              /\ user' = user /\ ~crossed /\ current \notin Newer(f) \cup {NULL}
          => current' = current]_vars

\* The inductive invariant: the three copies of the identity agree (a page
\* that restores a session has no user yet); whoever sends a request has an
\* account; and what is shown, unless the last answer came late, is from the
\* projects of the user, the choice being the one of localStorage.
IdentityAgrees ==
    /\ stored.user = stored.token /\ token = stored.token
    /\ user # NULL => user = token
    /\ token # NULL /\ user = NULL =>
           refresh["init"].pc # "idle" /\ auth.pc \notin {"projects", "listed"}

SendersHaveAccounts ==
    /\ stored.token # NULL => org[stored.token] # NULL
    /\ post.user # NULL => org[post.user] # NULL /\ post.name \in Names
    /\ \A f \in Callers :
           refresh[f].pc # "idle" => refresh[f].user # NULL /\ org[refresh[f].user] # NULL
    /\ auth.pc # "idle" => auth.user # NULL
    /\ auth.pc = "register" => auth.org # NULL
    /\ auth.pc \in {"granted", "projects", "listed"} => org[auth.user] # NULL

\* An answer under way is a list of projects the user had, and has.
AnswersAreOwn ==
    /\ \A f \in Callers : refresh[f].pc = "served" =>
           /\ refresh[f].data # <<>>
           /\ Elements(refresh[f].data) \subseteq Elements(projects[org[refresh[f].user]])
    /\ auth.pc = "listed" =>
           /\ auth.data # <<>>
           /\ Elements(auth.data) \subseteq Elements(projects[org[auth.user]])

PageIsOwn ==
    ~crossed =>
        /\ token = NULL => stored = Empty
        /\ user = NULL => list = {} /\ current = NULL
        /\ user # NULL => list \subseteq Elements(projects[org[user]])
        /\ current # NULL => /\ current \in Elements(projects[org[user]])
                             /\ stored.project = current

SessionInv ==
    /\ TypeOK /\ AccountHasProject
    /\ IdentityAgrees /\ SendersHaveAccounts /\ AnswersAreOwn /\ PageIsOwn

\* A login ends in a session with a project, or in none; unless the second of
\* its two requests fails, which leaves a user without a project.
SessionSettles == user # NULL ~> user = NULL \/ current # NULL \/ partial
=============================================================================
