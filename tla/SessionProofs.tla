---------------------------- MODULE SessionProofs ----------------------------
(***************************************************************************)
(* Proofs about Session, for any users, organizations and projects, any    *)
(* answers, late or failed, and any number of reloads.                     *)
(***************************************************************************)
EXTENDS Session, TLAPS

(***************************************************************************)
(* The server: accounts and projects are only added.                       *)
(***************************************************************************)
\* What a new project does to a list.
LEMMA NewHead ==
    ASSUME NEW S, NEW p \in S, NEW s \in Seq(S)
    PROVE  /\ <<p>> \o s \in Seq(S) /\ <<p>> \o s # <<>>
           /\ Elements(<<p>> \o s) = {p} \cup Elements(s)
<1> DEFINE t == <<p>> \o s
<1>1. t \in Seq(S) /\ Len(t) = Len(s) + 1
  OBVIOUS
<1>2. t[1] = p /\ \A i \in 1..Len(s) : t[i + 1] = s[i]
  OBVIOUS
<1>3. DOMAIN t = 1..(Len(s) + 1) /\ DOMAIN s = 1..Len(s) /\ Len(s) \in Nat
  BY <1>1
<1> HIDE DEF t
<1>4. Elements(t) \subseteq {p} \cup Elements(s)
  <2> SUFFICES ASSUME NEW i \in 1..(Len(s) + 1), i # 1 PROVE t[i] \in Elements(s)
    BY <1>2, <1>3 DEF Elements
  <2>1. i - 1 \in 1..Len(s) /\ t[(i - 1) + 1] = s[i - 1] /\ (i - 1) + 1 = i
    BY <1>2, <1>3
  <2> QED
    BY <1>3, <2>1 DEF Elements
<1>5. {p} \cup Elements(s) \subseteq Elements(t)
  <2>1. p \in Elements(t)
    BY <1>2, <1>3 DEF Elements
  <2>2. ASSUME NEW i \in 1..Len(s) PROVE s[i] \in Elements(t)
    <3>1. i + 1 \in DOMAIN t /\ t[i + 1] = s[i]
      BY <1>2, <1>3
    <3> QED
      BY <3>1 DEF Elements
  <2> QED
    BY <1>3, <2>1, <2>2 DEF Elements
<1>6. t # <<>>
  BY <1>1, <1>3
<1> QED
  BY <1>1, <1>4, <1>5, <1>6 DEF t

\* The first project of an organization that has some.
LEMMA HeadIsElement ==
    ASSUME NEW S, NEW s \in Seq(S), s # <<>>
    PROVE  s[1] \in Elements(s)
<1>1. 1 \in DOMAIN s
  OBVIOUS
<1> QED
  BY <1>1 DEF Elements

\* Types of the server's part, and that nothing of it is lost.
ServerGrows ==
    /\ org' \in [Users -> Orgs \cup {NULL}]
    /\ projects' \in [Orgs -> Seq(Project)]
    /\ \A o \in Orgs : \A p \in Elements(projects'[o]) : p.org = o
    /\ AccountHasProject'
    /\ \A u \in Users : org[u] # NULL => org'[u] = org[u]
    /\ \A o \in Orgs : Elements(projects[o]) \subseteq Elements(projects'[o])

LEMMA ProjectAdded ==
    ASSUME TypeOK, AccountHasProject, NEW o \in Orgs, NEW p \in Project, p.org = o,
           projects' = [projects EXCEPT ![o] = <<p>> \o @],
           org' \in [Users -> Orgs \cup {NULL}],
           \A u \in Users : org[u] # NULL => org'[u] = org[u],
           \A u \in Users : org'[u] \in {org[u], o}
    PROVE  ServerGrows
<1>1. projects[o] \in Seq(Project)
  BY DEF TypeOK
<1>2. /\ <<p>> \o projects[o] \in Seq(Project) /\ <<p>> \o projects[o] # <<>>
      /\ Elements(<<p>> \o projects[o]) = {p} \cup Elements(projects[o])
  BY <1>1, NewHead
<1>3. \A q \in Orgs : projects'[q] = IF q = o THEN <<p>> \o projects[o] ELSE projects[q]
  BY DEF TypeOK
<1>4. projects' \in [Orgs -> Seq(Project)]
  BY <1>2 DEF TypeOK
<1>5. \A q \in Orgs : \A e \in Elements(projects'[q]) : e.org = q
  BY <1>2, <1>3 DEF TypeOK
<1>6. AccountHasProject'
  <2> SUFFICES ASSUME NEW u \in Users, org'[u] # NULL PROVE projects'[org'[u]] # <<>>
    BY DEF AccountHasProject
  <2>1. CASE org'[u] = o
    BY <1>2, <1>3, <2>1
  <2>2. CASE org'[u] # o
    BY <1>3, <2>2 DEF AccountHasProject, TypeOK
  <2> QED
    BY <2>1, <2>2
<1>7. \A q \in Orgs : Elements(projects[q]) \subseteq Elements(projects'[q])
  BY <1>2, <1>3
<1> QED
  BY <1>4, <1>5, <1>6, <1>7 DEF ServerGrows

LEMMA ServerStays == TypeOK /\ AccountHasProject /\ UNCHANGED server => ServerGrows
BY DEF ServerGrows, TypeOK, AccountHasProject, server

LEMMA RegisterGrows == SessionInv /\ RegisterServed => ServerGrows
<1> SUFFICES ASSUME SessionInv, RegisterServed PROVE ServerGrows
  OBVIOUS
<1>1. TypeOK /\ AccountHasProject /\ auth.user \in Users /\ auth.org \in Orgs
  BY DEF SessionInv, TypeOK, AuthCall, SendersHaveAccounts, RegisterServed
<1>2. CASE CanRegister(auth.user, auth.org)
  <2>1. /\ org' = [org EXCEPT ![auth.user] = auth.org]
        /\ projects' = [projects EXCEPT ![auth.org] = <<Default(auth.org)>> \o @]
        /\ org[auth.user] = NULL
    BY <1>2 DEF RegisterServed, Provision, CanRegister
  <2>2. Default(auth.org) \in Project /\ Default(auth.org).org = auth.org
    BY <1>1, NamesIncludeDefault DEF Default, Project
  <2>3. /\ org' \in [Users -> Orgs \cup {NULL}]
        /\ \A u \in Users : org'[u] = IF u = auth.user THEN auth.org ELSE org[u]
    BY <1>1, <2>1 DEF TypeOK
  <2> QED
    BY <1>1, <2>1, <2>2, <2>3, ProjectAdded
<1>3. CASE ~CanRegister(auth.user, auth.org)
  BY <1>1, <1>3, ServerStays DEF RegisterServed
<1> QED
  BY <1>2, <1>3

LEMMA PostGrows == SessionInv /\ PostServed => ServerGrows
<1> SUFFICES ASSUME SessionInv, PostServed PROVE ServerGrows
  OBVIOUS
<1> DEFINE o == org[post.user]
           p == [org |-> o, name |-> post.name]
<1>1. TypeOK /\ AccountHasProject /\ o \in Orgs /\ post.name \in Names
  BY DEF SessionInv, TypeOK, PostCall, SendersHaveAccounts, PostServed
<1>2. p \in Project /\ p.org = o
  BY <1>1 DEF Project
<1>3. projects' = [projects EXCEPT ![o] = <<p>> \o @] /\ UNCHANGED org
  BY DEF PostServed
<1> HIDE DEF p, o
<1>4. org' \in [Users -> Orgs \cup {NULL}] /\ \A u \in Users : org'[u] = org[u]
  BY <1>1, <1>3 DEF TypeOK
<1> QED
  BY <1>1, <1>2, <1>3, <1>4, ProjectAdded

\* What is a user's stays a user's.
LEMMA OwnStays ==
    ASSUME SessionInv, ServerGrows, NEW u \in Users, org[u] # NULL
    PROVE  /\ org'[u] = org[u] /\ org[u] \in Orgs
           /\ Elements(projects[org[u]]) \subseteq Elements(projects'[org'[u]])
BY DEF SessionInv, TypeOK, ServerGrows

(***************************************************************************)
(* The calls under way: their senders keep their accounts, their answers   *)
(* stay lists of own projects.                                             *)
(***************************************************************************)
AuthOK ==
    /\ auth \in AuthCall
    /\ auth.pc # "idle" => auth.user # NULL
    /\ auth.pc = "register" => auth.org # NULL
    /\ auth.pc \in {"granted", "projects", "listed"} => org[auth.user] # NULL
    /\ auth.pc = "listed" =>
           /\ auth.data # <<>>
           /\ Elements(auth.data) \subseteq Elements(projects[org[auth.user]])

RefreshOK ==
    /\ refresh \in [Callers -> RefreshCall]
    /\ \A f \in Callers :
           /\ refresh[f].pc # "idle" => refresh[f].user # NULL /\ org[refresh[f].user] # NULL
           /\ refresh[f].pc = "served" =>
                  /\ refresh[f].data # <<>>
                  /\ Elements(refresh[f].data) \subseteq Elements(projects[org[refresh[f].user]])

PostOK ==
    /\ post \in PostCall
    /\ post.user # NULL => org[post.user] # NULL /\ post.name \in Names

LEMMA Calls ==
    SessionInv <=> /\ TypeOK /\ AccountHasProject /\ IdentityAgrees /\ PageIsOwn
                   /\ AuthOK /\ RefreshOK /\ PostOK
                   /\ stored.token # NULL => org[stored.token] # NULL
BY DEF SessionInv, SendersHaveAccounts, AnswersAreOwn, AuthOK, RefreshOK, PostOK, TypeOK

LEMMA CallsAfter ==
    ASSUME TypeOK', AccountHasProject', IdentityAgrees', PageIsOwn', AuthOK', RefreshOK', PostOK',
           stored'.token # NULL => org'[stored'.token] # NULL
    PROVE  SessionInv'
BY DEF SessionInv, SendersHaveAccounts, AnswersAreOwn, AuthOK, RefreshOK, PostOK, TypeOK

\* Calls that are over.
LEMMA Over ==
    /\ NoAuth \in AuthCall /\ NoAuth.pc = "idle"
    /\ NoPost \in PostCall /\ NoPost.user = NULL
    /\ NoRefresh \in RefreshCall /\ NoRefresh.pc = "idle"
    /\ \A t \in Users : Refresh(t) \in RefreshCall /\ Refresh(t).pc = "sent" /\ Refresh(t).user = t
BY NullIsNoName DEF NoAuth, AuthCall, NoPost, PostCall, NoRefresh, Refresh, RefreshCall

LEMMA AuthStays ==
    ASSUME SessionInv, ServerGrows, auth' = auth \/ auth' = NoAuth
    PROVE  AuthOK'
<1>1. CASE auth' = NoAuth
  BY <1>1, Over DEF AuthOK
<1>2. CASE auth' = auth
  <2>1. AuthOK
    BY Calls
  <2>2. auth.pc # "idle" => auth.user \in Users
    BY <2>1 DEF AuthOK, AuthCall
  <2> QED
    BY <1>2, <2>1, <2>2, OwnStays DEF AuthOK
<1> QED
  BY <1>1, <1>2

LEMMA RefreshStays ==
    ASSUME SessionInv, ServerGrows, refresh' \in [Callers -> RefreshCall],
           \A f \in Callers :
               \/ refresh'[f] = refresh[f] \/ refresh'[f].pc = "idle"
               \/ /\ refresh'[f].pc = "sent"
                  /\ refresh'[f].user \in Users /\ org[refresh'[f].user] # NULL
    PROVE  RefreshOK'
<1>1. RefreshOK
  BY Calls
<1> SUFFICES ASSUME NEW f \in Callers
             PROVE  /\ refresh'[f].pc # "idle" =>
                           refresh'[f].user # NULL /\ org'[refresh'[f].user] # NULL
                    /\ refresh'[f].pc = "served" =>
                           /\ refresh'[f].data # <<>>
                           /\ Elements(refresh'[f].data)
                                 \subseteq Elements(projects'[org'[refresh'[f].user]])
  BY DEF RefreshOK
<1>2. refresh[f].pc # "idle" => refresh[f].user \in Users
  BY <1>1 DEF RefreshOK, RefreshCall
<1> QED
  BY <1>1, <1>2, OwnStays, NullIsNoName DEF RefreshOK

LEMMA PostStays ==
    ASSUME SessionInv, ServerGrows, post' = post \/ post' = NoPost
    PROVE  PostOK'
<1>1. CASE post' = NoPost
  BY <1>1, Over DEF PostOK
<1>2. CASE post' = post
  <2>1. PostOK
    BY Calls
  <2>2. post.user # NULL => post.user \in Users
    BY <2>1 DEF PostOK, PostCall
  <2> QED
    BY <1>2, <2>1, <2>2, OwnStays DEF PostOK
<1> QED
  BY <1>1, <1>2

CallsOK == AuthOK' /\ RefreshOK' /\ PostOK' /\ partial' \in BOOLEAN

\* A refresh ends, and nothing else happens to the calls.
LEMMA RefreshEnds ==
    ASSUME SessionInv, ServerGrows, NEW f \in Callers, EndRefresh(f),
           UNCHANGED <<auth, post, partial>>
    PROVE  CallsOK
<1>1. refresh \in [Callers -> RefreshCall] /\ partial \in BOOLEAN
  BY DEF SessionInv, TypeOK
<1>2. refresh' = [refresh EXCEPT ![f] = NoRefresh]
  BY DEF EndRefresh
<1>3. /\ refresh' \in [Callers -> RefreshCall] /\ refresh'[f].pc = "idle"
      /\ \A g \in Callers \ {f} : refresh'[g] = refresh[g]
  BY <1>1, <1>2, Over
<1>4. RefreshOK'
  BY <1>3, RefreshStays
<1> QED
  BY <1>1, <1>4, AuthStays, PostStays DEF CallsOK

(***************************************************************************)
(* What a step does to the page, given that the server grows and the calls *)
(* are in order.                                                           *)
(***************************************************************************)
LEMMA PageUntouched ==
    ASSUME SessionInv, ServerGrows, CallsOK, UNCHANGED <<page, crossed>>,
           token # NULL /\ user = NULL =>
               refresh'["init"].pc # "idle" /\ auth'.pc \notin {"projects", "listed"}
    PROVE  SessionInv'
<1>1. TypeOK'
  BY DEF SessionInv, TypeOK, ServerGrows, CallsOK, AuthOK, RefreshOK, PostOK, page
<1>2. IdentityAgrees'
  BY DEF SessionInv, IdentityAgrees, page
<1>3. stored'.token # NULL => org'[stored'.token] # NULL
  BY OwnStays DEF SessionInv, TypeOK, SendersHaveAccounts, page
<1>4. PageIsOwn'
  <2>1. user # NULL => user \in Users /\ org[user] # NULL
    BY DEF SessionInv, TypeOK, IdentityAgrees, SendersHaveAccounts
  <2>2. current # NULL => user # NULL \/ crossed
    BY DEF SessionInv, PageIsOwn
  <2>3. user # NULL => org'[user] = org[user]
                       /\ Elements(projects[org[user]]) \subseteq Elements(projects'[org'[user]])
    BY <2>1, OwnStays
  <2> QED
    BY <2>1, <2>2, <2>3 DEF SessionInv, PageIsOwn, page
<1> QED
  BY <1>1, <1>2, <1>3, <1>4, CallsAfter DEF ServerGrows, CallsOK

LEMMA ForgetKeeps ==
    ASSUME SessionInv, ServerGrows, CallsOK, Forget
    PROVE  SessionInv'
<1>1. Empty \in [token : Users \cup {NULL}, user : Users \cup {NULL}, project : Project \cup {NULL}]
      /\ Empty.token = NULL /\ Empty.user = NULL
  BY DEF Empty
<1>2. /\ user' = NULL /\ token' = NULL /\ list' = {} /\ current' = NULL
      /\ stored' = Empty /\ crossed' = FALSE
  BY DEF Forget, Cleared
<1>3. TypeOK'
  <2>1. crossed' \in BOOLEAN
    BY <1>2
  <2> QED
    BY <1>1, <1>2, <2>1 DEF TypeOK, ServerGrows, CallsOK, AuthOK, RefreshOK, PostOK
<1>4. IdentityAgrees' /\ PageIsOwn'
  BY <1>1, <1>2 DEF IdentityAgrees, PageIsOwn
<1> QED
  BY <1>1, <1>2, <1>3, <1>4, CallsAfter DEF ServerGrows, CallsOK

(***************************************************************************)
(* The actions.                                                            *)
(***************************************************************************)
\* A request starts, is served, refused or fails, without a trace in the page.
LEMMA SubmitKeeps ==
    ASSUME SessionInv, NEW u \in Users, NEW o \in Orgs \cup {NULL}, Submit(u, o)
    PROVE  SessionInv'
<1>1. ServerGrows
  BY ServerStays DEF SessionInv, Submit
<1>2. auth' = [pc |-> IF o = NULL THEN "login" ELSE "register", user |-> u, org |-> o,
               data |-> <<>>]
  BY DEF Submit
<1>3. AuthOK'
  BY <1>2, NullIsNoName DEF AuthOK, AuthCall
<1>4. CallsOK
  BY <1>1, <1>3, PostStays, RefreshStays DEF CallsOK, SessionInv, TypeOK, Submit
<1>5. token # NULL /\ user = NULL =>
          refresh'["init"].pc # "idle" /\ auth'.pc \notin {"projects", "listed"}
  BY <1>2 DEF SessionInv, IdentityAgrees, Submit
<1> QED
  BY <1>1, <1>4, <1>5, PageUntouched DEF Submit

LEMMA LoginServedKeeps == SessionInv /\ LoginServed => SessionInv'
<1> SUFFICES ASSUME SessionInv, LoginServed PROVE SessionInv'
  OBVIOUS
<1>1. ServerGrows
  BY ServerStays DEF SessionInv, LoginServed
<1>2. AuthOK' /\ auth'.pc \notin {"projects", "listed"}
  <2>1. CASE org[auth.user] # NULL
    BY <2>1, Calls DEF LoginServed, AuthOK, AuthCall, server
  <2>2. CASE org[auth.user] = NULL
    BY <1>1, <2>2, Over, AuthStays DEF LoginServed
  <2> QED
    BY <2>1, <2>2
<1>3. CallsOK
  BY <1>1, <1>2, PostStays, RefreshStays DEF CallsOK, SessionInv, TypeOK, LoginServed
<1> QED
  BY <1>1, <1>2, <1>3, PageUntouched DEF LoginServed, SessionInv, IdentityAgrees

LEMMA RegisterServedKeeps == SessionInv /\ RegisterServed => SessionInv'
<1> SUFFICES ASSUME SessionInv, RegisterServed PROVE SessionInv'
  OBVIOUS
<1>1. ServerGrows
  BY RegisterGrows
<1>2. AuthOK' /\ auth'.pc \notin {"projects", "listed"}
  <2>1. CASE CanRegister(auth.user, auth.org)
    <3>1. auth.user \in Users /\ auth.org \in Orgs /\ auth.org # NULL
      BY Calls, NullIsNoName DEF AuthOK, AuthCall, RegisterServed
    <3>2. org'[auth.user] # NULL
      BY <2>1, <3>1 DEF RegisterServed, SessionInv, TypeOK
    <3> QED
      BY <2>1, <3>2, Calls DEF RegisterServed, AuthOK, AuthCall
  <2>2. CASE ~CanRegister(auth.user, auth.org)
    BY <1>1, <2>2, Over, AuthStays DEF RegisterServed
  <2> QED
    BY <2>1, <2>2
<1>3. CallsOK
  BY <1>1, <1>2, PostStays, RefreshStays DEF CallsOK, SessionInv, TypeOK, RegisterServed
<1> QED
  BY <1>1, <1>2, <1>3, PageUntouched DEF RegisterServed, SessionInv, IdentityAgrees

\* The list of a user's projects: none is empty, and all are the user's.
LEMMA ProjectsOfAccount ==
    ASSUME SessionInv, NEW u \in Users, org[u] # NULL
    PROVE  org[u] \in Orgs /\ projects[org[u]] \in Seq(Project) /\ projects[org[u]] # <<>>
BY DEF SessionInv, TypeOK, AccountHasProject

LEMMA ProjectsServedKeeps == SessionInv /\ ProjectsServed => SessionInv'
<1> SUFFICES ASSUME SessionInv, ProjectsServed PROVE SessionInv'
  OBVIOUS
<1> DEFINE data == projects[org[auth.user]]
<1>1. ServerGrows
  BY ServerStays DEF SessionInv, ProjectsServed
<1>2. auth.user \in Users /\ org[auth.user] # NULL /\ auth.pc = "projects" /\ auth \in AuthCall
  BY Calls DEF AuthOK, AuthCall, ProjectsServed
<1>3. data \in Seq(Project) /\ data # <<>>
  BY <1>2, ProjectsOfAccount
<1>4. auth' = [auth EXCEPT !.pc = "listed", !.data = data] /\ UNCHANGED server
  BY DEF ProjectsServed
<1> HIDE DEF data
<1>5. /\ auth' \in AuthCall /\ auth'.pc = "listed" /\ auth'.user = auth.user
      /\ auth'.data = data
  BY <1>2, <1>3, <1>4 DEF AuthCall
<1>6. AuthOK'
  BY <1>2, <1>3, <1>4, <1>5, NullIsNoName DEF AuthOK, data, server
<1>7. CallsOK
  BY <1>1, <1>6, PostStays, RefreshStays DEF CallsOK, SessionInv, TypeOK, ProjectsServed
<1> QED
  BY <1>1, <1>2, <1>7, PageUntouched DEF ProjectsServed, SessionInv, IdentityAgrees

LEMMA AuthFailsKeeps == SessionInv /\ AuthFails => SessionInv'
<1> SUFFICES ASSUME SessionInv, AuthFails PROVE SessionInv'
  OBVIOUS
<1>1. ServerGrows
  BY ServerStays DEF SessionInv, AuthFails
<1>2. partial' \in BOOLEAN
  BY DEF SessionInv, TypeOK, AuthFails
<1>3. CallsOK
  BY <1>1, <1>2, AuthStays, PostStays, RefreshStays DEF CallsOK, SessionInv, TypeOK, AuthFails
<1>4. auth'.pc = "idle"
  BY Over DEF AuthFails
<1> QED
  BY <1>1, <1>3, <1>4, PageUntouched DEF AuthFails, SessionInv, IdentityAgrees

LEMMA PostProjectKeeps ==
    ASSUME SessionInv, NEW n \in Names, PostProject(n)
    PROVE  SessionInv'
<1>1. ServerGrows
  BY ServerStays DEF SessionInv, PostProject
<1>2. post' = [pc |-> "sent", user |-> stored.token, name |-> n]
  BY DEF PostProject
<1>3. PostOK'
  BY <1>2 DEF PostOK, PostCall, SessionInv, TypeOK, SendersHaveAccounts, PostProject, server
<1>4. CallsOK
  BY <1>1, <1>3, AuthStays, RefreshStays DEF CallsOK, SessionInv, TypeOK, PostProject
<1> QED
  BY <1>1, <1>4, PageUntouched DEF PostProject, SessionInv, IdentityAgrees

LEMMA PostServedKeeps == SessionInv /\ PostServed => SessionInv'
<1> SUFFICES ASSUME SessionInv, PostServed PROVE SessionInv'
  OBVIOUS
<1>1. ServerGrows
  BY PostGrows
<1>2. PostOK'
  BY Calls DEF PostOK, PostCall, PostServed
<1>3. CallsOK
  BY <1>1, <1>2, AuthStays, RefreshStays DEF CallsOK, SessionInv, TypeOK, PostServed
<1> QED
  BY <1>1, <1>3, PageUntouched DEF PostServed, SessionInv, IdentityAgrees

LEMMA PostFailsKeeps == SessionInv /\ PostFails => SessionInv'
<1> SUFFICES ASSUME SessionInv, PostFails PROVE SessionInv'
  OBVIOUS
<1>1. ServerGrows
  BY ServerStays DEF SessionInv, PostFails
<1>2. CallsOK
  BY <1>1, AuthStays, PostStays, RefreshStays DEF CallsOK, SessionInv, TypeOK, PostFails
<1> QED
  BY <1>1, <1>2, PageUntouched DEF PostFails, SessionInv, IdentityAgrees

LEMMA RefreshServedKeeps ==
    ASSUME SessionInv, NEW f \in Callers, RefreshServed(f)
    PROVE  SessionInv'
<1> DEFINE data == projects[org[refresh[f].user]]
<1>1. ServerGrows
  BY ServerStays DEF SessionInv, RefreshServed
<1>2. /\ refresh \in [Callers -> RefreshCall] /\ refresh[f].user \in Users
      /\ org[refresh[f].user] # NULL /\ RefreshOK
  BY Calls DEF RefreshOK, RefreshCall, RefreshServed
<1>3. data \in Seq(Project) /\ data # <<>>
  BY <1>2, ProjectsOfAccount
<1>4. /\ refresh' = [refresh EXCEPT ![f].pc = "served", ![f].data = data]
      /\ UNCHANGED server
  BY DEF RefreshServed
<1> HIDE DEF data
<1>5. /\ refresh' \in [Callers -> RefreshCall]
      /\ refresh'[f].pc = "served" /\ refresh'[f].data = data
      /\ refresh'[f].user = refresh[f].user
      /\ \A g \in Callers \ {f} : refresh'[g] = refresh[g]
  BY <1>2, <1>3, <1>4 DEF RefreshCall
<1>6. RefreshOK'
  <2>1. ASSUME NEW g \in Callers
        PROVE  /\ refresh'[g].pc # "idle" => refresh'[g].user # NULL /\ org[refresh'[g].user] # NULL
               /\ refresh'[g].pc = "served" =>
                     /\ refresh'[g].data # <<>>
                     /\ Elements(refresh'[g].data) \subseteq Elements(projects[org[refresh'[g].user]])
    <3>1. CASE g = f
      BY <1>2, <1>3, <1>5, <3>1, NullIsNoName DEF data
    <3>2. CASE g # f
      BY <1>2, <1>5, <3>2 DEF RefreshOK
    <3> QED
      BY <3>1, <3>2
  <2> QED
    BY <1>4, <1>5, <2>1 DEF RefreshOK, server
<1>7. CallsOK
  BY <1>1, <1>6, AuthStays, PostStays DEF CallsOK, SessionInv, TypeOK, RefreshServed
<1>8. refresh["init"].pc # "idle" => refresh'["init"].pc # "idle"
  BY <1>5 DEF Callers
<1> QED
  BY <1>1, <1>7, <1>8, PageUntouched DEF RefreshServed, SessionInv, IdentityAgrees

\* The session ends.
LEMMA LogoutKeeps == SessionInv /\ Logout => SessionInv'
<1> SUFFICES ASSUME SessionInv, Logout PROVE SessionInv'
  OBVIOUS
<1>1. ServerGrows
  BY ServerStays DEF SessionInv, Logout
<1>2. CallsOK
  BY <1>1, AuthStays, PostStays, RefreshStays DEF CallsOK, SessionInv, TypeOK, Logout
<1> QED
  BY <1>1, <1>2, ForgetKeeps DEF Logout

LEMMA RefreshFailsKeeps ==
    ASSUME SessionInv, NEW f \in Callers, RefreshFails(f)
    PROVE  SessionInv'
<1>1. ServerGrows
  BY ServerStays DEF SessionInv, RefreshFails
<1>2. CallsOK
  BY <1>1, RefreshEnds DEF RefreshFails
<1> QED
  BY <1>1, <1>2, ForgetKeeps DEF RefreshFails

\* The first answer of a login: an identity, and what the page shows is of the
\* same user or counted as crossed.
LEMMA SignInKeeps == SessionInv /\ SignIn => SessionInv'
<1> SUFFICES ASSUME SessionInv, SignIn PROVE SessionInv'
  OBVIOUS
<1>1. ServerGrows
  BY ServerStays DEF SessionInv, SignIn
<1>2. auth.user \in Users /\ auth.user # NULL /\ org[auth.user] # NULL /\ auth \in AuthCall
  BY Calls, NullIsNoName DEF AuthOK, AuthCall, SignIn
<1>3. /\ user' = auth.user /\ token' = auth.user
      /\ stored' = [stored EXCEPT !.user = auth.user, !.token = auth.user]
      /\ auth' = [auth EXCEPT !.pc = "projects"]
      /\ crossed' = (crossed \/ user \notin {NULL, auth.user})
      /\ UNCHANGED <<server, list, current, refresh, post, partial>>
  BY DEF SignIn
<1>4. /\ stored' \in [token : Users \cup {NULL}, user : Users \cup {NULL},
                     project : Project \cup {NULL}]
      /\ stored'.user = auth.user /\ stored'.token = auth.user /\ stored'.project = stored.project
      /\ auth' \in AuthCall /\ auth'.user = auth.user /\ auth'.pc = "projects"
  BY <1>2, <1>3 DEF SessionInv, TypeOK, AuthCall
<1>5. AuthOK'
  BY <1>2, <1>3, <1>4 DEF AuthOK, server
<1>6. CallsOK
  BY <1>1, <1>3, <1>5, PostStays, RefreshStays DEF CallsOK, SessionInv, TypeOK
<1>7. TypeOK'
  <2>1. crossed' \in BOOLEAN
    BY <1>3
  <2> QED
    BY <1>2, <1>3, <1>4, <2>1 DEF SessionInv, TypeOK, server
<1>8. IdentityAgrees'
  BY <1>2, <1>3, <1>4 DEF IdentityAgrees
<1>9. PageIsOwn'
  <2> SUFFICES ASSUME ~crossed' PROVE PageIsOwn'
    BY DEF PageIsOwn
  <2>1. ~crossed /\ user \in {NULL, auth.user}
    BY <1>3
  <2>2. CASE user = NULL
    BY <1>2, <1>3, <2>1, <2>2 DEF SessionInv, PageIsOwn
  <2>3. CASE user = auth.user
    BY <1>2, <1>3, <1>4, <2>1, <2>3 DEF SessionInv, PageIsOwn, server
  <2> QED
    BY <2>1, <2>2, <2>3
<1>10. stored'.token # NULL => org'[stored'.token] # NULL
  BY <1>2, <1>3, <1>4 DEF server
<1> QED
  BY <1>1, <1>6, <1>7, <1>8, <1>9, <1>10, CallsAfter DEF CallsOK, ServerGrows

\* An answer with projects: its first, and that all are of the user.
LEMMA AnswerOfAccount ==
    ASSUME NEW data \in Seq(Project), data # <<>>
    PROVE  data[1] \in Elements(data) /\ Elements(data) \subseteq Project
<1>1. data[1] \in Elements(data)
  BY HeadIsElement
<1>2. Elements(data) \subseteq Project
  BY DEF Elements
<1> QED
  BY <1>1, <1>2

\* The second answer of a login: a whole page, of the user who asked.
LEMMA AuthProjectsKeeps == SessionInv /\ AuthProjects => SessionInv'
<1> SUFFICES ASSUME SessionInv, AuthProjects PROVE SessionInv'
  OBVIOUS
<1> DEFINE data == auth.data
           p == data[1]
<1>1. /\ auth.user \in Users /\ auth.user # NULL /\ org[auth.user] # NULL /\ auth.pc = "listed"
      /\ data \in Seq(Project) /\ data # <<>>
      /\ Elements(data) \subseteq Elements(projects[org[auth.user]])
  BY Calls, NullIsNoName DEF AuthProjects, AuthOK, AuthCall
<1>2. p \in Elements(data) /\ Elements(data) \subseteq Project
  BY <1>1, AnswerOfAccount
<1>3. /\ list' = Elements(data) /\ current' = p
      /\ stored' = [stored EXCEPT !.project = p]
      /\ crossed' = (auth.user # token) /\ auth' = NoAuth
      /\ UNCHANGED <<server, user, token, refresh, post, partial>>
  BY <1>1 DEF AuthProjects
<1> HIDE DEF data, p
<1>4. ServerGrows
  BY <1>3, ServerStays DEF SessionInv
<1>5. CallsOK
  BY <1>3, <1>4, AuthStays, PostStays, RefreshStays DEF CallsOK, SessionInv, TypeOK
<1>6. /\ stored' \in [token : Users \cup {NULL}, user : Users \cup {NULL},
                     project : Project \cup {NULL}]
      /\ stored'.user = stored.user /\ stored'.token = stored.token /\ stored'.project = p
  BY <1>2, <1>3 DEF SessionInv, TypeOK
<1>7. TypeOK'
  <2>1. crossed' \in BOOLEAN
    BY <1>3
  <2>2. list' \subseteq Project /\ current' \in Project
    BY <1>2, <1>3
  <2> QED
    BY <1>3, <1>6, <2>1, <2>2, Over DEF SessionInv, TypeOK, server
<1>8. IdentityAgrees'
  BY <1>3, <1>6, Over DEF SessionInv, IdentityAgrees
<1>9. PageIsOwn'
  <2> SUFFICES ASSUME auth.user = token PROVE PageIsOwn'
    BY <1>3 DEF PageIsOwn
  <2>1. user = auth.user
    BY <1>1 DEF SessionInv, IdentityAgrees
  <2> QED
    BY <1>1, <1>2, <1>3, <1>6, <2>1 DEF PageIsOwn, server
<1>10. stored'.token # NULL => org'[stored'.token] # NULL
  BY <1>3, <1>6 DEF SessionInv, SendersHaveAccounts, server
<1> QED
  BY <1>4, <1>5, <1>7, <1>8, <1>9, <1>10, CallsAfter DEF CallsOK, ServerGrows

LEMMA ChooseKeeps ==
    ASSUME SessionInv, NEW p \in Project, Choose(p)
    PROVE  SessionInv'
<1> USE DEF SessionInv
<1>1. /\ user # NULL /\ p \in list /\ current' = p
      /\ stored' = [stored EXCEPT !.project = p]
      /\ UNCHANGED <<server, user, token, list, auth, refresh, post, crossed, partial>>
  BY DEF Choose
<1>2. /\ stored' \in [token : Users \cup {NULL}, user : Users \cup {NULL},
                     project : Project \cup {NULL}]
      /\ stored'.user = stored.user /\ stored'.token = stored.token /\ stored'.project = p
  BY <1>1 DEF TypeOK
<1>3. TypeOK'
  BY <1>1, <1>2 DEF TypeOK, server
<1>4. IdentityAgrees' /\ SendersHaveAccounts' /\ AccountHasProject' /\ AnswersAreOwn'
  BY <1>1, <1>2 DEF IdentityAgrees, SendersHaveAccounts, AccountHasProject, AnswersAreOwn, server
<1>5. PageIsOwn'
  <2>1. token # NULL
    BY <1>1 DEF IdentityAgrees
  <2> QED
    BY <1>1, <1>2, <2>1 DEF PageIsOwn, server
<1> QED
  BY <1>3, <1>4, <1>5

\* A page that loads has an identity and no more.
LEMMA LoadKeeps == SessionInv /\ Load => SessionInv'
<1> SUFFICES ASSUME SessionInv, Load PROVE SessionInv'
  OBVIOUS
<1>1. /\ user' = NULL /\ token' = stored.token /\ list' = {} /\ current' = NULL
      /\ stored' = IF stored.token = NULL THEN Empty ELSE stored
      /\ auth' = NoAuth /\ post' = NoPost
      /\ refresh' = [f \in Callers |-> Refresh(IF f = "init" THEN stored.token ELSE NULL)]
      /\ crossed' = FALSE
      /\ UNCHANGED <<server, partial>>
  BY DEF Load
<1>2. /\ stored.token \in Users \cup {NULL} /\ stored.user = stored.token
      /\ stored.token # NULL => org[stored.token] # NULL
  BY DEF SessionInv, TypeOK, IdentityAgrees, SendersHaveAccounts
<1>3. /\ stored' \in [token : Users \cup {NULL}, user : Users \cup {NULL},
                     project : Project \cup {NULL}]
      /\ stored'.token = stored.token /\ stored'.user = stored.token
      /\ stored.token = NULL => stored' = Empty
  BY <1>1, <1>2 DEF SessionInv, TypeOK, Empty
<1>4. ServerGrows
  BY <1>1, ServerStays DEF SessionInv
<1>5. /\ refresh' \in [Callers -> RefreshCall]
      /\ refresh'["init"] = Refresh(stored.token) /\ refresh'["create"] = NoRefresh
  BY <1>1, <1>2, Over DEF Callers, NoRefresh
<1>6. RefreshOK'
  BY <1>2, <1>4, <1>5, Over, RefreshStays DEF Callers, NoRefresh
<1>7. CallsOK
  BY <1>1, <1>4, <1>6, AuthStays, PostStays DEF CallsOK, SessionInv, TypeOK
<1>8. TypeOK'
  <2>1. crossed' \in BOOLEAN
    BY <1>1
  <2> QED
    BY <1>1, <1>2, <1>3, <1>4, <1>7, <2>1 DEF TypeOK, ServerGrows, CallsOK, AuthOK, RefreshOK,
       PostOK
<1>9. IdentityAgrees' /\ PageIsOwn'
  BY <1>1, <1>2, <1>3, <1>5, Over DEF IdentityAgrees, PageIsOwn
<1> QED
  BY <1>1, <1>2, <1>3, <1>4, <1>7, <1>8, <1>9, CallsAfter DEF CallsOK, ServerGrows, server

\* A project has been created: the refresh begins, or the session ends.
LEMMA PostAnswerKeeps == SessionInv /\ PostAnswer => SessionInv'
<1> SUFFICES ASSUME SessionInv, PostAnswer PROVE SessionInv'
  OBVIOUS
<1>1. ServerGrows
  BY ServerStays DEF SessionInv, PostAnswer
<1>2. /\ post' = NoPost /\ UNCHANGED <<server, auth, partial>>
      /\ refresh' = [refresh EXCEPT !["create"] = Refresh(stored.token)]
      /\ IF stored.token = NULL THEN Forget ELSE UNCHANGED <<page, crossed>>
  BY DEF PostAnswer, StartRefresh
<1>3. /\ stored.token \in Users \cup {NULL} /\ refresh \in [Callers -> RefreshCall]
      /\ stored.token # NULL => org[stored.token] # NULL
  BY DEF SessionInv, TypeOK, SendersHaveAccounts
<1>4. /\ refresh' \in [Callers -> RefreshCall] /\ refresh'["init"] = refresh["init"]
      /\ \A f \in Callers : refresh'[f] \in {refresh[f], Refresh(stored.token)}
  BY <1>2, <1>3, Over DEF Callers, NoRefresh
<1>5. RefreshOK'
  <2>1. CASE stored.token = NULL
    BY <1>1, <1>4, <2>1, Over, RefreshStays DEF NoRefresh
  <2>2. CASE stored.token # NULL
    BY <1>1, <1>3, <1>4, <2>2, Over, RefreshStays
  <2> QED
    BY <2>1, <2>2
<1>6. CallsOK
  BY <1>1, <1>2, <1>5, AuthStays, PostStays DEF CallsOK, SessionInv, TypeOK
<1>7. CASE stored.token = NULL
  BY <1>1, <1>2, <1>6, <1>7, ForgetKeeps
<1>8. CASE stored.token # NULL
  BY <1>1, <1>2, <1>4, <1>6, <1>8, PageUntouched DEF SessionInv, IdentityAgrees
<1> QED
  BY <1>7, <1>8

\* The answer of a refresh: a whole page, unless the user is another by now.
LEMMA RefreshAnswerKeeps ==
    ASSUME SessionInv, NEW f \in Callers, RefreshAnswer(f)
    PROVE  SessionInv'
<1> DEFINE asked == refresh[f].user
           data == refresh[f].data
<1>1. /\ asked \in Users /\ asked # NULL /\ org[asked] # NULL
      /\ data \in Seq(Project) /\ data # <<>>
      /\ Elements(data) \subseteq Elements(projects[org[asked]])
  BY Calls, NullIsNoName DEF RefreshOK, RefreshCall, RefreshAnswer
<1>2. data[1] \in Elements(data) /\ Elements(data) \subseteq Project
  BY <1>1, AnswerOfAccount
<1>3. EndRefresh(f) /\ UNCHANGED <<server, auth, post, partial>>
  BY DEF RefreshAnswer
<1>4. ServerGrows
  BY <1>3, ServerStays DEF SessionInv
<1>5. CallsOK
  BY <1>3, <1>4, RefreshEnds
<1>6. CASE stored.user = NULL
  BY <1>4, <1>5, <1>6, ForgetKeeps DEF RefreshAnswer
<1>7. CASE stored.user # NULL
  <2> DEFINE p == Chosen(data)
  <2>1. p \in Elements(data) /\ p \in Project
    BY <1>2 DEF Chosen
  <2>2. /\ user' = stored.user /\ list' = Elements(data) /\ current' = p
        /\ stored' = [stored EXCEPT !.project = p]
        /\ crossed' = (asked # stored.user) /\ UNCHANGED token
    BY <1>1, <1>7 DEF RefreshAnswer
  <2> HIDE DEF p, data, asked
  <2>3. /\ stored' \in [token : Users \cup {NULL}, user : Users \cup {NULL},
                       project : Project \cup {NULL}]
        /\ stored'.user = stored.user /\ stored'.token = stored.token /\ stored'.project = p
    BY <2>1, <2>2 DEF SessionInv, TypeOK
  <2>4. TypeOK'
    <3>1. crossed' \in BOOLEAN
      BY <2>2
    <3>2. user' \in Users \cup {NULL} /\ list' \subseteq Project /\ current' \in Project
      BY <1>2, <2>1, <2>2 DEF SessionInv, TypeOK
    <3> QED
      BY <1>4, <1>5, <2>2, <2>3, <3>1, <3>2
         DEF SessionInv, TypeOK, ServerGrows, CallsOK, AuthOK, RefreshOK, PostOK
  <2>5. IdentityAgrees'
    BY <1>7, <2>2, <2>3 DEF SessionInv, IdentityAgrees
  <2>6. stored'.token # NULL => org'[stored'.token] # NULL
    BY <1>3, <2>3 DEF SessionInv, SendersHaveAccounts, server
  <2>7. PageIsOwn'
    BY <1>1, <1>3, <1>7, <2>1, <2>2, <2>3 DEF SessionInv, PageIsOwn, IdentityAgrees, server
  <2> QED
    BY <1>4, <1>5, <2>4, <2>5, <2>6, <2>7, CallsAfter DEF ServerGrows, CallsOK
<1> QED
  BY <1>6, <1>7

(***************************************************************************)
(* The theorems.                                                           *)
(***************************************************************************)
LEMMA InitSessionInv == Init => SessionInv
<1> SUFFICES ASSUME Init PROVE SessionInv
  OBVIOUS
<1>1. \A o \in Orgs : Default(o) \in Project /\ Default(o).org = o
  BY NamesIncludeDefault DEF Default, Project
<1>2. /\ org = Known /\ org \in [Users -> Orgs \cup {NULL}]
      /\ projects = [o \in Orgs |-> IF \E u \in Users : Known[u] = o THEN <<Default(o)>> ELSE <<>>]
  BY KnownAccounts DEF Init
<1>3. \A o \in Orgs : /\ projects[o] \in Seq(Project)
                      /\ \A p \in Elements(projects[o]) : p.org = o
  <2> SUFFICES ASSUME NEW o \in Orgs
               PROVE  projects[o] \in Seq(Project) /\ \A p \in Elements(projects[o]) : p.org = o
    OBVIOUS
  <2>1. PICK d \in Project : d = Default(o) /\ d.org = o
    BY <1>1
  <2>2. projects[o] = <<d>> \/ projects[o] = << >>
    BY <1>2, <2>1
  <2>3. <<d>> \in Seq(Project) /\ Elements(<<d>>) = {d}
    BY DEF Elements
  <2>4. << >> \in Seq(Project) /\ Elements(<< >>) = {}
    BY DEF Elements
  <2> QED
    BY <2>1, <2>2, <2>3, <2>4
<1>4. projects \in [Orgs -> Seq(Project)]
  BY <1>2, <1>3
<1>5. AccountHasProject
  BY <1>2 DEF AccountHasProject
<1>6. PICK u \in Users \cup {NULL} :
         stored = [token |-> u, user |-> u, project |-> NULL] /\ (u # NULL => Known[u] # NULL)
  BY DEF Init, Empty
<1>7. /\ stored \in [token : Users \cup {NULL}, user : Users \cup {NULL},
                    project : Project \cup {NULL}]
      /\ stored.token = u /\ stored.user = u /\ (u = NULL => stored = Empty)
  BY <1>6 DEF Empty
<1>8. /\ auth = NoAuth /\ post = NoPost
      /\ refresh \in [Callers -> RefreshCall] /\ refresh["init"] = Refresh(u)
      /\ \A f \in Callers : refresh[f] \in {Refresh(u), NoRefresh}
  BY <1>7, Over DEF Init, Callers, NoRefresh
<1>9. u # NULL => u \in Users /\ org[u] # NULL
  BY <1>2, <1>6
<1>10. TypeOK
  <2>1. crossed \in BOOLEAN /\ partial \in BOOLEAN
    BY DEF Init
  <2> QED
    BY <1>2, <1>3, <1>4, <1>7, <1>8, Over, <2>1 DEF Init, TypeOK
<1>11. IdentityAgrees /\ PageIsOwn
  BY <1>7, <1>8, <1>9, Over DEF Init, IdentityAgrees, PageIsOwn
<1>12. AuthOK /\ RefreshOK /\ PostOK
  BY <1>8, <1>9, Over DEF AuthOK, RefreshOK, PostOK, NoRefresh
<1> QED
  BY <1>5, <1>7, <1>9, <1>10, <1>11, <1>12, Calls

\* Every step preserves the invariant.
LEMMA NextSessionInv == SessionInv /\ [Next]_vars => SessionInv'
<1> SUFFICES ASSUME SessionInv, [Next]_vars PROVE SessionInv'
  OBVIOUS
<1>1. CASE UNCHANGED vars
  <2>1. ServerGrows
    BY <1>1, ServerStays DEF SessionInv, vars
  <2>2. CallsOK
    BY <1>1, <2>1, AuthStays, PostStays, RefreshStays DEF CallsOK, SessionInv, TypeOK, vars
  <2> QED
    BY <1>1, <2>1, <2>2, PageUntouched DEF SessionInv, IdentityAgrees, vars
<1> QED
  BY <1>1, LogoutKeeps, LoadKeeps, LoginServedKeeps, RegisterServedKeeps, SignInKeeps,
     ProjectsServedKeeps, AuthProjectsKeeps, AuthFailsKeeps, PostServedKeeps, PostAnswerKeeps,
     PostFailsKeeps, RefreshServedKeeps, RefreshAnswerKeeps, RefreshFailsKeeps, SubmitKeeps,
     ChooseKeeps, PostProjectKeeps DEF Next, Authenticate, Refreshes

\* The invariant holds in every reachable state.
THEOREM SessionInvariance == Spec => []SessionInv
<1>1. Init => SessionInv
  BY InitSessionInv
<1>2. SessionInv /\ [Next]_vars => SessionInv'
  BY NextSessionInv
<1> QED
  BY <1>1, <1>2, PTL DEF Spec

\* The page, its token and localStorage speak of one user.
THEOREM IdentityIsOne == Spec => []OneIdentity
<1>1. SessionInv => OneIdentity
  BY DEF SessionInv, IdentityAgrees, OneIdentity
<1> QED
  BY <1>1, SessionInvariance, PTL

\* The projects shown are those of the user, unless the last answer was for
\* another session.
THEOREM ProjectsAreOwn == Spec => []ProjectsOfUser
<1>1. SessionInv => ProjectsOfUser
  <2> SUFFICES ASSUME SessionInv, ~crossed, user # NULL, NEW p \in list \cup {current}, p # NULL
               PROVE  p.org = org[user]
    BY DEF ProjectsOfUser
  <2>1. user \in Users /\ org[user] \in Orgs
    BY DEF SessionInv, TypeOK, IdentityAgrees, SendersHaveAccounts
  <2>2. p \in Elements(projects[org[user]])
    BY DEF SessionInv, PageIsOwn
  <2> QED
    BY <2>1, <2>2 DEF SessionInv, TypeOK
<1> QED
  BY <1>1, SessionInvariance, PTL

\* Nothing of a session is left when it has ended, but for a late answer.
THEOREM LogoutComplete == Spec => []LogoutIsComplete
<1>1. SessionInv => LogoutIsComplete
  BY DEF SessionInv, IdentityAgrees, PageIsOwn, LogoutIsComplete
<1> QED
  BY <1>1, SessionInvariance, PTL

\* An account has a project.
THEOREM NobodyLockedOut == Spec => []AccountHasProject
<1>1. SessionInv => AccountHasProject
  BY DEF SessionInv
<1> QED
  BY <1>1, SessionInvariance, PTL

\* The refreshes of a session keep the choice of a project, unless it is newer
\* than their answer.
THEOREM ChoiceKept == Spec => ChoiceSurvives
<1>1. ASSUME SessionInv, [Next]_vars, NEW f \in Callers,
             refresh[f].pc = "served", refresh'[f].pc = "idle",
             refresh[f].user = user, user' = user,
             ~crossed, current \notin Newer(f) \cup {NULL}
      PROVE  current' = current
  <2>1. user \in Users /\ user # NULL /\ refresh \in [Callers -> RefreshCall]
    BY <1>1, Calls, NullIsNoName DEF SessionInv, TypeOK, RefreshOK
  <2>2. CASE RefreshAnswer(f)
    <3>1. stored.user = user /\ stored.project = current
          /\ current \in Elements(projects[org[user]])
      BY <1>1 DEF SessionInv, IdentityAgrees, PageIsOwn
    <3>2. current \in Elements(refresh[f].data)
      BY <1>1, <3>1 DEF Newer
    <3>3. refresh[f].data # <<>>
      BY <1>1, Calls DEF RefreshOK
    <3> QED
      BY <2>1, <2>2, <3>1, <3>2, <3>3 DEF RefreshAnswer, Chosen
  <2>3. CASE \E g \in Callers \ {f} : Refreshes(g)
    BY <1>1, <2>1, <2>3 DEF Refreshes, RefreshServed, RefreshAnswer, RefreshFails, EndRefresh
  <2>4. CASE RefreshServed(f)
    BY <1>1, <2>4 DEF RefreshServed
  <2>5. CASE RefreshFails(f) \/ Logout \/ Load
    BY <1>1, <2>1, <2>5 DEF RefreshFails, Logout, Load, Forget
  <2>6. CASE PostAnswer
    <3>1. stored.token # NULL
      BY <1>1, <2>1 DEF SessionInv, IdentityAgrees
    <3> QED
      BY <2>6, <3>1 DEF PostAnswer, StartRefresh, page
  <2>7. CASE \/ Authenticate \/ PostServed \/ PostFails \/ UNCHANGED vars
             \/ \E u \in Users, o \in Orgs \cup {NULL} : Submit(u, o)
             \/ \E p \in Project : Choose(p)
             \/ \E n \in Names : PostProject(n)
    <3>1. UNCHANGED refresh
      BY <2>7 DEF Authenticate, LoginServed, RegisterServed, SignIn, ProjectsServed, AuthProjects,
                  AuthFails, PostServed, PostFails, vars, Submit, Choose, PostProject
    <3> QED
      BY <1>1, <3>1
  <2> QED
    BY <1>1, <2>2, <2>3, <2>4, <2>5, <2>6, <2>7 DEF Next, Refreshes
<1>2. SessionInv /\ [Next]_vars =>
        [\A f \in Callers :
            refresh[f].pc = "served" /\ refresh'[f].pc = "idle" /\ refresh[f].user = user
                /\ user' = user /\ ~crossed /\ current \notin Newer(f) \cup {NULL}
            => current' = current]_vars
  BY <1>1
<1> QED
  BY <1>2, SessionInvariance, PTL DEF Spec, ChoiceSurvives
=============================================================================
