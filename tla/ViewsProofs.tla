----------------------------- MODULE ViewsProofs -----------------------------
(***************************************************************************)
(* Proofs about Views, for any items, projects and selections and any      *)
(* number of requests in flight.                                           *)
(***************************************************************************)
EXTENDS Views, FiniteSetTheorems, TLAPS

(***************************************************************************)
(* The inductive invariant. While no answers can have overtaken each other *)
(* there is at most one list in flight and every request is of the         *)
(* selection. An answer on its way agrees with the server on every row but *)
(* those that others changed since it was read and those of the user's own *)
(* applied changes, whose lists are still to follow; so does what is shown *)
(* if no list is to follow.                                                *)
(***************************************************************************)
Rows == Listed(Selected)
Listing(s) == s \in Busy /\ requests[s].op = "list"
Applied(s) == s \in Busy /\ requests[s].op # "list" /\ requests[s].data = "done"
Behind(i) == i \in foreign \/ \E s \in Slots : Applied(s) /\ requests[s].item = i
Agree(data) == \A i \in Items : ~Behind(i) => Row(data, i) = Row(Rows, i)

OneList == \A r, s \in Slots : Listing(r) /\ Listing(s) => r = s
AsksForSelected == \A s \in Busy : requests[s].sel = Selected
AnswersAreCurrent == \A s \in Slots : Listing(s) /\ requests[s].data # NULL => Agree(requests[s].data)
ShownIsCurrent ==
    (~failed /\ ~NoProject /\ \A s \in Slots : ~Listing(s))
        => shown # NULL /\ shown.sel = Selected /\ Agree(shown.data)

InOrder == OneList /\ AsksForSelected /\ AnswersAreCurrent /\ ShownIsCurrent

\* Outside the dead letter view one row at a time is marked.
OneMark == kind # "dlq" => \A i, k \in marks \cap Items : i = k

\* A request has no data before it is handled.
SentOK == \A s \in Busy : requests[s].stage = "sent" => requests[s].data = NULL

VInv == TypeOK /\ SentOK /\ OneMark /\ (view.polls \/ overlapped \/ InOrder)

RequestsOK ==
    /\ DOMAIN requests = Slots
    /\ \A s \in Busy :
          IF requests[s].op = "list" THEN requests[s] \in ListRequests
          ELSE requests[s] \in ChangeRequests /\ requests[s].op \in view.changes
    /\ SentOK

(***************************************************************************)
(* The views, the requests and the rows.                                   *)
(***************************************************************************)
\* What the seven views have in common.
LEMMA ViewType ==
    ASSUME kind \in DOMAIN Views
    PROVE  /\ view.changes \subseteq Operations
           /\ view.scoped \in BOOLEAN
           /\ view.polls <=> kind = "jobs"
           /\ kind = "dlq" => view.changes = {"remove"}
<1>1. CASE kind = "jobs"
  <2>1. view = View(TRUE, TRUE, TRUE, {"toggle", "add"})
    BY <1>1 DEF view, Views, JobExplorerView
  <2>2. view.polls = TRUE /\ view.scoped = TRUE /\ view.changes = {"toggle", "add"}
    BY <2>1 DEF View
  <2> QED
    BY <1>1, <2>2 DEF Operations
<1>2. CASE kind = "dlq"
  <2>1. view = View(FALSE, TRUE, TRUE, {"remove"})
    BY <1>2 DEF view, Views, DlqView
  <2>2. view.polls = FALSE /\ view.scoped = TRUE /\ view.changes = {"remove"}
    BY <2>1 DEF View
  <2> QED
    BY <1>2, <2>2 DEF Operations
<1>3. CASE kind = "queues"
  <2>1. view = View(FALSE, TRUE, FALSE, {"toggle", "add"})
    BY <1>3 DEF view, Views, QueuesView
  <2>2. view.polls = FALSE /\ view.scoped = TRUE /\ view.changes = {"toggle", "add"}
    BY <2>1 DEF View
  <2> QED
    BY <1>3, <2>2 DEF Operations
<1>4. CASE kind = "cron"
  <2>1. view = View(FALSE, TRUE, FALSE, {"toggle", "remove", "add"})
    BY <1>4 DEF view, Views, CronView
  <2>2. view.polls = FALSE /\ view.scoped = TRUE /\ view.changes = {"toggle", "remove", "add"}
    BY <2>1 DEF View
  <2> QED
    BY <1>4, <2>2 DEF Operations
<1>5. CASE kind = "apikeys"
  <2>1. view = View(FALSE, FALSE, FALSE, {"remove", "add"})
    BY <1>5 DEF view, Views, ApiKeysView
  <2>2. view.polls = FALSE /\ view.scoped = FALSE /\ view.changes = {"remove", "add"}
    BY <2>1 DEF View
  <2> QED
    BY <1>5, <2>2 DEF Operations
<1>6. CASE kind = "overview"
  <2>1. view = View(FALSE, TRUE, FALSE, {})
    BY <1>6 DEF view, Views, OverviewView
  <2>2. view.polls = FALSE /\ view.scoped = TRUE /\ view.changes = {}
    BY <2>1 DEF View
  <2> QED
    BY <1>6, <2>2 DEF Operations
<1>7. CASE kind = "workers"
  <2>1. view = View(FALSE, FALSE, FALSE, {})
    BY <1>7 DEF view, Views, WorkersView
  <2>2. view.polls = FALSE /\ view.scoped = FALSE /\ view.changes = {}
    BY <2>1 DEF View
  <2> QED
    BY <1>7, <2>2 DEF Operations
<1> QED
  BY <1>1, <1>2, <1>3, <1>4, <1>5, <1>6, <1>7 DEF Views

\* A selection is one of the selections.
LEMMA SelectedType ==
    ASSUME TypeOK
    PROVE  Selected \in Selections
BY DEF TypeOK, Selected, Selection, Selections

\* What a list that was just requested looks like.
LEMMA ListType ==
    ASSUME NEW sel \in Selections, NEW done \in {NULL} \cup (Operations \X Items)
    PROVE  /\ List(sel, done) \in ListRequests
           /\ List(sel, done) # NULL
           /\ List(sel, done).op = "list" /\ List(sel, done).data = NULL
           /\ List(sel, done).sel = sel
<1>1. List(sel, done) \in ListRequests
  BY DEF List, ListRequests, Stages
<1> QED
  BY <1>1, NullIsNoObject DEF List

\* What a change that was just requested looks like.
LEMMA ChangeType ==
    ASSUME TypeOK, NEW op \in Operations, NEW i \in Items, NEW to \in {"on", "off", "gone"}
    PROVE  /\ Change(op, i, to) \in ChangeRequests
           /\ Change(op, i, to) # NULL
           /\ Change(op, i, to).op = op /\ Change(op, i, to).op # "list"
           /\ Change(op, i, to).data = NULL /\ Change(op, i, to).sel = Selected
<1>1. Change(op, i, to) \in ChangeRequests
  BY SelectedType DEF Change, ChangeRequests, Stages
<1> QED
  BY <1>1, NullIsNoObject DEF Change, Operations

\* The server answers a list with rows of the items.
LEMMA ListedType ==
    ASSUME items \in [Items -> {"on", "off", "gone"}], NEW sel
    PROVE  Listed(sel) \in Lists
<1> DEFINE S == {k \in Items : items[k] # "gone" /\ (view.scoped => Home[k] = sel.project)}
<1>1. Listed(sel) = [i \in S |-> items[i]]
  BY DEF Listed
<1>2. S \in SUBSET Items /\ \A i \in S : items[i] \in {"on", "off"}
  OBVIOUS
<1>3. \A T, f : (\A i \in T : f[i] \in {"on", "off"}) => [i \in T |-> f[i]] \in [T -> {"on", "off"}]
  OBVIOUS
<1> HIDE DEF S
<1>4. [i \in S |-> items[i]] \in [S -> {"on", "off"}]
  BY <1>2, <1>3
<1> QED
  BY <1>1, <1>2, <1>4 DEF Lists

\* Putting a request into a slot, or clearing it.
LEMMA PutKeepsRequests ==
    ASSUME RequestsOK, kind' = kind, NEW s \in Slots, NEW x,
           \/ x = NULL
           \/ x.op = "list" /\ x \in ListRequests
           \/ x.op # "list" /\ x \in ChangeRequests /\ x.op \in view.changes,
           x # NULL /\ x.stage = "sent" => x.data = NULL,
           requests' = [requests EXCEPT ![s] = x]
    PROVE  RequestsOK'
<1>1. /\ DOMAIN requests' = Slots /\ requests'[s] = x
      /\ \A r \in Slots : r # s => requests'[r] = requests[r]
      /\ view' = view
  BY DEF RequestsOK, view
<1> QED
  BY <1>1 DEF RequestsOK, SentOK, Busy

\* The record of a request after it was handled.
LEMMA HandledRecord ==
    ASSUME NEW r \in ListRequests \cup ChangeRequests, NEW data
    PROVE  [[r EXCEPT !.stage = "handled"] EXCEPT !.data = data]
             = [op |-> r.op, sel |-> r.sel, item |-> r.item, to |-> r.to, done |-> r.done,
                stage |-> "handled", data |-> data]
<1> DEFINE h == [r EXCEPT !.stage = "handled"]
<1>1. CASE r \in ListRequests
  <2>1. /\ h \in ListRequests
        /\ h.op = r.op /\ h.sel = r.sel /\ h.item = r.item /\ h.to = r.to /\ h.done = r.done
        /\ h.stage = "handled"
    BY <1>1 DEF ListRequests, Stages
  <2> HIDE DEF h
  <2>2. [h EXCEPT !.data = data] = [op |-> h.op, sel |-> h.sel, item |-> h.item, to |-> h.to,
                                    done |-> h.done, stage |-> h.stage, data |-> data]
    BY <2>1 DEF ListRequests
  <2> QED
    BY <2>1, <2>2 DEF h
<1>2. CASE r \in ChangeRequests
  <2>1. /\ h \in ChangeRequests
        /\ h.op = r.op /\ h.sel = r.sel /\ h.item = r.item /\ h.to = r.to /\ h.done = r.done
        /\ h.stage = "handled"
    BY <1>2 DEF ChangeRequests, Stages
  <2> HIDE DEF h
  <2>2. [h EXCEPT !.data = data] = [op |-> h.op, sel |-> h.sel, item |-> h.item, to |-> h.to,
                                    done |-> h.done, stage |-> h.stage, data |-> data]
    BY <2>1 DEF ChangeRequests
  <2> QED
    BY <2>1, <2>2 DEF h
<1> QED
  BY <1>1, <1>2

\* A request that is handled: it keeps what was asked and gets its data.
LEMMA HandledEffect ==
    ASSUME RequestsOK, NEW s \in Busy, NEW data, Handled(s, data)
    PROVE  /\ requests' = [requests EXCEPT ![s] = requests'[s]]
           /\ requests'[s].op = requests[s].op /\ requests'[s].sel = requests[s].sel
           /\ requests'[s].item = requests[s].item
           /\ requests'[s].data = data /\ requests'[s].stage = "handled"
           /\ requests[s] \in ListRequests /\ data \in {NULL} \cup Lists
                => requests'[s] \in ListRequests
           /\ requests[s] \in ChangeRequests /\ data \in {NULL, "done"}
                => requests'[s] \in ChangeRequests
<1>1. s \in Slots /\ DOMAIN requests = Slots
  BY DEF Busy, RequestsOK
<1> DEFINE r == requests[s]
           h == [[r EXCEPT !.stage = "handled"] EXCEPT !.data = data]
<1>2. requests' = [requests EXCEPT ![s] = h]
  BY <1>1 DEF Handled
<1>3. r \in ListRequests \cup ChangeRequests
  BY DEF RequestsOK
<1>4. h = [op |-> r.op, sel |-> r.sel, item |-> r.item, to |-> r.to, done |-> r.done,
           stage |-> "handled", data |-> data]
  BY <1>3, HandledRecord
<1> HIDE DEF h
<1>5. requests'[s] = h
  BY <1>1, <1>2
<1>6. r \in ListRequests /\ data \in {NULL} \cup Lists => h \in ListRequests
  BY <1>4 DEF ListRequests, Stages
<1>7. r \in ChangeRequests /\ data \in {NULL, "done"} => h \in ChangeRequests
  BY <1>4 DEF ChangeRequests, Stages
<1>8. h.op = r.op /\ h.sel = r.sel /\ h.item = r.item /\ h.data = data /\ h.stage = "handled"
  BY <1>4
<1> HIDE DEF r
<1> QED
  BY <1>2, <1>5, <1>6, <1>7, <1>8 DEF r

\* At most one of the rows is marked, unless the view is that of dead letters.
LEMMA FewMarks ==
    ASSUME NEW M, NEW k, k # "dlq" => \A i, j \in M \cap Items : i = j
    PROVE  Cardinality(M \cap Items) > 1 => k = "dlq"
<1> SUFFICES ASSUME \A i, j \in M \cap Items : i = j
             PROVE  ~(Cardinality(M \cap Items) > 1)
  OBVIOUS
<1>1. CASE M \cap Items = {}
  BY <1>1, FS_EmptySet
<1>2. CASE M \cap Items # {}
  <2>1. PICK i : M \cap Items = {i}
    BY <1>2
  <2> QED
    BY <2>1, FS_Singleton
<1> QED
  BY <1>1, <1>2

(***************************************************************************)
(* The selection changes.                                                  *)
(***************************************************************************)
\* Where the effect runs with nothing in flight, its list is the only request,
\* if there is a project to list.
LEMMA EffectRuns ==
    ASSUME VInv, UNCHANGED kind, NEW s \in Slots, RunEffect(s), Selected' \in Selections
    PROVE  /\ effect' \in Selections
           /\ RequestsOK'
           /\ loading' \in BOOLEAN /\ overlapped' \in BOOLEAN
           /\ overlapped' \/ InOrder'
<1> DEFINE l == List(Selected', NULL)
<1>1. /\ l \in ListRequests /\ l # NULL /\ l.op = "list" /\ l.data = NULL /\ l.sel = Selected'
  BY ListType
<1>2. \/ requests' = requests /\ NoProject'
      \/ requests[s] = NULL /\ requests' = [requests EXCEPT ![s] = l]
  <2>1. view' = view /\ (view'.scoped => Selected'.project = project')
    BY DEF view, Selected, Selection
  <2> QED
    BY <2>1 DEF RunEffect, Fetch, NoProject
<1> HIDE DEF l
<1>3. RequestsOK
  BY DEF VInv, TypeOK, RequestsOK
<1>4. RequestsOK'
  <2>1. CASE requests' = requests
    BY <1>3, <2>1 DEF RequestsOK, SentOK, Busy, view
  <2>2. CASE requests' = [requests EXCEPT ![s] = l]
    BY <1>1, <1>3, <2>2, PutKeepsRequests
  <2> QED
    BY <1>2, <2>1, <2>2
<1>5. overlapped \in BOOLEAN /\ overlapped' = (overlapped \/ Busy # {})
  BY DEF VInv, TypeOK, RunEffect
<1>6. ASSUME ~overlapped' PROVE InOrder'
  <2>1. \A r \in Slots : requests[r] = NULL
    BY <1>5, <1>6 DEF Busy
  <2>2. CASE requests' = requests /\ NoProject'
    BY <2>1, <2>2
       DEF InOrder, OneList, AsksForSelected, AnswersAreCurrent, ShownIsCurrent, Listing, Busy
  <2>3. CASE requests' = [requests EXCEPT ![s] = l]
    <3>1. requests'[s] = l /\ \A r \in Slots : r # s => requests'[r] = NULL
      BY <1>3, <2>1, <2>3 DEF RequestsOK
    <3>2. Busy' = {s} /\ Listing(s)'
      BY <1>1, <3>1 DEF Busy, Listing
    <3>3. (\A r, t \in Slots : Listing(r) /\ Listing(t) => r = t)'
      BY <3>2 DEF Listing
    <3> QED
      BY <1>1, <3>1, <3>2, <3>3
         DEF InOrder, OneList, AsksForSelected, AnswersAreCurrent, ShownIsCurrent, Listing
  <2> QED
    BY <1>2, <2>2, <2>3
<1> QED
  BY <1>4, <1>5, <1>6 DEF RunEffect

\* Switching to another project, another page or another tab.
LEMMA SelectionStep ==
    ASSUME VInv, NEW s \in Slots,
           \/ \E p \in Projects : SwitchProject(p, s)
           \/ \E n \in {1, 2} : TurnPage(n, s)
           \/ \E t \in Tabs : ChooseTab(t, s)
    PROVE  VInv'
<1>1. TypeOK /\ OneMark /\ user \in Nat
  BY DEF VInv, TypeOK
<1>2. /\ UNCHANGED <<kind, items, shown, foreign, failed, others, failures, refreshing, marks>>
      /\ project' \in Projects \cup {NULL} /\ page' \in {1, 2} /\ tab' \in Tabs /\ text' = text
      /\ user' = user + 1 /\ user < MaxUser
  <2>1. project \in Projects \cup {NULL} /\ page \in {1, 2} /\ tab \in Tabs
    BY <1>1 DEF TypeOK, Selection, Selections
  <2>2. CASE \E p \in Projects : SwitchProject(p, s)
    BY <2>1, <2>2 DEF SwitchProject, UserActs
  <2>3. CASE \E n \in {1, 2} : TurnPage(n, s)
    BY <2>1, <2>3 DEF TurnPage, UserActs
  <2>4. CASE \E t \in Tabs : ChooseTab(t, s)
    BY <2>1, <2>4 DEF ChooseTab, UserActs
  <2> QED
    BY <2>2, <2>3, <2>4
<1>3. Selection(project, page, tab, text)' \in Selections /\ Selected' \in Selections
  BY <1>1, <1>2 DEF TypeOK, Selection, Selections, Selected
<1>4. /\ OneMark'
      /\ Cardinality(marks' \cap Items) > 1 => kind' = "dlq"
  BY <1>1, <1>2, FewMarks DEF OneMark
<1>5. user' \in 0..MaxUser
  BY <1>1, <1>2, ViewBounds DEF TypeOK
<1>6. CASE RunEffect(s)
  <2>1. /\ effect' \in Selections /\ RequestsOK'
        /\ loading' \in BOOLEAN /\ overlapped' \in BOOLEAN
        /\ overlapped' \/ InOrder'
    BY <1>2, <1>3, <1>6, EffectRuns
  <2>2. TypeOK' /\ SentOK'
    BY <1>1, <1>2, <1>3, <1>4, <1>5, <2>1 DEF TypeOK, RequestsOK
  <2> QED
    BY <1>4, <2>1, <2>2 DEF VInv
<1>7. CASE /\ \E p \in Projects : SwitchProject(p, s)
           /\ ~view.scoped /\ UNCHANGED <<effect, requests, loading, overlapped>>
  <2>1. UNCHANGED <<page, tab, text, view>> /\ Selected' = Selected
    BY <1>2, <1>7 DEF SwitchProject, Selected, view
  <2>2. Rows' = Rows
    BY <1>2, <1>7, <2>1 DEF Rows, Listed
  <2>3. InOrder => InOrder'
    <3>1. \A i \in Items : Behind(i)' <=> Behind(i)
      BY <1>2, <1>7 DEF Behind, Applied, Busy
    <3>2. ~NoProject
      BY <1>7 DEF NoProject
    <3> QED
      BY <1>2, <1>7, <2>1, <2>2, <3>1, <3>2
         DEF InOrder, OneList, AsksForSelected, AnswersAreCurrent, ShownIsCurrent, Agree, Listing, Busy
  <2>4. TypeOK' /\ SentOK'
    BY <1>1, <1>2, <1>3, <1>4, <1>5, <1>7, <2>1 DEF VInv, TypeOK, SentOK, Busy
  <2> QED
    BY <1>4, <1>7, <2>1, <2>3, <2>4 DEF VInv
<1> QED
  BY <1>6, <1>7 DEF SwitchProject, TurnPage, ChooseTab

(***************************************************************************)
(* The list is requested again.                                            *)
(***************************************************************************)
\* A list that is the only one in flight keeps the answers in order.
LEMMA ListKeepsOrder ==
    ASSUME RequestsOK, InOrder, Selected' = Selected, NEW s \in Slots,
           requests[s] = NULL \/ requests[s].op # "list",
           ListsBut(s) = {},
           NEW l, l # NULL, l.op = "list", l.data = NULL, l.sel = Selected,
           requests' = [requests EXCEPT ![s] = l]
    PROVE  InOrder'
<1>1. requests'[s] = l /\ \A r \in Slots : r # s => requests'[r] = requests[r]
  BY DEF RequestsOK
<1>2. \A r \in Slots : Listing(r)' <=> r = s
  BY <1>1 DEF Listing, Busy, ListsBut
<1>3. OneList'
  BY <1>2 DEF OneList, Listing, Busy
<1>4. AsksForSelected'
  BY <1>1 DEF InOrder, AsksForSelected, Busy
<1>5. AnswersAreCurrent'
  BY <1>1, <1>2 DEF AnswersAreCurrent, Listing
<1>6. ShownIsCurrent'
  BY <1>2 DEF ShownIsCurrent, Listing
<1> QED
  BY <1>3, <1>4, <1>5, <1>6 DEF InOrder

\* What a step that only concerns the requests and the loaders leaves alone.
Steady == UNCHANGED <<kind, project, page, tab, text, effect, items>>

\* A step that leaves the selection and the rows alone.
LEMMA SteadyType ==
    ASSUME TypeOK, Steady
    PROVE  /\ Selected' = Selected /\ view' = view /\ Rows' = Rows
           /\ NoProject' <=> NoProject
           /\ Selection(project, page, tab, text)' \in Selections
BY DEF TypeOK, Steady, Selected, view, Rows, Listed, Selection, NoProject

\* What agreed with the server still does, if no row but those that are behind
\* now has changed.
LEMMA AgreementKept ==
    ASSUME NEW data, Agree(data),
           \A i \in Items : ~Behind(i)' => ~Behind(i) /\ Row(Rows', i) = Row(Rows, i)
    PROVE  Agree(data)'
BY DEF Agree, Row

\* Nothing that the order of the answers depends on has changed.
LEMMA RequestsStay ==
    ASSUME TypeOK, Steady, UNCHANGED <<requests, shown, foreign, failed>>, InOrder
    PROVE  InOrder'
<1>1. Selected' = Selected /\ Rows' = Rows /\ (NoProject' <=> NoProject)
  BY SteadyType
<1>2. /\ \A i \in Items : Behind(i)' <=> Behind(i)
      /\ \A s \in Slots : Listing(s)' <=> Listing(s)
      /\ Busy' = Busy
  BY DEF Behind, Applied, Listing, Busy
<1> QED
  BY <1>1, <1>2
     DEF InOrder, OneList, AsksForSelected, AnswersAreCurrent, ShownIsCurrent, Agree

\* The refresh button.
LEMMA RefreshStep ==
    ASSUME VInv, NEW s \in Slots, Refresh(s)
    PROVE  VInv'
<1>1. TypeOK /\ OneMark /\ RequestsOK /\ Selected \in Selections
  BY SelectedType DEF VInv, TypeOK, RequestsOK
<1>2. /\ Steady /\ UNCHANGED <<shown, foreign, failed, others, failures, loading, marks>>
      /\ \/ requests' = requests
         \/ requests[s] = NULL /\ requests' = [requests EXCEPT ![s] = List(Selected, NULL)]
      /\ overlapped' = (overlapped \/ ListsBut(s) # {}) /\ refreshing'
      /\ user' = user + 1 /\ user < MaxUser
  BY <1>1 DEF Refresh, Fetch, UserActs, selection, Steady, TypeOK
<1>3. RequestsOK'
  <2>1. /\ List(Selected, NULL) \in ListRequests
        /\ List(Selected, NULL).op = "list" /\ List(Selected, NULL).data = NULL
    BY <1>1, ListType
  <2>2. CASE requests' = requests
    <3>1. view' = view
      BY <1>1, <1>2, SteadyType
    <3> QED
      BY <1>1, <2>2, <3>1 DEF RequestsOK, SentOK, Busy
  <2>3. CASE requests' = [requests EXCEPT ![s] = List(Selected, NULL)]
    BY <1>1, <1>2, <2>1, <2>3, PutKeepsRequests DEF Steady
  <2> QED
    BY <1>2, <2>2, <2>3
<1>4. InOrder /\ ~overlapped' => InOrder'
  <2> SUFFICES ASSUME InOrder, ~overlapped' PROVE InOrder'
    OBVIOUS
  <2>1. ListsBut(s) = {}
    BY <1>1, <1>2 DEF TypeOK
  <2>2. /\ List(Selected, NULL) # NULL /\ List(Selected, NULL).op = "list"
        /\ List(Selected, NULL).data = NULL /\ List(Selected, NULL).sel = Selected
    BY <1>1, ListType
  <2>3. Selected' = Selected
    BY <1>1, <1>2, SteadyType
  <2>4. CASE requests' = requests
    BY <1>1, <1>2, <2>4, RequestsStay
  <2> QED
    BY <1>1, <1>2, <2>1, <2>2, <2>3, <2>4, ListKeepsOrder
<1>5. user' \in 0..MaxUser
  BY <1>1, <1>2, ViewBounds DEF TypeOK
<1>6. TypeOK' /\ SentOK' /\ OneMark'
  BY <1>1, <1>2, <1>3, <1>5, SteadyType, FewMarks DEF TypeOK, RequestsOK, Steady, OneMark
<1> QED
  BY <1>1, <1>2, <1>4, <1>6, SteadyType DEF VInv, TypeOK

\* The interval of the job explorer.
LEMMA PollStep ==
    ASSUME VInv, NEW s \in Slots, Poll(s)
    PROVE  VInv'
<1>1. TypeOK /\ OneMark /\ RequestsOK
  BY DEF VInv, TypeOK, RequestsOK
<1>2. /\ Steady
      /\ UNCHANGED <<shown, foreign, failed, user, others, failures, loading, refreshing, marks>>
      /\ requests' = requests \/ requests' = [requests EXCEPT ![s] = List(effect, NULL)]
      /\ overlapped' = (overlapped \/ ListsBut(s) # {}) /\ view.polls
  BY DEF Poll, Fetch, Polled, selection, counters, Steady
<1>3. RequestsOK'
  <2>1. /\ List(effect, NULL) \in ListRequests
        /\ List(effect, NULL).op = "list" /\ List(effect, NULL).data = NULL
    BY <1>1, ListType DEF TypeOK
  <2>2. CASE requests' = requests
    <3>1. view' = view
      BY <1>1, <1>2, SteadyType
    <3> QED
      BY <1>1, <2>2, <3>1 DEF RequestsOK, SentOK, Busy
  <2>3. CASE requests' = [requests EXCEPT ![s] = List(effect, NULL)]
    BY <1>1, <1>2, <2>1, <2>3, PutKeepsRequests DEF Steady
  <2> QED
    BY <1>2, <2>2, <2>3
<1>4. TypeOK' /\ SentOK' /\ OneMark'
  BY <1>1, <1>2, <1>3, SteadyType, FewMarks DEF TypeOK, RequestsOK, Steady, OneMark
<1> QED
  BY <1>1, <1>2, <1>4, SteadyType DEF VInv

\* A search, in the view that polls.
LEMMA SearchStep ==
    ASSUME VInv, NEW s \in Slots, NEW r \in Slots, NEW x \in Texts, Search(x, s, r)
    PROVE  VInv'
<1> DEFINE now == List(Selection(project, page, tab, x), NULL)
           next == List(Selected', NULL)
<1>1. TypeOK /\ OneMark /\ RequestsOK /\ kind = "jobs" /\ view.polls
  BY ViewType DEF VInv, TypeOK, RequestsOK, Search
<1>2. /\ UNCHANGED <<kind, items, shown, foreign, failed, others, failures, project, tab,
                     refreshing, marks>>
      /\ text' = x /\ page' = 1 /\ loading' = TRUE
      /\ user' = user + 1 /\ user < MaxUser /\ s # r
      /\ \/ /\ requests' = [requests EXCEPT ![s] = now]
            /\ overlapped' = (overlapped \/ ListsBut(s) # {}) /\ UNCHANGED effect
         \/ /\ requests' = [requests EXCEPT ![s] = now, ![r] = next]
            /\ overlapped' = TRUE /\ effect' = Selected'
         \/ UNCHANGED <<requests, overlapped>> /\ effect' \in {effect, Selected'}
  BY DEF Search, UserActs
<1>3. /\ Selection(project, page, tab, text)' \in Selections /\ Selected' \in Selections
      /\ Selection(project, page, tab, x) \in Selections
  BY <1>1, <1>2 DEF TypeOK, Selection, Selections, Selected
<1>4. /\ now \in ListRequests /\ now.op = "list" /\ now.data = NULL
      /\ next \in ListRequests /\ next.op = "list" /\ next.data = NULL
  BY <1>3, ListType
<1> HIDE DEF now, next
<1>5. view' = view /\ user' \in 0..MaxUser
  BY <1>1, <1>2, ViewBounds DEF view, TypeOK
<1>6. RequestsOK'
  <2>1. /\ DOMAIN requests' = Slots
        /\ \A t \in Slots : requests'[t] \in {requests[t], now, next}
    BY <1>1, <1>2 DEF RequestsOK
  <2> QED
    BY <1>1, <1>4, <1>5, <2>1 DEF RequestsOK, SentOK, Busy
<1>7. TypeOK' /\ SentOK' /\ OneMark'
  BY <1>1, <1>2, <1>3, <1>5, <1>6, FewMarks DEF TypeOK, RequestsOK, OneMark
<1> QED
  BY <1>1, <1>5, <1>7 DEF VInv

(***************************************************************************)
(* Changes, and the server.                                                *)
(***************************************************************************)
\* What is marked when a change is sent, and what remains marked afterwards.
LEMMA FormType ==
    ASSUME NEW op \in Operations, NEW i \in Items
    PROVE  Form(op, i) \subseteq {i, "form", "dialog"}
BY DEF Form

\* Marking the row of a new change unmarks the row of another one, where one
\* variable holds it.
LEMMA MarksKept ==
    ASSUME TypeOK, OneMark, NEW op \in view.changes, NEW i \in Items
    PROVE  /\ Marked(op, i) \subseteq Items \cup {"form", "dialog"}
           /\ Unmarked(op, i) \subseteq marks
           /\ kind # "dlq" => \A k, m \in Marked(op, i) \cap Items : k = m
<1>1. op \in Operations
  BY ViewType DEF TypeOK
<1>2. marks \subseteq Items \cup {"form", "dialog"}
  BY DEF TypeOK
<1>3. Marked(op, i) \subseteq Items \cup {"form", "dialog"} /\ Unmarked(op, i) \subseteq marks
  BY <1>1, <1>2, FormType DEF Marked, Unmarked
<1>4. ASSUME kind # "dlq", NEW k \in Marked(op, i) \cap Items, NEW m \in Marked(op, i) \cap Items
      PROVE  k = m
  <2>1. CASE op = "toggle"
    <3>1. \A n \in Marked(op, i) \cap Items : n \in Form(op, i)
      BY <2>1 DEF Marked
    <3> QED
      BY <1>1, <3>1, FormType, ViewConstants
  <2>2. CASE op # "toggle"
    <3>1. Form(op, i) \subseteq {"form", "dialog"}
      BY <1>1, <1>4, <2>2 DEF Form, Operations
    <3>2. \A n \in Marked(op, i) \cap Items : n \in marks \cap Items
      BY <2>2, <3>1, ViewConstants DEF Marked
    <3> QED
      BY <1>4, <3>2 DEF OneMark
  <2> QED
    BY <2>1, <2>2
<1> QED
  BY <1>3, <1>4

\* The user changes a row or adds one.
LEMMA SubmitStep ==
    ASSUME VInv, NEW s \in Slots, NEW op \in Operations, NEW i \in Items, Submit(op, i, s)
    PROVE  VInv'
<1>1. TypeOK /\ OneMark /\ RequestsOK
  BY DEF VInv, TypeOK, RequestsOK
<1>2. PICK to \in {"on", "off", "gone"} :
          requests' = [requests EXCEPT ![s] = Change(op, i, to)]
  <2>1. CASE op = "add"
    BY <2>1 DEF Submit
  <2>2. CASE op = "remove"
    BY <2>2 DEF Submit
  <2>3. CASE op = "toggle"
    BY <2>3 DEF Submit
  <2> QED
    BY <2>1, <2>2, <2>3 DEF Operations
<1>3. /\ Steady
      /\ UNCHANGED <<shown, foreign, failed, others, failures, loading, refreshing, overlapped>>
      /\ requests[s] = NULL /\ op \in view.changes
      /\ marks' = Marked(op, i)
      /\ user' = user + 1 /\ user < MaxUser
  BY DEF Submit, UserActs, selection, Steady
<1> DEFINE c == Change(op, i, to)
<1>4. /\ c \in ChangeRequests /\ c # NULL /\ c.op = op /\ c.op # "list" /\ c.data = NULL
      /\ c.sel = Selected
  BY <1>1, ChangeType
<1> HIDE DEF c
<1>5. RequestsOK' /\ user' \in 0..MaxUser
  <2>1. RequestsOK'
    BY <1>1, <1>2, <1>3, <1>4, PutKeepsRequests DEF Steady, c
  <2> QED
    BY <1>1, <1>3, <2>1, ViewBounds DEF TypeOK
<1>6. /\ marks' \subseteq Items \cup {"form", "dialog"}
      /\ OneMark'
  BY <1>1, <1>3, MarksKept DEF OneMark, Steady
<1>7. TypeOK' /\ SentOK'
  BY <1>1, <1>3, <1>5, <1>6, SteadyType, FewMarks DEF TypeOK, RequestsOK, Steady, OneMark
<1>8. InOrder => InOrder'
  <2> SUFFICES ASSUME InOrder PROVE InOrder'
    OBVIOUS
  <2>1. requests'[s] = c /\ \A r \in Slots : r # s => requests'[r] = requests[r]
    BY <1>1, <1>2 DEF RequestsOK, c
  <2>2. \A r \in Slots : (Listing(r)' <=> Listing(r)) /\ (Applied(r)' <=> Applied(r))
    BY <1>3, <1>4, <2>1, NullIsNoObject DEF Listing, Applied, Busy
  <2>3. /\ Selected' = Selected /\ Rows' = Rows /\ (NoProject' <=> NoProject)
        /\ \A r \in Slots : Listing(r) \/ Applied(r) => requests'[r] = requests[r]
    BY <1>1, <1>3, <2>1, <2>2, SteadyType DEF Listing, Applied, Busy
  <2>4. \A k \in Items : Behind(k)' <=> Behind(k)
    BY <1>3, <2>2, <2>3 DEF Behind
  <2>5. OneList'
    BY <2>2 DEF InOrder, OneList
  <2>6. AsksForSelected'
    BY <1>4, <2>1, <2>3 DEF InOrder, AsksForSelected, Busy
  <2>7. \A data : Agree(data) => Agree(data)'
    BY <2>3, <2>4, AgreementKept
  <2>8. AnswersAreCurrent' /\ ShownIsCurrent'
    BY <1>3, <2>2, <2>3, <2>7 DEF InOrder, AnswersAreCurrent, ShownIsCurrent
  <2> QED
    BY <2>5, <2>6, <2>8 DEF InOrder
<1> QED
  BY <1>1, <1>3, <1>6, <1>7, <1>8, SteadyType DEF VInv

\* The rows of the selection change where the items do.
LEMMA RowsKept ==
    ASSUME Selected' = Selected, view' = view, NEW i \in Items, items'[i] = items[i]
    PROVE  Row(Rows', i) = Row(Rows, i)
<1> DEFINE here == view.scoped => Home[i] = Selected.project
<1>1. Row(Rows, i) = IF items[i] # "gone" /\ here THEN items[i] ELSE "gone"
  BY DEF Row, Rows, Listed
<1>2. Row(Rows', i) = IF items'[i] # "gone" /\ here THEN items'[i] ELSE "gone"
  BY DEF Row, Rows, Listed
<1> QED
  BY <1>1, <1>2

\* The server handles a request: a list is read, a change is applied unless its
\* row is gone. Once a change is applied its list is still to follow.
LEMMA ServeStep ==
    ASSUME VInv, NEW s \in Slots, Serve(s)
    PROVE  VInv'
<1> DEFINE h == requests'[s]
<1>1. TypeOK /\ OneMark /\ RequestsOK /\ s \in Busy /\ requests[s].data = NULL
  BY DEF VInv, TypeOK, RequestsOK, SentOK, Serve
<1>2. /\ UNCHANGED <<kind, selection, shown, loading, refreshing, marks, overlapped, failed, counters>>
      /\ view' = view /\ Selected' = Selected /\ (NoProject' <=> NoProject)
      /\ foreign' \in {foreign, {}}
  BY DEF Serve, selection, view, Selected, NoProject
<1>3. \/ /\ requests[s].op = "list"
         /\ Handled(s, Listed(requests[s].sel)) /\ items' = items
      \/ /\ requests[s].op # "list" /\ foreign' = foreign
         /\ Handled(s, NULL) /\ items' = items
      \/ /\ requests[s].op # "list" /\ foreign' = foreign
         /\ Handled(s, "done") /\ items' \in [Items -> {"on", "off", "gone"}]
         /\ \A i \in Items \ {requests[s].item} : items'[i] = items[i]
  <2>1. requests[s].op # "list" => requests[s].to \in {"on", "off", "gone"}
    BY <1>1 DEF RequestsOK, ChangeRequests
  <2>2. items \in [Items -> {"on", "off", "gone"}]
    BY <1>1 DEF TypeOK
  <2> QED
    BY <2>1, <2>2 DEF Serve
<1>4. PICK data : Handled(s, data) /\ (data = Listed(requests[s].sel) \/ data \in {NULL, "done"})
  BY <1>3
<1>5. /\ requests' = [requests EXCEPT ![s] = h]
      /\ h.op = requests[s].op /\ h.sel = requests[s].sel /\ h.item = requests[s].item
      /\ h.data = data /\ h.stage = "handled"
  BY <1>1, <1>4, HandledEffect
<1>6. items' \in [Items -> {"on", "off", "gone"}]
  BY <1>1, <1>3 DEF TypeOK
<1>7. /\ requests[s].op = "list" => h \in ListRequests
      /\ requests[s].op # "list" => h \in ChangeRequests
  <2>1. CASE requests[s].op = "list"
    BY <1>1, <1>3, <2>1, HandledEffect, ListedType DEF TypeOK, RequestsOK
  <2>2. CASE requests[s].op # "list"
    BY <1>1, <1>3, <2>2, HandledEffect DEF RequestsOK
  <2> QED
    BY <2>1, <2>2
<1> HIDE DEF h
<1>8. RequestsOK'
  <2>1. requests[s].op # "list" => requests[s].op \in view.changes
    BY <1>1 DEF RequestsOK
  <2> QED
    BY <1>1, <1>2, <1>5, <1>7, <2>1, PutKeepsRequests
<1>9. TypeOK' /\ SentOK' /\ OneMark'
  BY <1>1, <1>2, <1>6, <1>8, FewMarks DEF TypeOK, RequestsOK, OneMark, selection, counters
<1>10. InOrder => InOrder'
  <2> SUFFICES ASSUME InOrder PROVE InOrder'
    OBVIOUS
  <2>1. h # NULL /\ requests'[s] = h /\ \A r \in Slots : r # s => requests'[r] = requests[r]
    BY <1>1, <1>5, <1>7, NullIsNoObject DEF RequestsOK
  <2>2. Busy' = Busy /\ \A r \in Slots : Listing(r)' <=> Listing(r)
    BY <1>1, <1>5, <2>1 DEF Listing, Busy
  <2>3. OneList' /\ AsksForSelected'
    BY <1>2, <1>5, <2>1, <2>2 DEF InOrder, OneList, AsksForSelected
  <2>4. CASE requests[s].op = "list"
    <3>1. items' = items /\ h.data = Listed(requests[s].sel)
      <4>1. Handled(s, Listed(requests[s].sel)) /\ items' = items
        BY <1>3, <2>4
      <4> QED
        BY <1>1, <4>1, HandledEffect DEF h
    <3>2. Rows' = Rows /\ h.data = Rows /\ Listing(s)
      BY <1>1, <1>2, <2>4, <3>1 DEF Rows, Listed, InOrder, AsksForSelected, Listing
    <3>3. \A d : d = Rows => Agree(d)'
      BY <3>2 DEF Agree
    <3>4. AnswersAreCurrent' /\ ShownIsCurrent'
      BY <2>1, <2>2, <3>2, <3>3 DEF InOrder, OneList, AnswersAreCurrent, ShownIsCurrent
    <3> QED
      BY <2>3, <3>4 DEF InOrder
  <2>5. CASE requests[s].op # "list"
    <3>1. /\ foreign' = foreign
          /\ \/ h.data = "done" /\ \A i \in Items \ {requests[s].item} : items'[i] = items[i]
             \/ items' = items
      <4>1. CASE Handled(s, NULL) /\ items' = items /\ foreign' = foreign
        BY <4>1
      <4>2. CASE /\ Handled(s, "done") /\ foreign' = foreign
                 /\ \A i \in Items \ {requests[s].item} : items'[i] = items[i]
        BY <1>1, <4>2, HandledEffect DEF h
      <4> QED
        BY <1>3, <2>5, <4>1, <4>2
    <3>2. /\ ~Applied(s)
          /\ \A r \in Slots : r # s => (Applied(r)' <=> Applied(r))
          /\ h.data = "done" => Applied(s)'
      BY <1>1, <1>5, <2>1, <2>2, <2>5, NullIsNoObject DEF Applied
    <3>3. /\ \A i \in Items : ~Behind(i)' => ~Behind(i)
          /\ h.data = "done" => \A i \in Items : i = requests[s].item => Behind(i)'
      BY <1>5, <2>1, <3>1, <3>2 DEF Behind
    <3>4. ASSUME NEW i \in Items, ~Behind(i)' PROVE ~Behind(i) /\ Row(Rows', i) = Row(Rows, i)
      <4>1. items'[i] = items[i]
        BY <3>1, <3>3, <3>4
      <4> QED
        BY <1>2, <3>3, <3>4, <4>1, RowsKept
    <3>5. \A d : Agree(d) => Agree(d)'
      BY <3>4, AgreementKept
    <3>6. \A r \in Slots : Listing(r) => requests'[r] = requests[r]
      BY <2>1, <2>5 DEF Listing
    <3>7. AnswersAreCurrent' /\ ShownIsCurrent'
      BY <1>2, <2>2, <3>5, <3>6 DEF InOrder, AnswersAreCurrent, ShownIsCurrent
    <3> QED
      BY <2>3, <3>7 DEF InOrder
  <2> QED
    BY <2>4, <2>5
<1> QED
  BY <1>1, <1>2, <1>9, <1>10 DEF VInv

\* A request fails, or its answer is lost: of an applied change nothing is to
\* follow, and its row is behind.
LEMMA FailStep ==
    ASSUME VInv, NEW s \in Slots, Fail(s)
    PROVE  VInv'
<1> DEFINE h == requests'[s]
<1>1. /\ TypeOK /\ OneMark /\ RequestsOK /\ s \in Busy
      /\ Handled(s, NULL)
  BY DEF VInv, TypeOK, RequestsOK, SentOK, Fail
<1>2. /\ Steady /\ UNCHANGED <<shown, loading, refreshing, marks, overlapped, failed, user, others>>
      /\ failures' = failures + 1 /\ failures < MaxFailures
      /\ foreign' = IF requests[s].op # "list" /\ requests[s].data = "done"
                    THEN foreign \cup {requests[s].item} ELSE foreign
  BY DEF Fail, selection, Steady
<1>3. /\ requests' = [requests EXCEPT ![s] = h]
      /\ h.op = requests[s].op /\ h.sel = requests[s].sel
      /\ h.data = NULL /\ h.stage = "handled"
      /\ requests[s].op = "list" => h \in ListRequests
      /\ requests[s].op # "list" => h \in ChangeRequests
  BY <1>1, HandledEffect DEF RequestsOK
<1> HIDE DEF h
<1>4. RequestsOK' /\ foreign' \subseteq Items
  <2>1. requests[s].op # "list" => requests[s].op \in view.changes /\ requests[s].item \in Items
    BY <1>1 DEF RequestsOK, ChangeRequests
  <2>2. RequestsOK'
    BY <1>1, <1>2, <1>3, <2>1, PutKeepsRequests DEF Steady
  <2> QED
    BY <1>1, <1>2, <2>1, <2>2 DEF TypeOK
<1>5. failures' \in 0..MaxFailures
  BY <1>1, <1>2, ViewBounds DEF TypeOK
<1>6. TypeOK' /\ SentOK' /\ OneMark'
  BY <1>1, <1>2, <1>4, <1>5, SteadyType, FewMarks DEF TypeOK, RequestsOK, Steady, OneMark
<1>7. InOrder => InOrder'
  <2> SUFFICES ASSUME InOrder PROVE InOrder'
    OBVIOUS
  <2>1. h # NULL /\ requests'[s] = h /\ \A r \in Slots : r # s => requests'[r] = requests[r]
    BY <1>1, <1>3, NullIsNoObject DEF RequestsOK, h
  <2>2. Busy' = Busy /\ \A r \in Slots : Listing(r)' <=> Listing(r)
    BY <1>1, <1>3, <2>1 DEF Listing, Busy
  <2>3. \A r \in Slots : r # s => (Applied(r)' <=> Applied(r))
    BY <1>1, <1>3, <2>1, <2>2 DEF Applied
  <2>4. Selected' = Selected /\ Rows' = Rows /\ (NoProject' <=> NoProject)
    BY <1>1, <1>2, SteadyType
  <2>5. \A i \in Items : Behind(i) => Behind(i)'
    <3>1. Applied(s) => requests[s].item \in foreign'
      BY <1>2 DEF Applied
    <3> QED
      BY <1>2, <2>1, <2>3, <3>1 DEF Behind
  <2>6. \A d : Agree(d) => Agree(d)'
    BY <2>4, <2>5, AgreementKept
  <2>7. OneList' /\ AsksForSelected'
    BY <1>3, <2>1, <2>2, <2>4 DEF InOrder, OneList, AsksForSelected
  <2>8. AnswersAreCurrent' /\ ShownIsCurrent'
    BY <1>2, <1>3, <2>1, <2>2, <2>4, <2>6 DEF InOrder, AnswersAreCurrent, ShownIsCurrent
  <2> QED
    BY <2>7, <2>8 DEF InOrder
<1> QED
  BY <1>1, <1>2, <1>6, <1>7, SteadyType DEF VInv

\* Others change a row, which is behind from then on.
LEMMA OthersStep ==
    ASSUME VInv, NEW i \in Items, NEW to \in {"on", "off", "gone"}, Others(i, to)
    PROVE  VInv'
<1>1. /\ TypeOK /\ SentOK /\ OneMark
      /\ others \in Nat /\ others < MaxOthers /\ others' = others + 1
  BY DEF VInv, TypeOK, Others
<1>2. /\ UNCHANGED <<kind, selection, requests, shown, loading, refreshing, marks, overlapped,
                     failed, user, failures, view, Selected, NoProject>>
      /\ items' = [items EXCEPT ![i] = to]
      /\ foreign' = foreign \cup {i}
  BY DEF Others, view, selection, Selected, NoProject
<1>3. items' \in [Items -> {"on", "off", "gone"}] /\ foreign' \subseteq Items
  BY <1>1, <1>2 DEF TypeOK
<1>4. others' \in 0..MaxOthers
  BY <1>1, ViewBounds
<1>5. TypeOK' /\ SentOK' /\ OneMark'
  BY <1>1, <1>2, <1>3, <1>4 DEF TypeOK, SentOK, OneMark, Busy, selection, Selection
<1>6. InOrder => InOrder'
  <2> SUFFICES ASSUME InOrder PROVE InOrder'
    OBVIOUS
  <2>1. /\ Busy' = Busy
        /\ \A s \in Slots : (Listing(s)' <=> Listing(s)) /\ (Applied(s)' <=> Applied(s))
    BY <1>2 DEF Listing, Applied, Busy
  <2>2. /\ \A k \in Items : ~Behind(k)' => ~Behind(k)
        /\ Behind(i)'
    BY <1>2, <2>1 DEF Behind
  <2>3. ASSUME NEW k \in Items, ~Behind(k)' PROVE ~Behind(k) /\ Row(Rows', k) = Row(Rows, k)
    <3>1. items'[k] = items[k]
      BY <1>1, <1>2, <2>2, <2>3 DEF TypeOK
    <3> QED
      BY <1>2, <2>2, <2>3, <3>1, RowsKept
  <2>4. \A d : Agree(d) => Agree(d)'
    BY <2>3, AgreementKept
  <2>5. OneList' /\ AsksForSelected'
    BY <1>2, <2>1 DEF InOrder, OneList, AsksForSelected
  <2>6. AnswersAreCurrent' /\ ShownIsCurrent'
    BY <1>2, <2>1, <2>4 DEF InOrder, AnswersAreCurrent, ShownIsCurrent
  <2> QED
    BY <2>5, <2>6 DEF InOrder
<1> QED
  BY <1>1, <1>2, <1>5, <1>6 DEF VInv

(***************************************************************************)
(* Answers.                                                                *)
(***************************************************************************)
\* Marks are only taken away.
LEMMA FewerMarks ==
    ASSUME TypeOK, OneMark, UNCHANGED kind, marks' \subseteq marks
    PROVE  /\ marks' \subseteq Items \cup {"form", "dialog"}
           /\ OneMark'
           /\ Cardinality(marks' \cap Items) > 1 => kind' = "dlq"
<1>1. marks' \subseteq Items \cup {"form", "dialog"} /\ OneMark'
  BY DEF TypeOK, OneMark
<1> QED
  BY <1>1, FewMarks DEF OneMark

\* The one list in flight is shown; it agrees with the server as before.
LEMMA ListAnsweredStep ==
    ASSUME VInv, NEW s \in Slots, ListAnswered(s)
    PROVE  VInv'
<1> DEFINE r == requests[s]
<1>1. /\ TypeOK /\ OneMark /\ RequestsOK
      /\ s \in Busy /\ r.op = "list" /\ r \in ListRequests
      /\ requests' = [requests EXCEPT ![s] = NULL]
  BY DEF VInv, TypeOK, RequestsOK, ListAnswered
<1>2. /\ Steady /\ UNCHANGED <<overlapped, foreign, counters>>
      /\ shown' = IF r.data = NULL THEN shown ELSE [sel |-> r.sel, data |-> r.data]
      /\ failed' = (r.data = NULL)
      /\ loading' = FALSE /\ refreshing' = FALSE
      /\ marks' = marks \/ \E op \in Operations, i \in Items : marks' = Unmarked(op, i)
  BY <1>1 DEF ListAnswered, selection, Steady, Ends, ListRequests
<1>3. marks' \subseteq marks
  BY <1>2 DEF Unmarked
<1>4. shown' \in {NULL} \cup Shown
  BY <1>1, <1>2 DEF TypeOK, ListRequests, Shown
<1> HIDE DEF r
<1>5. RequestsOK'
  BY <1>1, <1>2, PutKeepsRequests DEF Steady
<1>6. TypeOK' /\ SentOK' /\ OneMark'
  BY <1>1, <1>2, <1>3, <1>4, <1>5, SteadyType, FewerMarks DEF TypeOK, RequestsOK, Steady, counters
<1>7. InOrder => InOrder'
  <2> SUFFICES ASSUME InOrder PROVE InOrder'
    OBVIOUS
  <2>1. requests'[s] = NULL /\ \A t \in Slots : t # s => requests'[t] = requests[t]
    BY <1>1 DEF RequestsOK
  <2>2. Listing(s) /\ ~Applied(s)
    BY <1>1 DEF Listing, Applied, r
  <2>3. /\ \A t \in Slots : ~Listing(t)'
        /\ \A t \in Slots : Applied(t)' <=> Applied(t)
    BY <2>1, <2>2 DEF InOrder, OneList, Listing, Applied, Busy
  <2>4. Selected' = Selected /\ Rows' = Rows
    BY <1>1, <1>2, SteadyType
  <2>5. OneList' /\ AsksForSelected' /\ AnswersAreCurrent'
    BY <2>1, <2>3, <2>4
       DEF InOrder, OneList, AsksForSelected, AnswersAreCurrent, Listing, Busy
  <2>6. ShownIsCurrent'
    <3>1. r.sel = Selected /\ (r.data # NULL => Agree(r.data))
      BY <1>1, <2>2 DEF InOrder, AsksForSelected, AnswersAreCurrent, r
    <3>2. \A i \in Items : Behind(i)' <=> Behind(i)
      BY <1>2, <2>1, <2>2, <2>3 DEF Behind
    <3>3. \A d : d = r.data /\ d # NULL => Agree(d)'
      BY <2>4, <3>1, <3>2, AgreementKept
    <3>4. r.data # NULL => shown' # NULL /\ shown'.sel = r.sel /\ shown'.data = r.data
      <4>1. ASSUME r.data # NULL PROVE shown' # NULL
        <5>1. shown' = [sel |-> r.sel, data |-> r.data]
          BY <1>2, <4>1
        <5>2. shown' \in Shown
          BY <1>1, <4>1, <5>1 DEF ListRequests, Shown, r
        <5> QED
          BY <5>2, NullIsNoObject
      <4> QED
        BY <1>2, <4>1
    <3> QED
      BY <1>2, <2>4, <3>1, <3>3, <3>4 DEF ShownIsCurrent
  <2> QED
    BY <2>5, <2>6 DEF InOrder
<1> QED
  BY <1>1, <1>2, <1>6, <1>7, SteadyType DEF VInv

\* Taking a replayed entry out of the list.
LEMMA RemainingType ==
    ASSUME shown \in {NULL} \cup Shown, NEW i
    PROVE  Remaining(i) \in {NULL} \cup Shown
<1>1. CASE shown = NULL
  BY <1>1 DEF Remaining
<1>2. CASE shown # NULL
  <2> DEFINE D == DOMAIN shown.data \ {i}
             rest == [k \in D |-> shown.data[k]]
  <2>1. shown \in Shown
    BY <1>2
  <2>2. PICK S \in SUBSET Items : shown.data \in [S -> {"on", "off"}]
    BY <2>1 DEF Shown, Lists
  <2>3. D \in SUBSET Items /\ rest \in [D -> {"on", "off"}]
    BY <2>2
  <2> HIDE DEF D
  <2>4. rest \in Lists
    BY <2>3 DEF Lists
  <2>5. Remaining(i) = [shown EXCEPT !.data = rest]
    BY <1>2 DEF Remaining, D
  <2> HIDE DEF rest
  <2> QED
    BY <2>1, <2>4, <2>5 DEF Shown
<1> QED
  BY <1>1, <1>2

\* A change is answered by requesting the list, of the selection that it was
\* made in.
LEMMA ChangeDoneStep ==
    ASSUME VInv, NEW s \in Slots, ChangeDone(s)
    PROVE  VInv'
<1> DEFINE r == requests[s]
           done == IF kind = "dlq" THEN NULL ELSE <<r.op, r.item>>
           l == List(r.sel, done)
<1>1. /\ TypeOK /\ OneMark /\ RequestsOK
      /\ s \in Busy /\ r.op # "list" /\ r \in ChangeRequests
      /\ requests' = [requests EXCEPT ![s] = l]
  BY DEF VInv, TypeOK, RequestsOK, ChangeDone, Again
<1>2. /\ Steady /\ UNCHANGED <<refreshing, foreign, failed, counters>>
      /\ loading' = (loading \/ (r.op = "add" /\ view.scoped))
      /\ overlapped' = (overlapped \/ ListsBut(s) # {})
      /\ \/ shown' = Remaining(r.item) /\ marks' = Unmarked(r.op, r.item)
         \/ shown' = shown /\ marks' = marks
  BY DEF ChangeDone, selection, Steady
<1>3. marks' \subseteq marks
  BY <1>2 DEF Unmarked
<1>4. shown' \in {NULL} \cup Shown
  BY <1>1, <1>2, RemainingType DEF TypeOK
<1>5. r.sel \in Selections /\ r.op \in Operations /\ r.item \in Items
  BY <1>1 DEF ChangeRequests
<1> HIDE DEF r
<1>6. done \in {NULL} \cup (Operations \X Items)
  BY <1>5
<1> HIDE DEF done
<1>7. l \in ListRequests /\ l # NULL /\ l.op = "list" /\ l.data = NULL /\ l.sel = r.sel
  BY <1>5, <1>6, ListType
<1> HIDE DEF l
<1>8. RequestsOK'
  BY <1>1, <1>2, <1>7, PutKeepsRequests DEF Steady
<1>9. loading' \in BOOLEAN /\ overlapped' \in BOOLEAN
  BY <1>2
<1>10. TypeOK' /\ SentOK' /\ OneMark'
  BY <1>1, <1>2, <1>3, <1>4, <1>8, <1>9, SteadyType, FewerMarks
     DEF TypeOK, RequestsOK, Steady, counters
<1>11. InOrder /\ ~overlapped' => InOrder'
  <2> SUFFICES ASSUME InOrder, ~overlapped' PROVE InOrder'
    OBVIOUS
  <2>1. ListsBut(s) = {}
    BY <1>1, <1>2 DEF TypeOK
  <2>2. l.sel = Selected
    BY <1>1, <1>7 DEF InOrder, AsksForSelected, r
  <2>3. Selected' = Selected /\ requests[s].op # "list"
    BY <1>1, <1>2, SteadyType DEF r
  <2> QED
    BY <1>1, <1>7, <2>1, <2>2, <2>3, ListKeepsOrder
<1> QED
  BY <1>1, <1>2, <1>10, <1>11, SteadyType DEF VInv, TypeOK

\* A change that failed, or whose row was gone, changed nothing.
LEMMA ChangeFailedStep ==
    ASSUME VInv, NEW s \in Slots, ChangeFailed(s)
    PROVE  VInv'
<1>1. /\ TypeOK /\ OneMark /\ RequestsOK
      /\ s \in Busy /\ requests[s].op # "list" /\ requests[s].data = NULL
      /\ requests' = [requests EXCEPT ![s] = NULL]
  BY DEF VInv, TypeOK, RequestsOK, ChangeFailed
<1>2. /\ Steady /\ UNCHANGED <<shown, loading, refreshing, overlapped, foreign, failed, counters>>
      /\ marks' \subseteq marks
  BY DEF ChangeFailed, selection, Steady, Unmarked
<1>3. RequestsOK'
  BY <1>1, <1>2, PutKeepsRequests DEF Steady
<1>4. TypeOK' /\ SentOK' /\ OneMark'
  BY <1>1, <1>2, <1>3, SteadyType, FewerMarks DEF TypeOK, RequestsOK, Steady, counters
<1>5. InOrder => InOrder'
  <2> SUFFICES ASSUME InOrder PROVE InOrder'
    OBVIOUS
  <2>1. requests'[s] = NULL /\ \A t \in Slots : t # s => requests'[t] = requests[t]
    BY <1>1 DEF RequestsOK
  <2>2. ~Listing(s) /\ ~Applied(s)
    BY <1>1, NullIsNoObject DEF Listing, Applied
  <2>3. \A t \in Slots : (Listing(t)' <=> Listing(t)) /\ (Applied(t)' <=> Applied(t))
    BY <2>1, <2>2 DEF Listing, Applied, Busy
  <2>4. /\ Selected' = Selected /\ Rows' = Rows /\ (NoProject' <=> NoProject)
        /\ \A t \in Slots : Listing(t) \/ Applied(t) => requests'[t] = requests[t]
    BY <1>1, <1>2, <2>1, <2>2, SteadyType
  <2>5. \A i \in Items : Behind(i)' <=> Behind(i)
    BY <1>2, <2>3, <2>4 DEF Behind
  <2>6. \A d : Agree(d) => Agree(d)'
    BY <2>4, <2>5, AgreementKept
  <2>7. OneList' /\ AsksForSelected' /\ AnswersAreCurrent'
    BY <2>1, <2>3, <2>4, <2>6 DEF InOrder, OneList, AsksForSelected, AnswersAreCurrent, Busy
  <2>8. ShownIsCurrent'
    BY <1>2, <2>3, <2>4, <2>6 DEF InOrder, ShownIsCurrent
  <2> QED
    BY <2>7, <2>8 DEF InOrder
<1> QED
  BY <1>1, <1>2, <1>4, <1>5, SteadyType DEF VInv

(***************************************************************************)
(* The theorems.                                                           *)
(***************************************************************************)
\* The inductive invariant holds in every state, whatever the user selects
\* and changes, and however requests fail and overtake each other.
THEOREM Invariance == Spec => []VInv
<1>1. Init => VInv
  <2> SUFFICES ASSUME Init PROVE VInv
    OBVIOUS
  <2>1. kind \in DOMAIN Views /\ view.changes \subseteq Operations
    BY ViewType DEF Init
  <2>2. Selection(project, page, tab, text) \in Selections /\ Selected \in Selections
    BY ViewConstants DEF Init, Selection, Selections, Tabs, Selected
  <2> DEFINE l == List(Selected, NULL)
  <2>3. l \in ListRequests /\ l # NULL /\ l.op = "list" /\ l.data = NULL /\ l.sel = Selected
    BY <2>2, ListType
  <2>4. PICK s \in Slots : requests = [r \in Slots |-> IF r = s /\ ~NoProject THEN l ELSE NULL]
    BY DEF Init
  <2> HIDE DEF l
  <2>5. /\ DOMAIN requests = Slots
        /\ \/ Busy = {} /\ NoProject
           \/ Busy = {s} /\ requests[s] = l
    BY <2>3, <2>4 DEF Busy
  <2>6. RequestsOK
    BY <2>3, <2>5 DEF RequestsOK, SentOK
  <2>7. OneMark /\ Cardinality(marks \cap Items) = 0
    <3>1. marks = {} /\ marks \cap Items = {}
      BY DEF Init
    <3> QED
      BY <3>1, FS_EmptySet DEF OneMark
  <2>8. TypeOK /\ SentOK
    <3>1. ~(Cardinality(marks \cap Items) > 1)
      BY <2>7
    <3>2. items \in [Items -> {"on", "off", "gone"}]
      BY DEF Init
    <3>3. 0 \in 0..MaxUser /\ 0 \in 0..MaxOthers /\ 0 \in 0..MaxFailures
      BY ViewBounds
    <3>4. /\ shown = NULL /\ foreign = {} /\ marks = {} /\ effect = Selected
          /\ project \in Projects \cup {NULL}
          /\ loading \in BOOLEAN /\ refreshing \in BOOLEAN
          /\ overlapped \in BOOLEAN /\ failed \in BOOLEAN
          /\ user = 0 /\ others = 0 /\ failures = 0
      BY ViewConstants DEF Init
    <3> QED
      BY <2>1, <2>2, <2>6, <3>1, <3>2, <3>3, <3>4 DEF TypeOK, RequestsOK
  <2>9. InOrder
    BY <2>3, <2>5
       DEF InOrder, OneList, AsksForSelected, AnswersAreCurrent, ShownIsCurrent, Listing
  <2> QED
    BY <2>7, <2>8, <2>9 DEF VInv
<1>2. VInv /\ [Next]_vars => VInv'
  <2> SUFFICES ASSUME VInv, [Next]_vars PROVE VInv'
    OBVIOUS
  <2>1. CASE UNCHANGED vars
    <3>1. UNCHANGED view /\ Steady
      BY <2>1 DEF vars, selection, view, Steady
    <3>2. TypeOK' /\ SentOK' /\ OneMark'
      BY <2>1, <3>1 DEF VInv, vars, selection, counters, TypeOK, SentOK, OneMark, Busy
    <3>3. InOrder => InOrder'
      BY <2>1, <3>1, RequestsStay DEF vars, VInv
    <3> QED
      BY <2>1, <3>1, <3>2, <3>3 DEF VInv, vars
  <2>2. ASSUME NEW s \in Slots,
               \/ \E p \in Projects : SwitchProject(p, s)
               \/ \E n \in {1, 2} : TurnPage(n, s)
               \/ \E t \in Tabs : ChooseTab(t, s)
        PROVE  VInv'
    BY <2>2, SelectionStep
  <2>3. ASSUME NEW s \in Slots, NEW x \in Texts, NEW r \in Slots, Search(x, s, r) PROVE VInv'
    BY <2>3, SearchStep
  <2>4. ASSUME NEW s \in Slots, Refresh(s) \/ Poll(s) PROVE VInv'
    BY <2>4, RefreshStep, PollStep
  <2>5. ASSUME NEW s \in Slots, NEW op \in Operations, NEW i \in Items, Submit(op, i, s)
        PROVE  VInv'
    BY <2>5, SubmitStep
  <2>6. ASSUME NEW s \in Slots, Serve(s) \/ Fail(s) PROVE VInv'
    BY <2>6, ServeStep, FailStep
  <2>7. ASSUME NEW s \in Slots, ListAnswered(s) \/ ChangeDone(s) \/ ChangeFailed(s) PROVE VInv'
    BY <2>7, ListAnsweredStep, ChangeDoneStep, ChangeFailedStep
  <2>8. ASSUME NEW i \in Items, NEW to \in {"on", "off", "gone"}, Others(i, to) PROVE VInv'
    BY <2>8, OthersStep
  <2> QED
    BY <2>1, <2>2, <2>3, <2>4, <2>5, <2>6, <2>7, <2>8 DEF Next
<1> QED
  BY <1>1, <1>2, PTL DEF Spec

\* Types of the state, at most one marked row, and the changes that a view can
\* have in flight.
THEOREM TypeCorrectness == Spec => []TypeOK
<1>1. VInv => TypeOK
  BY DEF VInv
<1> QED
  BY <1>1, Invariance, PTL

\* Once nothing is in flight, a view that does not poll shows the selection and
\* agrees with the server on every row that was not changed by others, or by a
\* change whose answer was lost, since the list was read, unless the last list
\* failed or two answers could have overtaken each other.
THEOREM QuietViewIsCurrent == Spec => []QuietIsCurrent
<1>1. VInv => QuietIsCurrent
  <2> SUFFICES ASSUME VInv, ~view.polls, ~NoProject, Busy = {}, ~overlapped, ~failed
               PROVE  /\ shown # NULL /\ shown.sel = Selected
                      /\ \A i \in Items \ foreign : Row(shown.data, i) = Row(Rows, i)
    BY DEF QuietIsCurrent, Rows
  <2>1. InOrder
    BY DEF VInv
  <2>2. /\ \A s \in Slots : ~Listing(s)
        /\ \A i \in Items : Behind(i) => i \in foreign
    BY DEF Behind, Applied, Listing
  <2> QED
    BY <2>1, <2>2 DEF InOrder, ShownIsCurrent, Agree
<1> QED
  BY <1>1, Invariance, PTL

=============================================================================
