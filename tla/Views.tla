------------------------------- MODULE Views -------------------------------
(***************************************************************************)
(* How the views of the dashboard load what they show. A view requests its *)
(* list when it is mounted and when its selection changes, on a refresh,   *)
(* after each change that the user makes and, in the job explorer, every   *)
(* three seconds. Nothing ties an answer to the selection it was asked     *)
(* for: the answers are shown in the order in which they arrive.           *)
(*                                                                         *)
(* A behaviour is the life of one mounted view. A request is sent, handled *)
(* by the server, which reads its data or applies the change then, and     *)
(* answered. A change and the list that its handler requests afterwards    *)
(* share a slot. Nothing calls broadcast: the only event that reaches a    *)
(* view is the welcome message of a new socket, which makes the job        *)
(* explorer fetch as its interval does.                                    *)
(***************************************************************************)
EXTENDS Naturals, FiniteSets

CONSTANTS
    Projects, Items,
    Opened,       \* the project that is selected at first, if there is one
    Home,         \* the project of each item
    Initial,      \* the items that exist at first, where the user can add some
    Texts,        \* what is typed in the search field
    Slots,        \* room for requests in flight
    MaxUser,      \* bound: actions of the user
    MaxOthers,    \* bound: changes by workers, the scheduler or other users
    MaxFailures,  \* bound: requests that fail and answers that are lost
    NULL

ASSUME ViewConstants ==
    /\ Home \in [Items -> Projects]
    /\ Initial \subseteq Items /\ Opened \in Projects
    /\ NULL \notin Projects \cup Items
    /\ {"form", "dialog"} \cap Items = {}
ASSUME ViewBounds == {MaxUser, MaxOthers, MaxFailures} \subseteq Nat

VARIABLES
    kind,               \* the view that is mounted
    project, page, tab, text,
    effect,             \* the selection that the effect has closed over
    requests,           \* those in flight
    items,              \* on the server: on, off or gone
    shown,              \* the selection and the data of the last answer
    loading, refreshing,
    marks,              \* rows and forms that are busy
    overlapped,         \* history: answers could arrive in the wrong order
    foreign,            \* history: changed by others, or unanswered, since a list was read
    failed,             \* history: the last list failed
    user, others, failures

selection == <<project, page, tab, text, effect>>
counters == <<user, others, failures>>
vars == <<kind, selection, requests, items, shown, loading, refreshing, marks,
          overlapped, foreign, failed, counters>>

(***************************************************************************)
(* The views: whether they poll, are of a project, have tabs and pages on  *)
(* the server, and what they change.                                       *)
(***************************************************************************)
View(polls, scoped, paged, changes) ==
    [polls |-> polls, scoped |-> scoped, paged |-> paged, changes |-> changes]

\* Cancelling and re-queueing a job toggle it; ingestion adds one.
JobExplorerView == View(TRUE, TRUE, TRUE, {"toggle", "add"})
\* A replay removes an entry.
DlqView == View(FALSE, TRUE, TRUE, {"remove"})
QueuesView == View(FALSE, TRUE, FALSE, {"toggle", "add"})
CronView == View(FALSE, TRUE, FALSE, {"toggle", "remove", "add"})
ApiKeysView == View(FALSE, FALSE, FALSE, {"remove", "add"})
OverviewView == View(FALSE, TRUE, FALSE, {})
WorkersView == View(FALSE, FALSE, FALSE, {})

Views == [jobs |-> JobExplorerView, dlq |-> DlqView, queues |-> QueuesView, cron |-> CronView,
          apikeys |-> ApiKeysView, overview |-> OverviewView, workers |-> WorkersView]
view == Views[kind]

Tabs == {"ALL", "QUEUED"}
Selections == [project : Projects \cup {NULL}, page : {1, 2}, tab : Tabs, text : Texts \cup {""}]
Selection(p, n, t, x) == [project |-> p, page |-> n, tab |-> t, text |-> x]
Selected == Selection(IF view.scoped THEN project ELSE NULL, page, tab, text)

\* After a login there is no project until the projects have been answered, and
\* none at all if that request fails.
NoProject == view.scoped /\ project = NULL

\* The rows of a selection.
Listed(sel) ==
    [i \in {k \in Items : items[k] # "gone" /\ (view.scoped => Home[k] = sel.project)} |-> items[i]]

(***************************************************************************)
(* Requests.                                                               *)
(***************************************************************************)
List(sel, done) == [op |-> "list", sel |-> sel, item |-> NULL, to |-> NULL, done |-> done,
                    stage |-> "sent", data |-> NULL]
Change(op, i, to) == [op |-> op, sel |-> Selected, item |-> i, to |-> to, done |-> NULL,
                      stage |-> "sent", data |-> NULL]

Operations == {"toggle", "add", "remove"}
Stages == {"sent", "handled"}
Lists == UNION {[S -> {"on", "off"}] : S \in SUBSET Items}
ListRequests ==
    [op : {"list"}, sel : Selections, item : {NULL}, to : {NULL},
     done : {NULL} \cup (Operations \X Items), stage : Stages, data : {NULL} \cup Lists]
ChangeRequests ==
    [op : Operations, sel : Selections, item : Items, to : {"on", "off", "gone"},
     done : {NULL}, stage : Stages, data : {NULL, "done"}]
Shown == [sel : Selections, data : Lists]

\* null is no request and no answer.
ASSUME NullIsNoObject ==
    NULL \notin ListRequests \cup ChangeRequests \cup Lists \cup Shown \cup {"done"}

Busy == {s \in Slots : requests[s] # NULL}
ListsBut(s) == {r \in Busy \ {s} : requests[r].op = "list"}

\* fetchJobs, fetchDlq, ...: a list in a free slot. In a view of a project they
\* return at once when there is none, and no loader ends.
Fetch(s, sel) ==
    IF view.scoped /\ sel.project = NULL THEN UNCHANGED requests
    ELSE /\ requests[s] = NULL
         /\ requests' = [requests EXCEPT ![s] = List(sel, NULL)]

UserActs ==
    /\ user < MaxUser /\ user' = user + 1
    /\ UNCHANGED <<kind, items, shown, foreign, failed, others, failures>>

Init ==
    /\ kind \in DOMAIN Views
    /\ project \in {Opened, NULL}
    /\ page = 1 /\ tab = "ALL" /\ text = ""
    /\ effect = Selected
    /\ \E s \in Slots :
          requests = [r \in Slots |-> IF r = s /\ ~NoProject THEN List(Selected, NULL) ELSE NULL]
    /\ items = [i \in Items |-> IF i \in Initial \/ "add" \notin view.changes THEN "on" ELSE "gone"]
    /\ shown = NULL
    /\ loading = TRUE /\ refreshing = FALSE
    /\ marks = {}
    /\ overlapped = FALSE /\ foreign = {} /\ failed = FALSE
    /\ user = 0 /\ others = 0 /\ failures = 0

(***************************************************************************)
(* The selection. The effect runs when the project, the page or the tab    *)
(* change, not when the text does, and closes over all four.               *)
(***************************************************************************)
RunEffect(s) ==
    /\ effect' = Selected'
    /\ Fetch(s, Selected')
    /\ loading' = TRUE
    /\ overlapped' = (overlapped \/ Busy # {})

\* The project switcher of the header, or the first project that is answered.
SwitchProject(p, s) ==
    /\ p # project
    /\ UserActs
    /\ project' = p
    /\ UNCHANGED <<page, tab, text, refreshing, marks>>
    /\ IF view.scoped
       THEN RunEffect(s)
       ELSE UNCHANGED <<effect, requests, loading, overlapped>>

\* Next and Previous are disabled while the skeleton is shown.
TurnPage(n, s) ==
    /\ view.paged /\ n # page
    /\ ~loading /\ ~refreshing
    /\ UserActs
    /\ page' = n
    /\ UNCHANGED <<project, tab, text, refreshing, marks>>
    /\ RunEffect(s)

ChooseTab(t, s) ==
    /\ kind = "jobs" /\ t # tab
    /\ UserActs
    /\ tab' = t /\ page' = 1
    /\ UNCHANGED <<project, text, refreshing, marks>>
    /\ RunEffect(s)

\* Typing, and Enter: the list of the page that is still selected and, from
\* another page than the first, the effect as well.
Search(x, s, r) ==
    /\ kind = "jobs"
    /\ s # r /\ requests[s] = NULL /\ requests[r] = NULL
    /\ UserActs
    /\ text' = x
    /\ page' = 1
    /\ loading' = TRUE
    /\ UNCHANGED <<project, tab, refreshing, marks>>
    /\ LET now == List(Selection(project, page, tab, x), NULL)
       IN  IF NoProject
           THEN /\ UNCHANGED <<requests, overlapped>>
                /\ effect' = IF page = 1 THEN effect ELSE Selected'
           ELSE IF page = 1
           THEN /\ requests' = [requests EXCEPT ![s] = now]
                /\ overlapped' = (overlapped \/ ListsBut(s) # {})
                /\ UNCHANGED effect
           ELSE /\ requests' = [requests EXCEPT ![s] = now, ![r] = List(Selected', NULL)]
                /\ overlapped' = TRUE
                /\ effect' = Selected'

Refresh(s) ==
    /\ ~refreshing
    /\ UserActs
    /\ Fetch(s, Selected)
    /\ refreshing' = TRUE
    /\ overlapped' = (overlapped \/ ListsBut(s) # {})
    /\ UNCHANGED <<selection, loading, marks>>

\* The interval of the job explorer and its subscription to '*', with the
\* selection of the effect.
PolledBug == [effect EXCEPT !.tab = "ALL"]
Polled == effect
Poll(s) ==
    /\ view.polls
    /\ Fetch(s, Polled)
    /\ overlapped' = (overlapped \/ ListsBut(s) # {})
    /\ UNCHANGED <<kind, selection, items, shown, loading, refreshing, marks, foreign, failed, counters>>

(***************************************************************************)
(* Changes.                                                                *)
(***************************************************************************)
\* What is disabled while a change is on its way: the form or the dialog it
\* was sent from, the row of an entry, nothing in the job explorer.
Form(op, i) ==
    IF op = "add" THEN {"form"}
    ELSE IF op = "remove" /\ kind # "dlq" THEN {"dialog"}
    ELSE IF kind = "jobs" THEN {} ELSE {i}

\* Replayed entries are marked in a set, toggled rows in one variable.
MarkedEachBug(op, i) == marks \cup Form(op, i)
Marked(op, i) == IF op = "toggle" THEN (marks \ Items) \cup Form(op, i) ELSE marks \cup Form(op, i)
Unmarked(op, i) == IF op = "toggle" THEN marks \ Items ELSE marks \ Form(op, i)

\* The skeleton hides the rows; a dialog stays.
RowsAreUsable == ~loading /\ (view.paged => ~refreshing)

\* The user changes a row that is shown, to the opposite of what it shows, or
\* adds one.
Submit(op, i, s) ==
    /\ op \in view.changes /\ ~NoProject
    /\ requests[s] = NULL
    /\ Form(op, i) \cap marks = {}
    /\ IF op = "add" THEN items[i] = "gone" ELSE shown # NULL /\ i \in DOMAIN shown.data
    /\ (Form(op, i) \subseteq Items) => RowsAreUsable
    /\ UserActs
    /\ requests' = [requests EXCEPT ![s] =
                      Change(op, i, CASE op = "add" -> "on" [] op = "remove" -> "gone"
                                      [] op = "toggle" -> IF shown.data[i] = "on" THEN "off" ELSE "on")]
    /\ marks' = Marked(op, i)
    /\ UNCHANGED <<selection, loading, refreshing, overlapped>>

(***************************************************************************)
(* The server handles a request; a row that is gone cannot be changed.     *)
(***************************************************************************)
Handled(s, data) == requests' = [requests EXCEPT ![s].stage = "handled", ![s].data = data]

Serve(s) ==
    /\ s \in Busy /\ requests[s].stage = "sent"
    /\ LET r == requests[s]
       IN  IF r.op = "list" THEN Handled(s, Listed(r.sel)) /\ foreign' = {} /\ UNCHANGED items
           ELSE /\ UNCHANGED foreign
                /\ IF r.op # "add" /\ items[r.item] = "gone" THEN Handled(s, NULL) /\ UNCHANGED items
                   ELSE Handled(s, "done") /\ items' = [items EXCEPT ![r.item] = r.to]
    /\ UNCHANGED <<kind, selection, shown, loading, refreshing, marks, overlapped, failed, counters>>

\* A request fails, or its answer is lost after it was handled.
Fail(s) ==
    /\ failures < MaxFailures
    /\ failures' = failures + 1
    /\ s \in Busy /\ (requests[s].stage = "sent" \/ requests[s].data # NULL)
    /\ Handled(s, NULL)
    /\ LET r == requests[s]
       IN  foreign' = IF r.op # "list" /\ r.data = "done" THEN foreign \cup {r.item} ELSE foreign
    /\ UNCHANGED <<kind, selection, items, shown, loading, refreshing, marks, overlapped, failed,
                   user, others>>

\* Workers move jobs on and fill the dead letter queue, the scheduler advances
\* its schedules, heartbeats and other users change their rows.
Others(i, to) ==
    /\ others < MaxOthers
    /\ others' = others + 1
    /\ to # items[i]
    /\ items' = [items EXCEPT ![i] = to]
    /\ foreign' = foreign \cup {i}
    /\ UNCHANGED <<kind, selection, requests, shown, loading, refreshing, marks, overlapped, failed,
                   user, failures>>

(***************************************************************************)
(* Answers.                                                                *)
(***************************************************************************)
\* A list is shown, whatever is selected by now, and the loaders end whether
\* it failed or not; so does the change whose handler was waiting for it.
EndsBug(r) == r.data = NULL
Ends(r) == FALSE
ListAnswered(s) ==
    /\ s \in Busy /\ requests[s].stage = "handled" /\ requests[s].op = "list"
    /\ LET r == requests[s]
       IN  /\ shown' = IF r.data = NULL THEN shown ELSE [sel |-> r.sel, data |-> r.data]
           /\ failed' = (r.data = NULL)
           /\ loading' = (loading /\ Ends(r)) /\ refreshing' = (refreshing /\ Ends(r))
           /\ marks' = IF r.done = NULL THEN marks ELSE Unmarked(r.done[1], r.done[2])
    /\ requests' = [requests EXCEPT ![s] = NULL]
    /\ UNCHANGED <<kind, selection, items, overlapped, foreign, counters>>

\* A replayed entry is taken out of the list at once.
Remaining(i) ==
    IF shown = NULL THEN NULL
    ELSE [shown EXCEPT !.data = [k \in DOMAIN shown.data \ {i} |-> shown.data[k]]]

\* A change is done: the list is requested again, for the selection that the
\* handler was created with, with a loader after an addition to a project;
\* the row of an entry is released at once, the others when the list has come.
AgainBug(r, i) == IF r.op = "toggle" THEN NULL ELSE List(r.sel, <<r.op, i>>)
Again(r, i) == List(r.sel, IF kind = "dlq" THEN NULL ELSE <<r.op, i>>)
ChangeDone(s) ==
    /\ s \in Busy /\ requests[s].stage = "handled" /\ requests[s].op # "list"
    /\ requests[s].data = "done"
    /\ LET r == requests[s]
       IN  /\ requests' = [requests EXCEPT ![s] = Again(r, r.item)]
           /\ loading' = (loading \/ (r.op = "add" /\ view.scoped))
           /\ overlapped' = (overlapped \/ ListsBut(s) # {})
           /\ IF kind = "dlq"
              THEN shown' = Remaining(r.item) /\ marks' = Unmarked(r.op, r.item)
              ELSE UNCHANGED <<shown, marks>>
    /\ UNCHANGED <<kind, selection, items, refreshing, foreign, failed, counters>>

ChangeFailed(s) ==
    /\ s \in Busy /\ requests[s].stage = "handled" /\ requests[s].op # "list"
    /\ requests[s].data = NULL
    /\ marks' = Unmarked(requests[s].op, requests[s].item)
    /\ requests' = [requests EXCEPT ![s] = NULL]
    /\ UNCHANGED <<kind, selection, items, shown, loading, refreshing, overlapped, foreign, failed,
                   counters>>

-----------------------------------------------------------------------------
Answer(s) == ListAnswered(s) \/ ChangeDone(s) \/ ChangeFailed(s)

Next ==
    \/ \E s \in Slots :
        \/ \E p \in Projects : SwitchProject(p, s)
        \/ \E n \in {1, 2} : TurnPage(n, s)
        \/ \E t \in Tabs : ChooseTab(t, s)
        \/ \E x \in Texts, r \in Slots : Search(x, s, r)
        \/ Refresh(s) \/ Poll(s)
        \/ \E op \in Operations, i \in Items : Submit(op, i, s)
        \/ Serve(s) \/ Fail(s)
        \/ ListAnswered(s) \/ ChangeDone(s) \/ ChangeFailed(s)
    \/ \E i \in Items, to \in {"on", "off", "gone"} : Others(i, to)

Spec == Init /\ [][Next]_vars

\* The interval keeps running; every request is handled and answered.
FairSpec ==
    /\ Spec
    /\ \A s \in Slots : WF_vars(Poll(s)) /\ WF_vars(Serve(s)) /\ WF_vars(Answer(s))

-----------------------------------------------------------------------------
\* Types of the state.
TypeOK ==
    /\ kind \in DOMAIN Views
    /\ Selection(project, page, tab, text) \in Selections
    /\ project \in Projects \cup {NULL} /\ effect \in Selections
    /\ DOMAIN requests = Slots
    /\ \A s \in Busy :
          IF requests[s].op = "list" THEN requests[s] \in ListRequests
          ELSE requests[s] \in ChangeRequests /\ requests[s].op \in view.changes
    /\ items \in [Items -> {"on", "off", "gone"}]
    /\ shown \in {NULL} \cup Shown
    /\ loading \in BOOLEAN /\ refreshing \in BOOLEAN
    /\ overlapped \in BOOLEAN /\ foreign \subseteq Items /\ failed \in BOOLEAN
    /\ marks \subseteq Items \cup {"form", "dialog"}
    /\ Cardinality(marks \cap Items) > 1 => kind = "dlq"
    /\ user \in 0..MaxUser /\ others \in 0..MaxOthers /\ failures \in 0..MaxFailures

\* In a view that does not poll, once nothing is in flight, the list shows the
\* selection and what the server has for it, all the user's own changes included,
\* unless the last list failed or two answers could have overtaken each other.
\* (If they did, the view keeps showing the wrong list until its next fetch.)
\* Nothing tells such a view of what others change, and no list is requested
\* when the answer to a change is lost: those rows may be stale.
Row(data, i) == IF i \in DOMAIN data THEN data[i] ELSE "gone"
QuietIsCurrent ==
    (~view.polls /\ ~NoProject /\ Busy = {} /\ ~overlapped /\ ~failed)
        => /\ shown # NULL /\ shown.sel = Selected
           /\ \A i \in Items \ foreign : Row(shown.data, i) = Row(Listed(Selected), i)

\* No skeleton, spinner or disabled button stays for good, whatever fails, but
\* in a view of a project for as long as there is no project: fetching returns
\* before the block that ends the loaders.
Released == []<>(NoProject \/ (~loading /\ ~refreshing /\ marks = {}))

\* The job explorer ends up showing the current jobs of the project, the page
\* and the tab that are selected, whatever answers of earlier selections came
\* late. (The text is the one of the last run of the effect: the interval does
\* not see a search that was submitted on the first page.)
PollSettles ==
    <>[](kind = "jobs" /\ ~NoProject =>
            shown = [sel |-> [Selected EXCEPT !.text = effect.text], data |-> Listed(Selected)])
=============================================================================
