--------------------------- MODULE CronScheduler ---------------------------
(***************************************************************************)
(* Recurring jobs: the tick that every worker runs on a timer, of which    *)
(* several may be under way, in one process or in many, and the requests   *)
(* that create, pause, resume and delete schedules meanwhile.              *)
(*                                                                         *)
(* A pass of CronScheduler.tick reads the schedules that are due and then  *)
(* runs one transaction for each. The next occurrence is computed before   *)
(* the transaction, from the time of that moment, and the row is written   *)
(* by id alone.                                                            *)
(***************************************************************************)
EXTENDS Integers, FiniteSets

CONSTANTS
    Schedules,   \* rows that may appear in scheduled_jobs
    Initially,   \* those that exist from the beginning
    Passes,      \* calls of CronScheduler.tick that may be under way at once
    Requests,    \* API requests that may be made
    Period,      \* the cron expression of a schedule: every Period[s]
    MaxTime,     \* bound: how far the clock runs
    MaxDbErrors, \* bound: passes that fail or die with their process
    NULL

ASSUME PeriodsPositive == Period \in [Schedules -> Nat \ {0}]
ASSUME CronBounds == MaxTime \in Nat /\ MaxDbErrors \in Nat
ASSUME SomeSchedulesExist == Initially \subseteq Schedules
ASSUME NullIsNoSchedule == NULL \notin Schedules

VARIABLES
    now,         \* the clock of the database and of every process
    state,       \* "none", "deleted", or isActive as "active" and "paused"
    nextRunAt,   \* scheduled_jobs.nextRunAt
    hasQueue,    \* the queue of the schedules exists
    pass,        \* the passes
    request,     \* the API requests
    spawned,     \* jobs spawned by a schedule for an occurrence
    overlapped,  \* history: schedules read by a pass while another had them
    rewound,     \* history: schedules a resume put back to where they had fired
    dbErrors

rows == <<state, nextRunAt, hasQueue>>
history == <<spawned, overlapped, rewound>>
vars == <<now, rows, pass, request, history, dbErrors>>

Times == 0 .. MaxTime

\* CronExpressionParser.parse(...).next(): the first occurrence after t.
NextRun(s, t) == (t \div Period[s] + 1) * Period[s]

IdlePass == [pc |-> "idle", todo |-> {}, cur |-> NULL, next |-> 0, read |-> [s \in Schedules |-> 0]]
NewRequest == [pc |-> "new", op |-> NULL, sched |-> NULL, next |-> 0]

Init ==
    /\ now = 0
    /\ state = [s \in Schedules |-> IF s \in Initially THEN "active" ELSE "none"]
    /\ nextRunAt = [s \in Schedules |-> NextRun(s, 0)]
    /\ hasQueue = TRUE
    /\ pass = [p \in Passes |-> IdlePass]
    /\ request = [q \in Requests |-> NewRequest]
    /\ spawned = [s \in Schedules |-> [t \in Times |-> 0]]
    /\ overlapped = {} /\ rewound = {}
    /\ dbErrors = 0

Exists(s) == state[s] \in {"active", "paused"}

TimePasses ==
    /\ now < MaxTime
    /\ now' = now + 1
    /\ UNCHANGED <<rows, pass, request, history, dbErrors>>

(***************************************************************************)
(* CronScheduler.tick.                                                     *)
(***************************************************************************)
Due(s) == state[s] = "active" /\ nextRunAt[s] <= now

\* The schedules a pass has read and not written yet.
Hand(p) == IF pass[p].pc = "idle" THEN {} ELSE pass[p].todo \cup {pass[p].cur}

\* The head of the loop: the next schedule in any order, or the end. The next
\* occurrence is computed here, before the transaction begins.
NextSchedule(p, todo, read) ==
    IF todo = {} THEN pass' = [pass EXCEPT ![p] = IdlePass]
    ELSE \E s \in todo :
            pass' = [pass EXCEPT ![p] = [pc |-> "write", todo |-> todo \ {s}, cur |-> s,
                                         next |-> NextRun(s, now), read |-> read]]

ReadDue(p) ==
    LET due == {s \in Schedules : Due(s)}
    IN  /\ pass[p].pc = "idle"
        /\ due # {}
        /\ NextSchedule(p, due, nextRunAt)
        /\ overlapped' = overlapped \cup {s \in due : \E o \in Passes : s \in Hand(o)}
        /\ UNCHANGED <<now, rows, request, spawned, rewound, dbErrors>>

\* One transaction inserts the job and moves the schedule on.
AdvanceBug(s, t) == UNCHANGED nextRunAt
Advance(s, t) == nextRunAt' = [nextRunAt EXCEPT ![s] = t]

Spawn(p) ==
    LET s == pass[p].cur
    IN  /\ pass[p].pc = "write"
        /\ Exists(s)
        /\ spawned' = [spawned EXCEPT ![s][pass[p].read[s]] = @ + 1]
        /\ Advance(s, pass[p].next)
        /\ NextSchedule(p, pass[p].todo, pass[p].read)
        /\ UNCHANGED <<now, state, hasQueue, request, overlapped, rewound, dbErrors>>

\* The row is gone: the transaction rolls back and tick throws, which leaves
\* the rest of the pass to a later one.
SpawnFailsBug(p) ==
    /\ pass[p].pc = "write"
    /\ ~Exists(pass[p].cur)
    /\ UNCHANGED vars
SpawnFails(p) ==
    /\ pass[p].pc = "write"
    /\ ~Exists(pass[p].cur)
    /\ pass' = [pass EXCEPT ![p] = IdlePass]
    /\ UNCHANGED <<now, rows, request, history, dbErrors>>

\* The transaction fails for another reason, or the process dies.
PassAborts(p) ==
    /\ pass[p].pc = "write"
    /\ dbErrors < MaxDbErrors
    /\ dbErrors' = dbErrors + 1
    /\ pass' = [pass EXCEPT ![p] = IdlePass]
    /\ UNCHANGED <<now, rows, request, history>>

(***************************************************************************)
(* CronService: each request reads, computes, and writes later.            *)
(***************************************************************************)
Ask(q, op, s, t) ==
    /\ request[q].pc = "new"
    /\ request' = [request EXCEPT ![q] = [pc |-> "write", op |-> op, sched |-> s, next |-> t]]
    /\ UNCHANGED <<now, rows, pass, history, dbErrors>>

CreateRead(q, s) == state[s] = "none" /\ hasQueue /\ Ask(q, "create", s, NextRun(s, now))
ResumeRead(q, s) == Exists(s) /\ Ask(q, "resume", s, NextRun(s, now))
PauseRead(q, s) == Exists(s) /\ Ask(q, "pause", s, nextRunAt[s])
DeleteRead(q, s) == Exists(s) /\ Ask(q, "delete", s, 0)

Answer(q) == request' = [request EXCEPT ![q] = [pc |-> "done", op |-> NULL, sched |-> NULL, next |-> 0]]

\* The write finds the row it needs: the queue (a foreign key) or the schedule.
Applies(q) ==
    IF request[q].op = "create" THEN hasQueue /\ state[request[q].sched] = "none"
    ELSE Exists(request[q].sched)

\* Neither the occurrence t of the schedule nor a later one has fired.
NotFiredFrom(s, t) == \A u \in Times : u >= t => spawned[s][u] = 0

NewState(op) ==
    IF op = "delete" THEN "deleted" ELSE IF op = "pause" THEN "paused" ELSE "active"

Write(q) ==
    LET s == request[q].sched
        op == request[q].op
    IN  /\ request[q].pc = "write"
        /\ Applies(q)
        /\ state' = [state EXCEPT ![s] = NewState(op)]
        /\ nextRunAt' = IF op = "delete" THEN nextRunAt
                        ELSE [nextRunAt EXCEPT ![s] = request[q].next]
        /\ rewound' = IF op = "resume" /\ ~NotFiredFrom(s, request[q].next)
                      THEN rewound \cup {s} ELSE rewound
        /\ Answer(q)
        /\ UNCHANGED <<now, hasQueue, pass, spawned, overlapped, dbErrors>>

WriteRejected(q) ==
    /\ request[q].pc = "write"
    /\ ~Applies(q)
    /\ Answer(q)
    /\ UNCHANGED <<now, rows, pass, history, dbErrors>>

\* deleteQueue takes the schedules of the queue with it.
DeleteQueue(q) ==
    /\ request[q].pc = "new"
    /\ hasQueue
    /\ hasQueue' = FALSE
    /\ state' = [s \in Schedules |-> IF Exists(s) THEN "deleted" ELSE state[s]]
    /\ Answer(q)
    /\ UNCHANGED <<now, nextRunAt, pass, history, dbErrors>>

-----------------------------------------------------------------------------
Tick(p) == ReadDue(p) \/ Spawn(p) \/ SpawnFails(p)

Api(q) ==
    \/ \E s \in Schedules :
          CreateRead(q, s) \/ ResumeRead(q, s) \/ PauseRead(q, s) \/ DeleteRead(q, s)
    \/ Write(q) \/ WriteRejected(q) \/ DeleteQueue(q)

Next ==
    \/ TimePasses
    \/ \E p \in Passes : Tick(p) \/ PassAborts(p)
    \/ \E q \in Requests : Api(q)

Spec == Init /\ [][Next]_vars

\* The timers of the workers repeat, and a pass that was started goes on.
FairSpec == Spec /\ \A p \in Passes : WF_vars(Tick(p))

-----------------------------------------------------------------------------
\* The type invariant; a schedule that exists has its queue.
TypeOK ==
    /\ now \in Times
    /\ state \in [Schedules -> {"none", "active", "paused", "deleted"}]
    /\ nextRunAt \in [Schedules -> Nat]
    /\ hasQueue \in BOOLEAN
    /\ \A s \in Schedules : Exists(s) => hasQueue
    /\ pass \in [Passes -> [pc : {"idle", "write"}, todo : SUBSET Schedules,
                            cur : Schedules \cup {NULL}, next : Nat, read : [Schedules -> Nat]]]
    /\ \A p \in Passes : pass[p].pc = "write" => pass[p].cur \in Schedules \ pass[p].todo
    /\ request \in [Requests -> [pc : {"new", "write", "done"},
                                 op : {"create", "resume", "pause", "delete", NULL},
                                 sched : Schedules \cup {NULL}, next : Nat]]
    /\ \A q \in Requests : request[q].pc = "write" =>
           request[q].sched \in Schedules /\ request[q].op \in {"create", "resume", "pause", "delete"}
    /\ spawned \in [Schedules -> [Times -> Nat]]
    /\ overlapped \in SUBSET Schedules /\ rewound \in SUBSET Schedules
    /\ dbErrors \in Nat

\* No occurrence of a schedule spawns two jobs, however late its transaction
\* runs and whatever pauses and deletions come between, with two exceptions:
\* passes that overlap on the schedule (two workers, or a timer that fires
\* again during a slow pass), and a resume that was computed before a spawn
\* and written after it.
OncePerOccurrence ==
    \A s \in Schedules \ (overlapped \cup rewound) :
        \A t \in Times : spawned[s][t] <= 1

\* A schedule that is due does not stay due: it fires, or it is paused, moved
\* or deleted; a pass that fails at another schedule only delays it.
DueIsHandled == \A s \in Schedules : Due(s) ~> ~Due(s)

-----------------------------------------------------------------------------
\* The inductive invariant of the proofs in CronProofs.
\* Outside the exceptions a schedule is in the hands of one pass, and neither
\* the occurrence that pass has read nor a later one has fired; nor has the
\* next occurrence of an active schedule.
HandsAreFresh ==
    \A p \in Passes : \A s \in Hand(p) \ (overlapped \cup rewound) :
        /\ NotFiredFrom(s, pass[p].read[s])
        /\ \A o \in Passes : s \in Hand(o) => o = p

PassesAreDue ==
    \A p \in Passes :
        /\ \A s \in Hand(p) : pass[p].read[s] <= now
        /\ pass[p].pc = "write" => pass[p].read[pass[p].cur] < pass[p].next

SchedulesAreAhead ==
    \A s \in Schedules \ (overlapped \cup rewound) :
        /\ state[s] = "active" => NotFiredFrom(s, nextRunAt[s])
        /\ state[s] = "none" => NotFiredFrom(s, 0)

CInv ==
    /\ TypeOK
    /\ HandsAreFresh
    /\ PassesAreDue
    /\ SchedulesAreAhead
    /\ OncePerOccurrence
=============================================================================
