----------------------------- MODULE CronProofs -----------------------------
(***************************************************************************)
(* Proofs about CronScheduler, for any schedules with any periods, any      *)
(* number of passes, requests and failures, and any run of the clock: a     *)
(* schedule that no two passes have in hand at once, and that no stale      *)
(* resume puts back, fires once for each occurrence.                       *)
(***************************************************************************)
EXTENDS CronScheduler, TLAPS

\* The next occurrence after t lies after t.
LEMMA NextRunIsLater ==
    ASSUME NEW s \in Schedules, NEW t \in Nat
    PROVE  NextRun(s, t) \in Nat /\ NextRun(s, t) > t
<1>1. Period[s] \in Nat /\ Period[s] > 0
  BY PeriodsPositive
<1>2. ASSUME NEW P \in Nat, P > 0
      PROVE  t \div P \in Nat /\ (t \div P + 1) * P \in Nat /\ (t \div P + 1) * P > t
  <2>1. t \div P \in Nat
    BY <1>2, SMT
  <2>2. (t \div P + 1) * P > t
    BY <1>2, SMT
  <2>3. (t \div P + 1) * P \in Nat
    BY <1>2, <2>1, SMT
  <2> QED
    BY <2>1, <2>2, <2>3
<1> QED
  BY <1>1, <1>2 DEF NextRun

\* The initial states satisfy the invariant.
LEMMA InitCInv == Init => CInv
<1> SUFFICES ASSUME Init PROVE CInv
  OBVIOUS
<1>1. \A s \in Schedules : NextRun(s, 0) \in Nat
  BY NextRunIsLater
<1>2. TypeOK
  BY <1>1, CronBounds, SomeSchedulesExist, NullIsNoSchedule
     DEF Init, TypeOK, IdlePass, NewRequest, Exists, Times
<1>3. HandsAreFresh /\ PassesAreDue /\ SchedulesAreAhead /\ OncePerOccurrence
  BY DEF Init, HandsAreFresh, PassesAreDue, SchedulesAreAhead, OncePerOccurrence,
         Hand, IdlePass, NotFiredFrom
<1> QED
  BY <1>2, <1>3 DEF CInv

\* What the head of the loop leaves in the hands of a pass.
LEMMA LoopHead ==
    ASSUME TypeOK, NEW p \in Passes, NEW todo \in SUBSET Schedules,
           NEW read \in [Schedules -> Nat],
           NextSchedule(p, todo, read)
    PROVE  /\ pass' \in [Passes -> [pc : {"idle", "write"}, todo : SUBSET Schedules,
                                   cur : Schedules \cup {NULL}, next : Nat,
                                   read : [Schedules -> Nat]]]
           /\ \A o \in Passes \ {p} : pass'[o] = pass[o]
           /\ pass'[p].pc = "idle" => todo = {}
           /\ pass'[p].pc = "write" =>
                 /\ pass'[p].cur \in Schedules \ pass'[p].todo
                 /\ pass'[p].todo \cup {pass'[p].cur} = todo
                 /\ pass'[p].read = read
                 /\ pass'[p].next > now
<1> USE DEF TypeOK
<1>1. CASE todo = {}
  <2>1. IdlePass \in [pc : {"idle", "write"}, todo : SUBSET Schedules,
                      cur : Schedules \cup {NULL}, next : Nat, read : [Schedules -> Nat]]
    BY DEF IdlePass
  <2>2. IdlePass.pc = "idle"
    BY DEF IdlePass
  <2>3. pass' = [pass EXCEPT ![p] = IdlePass]
    BY <1>1 DEF NextSchedule
  <2> QED
    BY <1>1, <2>1, <2>2, <2>3
<1>2. CASE todo # {}
  <2>1. PICK s \in todo :
           pass' = [pass EXCEPT ![p] = [pc |-> "write", todo |-> todo \ {s}, cur |-> s,
                                        next |-> NextRun(s, now), read |-> read]]
    BY <1>2 DEF NextSchedule
  <2>2. NextRun(s, now) \in Nat /\ NextRun(s, now) > now
    <3>1. now \in Nat /\ s \in Schedules
      BY CronBounds DEF Times
    <3> QED
      BY <3>1, NextRunIsLater
  <2>3. pass'[p] = [pc |-> "write", todo |-> todo \ {s}, cur |-> s,
                    next |-> NextRun(s, now), read |-> read]
    BY <2>1
  <2> QED
    BY <2>1, <2>2, <2>3
<1> QED
  BY <1>1, <1>2

\* Time only makes what was due remain so.
LEMMA TimeKeeps == CInv /\ TimePasses => CInv'
<1> SUFFICES ASSUME CInv, TimePasses PROVE CInv'
  OBVIOUS
<1> USE DEF CInv, TimePasses, rows, history
<1>1. TypeOK'
  BY CronBounds DEF TypeOK, Exists, Times
<1>2. HandsAreFresh' /\ SchedulesAreAhead' /\ OncePerOccurrence'
  BY DEF HandsAreFresh, SchedulesAreAhead, OncePerOccurrence, Hand, NotFiredFrom
<1>3. PassesAreDue'
  BY CronBounds DEF PassesAreDue, Hand, TypeOK, Times
<1> QED
  BY <1>1, <1>2, <1>3

\* A pass takes schedules that are ahead of what has fired, and those that
\* another pass has already become exceptions.
LEMMA ReadDueKeeps == ASSUME CInv, NEW p \in Passes, ReadDue(p) PROVE CInv'
<1> DEFINE due == {s \in Schedules : Due(s)}
<1> USE DEF CInv, ReadDue, rows, history
<1>1. /\ NextSchedule(p, due, nextRunAt)
      /\ due # {}
      /\ pass[p].pc = "idle"
      /\ overlapped' = overlapped \cup {s \in due : \E o \in Passes : s \in Hand(o)}
  OBVIOUS
<1>2. nextRunAt \in [Schedules -> Nat]
  BY DEF TypeOK
<1>3. /\ pass' \in [Passes -> [pc : {"idle", "write"}, todo : SUBSET Schedules,
                              cur : Schedules \cup {NULL}, next : Nat,
                              read : [Schedules -> Nat]]]
      /\ \A o \in Passes \ {p} : pass'[o] = pass[o]
      /\ pass'[p].pc = "write"
      /\ pass'[p].cur \in Schedules \ pass'[p].todo
      /\ pass'[p].todo \cup {pass'[p].cur} = due
      /\ pass'[p].read = nextRunAt
      /\ pass'[p].next > now
  <2>1. due \in SUBSET Schedules
    OBVIOUS
  <2>2. PICK T \in SUBSET Schedules, R \in [Schedules -> Nat] : T = due /\ R = nextRunAt
    BY <2>1, <1>2
  <2>3. NextSchedule(p, T, R)
    BY <1>1, <2>2 DEF NextSchedule
  <2> HIDE DEF due
  <2>4. /\ pass' \in [Passes -> [pc : {"idle", "write"}, todo : SUBSET Schedules,
                                cur : Schedules \cup {NULL}, next : Nat,
                                read : [Schedules -> Nat]]]
        /\ \A o \in Passes \ {p} : pass'[o] = pass[o]
        /\ pass'[p].pc = "idle" => T = {}
        /\ pass'[p].pc = "write" =>
              /\ pass'[p].cur \in Schedules \ pass'[p].todo
              /\ pass'[p].todo \cup {pass'[p].cur} = T
              /\ pass'[p].read = R
              /\ pass'[p].next > now
    BY <2>3, LoopHead
  <2>5. pass'[p].pc \in {"idle", "write"}
    BY <2>4
  <2> QED
    BY <1>1, <2>2, <2>4, <2>5
<1>4. Hand(p)' = due /\ \A o \in Passes \ {p} : Hand(o)' = Hand(o)
  BY <1>3 DEF Hand
<1> HIDE DEF due
<1>5. TypeOK'
  BY <1>1, <1>3 DEF TypeOK, Exists, due
<1>6. HandsAreFresh'
  <2> SUFFICES ASSUME NEW o \in Passes, NEW s \in Hand(o)' \ (overlapped' \cup rewound')
               PROVE  /\ NotFiredFrom(s, pass[o].read[s])'
                      /\ \A o2 \in Passes : s \in Hand(o2)' => o2 = o
    BY DEF HandsAreFresh
  <2>1. CASE o = p
    <3>1. s \in due /\ state[s] = "active" /\ s \notin overlapped \cup rewound
      BY <2>1, <1>1, <1>4 DEF due, Due
    <3>2. NotFiredFrom(s, nextRunAt[s])
      BY <3>1 DEF SchedulesAreAhead, due
    <3>3. \A o2 \in Passes : s \notin Hand(o2)
      BY <3>1, <1>1
    <3> QED
      BY <2>1, <3>2, <3>3, <1>3, <1>4 DEF NotFiredFrom
  <2>2. CASE o # p
    <3>1. s \in Hand(o) /\ s \notin overlapped \cup rewound
      BY <2>2, <1>1, <1>4
    <3>2. s \notin due
      BY <3>1, <1>1
    <3>3. \A o2 \in Passes : s \in Hand(o2)' => s \in Hand(o2)
      BY <3>2, <1>4
    <3>4. /\ NotFiredFrom(s, pass[o].read[s])
          /\ \A o2 \in Passes : s \in Hand(o2) => o2 = o
      BY <3>1 DEF HandsAreFresh
    <3>5. NotFiredFrom(s, pass[o].read[s])'
      BY <3>4, <2>2, <1>3 DEF NotFiredFrom
    <3> QED
      BY <3>3, <3>4, <3>5
  <2> QED
    BY <2>1, <2>2
<1>7. PassesAreDue'
  <2>1. \A s \in due : nextRunAt[s] <= now /\ s \in Schedules
    BY DEF due, Due
  <2>2. pass'[p].cur \in due
    BY <1>3
  <2>3. now \in Nat
    BY CronBounds DEF TypeOK, Times
  <2> QED
    <3> SUFFICES ASSUME NEW o \in Passes
                 PROVE  /\ \A s \in Hand(o)' : pass'[o].read[s] <= now
                        /\ pass'[o].pc = "write" => pass'[o].read[pass'[o].cur] < pass'[o].next
      BY DEF PassesAreDue
    <3>1. CASE o # p
      BY <3>1, <1>3, <1>4 DEF PassesAreDue
    <3>2. CASE o = p
      <4>1. nextRunAt[pass'[p].cur] <= now /\ nextRunAt[pass'[p].cur] \in Nat
        BY <2>1, <2>2, <1>2
      <4>2. pass'[p].next \in Nat
        BY <1>3
      <4>3. nextRunAt[pass'[p].cur] < pass'[p].next
        BY <4>1, <4>2, <2>3, <1>3
      <4> QED
        BY <3>2, <4>3, <2>1, <1>3, <1>4
    <3> QED
      BY <3>1, <3>2
<1>8. SchedulesAreAhead' /\ OncePerOccurrence'
  BY <1>1 DEF SchedulesAreAhead, OncePerOccurrence, NotFiredFrom
<1> QED
  BY <1>5, <1>6, <1>7, <1>8

\* The transaction fires an occurrence that had not fired, for a schedule that
\* no other pass has in hand, and moves the schedule beyond it.
LEMMA SpawnKeeps == ASSUME CInv, NEW p \in Passes, Spawn(p) PROVE CInv'
<1> DEFINE s == pass[p].cur
           t == pass[p].read[s]
<1> USE DEF CInv
<1>1. /\ pass[p].pc = "write"
      /\ Exists(s)
      /\ spawned' = [spawned EXCEPT ![s][t] = @ + 1]
      /\ nextRunAt' = [nextRunAt EXCEPT ![s] = pass[p].next]
      /\ NextSchedule(p, pass[p].todo, pass[p].read)
      /\ UNCHANGED <<now, state, hasQueue, request, overlapped, rewound, dbErrors>>
  BY DEF Spawn, Advance
<1>2. /\ s \in Schedules
      /\ s \notin pass[p].todo
      /\ pass[p].todo \in SUBSET Schedules
      /\ pass[p].read \in [Schedules -> Nat]
      /\ pass[p].next \in Nat
      /\ now \in Nat /\ MaxTime \in Nat /\ now <= MaxTime
  BY <1>1, CronBounds DEF TypeOK, Times
<1>3. s \in Hand(p)
  BY <1>1 DEF Hand
<1>4. t \in Times /\ t <= now /\ t < pass[p].next
  BY <1>1, <1>2, <1>3 DEF PassesAreDue, Times
<1>5. /\ pass' \in [Passes -> [pc : {"idle", "write"}, todo : SUBSET Schedules,
                              cur : Schedules \cup {NULL}, next : Nat,
                              read : [Schedules -> Nat]]]
      /\ \A o \in Passes \ {p} : pass'[o] = pass[o]
      /\ pass'[p].pc = "idle" => pass[p].todo = {}
      /\ pass'[p].pc = "write" =>
            /\ pass'[p].cur \in Schedules \ pass'[p].todo
            /\ pass'[p].todo \cup {pass'[p].cur} = pass[p].todo
            /\ pass'[p].read = pass[p].read
            /\ pass'[p].next > now
  <2>1. PICK T \in SUBSET Schedules, R \in [Schedules -> Nat] :
           T = pass[p].todo /\ R = pass[p].read
    BY <1>2
  <2>2. NextSchedule(p, T, R)
    BY <1>1, <2>1 DEF NextSchedule
  <2>3. /\ pass' \in [Passes -> [pc : {"idle", "write"}, todo : SUBSET Schedules,
                                cur : Schedules \cup {NULL}, next : Nat,
                                read : [Schedules -> Nat]]]
        /\ \A o \in Passes \ {p} : pass'[o] = pass[o]
        /\ pass'[p].pc = "idle" => T = {}
        /\ pass'[p].pc = "write" =>
              /\ pass'[p].cur \in Schedules \ pass'[p].todo
              /\ pass'[p].todo \cup {pass'[p].cur} = T
              /\ pass'[p].read = R
              /\ pass'[p].next > now
    BY <2>2, LoopHead
  <2> QED
    BY <2>1, <2>3
<1>6. /\ Hand(p)' = pass[p].todo
      /\ Hand(p)' \subseteq Hand(p)
      /\ \A o \in Passes \ {p} : Hand(o)' = Hand(o)
      /\ pass'[p].pc = "write" => pass'[p].read = pass[p].read
  BY <1>1, <1>5 DEF Hand, TypeOK
<1> HIDE DEF s, t
<1>7. /\ spawned' \in [Schedules -> [Times -> Nat]]
      /\ \A u \in Schedules, v \in Times :
            spawned'[u][v] = IF u = s /\ v = t THEN spawned[u][v] + 1 ELSE spawned[u][v]
  BY <1>1, <1>2, <1>4 DEF TypeOK
<1>8. TypeOK'
  <2>1. nextRunAt' \in [Schedules -> Nat]
    BY <1>1, <1>2 DEF TypeOK
  <2>2. \A o \in Passes : pass'[o].pc = "write" => pass'[o].cur \in Schedules \ pass'[o].todo
    BY <1>5 DEF TypeOK
  <2>3. \A u \in Schedules : Exists(u)' => hasQueue'
    BY <1>1 DEF TypeOK, Exists
  <2>4. pass' \in [Passes -> [pc : {"idle", "write"}, todo : SUBSET Schedules,
                              cur : Schedules \cup {NULL}, next : Nat, read : [Schedules -> Nat]]]
    BY <1>5
  <2> QED
    BY <2>1, <2>2, <2>3, <2>4, <1>1, <1>7 DEF TypeOK
<1>9. HandsAreFresh'
  <2> SUFFICES ASSUME NEW o \in Passes, NEW u \in Hand(o)' \ (overlapped \cup rewound)
               PROVE  /\ NotFiredFrom(u, pass[o].read[u])'
                      /\ \A o2 \in Passes : u \in Hand(o2)' => o2 = o
    BY <1>1 DEF HandsAreFresh
  <2>1. u \in Hand(o) /\ \A o2 \in Passes : u \in Hand(o2)' => u \in Hand(o2)
    BY <1>6
  <2>2. u # s
    <3>1. CASE o = p
      BY <3>1, <1>2, <1>6 DEF s
    <3>2. CASE o # p
      BY <3>2, <2>1, <1>3 DEF HandsAreFresh, s
    <3> QED
      BY <3>1, <3>2
  <2>3. NotFiredFrom(u, pass[o].read[u])
    BY <2>1 DEF HandsAreFresh
  <2>4. u \in Schedules
    BY <2>1 DEF Hand, TypeOK
  <2>5. pass'[o].read = pass[o].read
    BY <1>5, <1>6 DEF Hand
  <2> QED
    BY <2>1, <2>2, <2>3, <2>4, <2>5, <1>7 DEF HandsAreFresh, NotFiredFrom
<1>10. PassesAreDue'
  <2> SUFFICES ASSUME NEW o \in Passes
               PROVE  /\ \A u \in Hand(o)' : pass'[o].read[u] <= now
                      /\ pass'[o].pc = "write" => pass'[o].read[pass'[o].cur] < pass'[o].next
    BY <1>1 DEF PassesAreDue
  <2>1. CASE o # p
    BY <2>1, <1>5, <1>6 DEF PassesAreDue
  <2>2. CASE o = p
    <3>1. \A u \in Hand(p)' : pass'[p].read[u] <= now
      BY <1>5, <1>6 DEF PassesAreDue, Hand
    <3>2. ASSUME pass'[p].pc = "write"
          PROVE  pass'[p].read[pass'[p].cur] < pass'[p].next
      <4>1. pass'[p].cur \in Hand(p)' /\ pass'[p].cur \in Schedules
        BY <3>2, <1>5 DEF Hand
      <4>2. pass'[p].read[pass'[p].cur] \in Nat /\ pass'[p].next \in Nat
        BY <4>1, <1>5
      <4> QED
        BY <3>1, <3>2, <4>1, <4>2, <1>2, <1>5
    <3> QED
      BY <2>2, <3>1, <3>2
  <2> QED
    BY <2>1, <2>2
<1>11. ASSUME s \notin overlapped \cup rewound
       PROVE  NotFiredFrom(s, t)
  BY <1>3, <1>11 DEF HandsAreFresh, s, t
<1>12. SchedulesAreAhead'
  <2> SUFFICES ASSUME NEW u \in Schedules \ (overlapped \cup rewound)
               PROVE  /\ state[u] = "active" => NotFiredFrom(u, nextRunAt[u])'
                      /\ state[u] = "none" => NotFiredFrom(u, 0)'
    BY <1>1 DEF SchedulesAreAhead
  <2>1. CASE u # s
    BY <2>1, <1>1, <1>2, <1>7 DEF SchedulesAreAhead, NotFiredFrom, TypeOK
  <2>2. CASE u = s
    <3>1. state[s] # "none" /\ nextRunAt'[s] = pass[p].next
      BY <1>1, <1>2 DEF Exists, TypeOK
    <3>2. \A v \in Times : v >= pass[p].next => spawned'[s][v] = 0
      <4> SUFFICES ASSUME NEW v \in Times, v >= pass[p].next PROVE spawned'[s][v] = 0
        OBVIOUS
      <4>1. v \in Nat /\ t \in Nat /\ v >= t /\ v # t
        BY <1>2, <1>4 DEF Times
      <4>2. spawned[s][v] = 0
        BY <4>1, <1>11, <2>2 DEF NotFiredFrom
      <4>3. s \in Schedules
        BY <2>2
      <4> QED
        BY <4>1, <4>2, <4>3, <1>7
    <3> QED
      BY <2>2, <3>1, <3>2 DEF NotFiredFrom
  <2> QED
    BY <2>1, <2>2
<1>13. OncePerOccurrence'
  <2> SUFFICES ASSUME NEW u \in Schedules \ (overlapped \cup rewound), NEW v \in Times
               PROVE  spawned'[u][v] <= 1
    BY <1>1 DEF OncePerOccurrence
  <2>1. CASE u = s /\ v = t
    <3>1. t \in Nat
      BY <1>4 DEF Times
    <3>2. spawned[s][t] = 0
      BY <2>1, <3>1, <1>4, <1>11 DEF NotFiredFrom
    <3> QED
      BY <2>1, <3>2, <1>7
  <2>2. CASE ~(u = s /\ v = t)
    BY <2>2, <1>7 DEF OncePerOccurrence
  <2> QED
    BY <2>1, <2>2
<1> QED
  BY <1>8, <1>9, <1>10, <1>12, <1>13

\* A pass that ends has nothing in its hands.
LEMMA EndPassKeeps ==
    ASSUME CInv, NEW p \in Passes, pass' = [pass EXCEPT ![p] = IdlePass],
           UNCHANGED <<now, rows, request, history>>, dbErrors' \in Nat
    PROVE  CInv'
<1> USE DEF CInv, rows, history
<1>1. pass' \in [Passes -> [pc : {"idle", "write"}, todo : SUBSET Schedules,
                            cur : Schedules \cup {NULL}, next : Nat, read : [Schedules -> Nat]]]
  BY DEF TypeOK, IdlePass
<1>2. /\ pass'[p].pc = "idle"
      /\ \A o \in Passes \ {p} : pass'[o] = pass[o]
  BY DEF TypeOK, IdlePass
<1>3. Hand(p)' = {} /\ \A o \in Passes \ {p} : Hand(o)' = Hand(o)
  BY <1>2 DEF Hand
<1>4. TypeOK'
  BY <1>1, <1>2 DEF TypeOK, Exists
<1>5. HandsAreFresh'
  BY <1>2, <1>3 DEF HandsAreFresh, NotFiredFrom
<1>6. PassesAreDue'
  BY <1>2, <1>3 DEF PassesAreDue
<1>7. SchedulesAreAhead' /\ OncePerOccurrence'
  BY DEF SchedulesAreAhead, OncePerOccurrence, NotFiredFrom
<1> QED
  BY <1>4, <1>5, <1>6, <1>7

\* The read of a request, and a write that finds no row, change no schedule.
LEMMA RequestKeeps ==
    ASSUME CInv, UNCHANGED <<now, rows, pass, history, dbErrors>>,
           request' \in [Requests -> [pc : {"new", "write", "done"},
                                      op : {"create", "resume", "pause", "delete", NULL},
                                      sched : Schedules \cup {NULL}, next : Nat]],
           \A q \in Requests : request'[q].pc = "write" =>
               /\ request'[q].sched \in Schedules
               /\ request'[q].op \in {"create", "resume", "pause", "delete"}
    PROVE  CInv'
<1> USE DEF CInv, rows, history
<1>1. TypeOK'
  BY DEF TypeOK, Exists
<1>2. HandsAreFresh' /\ PassesAreDue' /\ SchedulesAreAhead' /\ OncePerOccurrence'
  BY DEF HandsAreFresh, PassesAreDue, SchedulesAreAhead, OncePerOccurrence, Hand, NotFiredFrom
<1> QED
  BY <1>1, <1>2

\* What a request remembers of its read.
LEMMA AskKeeps ==
    ASSUME CInv, NEW q \in Requests, NEW s \in Schedules, NEW t \in Nat,
           NEW op \in {"create", "resume", "pause", "delete"}, Ask(q, op, s, t)
    PROVE  CInv'
<1>1. /\ request' \in [Requests -> [pc : {"new", "write", "done"},
                                    op : {"create", "resume", "pause", "delete", NULL},
                                    sched : Schedules \cup {NULL}, next : Nat]]
      /\ \A o \in Requests : request'[o].pc = "write" =>
               /\ request'[o].sched \in Schedules
               /\ request'[o].op \in {"create", "resume", "pause", "delete"}
  BY DEF Ask, CInv, TypeOK
<1> QED
  BY <1>1, RequestKeeps DEF Ask

\* A request that is answered forgets its read.
LEMMA AnswerTypes ==
    ASSUME TypeOK, NEW q \in Requests, Answer(q)
    PROVE  /\ request' \in [Requests -> [pc : {"new", "write", "done"},
                                         op : {"create", "resume", "pause", "delete", NULL},
                                         sched : Schedules \cup {NULL}, next : Nat]]
           /\ \A o \in Requests : request'[o].pc = "write" =>
               /\ request'[o].sched \in Schedules
               /\ request'[o].op \in {"create", "resume", "pause", "delete"}
BY DEF Answer, TypeOK

\* A write leaves an active schedule ahead of what it has fired, or marks it.
LEMMA WriteKeeps == ASSUME CInv, NEW q \in Requests, Write(q) PROVE CInv'
<1> DEFINE s == request[q].sched
           op == request[q].op
<1> USE DEF CInv
<1>1. /\ request[q].pc = "write"
      /\ Applies(q)
      /\ state' = [state EXCEPT ![s] = NewState(op)]
      /\ nextRunAt' = IF op = "delete" THEN nextRunAt
                      ELSE [nextRunAt EXCEPT ![s] = request[q].next]
      /\ rewound' = IF op = "resume" /\ ~NotFiredFrom(s, request[q].next)
                    THEN rewound \cup {s} ELSE rewound
      /\ Answer(q)
      /\ UNCHANGED <<now, hasQueue, pass, spawned, overlapped, dbErrors>>
  BY DEF Write
<1>2. s \in Schedules /\ request[q].next \in Nat
  BY <1>1 DEF TypeOK
<1>3. op = "create" => hasQueue /\ state[s] = "none"
  BY <1>1 DEF Applies
<1>4. op # "create" => Exists(s)
  BY <1>1 DEF Applies
<1> HIDE DEF s, op
<1>5. TypeOK'
  <2>1. /\ state' \in [Schedules -> {"none", "active", "paused", "deleted"}]
        /\ nextRunAt' \in [Schedules -> Nat]
        /\ rewound' \in SUBSET Schedules
    BY <1>1, <1>2 DEF TypeOK, NewState
  <2>2. hasQueue /\ \A u \in Schedules : Exists(u)' => hasQueue
    BY <1>1, <1>2, <1>3, <1>4 DEF TypeOK
  <2> QED
    BY <2>1, <2>2, <1>1, AnswerTypes DEF TypeOK
<1>6. rewound \subseteq rewound'
  BY <1>1
<1>7. HandsAreFresh' /\ PassesAreDue' /\ OncePerOccurrence'
  BY <1>1, <1>6 DEF HandsAreFresh, PassesAreDue, OncePerOccurrence, Hand, NotFiredFrom
<1>8. SchedulesAreAhead'
  <2> SUFFICES ASSUME NEW u \in Schedules \ (overlapped \cup rewound')
               PROVE  /\ state'[u] = "active" => NotFiredFrom(u, nextRunAt'[u])
                      /\ state'[u] = "none" => NotFiredFrom(u, 0)
    BY <1>1 DEF SchedulesAreAhead, NotFiredFrom
  <2>1. CASE u # s
    BY <2>1, <1>1, <1>2, <1>6 DEF SchedulesAreAhead, TypeOK
  <2>2. CASE u = s
    <3>1. state'[s] = NewState(op)
      BY <1>1, <1>2 DEF TypeOK
    <3>2. state'[s] = "active" => nextRunAt'[s] = request[q].next
      BY <3>1, <1>1, <1>2 DEF TypeOK, NewState
    <3>3. CASE op = "create"
      <4>1. NotFiredFrom(s, 0)
        BY <2>2, <3>3, <1>3, <1>6 DEF SchedulesAreAhead
      <4>2. NotFiredFrom(s, request[q].next)
        BY <4>1, CronBounds DEF NotFiredFrom, Times
      <4> QED
        BY <2>2, <3>1, <3>2, <3>3, <4>2 DEF NewState
    <3>4. CASE op = "resume"
      BY <2>2, <3>1, <3>2, <3>4, <1>1 DEF NewState
    <3>5. CASE op \notin {"create", "resume"}
      <4>1. op \in {"pause", "delete"}
        BY <3>5, <1>1 DEF TypeOK, op
      <4> QED
        BY <2>2, <3>1, <4>1 DEF NewState
    <3> QED
      BY <3>3, <3>4, <3>5
  <2> QED
    BY <2>1, <2>2
<1> QED
  BY <1>5, <1>7, <1>8

\* The deletion of the queue leaves no schedule active.
LEMMA DeleteQueueKeeps == ASSUME CInv, NEW q \in Requests, DeleteQueue(q) PROVE CInv'
<1> USE DEF CInv, DeleteQueue, history
<1>1. /\ state' \in [Schedules -> {"none", "active", "paused", "deleted"}]
      /\ \A s \in Schedules : ~Exists(s)' /\ (state'[s] = "none" => state[s] = "none")
                              /\ state'[s] # "active"
  BY DEF TypeOK, Exists
<1>2. TypeOK'
  BY <1>1, AnswerTypes DEF TypeOK
<1>3. HandsAreFresh' /\ PassesAreDue' /\ OncePerOccurrence'
  BY DEF HandsAreFresh, PassesAreDue, OncePerOccurrence, Hand, NotFiredFrom
<1>4. SchedulesAreAhead'
  BY <1>1 DEF SchedulesAreAhead, NotFiredFrom
<1> QED
  BY <1>2, <1>3, <1>4

-----------------------------------------------------------------------------
\* CInv is an invariant: of the type invariant and of OncePerOccurrence it
\* adds what the passes have in hand and where the schedules stand.
THEOREM CronInvariance == Spec => []CInv
<1>1. Init => CInv
  BY InitCInv
<1>2. CInv /\ [Next]_vars => CInv'
  <2> SUFFICES ASSUME CInv, [Next]_vars PROVE CInv'
    OBVIOUS
  <2>1. CASE TimePasses
    BY <2>1, TimeKeeps
  <2>2. ASSUME NEW p \in Passes, Tick(p) \/ PassAborts(p) PROVE CInv'
    <3>1. CASE ReadDue(p)
      BY <3>1, ReadDueKeeps
    <3>2. CASE Spawn(p)
      BY <3>2, SpawnKeeps
    <3>3. CASE SpawnFails(p)
      BY <3>3, EndPassKeeps DEF SpawnFails, CInv, TypeOK
    <3>4. CASE PassAborts(p)
      <4>1. dbErrors' \in Nat
        BY <3>4 DEF PassAborts, CInv, TypeOK
      <4> QED
        BY <3>4, <4>1, EndPassKeeps DEF PassAborts
    <3> QED
      BY <2>2, <3>1, <3>2, <3>3, <3>4 DEF Tick
  <2>3. ASSUME NEW q \in Requests, Api(q) PROVE CInv'
    <3>1. ASSUME NEW s \in Schedules,
                 CreateRead(q, s) \/ ResumeRead(q, s) \/ PauseRead(q, s) \/ DeleteRead(q, s)
          PROVE  CInv'
      <4>1. now \in Nat
        BY CronBounds DEF CInv, TypeOK, Times
      <4>2. NextRun(s, now) \in Nat /\ nextRunAt[s] \in Nat
        BY <4>1, NextRunIsLater DEF CInv, TypeOK
      <4> HIDE DEF NextRun
      <4> QED
        BY <3>1, <4>2, AskKeeps DEF CreateRead, ResumeRead, PauseRead, DeleteRead
    <3>2. CASE Write(q)
      BY <3>2, WriteKeeps
    <3>3. CASE WriteRejected(q)
      BY <3>3, AnswerTypes, RequestKeeps DEF WriteRejected, CInv
    <3>4. CASE DeleteQueue(q)
      BY <3>4, DeleteQueueKeeps
    <3> QED
      BY <2>3, <3>1, <3>2, <3>3, <3>4 DEF Api
  <2>4. CASE UNCHANGED vars
    BY <2>4, RequestKeeps DEF vars, CInv, TypeOK
  <2> QED
    BY <2>1, <2>2, <2>3, <2>4 DEF Next
<1> QED
  BY <1>1, <1>2, PTL DEF Spec

\* The type invariant holds for every value of the constants.
THEOREM CronTypes == Spec => []TypeOK
<1>1. CInv => TypeOK
  BY DEF CInv
<1> QED
  BY <1>1, CronInvariance, PTL

\* No occurrence spawns two jobs unless two passes had the schedule at once
\* or a stale resume put it back.
THEOREM FiresOnce == Spec => []OncePerOccurrence
<1>1. CInv => OncePerOccurrence
  BY DEF CInv
<1> QED
  BY <1>1, CronInvariance, PTL
=============================================================================
