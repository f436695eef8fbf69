---------------------------- MODULE SocketsProofs ----------------------------
(***************************************************************************)
(* Proofs about Sockets, for any number of sessions, sockets that break,   *)
(* tokens that expire and machines that come and go.                       *)
(***************************************************************************)
EXTENDS Sockets, TLAPS

\* What the invariant says of the page, and what it says of the server: an
\* action disturbs one of the two.
PageInv == OneLoopPerRun /\ LiveSyncIsTrue
ServerInv == EntriesAreOpen /\ LookupsKnown

LEMMA PageStays == PageInv /\ UNCHANGED page => PageInv'
BY DEF PageInv, OneLoopPerRun, LiveSyncIsTrue, page, In

LEMMA ServerStays == ServerInv /\ UNCHANGED machines => ServerInv'
BY DEF ServerInv, EntriesAreOpen, LookupsKnown, machines

\* The initial states satisfy the invariant.
LEMMA InitSInv == Init => SInv
<1> SUFFICES ASSUME Init PROVE SInv
  OBVIOUS
<1>1. TypeOK /\ runs <= changes
  <2>1. Free \in [state : States, run : 0..0, token : Tokens \cup {NULL}] /\ Free.state = "free"
    BY DEF Free, States
  <2>2. loop \in [Loops -> [state : States, run : 0..runs, token : Tokens \cup {NULL}]]
    BY <2>1 DEF Init
  <2>3. \A l \in Loops : loop[l] = Free /\ loop[l].state = "free"
    BY <2>1 DEF Init
  <2>4. connected \in BOOLEAN
    BY DEF Init
  <2> QED
    BY <2>2, <2>3, <2>4, SocketBounds DEF Init, TypeOK
<1>2. OneLoopPerRun /\ LiveSyncIsTrue
  BY DEF Init, OneLoopPerRun, LiveSyncIsTrue, In, Free
<1>3. EntriesAreOpen /\ LookupsKnown
  BY DEF Init, EntriesAreOpen, LookupsKnown
<1> QED
  BY <1>1, <1>2, <1>3 DEF SInv

\* The cleanup keeps the number and the token of a loop that it does not end,
\* and no open socket vanishes.
LEMMA CleanupKeeps ==
    ASSUME TypeOK, NEW l \in Loops
    PROVE  \/ AfterCleanup[l] = Free /\ loop[l].state \in {"free", "waiting"}
           \/ /\ AfterCleanup[l].state \in States \ {"free"}
              /\ AfterCleanup[l].run = loop[l].run
              /\ AfterCleanup[l].token = loop[l].token
              /\ AfterCleanup[l] \in [state : States, run : 0..runs, token : Tokens \cup {NULL}]
              /\ loop[l].state \in {"open", "closing"} => AfterCleanup[l].state \in {"open", "closing"}
              /\ loop[l].state # "free"
<1>1. loop[l] \in [state : States, run : 0..runs, token : Tokens \cup {NULL}]
  BY DEF TypeOK
<1>2. loop[l].state = "free" <=> loop[l] = Free
  BY DEF TypeOK
<1>3. AfterCleanup[l] =
        IF token # NULL /\ l = timerRef /\ In(l, "waiting") THEN Free
        ELSE IF token # NULL /\ l = wsRef /\ loop[l].state \in {"connecting", "open"}
             THEN [loop[l] EXCEPT !.state = "closing"]
             ELSE loop[l]
  BY DEF AfterCleanup
<1>4. CASE token # NULL /\ l = timerRef /\ In(l, "waiting")
  BY <1>3, <1>4 DEF In
<1>5. CASE /\ ~(token # NULL /\ l = timerRef /\ In(l, "waiting"))
           /\ token # NULL /\ l = wsRef /\ loop[l].state \in {"connecting", "open"}
  BY <1>1, <1>3, <1>5 DEF States
<1>6. CASE /\ ~(token # NULL /\ l = timerRef /\ In(l, "waiting"))
           /\ ~(token # NULL /\ l = wsRef /\ loop[l].state \in {"connecting", "open"})
  BY <1>1, <1>2, <1>3, <1>6 DEF States
<1> QED
  BY <1>4, <1>5, <1>6

\* A new session takes the next number; its loop is none of the others'.
LEMMA TokenChangesKeeps ==
    ASSUME SInv, NEW t \in Tokens \cup {NULL}, NEW l \in Loops, TokenChanges(t, l)
    PROVE  SInv'
<1> USE DEF SInv
<1>1. ServerInv'
  BY ServerStays DEF ServerInv, TokenChanges
<1>2. TypeOK /\ OneLoopPerRun /\ LiveSyncIsTrue /\ runs \in Nat /\ changes \in Nat /\ runs <= changes
  BY SocketBounds DEF TypeOK
<1>3. \A k \in Loops : (AfterCleanup[k].state = "free" <=> AfterCleanup[k] = Free)
                       /\ AfterCleanup[k] \in [state : States, run : 0..runs, token : Tokens \cup {NULL}]
  BY CleanupKeeps, <1>2 DEF Free, States
<1>4. /\ token' = t /\ changes' = changes + 1 /\ changes < MaxChanges
      /\ UNCHANGED <<timerRef, expired, machines, drops>>
  BY DEF TokenChanges
<1>5. AfterCleanup \in [Loops -> [state : States, run : 0..runs, token : Tokens \cup {NULL}]]
  BY <1>3 DEF AfterCleanup
<1>6. \A k, m \in Loops : (k # m /\ AfterCleanup[k].state # "free") =>
         AfterCleanup[k].run \in 1..runs /\ AfterCleanup[m].run # AfterCleanup[k].run
  <2> SUFFICES ASSUME NEW k \in Loops, NEW m \in Loops, k # m, AfterCleanup[k].state # "free"
               PROVE  AfterCleanup[k].run \in 1..runs /\ AfterCleanup[m].run # AfterCleanup[k].run
    OBVIOUS
  <2>1. AfterCleanup[k].run = loop[k].run /\ loop[k].state # "free"
    BY <1>2, CleanupKeeps DEF Free
  <2>2. AfterCleanup[m].run \in {0, loop[m].run}
    BY <1>2, CleanupKeeps DEF Free
  <2>3. loop[k].run \in 1..runs /\ loop[m].run # loop[k].run
    BY <2>1 DEF OneLoopPerRun, In
  <2> QED
    BY <1>2, <2>1, <2>2, <2>3
<1>7. \A k \in Loops : AfterCleanup[k].state # "free" => AfterCleanup[k].run \in 1..runs
  BY <1>2, CleanupKeeps DEF Free, OneLoopPerRun, In
<1>8. CASE t = NULL
  <2>1. /\ loop' = AfterCleanup /\ connected' = FALSE /\ UNCHANGED <<runs, wsRef>>
    BY <1>8 DEF TokenChanges
  <2>2. TypeOK' /\ runs' <= changes'
    <3>1. loop' \in [Loops -> [state : States, run : 0..runs', token : Tokens \cup {NULL}]]
      BY <1>5, <2>1
    <3>2. \A k \in Loops : loop'[k].state = "free" <=> loop'[k] = Free
      BY <1>3, <2>1
    <3>3. connected' \in BOOLEAN
      BY <2>1
    <3> QED
      BY <1>2, <1>4, <1>8, <2>1, <3>1, <3>2, <3>3, SocketBounds DEF TypeOK, machines
  <2>3. OneLoopPerRun'
    BY <1>4, <1>8, <1>6, <1>7, <2>1 DEF OneLoopPerRun, In
  <2>4. LiveSyncIsTrue'
    BY <2>1 DEF LiveSyncIsTrue
  <2> QED
    BY <1>1, <2>2, <2>3, <2>4 DEF ServerInv
<1>9. CASE t # NULL
  <2> DEFINE new == [state |-> "connecting", run |-> runs + 1, token |-> t]
  <2>1. /\ loop' = [AfterCleanup EXCEPT ![l] = new]
        /\ AfterCleanup[l] = Free
        /\ runs' = runs + 1 /\ wsRef' = l /\ UNCHANGED connected
    BY <1>9 DEF TokenChanges
  <2>2. \A k \in Loops : loop'[k] = IF k = l THEN new ELSE AfterCleanup[k]
    BY <1>5, <2>1
  <2>3. TypeOK' /\ runs' <= changes'
    <3>1. loop' \in [Loops -> [state : States, run : 0..runs', token : Tokens \cup {NULL}]]
      <4>1. new \in [state : States, run : 0..(runs + 1), token : Tokens \cup {NULL}]
        BY <1>2 DEF States
      <4>2. \A k \in Loops :
               AfterCleanup[k] \in [state : States, run : 0..(runs + 1), token : Tokens \cup {NULL}]
        BY <1>2, <1>3
      <4> QED
        BY <1>5, <2>1, <4>1, <4>2
    <3>2. \A k \in Loops : loop'[k].state = "free" <=> loop'[k] = Free
      BY <1>3, <2>2 DEF Free
    <3> QED
      BY <1>2, <1>4, <2>1, <3>1, <3>2, SocketBounds DEF TypeOK, machines
  <2>4. OneLoopPerRun'
    <3>1. \A k \in Loops \ {l} : loop'[k] = AfterCleanup[k] /\ loop'[k].run \in 0..runs
      BY <1>3, <2>2
    <3>2. loop'[l].run = runs + 1 /\ loop'[l].token = t
      BY <2>2
    <3>3. \A k \in Loops : loop'[k].state # "free" => loop'[k].run \in 1..(runs + 1)
      BY <1>2, <1>7, <3>1, <3>2
    <3>4. \A k, m \in Loops : (k # m /\ loop'[k].state # "free") => loop'[m].run # loop'[k].run
      BY <1>2, <1>6, <3>1, <3>2
    <3> QED
      BY <1>4, <2>1, <3>2, <3>3, <3>4 DEF OneLoopPerRun, In
  <2>5. LiveSyncIsTrue'
    <3>1. \A k \in Loops : loop[k].state \in {"open", "closing"} =>
             AfterCleanup[k].state \in {"open", "closing"}
      BY <1>2, CleanupKeeps
    <3> QED
      BY <1>2, <2>1, <2>2, <3>1 DEF LiveSyncIsTrue, Free
  <2> QED
    BY <1>1, <2>3, <2>4, <2>5 DEF ServerInv
<1> QED
  BY <1>8, <1>9

\* An event of a socket or of its timer moves one loop, which keeps its number
\* and its token.
LEMMA MoveKeeps ==
    ASSUME SInv, NEW l \in Loops, NEW s \in States \ {"free"},
           loop[l].state # "free",
           loop' = [loop EXCEPT ![l].state = s],
           UNCHANGED <<token, runs, changes, expired, machines>>,
           {wsRef', timerRef'} \subseteq Loops \cup {NULL},
           connected' \in BOOLEAN, drops' \in 0..MaxDrops,
           connected' => \E k \in Loops : loop'[k].state \in {"open", "closing"}
    PROVE  SInv'
<1> USE DEF SInv
<1>1. ServerInv'
  BY ServerStays DEF ServerInv
<1>2. \A k \in Loops : /\ loop'[k].run = loop[k].run /\ loop'[k].token = loop[k].token
                       /\ loop'[k].state = IF k = l THEN s ELSE loop[k].state
                       /\ k # l => loop'[k] = loop[k]
  BY DEF TypeOK
<1>3. TypeOK' /\ runs' <= changes'
  <2>1. loop' \in [Loops -> [state : States, run : 0..runs, token : Tokens \cup {NULL}]]
    BY DEF TypeOK
  <2>2. \A k \in Loops : loop'[k].state = "free" <=> loop'[k] = Free
    BY <1>2 DEF TypeOK, Free
  <2> QED
    BY <2>1, <2>2 DEF TypeOK, machines
<1>4. OneLoopPerRun'
  BY <1>2 DEF OneLoopPerRun, In
<1>5. LiveSyncIsTrue'
  BY DEF LiveSyncIsTrue
<1> QED
  BY <1>1, <1>3, <1>4, <1>5 DEF ServerInv

LEMMA EventsKeep ==
    ASSUME SInv, NEW l \in Loops, OnOpen(l) \/ OnClose(l) \/ TimerFires(l) \/ Drop(l)
    PROVE  SInv'
<1>1. TypeOK /\ LiveSyncIsTrue
  BY DEF SInv
<1>2. CASE OnOpen(l)
  <2> DEFINE s == IF loop[l].token \in expired THEN "closing" ELSE "open"
  <2>1. s \in States \ {"free"} /\ s \in {"open", "closing"}
    BY DEF States
  <2>2. loop' = [loop EXCEPT ![l].state = s] /\ loop[l].state # "free"
    BY <1>2 DEF OnOpen, Move, In
  <2>3. loop'[l].state = s
    BY <1>1, <2>2 DEF TypeOK
  <2>4. /\ UNCHANGED <<token, runs, changes, expired, machines>>
        /\ {wsRef', timerRef'} \subseteq Loops \cup {NULL}
        /\ connected' \in BOOLEAN /\ drops' \in 0..MaxDrops
    BY <1>1, <1>2 DEF OnOpen, TypeOK
  <2> HIDE DEF s
  <2> QED
    BY <2>1, <2>2, <2>3, <2>4, MoveKeeps
<1>3. CASE Drop(l)
  <2>1. loop' = [loop EXCEPT ![l].state = "closing"] /\ loop[l].state # "free"
    BY <1>3 DEF Drop, Move
  <2>2. /\ UNCHANGED <<token, runs, changes, expired, machines>>
        /\ {wsRef', timerRef'} \subseteq Loops \cup {NULL}
        /\ connected' = FALSE /\ drops' \in 0..MaxDrops
    BY <1>1, <1>3, SocketBounds DEF Drop, TypeOK
  <2> QED
    BY <2>1, <2>2, MoveKeeps DEF States
<1>4. CASE OnClose(l)
  <2>1. loop' = [loop EXCEPT ![l].state = "waiting"] /\ loop[l].state # "free"
    BY <1>4 DEF OnClose, Move, In
  <2>2. /\ UNCHANGED <<token, runs, changes, expired, machines>>
        /\ {wsRef', timerRef'} \subseteq Loops \cup {NULL}
        /\ connected' = FALSE /\ drops' \in 0..MaxDrops
    BY <1>1, <1>4 DEF OnClose, Shown, Armed, TypeOK
  <2> QED
    BY <2>1, <2>2, MoveKeeps DEF States
<1>5. CASE TimerFires(l)
  <2>1. loop' = [loop EXCEPT ![l].state = "connecting"] /\ loop[l].state = "waiting"
    BY <1>1, <1>5 DEF TimerFires, Reconnected, In, TypeOK
  <2>2. /\ UNCHANGED <<token, runs, changes, expired, machines, connected>>
        /\ {wsRef', timerRef'} \subseteq Loops \cup {NULL}
        /\ connected' \in BOOLEAN /\ drops' \in 0..MaxDrops
    BY <1>1, <1>5 DEF TimerFires, TypeOK
  <2>3. connected' => \E k \in Loops : loop'[k].state \in {"open", "closing"}
    BY <1>1, <2>1, <2>2 DEF LiveSyncIsTrue, TypeOK
  <2> QED
    BY <2>1, <2>2, <2>3, MoveKeeps DEF States
<1> QED
  BY <1>2, <1>3, <1>4, <1>5

\* The lookup of a key and the end of its connection, in either order.
LEMMA ServerKeeps ==
    ASSUME SInv, NEW m \in Machines,
           MachineConnects(m) \/ KeyFound(m) \/ KeyRejected(m) \/ MachineLeaves(m)
    PROVE  SInv'
<1> USE DEF SInv
<1>1. UNCHANGED <<page, expired, drops, changes>>
  BY DEF MachineConnects, KeyFound, KeyRejected, MachineLeaves
<1>2. PageInv'
  BY <1>1, PageStays DEF PageInv
<1>3. TypeOK /\ EntriesAreOpen /\ LookupsKnown
  OBVIOUS
<1>4. /\ link' \in [Machines -> {"new", "up", "gone"}]
      /\ asked' \subseteq Machines /\ clients' \subseteq Machines \ asked' /\ early' \subseteq Machines
      /\ ServerInv'
  <2> USE DEF TypeOK, EntriesAreOpen, LookupsKnown, ServerInv
  <2>1. CASE MachineConnects(m)
    BY <1>3, <2>1 DEF MachineConnects
  <2>2. CASE KeyFound(m)
    BY <1>3, <2>2 DEF KeyFound
  <2>3. CASE KeyRejected(m)
    BY <1>3, <2>3 DEF KeyRejected
  <2>4. CASE MachineLeaves(m)
    BY <1>3, <2>4 DEF MachineLeaves, Kept
  <2> QED
    BY <2>1, <2>2, <2>3, <2>4
<1>5. TypeOK' /\ runs' <= changes'
  BY <1>1, <1>3, <1>4 DEF TypeOK, page
<1> QED
  BY <1>2, <1>4, <1>5 DEF PageInv, ServerInv

\* The end of the server: open sockets are closing, and no entry is left.
LEMMA EndKeeps ==
    ASSUME SInv, NEW m \in Machines, ErrorUnheard(m)
    PROVE  SInv'
<1> USE DEF SInv
<1>1. \A l \in Loops : /\ loop[l] \in [state : States, run : 0..runs, token : Tokens \cup {NULL}]
                       /\ loop[l].state = "free" <=> loop[l] = Free
  BY DEF TypeOK
<1>2. ASSUME NEW l \in Loops
      PROVE  /\ Ended[l] \in [state : States, run : 0..runs, token : Tokens \cup {NULL}]
             /\ Ended[l].state = "free" <=> Ended[l] = Free
             /\ Ended[l].run = loop[l].run /\ Ended[l].token = loop[l].token
             /\ Ended[l].state = "free" <=> loop[l].state = "free"
             /\ loop[l].state \in {"open", "closing"} => Ended[l].state \in {"open", "closing"}
  <2>1. CASE In(l, "open")
    <3>1. Ended[l] = [loop[l] EXCEPT !.state = "closing"]
      BY <2>1 DEF Ended
    <3> QED
      BY <1>1, <2>1, <3>1 DEF In, States, Free
  <2>2. CASE ~In(l, "open")
    <3>1. Ended[l] = loop[l]
      BY <2>2 DEF Ended
    <3> QED
      BY <1>1, <3>1
  <2> QED
    BY <2>1, <2>2
<1>3. /\ loop' = Ended /\ drops' = drops + 1 /\ drops < MaxDrops
      /\ UNCHANGED <<token, runs, wsRef, timerRef, connected, expired, early, changes>>
      /\ asked' = {} /\ clients' = {}
      /\ link' = [k \in Machines |-> IF link[k] = "up" THEN "gone" ELSE link[k]]
  BY DEF ErrorUnheard
<1>4. TypeOK' /\ runs' <= changes'
  <2>1. loop' \in [Loops -> [state : States, run : 0..runs', token : Tokens \cup {NULL}]]
    BY <1>2, <1>3 DEF Ended
  <2>2. \A l \in Loops : loop'[l].state = "free" <=> loop'[l] = Free
    BY <1>2, <1>3
  <2>3. link' \in [Machines -> {"new", "up", "gone"}] /\ drops' \in 0..MaxDrops
    BY <1>3, SocketBounds DEF TypeOK
  <2> QED
    BY <1>3, <2>1, <2>2, <2>3 DEF TypeOK
<1>5. OneLoopPerRun'
  BY <1>2, <1>3 DEF OneLoopPerRun, In
<1>6. LiveSyncIsTrue'
  BY <1>2, <1>3 DEF LiveSyncIsTrue
<1>7. EntriesAreOpen' /\ LookupsKnown'
  BY <1>3 DEF EntriesAreOpen, LookupsKnown, TypeOK
<1> QED
  BY <1>4, <1>5, <1>6, <1>7

\* Every step preserves the invariant.
LEMMA NextSInv == SInv /\ [Next]_vars => SInv'
<1> SUFFICES ASSUME SInv, [Next]_vars PROVE SInv'
  OBVIOUS
<1>1. ASSUME NEW t \in Tokens, TokenExpires(t) PROVE SInv'
  <2>1. UNCHANGED <<page, machines, drops, changes>> /\ expired' \subseteq Tokens
    BY <1>1 DEF TokenExpires, SInv, TypeOK
  <2>2. PageInv' /\ ServerInv'
    BY <2>1, PageStays, ServerStays DEF SInv, PageInv, ServerInv
  <2> QED
    BY <2>1, <2>2 DEF SInv, PageInv, ServerInv, TypeOK, page, machines
<1>2. CASE UNCHANGED vars
  <2>1. PageInv' /\ ServerInv'
    BY <1>2, PageStays, ServerStays DEF SInv, PageInv, ServerInv, vars
  <2> QED
    BY <1>2, <2>1 DEF SInv, PageInv, ServerInv, TypeOK, vars, page, machines
<1> QED
  BY <1>1, <1>2, TokenChangesKeeps, EventsKeep, ServerKeeps, EndKeeps DEF Next

\* The invariant holds in every reachable state: the numbers of the loops, the
\* indicator and the table of clients are as SInv says.
THEOREM SocketInvariance == Spec => []SInv
<1>1. Init => SInv
  BY InitSInv
<1>2. SInv /\ [Next]_vars => SInv'
  BY NextSInv
<1> QED
  BY <1>1, <1>2, PTL DEF Spec

\* Reconnection does not multiply the connections of a session, and the
\* session that is on has one.
THEOREM ReconnectionKeepsOne == Spec => []OneLoopPerRun
<1>1. SInv => OneLoopPerRun
  BY DEF SInv
<1> QED
  BY <1>1, SocketInvariance, PTL

\* The indicator is never on without a socket.
THEOREM IndicatorTrue == Spec => []LiveSyncIsTrue
<1>1. SInv => LiveSyncIsTrue
  BY DEF SInv
<1> QED
  BY <1>1, SocketInvariance, PTL

\* The entries of the table of clients are open connections, except those that
\* were gone before they were registered.
THEOREM ClientsOpen == Spec => []EntriesAreOpen
<1>1. SInv => EntriesAreOpen
  BY DEF SInv
<1> QED
  BY <1>1, SocketInvariance, PTL

\* The variables keep their types.
THEOREM SocketTypes == Spec => []TypeOK
<1>1. SInv => TypeOK
  BY DEF SInv
<1> QED
  BY <1>1, SocketInvariance, PTL
=============================================================================
