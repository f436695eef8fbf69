------------------------------ MODULE Sockets ------------------------------
(***************************************************************************)
(* The live connection of the dashboard: WebSocketContext, whose effect    *)
(* opens a socket for each session and opens it again when it closes, and  *)
(* the connection handler and the table of clients of WsServer.            *)
(*                                                                         *)
(* A run of the effect is a loop that is connecting, open, closing (the    *)
(* close event is still to come) or waiting for its timer; the refs of the *)
(* context point to the loop that used them last. Closing one socket and   *)
(* opening the next do not wait for each other.                            *)
(*                                                                         *)
(* A client with a token enters the table of the server in the step that   *)
(* accepts it; one with an API key waits for the database in between.      *)
(***************************************************************************)
EXTENDS Naturals

CONSTANTS
    Tokens,      \* the tokens that sessions may have
    Machines,    \* connections with an API key
    Loops,       \* room for loops in the page
    MaxChanges,  \* bound: changes of the token
    MaxDrops,    \* bound: connections that fail or break, and ends of the server
    NULL

ASSUME SocketBounds == MaxChanges \in Nat /\ MaxDrops \in Nat
ASSUME NullIsNeither == NULL \notin Tokens \cup Loops

VARIABLES
    token,      \* of AuthProvider
    runs,       \* runs of the effect that have connected so far
    loop,       \* [state, run, token] of the loops
    wsRef, timerRef,
    connected,  \* isConnected
    expired,    \* the tokens the server no longer accepts
    link,       \* the connections with an API key: new, up, gone
    asked,      \* those whose key is being looked up
    clients,    \* those in WsServer.clients
    early,      \* history: those that were gone before the answer came
    drops, changes

page == <<token, runs, loop, wsRef, timerRef, connected>>
machines == <<link, asked, clients, early>>
vars == <<page, expired, machines, drops, changes>>

States == {"free", "connecting", "open", "closing", "waiting"}
Free == [state |-> "free", run |-> 0, token |-> NULL]

\* Types of the state.
TypeOK ==
    /\ token \in Tokens \cup {NULL}
    /\ runs \in 0..MaxChanges
    /\ loop \in [Loops -> [state : States, run : 0..runs, token : Tokens \cup {NULL}]]
    /\ \A l \in Loops : loop[l].state = "free" <=> loop[l] = Free
    /\ {wsRef, timerRef} \subseteq Loops \cup {NULL}
    /\ connected \in BOOLEAN
    /\ expired \subseteq Tokens
    /\ link \in [Machines -> {"new", "up", "gone"}]
    /\ asked \subseteq Machines /\ clients \subseteq Machines \ asked /\ early \subseteq Machines
    /\ drops \in 0..MaxDrops /\ changes \in 0..MaxChanges

Init ==
    /\ token = NULL
    /\ runs = 0
    /\ loop = [l \in Loops |-> Free]
    /\ wsRef = NULL /\ timerRef = NULL
    /\ connected = FALSE
    /\ expired = {}
    /\ link = [m \in Machines |-> "new"]
    /\ asked = {} /\ clients = {} /\ early = {}
    /\ drops = 0 /\ changes = 0

In(l, s) == loop[l].state = s
Move(l, s) == loop' = [loop EXCEPT ![l].state = s]

(***************************************************************************)
(* The effect and its cleanup, which run together when the token changes.  *)
(***************************************************************************)
\* clearTimeout and close, through the refs, when the run that ends had a token.
AfterCleanup ==
    [l \in Loops |->
        IF token # NULL /\ l = timerRef /\ In(l, "waiting") THEN Free
        ELSE IF token # NULL /\ l = wsRef /\ loop[l].state \in {"connecting", "open"}
             THEN [loop[l] EXCEPT !.state = "closing"]
             ELSE loop[l]]

TokenChanges(t, l) ==
    /\ changes < MaxChanges
    /\ changes' = changes + 1
    /\ t # token
    /\ token' = t
    /\ t # NULL => AfterCleanup[l] = Free
    /\ IF t = NULL
       THEN /\ loop' = AfterCleanup
            /\ connected' = FALSE
            /\ UNCHANGED <<runs, wsRef>>
       ELSE /\ loop' = [AfterCleanup EXCEPT ![l] =
                          [state |-> "connecting", run |-> runs + 1, token |-> t]]
            /\ runs' = runs + 1
            /\ wsRef' = l
            /\ UNCHANGED connected
    /\ UNCHANGED <<timerRef, expired, machines, drops>>

\* onopen: the server has accepted the connection; for a token that is not
\* valid it closes the socket at once.
OnOpen(l) ==
    /\ In(l, "connecting")
    /\ connected' = TRUE
    /\ Move(l, IF loop[l].token \in expired THEN "closing" ELSE "open")
    /\ UNCHANGED <<token, runs, wsRef, timerRef, expired, machines, drops, changes>>

\* The connection breaks, or cannot be made: onerror.
Drop(l) ==
    /\ loop[l].state \in {"connecting", "open"}
    /\ drops < MaxDrops
    /\ drops' = drops + 1
    /\ connected' = FALSE
    /\ Move(l, "closing")
    /\ UNCHANGED <<token, runs, wsRef, timerRef, expired, machines, changes>>

\* onclose arms the timer, whether or not the socket was closed on purpose.
ShownBug == connected
Shown == FALSE
Armed(l) == l
OnClose(l) ==
    /\ In(l, "closing")
    /\ connected' = Shown
    /\ Move(l, "waiting")
    /\ timerRef' = Armed(l)
    /\ UNCHANGED <<token, runs, wsRef, expired, machines, drops, changes>>

\* The timer: connect again, with the token of the loop.
ReconnectedBug(l) == IF connected THEN Free ELSE [loop[l] EXCEPT !.state = "connecting"]
Reconnected(l) == [loop[l] EXCEPT !.state = "connecting"]
TimerFires(l) ==
    /\ In(l, "waiting")
    /\ loop' = [loop EXCEPT ![l] = Reconnected(l)]
    /\ wsRef' = l
    /\ UNCHANGED <<token, runs, timerRef, connected, expired, machines, drops, changes>>

(***************************************************************************)
(* WsServer.                                                               *)
(***************************************************************************)
TokenExpires(t) ==
    /\ t \notin expired
    /\ expired' = expired \cup {t}
    /\ UNCHANGED <<page, machines, drops, changes>>

\* A machine connects and its key is looked up; it is no client yet.
MachineConnects(m) ==
    /\ link[m] = "new"
    /\ link' = [link EXCEPT ![m] = "up"]
    /\ asked' = asked \cup {m}
    /\ UNCHANGED <<page, expired, clients, early, drops, changes>>

\* The client and the handler of its close event are registered, whether or
\* not the connection is still there.
KeyFound(m) ==
    /\ m \in asked
    /\ asked' = asked \ {m}
    /\ clients' = clients \cup {m}
    /\ UNCHANGED <<page, expired, link, early, drops, changes>>

\* An unknown key, or a failing query: the server closes the socket.
KeyRejected(m) ==
    /\ m \in asked
    /\ asked' = asked \ {m}
    /\ link' = [link EXCEPT ![m] = "gone"]
    /\ UNCHANGED <<page, expired, clients, early, drops, changes>>

\* The connection closes or, once there is a listener for it, reports an error.
\* The handler, if it is registered by then, removes the entry.
KeptBug(m) == clients \ asked
Kept(m) == clients \ {m}
MachineLeaves(m) ==
    /\ link[m] = "up"
    /\ link' = [link EXCEPT ![m] = "gone"]
    /\ clients' = Kept(m)
    /\ early' = IF m \in asked THEN early \cup {m} ELSE early
    /\ UNCHANGED <<page, expired, asked, drops, changes>>

\* An error during the lookup has no listener and ends the process of the API,
\* with its table and all its connections. (The next connection is made to
\* the process that is started in its place.)
Ended == [l \in Loops |-> IF In(l, "open") THEN [loop[l] EXCEPT !.state = "closing"] ELSE loop[l]]
ErrorUnheard(m) ==
    /\ m \in asked /\ link[m] = "up"
    /\ drops < MaxDrops
    /\ drops' = drops + 1
    /\ loop' = Ended
    /\ link' = [k \in Machines |-> IF link[k] = "up" THEN "gone" ELSE link[k]]
    /\ asked' = {} /\ clients' = {}
    /\ UNCHANGED <<token, runs, wsRef, timerRef, connected, expired, early, changes>>

-----------------------------------------------------------------------------
Events(l) == OnOpen(l) \/ OnClose(l) \/ TimerFires(l)

Next ==
    \/ \E t \in Tokens \cup {NULL}, l \in Loops : TokenChanges(t, l)
    \/ \E l \in Loops : OnOpen(l) \/ OnClose(l) \/ TimerFires(l) \/ Drop(l)
    \/ \E t \in Tokens : TokenExpires(t)
    \/ \E m \in Machines :
        \/ MachineConnects(m) \/ KeyFound(m) \/ KeyRejected(m)
        \/ MachineLeaves(m) \/ ErrorUnheard(m)

Spec == Init /\ [][Next]_vars

\* The browser delivers its events and runs its timers.
FairSpec == Spec /\ \A l \in Loops : WF_vars(Events(l))

-----------------------------------------------------------------------------
\* The page says "live" only while one of its sockets is open or has not yet
\* reported its close, in whatever order the events of an old and of a new
\* socket come. (The converse fails: the late close event of an old socket
\* turns the indicator off under the new one.)
LiveSyncIsTrue == connected => \E l \in Loops : loop[l].state \in {"open", "closing"}

\* Connections do not multiply: however often a session's socket breaks and
\* connects again, it has one; and the session that is on always has its own.
OneLoopPerRun ==
    /\ \A l \in Loops : ~In(l, "free") => loop[l].run \in 1..runs
    /\ \A k, l \in Loops : (k # l /\ ~In(k, "free")) => loop[k].run # loop[l].run
    /\ token # NULL => \E l \in Loops : loop[l].run = runs /\ loop[l].token = token

\* An entry of the table of clients belongs to a connection that is up, except
\* for the connections that were gone before the answer to their key came:
\* their close event found no handler, and their entries stay.
EntriesAreOpen == \A m \in clients : link[m] = "up" \/ m \in early

\* The inductive invariant. A run is numbered when the token changes; and a
\* connection that is gone early has left before its key was found.
LookupsKnown ==
    /\ \A m \in asked : link[m] = "up" \/ m \in early
    /\ \A m \in early : link[m] = "gone"
SInv ==
    /\ TypeOK /\ runs <= changes
    /\ OneLoopPerRun /\ LiveSyncIsTrue /\ EntriesAreOpen /\ LookupsKnown

\* A session whose token the server accepts has an open socket again and
\* again, whatever breaks and whichever sockets of earlier sessions remain.
LiveAgain ==
    \A t \in Tokens :
        []<>(\/ token # t
             \/ t \in expired
             \/ \E l \in Loops : In(l, "open") /\ loop[l].token = t)
=============================================================================
