------------------------------- MODULE Program ------------------------------
(***************************************************************************)
(* The programs smoke, listen and smoke-linux under ble/cmd: scan, connect *)
(* (module Connect), log in, subscribe, send commands, watch, and take     *)
(* everything down again.  An error ends in log.Fatal, which runs no       *)
(* deferred call; a return runs them, the last first: notifyCancel,        *)
(* client.Close, conn.Close, and those that cancel contexts.  An interrupt *)
(* cancels the context that all of it but the heartbeat runs under.        *)
(*                                                                         *)
(* The client is what Heartbeat and Notifications show it to be: a loop    *)
(* that runs from Login until Close has stopped it, and a stream that is   *)
(* closed some time after its context is cancelled.  In smoke a goroutine  *)
(* receives from the stream and fills a map that main reads without a lock.*)
(***************************************************************************)
EXTENDS Connect

CONSTANTS
    OutCap      \* bound: notifications in the stream (64)

ASSUME ProgramAssumption == OutCap \in Nat \ {0}

VARIABLES
    program,    \* which of the three runs
    at,         \* where main is
    best,       \* what the scan has found
    step,       \* how many commands are sent
    known,      \* the map of statuses has the mudroom
    overdue,    \* the duration to watch for is over
    notifyDone, \* notifyCancel was called
    heartbeat,  \* the client's heartbeat loop
    stream,     \* the channel of client.Notifications
    queue,      \* how many notifications are in it
    receiver,   \* the goroutine that receives from it
    ends        \* how the process ended

mainVars == <<program, at, best, step, known, overdue, notifyDone, heartbeat, ends>>
streamVars == <<stream, queue, receiver>>
programVars == <<vars, mainVars, streamVars>>

-----------------------------------------------------------------------------
Programs == {"smoke", "listen", "smoke-linux"}

\* SetUTC; in smoke also StatusQuery and the blind toggle.
FirstCommands == IF program = "smoke" THEN 4 ELSE 1

\* The toggle and the restoring one of smoke.
AllCommands == FirstCommands + 2

ProgramTypeOK ==
    /\ TypeOK
    /\ program \in Programs
    /\ at \in {"scan", "connect", "login", "notifications", "send", "list", "peek",
               "watch", "await", "closeClient", "closeConn", "over"}
    /\ best \in {"none", "node", "gateway"}
    /\ step \in 0 .. AllCommands
    /\ known \in BOOLEAN
    /\ overdue \in BOOLEAN
    /\ notifyDone \in BOOLEAN
    /\ heartbeat \in {"none", "running", "cancelled", "stopped"}
    /\ stream \in {"none", "open", "closed"}
    /\ queue \in 0 .. OutCap
    /\ receiver \in {"none", "running", "done"}
    /\ ends \in {"no", "returned", "fatal", "crashed"}

ProgramInit ==
    /\ Init
    /\ program \in Programs
    /\ program = "smoke-linux" => platform = "linux"
    /\ at = "scan"
    /\ best = "none"
    /\ step = 0
    /\ known = FALSE
    /\ overdue = FALSE
    /\ notifyDone = FALSE
    /\ heartbeat = "none"
    /\ stream = "none"
    /\ queue = 0
    /\ receiver = "none"
    /\ ends = "no"

Main(place) == at = place /\ ends = "no"

\* log.Fatal.  BlueZ keeps the connection of a process that is gone; the
\* system of another platform does not.
Fatal ==
    /\ at' = "over"
    /\ ends' = "fatal"
    /\ linkUp' = (linkUp /\ platform = "linux")
    /\ resolved' = (resolved /\ linkUp')
    /\ UNCHANGED <<program, best, step, known, overdue, notifyDone, heartbeat>>
    /\ UNCHANGED <<streamVars, platform, pc, announced, complete, kept, match, chVars,
                   expired, ctxDone, others, result>>

-----------------------------------------------------------------------------
(* Scan and connect                                                        *)

TakeResult ==
    /\ Main("scan")
    /\ \E found \in {"node", "gateway"} :
          /\ best' = found
          /\ at' = IF found = "gateway" THEN "connect" ELSE "scan"
    /\ UNCHANGED <<vars, program, step, known, overdue, notifyDone, heartbeat, ends,
                   streamVars>>

\* The results end: the scan timed out, or was interrupted.
ScanEnds ==
    /\ Main("scan")
    /\ best # "none"
    /\ at' = "connect"
    /\ UNCHANGED <<vars, program, best, step, known, overdue, notifyDone, heartbeat,
                   ends, streamVars>>

\* The adapter or the scan fails, or nothing was found.
NothingFound == Main("scan") /\ best = "none" /\ Fatal

\* A step of connect; the interrupt is an action of its own.
Connecting(A) == Main("connect") /\ A /\ UNCHANGED <<mainVars, streamVars>>

ConnectSteps ==
    Connecting(Before \/ Wait \/ After \/ Tinygo \/ LateSignal \/ OtherSignal \/ Expire)

Connected ==
    /\ Main("connect")
    /\ result = "ok"
    /\ pc = "returned"
    /\ at' = "login"
    /\ UNCHANGED <<vars, program, best, step, known, overdue, notifyDone, heartbeat,
                   ends, streamVars>>

ConnectFailed == Main("connect") /\ pc = "returned" /\ result # "ok" /\ Fatal

-----------------------------------------------------------------------------
(* Log in, subscribe, send                                                 *)

LoggedIn ==
    /\ Main("login")
    /\ linkUp
    /\ heartbeat' = "running"
    /\ at' = "notifications"
    /\ UNCHANGED <<vars, program, best, step, known, overdue, notifyDone, ends,
                   streamVars>>

\* listen receives in main.
Subscribed ==
    /\ Main("notifications")
    /\ stream' = "open"
    /\ receiver' = IF program = "listen" THEN "none" ELSE "running"
    /\ at' = "send"
    /\ UNCHANGED <<vars, program, best, step, known, overdue, notifyDone, heartbeat,
                   ends, queue>>

AfterSend(n) ==
    IF n < FirstCommands THEN "send"
    ELSE IF program # "smoke" THEN "watch"
    ELSE CASE n = FirstCommands -> "list"
           [] n = FirstCommands + 1 -> "peek"
           [] n = AllCommands -> "await"

\* A Send, and the sleep after it, which nothing cuts short.
Sends ==
    /\ Main("send")
    /\ linkUp
    /\ step' = step + 1
    /\ at' = AfterSend(step')
    /\ notifyDone' = (at' = "await")
    /\ UNCHANGED <<vars, program, best, known, overdue, heartbeat, ends, streamVars>>

CallFails == (Main("login") \/ Main("notifications") \/ Main("send")) /\ Fatal

\* smoke lists the statuses and looks the mudroom up: without it, it ends.
List ==
    /\ Main("list")
    /\ at' = IF known THEN "send" ELSE "await"
    /\ notifyDone' = ~known
    /\ UNCHANGED <<vars, program, best, step, known, overdue, heartbeat, ends,
                   streamVars>>

\* It looks again after the toggle.
Peek ==
    /\ Main("peek")
    /\ at' = "send"
    /\ UNCHANGED <<vars, program, best, step, known, overdue, notifyDone, heartbeat,
                   ends, streamVars>>

-----------------------------------------------------------------------------
(* Watch                                                                   *)

\* listen cancels in a deferred call, smoke-linux before it waits.
StopWatching ==
    /\ at' = IF program = "listen" THEN "closeClient" ELSE "await"
    /\ notifyDone' = TRUE

WatchEnds ==
    /\ Main("watch")
    /\ overdue \/ ctxDone \/ (program = "listen" /\ stream = "closed" /\ queue = 0)
    /\ StopWatching
    /\ UNCHANGED <<vars, program, best, step, known, overdue, heartbeat, ends,
                   streamVars>>

\* Variant for the mutants: the break leaves the select, not the loop.
ListenOn == UNCHANGED <<at, notifyDone>>

\* After each notification the deadline is looked at, for select may choose
\* another one whenever there is one.
LookAtDeadline ==
    IF overdue THEN StopWatching ELSE UNCHANGED <<at, notifyDone>>

ListenReceives ==
    /\ Main("watch")
    /\ program = "listen"
    /\ queue > 0
    /\ queue' = queue - 1
    /\ LookAtDeadline
    /\ UNCHANGED <<vars, program, best, step, known, overdue, heartbeat, ends, stream,
                   receiver>>

-----------------------------------------------------------------------------
(* Take down                                                               *)

\* <-done
Await ==
    /\ Main("await")
    /\ receiver = "done"
    /\ at' = "closeClient"
    /\ UNCHANGED <<vars, program, best, step, known, overdue, notifyDone, heartbeat,
                   ends, streamVars>>

\* Variant for the mutants: Close does not wait for the loop.
CloseDoesNotWait == heartbeat # "running"

CloseWaits == heartbeat = "stopped"

CloseCancels ==
    /\ Main("closeClient")
    /\ heartbeat = "running"
    /\ heartbeat' = "cancelled"
    /\ UNCHANGED <<vars, program, at, best, step, known, overdue, notifyDone, ends,
                   streamVars>>

CloseReturns ==
    /\ Main("closeClient")
    /\ CloseWaits
    /\ at' = "closeConn"
    /\ UNCHANGED <<vars, program, best, step, known, overdue, notifyDone, heartbeat,
                   ends, streamVars>>

\* The deferred conn.Close ignores its error, too.
CloseConn ==
    /\ Main("closeConn")
    /\ Disconnects \/ DisconnectFails
    /\ at' = "over"
    /\ ends' = "returned"
    /\ UNCHANGED <<program, best, step, known, overdue, notifyDone, heartbeat,
                   streamVars, platform, pc, announced, complete, match, chVars,
                   expired, ctxDone, others, result>>

-----------------------------------------------------------------------------
(* The client, the receiver and the outside                                *)

HeartbeatStops ==
    /\ heartbeat = "cancelled"
    /\ heartbeat' = "stopped"
    /\ UNCHANGED <<vars, program, at, best, step, known, overdue, notifyDone, ends,
                   streamVars>>

Notified ==
    /\ ends = "no"
    /\ stream = "open"
    /\ linkUp
    /\ queue < OutCap
    /\ queue' = queue + 1
    /\ UNCHANGED <<vars, mainVars, stream, receiver>>

\* Its context is cancelled, or the notification path ends by itself.
StreamEnds ==
    /\ ends = "no"
    /\ stream = "open"
    /\ stream' = "closed"
    /\ UNCHANGED <<vars, mainVars, queue, receiver>>

StreamCancelled == (notifyDone \/ ctxDone) /\ StreamEnds

\* smoke's goroutine writes the map: while main reads it, the runtime may
\* see that and end the process.
ReceiverTakes ==
    /\ ends = "no"
    /\ receiver = "running"
    /\ queue > 0
    /\ queue' = queue - 1
    /\ known' \in {known, program = "smoke"}
    /\ \/ UNCHANGED <<at, ends>>
       \/ at \in {"list", "peek"} /\ at' = "over" /\ ends' = "crashed"
    /\ UNCHANGED <<vars, program, best, step, overdue, notifyDone, heartbeat, stream,
                   receiver>>

ReceiverEnds ==
    /\ ends = "no"
    /\ receiver = "running"
    /\ queue = 0
    /\ stream = "closed"
    /\ receiver' = "done"
    /\ UNCHANGED <<vars, mainVars, stream, queue>>

TimeIsUp ==
    /\ Main("watch")
    /\ ~overdue
    /\ overdue' = TRUE
    /\ UNCHANGED <<vars, program, at, best, step, known, notifyDone, heartbeat, ends,
                   streamVars>>

Interrupt ==
    /\ ends = "no"
    /\ ~ctxDone
    /\ ctxDone' = TRUE
    /\ UNCHANGED <<platform, pc, deviceVars, match, chVars, expired, others, result,
                   mainVars, streamVars>>

\* The device, at any time.
Device == (Resolve \/ LinkDrops) /\ UNCHANGED <<mainVars, streamVars>>

-----------------------------------------------------------------------------
MainSteps ==
    \/ TakeResult \/ ScanEnds \/ NothingFound \/ Connected \/ ConnectFailed
    \/ LoggedIn \/ Subscribed \/ Sends \/ CallFails \/ List \/ Peek
    \/ WatchEnds \/ ListenReceives
    \/ Await \/ CloseCancels \/ CloseReturns \/ CloseConn

Receiver == ReceiverTakes \/ ReceiverEnds

ProgramNext ==
    \/ ConnectSteps
    \/ MainSteps
    \/ HeartbeatStops
    \/ Receiver
    \/ Notified \/ StreamEnds
    \/ TimeIsUp \/ Interrupt \/ Device

ProgramSpec == ProgramInit /\ [][ProgramNext]_programVars

\* The scan times out (ScanEnds or NothingFound); the D-Bus calls and those of
\* the BLE stack return, the timers fire, and select chooses a deadline in the
\* end; Close's cancellation and that of the stream take effect (CloseReturns
\* of Heartbeat, and the closing of the channel in Notifications).
ProgramFairness ==
    /\ WF_programVars(ScanEnds) /\ WF_programVars(NothingFound)
    /\ WF_programVars(Connecting(Before)) /\ WF_programVars(Connecting(Wait))
    /\ WF_programVars(Connecting(After)) /\ WF_programVars(Connecting(Tinygo))
    /\ WF_programVars(Connecting(Expire)) /\ WF_programVars(Connecting(Deadline))
    /\ WF_programVars(MainSteps)
    /\ WF_programVars(Receiver)
    /\ WF_programVars(HeartbeatStops) /\ WF_programVars(StreamCancelled)
    /\ WF_programVars(TimeIsUp)

ProgramFairSpec == ProgramSpec /\ ProgramFairness

-----------------------------------------------------------------------------
(* Properties                                                              *)

\* main disconnects only once its heartbeat loop and its receiver are at an
\* end, and has disconnected when it returns, unless that very Disconnect
\* failed (the order of the deferred calls and of <-done in each main).
TakenDownInOrder ==
    /\ at = "closeConn" \/ ends = "returned" => heartbeat = "stopped" /\ receiver # "running"
    /\ ends = "returned" => kept \/ ~linkUp
    /\ kept /\ result = "ok" => ends = "returned"

\* Every program ends, whether a node is found or not, however the connection
\* fares and however many notifications come in (the timeouts, and the waits
\* of main for what it has cancelled).
ProgramEnds == <>(ends # "no")

-----------------------------------------------------------------------------
(* Why TakenDownInOrder holds                                              *)

\* How far smoke is in its commands, and the others in their one.
StepInPlace ==
    /\ at \in {"scan", "connect", "login", "notifications"} => step = 0
    /\ at = "send" => step < AllCommands
    /\ at = "send" /\ program # "smoke" => step < FirstCommands
    /\ at = "list" => program = "smoke" /\ step = FirstCommands
    /\ at = "peek" => program = "smoke" /\ step = FirstCommands + 1

\* main goes on only with a connection; listen starts no receiver, and the
\* others close nothing before theirs is at an end; Close has stopped the
\* heartbeat before the connection goes.
DownInOrder ==
    /\ at \in {"scan", "connect", "login", "notifications"} => receiver = "none"
    /\ program = "listen" => receiver = "none"
    /\ at \in {"closeClient", "closeConn"} => receiver # "running"
    /\ at = "closeConn" => heartbeat = "stopped"
    /\ ends # "no" <=> at = "over"
    /\ at \notin {"scan", "connect", "over"} => result = "ok"

ProgramInv ==
    /\ StepInPlace
    /\ DownInOrder
    /\ TakenDownInOrder

=============================================================================
