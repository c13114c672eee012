------------------------------- MODULE NtpClient -------------------------------
(***************************************************************************)
(* NtpClient: a pool thread that polls one time server of a list, moves to  *)
(* the next when a server cannot be used, and stops asking those that       *)
(* refuse; and the main thread, which waits for the first poll at start-up  *)
(* and stops the client in the end.                                         *)
(*                                                                          *)
(* The two share their state without a lock: each read of enabled_ and each *)
(* use of the socket is a step.  Datagrams may be lost or late.  The time   *)
(* offset is the answer it was computed from; error_, which nobody reads,   *)
(* and the length of an interval are left out.                              *)
(***************************************************************************)
EXTENDS Integers, Sequences, FiniteSets

CONSTANTS
    NumServers,      \* serverList_.size()
    MinPollInterval, \* kMinPollInterval_
    MaxPollInterval, \* kMaxPollInterval_
    MaxDatagrams     \* bound: answers under way or in the socket's buffer

ASSUME NtpAssumption ==
    /\ NumServers \in Nat \ {0}
    /\ MinPollInterval \in Nat /\ MaxPollInterval \in Nat
    /\ MinPollInterval <= MaxPollInterval
    /\ MaxDatagrams \in Nat \ {0}

Servers == 1 .. NumServers

VARIABLES
    clientEnabled,    \* enabled_
    disableServer,    \* disableServer_: the current server has refused
    rotateServer,     \* rotateServer_: the current server cannot be used
    pollInterval,     \* pollInterval_
    currentServer,    \* currentServer_
    disabledServers,  \* disabledServers_, none of which is appended twice
    socketOpen,       \* socket_.is_open()
    initialized,      \* initialized_
    timeOffset,       \* the answer timeOffset_ was computed from, or {}
    transit,          \* answers on their way to the socket
    receiveQueue,     \* answers in the socket's buffer
    pollThread,       \* where Run is, or what will call it
    mainThread        \* where the main thread is in TaskManager

settings == <<disableServer, rotateServer, pollInterval, currentServer, disabledServers>>
socket == <<socketOpen, transit, receiveQueue>>
ntpVars == <<clientEnabled, settings, socket, initialized, timeOffset, pollThread,
             mainThread>>

(* An answer, and whether a later request has been sent since the one that  *)
(* it answers.                                                              *)
Answers == [server : Servers, late : BOOLEAN]

NtpTypeOK ==
    /\ clientEnabled \in BOOLEAN
    /\ disableServer \in BOOLEAN
    /\ rotateServer \in BOOLEAN
    /\ pollInterval \in MinPollInterval .. MaxPollInterval
    /\ currentServer \in Servers
    /\ disabledServers \in SUBSET Servers
    /\ socketOpen \in BOOLEAN
    /\ initialized \in BOOLEAN
    /\ timeOffset \in SUBSET Answers
    /\ transit \in SUBSET Answers
    /\ receiveQueue \in Seq(Answers)
    /\ pollThread \in {"idle", "run", "rotate", "rotating", "open", "resolve", "poll",
                       "receive", "finish", "check", "arm", "timer", "threw"}
    /\ mainThread \in {"start", "wait", "up", "cancelSocket", "cancelTimer", "join",
                       "stopped", "terminated"}

NtpInit ==
    /\ clientEnabled = TRUE
    /\ disableServer = FALSE
    /\ rotateServer = FALSE
    /\ pollInterval = MinPollInterval
    /\ currentServer = 1
    /\ disabledServers = {}
    /\ socketOpen = FALSE
    /\ initialized = FALSE
    /\ timeOffset = {}
    /\ transit = {}
    /\ receiveQueue = <<>>
    /\ pollThread = "idle"
    /\ mainThread = "start"

PollGoes(from, to) == pollThread = from /\ pollThread' = to

(* close() and a socket opened anew: what was addressed to the old one is   *)
(* lost.                                                                    *)
CloseSocket == socketOpen' = FALSE /\ transit' = {} /\ receiveQueue' = <<>>

----------------------------------------------------------------------------
(* RunOnce, on the pool                                                     *)

(* A server that refused is disabled, and the client with it unless that    *)
(* was the last of them, as the comparison is written.                      *)
DisableServer ==
    /\ PollGoes("run", "rotate")
    /\ IF disableServer
       THEN /\ disabledServers' = disabledServers \cup {currentServer}
            /\ clientEnabled' = (disabledServers' = Servers)
            /\ rotateServer' = clientEnabled'
            /\ disableServer' = FALSE
       ELSE UNCHANGED <<disabledServers, clientEnabled, rotateServer, disableServer>>
    /\ UNCHANGED <<pollInterval, currentServer, socket, initialized, timeOffset, mainThread>>

NextServer == IF currentServer = NumServers THEN 1 ELSE currentServer + 1

(* Mutant of CloseIfDisabled: a disabled client keeps its socket.           *)
CloseNever ==
    /\ PollGoes("rotate", IF rotateServer THEN "rotating" ELSE "open")
    /\ UNCHANGED <<clientEnabled, settings, socket, initialized, timeOffset, mainThread>>

(* A disabled client closes its socket.                                     *)
CloseIfDisabled ==
    /\ PollGoes("rotate", IF rotateServer THEN "rotating" ELSE "open")
    /\ IF clientEnabled THEN UNCHANGED socket ELSE CloseSocket
    /\ UNCHANGED <<clientEnabled, settings, initialized, timeOffset, mainThread>>

(* Mutant of RotateServer: the socket of the old server stays open.         *)
RotateServerSameSocket ==
    /\ NextServer \notin disabledServers
    /\ PollGoes("rotating", "open")
    /\ currentServer' = NextServer
    /\ pollInterval' = MinPollInterval
    /\ rotateServer' = FALSE
    /\ UNCHANGED <<clientEnabled, socket, disableServer, disabledServers, initialized,
                   timeOffset, mainThread>>

(* RotateServer: back at the server it started from, the client gives up;   *)
(* before a disabled one the search loops for ever, so there is no step.    *)
RotateServer ==
    /\ NextServer \notin disabledServers \/ NextServer = currentServer
    /\ PollGoes("rotating", "open")
    /\ CloseSocket
    /\ currentServer' = NextServer
    /\ clientEnabled' = (clientEnabled /\ NextServer # currentServer)
    /\ pollInterval' = MinPollInterval
    /\ rotateServer' = FALSE
    /\ UNCHANGED <<disableServer, disabledServers, initialized, timeOffset, mainThread>>

OpenCurrentServer ==
    /\ PollGoes("open", IF clientEnabled /\ ~socketOpen THEN "resolve" ELSE "poll")
    /\ UNCHANGED <<clientEnabled, settings, socket, initialized, timeOffset, mainThread>>

(* Open: the name of the server is resolved, or it is not.                  *)
OpenSucceeds ==
    /\ PollGoes("resolve", "poll")
    /\ socketOpen' = TRUE
    /\ UNCHANGED <<clientEnabled, settings, transit, receiveQueue, initialized,
                   timeOffset, mainThread>>

OpenFails ==
    /\ PollGoes("resolve", "poll")
    /\ rotateServer' = TRUE
    /\ UNCHANGED <<clientEnabled, disableServer, pollInterval, currentServer,
                   disabledServers, socket, initialized, timeOffset, mainThread>>

(* The name is resolved, to an address of a protocol the host lacks, say,   *)
(* and socket_.open throws out of Run.  The timer's handler catches and     *)
(* arms nothing.  The first run, the one that initializes, was posted by    *)
(* Start, where nobody catches: the process ends.                           *)
OpenThrows ==
    /\ pollThread = "resolve"
    /\ IF initialized
       THEN pollThread' = "threw" /\ UNCHANGED mainThread
       ELSE pollThread' = "idle" /\ mainThread' = "terminated"
    /\ UNCHANGED <<clientEnabled, settings, socket, initialized, timeOffset>>

NoPoll ==
    /\ ~socketOpen
    /\ PollGoes("poll", "finish")
    /\ UNCHANGED <<clientEnabled, settings, socket, initialized, timeOffset, mainThread>>

----------------------------------------------------------------------------
(* Poll and ReceivePacket                                                   *)

LateNow(a) == [a EXCEPT !.late = TRUE]

(* The request is sent: answers to earlier ones are late from now on.       *)
SendRequest ==
    /\ socketOpen
    /\ Cardinality(transit) + Len(receiveQueue) < MaxDatagrams
    /\ PollGoes("poll", "receive")
    /\ transit' = {LateNow(a) : a \in transit} \cup {[server |-> currentServer, late |-> FALSE]}
    /\ receiveQueue' = [i \in DOMAIN receiveQueue |-> LateNow(receiveQueue[i])]
    /\ UNCHANGED <<clientEnabled, settings, socketOpen, initialized, timeOffset, mainThread>>

(* Sending throws, which Poll catches.                                      *)
SendFails ==
    /\ socketOpen
    /\ PollGoes("poll", "finish")
    /\ UNCHANGED <<clientEnabled, settings, socket, initialized, timeOffset, mainThread>>

(* The network: an answer arrives, or is lost.                              *)
Arrive(a) ==
    /\ a \in transit
    /\ transit' = transit \ {a}
    /\ receiveQueue' = Append(receiveQueue, a)
    /\ UNCHANGED <<clientEnabled, settings, socketOpen, initialized, timeOffset,
                   pollThread, mainThread>>

Lose(a) ==
    /\ a \in transit
    /\ transit' = transit \ {a}
    /\ UNCHANGED <<clientEnabled, settings, socketOpen, receiveQueue, initialized,
                   timeOffset, pollThread, mainThread>>

Receive ==
    /\ receiveQueue # <<>>
    /\ PollGoes("receive", "finish")
    /\ receiveQueue' = Tail(receiveQueue)
    /\ UNCHANGED <<clientEnabled, socketOpen, transit, currentServer, disabledServers,
                   initialized, mainThread>>

(* The first datagram in the buffer, whichever request it answers.          *)
ReceiveTime ==
    /\ Receive
    /\ timeOffset' = {Head(receiveQueue)}
    /\ UNCHANGED <<disableServer, rotateServer, pollInterval>>

(* A kiss-o'-death packet with the code DENY or RSTR.                       *)
ReceiveDeny ==
    /\ Receive
    /\ disableServer' = TRUE
    /\ UNCHANGED <<timeOffset, rotateServer, pollInterval>>

(* Mutant of ReceiveRate: the longest interval is forgotten.                *)
ReceiveRateUnbounded ==
    /\ Receive
    /\ pollInterval' = pollInterval + 1
    /\ UNCHANGED <<timeOffset, disableServer, rotateServer>>

(* The code RATE: a longer interval, or another server.                     *)
ReceiveRate ==
    /\ Receive
    /\ IF pollInterval < MaxPollInterval
       THEN pollInterval' = pollInterval + 1 /\ UNCHANGED rotateServer
       ELSE rotateServer' = TRUE /\ UNCHANGED pollInterval
    /\ UNCHANGED <<timeOffset, disableServer>>

(* Too few bytes, or another code.                                          *)
ReceiveOther ==
    /\ Receive
    /\ UNCHANGED <<timeOffset, disableServer, rotateServer, pollInterval>>

(* The wait times out and the receive is cancelled.  A datagram that was    *)
(* received in between is dropped; one that comes later stays in the        *)
(* buffer.                                                                  *)
ReceiveTimesOut ==
    /\ PollGoes("receive", "finish")
    /\ receiveQueue' = IF receiveQueue = <<>> THEN <<>> ELSE Tail(receiveQueue)
    /\ UNCHANGED <<clientEnabled, settings, socketOpen, transit, initialized, timeOffset,
                   mainThread>>

----------------------------------------------------------------------------
(* The end of RunOnce, and of Run                                           *)

(* Mutant of FinishInitialization: only a client with a socket counts.      *)
FinishInitializationConnected ==
    /\ PollGoes("finish", "check")
    /\ initialized' = (initialized \/ socketOpen)
    /\ UNCHANGED <<clientEnabled, settings, socket, timeOffset, mainThread>>

FinishInitialization ==
    /\ PollGoes("finish", "check")
    /\ initialized' = TRUE
    /\ UNCHANGED <<clientEnabled, settings, socket, timeOffset, mainThread>>

(* Mutant of CheckClientEnabled: without a server there is no next time.    *)
CheckConnected ==
    /\ PollGoes("check", IF clientEnabled /\ socketOpen THEN "arm" ELSE "idle")
    /\ UNCHANGED <<clientEnabled, settings, socket, initialized, timeOffset, mainThread>>

CheckClientEnabled ==
    /\ PollGoes("check", IF clientEnabled THEN "arm" ELSE "idle")
    /\ UNCHANGED <<clientEnabled, settings, socket, initialized, timeOffset, mainThread>>

ArmPollTimer ==
    /\ PollGoes("arm", "timer")
    /\ UNCHANGED <<clientEnabled, settings, socket, initialized, timeOffset, mainThread>>

PollTimerExpires ==
    /\ PollGoes("timer", "run")
    /\ UNCHANGED <<clientEnabled, settings, socket, initialized, timeOffset, mainThread>>

----------------------------------------------------------------------------
(* The main thread: TaskManager's Initialize and Shutdown                   *)

MainGoes(from, to) == mainThread = from /\ mainThread' = to

(* The constructor and Start.  From the year 2106 on the client is not      *)
(* enabled.                                                                 *)
InitializeTasks(before2106) ==
    /\ MainGoes("start", "wait")
    /\ clientEnabled' = before2106
    /\ initialized' = ~before2106
    /\ pollThread' = IF before2106 THEN "run" ELSE "idle"
    /\ UNCHANGED <<settings, socket, timeOffset>>

WaitForInitialOffset ==
    /\ initialized
    /\ MainGoes("wait", "up")
    /\ UNCHANGED <<clientEnabled, settings, socket, initialized, timeOffset, pollThread>>

Stop ==
    /\ MainGoes("up", "cancelSocket")
    /\ clientEnabled' = FALSE
    /\ UNCHANGED <<settings, socket, initialized, timeOffset, pollThread>>

(* socket_.cancel() ends a receive with an error.                           *)
StopCancelsSocket ==
    /\ socketOpen
    /\ MainGoes("cancelSocket", "cancelTimer")
    /\ pollThread' = IF pollThread = "receive" THEN "finish" ELSE pollThread
    /\ UNCHANGED <<clientEnabled, settings, socket, initialized, timeOffset>>

(* Without an open socket it throws, and nobody catches.                    *)
StopThrows ==
    /\ ~socketOpen
    /\ MainGoes("cancelSocket", "terminated")
    /\ pollThread' = "idle"
    /\ UNCHANGED <<clientEnabled, settings, socket, initialized, timeOffset>>

StopCancelsTimer ==
    /\ MainGoes("cancelTimer", "join")
    /\ pollThread' = IF pollThread = "timer" THEN "idle" ELSE pollThread
    /\ UNCHANGED <<clientEnabled, settings, socket, initialized, timeOffset>>

StopJoins ==
    /\ pollThread \in {"idle", "threw"}
    /\ MainGoes("join", "stopped")
    /\ UNCHANGED <<clientEnabled, settings, socket, initialized, timeOffset, pollThread>>

(* The program has ended.                                                   *)
NtpEnded == mainThread \in {"stopped", "terminated"} /\ UNCHANGED ntpVars

----------------------------------------------------------------------------
RunStep ==
    \/ DisableServer \/ CloseIfDisabled \/ RotateServer
    \/ OpenCurrentServer \/ OpenSucceeds \/ OpenFails \/ OpenThrows
    \/ NoPoll \/ SendRequest \/ SendFails
    \/ ReceiveTime \/ ReceiveDeny \/ ReceiveRate \/ ReceiveOther \/ ReceiveTimesOut
    \/ FinishInitialization \/ CheckClientEnabled \/ ArmPollTimer \/ PollTimerExpires

StopStep ==
    StopCancelsSocket \/ StopThrows \/ StopCancelsTimer \/ StopJoins

NtpNext ==
    \/ RunStep
    \/ \E a \in transit : Arrive(a) \/ Lose(a)
    \/ \E before2106 \in BOOLEAN : InitializeTasks(before2106)
    \/ WaitForInitialOffset \/ Stop \/ StopStep
    \/ NtpEnded

(* Resolving, sending and receiving end, with a result or without; timers   *)
(* expire; the main thread goes on when it can.  Nobody is obliged to       *)
(* start or to stop the client.                                             *)
NtpFairness ==
    /\ WF_ntpVars(RunStep)
    /\ WF_ntpVars(WaitForInitialOffset)
    /\ WF_ntpVars(StopStep)

NtpSpec == NtpInit /\ [][NtpNext]_ntpVars /\ NtpFairness

----------------------------------------------------------------------------
(* An enabled client goes on: a server that is not found, is silent, asks   *)
(* for patience or refuses, and a request that cannot be sent, leave a run  *)
(* under way or its timer armed.  The one exception is a socket that cannot *)
(* be opened: the client then counts as enabled, but polls no more.         *)
EnabledClientRuns ==
    clientEnabled /\ mainThread \in {"wait", "up"} =>
        \/ pollThread \notin {"idle", "threw"}
        \/ pollThread = "threw" /\ ~socketOpen

(* "The client MUST [...] stop sending packets to that server": no request  *)
(* goes to a server whose refusal was read, be it the current one or one    *)
(* that a rotation comes back to.                                           *)
RefusedServerNotPolled ==
    pollThread = "receive" => currentServer \notin disabledServers /\ ~disableServer

(* A late answer cannot come from a server the client has left: the time    *)
(* offset is always computed from an answer of the current server.          *)
OffsetIsOfCurrentServer ==
    [][timeOffset' # timeOffset => \A a \in timeOffset' : a.server = currentServer]_ntpVars

(* Start-up is not held up: with every server out of reach or refusing, the *)
(* wait for the first offset ends, if only because the first socket cannot  *)
(* be opened and the process ends.  And Stop does not hang: it returns or,  *)
(* without a socket, throws.                                                *)
MainThreadGoesOn ==
    /\ (mainThread = "wait") ~> (mainThread # "wait")
    /\ (mainThread = "cancelSocket") ~> (mainThread \in {"stopped", "terminated"})

(* "Disable the NTP client if all servers are disabled": a client that has  *)
(* disabled some server, and has not been stopped, is disabled only when    *)
(* all have been.                                                           *)
DisabledWhenAllRefuse ==
    mainThread \in {"wait", "up"} /\ disabledServers # {} /\ ~clientEnabled
        => disabledServers = Servers

(* "Send an NTP message to determine the current time offset": the offset   *)
(* comes from the answer to the latest request.                             *)
OffsetIsCurrent == \A a \in timeOffset : ~a.late
=============================================================================
