---------------------------- MODULE Managers_proofs ----------------------------
(*****************************************************************************)
(* Theorems about the managers: the NTP client and the timeline.             *)
(*****************************************************************************)
EXTENDS MC_Managers, FiniteSetTheorems, TLAPS

----------------------------------------------------------------------------
(*****************************************************************************)
(* NtpClient, for any number of servers, poll intervals and datagrams under  *)
(* way.                                                                      *)
(*****************************************************************************)

(* The actions of NtpNext, for proofs by cases.                             *)
LEMMA NtpNextCases ==
    ASSUME [NtpNext]_ntpVars
    PROVE  \/ DisableServer \/ CloseIfDisabled \/ RotateServer
           \/ OpenCurrentServer \/ OpenSucceeds \/ OpenFails \/ OpenThrows
           \/ NoPoll \/ SendRequest \/ SendFails
           \/ ReceiveTime \/ ReceiveDeny \/ ReceiveRate \/ ReceiveOther
           \/ ReceiveTimesOut \/ FinishInitialization \/ CheckClientEnabled
           \/ ArmPollTimer \/ PollTimerExpires
           \/ (\E a \in transit : Arrive(a) \/ Lose(a))
           \/ (\E before2106 \in BOOLEAN : InitializeTasks(before2106))
           \/ WaitForInitialOffset \/ Stop
           \/ StopCancelsSocket \/ StopThrows \/ StopCancelsTimer \/ StopJoins
           \/ UNCHANGED ntpVars
BY DEF NtpNext, RunStep, StopStep, NtpEnded

----------------------------------------------------------------------------
(* Types                                                                    *)

LEMMA NtpTypeOKInit == NtpInit => NtpTypeOK
<1> SUFFICES ASSUME NtpInit
             PROVE  NtpTypeOK
  OBVIOUS
<1>1. receiveQueue \in Seq(Answers)
  BY DEF NtpInit
<1>2. pollInterval \in MinPollInterval .. MaxPollInterval /\ currentServer \in Servers
  BY NtpAssumption DEF NtpInit, Servers
<1> QED
  BY <1>1, <1>2 DEF NtpInit, NtpTypeOK

LEMMA AnswerTypes ==
    ASSUME NtpTypeOK
    PROVE  /\ \A a \in transit : a \in Answers /\ LateNow(a) \in Answers
           /\ \A i \in DOMAIN receiveQueue : LateNow(receiveQueue[i]) \in Answers
           /\ [server |-> currentServer, late |-> FALSE] \in Answers
           /\ receiveQueue # <<>> =>
                 Head(receiveQueue) \in Answers /\ Tail(receiveQueue) \in Seq(Answers)
<1>1. \A a \in Answers : LateNow(a) \in Answers
  BY DEF Answers, LateNow
<1>2. transit \in SUBSET Answers /\ receiveQueue \in Seq(Answers)
  BY DEF NtpTypeOK
<1>3. [server |-> currentServer, late |-> FALSE] \in Answers
  BY DEF NtpTypeOK, Answers
<1>4. \A i \in DOMAIN receiveQueue : LateNow(receiveQueue[i]) \in Answers
  BY <1>1, <1>2
<1>5. receiveQueue # <<>> =>
         Head(receiveQueue) \in Answers /\ Tail(receiveQueue) \in Seq(Answers)
  BY <1>2
<1> QED
  BY <1>1, <1>2, <1>3, <1>4, <1>5

LEMMA NtpTypeOKInductive ==
    ASSUME NtpTypeOK, [NtpNext]_ntpVars
    PROVE  NtpTypeOK'
<1> USE DEF NtpTypeOK, settings, socket, PollGoes
<1>1. CASE DisableServer
  BY <1>1 DEF DisableServer
<1>2. CASE CloseIfDisabled
  <2>1. transit' \in SUBSET Answers /\ receiveQueue' \in Seq(Answers)
    <3>1. <<>> \in Seq(Answers)
      OBVIOUS
    <3> QED
      BY <1>2, <3>1 DEF CloseIfDisabled, CloseSocket
  <2> QED
    BY <1>2, <2>1 DEF CloseIfDisabled, CloseSocket
<1>3. CASE RotateServer
  <2>1. NextServer \in Servers
    BY NtpAssumption DEF NextServer, Servers
  <2>2. transit' \in SUBSET Answers /\ receiveQueue' \in Seq(Answers)
    <3>1. <<>> \in Seq(Answers)
      OBVIOUS
    <3> QED
      BY <1>3, <3>1 DEF RotateServer, CloseSocket
  <2>3. pollInterval' \in MinPollInterval .. MaxPollInterval
    BY <1>3, NtpAssumption DEF RotateServer
  <2> QED
    BY <1>3, <2>1, <2>2, <2>3 DEF RotateServer, CloseSocket
<1>4. CASE OpenCurrentServer \/ OpenSucceeds \/ OpenFails \/ OpenThrows
  BY <1>4 DEF OpenCurrentServer, OpenSucceeds, OpenFails, OpenThrows
<1>5. CASE NoPoll \/ SendFails
  BY <1>5 DEF NoPoll, SendFails
<1>6. CASE SendRequest
  <2>1. transit' \in SUBSET Answers /\ receiveQueue' \in Seq(Answers)
    <3>1. /\ transit' = {LateNow(a) : a \in transit}
                           \cup {[server |-> currentServer, late |-> FALSE]}
          /\ receiveQueue' = [i \in DOMAIN receiveQueue |-> LateNow(receiveQueue[i])]
      BY <1>6 DEF SendRequest
    <3>2. transit' \in SUBSET Answers
      BY <3>1, AnswerTypes
    <3>3. DOMAIN receiveQueue = 1 .. Len(receiveQueue) /\ Len(receiveQueue) \in Nat
      OBVIOUS
    <3>4. receiveQueue' \in Seq(Answers)
      BY <3>1, <3>3, AnswerTypes
    <3> QED
      BY <3>2, <3>4
  <2> QED
    BY <1>6, <2>1 DEF SendRequest
<1>7. CASE ReceiveTime \/ ReceiveDeny \/ ReceiveRate \/ ReceiveOther
  <2>1. /\ receiveQueue' \in Seq(Answers) /\ pollThread' = "finish"
        /\ UNCHANGED <<clientEnabled, socketOpen, transit, currentServer,
                       disabledServers, initialized, mainThread>>
        /\ Head(receiveQueue) \in Answers
    BY <1>7, AnswerTypes DEF ReceiveTime, ReceiveDeny, ReceiveRate, ReceiveOther, Receive
  <2>2. timeOffset' \in SUBSET Answers
    BY <1>7, <2>1 DEF ReceiveTime, ReceiveDeny, ReceiveRate, ReceiveOther
  <2>3. disableServer' \in BOOLEAN /\ rotateServer' \in BOOLEAN
    BY <1>7 DEF ReceiveTime, ReceiveDeny, ReceiveRate, ReceiveOther
  <2>4. pollInterval' \in MinPollInterval .. MaxPollInterval
    BY <1>7, NtpAssumption DEF ReceiveTime, ReceiveDeny, ReceiveRate, ReceiveOther
  <2> QED
    BY <2>1, <2>2, <2>3, <2>4
<1>8. CASE ReceiveTimesOut
  BY <1>8, AnswerTypes DEF ReceiveTimesOut
<1>9. CASE FinishInitialization \/ CheckClientEnabled \/ ArmPollTimer \/ PollTimerExpires
  <2>1. CASE FinishInitialization
    BY <2>1 DEF FinishInitialization
  <2>2. CASE CheckClientEnabled
    BY <2>2 DEF CheckClientEnabled
  <2>3. CASE ArmPollTimer \/ PollTimerExpires
    BY <2>3 DEF ArmPollTimer, PollTimerExpires
  <2> QED
    BY <1>9, <2>1, <2>2, <2>3
<1>10. ASSUME NEW a \in transit, Arrive(a) \/ Lose(a)
       PROVE  NtpTypeOK'
  BY <1>10, AnswerTypes DEF Arrive, Lose
<1>11. ASSUME NEW before2106 \in BOOLEAN, InitializeTasks(before2106)
       PROVE  NtpTypeOK'
  BY <1>11 DEF InitializeTasks, MainGoes
<1>12. CASE WaitForInitialOffset \/ Stop
  BY <1>12 DEF WaitForInitialOffset, Stop, MainGoes
<1>13. CASE StopCancelsSocket \/ StopThrows \/ StopCancelsTimer \/ StopJoins
  BY <1>13 DEF StopCancelsSocket, StopThrows, StopCancelsTimer, StopJoins, MainGoes
<1>14. CASE UNCHANGED ntpVars
  BY <1>14 DEF ntpVars
<1> QED
  BY <1>1, <1>2, <1>3, <1>4, <1>5, <1>6, <1>7, <1>8, <1>9, <1>10, <1>11, <1>12, <1>13,
     <1>14, NtpNextCases

----------------------------------------------------------------------------
(* Who runs, and whom it asks                                               *)

(* What threw was the opening of a socket, before which there was none.     *)
ThrewUnopened ==
    pollThread = "resolve" \/ pollThread = "threw" => ~socketOpen

(* A client is idle only before it is started or when it is disabled, and   *)
(* a step that enables it keeps it running; only OpenThrows leaves it       *)
(* behind.                                                                  *)
LEMMA EnabledClientRunsInductive ==
    ASSUME NtpTypeOK, EnabledClientRuns, ThrewUnopened, [NtpNext]_ntpVars
    PROVE  EnabledClientRuns' /\ ThrewUnopened'
<1> USE DEF NtpTypeOK, EnabledClientRuns, ThrewUnopened, settings, socket, PollGoes
<1>1. CASE DisableServer \/ CloseIfDisabled \/ RotateServer
  BY <1>1 DEF DisableServer, CloseIfDisabled, RotateServer
<1>2. CASE OpenCurrentServer \/ OpenSucceeds \/ OpenFails \/ OpenThrows \/ NoPoll \/ SendFails
  BY <1>2 DEF OpenCurrentServer, OpenSucceeds, OpenFails, OpenThrows, NoPoll, SendFails
<1>3. CASE SendRequest \/ ReceiveTimesOut
  BY <1>3 DEF SendRequest, ReceiveTimesOut
<1>4. CASE ReceiveTime \/ ReceiveDeny \/ ReceiveRate \/ ReceiveOther
  BY <1>4 DEF ReceiveTime, ReceiveDeny, ReceiveRate, ReceiveOther, Receive
<1>5. CASE FinishInitialization \/ CheckClientEnabled \/ ArmPollTimer \/ PollTimerExpires
  BY <1>5 DEF FinishInitialization, CheckClientEnabled, ArmPollTimer, PollTimerExpires
<1>6. ASSUME NEW a \in transit, Arrive(a) \/ Lose(a)
      PROVE  EnabledClientRuns' /\ ThrewUnopened'
  BY <1>6 DEF Arrive, Lose
<1>7. ASSUME NEW before2106 \in BOOLEAN, InitializeTasks(before2106)
      PROVE  EnabledClientRuns' /\ ThrewUnopened'
  BY <1>7 DEF InitializeTasks, MainGoes
<1>8. CASE WaitForInitialOffset \/ Stop
  BY <1>8 DEF WaitForInitialOffset, Stop, MainGoes
<1>9. CASE StopCancelsSocket \/ StopThrows \/ StopCancelsTimer \/ StopJoins
  BY <1>9 DEF StopCancelsSocket, StopThrows, StopCancelsTimer, StopJoins, MainGoes
<1>10. CASE UNCHANGED ntpVars
  BY <1>10 DEF ntpVars
<1> QED
  BY <1>1, <1>2, <1>3, <1>4, <1>5, <1>6, <1>7, <1>8, <1>9, <1>10, NtpNextCases

(* A refusal that was read is acted on before the next request: the server  *)
(* is disabled at the start of the next run, and then the client moves away *)
(* from it or is disabled itself, and has no socket.                        *)
DenialIsPending ==
    disableServer => pollThread \in {"idle", "finish", "check", "arm", "timer", "run", "threw"}

DisabledIsLeft ==
    currentServer \in disabledServers =>
        CASE pollThread \in {"idle", "rotating"} -> TRUE
          [] pollThread = "rotate" -> ~clientEnabled \/ rotateServer
          [] OTHER -> ~clientEnabled /\ ~socketOpen /\ pollThread # "resolve"

ReceiveHasSocket == pollThread = "receive" => socketOpen

NoneDisabledAtStart ==
    mainThread = "start" => disabledServers = {} /\ pollThread = "idle"

RefusalInv ==
    /\ DenialIsPending
    /\ DisabledIsLeft
    /\ ReceiveHasSocket
    /\ NoneDisabledAtStart

LEMMA RefusalInvInductive ==
    ASSUME NtpTypeOK, RefusalInv, [NtpNext]_ntpVars
    PROVE  RefusalInv'
<1> USE DEF NtpTypeOK, RefusalInv, DenialIsPending, DisabledIsLeft, ReceiveHasSocket,
            NoneDisabledAtStart, settings, socket, PollGoes
<1>1. CASE DisableServer
  BY <1>1 DEF DisableServer
<1>2. CASE CloseIfDisabled
  BY <1>2 DEF CloseIfDisabled, CloseSocket
<1>3. CASE RotateServer
  BY <1>3 DEF RotateServer, CloseSocket
<1>4. CASE OpenCurrentServer
  BY <1>4 DEF OpenCurrentServer
<1>5. CASE OpenSucceeds \/ OpenFails \/ OpenThrows
  BY <1>5 DEF OpenSucceeds, OpenFails, OpenThrows
<1>6. CASE NoPoll \/ SendFails
  BY <1>6 DEF NoPoll, SendFails
<1>7. CASE SendRequest
  BY <1>7 DEF SendRequest
<1>8. CASE ReceiveTime \/ ReceiveDeny \/ ReceiveRate \/ ReceiveOther
  BY <1>8 DEF ReceiveTime, ReceiveDeny, ReceiveRate, ReceiveOther, Receive
<1>9. CASE ReceiveTimesOut
  BY <1>9 DEF ReceiveTimesOut
<1>10. CASE FinishInitialization \/ CheckClientEnabled \/ ArmPollTimer \/ PollTimerExpires
  BY <1>10 DEF FinishInitialization, CheckClientEnabled, ArmPollTimer, PollTimerExpires
<1>11. ASSUME NEW a \in transit, Arrive(a) \/ Lose(a)
       PROVE  RefusalInv'
  BY <1>11 DEF Arrive, Lose
<1>12. ASSUME NEW before2106 \in BOOLEAN, InitializeTasks(before2106)
       PROVE  RefusalInv'
  BY <1>12 DEF InitializeTasks, MainGoes
<1>13. CASE WaitForInitialOffset \/ Stop
  BY <1>13 DEF WaitForInitialOffset, Stop, MainGoes
<1>14. CASE StopCancelsSocket \/ StopThrows \/ StopCancelsTimer \/ StopJoins
  BY <1>14 DEF StopCancelsSocket, StopThrows, StopCancelsTimer, StopJoins, MainGoes
<1>15. CASE UNCHANGED ntpVars
  BY <1>15 DEF ntpVars
<1> QED
  BY <1>1, <1>2, <1>3, <1>4, <1>5, <1>6, <1>7, <1>8, <1>9, <1>10, <1>11, <1>12, <1>13,
     <1>14, <1>15, NtpNextCases

(* Whatever is on its way to the socket, or in its buffer, was sent by the  *)
(* current server: a rotation closes the socket.                            *)
AnswersAreCurrent ==
    /\ \A a \in transit : a.server = currentServer
    /\ \A i \in DOMAIN receiveQueue : receiveQueue[i].server = currentServer

LEMMA LateNowServer == \A a \in Answers : LateNow(a).server = a.server
BY DEF LateNow, Answers

LEMMA AnswersAreCurrentInductive ==
    ASSUME NtpTypeOK, AnswersAreCurrent, [NtpNext]_ntpVars
    PROVE  AnswersAreCurrent'
<1> USE DEF AnswersAreCurrent, settings, socket
<1>0. transit \in SUBSET Answers /\ receiveQueue \in Seq(Answers)
  BY DEF NtpTypeOK
<1>1. CASE DisableServer \/ OpenCurrentServer \/ OpenSucceeds \/ OpenFails \/ OpenThrows
           \/ NoPoll \/ SendFails
  BY <1>1 DEF DisableServer, OpenCurrentServer, OpenSucceeds, OpenFails, OpenThrows, NoPoll,
              SendFails
<1>2. CASE CloseIfDisabled \/ RotateServer
  BY <1>2 DEF CloseIfDisabled, RotateServer, CloseSocket
<1>3. CASE SendRequest
  <2>1. /\ transit' = {LateNow(a) : a \in transit}
                         \cup {[server |-> currentServer, late |-> FALSE]}
        /\ receiveQueue' = [i \in DOMAIN receiveQueue |-> LateNow(receiveQueue[i])]
        /\ currentServer' = currentServer
    BY <1>3 DEF SendRequest
  <2>2. \A i \in DOMAIN receiveQueue : LateNow(receiveQueue[i]).server = currentServer
    BY <1>0, LateNowServer
  <2>3. \A a \in transit : LateNow(a).server = currentServer
    BY <1>0, LateNowServer
  <2> QED
    BY <2>1, <2>2, <2>3
<1>4. CASE ReceiveTime \/ ReceiveDeny \/ ReceiveRate \/ ReceiveOther \/ ReceiveTimesOut
  <2>1. (receiveQueue # <<>> /\ receiveQueue' = Tail(receiveQueue)) \/ receiveQueue' = <<>>
    BY <1>4 DEF ReceiveTime, ReceiveDeny, ReceiveRate, ReceiveOther, Receive, ReceiveTimesOut
  <2>2. UNCHANGED <<transit, currentServer>>
    BY <1>4 DEF ReceiveTime, ReceiveDeny, ReceiveRate, ReceiveOther, Receive, ReceiveTimesOut
  <2>3. receiveQueue # <<>> =>
          \A i \in DOMAIN Tail(receiveQueue) : Tail(receiveQueue)[i].server = currentServer
    BY <1>0
  <2> QED
    BY <2>1, <2>2, <2>3
<1>5. CASE FinishInitialization \/ CheckClientEnabled \/ ArmPollTimer \/ PollTimerExpires
  BY <1>5 DEF FinishInitialization, CheckClientEnabled, ArmPollTimer, PollTimerExpires
<1>6. ASSUME NEW a \in transit, Arrive(a) \/ Lose(a)
      PROVE  AnswersAreCurrent'
  <2>1. transit' \subseteq transit /\ UNCHANGED currentServer
    BY <1>6 DEF Arrive, Lose
  <2>2. receiveQueue' = Append(receiveQueue, a) \/ receiveQueue' = receiveQueue
    BY <1>6 DEF Arrive, Lose
  <2>3. \A i \in DOMAIN Append(receiveQueue, a) :
           Append(receiveQueue, a)[i].server = currentServer
    BY <1>0
  <2> QED
    BY <2>1, <2>2, <2>3
<1>7. ASSUME NEW before2106 \in BOOLEAN, InitializeTasks(before2106)
      PROVE  AnswersAreCurrent'
  BY <1>7 DEF InitializeTasks
<1>8. CASE WaitForInitialOffset \/ Stop \/ StopCancelsSocket \/ StopThrows
           \/ StopCancelsTimer \/ StopJoins
  BY <1>8 DEF WaitForInitialOffset, Stop, StopCancelsSocket, StopThrows,
              StopCancelsTimer, StopJoins
<1>9. CASE UNCHANGED ntpVars
  BY <1>9 DEF ntpVars
<1> QED
  BY <1>1, <1>2, <1>3, <1>4, <1>5, <1>6, <1>7, <1>8, <1>9, NtpNextCases

(* Only ReceiveTime sets the offset, from the first answer in the buffer.   *)
LEMMA OffsetStep ==
    ASSUME NtpTypeOK, AnswersAreCurrent, [NtpNext]_ntpVars, timeOffset' # timeOffset
    PROVE  \A a \in timeOffset' : a.server = currentServer
<1> USE DEF settings, socket
<1>1. CASE ReceiveTime
  <2>1. receiveQueue # <<>> /\ timeOffset' = {Head(receiveQueue)}
    BY <1>1 DEF ReceiveTime, Receive
  <2>2. Head(receiveQueue).server = currentServer
    BY <2>1 DEF NtpTypeOK, AnswersAreCurrent
  <2> QED
    BY <2>1, <2>2
<1>2. CASE ~ReceiveTime
  <2>1. UNCHANGED timeOffset
    BY <1>2, NtpNextCases
       DEF DisableServer, CloseIfDisabled, RotateServer, OpenCurrentServer, OpenSucceeds,
           OpenFails, OpenThrows, NoPoll, SendRequest, SendFails, ReceiveDeny, ReceiveRate,
           ReceiveOther, ReceiveTimesOut, FinishInitialization, CheckClientEnabled,
           ArmPollTimer, PollTimerExpires, Arrive, Lose, InitializeTasks,
           WaitForInitialOffset, Stop, StopCancelsSocket, StopThrows, StopCancelsTimer,
           StopJoins, ntpVars
  <2> QED
    BY <2>1
<1> QED
  BY <1>1, <1>2

----------------------------------------------------------------------------
(* The theorems.  Fairness is not needed for any of them.             *)

(* Every state of every behaviour is well typed: among others, no answer    *)
(* with the code RATE drives the poll interval past its bounds.             *)
THEOREM NtpTypes == NtpSpec => []NtpTypeOK
<1>1. NtpTypeOK /\ [NtpNext]_ntpVars => NtpTypeOK'
  BY NtpTypeOKInductive
<1> QED
  BY <1>1, NtpTypeOKInit, PTL DEF NtpSpec

(* An enabled client never falls idle, for any number of servers: neither   *)
(* refusals, time-outs, names that are not found nor requests that cannot   *)
(* be sent end its polling; only an exception from the opening of a socket  *)
(* does.                                                                    *)
THEOREM ClientRuns == NtpSpec => []EnabledClientRuns
<1>1. NtpInit => EnabledClientRuns /\ ThrewUnopened
  BY DEF NtpInit, EnabledClientRuns, ThrewUnopened
<1>2. NtpTypeOK /\ EnabledClientRuns /\ ThrewUnopened /\ [NtpNext]_ntpVars
        => EnabledClientRuns' /\ ThrewUnopened'
  BY EnabledClientRunsInductive
<1> QED
  BY <1>1, <1>2, NtpTypes, PTL DEF NtpSpec

(* No request goes to a server that has refused, however often the client   *)
(* rotates through its servers and whenever it is stopped.                  *)
THEOREM RefusalRespected == NtpSpec => []RefusedServerNotPolled
<1>1. NtpInit => RefusalInv
  BY DEF NtpInit, RefusalInv, DenialIsPending, DisabledIsLeft, ReceiveHasSocket,
         NoneDisabledAtStart
<1>2. NtpTypeOK /\ RefusalInv /\ [NtpNext]_ntpVars => RefusalInv'
  BY RefusalInvInductive
<1>3. RefusalInv => RefusedServerNotPolled
  BY DEF RefusalInv, DenialIsPending, DisabledIsLeft, ReceiveHasSocket,
         RefusedServerNotPolled
<1> QED
  BY <1>1, <1>2, <1>3, NtpTypes, PTL DEF NtpSpec

(* The time offset is only ever computed from an answer of the server the   *)
(* client is at, whatever answers of others were under way.                 *)
THEOREM OffsetOfCurrent == NtpSpec => OffsetIsOfCurrentServer
<1>1. NtpInit => AnswersAreCurrent
  BY DEF NtpInit, AnswersAreCurrent
<1>2. NtpTypeOK /\ AnswersAreCurrent /\ [NtpNext]_ntpVars => AnswersAreCurrent'
  BY AnswersAreCurrentInductive
<1>3. NtpTypeOK /\ AnswersAreCurrent /\ [NtpNext]_ntpVars =>
        [timeOffset' # timeOffset => \A a \in timeOffset' : a.server = currentServer]_ntpVars
  BY OffsetStep
<1> QED
  BY <1>1, <1>2, <1>3, NtpTypes, PTL DEF NtpSpec, OffsetIsOfCurrentServer

----------------------------------------------------------------------------
(* What the liveness of the main thread rests on: the run it waits for, and *)
(* the one that Stop waits for, have nothing they could be stuck at.        *)

(* RotateServer's search for the next server ends: unless it is back at the *)
(* current one, the next is not disabled.                                   *)
RotationEnds ==
    pollThread = "rotating" => NextServer \notin disabledServers \/ NextServer = currentServer

(* While start-up waits for the first offset, a run is on its way there.    *)
FirstRunEnds ==
    mainThread = "wait" /\ ~initialized =>
        pollThread \in {"run", "rotate", "rotating", "open", "resolve", "poll", "receive",
                        "finish"}

(* The client that Stop has disabled stays disabled, but for the moment     *)
(* between DisableServer and RotateServer when its only server refused; so  *)
(* the run ends without another timer.                                      *)
Stopping == mainThread \in {"cancelSocket", "cancelTimer", "join", "stopped"}
StopIsNotUndone == Stopping /\ clientEnabled => pollThread \in {"rotate", "rotating"}

(* The first refusal that is acted on is the last: with more servers than   *)
(* one it disables the client, as the comparison is written, and the run    *)
(* ends without another request.                                            *)
FirstRefusalIsLast ==
    disabledServers # {} /\ NumServers > 1 =>
        /\ ~clientEnabled /\ ~rotateServer /\ ~disableServer
        /\ pollThread \in {"rotate", "open", "poll", "finish", "check", "idle"}
        /\ pollThread # "rotate" => ~socketOpen

ReenabledRotates ==
    Stopping /\ clientEnabled =>
        pollThread \in {"rotate", "rotating"} /\ rotateServer /\ NumServers = 1

RunInv ==
    /\ pollThread = "rotating" => rotateServer
    /\ NoneDisabledAtStart
    /\ FirstRefusalIsLast /\ ReenabledRotates /\ FirstRunEnds

LEMMA RunInvInductive ==
    ASSUME NtpTypeOK, RunInv, [NtpNext]_ntpVars
    PROVE  RunInv'
<1> USE DEF NtpTypeOK, RunInv, NoneDisabledAtStart, FirstRefusalIsLast, ReenabledRotates,
            FirstRunEnds, Stopping, settings, socket, PollGoes
<1>1. CASE DisableServer
  <2>1. CASE disableServer
    <3>1. NumServers > 1 => disabledServers = {} /\ {currentServer} # Servers
      BY <2>1, NtpAssumption DEF Servers
    <3>2. NumServers > 1 => ~clientEnabled' /\ ~rotateServer' /\ ~disableServer'
      BY <1>1, <2>1, <3>1 DEF DisableServer
    <3> QED
      BY <1>1, <2>1, <3>2, NtpAssumption DEF DisableServer
  <2>2. CASE ~disableServer
    BY <1>1, <2>2 DEF DisableServer
  <2> QED
    BY <2>1, <2>2
<1>2. CASE CloseIfDisabled
  BY <1>2 DEF CloseIfDisabled, CloseSocket
<1>3. CASE RotateServer
  <2>1. NumServers = 1 => NextServer = currentServer
    BY NtpAssumption DEF NextServer, Servers
  <2> QED
    BY <1>3, <2>1 DEF RotateServer, CloseSocket
<1>4. CASE OpenCurrentServer
  BY <1>4 DEF OpenCurrentServer
<1>5. CASE OpenSucceeds \/ OpenFails \/ OpenThrows
  BY <1>5 DEF OpenSucceeds, OpenFails, OpenThrows
<1>6. CASE NoPoll \/ SendFails
  BY <1>6 DEF NoPoll, SendFails
<1>7. CASE SendRequest
  BY <1>7 DEF SendRequest
<1>8. CASE ReceiveTime \/ ReceiveDeny \/ ReceiveRate \/ ReceiveOther
  BY <1>8 DEF ReceiveTime, ReceiveDeny, ReceiveRate, ReceiveOther, Receive
<1>9. CASE ReceiveTimesOut
  BY <1>9 DEF ReceiveTimesOut
<1>10. CASE FinishInitialization \/ CheckClientEnabled \/ ArmPollTimer \/ PollTimerExpires
  BY <1>10 DEF FinishInitialization, CheckClientEnabled, ArmPollTimer, PollTimerExpires
<1>11. ASSUME NEW a \in transit, Arrive(a) \/ Lose(a)
       PROVE  RunInv'
  BY <1>11 DEF Arrive, Lose
<1>12. ASSUME NEW before2106 \in BOOLEAN, InitializeTasks(before2106)
       PROVE  RunInv'
  BY <1>12 DEF InitializeTasks, MainGoes
<1>13. CASE WaitForInitialOffset \/ Stop
  BY <1>13 DEF WaitForInitialOffset, Stop, MainGoes
<1>14. CASE StopCancelsSocket \/ StopThrows \/ StopCancelsTimer \/ StopJoins
  BY <1>14 DEF StopCancelsSocket, StopThrows, StopCancelsTimer, StopJoins, MainGoes
<1>15. CASE UNCHANGED ntpVars
  BY <1>15 DEF ntpVars
<1> QED
  BY <1>1, <1>2, <1>3, <1>4, <1>5, <1>6, <1>7, <1>8, <1>9, <1>10, <1>11, <1>12, <1>13,
     <1>14, <1>15, NtpNextCases

LEMMA RunInvHolds == NtpSpec => []RunInv
<1>1. NtpInit => RunInv
  BY DEF NtpInit, RunInv, NoneDisabledAtStart, FirstRefusalIsLast, ReenabledRotates,
         FirstRunEnds, Stopping
<1>2. NtpTypeOK /\ RunInv /\ [NtpNext]_ntpVars => RunInv'
  BY RunInvInductive
<1> QED
  BY <1>1, <1>2, NtpTypes, PTL DEF NtpSpec

(* RotateServer never searches for ever, although nothing in its loop stops *)
(* it when the last server left is disabled: one server at most is.         *)
THEOREM RotationStops == NtpSpec => []RotationEnds
<1>1. NtpTypeOK /\ RunInv => RotationEnds
  <2> SUFFICES ASSUME NtpTypeOK, RunInv, pollThread = "rotating"
               PROVE  NextServer \notin disabledServers \/ NextServer = currentServer
    BY DEF RotationEnds
  <2>1. disabledServers = {} \/ NumServers = 1
    BY NtpAssumption DEF RunInv, FirstRefusalIsLast
  <2>2. NumServers = 1 => NextServer = currentServer
    BY NtpAssumption DEF NextServer, NtpTypeOK, Servers
  <2> QED
    BY <2>1, <2>2
<1> QED
  BY <1>1, RunInvHolds, NtpTypes, PTL

(* No refusal, time-out or failure takes the run away that the main thread  *)
(* waits for at start-up.                                                   *)
THEOREM StartupAwaited == NtpSpec => []FirstRunEnds
<1>1. RunInv => FirstRunEnds
  BY DEF RunInv
<1> QED
  BY <1>1, RunInvHolds, PTL

(* A run that goes on after Stop does not undo it: it ends disabled.        *)
THEOREM StopStands == NtpSpec => []StopIsNotUndone
<1>1. RunInv => StopIsNotUndone
  BY DEF RunInv, ReenabledRotates, StopIsNotUndone
<1> QED
  BY <1>1, RunInvHolds, PTL

----------------------------------------------------------------------------
(*****************************************************************************)
(* Timeline: three threads select times, and steps are queued and counted.   *)
(* For any maps, loop and bounds the maps follow the timeline and the count  *)
(* is exact. The argument: only the thread that holds selectTimeMutex_ is    *)
(* between the assignment of the selected time and its announcement, and it  *)
(* announces what it has assigned; a step is in the queue, or the select     *)
(* thread is at work on it, until it has been counted off.                   *)
(*****************************************************************************)

----------------------------------------------------------------------------
(* Counting the steps in a queue.                                           *)

StepsIn(s) == {i \in DOMAIN s : s[i].step}
OneIf(condition) == IF condition THEN 1 ELSE 0

LEMMA StepsFinite ==
    ASSUME NEW s \in Seq(SelectTasks)
    PROVE  IsFiniteSet(StepsIn(s)) /\ Cardinality(StepsIn(s)) \in Nat
  <1>1. IsFiniteSet(1 .. Len(s)) /\ StepsIn(s) \in SUBSET (1 .. Len(s))
    BY FS_Interval DEF StepsIn
  <1>2. IsFiniteSet(StepsIn(s))
    BY <1>1, FS_Subset
  <1> QED  BY <1>2, FS_CardinalityType

LEMMA StepsAppended ==
    ASSUME NEW s \in Seq(SelectTasks), NEW task
    PROVE  Cardinality(StepsIn(Append(s, task))) =
              Cardinality(StepsIn(s)) + OneIf(task.step)
  <1> DEFINE n == Len(s) + 1
  <1>1. /\ DOMAIN Append(s, task) = 1 .. n /\ DOMAIN s = 1 .. Len(s)
        /\ n \notin StepsIn(s) /\ Append(s, task)[n] = task
        /\ \A i \in 1 .. Len(s) : Append(s, task)[i] = s[i]
    BY DEF StepsIn
  <1>2. CASE task.step
    <2>1. StepsIn(Append(s, task)) = StepsIn(s) \cup {n}
      BY <1>1, <1>2 DEF StepsIn
    <2>2. Cardinality(StepsIn(s) \cup {n}) = Cardinality(StepsIn(s)) + 1
      BY <1>1, StepsFinite, FS_AddElement
    <2> QED  BY <1>2, <2>1, <2>2, StepsFinite DEF OneIf
  <1>3. CASE ~task.step
    <2>1. StepsIn(Append(s, task)) = StepsIn(s)
      BY <1>1, <1>3 DEF StepsIn
    <2> QED  BY <1>3, <2>1, StepsFinite DEF OneIf
  <1> QED  BY <1>2, <1>3

LEMMA StepsTaken ==
    ASSUME NEW s \in Seq(SelectTasks), s # <<>>
    PROVE  Cardinality(StepsIn(s)) =
              Cardinality(StepsIn(Tail(s))) + OneIf(Head(s).step)
  <1> DEFINE rest == StepsIn(s) \ {1}
             f    == [i \in rest |-> i - 1]
  <1>1. /\ Tail(s) \in Seq(SelectTasks) /\ DOMAIN Tail(s) = 1 .. Len(s) - 1
        /\ DOMAIN s = 1 .. Len(s) /\ Head(s) = s[1] /\ 1 \in DOMAIN s
        /\ \A i \in 1 .. Len(s) - 1 : Tail(s)[i] = s[i + 1]
    OBVIOUS
  <1>2. ExistsBijection(rest, StepsIn(Tail(s)))
    <2>1. f \in [rest -> StepsIn(Tail(s))]
      BY <1>1 DEF StepsIn
    <2>2. \A i, j \in rest : f[i] = f[j] => i = j
      BY <1>1 DEF StepsIn
    <2>3. \A k \in StepsIn(Tail(s)) : \E i \in rest : f[i] = k
      <3> TAKE k \in StepsIn(Tail(s))
      <3>1. k + 1 \in rest /\ f[k + 1] = k
        BY <1>1 DEF StepsIn
      <3> QED  BY <3>1
    <2>4. f \in Injection(rest, StepsIn(Tail(s)))
      BY <2>1, <2>2 DEF Injection, IsInjective
    <2>5. f \in Surjection(rest, StepsIn(Tail(s)))
      BY <2>1, <2>3 DEF Surjection
    <2> QED
      BY <2>4, <2>5 DEF ExistsBijection, Bijection
  <1>3. /\ IsFiniteSet(StepsIn(s)) /\ IsFiniteSet(rest)
        /\ Cardinality(StepsIn(s)) = Cardinality(rest) + OneIf(Head(s).step)
    <2>1. IsFiniteSet(StepsIn(s)) /\ Cardinality(StepsIn(s)) \in Nat
      BY StepsFinite
    <2>2. CASE Head(s).step
      <3>1. 1 \in StepsIn(s)
        BY <1>1, <2>2 DEF StepsIn
      <3>2. IsFiniteSet(rest) /\ Cardinality(rest) = Cardinality(StepsIn(s)) - 1
        BY <2>1, <3>1, FS_RemoveElement
      <3>3. OneIf(Head(s).step) = 1
        BY <2>2 DEF OneIf
      <3> QED  BY <2>1, <3>2, <3>3
    <2>3. CASE ~Head(s).step
      <3>1. rest = StepsIn(s)
        BY <1>1, <2>3 DEF StepsIn
      <3>2. OneIf(Head(s).step) = 0
        BY <2>3 DEF OneIf
      <3>3. IsFiniteSet(rest) /\ Cardinality(rest) = Cardinality(StepsIn(s))
        BY <2>1, <3>1, Zenon
      <3> QED  BY <2>1, <3>2, <3>3
    <2> QED  BY <2>2, <2>3
  <1>4. Cardinality(StepsIn(Tail(s))) = Cardinality(rest)
    BY <1>2, <1>3, FS_Bijection
  <1> QED  BY <1>3, <1>4

----------------------------------------------------------------------------
(* Where each thread can be.                                                *)

ThreadNames == PoolThreadNames \cup {"gui"}

AttemptNumbers == 1 .. MaxAttempts

PlayStates ==
    {Resting, Thrown("frame"), [at |-> "arm"], [at |-> "replay"]}
      \cup {Selecting(at, t, "frame", 0) :
              at \in {"monitor", "assign", "emit", "wait"}, t \in Minutes}

PlainSelections ==
    {Selecting(at, t, "select", 0) : at \in {"assign", "emit"}, t \in Minutes \cup {Live}}

StepStates ==
    {Selecting("monitor", t, d, k) :
       t \in Minutes \cup {LoopEnd + 1}, d \in Directions, k \in AttemptNumbers}
      \cup {Selecting(at, t, d, k) :
              at \in {"assign", "emit"}, t \in Minutes \cup {Live}, d \in Directions,
              k \in AttemptNumbers}
      \cup {Selecting("wait", t, d, k) : t \in Minutes, d \in Directions, k \in AttemptNumbers}
      \cup {Finished(d, live, found) : d \in Directions, live \in BOOLEAN, found \in BOOLEAN}
      \cup {Thrown(d) : d \in Directions}

SelectStates == {Resting} \cup PlainSelections \cup StepStates

GuiStates ==
    {Resting, Selecting("assign", Live, "select", 0), Selecting("emit", Live, "select", 0)}
      \cup [at : {"updated", "notUpdated", "painted"}, map : Maps]

StatesOf == [w \in ThreadNames |->
    IF w = "play" THEN PlayStates ELSE IF w = "select" THEN SelectStates ELSE GuiStates]

(* The types, but for the count of steps.                                   *)
ActorTypes ==
    /\ actor \in [ThreadNames -> PlayStates \cup SelectStates \cup GuiStates]
    /\ \A w \in ThreadNames : actor[w] \in StatesOf[w]

TaskTypes ==
    /\ animationState \in {"Play", "Pause"}
    /\ animationTimer \in BOOLEAN
    /\ playTasks \in Seq({"sync", "handler"})
    /\ selectTasks \in Seq(SelectTasks)

SelectionTypes ==
    /\ selectedTime \in Minutes \cup {Live}
    /\ shownTime \in Minutes \cup {Live}
    /\ selectOwner \in ThreadNames \cup {Nobody}

MonitorTypes ==
    /\ monitorOwner \in PoolThreadNames \cup {Nobody}
    /\ monitorActive \in BOOLEAN
    /\ sweepsUpdated \subseteq Maps /\ sweepsComplete \subseteq Maps
    /\ sweeps \in [Maps -> 0 .. MaxTasks]

TimeTypes == ActorTypes /\ TaskTypes /\ SelectionTypes /\ MonitorTypes

(* The lock: whoever holds it is about to announce what is selected.        *)
LockInv ==
    /\ \A w \in ThreadNames : selectOwner = w <=> At(w, "emit")
    /\ \A w \in ThreadNames : At(w, "emit") => actor[w].time = selectedTime
    /\ MapsFollowTimeline

(* The count, with its bound.                                               *)
Stepping(state) == "for" \in DOMAIN state /\ state.for \in Directions
CountInv ==
    /\ stepCounter \in 0 .. MaxQueuedSteps
    /\ stepCounter = Cardinality(StepsIn(selectTasks)) + OneIf(Stepping(actor["select"]))

----------------------------------------------------------------------------
(* A thread moves.                                                          *)

LEMMA OneMoves ==
    ASSUME ActorTypes, NEW w \in ThreadNames, NEW s, Moves(w, s)
    PROVE  actor'[w] = s /\ \A v \in ThreadNames \ {w} : actor'[v] = actor[v]
  BY DEF ActorTypes, Moves

LEMMA MovesWithin ==
    ASSUME ActorTypes, NEW w \in ThreadNames, NEW s \in StatesOf[w], Moves(w, s)
    PROVE  ActorTypes'
  <1>1. s \in PlayStates \cup SelectStates \cup GuiStates
    BY DEF StatesOf
  <1>2. actor' \in [ThreadNames -> PlayStates \cup SelectStates \cup GuiStates]
    BY <1>1 DEF ActorTypes, Moves
  <1>3. \A v \in ThreadNames : actor'[v] \in StatesOf[v]
    BY OneMoves DEF ActorTypes
  <1> QED  BY <1>2, <1>3 DEF ActorTypes

(* Where SelectTime leaves a thread.                                        *)
AfterSelection(t, for, k) ==
    IF for = "select" THEN Resting
    ELSE IF for \in Directions /\ t = Live THEN Finished(for, TRUE, FALSE)
    ELSE Selecting("wait", t, for, k)

LEMMA SelectionEnds ==
    ASSUME NEW w, NEW t, NEW for, NEW k, TimeSelected(w, t, for, k)
    PROVE  /\ Moves(w, AfterSelection(t, for, k))
           /\ monitorOwner' = IF for = "select" THEN monitorOwner ELSE Nobody
  <1>1. CASE for = "select"
    BY <1>1 DEF TimeSelected, AfterSelection, Directions
  <1>2. CASE for # "select" /\ for \in Directions /\ t = Live
    BY <1>2 DEF TimeSelected, AfterSelection
  <1>3. CASE for # "select" /\ ~(for \in Directions /\ t = Live)
    BY <1>3 DEF TimeSelected, AfterSelection
  <1> QED  BY <1>1, <1>2, <1>3

LEMMA SelectionMoves ==
    ASSUME NEW w, NEW t, NEW for, NEW k, SelectTime(w, t, for, k)
    PROVE  \/ /\ Moves(w, AfterSelection(t, for, k))
              /\ monitorOwner' = IF for = "select" THEN monitorOwner ELSE Nobody
           \/ /\ Moves(w, Selecting("assign", t, for, k))
              /\ monitorOwner' = IF for = "select" THEN monitorOwner ELSE w
  BY SelectionEnds DEF SelectTime

(* The states in which a step, and only a step, is under way.               *)
LEMMA SteppingStates ==
    /\ \A s \in StepStates : Stepping(s)
    /\ \A s \in PlainSelections \cup {Resting} : ~Stepping(s)
  BY DEF StepStates, PlainSelections, Stepping, Selecting, Finished, Thrown, Resting, Directions

LEMMA FinishedStates ==
    \A d \in Directions :
      /\ Finished(d, TRUE, FALSE) \in StepStates
      /\ Finished(d, FALSE, FALSE) \in StepStates
      /\ Finished(d, FALSE, TRUE) \in StepStates
  <1>1. \A d \in Directions, live \in BOOLEAN, found \in BOOLEAN :
          Finished(d, live, found) \in StepStates
    BY DEF StepStates
  <1>2. TRUE \in BOOLEAN /\ FALSE \in BOOLEAN
    OBVIOUS
  <1> QED  BY <1>1, <1>2, Zenon

(* Selections stay among the states of their thread, and none but "emit"    *)
(* needs the lock.                                                          *)
LEMMA SelectionStates ==
    /\ \A t \in Minutes :
         AfterSelection(t, "frame", 0) \in PlayStates /\ Selecting("assign", t, "frame", 0) \in PlayStates
    /\ \A t \in Minutes \cup {Live} :
         AfterSelection(t, "select", 0) = Resting
         /\ Selecting("assign", t, "select", 0) \in PlainSelections
    /\ \A t \in Minutes \cup {Live}, d \in Directions, k \in AttemptNumbers :
         AfterSelection(t, d, k) \in StepStates /\ Selecting("assign", t, d, k) \in StepStates
  <1>1. Live \notin Minutes /\ Minutes \subseteq Nat
    BY TimelineAssumption DEF Minutes, Live
  <1>2. \A t \in Minutes :
         AfterSelection(t, "frame", 0) \in PlayStates /\ Selecting("assign", t, "frame", 0) \in PlayStates
    BY DEF AfterSelection, PlayStates, Directions
  <1>3. \A t \in Minutes \cup {Live} :
         AfterSelection(t, "select", 0) = Resting
         /\ Selecting("assign", t, "select", 0) \in PlainSelections
    BY DEF AfterSelection, PlainSelections
  <1>4. ASSUME NEW t \in Minutes \cup {Live}, NEW d \in Directions, NEW k \in AttemptNumbers
        PROVE  AfterSelection(t, d, k) \in StepStates /\ Selecting("assign", t, d, k) \in StepStates
    <2>1. d # "select"
      BY DEF Directions
    <2>2. Selecting("assign", t, d, k) \in StepStates
      BY DEF StepStates
    <2>3. CASE t = Live
      <3>1. AfterSelection(t, d, k) = Finished(d, TRUE, FALSE)
        BY <2>1, <2>3 DEF AfterSelection
      <3> QED  BY <2>2, <3>1, FinishedStates
    <2>4. CASE t # Live
      <3>1. AfterSelection(t, d, k) = Selecting("wait", t, d, k) /\ t \in Minutes
        BY <2>1, <2>4 DEF AfterSelection
      <3> QED  BY <2>2, <3>1 DEF StepStates
    <2> QED  BY <2>3, <2>4
  <1> QED  BY <1>2, <1>3, <1>4

LEMMA NoneAnnounces ==
    \A t, for, k :
      /\ AfterSelection(t, for, k).at # "emit"
      /\ Selecting("assign", t, for, k).at # "emit"
  BY DEF AfterSelection, Resting, Finished, Selecting

(* What a thread that selects, waits or finishes is doing.                  *)
LEMMA PlayShapes ==
    ASSUME NEW s \in PlayStates, s.at \in {"monitor", "assign", "emit", "wait"}
    PROVE  s.time \in Minutes /\ s = Selecting(s.at, s.time, "frame", 0)
  BY DEF PlayStates, Selecting, Resting, Thrown

LEMMA GuiShapes ==
    ASSUME NEW s \in GuiStates
    PROVE  /\ s.at \in {"assign", "emit"} => s = Selecting(s.at, Live, "select", 0)
           /\ s.at \in {"updated", "notUpdated", "painted"} => s.map \in Maps
  BY DEF GuiStates, Selecting, Resting

LEMMA SelectShapes ==
    ASSUME NEW s \in SelectStates
    PROVE  /\ s.at \in {"assign", "emit"} =>
                \E t \in Minutes \cup {Live} :
                  \/ s = Selecting(s.at, t, "select", 0)
                  \/ \E d \in Directions, k \in AttemptNumbers : s = Selecting(s.at, t, d, k)
           /\ s.at = "monitor" =>
                \E t \in Minutes \cup {LoopEnd + 1}, d \in Directions, k \in AttemptNumbers :
                  s = Selecting("monitor", t, d, k)
           /\ s.at = "wait" =>
                \E t \in Minutes, d \in Directions, k \in AttemptNumbers :
                  s = Selecting("wait", t, d, k)
           /\ s.at \in {"finish", "threw"} => s \in StepStates
           /\ s.at = "idle" => s = Resting
  <1>1. CASE s = Resting
    BY <1>1 DEF Resting
  <1>2. CASE s \in PlainSelections
    BY <1>2 DEF PlainSelections, Selecting
  <1>3. CASE s \in StepStates
    <2>1. CASE \E t \in Minutes \cup {LoopEnd + 1}, d \in Directions, k \in AttemptNumbers :
                 s = Selecting("monitor", t, d, k)
      BY <2>1 DEF Selecting
    <2>2. CASE \E at \in {"assign", "emit"}, t \in Minutes \cup {Live}, d \in Directions,
                  k \in AttemptNumbers : s = Selecting(at, t, d, k)
      <3>1. PICK at \in {"assign", "emit"}, t \in Minutes \cup {Live}, d \in Directions,
                 k \in AttemptNumbers : s = Selecting(at, t, d, k)
        BY <2>2
      <3>2. s.at = at
        BY <3>1 DEF Selecting
      <3>3. s.at \in {"assign", "emit"} /\ s = Selecting(s.at, t, d, k)
        BY <3>1, <3>2
      <3> QED  BY <3>3
    <2>3. CASE \E t \in Minutes, d \in Directions, k \in AttemptNumbers :
                 s = Selecting("wait", t, d, k)
      BY <2>3 DEF Selecting
    <2>4. CASE \E d \in Directions, live \in BOOLEAN, found \in BOOLEAN :
                 s = Finished(d, live, found)
      BY <1>3, <2>4 DEF Finished
    <2>5. CASE \E d \in Directions : s = Thrown(d)
      BY <1>3, <2>5 DEF Thrown, Directions
    <2> QED  BY <1>3, <2>1, <2>2, <2>3, <2>4, <2>5 DEF StepStates
  <1> QED  BY <1>1, <1>2, <1>3 DEF SelectStates

----------------------------------------------------------------------------
(* SelectTime, by each thread.                                              *)

LEMMA PlaySelects ==
    ASSUME ActorTypes, NEW t \in Minutes, SelectTime("play", t, "frame", 0)
    PROVE  /\ ActorTypes'
           /\ monitorOwner' \in {"play", Nobody}
           /\ actor'["play"].at # "emit" /\ actor'["select"] = actor["select"]
           /\ actor'["gui"] = actor["gui"]
  <1>1. PICK s \in PlayStates : Moves("play", s) /\ s.at # "emit"
    BY SelectionMoves, SelectionStates, NoneAnnounces
  <1>2. "play" \in ThreadNames /\ s \in StatesOf["play"]
    BY DEF ThreadNames, PoolThreadNames, StatesOf
  <1>3. monitorOwner' \in {"play", Nobody}
    BY SelectionMoves
  <1> QED  BY <1>1, <1>2, <1>3, OneMoves, MovesWithin DEF ThreadNames, PoolThreadNames

LEMMA GuiSelects ==
    ASSUME ActorTypes, SelectTime("gui", Live, "select", 0)
    PROVE  /\ ActorTypes'
           /\ monitorOwner' = monitorOwner
           /\ actor'["gui"].at # "emit" /\ actor'["select"] = actor["select"]
           /\ actor'["play"] = actor["play"]
  <1>1. PICK s \in GuiStates : Moves("gui", s) /\ s.at # "emit"
    BY SelectionMoves, SelectionStates, NoneAnnounces DEF GuiStates
  <1>2. "gui" \in ThreadNames /\ s \in StatesOf["gui"]
    BY DEF ThreadNames, PoolThreadNames, StatesOf
  <1>3. monitorOwner' = monitorOwner
    BY SelectionMoves
  <1> QED  BY <1>1, <1>2, <1>3, OneMoves, MovesWithin DEF ThreadNames, PoolThreadNames

LEMMA SelectSelects ==
    ASSUME ActorTypes, NEW t \in Minutes \cup {Live}, SelectTime("select", t, "select", 0)
    PROVE  /\ ActorTypes'
           /\ monitorOwner' = monitorOwner
           /\ actor'["select"].at # "emit" /\ ~Stepping(actor'["select"])
           /\ actor'["gui"] = actor["gui"] /\ actor'["play"] = actor["play"]
  <1>1. PICK s \in {Resting} \cup PlainSelections : Moves("select", s) /\ s.at # "emit"
    BY SelectionMoves, SelectionStates, NoneAnnounces
  <1>2. "select" \in ThreadNames /\ s \in StatesOf["select"]
    BY DEF ThreadNames, PoolThreadNames, StatesOf, SelectStates
  <1>3. monitorOwner' = monitorOwner
    BY SelectionMoves
  <1>4. ~Stepping(s)
    BY SteppingStates
  <1> QED  BY <1>1, <1>2, <1>3, <1>4, OneMoves, MovesWithin DEF ThreadNames, PoolThreadNames

(* A step goes on: what the select thread does next is of the same step.    *)
GoesOnStepping ==
    /\ ActorTypes'
    /\ monitorOwner' \in {monitorOwner, "select", Nobody}
    /\ actor'["select"].at # "emit" /\ Stepping(actor'["select"])
    /\ actor'["gui"] = actor["gui"] /\ actor'["play"] = actor["play"]

LEMMA StepMoves ==
    ASSUME ActorTypes, NEW s \in StepStates, s.at # "emit", Moves("select", s),
           monitorOwner' \in {monitorOwner, "select", Nobody}
    PROVE  GoesOnStepping
  <1>1. "select" \in ThreadNames /\ s \in StatesOf["select"]
    BY DEF ThreadNames, PoolThreadNames, StatesOf, SelectStates
  <1>2. Stepping(s)
    BY SteppingStates
  <1> QED
    BY <1>1, <1>2, OneMoves, MovesWithin DEF GoesOnStepping, ThreadNames, PoolThreadNames

LEMMA StepSelects ==
    ASSUME ActorTypes, NEW t \in Minutes \cup {Live}, NEW d \in Directions,
           NEW k \in AttemptNumbers, SelectTime("select", t, d, k)
    PROVE  GoesOnStepping
  <1>1. PICK s \in StepStates : Moves("select", s) /\ s.at # "emit"
    BY SelectionMoves, SelectionStates, NoneAnnounces
  <1>2. monitorOwner' \in {"select", Nobody}
    BY SelectionMoves DEF Directions
  <1> QED  BY <1>1, <1>2, StepMoves

LEMMA StepLeavesLoop ==
    ASSUME ActorTypes, NEW d \in Directions, LeaveLoop(d)
    PROVE  GoesOnStepping
  <1>1. CASE d = "Next" /\ sweepsUpdated = {}
    <2>1. MaxAttempts \in AttemptNumbers
      BY TimelineAssumption DEF AttemptNumbers
    <2> QED  BY <1>1, <2>1, StepSelects DEF LeaveLoop
  <1>2. CASE ~(d = "Next" /\ sweepsUpdated = {})
    <2>1. Finished(d, FALSE, FALSE) \in StepStates /\ Finished(d, FALSE, FALSE).at # "emit"
      BY FinishedStates DEF Finished
    <2> QED  BY <1>2, <2>1, StepMoves DEF LeaveLoop
  <1> QED  BY <1>1, <1>2

----------------------------------------------------------------------------
(* What is kept by the steps that neither take nor release the lock, and by *)
(* those that leave the queue of steps alone.                               *)

TimeInv == TimeTypes /\ LockInv /\ CountInv

LEMMA LockKept ==
    ASSUME LockInv, UNCHANGED selection,
           \A w \in ThreadNames :
             actor'[w] = actor[w] \/ (actor[w].at # "emit" /\ actor'[w].at # "emit")
    PROVE  LockInv'
  BY DEF LockInv, At, MapsFollowTimeline, selection

LEMMA CountKept ==
    ASSUME CountInv, UNCHANGED steps,
           actor'["select"] = actor["select"]
             \/ (Stepping(actor["select"]) /\ Stepping(actor'["select"]))
             \/ (~Stepping(actor["select"]) /\ ~Stepping(actor'["select"]))
    PROVE  CountInv'
  <1>1. OneIf(Stepping(actor["select"]))' = OneIf(Stepping(actor["select"]))
    BY DEF OneIf, Stepping
  <1> QED  BY <1>1 DEF CountInv, steps

LEMMA SelectionKept ==
    ASSUME SelectionTypes, UNCHANGED selection
    PROVE  SelectionTypes'
  BY DEF SelectionTypes, selection

LEMMA MonitorKept ==
    ASSUME MonitorTypes, UNCHANGED <<monitor, sweeps>>
    PROVE  MonitorTypes'
  BY DEF MonitorTypes, monitor

LEMMA TasksKept ==
    ASSUME TaskTypes, UNCHANGED <<animation, selectTasks>>
    PROVE  TaskTypes'
  BY DEF TaskTypes, animation

----------------------------------------------------------------------------
(* The user.                                                                *)

LEMMA TasksTyped ==
    ASSUME animationState' \in {"Play", "Pause"}, animationTimer' \in BOOLEAN,
           playTasks' \in Seq({"sync", "handler"}), selectTasks' \in Seq(SelectTasks)
    PROVE  TaskTypes'
  BY Zenon DEF TaskTypes

LEMMA Paused ==
    ASSUME PauseAnimation
    PROVE  animationState' \in {"Play", "Pause"} /\ animationTimer' \in BOOLEAN
  BY DEF PauseAnimation

LEMMA Posted ==
    ASSUME TaskTypes, PostPlay
    PROVE  playTasks' \in Seq({"sync", "handler"}) /\ animationTimer' \in BOOLEAN
  <1>1. playTasks' \in Seq({"sync", "handler"})
    BY DEF PostPlay, TaskTypes
  <1>2. animationTimer' \in BOOLEAN
    BY DEF PostPlay
  <1> QED  BY <1>1, <1>2

LEMMA AnimationKeeps ==
    ASSUME TimeInv, AnimationPlay \/ AnimationPause
    PROVE  TimeInv'
  <1>1. UNCHANGED <<steps, selection, monitor, sweeps, actor>>
    BY DEF AnimationPlay, AnimationPause
  <1>2. TaskTypes'
    <2>1. TaskTypes /\ selectTasks' \in Seq(SelectTasks)
      BY <1>1 DEF TimeInv, TimeTypes, TaskTypes, steps
    <2>2. CASE AnimationPlay
      BY <2>1, <2>2, Posted, TasksTyped DEF AnimationPlay
    <2>3. CASE AnimationPause
      <3>1. playTasks' \in Seq({"sync", "handler"})
        BY <2>1, <2>3 DEF AnimationPause, TaskTypes
      <3> QED  BY <2>1, <2>3, <3>1, Paused, TasksTyped DEF AnimationPause
    <2> QED  BY <2>2, <2>3
  <1>3. ActorTypes' /\ SelectionTypes' /\ MonitorTypes'
    BY <1>1, SelectionKept, MonitorKept DEF TimeInv, TimeTypes, ActorTypes
  <1>4. LockInv' /\ CountInv'
    BY <1>1, LockKept, CountKept DEF TimeInv
  <1> QED  BY <1>2, <1>3, <1>4 DEF TimeInv, TimeTypes

LEMMA StepAsyncKeeps ==
    ASSUME TimeInv, NEW d \in Directions, StepAsync(d)
    PROVE  TimeInv'
  <1>1. UNCHANGED <<selection, monitor, sweeps, actor>>
    BY DEF StepAsync
  <1>2. ActorTypes' /\ SelectionTypes' /\ MonitorTypes' /\ LockInv'
    BY <1>1, SelectionKept, MonitorKept, LockKept DEF TimeInv, TimeTypes, ActorTypes
  <1>3. StepTask(d) \in SelectTasks /\ StepTask(d).step
    BY DEF SelectTasks, StepTask
  <1>4. TaskTypes'
    <2>1. playTasks' \in Seq({"sync", "handler"}) /\ selectTasks' \in Seq(SelectTasks)
      BY <1>3 DEF StepAsync, TimeInv, TimeTypes, TaskTypes, steps
    <2> QED  BY <2>1, Paused, TasksTyped DEF StepAsync
  <1>5. CountInv'
    <2>1. CASE stepCounter < MaxQueuedSteps
      <3>1. selectTasks' = Append(selectTasks, StepTask(d)) /\ stepCounter' = stepCounter + 1
        BY <2>1 DEF StepAsync
      <3>2. OneIf(StepTask(d).step) = 1
        BY <1>3 DEF OneIf
      <3>3. Cardinality(StepsIn(selectTasks')) = Cardinality(StepsIn(selectTasks)) + 1
        BY <3>1, <3>2, StepsAppended DEF TimeInv, TimeTypes, TaskTypes
      <3>4. OneIf(Stepping(actor["select"]))' = OneIf(Stepping(actor["select"]))
            /\ OneIf(Stepping(actor["select"])) \in {0, 1}
        BY <1>1 DEF OneIf, Stepping
      <3>5. Cardinality(StepsIn(selectTasks)) \in Nat
        BY StepsFinite DEF TimeInv, TimeTypes, TaskTypes
      <3> QED
        BY <2>1, <3>1, <3>3, <3>4, <3>5, TimelineAssumption DEF CountInv, TimeInv
    <2>2. CASE ~(stepCounter < MaxQueuedSteps)
      <3>1. UNCHANGED steps
        BY <2>2 DEF StepAsync
      <3> QED  BY <1>1, <3>1, CountKept DEF TimeInv
    <2> QED  BY <2>1, <2>2
  <1> QED  BY <1>2, <1>4, <1>5 DEF TimeInv, TimeTypes

LEMMA StepToEndKeeps ==
    ASSUME TimeInv, NEW t \in EndTimes, StepToEnd(t)
    PROVE  TimeInv'
  <1>1. UNCHANGED <<stepCounter, selection, monitor, sweeps, actor>>
        /\ selectTasks' = Append(selectTasks, SelectTask(t))
    BY DEF StepToEnd
  <1>2. ActorTypes' /\ SelectionTypes' /\ MonitorTypes' /\ LockInv'
    BY <1>1, SelectionKept, MonitorKept, LockKept DEF TimeInv, TimeTypes, ActorTypes
  <1>3. SelectTask(t) \in SelectTasks /\ ~SelectTask(t).step
    BY TimelineAssumption DEF SelectTasks, SelectTask, Minutes, Live
  <1>4. TaskTypes'
    <2>1. playTasks' \in Seq({"sync", "handler"}) /\ selectTasks' \in Seq(SelectTasks)
      BY <1>1, <1>3 DEF StepToEnd, TimeInv, TimeTypes, TaskTypes
    <2> QED  BY <2>1, Paused, TasksTyped DEF StepToEnd
  <1>5. CountInv'
    <2>1. OneIf(SelectTask(t).step) = 0
      BY <1>3 DEF OneIf
    <2>2. Cardinality(StepsIn(selectTasks)) \in Nat
      BY StepsFinite DEF TimeInv, TimeTypes, TaskTypes
    <2>3. Cardinality(StepsIn(selectTasks')) = Cardinality(StepsIn(selectTasks))
      BY <1>1, <2>1, <2>2, StepsAppended DEF TimeInv, TimeTypes, TaskTypes
    <2>4. OneIf(Stepping(actor["select"]))' = OneIf(Stepping(actor["select"]))
      BY <1>1 DEF OneIf, Stepping
    <2> QED  BY <1>1, <2>3, <2>4 DEF CountInv, TimeInv
  <1> QED  BY <1>2, <1>4, <1>5 DEF TimeInv, TimeTypes

LEMMA SetViewTypeLiveKeeps ==
    ASSUME TimeInv, SetViewTypeLive
    PROVE  TimeInv'
  <1>1. UNCHANGED <<animation, steps, selection, monitorActive, sweepsUpdated,
                    sweepsComplete, sweeps>> /\ At("gui", "idle")
    BY DEF SetViewTypeLive
  <1>2. /\ ActorTypes' /\ monitorOwner' = monitorOwner
        /\ actor'["gui"].at # "emit" /\ actor'["select"] = actor["select"]
        /\ actor'["play"] = actor["play"]
    BY GuiSelects DEF SetViewTypeLive, TimeInv, TimeTypes
  <1>3. SelectionTypes' /\ MonitorTypes' /\ TaskTypes'
    BY <1>1, <1>2, SelectionKept, MonitorKept, TasksKept DEF TimeInv, TimeTypes, monitor, steps
  <1>4. LockInv'
    BY <1>1, <1>2, LockKept DEF TimeInv, At, ThreadNames, PoolThreadNames
  <1>5. CountInv'
    BY <1>1, <1>2, CountKept DEF TimeInv
  <1> QED  BY <1>2, <1>3, <1>4, <1>5 DEF TimeInv, TimeTypes

----------------------------------------------------------------------------
(* The play thread and its timer.                                           *)

LEMMA ThreadMoves ==
    ASSUME ActorTypes, LockInv, NEW w \in {"play", "gui"}, actor[w].at # "emit",
           NEW s \in StatesOf[w], s.at # "emit", Moves(w, s), UNCHANGED selection
    PROVE  ActorTypes' /\ LockInv' /\ actor'["select"] = actor["select"]
  <1>1. w \in ThreadNames /\ "select" \in ThreadNames \ {w}
    BY DEF ThreadNames, PoolThreadNames
  <1>2. ActorTypes' /\ actor'["select"] = actor["select"] /\ actor'[w] = s
        /\ \A v \in ThreadNames \ {w} : actor'[v] = actor[v]
    BY <1>1, OneMoves, MovesWithin
  <1> QED  BY <1>1, <1>2, LockKept

LEMMA QueueShrinks ==
    ASSUME TaskTypes, playTasks # <<>>, playTasks' = Tail(playTasks),
           UNCHANGED <<animationState, animationTimer, selectTasks>>
    PROVE  TaskTypes'
  <1>1. playTasks' \in Seq({"sync", "handler"})
    BY DEF TaskTypes
  <1> QED  BY <1>1, TasksTyped DEF TaskTypes

LEMMA FrameTime ==
    ASSUME SelectionTypes
    PROVE  NextFrame \in Minutes
  BY TimelineAssumption DEF SelectionTypes, NextFrame, Minutes, Live

LEMMA FrameBeginsKeeps ==
    ASSUME TimeInv, BeginFrame \/ AnimationTimerHandler
    PROVE  TimeInv'
  <1>1. PICK s \in PlayStates : s.at # "emit" /\ Moves("play", s)
    <2>1. CASE BeginFrame
      <3>1. NextFrame \in Minutes
        BY FrameTime DEF TimeInv, TimeTypes
      <3>2. Selecting("monitor", NextFrame, "frame", 0) \in PlayStates
        BY <3>1 DEF PlayStates
      <3> QED  BY <2>1, <3>2 DEF BeginFrame, Selecting
    <2>2. CASE AnimationTimerHandler
      BY <2>2 DEF AnimationTimerHandler, PlayStates, Resting
    <2> QED  BY <2>1, <2>2
  <1>2. /\ UNCHANGED <<animationState, animationTimer, steps, selection, monitor, sweeps>>
        /\ playTasks # <<>> /\ playTasks' = Tail(playTasks) /\ actor["play"].at # "emit"
    BY DEF BeginFrame, AnimationTimerHandler, PlayThreadFree, At
  <1>3. ActorTypes' /\ LockInv' /\ actor'["select"] = actor["select"]
    <2>1. s \in StatesOf["play"]
      BY DEF StatesOf, ThreadNames, PoolThreadNames
    <2> QED  BY <1>1, <1>2, <2>1, ThreadMoves DEF TimeInv, TimeTypes
  <1>4. TaskTypes'
    BY <1>2, QueueShrinks DEF TimeInv, TimeTypes, steps
  <1>5. SelectionTypes' /\ MonitorTypes' /\ CountInv'
    BY <1>2, <1>3, SelectionKept, MonitorKept, CountKept DEF TimeInv, TimeTypes
  <1> QED  BY <1>3, <1>4, <1>5 DEF TimeInv, TimeTypes

LEMMA LockForFrameKeeps ==
    ASSUME TimeInv, LockForFrame
    PROVE  TimeInv'
  <1>1. actor["play"].time \in Minutes /\ actor["play"].at = "monitor"
    <2>1. actor["play"] \in PlayStates
      BY DEF TimeInv, TimeTypes, ActorTypes, StatesOf, ThreadNames, PoolThreadNames
    <2> QED  BY <2>1, PlayShapes DEF LockForFrame, At
  <1>2. /\ ActorTypes' /\ monitorOwner' \in {"play", Nobody}
        /\ actor'["play"].at # "emit" /\ actor'["select"] = actor["select"]
        /\ actor'["gui"] = actor["gui"]
    BY <1>1, PlaySelects DEF LockForFrame, TimeInv, TimeTypes
  <1>3. UNCHANGED <<animation, steps, selection, sweeps>> /\ ResetMonitor
    BY DEF LockForFrame
  <1>4. LockInv'
    BY <1>1, <1>2, <1>3, LockKept DEF TimeInv, At, ThreadNames, PoolThreadNames
  <1>5. MonitorTypes'
    <2>1. monitorActive' \in BOOLEAN
      BY <1>3 DEF ResetMonitor
    <2>2. monitorOwner' \in PoolThreadNames \cup {Nobody}
      BY <1>2 DEF PoolThreadNames
    <2>3. sweepsUpdated' \subseteq Maps /\ sweepsComplete' \subseteq Maps
      BY <1>3 DEF ResetMonitor
    <2>4. sweeps' \in [Maps -> 0 .. MaxTasks]
      BY <1>3 DEF TimeInv, TimeTypes, MonitorTypes
    <2> QED  BY <2>1, <2>2, <2>3, <2>4 DEF MonitorTypes
  <1>6. SelectionTypes' /\ TaskTypes' /\ CountInv'
    BY <1>2, <1>3, SelectionKept, TasksKept, CountKept DEF TimeInv, TimeTypes, steps
  <1> QED  BY <1>2, <1>4, <1>5, <1>6 DEF TimeInv, TimeTypes

LEMMA EndFrameKeeps ==
    ASSUME TimeInv, EndFrame
    PROVE  TimeInv'
  <1>1. [at |-> "arm"] \in StatesOf["play"] /\ [at |-> "arm"].at # "emit"
    BY DEF StatesOf, PlayStates, ThreadNames, PoolThreadNames
  <1>2. ActorTypes' /\ LockInv' /\ actor'["select"] = actor["select"]
    BY <1>1, ThreadMoves DEF EndFrame, At, TimeInv, TimeTypes
  <1>3. MonitorTypes'
    <2>1. monitorActive' \in BOOLEAN
      BY DEF EndFrame
    <2> QED  BY <2>1 DEF EndFrame, MonitorTypes, TimeInv, TimeTypes
  <1>4. SelectionTypes' /\ TaskTypes' /\ CountInv'
    BY <1>2, SelectionKept, TasksKept, CountKept DEF EndFrame, TimeInv, TimeTypes, steps
  <1> QED  BY <1>2, <1>3, <1>4 DEF TimeInv, TimeTypes

LEMMA TimerKeeps ==
    ASSUME TimeInv, ArmAnimationTimer \/ PlayAgain
    PROVE  TimeInv'
  <1>1. \E s \in {[at |-> "arm"], [at |-> "replay"]} : At("play", s.at)
    BY DEF ArmAnimationTimer, PlayAgain, At
  <1>2. actor["play"].at # "emit"
    BY <1>1 DEF At
  <1>3. /\ UNCHANGED <<steps, selection, monitor, sweeps>>
        /\ Moves("play", Resting)
    BY DEF ArmAnimationTimer, PlayAgain
  <1>4. Resting \in StatesOf["play"] /\ Resting.at # "emit"
    BY DEF StatesOf, PlayStates, Resting, ThreadNames, PoolThreadNames
  <1>5. ActorTypes' /\ LockInv' /\ actor'["select"] = actor["select"]
    BY <1>2, <1>3, <1>4, ThreadMoves DEF TimeInv, TimeTypes
  <1>6. TaskTypes'
    <2>1. TaskTypes /\ selectTasks' \in Seq(SelectTasks)
      BY <1>3 DEF TimeInv, TimeTypes, TaskTypes, steps
    <2>2. CASE ArmAnimationTimer
      <3>1. animationTimer' \in BOOLEAN
        BY <2>2 DEF ArmAnimationTimer
      <3>2. animationState' \in {"Play", "Pause"} /\ playTasks' \in Seq({"sync", "handler"})
        BY <2>1, <2>2 DEF ArmAnimationTimer, TaskTypes
      <3> QED  BY <2>1, <3>1, <3>2, TasksTyped
    <2>3. CASE PlayAgain
      BY <2>1, <2>3, Posted, TasksTyped DEF PlayAgain
    <2> QED  BY <2>2, <2>3
  <1>7. SelectionTypes' /\ MonitorTypes' /\ CountInv'
    BY <1>3, <1>5, SelectionKept, MonitorKept, CountKept DEF TimeInv, TimeTypes
  <1> QED  BY <1>5, <1>6, <1>7 DEF TimeInv, TimeTypes

LEMMA TimerExpiresKeeps ==
    ASSUME TimeInv, AnimationTimerExpires
    PROVE  TimeInv'
  <1>1. UNCHANGED <<animationState, steps, selection, monitor, sweeps, actor>>
    BY DEF AnimationTimerExpires
  <1>2. TaskTypes'
    <2>1. playTasks' \in Seq({"sync", "handler"})
      BY DEF AnimationTimerExpires, TimeInv, TimeTypes, TaskTypes
    <2>2. animationTimer' \in BOOLEAN
      BY DEF AnimationTimerExpires
    <2> QED  BY <1>1, <2>1, <2>2, TasksTyped DEF TimeInv, TimeTypes, TaskTypes, steps
  <1>3. ActorTypes' /\ SelectionTypes' /\ MonitorTypes'
    BY <1>1, SelectionKept, MonitorKept DEF TimeInv, TimeTypes, ActorTypes
  <1>4. LockInv' /\ CountInv'
    BY <1>1, LockKept, CountKept DEF TimeInv
  <1> QED  BY <1>2, <1>3, <1>4 DEF TimeInv, TimeTypes

----------------------------------------------------------------------------
(* The lock: what is assigned under it is what is announced.                *)

(* A thread that is to assign or announce a time: where it goes from there. *)
LEMMA Announcing ==
    ASSUME NEW w \in ThreadNames, NEW s \in StatesOf[w], s.at \in {"assign", "emit"}
    PROVE  /\ s.time \in Minutes \cup {Live}
           /\ Selecting("emit", s.time, s.for, s.attempt) \in StatesOf[w]
           /\ [s EXCEPT !.at = "emit"] = Selecting("emit", s.time, s.for, s.attempt)
           /\ AfterSelection(s.time, s.for, s.attempt) \in StatesOf[w]
           /\ w # "gui" \/ s.for = "select"
           /\ w = "select" =>
                \/ /\ Stepping(s) /\ Stepping(Selecting("emit", s.time, s.for, s.attempt))
                   /\ Stepping(AfterSelection(s.time, s.for, s.attempt))
                \/ /\ ~Stepping(s) /\ ~Stepping(Selecting("emit", s.time, s.for, s.attempt))
                   /\ ~Stepping(AfterSelection(s.time, s.for, s.attempt))
  <1>1. CASE w = "play"
    <2>1. s \in PlayStates
      BY <1>1 DEF StatesOf
    <2>2. s.time \in Minutes /\ s = Selecting(s.at, s.time, "frame", 0)
      BY <2>1, PlayShapes
    <2>3. s.for = "frame" /\ s.attempt = 0
          /\ [s EXCEPT !.at = "emit"] = Selecting("emit", s.time, "frame", 0)
      BY <2>2 DEF Selecting
    <2>4. Selecting("emit", s.time, "frame", 0) \in PlayStates
      BY <2>2 DEF PlayStates
    <2> QED  BY <1>1, <2>2, <2>3, <2>4, SelectionStates DEF StatesOf
  <1>2. CASE w = "gui"
    <2>1. s \in GuiStates
      BY <1>2 DEF StatesOf
    <2>2. s = Selecting(s.at, Live, "select", 0)
      BY <2>1, GuiShapes
    <2>3. s.for = "select" /\ s.attempt = 0 /\ s.time = Live
          /\ [s EXCEPT !.at = "emit"] = Selecting("emit", Live, "select", 0)
      BY <2>2 DEF Selecting
    <2>4. Selecting("emit", Live, "select", 0) \in GuiStates /\ Resting \in GuiStates
      BY DEF GuiStates
    <2> QED  BY <1>2, <2>3, <2>4, SelectionStates DEF StatesOf
  <1>3. CASE w = "select"
    <2>1. s \in SelectStates
      BY <1>3 DEF StatesOf
    <2>2. PICK t \in Minutes \cup {Live} :
            \/ s = Selecting(s.at, t, "select", 0)
            \/ \E d \in Directions, k \in AttemptNumbers : s = Selecting(s.at, t, d, k)
      BY <2>1, SelectShapes
    <2>3. CASE s = Selecting(s.at, t, "select", 0)
      <3>1. s.for = "select" /\ s.attempt = 0 /\ s.time = t
            /\ [s EXCEPT !.at = "emit"] = Selecting("emit", t, "select", 0)
        BY <2>3 DEF Selecting
      <3>2. s \in PlainSelections /\ Selecting("emit", t, "select", 0) \in PlainSelections
        BY <2>3 DEF PlainSelections
      <3>3. AfterSelection(t, "select", 0) \in PlainSelections \cup {Resting}
        BY SelectionStates
      <3> QED  BY <1>3, <3>1, <3>2, <3>3, SteppingStates DEF StatesOf, SelectStates
    <2>4. ASSUME NEW d \in Directions, NEW k \in AttemptNumbers, s = Selecting(s.at, t, d, k)
          PROVE  /\ s.for = d /\ s.attempt = k /\ s.time = t
                 /\ [s EXCEPT !.at = "emit"] = Selecting("emit", t, d, k)
                 /\ s \in StepStates /\ Selecting("emit", t, d, k) \in StepStates
                 /\ AfterSelection(t, d, k) \in StepStates
      <3>1. /\ s.for = d /\ s.attempt = k /\ s.time = t
            /\ [s EXCEPT !.at = "emit"] = Selecting("emit", t, d, k)
        BY <2>4 DEF Selecting
      <3>2. s \in StepStates /\ Selecting("emit", t, d, k) \in StepStates
        BY <2>4 DEF StepStates
      <3> QED  BY <3>1, <3>2, SelectionStates
    <2> QED  BY <1>3, <2>2, <2>3, <2>4, SteppingStates DEF StatesOf, SelectStates
  <1> QED  BY <1>1, <1>2, <1>3 DEF ThreadNames, PoolThreadNames

LEMMA AssignKeeps ==
    ASSUME TimeInv, NEW w \in ThreadNames, AssignSelected(w)
    PROVE  TimeInv'
  <1>1. PICK s : s = Selecting("emit", actor[w].time, actor[w].for, actor[w].attempt)
    OBVIOUS
  <1>2. actor[w] \in StatesOf[w] /\ actor[w].at \in {"assign", "emit"}
    BY DEF TimeInv, TimeTypes, ActorTypes, AssignSelected, At
  <1>3. /\ actor[w].time \in Minutes \cup {Live} /\ s \in StatesOf[w]
        /\ [actor[w] EXCEPT !.at = "emit"] = s
        /\ w = "select" => \/ Stepping(actor[w]) /\ Stepping(s)
                           \/ ~Stepping(actor[w]) /\ ~Stepping(s)
    BY <1>1, <1>2, Announcing
  <1>4. Moves(w, s)
    BY <1>3 DEF AssignSelected, MovesTo, Moves, TimeInv, TimeTypes, ActorTypes
  <1>5. ActorTypes' /\ actor'[w] = s /\ \A v \in ThreadNames \ {w} : actor'[v] = actor[v]
    BY <1>3, <1>4, OneMoves, MovesWithin DEF TimeInv, TimeTypes
  <1>6. /\ UNCHANGED <<animation, steps, shownTime, monitor, sweeps>>
        /\ selectOwner = Nobody /\ selectOwner' = w /\ selectedTime' = actor[w].time
    BY DEF AssignSelected
  <1>7. LockInv'
    <2>1. s.at = "emit" /\ s.time = actor[w].time
      BY <1>1 DEF Selecting
    <2>2. \A v \in ThreadNames : v # Nobody
      BY DEF ThreadNames, PoolThreadNames, Nobody
    <2>3. \A v \in ThreadNames \ {w} : actor'[v].at # "emit"
      BY <1>5, <1>6, <2>2 DEF TimeInv, LockInv, At
    <2> QED  BY <1>5, <1>6, <2>1, <2>2, <2>3 DEF LockInv, At, MapsFollowTimeline
  <1>8. SelectionTypes'
    BY <1>3, <1>6 DEF SelectionTypes, TimeInv, TimeTypes
  <1>9. MonitorTypes' /\ TaskTypes'
    BY <1>6, MonitorKept, TasksKept DEF TimeInv, TimeTypes, steps
  <1>10. CountInv'
    BY <1>3, <1>5, <1>6, CountKept DEF TimeInv, ThreadNames, PoolThreadNames
  <1> QED  BY <1>5, <1>7, <1>8, <1>9, <1>10 DEF TimeInv, TimeTypes

LEMMA EmitKeeps ==
    ASSUME TimeInv, NEW w \in ThreadNames, EmitSelected(w)
    PROVE  TimeInv'
  <1>1. PICK s : s = AfterSelection(actor[w].time, actor[w].for, actor[w].attempt)
    OBVIOUS
  <1>2. actor[w] \in StatesOf[w] /\ actor[w].at = "emit"
    BY DEF TimeInv, TimeTypes, ActorTypes, EmitSelected, At
  <1>3. /\ actor[w].time \in Minutes \cup {Live} /\ s \in StatesOf[w]
        /\ w # "gui" \/ actor[w].for = "select"
        /\ w = "select" => \/ Stepping(actor[w]) /\ Stepping(s)
                           \/ ~Stepping(actor[w]) /\ ~Stepping(s)
    BY <1>1, <1>2, Announcing
  <1>4. Moves(w, s) /\ monitorOwner' \in {monitorOwner, Nobody}
    BY <1>1, SelectionEnds DEF EmitSelected
  <1>5. ActorTypes' /\ actor'[w] = s /\ \A v \in ThreadNames \ {w} : actor'[v] = actor[v]
    BY <1>3, <1>4, OneMoves, MovesWithin DEF TimeInv, TimeTypes
  <1>6. /\ UNCHANGED <<animation, steps, selectedTime, monitorActive, sweepsUpdated,
                       sweepsComplete>>
        /\ selectOwner' = Nobody /\ shownTime' = actor[w].time
    BY DEF EmitSelected
  <1>7. /\ selectOwner = w /\ actor[w].time = selectedTime
        /\ \A v \in ThreadNames \ {w} : actor[v].at # "emit"
    BY <1>2 DEF TimeInv, LockInv, At
  <1>8. LockInv'
    <2>1. s.at # "emit"
      BY <1>1, NoneAnnounces
    <2>2. \A v \in ThreadNames : v # Nobody
      BY DEF ThreadNames, PoolThreadNames, Nobody
    <2>3. \A v \in ThreadNames : actor'[v].at # "emit"
      BY <1>5, <1>7, <2>1
    <2> QED  BY <1>6, <1>7, <2>2, <2>3 DEF LockInv, At, MapsFollowTimeline
  <1>9. SelectionTypes'
    BY <1>3, <1>6 DEF SelectionTypes, TimeInv, TimeTypes
  <1>10. MonitorTypes'
    <2>1. sweeps' \in [Maps -> 0 .. MaxTasks]
      <3>1. \A m \in Maps : sweeps[m] \in 0 .. MaxTasks
        BY DEF TimeInv, TimeTypes, MonitorTypes
      <3> QED  BY <3>1, TimelineAssumption DEF EmitSelected
    <2> QED  BY <1>4, <1>6, <2>1 DEF MonitorTypes, TimeInv, TimeTypes
  <1>11. TaskTypes'
    BY <1>6, TasksKept DEF TimeInv, TimeTypes, steps
  <1>12. CountInv'
    BY <1>3, <1>5, <1>6, CountKept DEF TimeInv, ThreadNames, PoolThreadNames
  <1> QED  BY <1>5, <1>8, <1>9, <1>10, <1>11, <1>12 DEF TimeInv, TimeTypes

(* A selection that throws: the thread drops it, and a step stays a step.   *)
LEMMA ThrownStates ==
    ASSUME NEW w \in ThreadNames, NEW s \in StatesOf[w], s.at = "assign", s.time # Live
    PROVE  /\ Thrown(s.for) \in StatesOf[w] /\ Thrown(s.for).at # "emit"
           /\ w \in PoolThreadNames
           /\ w = "select" =>
                \/ Stepping(s) /\ Stepping(Thrown(s.for))
                \/ ~Stepping(s) /\ ~Stepping(Thrown(s.for))
  <1>1. \A for : Thrown(for).at # "emit"
    BY DEF Thrown, Resting
  <1>2. CASE w = "play"
    <2>1. s \in PlayStates
      BY <1>2 DEF StatesOf
    <2>2. s = Selecting("assign", s.time, "frame", 0)
      BY <2>1, PlayShapes
    <2>3. s.for = "frame" /\ Thrown("frame") \in PlayStates
      BY <2>2 DEF Selecting, PlayStates
    <2> QED  BY <1>1, <1>2, <2>3 DEF StatesOf, PoolThreadNames
  <1>3. CASE w = "gui"
    <2>1. s \in GuiStates
      BY <1>3 DEF StatesOf
    <2>2. s = Selecting("assign", Live, "select", 0)
      BY <2>1, GuiShapes
    <2> QED  BY <2>2 DEF Selecting
  <1>4. CASE w = "select"
    <2>1. s \in SelectStates
      BY <1>4 DEF StatesOf
    <2>2. PICK t \in Minutes \cup {Live} :
            \/ s = Selecting("assign", t, "select", 0)
            \/ \E d \in Directions, k \in AttemptNumbers : s = Selecting("assign", t, d, k)
      BY <2>1, SelectShapes
    <2>3. CASE s = Selecting("assign", t, "select", 0)
      <3>1. s.for = "select" /\ s \in PlainSelections
        BY <2>3 DEF Selecting, PlainSelections
      <3>2. Thrown("select") = Resting
        BY DEF Thrown
      <3> QED
        BY <1>1, <1>4, <3>1, <3>2, SteppingStates DEF StatesOf, SelectStates, PoolThreadNames
    <2>4. ASSUME NEW d \in Directions, NEW k \in AttemptNumbers,
                 s = Selecting("assign", t, d, k)
          PROVE  s.for = d /\ s \in StepStates /\ Thrown(d) \in StepStates
      <3>1. s.for = d
        BY <2>4 DEF Selecting
      <3> QED  BY <2>4, <3>1 DEF StepStates
    <2> QED
      BY <1>1, <1>4, <2>2, <2>3, <2>4, SteppingStates DEF StatesOf, SelectStates, PoolThreadNames
  <1> QED  BY <1>2, <1>3, <1>4 DEF ThreadNames, PoolThreadNames

LEMMA ThrowsKeeps ==
    ASSUME TimeInv, NEW w \in ThreadNames, SelectTimeThrows(w)
    PROVE  TimeInv'
  <1>1. PICK s : s = Thrown(actor[w].for)
    OBVIOUS
  <1>2. actor[w] \in StatesOf[w] /\ actor[w].at = "assign" /\ actor[w].time # Live
    BY DEF TimeInv, TimeTypes, ActorTypes, SelectTimeThrows, At
  <1>3. /\ s \in StatesOf[w] /\ s.at # "emit"
        /\ w = "select" => \/ Stepping(actor[w]) /\ Stepping(s)
                           \/ ~Stepping(actor[w]) /\ ~Stepping(s)
    BY <1>1, <1>2, ThrownStates
  <1>4. Moves(w, s) /\ monitorOwner' \in {monitorOwner, Nobody}
    BY <1>1 DEF SelectTimeThrows
  <1>5. ActorTypes' /\ actor'[w] = s /\ \A v \in ThreadNames \ {w} : actor'[v] = actor[v]
    BY <1>3, <1>4, OneMoves, MovesWithin DEF TimeInv, TimeTypes
  <1>6. UNCHANGED <<animation, steps, selection, monitorActive, sweepsUpdated,
                    sweepsComplete, sweeps>>
    BY DEF SelectTimeThrows
  <1>7. LockInv'
    <2>1. \A v \in ThreadNames :
            actor'[v] = actor[v] \/ (actor[v].at # "emit" /\ actor'[v].at # "emit")
      BY <1>2, <1>3, <1>5
    <2> QED  BY <1>6, <2>1, LockKept DEF TimeInv
  <1>8. MonitorTypes'
    BY <1>4, <1>6 DEF MonitorTypes, TimeInv, TimeTypes
  <1>9. SelectionTypes' /\ TaskTypes'
    BY <1>6, SelectionKept, TasksKept DEF TimeInv, TimeTypes, steps
  <1>10. CountInv'
    BY <1>3, <1>5, <1>6, CountKept DEF TimeInv, ThreadNames, PoolThreadNames
  <1> QED  BY <1>5, <1>7, <1>8, <1>9, <1>10 DEF TimeInv, TimeTypes

----------------------------------------------------------------------------
(* The select thread.                                                       *)

LEMMA TaskTaken ==
    ASSUME TaskTypes, selectTasks # <<>>, selectTasks' = Tail(selectTasks), UNCHANGED animation
    PROVE  TaskTypes'
  <1>1. selectTasks' \in Seq(SelectTasks)
    BY DEF TaskTypes
  <1> QED  BY <1>1, TasksTyped DEF TaskTypes, animation

LEMMA HeadTask ==
    ASSUME TaskTypes, selectTasks # <<>>
    PROVE  IF Head(selectTasks).step
           THEN Head(selectTasks).direction \in Directions
           ELSE Head(selectTasks).time \in Minutes \cup {Live}
  <1>1. Head(selectTasks) \in SelectTasks
    BY DEF TaskTypes
  <1> QED  BY <1>1 DEF SelectTasks, StepTask, SelectTask

LEMMA BeginSelectTaskKeeps ==
    ASSUME TimeInv, BeginSelectTask
    PROVE  TimeInv'
  <1>1. /\ selectTasks # <<>> /\ ~Head(selectTasks).step /\ selectTasks' = Tail(selectTasks)
        /\ UNCHANGED <<animation, stepCounter, selection, monitorActive, sweepsUpdated,
                       sweepsComplete, sweeps>>
        /\ actor["select"].at = "idle"
    BY DEF BeginSelectTask, At
  <1>2. Head(selectTasks).time \in Minutes \cup {Live}
    BY <1>1, HeadTask DEF TimeInv, TimeTypes
  <1>3. /\ ActorTypes' /\ monitorOwner' = monitorOwner
        /\ actor'["select"].at # "emit" /\ ~Stepping(actor'["select"])
        /\ actor'["gui"] = actor["gui"] /\ actor'["play"] = actor["play"]
    BY <1>2, SelectSelects DEF BeginSelectTask, TimeInv, TimeTypes
  <1>4. LockInv'
    BY <1>1, <1>3, LockKept DEF TimeInv, ThreadNames, PoolThreadNames
  <1>5. CountInv'
    <2>1. actor["select"] = Resting
      BY <1>1, SelectShapes
      DEF TimeInv, TimeTypes, ActorTypes, StatesOf, ThreadNames, PoolThreadNames
    <2>2. /\ OneIf(Stepping(actor["select"])) = 0 /\ OneIf(Stepping(actor["select"]))' = 0
          /\ OneIf(Head(selectTasks).step) = 0
      BY <1>1, <1>3, <2>1, SteppingStates DEF OneIf
    <2>3. Cardinality(StepsIn(selectTasks)) = Cardinality(StepsIn(Tail(selectTasks))) + 0
      BY <1>1, <2>2, StepsTaken DEF TimeInv, TimeTypes, TaskTypes
    <2>4. Cardinality(StepsIn(Tail(selectTasks))) \in Nat
      <3>1. Tail(selectTasks) \in Seq(SelectTasks)
        BY <1>1 DEF TimeInv, TimeTypes, TaskTypes
      <3> QED  BY <3>1, StepsFinite
    <2> QED  BY <1>1, <2>2, <2>3, <2>4 DEF CountInv, TimeInv
  <1>6. SelectionTypes' /\ MonitorTypes' /\ TaskTypes'
    BY <1>1, <1>3, SelectionKept, MonitorKept, TaskTaken DEF TimeInv, TimeTypes, monitor
  <1> QED  BY <1>3, <1>4, <1>5, <1>6 DEF TimeInv, TimeTypes

LEMMA BeginStepKeeps ==
    ASSUME TimeInv, BeginStep
    PROVE  TimeInv'
  <1>1. /\ selectTasks # <<>> /\ Head(selectTasks).step /\ selectTasks' = Tail(selectTasks)
        /\ UNCHANGED <<animation, stepCounter, selection, monitor, sweeps>>
        /\ actor["select"].at = "idle"
    BY DEF BeginStep, At
  <1>2. PICK d \in Directions : d = Head(selectTasks).direction
    BY <1>1, HeadTask DEF TimeInv, TimeTypes
  <1>3. PICK s \in StepStates : Moves("select", s) /\ s.at # "emit"
    <2>1. CASE selectedTime = Live /\ d = "Next"
      <3>1. Moves("select", Finished(d, TRUE, FALSE))
        BY <1>2, <2>1 DEF BeginStep
      <3>2. Finished(d, TRUE, FALSE).at # "emit"
        BY DEF Finished
      <3> QED  BY <3>1, <3>2, FinishedStates
    <2>2. CASE ~(selectedTime = Live /\ d = "Next")
      <3>1. Moves("select", Selecting("monitor", Neighbour(selectedTime, d), d, 1))
        BY <1>2, <2>2 DEF BeginStep
      <3>2. Neighbour(selectedTime, d) \in Minutes \cup {LoopEnd + 1}
        BY <2>2, TimelineAssumption
        DEF Neighbour, TimeInv, TimeTypes, SelectionTypes, Minutes, Live, Directions
      <3>3. 1 \in AttemptNumbers
        BY TimelineAssumption DEF AttemptNumbers
      <3>4. Selecting("monitor", Neighbour(selectedTime, d), d, 1) \in StepStates
        BY <3>2, <3>3 DEF StepStates
      <3>5. Selecting("monitor", Neighbour(selectedTime, d), d, 1).at # "emit"
        BY DEF Selecting
      <3> QED  BY <3>1, <3>4, <3>5
    <2> QED  BY <2>1, <2>2
  <1>4. GoesOnStepping
    <2>1. monitorOwner' = monitorOwner
      BY <1>1 DEF monitor
    <2> QED  BY <1>3, <2>1, StepMoves DEF TimeInv, TimeTypes
  <1>5. LockInv'
    BY <1>1, <1>4, LockKept DEF GoesOnStepping, TimeInv, ThreadNames, PoolThreadNames
  <1>6. CountInv'
    <2>1. actor["select"] = Resting
      BY <1>1, SelectShapes
      DEF TimeInv, TimeTypes, ActorTypes, StatesOf, ThreadNames, PoolThreadNames
    <2>2. /\ OneIf(Stepping(actor["select"])) = 0 /\ OneIf(Stepping(actor["select"]))' = 1
          /\ OneIf(Head(selectTasks).step) = 1
      BY <1>1, <1>4, <2>1, SteppingStates DEF OneIf, GoesOnStepping
    <2>3. Cardinality(StepsIn(selectTasks)) = Cardinality(StepsIn(Tail(selectTasks))) + 1
      BY <1>1, <2>2, StepsTaken DEF TimeInv, TimeTypes, TaskTypes
    <2>4. Cardinality(StepsIn(Tail(selectTasks))) \in Nat
      <3>1. Tail(selectTasks) \in Seq(SelectTasks)
        BY <1>1 DEF TimeInv, TimeTypes, TaskTypes
      <3> QED  BY <3>1, StepsFinite
    <2> QED  BY <1>1, <2>2, <2>3, <2>4 DEF CountInv, TimeInv
  <1>7. SelectionTypes' /\ MonitorTypes' /\ TaskTypes'
    BY <1>1, SelectionKept, MonitorKept, TaskTaken DEF TimeInv, TimeTypes
  <1> QED  BY <1>4, <1>5, <1>6, <1>7 DEF GoesOnStepping, TimeInv, TimeTypes

(* A step under way goes on, by itself or by leaving its loop.              *)
LEMMA SteppingKeeps ==
    ASSUME TimeInv, GoesOnStepping, Stepping(actor["select"]), ~At("select", "emit"),
           UNCHANGED <<animation, steps, selection, sweeps>>,
           monitorActive' \in BOOLEAN, sweepsUpdated' \subseteq Maps, sweepsComplete' \subseteq Maps
    PROVE  TimeInv'
  <1>1. LockInv'
    BY LockKept DEF GoesOnStepping, TimeInv, At, ThreadNames, PoolThreadNames
  <1>2. CountInv'
    BY CountKept DEF GoesOnStepping, TimeInv
  <1>3. MonitorTypes'
    BY DEF GoesOnStepping, TimeInv, TimeTypes, MonitorTypes, PoolThreadNames
  <1>4. SelectionTypes' /\ TaskTypes'
    BY SelectionKept, TasksKept DEF TimeInv, TimeTypes, steps
  <1> QED  BY <1>1, <1>2, <1>3, <1>4 DEF GoesOnStepping, TimeInv, TimeTypes

LEMMA TriesMinute ==
    ASSUME TimeTypes, NEW t \in Minutes \cup {LoopEnd + 1}, NEW d \in Directions,
           NEW k \in AttemptNumbers, TryMinute(t, d, k)
    PROVE  /\ GoesOnStepping
           /\ monitorActive' \in BOOLEAN
           /\ sweepsUpdated' \subseteq Maps /\ sweepsComplete' \subseteq Maps
  <1>1. CASE t > LoopEnd
    <2>1. LeaveLoop(d) /\ monitorActive' = FALSE /\ UNCHANGED <<sweepsUpdated, sweepsComplete>>
      BY <1>1 DEF TryMinute
    <2> QED  BY <2>1, StepLeavesLoop DEF TimeTypes, MonitorTypes
  <1>2. CASE ~(t > LoopEnd)
    <2>1. ResetMonitor /\ SelectTime("select", t, d, k)
      BY <1>2 DEF TryMinute
    <2>2. t \in Minutes
      BY <1>2, TimelineAssumption DEF Minutes
    <2> QED  BY <2>1, <2>2, StepSelects DEF TimeTypes, ResetMonitor
  <1> QED  BY <1>1, <1>2

LEMMA LockForStepKeeps ==
    ASSUME TimeInv, LockForStep
    PROVE  TimeInv'
  <1>1. /\ UNCHANGED <<animation, steps, selection, sweeps>>
        /\ actor["select"].at = "monitor" /\ actor["select"] \in SelectStates
    BY DEF LockForStep, At, TimeInv, TimeTypes, ActorTypes, StatesOf, ThreadNames, PoolThreadNames
  <1>2. PICK t \in Minutes \cup {LoopEnd + 1}, d \in Directions, k \in AttemptNumbers :
          actor["select"] = Selecting("monitor", t, d, k)
    BY <1>1, SelectShapes
  <1>3. actor["select"].time = t /\ actor["select"].for = d /\ actor["select"].attempt = k
    BY <1>2 DEF Selecting
  <1>4. Stepping(actor["select"])
    BY <1>2, SteppingStates DEF StepStates
  <1>5. /\ GoesOnStepping
        /\ monitorActive' \in BOOLEAN
        /\ sweepsUpdated' \subseteq Maps /\ sweepsComplete' \subseteq Maps
    <2>1. CASE t > LoopEnd
      <3>1. LeaveLoop(d) /\ UNCHANGED <<monitorActive, sweepsUpdated, sweepsComplete>>
        BY <1>3, <2>1 DEF LockForStep
      <3> QED  BY <3>1, StepLeavesLoop DEF TimeInv, TimeTypes, MonitorTypes
    <2>2. CASE ~(t > LoopEnd)
      <3>1. TryMinute(t, d, k)
        BY <1>3, <2>2 DEF LockForStep
      <3> QED  BY <3>1, TriesMinute DEF TimeInv
    <2> QED  BY <2>1, <2>2
  <1> QED  BY <1>1, <1>4, <1>5, SteppingKeeps DEF At

LEMMA EndStepWaitKeeps ==
    ASSUME TimeInv, EndStepWait
    PROVE  TimeInv'
  <1>1. /\ UNCHANGED <<animation, steps, selection, sweeps>>
        /\ actor["select"].at = "wait" /\ actor["select"] \in SelectStates
    BY DEF EndStepWait, At, TimeInv, TimeTypes, ActorTypes, StatesOf, ThreadNames, PoolThreadNames
  <1>2. PICK t \in Minutes, d \in Directions, k \in AttemptNumbers :
          actor["select"] = Selecting("wait", t, d, k)
    BY <1>1, SelectShapes
  <1>3. actor["select"].time = t /\ actor["select"].for = d /\ actor["select"].attempt = k
    BY <1>2 DEF Selecting
  <1>4. Stepping(actor["select"])
    BY <1>2, SteppingStates DEF StepStates
  <1>5. /\ GoesOnStepping
        /\ monitorActive' \in BOOLEAN
        /\ sweepsUpdated' \subseteq Maps /\ sweepsComplete' \subseteq Maps
    <2>1. CASE sweepsUpdated # {}
      <3>1. /\ Moves("select", Finished(d, FALSE, TRUE)) /\ monitorActive' = FALSE
            /\ UNCHANGED <<monitorOwner, sweepsUpdated, sweepsComplete>>
        BY <1>3, <2>1 DEF EndStepWait
      <3>2. Finished(d, FALSE, TRUE) \in StepStates /\ Finished(d, FALSE, TRUE).at # "emit"
        BY FinishedStates DEF Finished
      <3> QED  BY <3>1, <3>2, StepMoves DEF TimeInv, TimeTypes, MonitorTypes
    <2>2. CASE sweepsUpdated = {} /\ k < MaxAttempts
      <3>1. TryMinute(Neighbour(t, d), d, k + 1)
        BY <1>3, <2>2 DEF EndStepWait
      <3>2. Neighbour(t, d) \in Minutes \cup {LoopEnd + 1}
        BY TimelineAssumption DEF Neighbour, Minutes, Live, Directions
      <3>3. k + 1 \in AttemptNumbers
        BY <2>2, TimelineAssumption DEF AttemptNumbers
      <3> QED  BY <3>1, <3>2, <3>3, TriesMinute DEF TimeInv
    <2>3. CASE sweepsUpdated = {} /\ ~(k < MaxAttempts)
      <3>1. LeaveLoop(d) /\ monitorActive' = FALSE /\ UNCHANGED <<sweepsUpdated, sweepsComplete>>
        BY <1>3, <2>3 DEF EndStepWait
      <3> QED  BY <3>1, StepLeavesLoop DEF TimeInv, TimeTypes, MonitorTypes
    <2> QED  BY <2>1, <2>2, <2>3
  <1> QED  BY <1>1, <1>4, <1>5, SteppingKeeps DEF At

LEMMA FinishStepKeeps ==
    ASSUME TimeInv, FinishStep
    PROVE  TimeInv'
  <1>1. /\ UNCHANGED <<animation, selectTasks, selection, monitor, sweeps>>
        /\ stepCounter' = stepCounter - 1 /\ Moves("select", Resting)
        /\ actor["select"].at \in {"finish", "threw"} /\ actor["select"] \in SelectStates
    BY DEF FinishStep, At, TimeInv, TimeTypes, ActorTypes, StatesOf, ThreadNames, PoolThreadNames
  <1>2. Resting \in StatesOf["select"] /\ Resting.at # "emit" /\ "select" \in ThreadNames
    BY DEF StatesOf, SelectStates, Resting, ThreadNames, PoolThreadNames
  <1>3. ActorTypes' /\ actor'["select"] = Resting
        /\ \A v \in ThreadNames \ {"select"} : actor'[v] = actor[v]
    BY <1>1, <1>2, OneMoves, MovesWithin DEF TimeInv, TimeTypes
  <1>4. LockInv'
    BY <1>1, <1>2, <1>3, LockKept DEF TimeInv
  <1>5. CountInv'
    <2>1. Stepping(actor["select"]) /\ ~Stepping(actor'["select"])
      BY <1>1, <1>3, SelectShapes, SteppingStates
    <2>2. OneIf(Stepping(actor["select"])) = 1 /\ OneIf(Stepping(actor["select"]))' = 0
      BY <2>1 DEF OneIf
    <2>3. Cardinality(StepsIn(selectTasks)) \in Nat
      BY StepsFinite DEF TimeInv, TimeTypes, TaskTypes
    <2> QED  BY <1>1, <2>2, <2>3, TimelineAssumption DEF CountInv, TimeInv
  <1>6. SelectionTypes' /\ MonitorTypes' /\ TaskTypes'
    BY <1>1, SelectionKept, MonitorKept, TasksKept DEF TimeInv, TimeTypes
  <1> QED  BY <1>3, <1>4, <1>5, <1>6 DEF TimeInv, TimeTypes

----------------------------------------------------------------------------
(* The maps' signals.                                                       *)

LEMMA SlotKeeps ==
    ASSUME TimeInv, NEW m \in Maps, SweepComputed(m) \/ SweepIgnored(m) \/ WidgetPainted(m)
    PROVE  TimeInv'
  <1>1. /\ UNCHANGED <<animation, steps, selection, monitor>>
        /\ actor["gui"].at = "idle"
        /\ UNCHANGED actor
           \/ \E at \in {"updated", "notUpdated", "painted"} : Moves("gui", [at |-> at, map |-> m])
    BY DEF SweepComputed, SweepIgnored, WidgetPainted, Slot, At
  <1>2. sweeps' \in [Maps -> 0 .. MaxTasks]
    BY TimelineAssumption
    DEF SweepComputed, SweepIgnored, WidgetPainted, TimeInv, TimeTypes, MonitorTypes
  <1>3. ActorTypes' /\ LockInv' /\ actor'["select"] = actor["select"]
    <2>1. CASE UNCHANGED actor
      BY <1>1, <2>1, LockKept DEF TimeInv, TimeTypes, ActorTypes
    <2>2. ASSUME NEW at \in {"updated", "notUpdated", "painted"},
                 Moves("gui", [at |-> at, map |-> m])
          PROVE  ActorTypes' /\ LockInv' /\ actor'["select"] = actor["select"]
      <3>1. [at |-> at, map |-> m] \in StatesOf["gui"] /\ [at |-> at, map |-> m].at # "emit"
        BY DEF StatesOf, GuiStates, ThreadNames, PoolThreadNames
      <3> QED  BY <1>1, <2>2, <3>1, ThreadMoves DEF TimeInv, TimeTypes
    <2> QED  BY <1>1, <2>1, <2>2
  <1>4. MonitorTypes'
    BY <1>1, <1>2 DEF MonitorTypes, monitor, TimeInv, TimeTypes
  <1>5. SelectionTypes' /\ TaskTypes' /\ CountInv'
    BY <1>1, <1>3, SelectionKept, TasksKept, CountKept DEF TimeInv, TimeTypes, steps
  <1> QED  BY <1>3, <1>4, <1>5 DEF TimeInv, TimeTypes

LEMMA ReceiveRadarSweepKeeps ==
    ASSUME TimeInv, ReceiveRadarSweep
    PROVE  TimeInv'
  <1>1. /\ UNCHANGED <<animation, steps, selection, monitorOwner, sweeps>>
        /\ actor["gui"].at \in {"updated", "notUpdated", "painted"} /\ Moves("gui", Resting)
    BY DEF ReceiveRadarSweep
  <1>2. ActorTypes' /\ LockInv' /\ actor'["select"] = actor["select"]
    <2>1. Resting \in StatesOf["gui"] /\ Resting.at # "emit"
      BY DEF StatesOf, GuiStates, Resting, ThreadNames, PoolThreadNames
    <2> QED  BY <1>1, <2>1, ThreadMoves DEF TimeInv, TimeTypes
  <1>3. PICK m \in Maps : m = actor["gui"].map
    <2>1. actor["gui"] \in GuiStates
      BY DEF TimeInv, TimeTypes, ActorTypes, StatesOf, ThreadNames, PoolThreadNames
    <2> QED  BY <1>1, <2>1, GuiShapes
  <1>4. MonitorTypes'
    <2>1. CASE At("gui", "updated")
      <3>1. sweepsUpdated' = sweepsUpdated \cup {m} /\ UNCHANGED <<sweepsComplete, monitorActive>>
        BY <1>1, <1>3, <2>1 DEF ReceiveRadarSweep, At
      <3> QED  BY <1>1, <3>1 DEF MonitorTypes, TimeInv, TimeTypes
    <2>2. CASE \/ At("gui", "notUpdated")
               \/ At("gui", "painted") /\ m \in sweepsUpdated \ sweepsComplete
      <3>1. Complete(m) /\ UNCHANGED sweepsUpdated
        BY <1>1, <1>3, <2>2 DEF ReceiveRadarSweep, At
      <3>2. monitorActive' \in BOOLEAN
        BY <3>1 DEF Complete
      <3> QED  BY <1>1, <3>1, <3>2 DEF Complete, MonitorTypes, TimeInv, TimeTypes
    <2>3. CASE At("gui", "painted") /\ ~(m \in sweepsUpdated \ sweepsComplete)
      <3>1. UNCHANGED <<sweepsUpdated, sweepsComplete, monitorActive>>
        BY <1>3, <2>3 DEF ReceiveRadarSweep, At
      <3> QED  BY <1>1, <3>1 DEF MonitorTypes, TimeInv, TimeTypes
    <2> QED  BY <1>1, <2>1, <2>2, <2>3 DEF At
  <1>5. SelectionTypes' /\ TaskTypes' /\ CountInv'
    BY <1>1, <1>2, SelectionKept, TasksKept, CountKept DEF TimeInv, TimeTypes, steps
  <1> QED  BY <1>2, <1>4, <1>5 DEF TimeInv, TimeTypes

----------------------------------------------------------------------------
(* The invariant.                                                           *)

LEMMA TimeInvInit == TimelineInit => TimeInv
  <1> SUFFICES ASSUME TimelineInit PROVE TimeInv
    OBVIOUS
  <1>1. ActorTypes
    BY DEF TimelineInit, ActorTypes, StatesOf, PlayStates, SelectStates, GuiStates, ThreadNames
  <1>2. SelectionTypes /\ animationState \in {"Play", "Pause"}
        /\ playTasks \in Seq({"sync", "handler"}) /\ selectTasks \in Seq(SelectTasks)
    BY DEF TimelineInit, SelectionTypes
  <1>3. animationTimer \in BOOLEAN /\ monitorActive \in BOOLEAN
    BY DEF TimelineInit
  <1>4. TaskTypes
    BY <1>2, <1>3, Zenon DEF TaskTypes
  <1>5. MonitorTypes
    BY <1>3, TimelineAssumption DEF TimelineInit, MonitorTypes
  <1>6. LockInv
    BY DEF TimelineInit, LockInv, At, Resting, MapsFollowTimeline, ThreadNames,
           PoolThreadNames, Nobody
  <1>7. CountInv
    <2>1. StepsIn(selectTasks) = {}
      BY DEF TimelineInit, StepsIn
    <2>2. OneIf(Stepping(actor["select"])) = 0
      BY SteppingStates DEF TimelineInit, OneIf, PoolThreadNames
    <2> QED  BY <2>1, <2>2, FS_EmptySet, TimelineAssumption DEF TimelineInit, CountInv
  <1> QED  BY <1>1, <1>2, <1>4, <1>5, <1>6, <1>7 DEF TimeInv, TimeTypes

LEMMA TimeInvStep == TimeInv /\ [TimelineNext]_timelineVars => TimeInv'
  <1> SUFFICES ASSUME TimeInv, [TimelineNext]_timelineVars PROVE TimeInv'
    OBVIOUS
  <1>1. CASE UserStep
    BY <1>1, AnimationKeeps, SetViewTypeLiveKeeps, StepAsyncKeeps, StepToEndKeeps DEF UserStep
  <1>2. CASE PlayThread
    BY <1>2, FrameBeginsKeeps, LockForFrameKeeps, EndFrameKeeps, TimerKeeps, AssignKeeps,
       ThrowsKeeps, EmitKeeps DEF PlayThread, SelectStep, ThreadNames, PoolThreadNames
  <1>3. CASE SelectThread
    BY <1>3, BeginSelectTaskKeeps, BeginStepKeeps, LockForStepKeeps, EndStepWaitKeeps,
       FinishStepKeeps, AssignKeeps, ThrowsKeeps, EmitKeeps
    DEF SelectThread, SelectStep, ThreadNames, PoolThreadNames
  <1>4. CASE GuiThread
    BY <1>4, ReceiveRadarSweepKeeps, AssignKeeps, ThrowsKeeps, EmitKeeps
    DEF GuiThread, SelectStep, ThreadNames
  <1>5. CASE AnimationTimerExpires
    BY <1>5, TimerExpiresKeeps
  <1>6. CASE \E m \in Maps : SweepComputed(m) \/ SweepIgnored(m) \/ WidgetPainted(m)
    BY <1>6, SlotKeeps
  <1>7. CASE UNCHANGED timelineVars
    <2>1. UNCHANGED <<animation, steps, selection, monitor, sweeps, actor>>
      BY <1>7 DEF timelineVars, animation, steps, selection, monitor
    <2>2. ActorTypes' /\ SelectionTypes' /\ MonitorTypes' /\ TaskTypes'
      BY <2>1, SelectionKept, MonitorKept, TasksKept DEF TimeInv, TimeTypes, ActorTypes, steps
    <2> QED  BY <2>1, <2>2, LockKept, CountKept DEF TimeInv, TimeTypes
  <1> QED  BY <1>1, <1>2, <1>3, <1>4, <1>5, <1>6, <1>7 DEF TimelineNext

LEMMA TimeInvHolds == TimelineSpec => []TimeInv
  BY TimeInvInit, TimeInvStep, PTL DEF TimelineSpec

(* Whoever selects times -- the frames of an animation, steps, the user --   *)
(* the maps have been told what is selected as soon as selectTimeMutex_ is   *)
(* free, for every number of maps and every loop.                           *)
THEOREM MapsFollow == TimelineSpec => []MapsFollowTimeline
  <1>1. TimeInv => MapsFollowTimeline
    BY DEF TimeInv, LockInv
  <1> QED  BY <1>1, TimeInvHolds, PTL

(* stepCounter_ is the number of steps queued and under way, however many    *)
(* may be queued, however many minutes a step tries and whichever throw.    *)
THEOREM StepsCounted == TimelineSpec => []StepCounterExact
  <1>1. TimeInv => StepCounterExact
    <2> SUFFICES ASSUME TimeInv PROVE StepCounterExact
      OBVIOUS
    <2> QED  BY DEF TimeInv, CountInv, StepCounterExact, StepsIn, OneIf, Stepping
  <1> QED  BY <1>1, TimeInvHolds, PTL

(* The types of the parts of the invariant are those of the variables.      *)
LEMMA TimeInvTypes == TimeInv => TimelineTypeOK
  <1> SUFFICES ASSUME TimeInv PROVE TimelineTypeOK
    OBVIOUS
  <1>1. /\ PlayStates \subseteq ActorStates
        /\ GuiStates \subseteq ActorStates
    BY TimelineAssumption
    DEF PlayStates, GuiStates, ActorStates, Selecting, Thrown, Resting, Purposes, Minutes, Live
  <1>2. SelectStates \subseteq ActorStates
    BY TimelineAssumption
    DEF SelectStates, PlainSelections, StepStates, ActorStates, Selecting, Finished, Thrown,
        Resting, Purposes, Directions, Minutes, Live, AttemptNumbers
  <1>3. actor \in [PoolThreadNames \cup {"gui"} -> ActorStates]
    BY <1>1, <1>2 DEF TimeInv, TimeTypes, ActorTypes, ThreadNames
  <1> QED
    BY <1>3, Zenon DEF TimelineTypeOK, TimeInv, TimeTypes, TaskTypes, SelectionTypes,
       MonitorTypes, CountInv, ThreadNames

(* The variables of the timeline keep their types; a step never tries a      *)
(* minute past the loop's end, and a frame never leaves the loop.           *)
THEOREM TimelineTypes == TimelineSpec => []TimelineTypeOK
  BY TimeInvTypes, TimeInvHolds, PTL

----------------------------------------------------------------------------
(* What the liveness of the timeline rests on: the animation's chain of     *)
(* frames is never cut, and nobody waits with a lock that others wait for.  *)

(* An animation that plays has its next frame under way, in the queue, or   *)
(* waiting for the timer; or the last frame threw, which arms no timer.     *)
AnimationIsAlive ==
    animationState = "Play" =>
        animationTimer \/ playTasks # <<>> \/ ~PlayThreadFree \/ At("play", "threw")

(* The sweep monitor is held exactly while a frame or a step selects, and   *)
(* by nobody who waits on it; and who holds selectTimeMutex_ is announcing, *)
(* which needs no lock.  So a wait for one mutex never closes a circle.     *)
Locked(state) == state.at \in {"assign", "emit"} /\ state.for # "select"

LocksAreReleased ==
    /\ \A w \in PoolThreadNames : monitorOwner = w <=> Locked(actor[w])
    /\ \A w \in ThreadNames : selectOwner = w <=> At(w, "emit")

MonitorInv == \A w \in PoolThreadNames : monitorOwner = w <=> Locked(actor[w])

LEMMA MonitorMoves ==
    ASSUME ActorTypes, MonitorTypes, MonitorInv, NEW w \in PoolThreadNames, NEW s, Moves(w, s),
           \/ (Locked(s) <=> Locked(actor[w])) /\ monitorOwner' = monitorOwner
           \/ Locked(s) /\ monitorOwner \in {w, Nobody} /\ monitorOwner' = w
           \/ ~Locked(s) /\ monitorOwner \in {w, Nobody} /\ monitorOwner' = Nobody
    PROVE  MonitorInv'
  <1>1. actor'[w] = s /\ \A v \in PoolThreadNames \ {w} : actor'[v] = actor[v]
    BY OneMoves DEF ThreadNames
  <1>2. Nobody \notin PoolThreadNames
    BY DEF Nobody, PoolThreadNames
  <1>3. monitorOwner' = w <=> Locked(actor'[w])
    BY <1>1, <1>2 DEF MonitorInv
  <1>4. ASSUME NEW v \in PoolThreadNames \ {w}
        PROVE  monitorOwner' = v <=> Locked(actor'[v])
    BY <1>1, <1>2 DEF MonitorInv
  <1> QED  BY <1>3, <1>4 DEF MonitorInv

LEMMA MonitorRests ==
    ASSUME MonitorInv, UNCHANGED monitorOwner, \A w \in PoolThreadNames : actor'[w] = actor[w]
    PROVE  MonitorInv'
  BY DEF MonitorInv

(* Selecting a time for a frame or a step, with the monitor locked.         *)
LEMMA SelectionLocks ==
    ASSUME NEW w, NEW t, NEW for, NEW k, for # "select",
           SelectTime(w, t, for, k) \/ TimeSelected(w, t, for, k)
    PROVE  \E s : /\ Moves(w, s)
                  /\ \/ Locked(s) /\ monitorOwner' = w
                     \/ ~Locked(s) /\ s.at # "idle" /\ monitorOwner' = Nobody
  <1>1. ~Locked(AfterSelection(t, for, k)) /\ AfterSelection(t, for, k).at # "idle"
    BY DEF AfterSelection, Locked, Finished, Selecting
  <1>2. Locked(Selecting("assign", t, for, k))
    BY DEF Locked, Selecting
  <1> QED  BY <1>1, <1>2, SelectionMoves, SelectionEnds

(* Selecting a time by itself: no lock on the monitor is taken or given up. *)
LEMMA SelectionWithoutMonitor ==
    ASSUME NEW w, NEW t, NEW k, SelectTime(w, t, "select", k) \/ TimeSelected(w, t, "select", k)
    PROVE  \E s : Moves(w, s) /\ ~Locked(s) /\ monitorOwner' = monitorOwner
  <1>1. ~Locked(AfterSelection(t, "select", k)) /\ ~Locked(Selecting("assign", t, "select", k))
    BY DEF AfterSelection, Locked, Resting, Selecting
  <1> QED  BY <1>1, SelectionMoves, SelectionEnds

LEMMA PoolSelectionSteps ==
    ASSUME TimeInv, MonitorInv, NEW w \in PoolThreadNames, SelectStep(w)
    PROVE  MonitorInv'
  <1>1. ActorTypes /\ MonitorTypes /\ actor[w] \in StatesOf[w]
    BY DEF TimeInv, TimeTypes, ActorTypes, ThreadNames
  <1>2. CASE AssignSelected(w)
    <2>1. /\ actor[w].at = "assign" /\ monitorOwner' = monitorOwner
          /\ [actor[w] EXCEPT !.at = "emit"]
               = Selecting("emit", actor[w].time, actor[w].for, actor[w].attempt)
      BY <1>1, <1>2, Announcing DEF AssignSelected, At, monitor, ThreadNames
    <2>2. Moves(w, [actor[w] EXCEPT !.at = "emit"])
      BY <1>1, <1>2 DEF AssignSelected, MovesTo, Moves, ActorTypes, ThreadNames
    <2>3. Locked([actor[w] EXCEPT !.at = "emit"]) <=> Locked(actor[w])
      BY <2>1 DEF Locked, Selecting
    <2> QED  BY <1>1, <2>1, <2>2, <2>3, MonitorMoves
  <1>3. CASE SelectTimeThrows(w)
    <2>1. PICK s : s = Thrown(actor[w].for)
      OBVIOUS
    <2>2. /\ actor[w].at = "assign" /\ Moves(w, s)
          /\ monitorOwner' = IF actor[w].for = "select" THEN monitorOwner ELSE Nobody
      BY <1>3, <2>1 DEF SelectTimeThrows, At
    <2>3. ~Locked(s)
      BY <2>1 DEF Thrown, Locked, Resting
    <2>4. CASE actor[w].for = "select"
      <3>1. ~Locked(actor[w]) /\ monitorOwner' = monitorOwner
        BY <2>2, <2>4 DEF Locked
      <3> QED  BY <1>1, <2>2, <2>3, <3>1, MonitorMoves
    <2>5. CASE actor[w].for # "select"
      <3>1. monitorOwner = w /\ monitorOwner' = Nobody
        BY <2>2, <2>5 DEF MonitorInv, Locked
      <3> QED  BY <1>1, <2>2, <2>3, <3>1, MonitorMoves
    <2> QED  BY <2>4, <2>5
  <1>4. CASE EmitSelected(w)
    <2>1. actor[w].at = "emit" /\ TimeSelected(w, actor[w].time, actor[w].for, actor[w].attempt)
      BY <1>4 DEF EmitSelected, At
    <2>2. CASE actor[w].for = "select"
      <3>1. PICK s : Moves(w, s) /\ ~Locked(s) /\ monitorOwner' = monitorOwner
        BY <2>1, <2>2, SelectionWithoutMonitor
      <3>2. ~Locked(actor[w])
        BY <2>2 DEF Locked
      <3> QED  BY <1>1, <3>1, <3>2, MonitorMoves
    <2>3. CASE actor[w].for # "select"
      <3>1. PICK s : /\ Moves(w, s)
                     /\ \/ Locked(s) /\ monitorOwner' = w
                        \/ ~Locked(s) /\ s.at # "idle" /\ monitorOwner' = Nobody
        BY <2>1, <2>3, SelectionLocks
      <3>2. monitorOwner = w
        BY <2>1, <2>3 DEF MonitorInv, Locked
      <3> QED  BY <1>1, <3>1, <3>2, MonitorMoves
    <2> QED  BY <2>2, <2>3
  <1> QED  BY <1>2, <1>3, <1>4 DEF SelectStep

LEMMA PlayMonitors ==
    ASSUME TimeInv, MonitorInv, PlayThread
    PROVE  MonitorInv'
  <1>1. ActorTypes /\ MonitorTypes /\ "play" \in PoolThreadNames
    BY DEF TimeInv, TimeTypes, PoolThreadNames
  <1>2. CASE LockForFrame
    <2>1. PICK s : /\ Moves("play", s)
                   /\ \/ Locked(s) /\ monitorOwner' = "play"
                      \/ ~Locked(s) /\ s.at # "idle" /\ monitorOwner' = Nobody
      BY <1>2, SelectionLocks DEF LockForFrame
    <2> QED  BY <1>1, <1>2, <2>1, MonitorMoves DEF LockForFrame
  <1>3. CASE SelectStep("play")
    BY <1>1, <1>3, PoolSelectionSteps
  <1>4. CASE BeginFrame \/ EndFrame \/ ArmAnimationTimer \/ AnimationTimerHandler \/ PlayAgain
    <2>1. PICK s \in {Selecting("monitor", NextFrame, "frame", 0), [at |-> "arm"],
                      [at |-> "replay"], Resting} : Moves("play", s)
      BY <1>4 DEF BeginFrame, EndFrame, ArmAnimationTimer, AnimationTimerHandler, PlayAgain
    <2>2. ~Locked(s)
      BY DEF Locked, Selecting, Resting
    <2>3. ~Locked(actor["play"]) /\ monitorOwner' = monitorOwner
      BY <1>4 DEF BeginFrame, EndFrame, ArmAnimationTimer, AnimationTimerHandler, PlayAgain,
                  PlayThreadFree, Locked, At, monitor
    <2> QED  BY <1>1, <2>1, <2>2, <2>3, MonitorMoves
  <1> QED  BY <1>2, <1>3, <1>4 DEF PlayThread

(* The turns of a step's loop: the monitor is locked when they begin, and   *)
(* by nobody else.                                                          *)
LEMMA TurnMonitors ==
    ASSUME TimeInv, MonitorInv, monitorOwner = Nobody, NEW t, NEW d \in Directions, NEW k,
           TryMinute(t, d, k) \/ LeaveLoop(d)
    PROVE  MonitorInv'
  <1>1. ActorTypes /\ MonitorTypes /\ "select" \in PoolThreadNames /\ d # "select"
    BY DEF TimeInv, TimeTypes, PoolThreadNames, Directions
  <1>2. CASE \E time, attempt : SelectTime("select", time, d, attempt)
    <2>1. PICK s : /\ Moves("select", s)
                   /\ \/ Locked(s) /\ monitorOwner' = "select"
                      \/ ~Locked(s) /\ s.at # "idle" /\ monitorOwner' = Nobody
      BY <1>1, <1>2, SelectionLocks
    <2> QED  BY <1>1, <2>1, MonitorMoves
  <1>3. CASE Moves("select", Finished(d, FALSE, FALSE)) /\ monitorOwner' = Nobody
    <2>1. ~Locked(Finished(d, FALSE, FALSE))
      BY DEF Locked, Finished
    <2> QED  BY <1>1, <1>3, <2>1, MonitorMoves
  <1> QED  BY <1>2, <1>3 DEF TryMinute, LeaveLoop

LEMMA SelectMonitors ==
    ASSUME TimeInv, MonitorInv, SelectThread
    PROVE  MonitorInv'
  <1>1. /\ ActorTypes /\ MonitorTypes /\ "select" \in PoolThreadNames
        /\ actor["select"] \in SelectStates
    BY DEF TimeInv, TimeTypes, ActorTypes, StatesOf, ThreadNames, PoolThreadNames
  <1>2. CASE BeginSelectTask
    <2>1. ~Locked(actor["select"])
      BY <1>2 DEF BeginSelectTask, At, Locked
    <2>2. PICK s : Moves("select", s) /\ ~Locked(s) /\ monitorOwner' = monitorOwner
      BY <1>2, SelectionWithoutMonitor DEF BeginSelectTask
    <2> QED  BY <1>1, <2>1, <2>2, MonitorMoves
  <1>3. CASE BeginStep \/ FinishStep
    <2>1. ~Locked(actor["select"]) /\ monitorOwner' = monitorOwner
      BY <1>3 DEF BeginStep, FinishStep, At, Locked, monitor
    <2>2. PICK s : Moves("select", s) /\ s.at \in {"finish", "monitor", "idle"}
      BY <1>3 DEF BeginStep, FinishStep, Finished, Selecting, Resting
    <2>3. ~Locked(s)
      BY <2>2 DEF Locked
    <2> QED  BY <1>1, <2>1, <2>2, <2>3, MonitorMoves
  <1>4. CASE LockForStep
    <2>1. actor["select"].for \in Directions
      BY <1>1, <1>4, SelectShapes DEF LockForStep, At, Selecting
    <2> QED  BY <1>4, <2>1, TurnMonitors DEF LockForStep
  <1>5. CASE EndStepWait
    <2>1. actor["select"].for \in Directions /\ ~Locked(actor["select"])
      BY <1>1, <1>5, SelectShapes DEF EndStepWait, At, Selecting, Locked
    <2>2. CASE sweepsUpdated # {}
      <3>1. Moves("select", Finished(actor["select"].for, FALSE, TRUE))
            /\ monitorOwner' = monitorOwner
        BY <1>5, <2>2 DEF EndStepWait
      <3>2. ~Locked(Finished(actor["select"].for, FALSE, TRUE))
        BY DEF Locked, Finished
      <3> QED  BY <1>1, <2>1, <3>1, <3>2, MonitorMoves
    <2>3. CASE sweepsUpdated = {} /\ actor["select"].attempt < MaxAttempts
      BY <1>5, <2>1, <2>3, TurnMonitors DEF EndStepWait
    <2>4. CASE sweepsUpdated = {} /\ ~(actor["select"].attempt < MaxAttempts)
      <3>1. LeaveLoop(actor["select"].for)
        BY <1>5, <2>4 DEF EndStepWait
      <3> QED  BY <1>5, <2>1, <3>1, TurnMonitors DEF EndStepWait
    <2> QED  BY <2>2, <2>3, <2>4
  <1>6. CASE SelectStep("select")
    BY <1>1, <1>6, PoolSelectionSteps
  <1> QED  BY <1>2, <1>3, <1>4, <1>5, <1>6 DEF SelectThread

(* What the GUI thread and the world do is not about the monitor's mutex.   *)
LEMMA GuiMonitors ==
    ASSUME TimeInv, MonitorInv,
           \/ UserStep \/ GuiThread \/ AnimationTimerExpires
           \/ \E m \in Maps : SweepComputed(m) \/ SweepIgnored(m) \/ WidgetPainted(m)
    PROVE  MonitorInv'
  <1>1. ActorTypes /\ "gui" \in ThreadNames /\ PoolThreadNames \subseteq ThreadNames \ {"gui"}
    BY DEF TimeInv, TimeTypes, ThreadNames, PoolThreadNames
  <1>2. CASE \E s : Moves("gui", s) /\ monitorOwner' = monitorOwner
    BY <1>1, <1>2, OneMoves, MonitorRests
  <1>3. CASE UNCHANGED <<monitorOwner, actor>>
    BY <1>3, MonitorRests
  <1>4. CASE UserStep
    <2>1. CASE SetViewTypeLive
      BY <1>2, <2>1, SelectionWithoutMonitor DEF SetViewTypeLive
    <2> QED  BY <1>3, <1>4, <2>1
             DEF UserStep, AnimationPlay, AnimationPause, StepAsync, StepToEnd, monitor
  <1>5. CASE GuiThread
    <2>1. CASE AssignSelected("gui")
      <3>1. Moves("gui", [actor["gui"] EXCEPT !.at = "emit"]) /\ monitorOwner' = monitorOwner
        BY <1>1, <2>1 DEF AssignSelected, MovesTo, Moves, ActorTypes, monitor
      <3> QED  BY <1>2, <3>1
    <2>2. CASE EmitSelected("gui")
      <3>1. actor["gui"].for = "select"
        <4>1. actor["gui"] \in GuiStates
          BY <1>1 DEF ActorTypes, StatesOf, ThreadNames, PoolThreadNames
        <4> QED  BY <2>2, <4>1, GuiShapes DEF EmitSelected, At, Selecting
      <3> QED  BY <1>2, <2>2, <3>1, SelectionWithoutMonitor DEF EmitSelected
    <2>3. CASE SelectTimeThrows("gui")
      <3>1. /\ actor["gui"] \in StatesOf["gui"] /\ actor["gui"].at = "assign"
            /\ actor["gui"].time # Live
        BY <1>1, <2>3 DEF ActorTypes, SelectTimeThrows, At
      <3>2. "gui" \notin PoolThreadNames
        BY DEF PoolThreadNames
      <3> QED  BY <1>1, <3>1, <3>2, ThrownStates
    <2>4. CASE ReceiveRadarSweep
      BY <1>2, <2>4 DEF ReceiveRadarSweep
    <2> QED  BY <1>5, <2>1, <2>2, <2>3, <2>4 DEF GuiThread, SelectStep
  <1>6. CASE AnimationTimerExpires
    BY <1>3, <1>6 DEF AnimationTimerExpires, monitor
  <1>7. CASE \E m \in Maps : SweepComputed(m) \/ SweepIgnored(m) \/ WidgetPainted(m)
    BY <1>2, <1>3, <1>7 DEF SweepComputed, SweepIgnored, WidgetPainted, Slot, monitor
  <1> QED  BY <1>4, <1>5, <1>6, <1>7

LEMMA MonitorInvStep ==
    ASSUME TimeInv, MonitorInv, [TimelineNext]_timelineVars
    PROVE  MonitorInv'
  <1>1. CASE UNCHANGED timelineVars
    BY <1>1 DEF timelineVars, MonitorInv
  <1> QED  BY <1>1, PlayMonitors, SelectMonitors, GuiMonitors DEF TimelineNext

(* The chain of frames: what ends in the play thread leaves a timer or a    *)
(* task behind, and only a pause takes the timer away for good.             *)
LEMMA AnimationIsAliveStep ==
    ASSUME TimeInv, AnimationIsAlive, [TimelineNext]_timelineVars
    PROVE  AnimationIsAlive'
  <1>1. ActorTypes /\ playTasks \in Seq({"sync", "handler"})
    BY DEF TimeInv, TimeTypes, TaskTypes
  <1>2. CASE PostPlay
    BY <1>1, <1>2 DEF PostPlay, AnimationIsAlive
  <1>3. CASE PauseAnimation
    BY <1>3 DEF PauseAnimation, AnimationIsAlive
  <1>4. CASE UNCHANGED animation /\ actor'["play"] = actor["play"]
    BY <1>4 DEF AnimationIsAlive, PlayThreadFree, animation, At
  <1>5. ASSUME NEW s, Moves("play", s), s.at # "idle"
        PROVE  AnimationIsAlive'
    BY <1>1, <1>5, OneMoves DEF AnimationIsAlive, PlayThreadFree, At, ThreadNames, PoolThreadNames
  <1>6. ASSUME NEW w \in {"gui", "select"}, NEW s, Moves(w, s)
        PROVE  actor'["play"] = actor["play"]
    BY <1>1, <1>6, OneMoves DEF ThreadNames, PoolThreadNames
  <1>7. ASSUME NEW w \in {"gui", "select"}, SelectStep(w)
        PROVE  AnimationIsAlive'
    <2>1. UNCHANGED animation /\ \E s : Moves(w, s)
      BY <1>7, SelectionEnds
      DEF SelectStep, AssignSelected, SelectTimeThrows, EmitSelected, MovesTo, Moves
    <2> QED  BY <1>4, <1>6, <2>1
  <1>8. CASE UserStep
    <2>1. CASE SetViewTypeLive
      BY <1>4, <1>6, <2>1, SelectionMoves DEF SetViewTypeLive
    <2> QED  BY <1>2, <1>3, <1>8, <2>1 DEF UserStep, AnimationPlay, AnimationPause, StepAsync, StepToEnd
  <1>9. CASE PlayThread
    <2>1. CASE BeginFrame \/ EndFrame
      BY <1>5, <2>1 DEF BeginFrame, EndFrame, Selecting
    <2>2. CASE LockForFrame
      <3>1. PICK s : Moves("play", s) /\ (Locked(s) \/ s.at # "idle")
        BY <2>2, SelectionLocks DEF LockForFrame
      <3> QED  BY <1>5, <3>1 DEF Locked
    <2>3. CASE ArmAnimationTimer
      BY <2>3 DEF ArmAnimationTimer, AnimationIsAlive
    <2>4. CASE AnimationTimerHandler
      <3>1. CASE animationState = "Play"
        BY <1>5, <2>4, <3>1 DEF AnimationTimerHandler
      <3>2. CASE animationState # "Play"
        BY <2>4, <3>2 DEF AnimationTimerHandler, AnimationIsAlive
      <3> QED  BY <3>1, <3>2
    <2>5. CASE PlayAgain
      BY <1>2, <2>5 DEF PlayAgain
    <2>6. CASE SelectStep("play")
      <3>1. actor["play"].for = "frame" /\ actor["play"].at \in {"assign", "emit"}
            /\ actor["play"] = Selecting(actor["play"].at, actor["play"].time, "frame", 0)
        <4>1. actor["play"] \in PlayStates
          BY <1>1 DEF ActorTypes, StatesOf, ThreadNames, PoolThreadNames
        <4>2. actor["play"].at \in {"assign", "emit"}
          BY <2>6 DEF SelectStep, AssignSelected, SelectTimeThrows, EmitSelected, At
        <4> QED  BY <4>1, <4>2, PlayShapes DEF Selecting
      <3>2. CASE AssignSelected("play")
        <4>1. Moves("play", [actor["play"] EXCEPT !.at = "emit"])
          BY <1>1, <3>2 DEF AssignSelected, MovesTo, Moves, ActorTypes, ThreadNames, PoolThreadNames
        <4>2. [actor["play"] EXCEPT !.at = "emit"].at # "idle"
          BY <3>1 DEF Selecting
        <4> QED  BY <1>5, <4>1, <4>2
      <3>3. CASE EmitSelected("play")
        <4>1. PICK s : Moves("play", s) /\ (Locked(s) \/ s.at # "idle")
          BY <3>1, <3>3, SelectionLocks DEF EmitSelected
        <4> QED  BY <1>5, <4>1 DEF Locked
      <3>4. CASE SelectTimeThrows("play")
        <4>1. Moves("play", Thrown("frame"))
          BY <3>1, <3>4 DEF SelectTimeThrows
        <4>2. Thrown("frame").at # "idle"
          BY DEF Thrown
        <4> QED  BY <1>5, <4>1, <4>2
      <3> QED  BY <2>6, <3>2, <3>3, <3>4 DEF SelectStep
    <2> QED  BY <1>9, <2>1, <2>2, <2>3, <2>4, <2>5, <2>6 DEF PlayThread
  <1>10. CASE SelectThread
    <2>1. CASE SelectStep("select")
      BY <1>7, <2>1
    <2>2. CASE ~SelectStep("select")
      <3>1. UNCHANGED animation /\ \E s : Moves("select", s)
        BY <1>10, <2>2, SelectionMoves
        DEF SelectThread, BeginSelectTask, BeginStep, LockForStep, EndStepWait, FinishStep,
            TryMinute, LeaveLoop
      <3> QED  BY <1>4, <1>6, <3>1
    <2> QED  BY <2>1, <2>2
  <1>11. CASE GuiThread
    <2>1. CASE ReceiveRadarSweep
      BY <1>4, <1>6, <2>1 DEF ReceiveRadarSweep
    <2> QED  BY <1>7, <1>11, <2>1 DEF GuiThread
  <1>12. CASE AnimationTimerExpires
    BY <1>1, <1>12 DEF AnimationTimerExpires, AnimationIsAlive
  <1>13. CASE \E m \in Maps : SweepComputed(m) \/ SweepIgnored(m) \/ WidgetPainted(m)
    BY <1>4, <1>6, <1>13 DEF SweepComputed, SweepIgnored, WidgetPainted, Slot
  <1>14. CASE UNCHANGED timelineVars
    BY <1>4, <1>14 DEF timelineVars, animation
  <1> QED  BY <1>8, <1>9, <1>10, <1>11, <1>12, <1>13, <1>14 DEF TimelineNext

(* However the user plays, pauses and steps, and whatever the threads do    *)
(* meanwhile: an animation that is not paused has a frame to come, unless   *)
(* the last one threw.                                                      *)
THEOREM AnimationLives == TimelineSpec => []AnimationIsAlive
  <1>1. TimelineInit => AnimationIsAlive
    BY DEF TimelineInit, AnimationIsAlive
  <1>2. TimeInv /\ AnimationIsAlive /\ [TimelineNext]_timelineVars => AnimationIsAlive'
    BY AnimationIsAliveStep
  <1> QED  BY <1>1, <1>2, TimeInvHolds, PTL DEF TimelineSpec

(* A frame and a step never select at the same time, and both mutexes are   *)
(* held only on the way to their release.                                   *)
THEOREM LocksReleased == TimelineSpec => []LocksAreReleased
  <1>1. TimelineInit => MonitorInv
    BY DEF TimelineInit, MonitorInv, Locked, Resting, Nobody, PoolThreadNames
  <1>2. TimeInv /\ MonitorInv /\ [TimelineNext]_timelineVars => MonitorInv'
    BY MonitorInvStep
  <1>3. TimeInv /\ MonitorInv => LocksAreReleased
    BY DEF TimeInv, LockInv, MonitorInv, LocksAreReleased
  <1> QED  BY <1>1, <1>2, <1>3, TimeInvHolds, PTL DEF TimelineSpec

----------------------------------------------------------------------------
(* The composition that is checked: one of the two moves.                   *)

LEMMA ManagersStep ==
    [MCNext]_<<chosen, ntpVars, timelineVars>>
        => [NtpNext]_ntpVars /\ [TimelineNext]_timelineVars
  BY DEF MCNext, NtpMoves, TimelineMoves

(* Side by side both keep their types, so what is proved of each of them    *)
(* holds in the composition.                                                *)
THEOREM ManagersTypes == MCSpec => []ManagersTypeOK
  <1>1. MCInit => NtpTypeOK /\ TimeInv
    BY NtpTypeOKInit, TimeInvInit DEF MCInit
  <1>2. NtpTypeOK /\ [NtpNext]_ntpVars => NtpTypeOK'
    BY NtpTypeOKInductive
  <1>3. TimeInv /\ [TimelineNext]_timelineVars => TimeInv'
    BY TimeInvStep
  <1>4. NtpTypeOK /\ TimeInv => ManagersTypeOK
    BY TimeInvTypes DEF ManagersTypeOK
  <1> QED  BY <1>1, <1>2, <1>3, <1>4, ManagersStep, PTL DEF MCSpec
=============================================================================
