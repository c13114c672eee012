------------------------------- MODULE AlertLayer -------------------------------
(***************************************************************************)
(* What the maps show of the text events: AlertLayerHandler keeps a segment *)
(* for each message, which ends when that of the next message begins.  It   *)
(* learns of messages and of pruned events by signals that are queued for   *)
(* the GUI thread, while the threads of the text event manager go on, and   *)
(* looks each message up in the list it then finds.                         *)
(*                                                                          *)
(* A message has one segment, which begins at the hour of the message and   *)
(* would end after the last hour.  Messages of an event are an hour apart.  *)
(* The layers draw what the handler keeps, in the thread and the order in   *)
(* which it tells them; colours, lines and hovering are left out.           *)
(***************************************************************************)
EXTENDS TextEvents

VARIABLE segments    \* segmentsByKey_: message -> the end of its segment

alertVars == <<textVars, segments>>

NoSegment == -1
Never == LastHour + 1    \* the end of a segment that no message follows

AlertTypeOK ==
    /\ TextTypeOK
    /\ segments \in [Messages -> Hours \cup {NoSegment, Never}]

AlertInit == TextInit /\ segments = [m \in Messages |-> NoSegment]

----------------------------------------------------------------------------
(* The messages of the list after this one, and the hour that ends it.      *)
Later(m) == {n \in textEvents[EventOf[m]] : HourOf[n] > HourOf[m]}
NextBegin(m) ==
    IF Later(m) = {} THEN Never ELSE Least({HourOf[n] : n \in Later(m)})

(* Mutant of CutShort: an earlier segment ends with the message last handled. *)
CutShortAnyway(end, begin) == begin

(* The end of an earlier segment, when a message begins.                    *)
CutShort(end, begin) == IF end > begin THEN begin ELSE end

(* HandleAlert: segments of earlier messages end where this one begins, and *)
(* its own where the next message does.                                     *)
HandleAlert ==
    /\ signals # <<>> /\ Head(signals).message # {}
    /\ signals' = Tail(signals)
    /\ LET m == CHOOSE n \in Messages : Head(signals).message = {n}
           earlier == {n \in textEvents[EventOf[m]] :
                          segments[n] # NoSegment /\ HourOf[n] < HourOf[m]}
       IN  segments' = [n \in Messages |->
                          IF n = m THEN NextBegin(m)
                          ELSE IF n \in earlier THEN CutShort(segments[n], HourOf[m])
                          ELSE segments[n]]
    /\ UNCHANGED <<feed, live, archives, textEvents, liveEvents, overtaken, history>>

HandleAlertsRemoved ==
    /\ signals # <<>> /\ Head(signals).message = {}
    /\ signals' = Tail(signals)
    /\ segments' = [m \in Messages |-> IF EventOf[m] \in Head(signals).events
                                       THEN NoSegment ELSE segments[m]]
    /\ UNCHANGED <<feed, live, archives, textEvents, liveEvents, overtaken, history>>

AlertNext ==
    \/ TextNext /\ UNCHANGED segments
    \/ HandleAlert
    \/ HandleAlertsRemoved

AlertSpec == AlertInit /\ [][AlertNext]_alertVars

----------------------------------------------------------------------------
(* The maps show what is known: once the signals about an event have been   *)
(* handled, each of its messages has its segment, no other message has one, *)
(* and each ends where the next begins -- in whatever order feed, archives  *)
(* and pruning brought and took the messages, and however late the signals  *)
(* came; but for an event that was given a message after its erasure and    *)
(* before that was announced, whose new message the announcement takes off  *)
(* the maps.                                                                *)
AlertsMirrorEvents ==
    \A m \in Messages :
        LET told == /\ \A i \in DOMAIN signals : EventOf[m] \notin signals[i].events
                    /\ selecting.pc = "announce" => EventOf[m] \notin selecting.events
        IN  told /\ EventOf[m] \notin overtaken =>
                segments[m] = IF m \in textEvents[EventOf[m]] THEN NextBegin(m)
                              ELSE NoSegment
=============================================================================
