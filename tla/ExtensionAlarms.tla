---------------------------- MODULE ExtensionAlarms ----------------------------
(***************************************************************************)
(* chrome.alarms of one extension: the records of extensionOps.alarms, the *)
(* timers of Manager.alarmTimers and the goroutines of time.AfterFunc that *)
(* run when a timer is due.                                                *)
(*                                                                         *)
(* A call from a script holds eo.alarmMu, and within it m.alarmMu, from    *)
(* beginning to end, and a goroutine takes m.alarmMu for its last step     *)
(* alone, so each of these is one action.  Timers are numbered as they are *)
(* made.                                                                   *)
(***************************************************************************)
EXTENDS Naturals

CONSTANTS AlarmNames, \* the names of alarms
          MaxTimers   \* bound on the timers made

ASSUME AlarmAssumption == MaxTimers \in Nat /\ AlarmNames # {}

VARIABLES
    alarms,      \* names with a record
    alarmTimers, \* the timer in the table for a name, 0 for none
    made,        \* number of timers made
    nameOf,      \* the name a timer was made for
    timer,       \* "unused", "armed", "ringing", "rung" (it has called the
                 \* listeners) or "over"
    listening,   \* the extension runs, and chromeAPIs has its listeners
    wedged,      \* a script waits for eo.alarmMu, which it holds
    astray       \* history: timers whose entry an older timer removed

alarmVars == <<alarms, alarmTimers, made, nameOf, timer, listening, wedged, astray>>

Timers == 1..MaxTimers

AlarmsInit ==
    /\ alarms = {} /\ alarmTimers = [n \in AlarmNames |-> 0]
    /\ made = 0 /\ nameOf = [t \in Timers |-> CHOOSE n \in AlarmNames : TRUE]
    /\ timer = [t \in Timers |-> "unused"]
    /\ listening = TRUE /\ wedged = FALSE /\ astray = {}

(* Timer.Stop does nothing to a timer that has gone off. *)
StoppedTimers(ts) == [t \in Timers |->
    IF t \in ts /\ timer[t] = "armed" THEN "over" ELSE timer[t]]

\* Faulty form of the next definition: the old timer is replaced, not stopped.
ScheduleBeside(n) ==
    /\ made < MaxTimers
    /\ made' = made + 1
    /\ nameOf' = [nameOf EXCEPT ![made + 1] = n]
    /\ timer' = [timer EXCEPT ![made + 1] = "armed"]
    /\ alarmTimers' = [alarmTimers EXCEPT ![n] = made + 1]

ScheduleLater(n) ==
    /\ made < MaxTimers
    /\ made' = made + 1
    /\ nameOf' = [nameOf EXCEPT ![made + 1] = n]
    /\ timer' = [StoppedTimers({alarmTimers[n]}) EXCEPT ![made + 1] = "armed"]
    /\ alarmTimers' = [alarmTimers EXCEPT ![n] = made + 1]

(* An alarm that is due already: the timer it had stays in the table,      *)
(* stopped, and the listeners are called with both mutexes held.  If one   *)
(* of them uses chrome.alarms, the script waits for itself.                *)
FireAtOnce(n) == \E again \in BOOLEAN :
    /\ timer' = StoppedTimers({alarmTimers[n]})
    /\ wedged' = (listening /\ again)
    /\ UNCHANGED <<made, nameOf, alarmTimers>>

(* chrome.alarms.create: with no time at all the alarm is only recorded,   *)
(* and the timer of an earlier one of its name goes on.                    *)
CreateAlarm == \E n \in AlarmNames :
    /\ ~wedged
    /\ alarms' = alarms \cup {n}
    /\ \/ ScheduleLater(n) /\ UNCHANGED wedged
       \/ FireAtOnce(n)
       \/ UNCHANGED <<made, nameOf, timer, alarmTimers, wedged>>
    /\ UNCHANGED <<listening, astray>>

(* chrome.alarms.clear and clearAll. *)
Cancel(ns) ==
    /\ timer' = StoppedTimers({alarmTimers[n] : n \in ns})
    /\ alarmTimers' = [n \in AlarmNames |-> IF n \in ns THEN 0 ELSE alarmTimers[n]]

ClearAlarm == \E n \in AlarmNames :
    /\ ~wedged
    /\ alarms' = alarms \ {n}
    /\ Cancel({n})
    /\ UNCHANGED <<made, nameOf, listening, wedged, astray>>

ClearAllAlarms ==
    /\ ~wedged
    /\ alarms' = {}
    /\ Cancel(AlarmNames)
    /\ UNCHANGED <<made, nameOf, listening, wedged, astray>>

-----------------------------------------------------------------------------
(* The goroutine of a timer: fireAlarm calls the listeners, which may make *)
(* any of the calls above, without a mutex; then the entry is removed,     *)
(* whichever timer it holds by now.  The record stays, and an alarm with a *)
(* period is not scheduled again.                                          *)
TimerGoesOff == \E t \in Timers :
    /\ timer[t] = "armed"
    /\ timer' = [timer EXCEPT ![t] = "ringing"]
    /\ UNCHANGED <<alarms, alarmTimers, made, nameOf, listening, wedged, astray>>

ListenersReturn == \E t \in Timers :
    /\ timer[t] = "ringing"
    /\ timer' = [timer EXCEPT ![t] = "rung"]
    /\ UNCHANGED <<alarms, alarmTimers, made, nameOf, listening, wedged, astray>>

EntryRemoved == \E t \in Timers :
    /\ ~wedged /\ timer[t] = "rung"
    /\ timer' = [timer EXCEPT ![t] = "over"]
    /\ alarmTimers' = [alarmTimers EXCEPT ![nameOf[t]] = 0]
    /\ astray' = astray \cup ({alarmTimers[nameOf[t]]} \ {0, t})
    /\ UNCHANGED <<alarms, made, nameOf, listening, wedged>>

(* The extension is stopped or started; its alarms go on. *)
ExtensionToggled ==
    /\ listening' = ~listening
    /\ UNCHANGED <<alarms, alarmTimers, made, nameOf, timer, wedged, astray>>

AlarmsNext ==
    \/ CreateAlarm \/ ClearAlarm \/ ClearAllAlarms
    \/ TimerGoesOff \/ ListenersReturn \/ EntryRemoved \/ ExtensionToggled

AlarmsSpec == AlarmsInit /\ [][AlarmsNext]_alarmVars

-----------------------------------------------------------------------------
AlarmsTypeOK ==
    /\ alarms \subseteq AlarmNames /\ made \in 0..MaxTimers
    /\ \A n \in AlarmNames : alarmTimers[n] \in 0..made
    /\ \A t \in Timers : nameOf[t] \in AlarmNames
    /\ \A t \in Timers : timer[t] \in {"unused", "armed", "ringing", "rung", "over"}
    /\ {listening, wedged} \subseteq BOOLEAN /\ astray \subseteq Timers

(* However creating, clearing and going off overlap, an alarm that is      *)
(* still to ring is one its name leads to, so that it can be cleared and   *)
(* is replaced by the next one of its name, and one that has a record; but *)
(* for timers whose entry an older timer of the same name removed, while   *)
(* its listeners were setting the alarm again.                             *)
AlarmsCanBeCleared ==
    \A t \in Timers \ astray : timer[t] = "armed" =>
        alarmTimers[nameOf[t]] = t /\ nameOf[t] \in alarms
=============================================================================
