---------------------------- MODULE Applications ----------------------------
(***************************************************************************)
(* Programs built on the packages schedule and command: one that converts  *)
(* the time of an alarm and back, any of Timezone's; those of Alarms, which*)
(* write what they converted; those of Groups; and the one of Statuses.    *)
(* They share nothing, so which of them runs is chosen once.               *)
(***************************************************************************)
EXTENDS Alarms, Groups, Statuses

VARIABLES
    app     \* what runs

applicationVars == <<app, alarmVars, groupVars, statusVars>>

Apps == {"converter", "alarms", "groups", "statuses"}

ApplicationsTypeOK == app \in Apps /\ AlarmsTypeOK /\ GroupsTypeOK /\ StatusesTypeOK

\* A time for the editor that is not running.
SomeEdit == CHOOSE e \in Edits : TRUE

ApplicationsInit ==
    /\ app \in Apps
    /\ Init
    /\ app = "alarms" => <<tz, local>> \in Edits
    /\ app \in {"groups", "statuses"} => <<tz, local>> = SomeEdit
    /\ NoAlarms
    /\ GroupsInit
    /\ StatusesInit /\ (app = "statuses" \/ on = {})

Converter ==
    /\ app = "converter"
    /\ Next
    /\ UNCHANGED <<app, writerVars, coordinatorVars, saved, groupVars, statusVars>>

AlarmPrograms == app = "alarms" /\ AlarmsNext /\ UNCHANGED <<app, groupVars, statusVars>>
GroupPrograms == app = "groups" /\ GroupsNext /\ UNCHANGED <<app, alarmVars, statusVars>>
StatusPrograms == app = "statuses" /\ StatusesNext /\ UNCHANGED <<app, alarmVars, groupVars>>

ApplicationsNext == Converter \/ AlarmPrograms \/ GroupPrograms \/ StatusPrograms

ApplicationsSpec == ApplicationsInit /\ [][ApplicationsNext]_applicationVars

=============================================================================
