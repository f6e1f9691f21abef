------------------------------- MODULE MCForms ------------------------------
(***************************************************************************)
(* The pages that change what the server keeps: settings, schedules and    *)
(* updates, each with the part of the server it changes.  One route is     *)
(* open at a time and the pages share no variable, so a behaviour runs one *)
(* of them, chosen at the start.                                           *)
(***************************************************************************)
EXTENDS SettingsPage, SchedulePage, UpdatesPage

CONSTANTS HastyBound,   \* turns and restarts when the user does not wait (bound)
          CalmEdits     \* edits from which on only one thing goes on at a time (bound)

VARIABLE page
formsVars == <<page, settingsVars, scheduleVars, updatesVars>>

FormsInit ==
    /\ page \in {"settings", "schedule", "updates"}
    /\ SettingsInit
    /\ ScheduleInit /\ (page # "schedule" => patient)
    /\ UpdatesInit /\ (page # "updates" => docker /\ waits)

(* One request at a time, none while a message waits, no test after a crash. *)
Calm == save = Idle \/ (probe = Idle /\ timers = 0)
OneAtATime == edits < CalmEdits \/ (Calm /\ (crashes = 0 \/ probe = Idle))

FormsNext ==
    \/ /\ page = "settings" /\ SettingsNext /\ UNCHANGED <<page, scheduleVars, updatesVars>>
       /\ OneAtATime' \/ Serving
    \/ page = "schedule" /\ ScheduleNext /\ UNCHANGED <<page, settingsVars, updatesVars>>
    \/ /\ page = "updates" /\ UpdatesNext /\ UNCHANGED <<page, settingsVars, scheduleVars>>
       /\ waits \/ turns' + restarts' <= HastyBound

(* The fairness of the module whose turn it is. *)
FormFair ==
    /\ WF_settingsVars(page = "settings" /\ SaveServed)
    /\ WF_settingsVars(page = "settings" /\ SaveWrites)
    /\ WF_settingsVars(page = "settings" /\ SaveAnswered)
    /\ WF_settingsVars(page = "settings" /\ TestServed)
    /\ WF_settingsVars(page = "settings" /\ TestWrites)
    /\ WF_settingsVars(page = "settings" /\ TestAnswered)

TableFair ==
    \A s \in Slots :
        /\ WF_scheduleVars(page = "schedule" /\ (Served(s) \/ TableRead(s)))
        /\ WF_scheduleVars(page = "schedule" /\ (Continues(s) \/ LoadSchedules(s)))

ImageFair ==
    \A t \in Tickets : /\ WF_updatesVars(page = "updates" /\ Serves(t))
                       /\ WF_updatesVars(page = "updates" /\ Answers(t))

FormsSpec == FormsInit /\ [][FormsNext]_formsVars /\ FormFair /\ TableFair /\ ImageFair

-----------------------------------------------------------------------------
(* Every page, and the part of the server it changes, keeps within its types. *)
FormsTypeOK == SettingsTypeOK /\ ScheduleTypeOK /\ UpdatesTypeOK

(* What must happen does: saves, tests, loads, checks and updates end on the page that
   asked for them. *)
FormsProgress ==
    /\ RequestsEnd /\ UpdatesEnd
    /\ []<>~savingRow /\ []<>(page = "schedule" => ~listLoading)
=============================================================================
