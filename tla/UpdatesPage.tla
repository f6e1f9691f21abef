----------------------------- MODULE UpdatesPage -----------------------------
(***************************************************************************)
(* The updates page, the handlers it calls and the updater behind them:    *)
(* checks for a new image, the update that restarts the container, and the *)
(* schedule of automatic updates, kept in memory and in two rows of the    *)
(* settings table.  The updater's own loop checks and updates as well.     *)
(* The page's requests are calls in slots; when the container restarts,    *)
(* calls under way fail.                                                   *)
(*                                                                         *)
(* When the model starts a newer image has been published.  A slip is      *)
(* named after its definition and a word (ServeAuto_forgets) and no        *)
(* behaviour takes it.                                                     *)
(***************************************************************************)
EXTENDS Naturals, FiniteSets

CONSTANTS Timetables,  \* schedules to choose from
          MaxAsks,     \* calls at once (bound)
          MaxRestarts, \* restarts of the container (bound)
          MaxTurns     \* clicks on the automatic settings (bound)

ASSUME UpdatesAssumption ==
    /\ "weekly" \in Timetables   \* the page's default
    /\ "" \notin Timetables      \* the page offers no empty one
    /\ MaxAsks \in Nat /\ MaxAsks >= 1
    /\ MaxRestarts \in Nat /\ MaxTurns \in Nat

Tickets == 1 .. MaxAsks
Loop == 0   \* the loop, where a ticket is expected
Autos == [enabled : BOOLEAN, timetable : Timetables \cup {""}]
NoAuto == [enabled |-> FALSE, timetable |-> ""]
UpdateStatus == [docker : BOOLEAN, available : BOOLEAN, auto : Autos]
NoStatus == [docker |-> FALSE, available |-> FALSE, auto |-> NoAuto]   \* nothing loaded yet
Used(st) == [docker |-> st.docker, available |-> st.available]   \* what the page goes by

UpdateOps == {"status", "check", "apply", "auto"}
Ask(op, auto) == [op |-> op, stage |-> "sent", auto |-> auto, tells |-> NoStatus]
NoAsk == [op |-> "none", stage |-> "none", auto |-> NoAuto, tells |-> NoStatus]

VARIABLES
    docker, behind,      \* is the socket mounted, is there an image newer than the one that runs
    available, auto, savedAuto,    \* the updater, and its rows in the settings table
    updatingBy,                    \* who is inside ApplyUpdate: calls, and the loop
    helper,                        \* the helper that restarts the container was launched
    restarts, loop,
    status, checking, updating, autoEnabled, autoSchedule, savingAuto, notice,
    asks,                          \* [Tickets -> call]
    turns, settled,                \* settled: automatic settings not touched since their Save
    waits                          \* the user waits for every answer before the next click

updaterVars == <<docker, behind, available, auto, savedAuto, updatingBy, helper, restarts, loop>>
updatesPageVars == <<status, checking, updating, autoEnabled, autoSchedule,
                     savingAuto, notice, turns, settled, waits>>
updatesVars == <<updaterVars, updatesPageVars, asks>>

Notices == {"", "available", "latest", "started", "saved", "error"}

UpdatesTypeOK ==
    /\ {docker, behind, available, helper, checking, updating, autoEnabled, savingAuto, settled, waits}
            \subseteq BOOLEAN
    /\ restarts \in 0 .. MaxRestarts
    /\ {auto, savedAuto} \subseteq Autos /\ updatingBy \subseteq Tickets \cup {Loop}
    /\ loop \in {"rest", "checked", "applying"}
    /\ status \in [docker : BOOLEAN, available : BOOLEAN] /\ autoSchedule \in Timetables /\ notice \in Notices
    /\ turns \in 0 .. MaxTurns
    /\ \A t \in Tickets : asks[t].op \in UpdateOps \cup {"none"} /\ asks[t].tells \in UpdateStatus

-----------------------------------------------------------------------------
(* The updater *)

GetStatus(newer) == [docker |-> docker, available |-> newer, auto |-> auto]

Answered(t, stage) == asks' = [asks EXCEPT ![t].stage = stage]

(* HandleUpdateStatus: answered, or lost. *)
ServeStatus(t) ==
    /\ asks[t].op = "status" /\ asks[t].stage = "sent"
    /\ \/ asks' = [asks EXCEPT ![t].stage = "ok", ![t].tells = GetStatus(available)]
       \/ Answered(t, "failed")
    /\ UNCHANGED <<updaterVars, updatesPageVars>>

(* CheckForUpdate: the registry answers, or does not.  The page uses no more of the answer
   than the image. *)
ServeCheck(t) ==
    /\ asks[t].op = "check" /\ asks[t].stage = "sent"
    /\ \/ /\ available' = behind
          /\ asks' = [asks EXCEPT ![t].stage = "ok",
                                 ![t].tells = [GetStatus(available') EXCEPT !.auto = NoAuto]]
       \/ Answered(t, "failed") /\ UNCHANGED available
    /\ UNCHANGED <<docker, behind, auto, savedAuto, updatingBy, helper,
                   restarts, loop, updatesPageVars>>

(* ApplyUpdate: refused while another is at work; else the image is pulled and the helper
   started, or it fails.  The history of attempts is left out. *)
Enters_unguarded(who) == docker /\ updatingBy' = updatingBy \cup {who}
Enters(who) == docker /\ updatingBy = {} /\ updatingBy' = {who}

Leaves(who, ok) ==
    /\ who \in updatingBy /\ updatingBy' = updatingBy \ {who}
    /\ helper' = (helper \/ ok)

ServeApply(t) ==
    /\ asks[t].op = "apply"
    /\ \/ /\ asks[t].stage = "sent" /\ Enters(t)
          /\ Answered(t, "pulling") /\ UNCHANGED <<helper>>
       \/ /\ asks[t].stage = "sent" /\ ~(docker /\ updatingBy = {})
          /\ Answered(t, "failed") /\ UNCHANGED <<updatingBy, helper>>
       \/ /\ asks[t].stage = "pulling"
          /\ \E ok \in BOOLEAN : Leaves(t, ok) /\ Answered(t, IF ok THEN "ok" ELSE "failed")
    /\ UNCHANGED <<docker, behind, available, auto, savedAuto, restarts, loop,
                   updatesPageVars>>

(* SetAutoUpdate: memory first, then the two rows of the table, either of which may fail. *)
ServeAuto_forgets(t) ==
    /\ asks[t].op = "auto" /\ asks[t].stage = "sent"
    /\ auto' = asks[t].auto
    /\ \/ savedAuto' = [auto' EXCEPT !.timetable = savedAuto.timetable] /\ Answered(t, "ok")
       \/ UNCHANGED savedAuto /\ Answered(t, "failed")
    /\ UNCHANGED <<docker, behind, available, updatingBy, helper,
                   restarts, loop, updatesPageVars>>

ServeAuto(t) ==
    /\ asks[t].op = "auto" /\ asks[t].stage = "sent"
    /\ auto' = asks[t].auto
    /\ \/ savedAuto' = auto' /\ Answered(t, "ok")
       \/ savedAuto' \in {savedAuto, [savedAuto EXCEPT !.enabled = auto'.enabled]}
          /\ Answered(t, "failed")
    /\ UNCHANGED <<docker, behind, available, updatingBy, helper,
                   restarts, loop, updatesPageVars>>

(* autoUpdateLoop, at its hour; shouldRun knows no hour for an empty timetable. *)
AutoUpdateLoop ==
    /\ \/ /\ loop = "rest" /\ auto.enabled /\ auto.timetable # "" /\ docker
          /\ available' = behind
          /\ loop' = IF available' THEN "checked" ELSE "rest"
          /\ UNCHANGED <<updatingBy, helper>>
       \/ /\ loop = "checked" /\ UNCHANGED <<available, helper>>
          /\ \/ Enters(Loop) /\ loop' = "applying"
             \/ updatingBy # {} /\ loop' = "rest" /\ UNCHANGED updatingBy
       \/ /\ loop = "applying" /\ loop' = "rest" /\ UNCHANGED available
          /\ \E ok \in BOOLEAN : Leaves(Loop, ok)
    /\ UNCHANGED <<docker, behind, auto, savedAuto, restarts,
                   updatesPageVars, asks>>

(* The process starts anew: the helper restarted it with the newest image, or it crashed.
   Without the docker socket New returns before it loads the automatic settings. *)
Restart ==
    /\ restarts < MaxRestarts /\ restarts' = restarts + 1
    /\ helper' = FALSE /\ behind' = (behind /\ ~helper) /\ available' = FALSE
    /\ updatingBy' = {} /\ loop' = "rest"
    /\ auto' = IF docker THEN savedAuto ELSE NoAuto
    /\ asks' = [t \in Tickets |-> IF asks[t].stage \in {"sent", "pulling"}
                                  THEN [asks[t] EXCEPT !.stage = "failed"] ELSE asks[t]]
    /\ UNCHANGED <<docker, savedAuto, updatesPageVars>>

-----------------------------------------------------------------------------
(* The page *)

FreeTickets == {t \in Tickets : asks[t] = NoAsk}

Clickable == waits => FreeTickets = Tickets

(* What the page offers: Check needs the socket, Update Now an available update. *)
UpdateControls ==
    IF ~Clickable THEN {}
    ELSE (IF status.docker /\ ~checking THEN {"check"} ELSE {})
         \cup (IF status.available /\ ~updating THEN {"update"} ELSE {})

AutoControls ==
    IF ~Clickable THEN {}
    ELSE {"enable"} \cup (IF autoEnabled THEN {"schedule"} ELSE {})
         \cup (IF savingAuto THEN {} ELSE {"save"})

Put(op, a) ==
    /\ FreeTickets # {}
    /\ asks' = [asks EXCEPT ![CHOOSE t \in FreeTickets : \A u \in FreeTickets : t <= u] = Ask(op, a)]

HandleCheck ==
    /\ "check" \in UpdateControls
    /\ checking' = TRUE /\ notice' = ""
    /\ Put("check", NoAuto)
    /\ UNCHANGED <<updaterVars, status, updating, autoEnabled, autoSchedule,
                   savingAuto, turns, settled, waits>>

HandleUpdate ==
    /\ "update" \in UpdateControls
    /\ updating' = TRUE /\ notice' = ""
    /\ Put("apply", NoAuto)
    /\ UNCHANGED <<updaterVars, status, checking, autoEnabled, autoSchedule,
                   savingAuto, turns, settled, waits>>

TurnAuto ==
    /\ turns < MaxTurns /\ turns' = turns + 1 /\ settled' = FALSE
    /\ \/ "enable" \in AutoControls /\ autoEnabled' = ~autoEnabled /\ UNCHANGED autoSchedule
       \/ "schedule" \in AutoControls /\ autoSchedule' \in Timetables /\ UNCHANGED autoEnabled
    /\ UNCHANGED <<updaterVars, status, checking, updating, savingAuto, notice,
                   waits, asks>>

HandleSaveAuto ==
    /\ "save" \in AutoControls
    /\ savingAuto' = TRUE /\ settled' = TRUE
    /\ Put("auto", [enabled |-> autoEnabled, timetable |-> autoSchedule])
    /\ UNCHANGED <<updaterVars, status, checking, updating, autoEnabled,
                   autoSchedule, notice, turns, waits>>

(* loadStatus: errors are ignored. *)
LoadStatus(t) ==
    /\ asks[t].op = "status" /\ asks[t].stage \in {"ok", "failed"}
    /\ asks' = [asks EXCEPT ![t] = NoAsk]
    /\ IF asks[t].stage = "ok"
       THEN /\ status' = Used(asks[t].tells)
            /\ autoEnabled' = asks[t].tells.auto.enabled
            /\ autoSchedule' = IF asks[t].tells.auto.timetable = "" THEN "weekly"
                               ELSE asks[t].tells.auto.timetable
       ELSE UNCHANGED <<status, autoEnabled, autoSchedule>>
    /\ UNCHANGED <<updaterVars, checking, updating, savingAuto, notice, turns,
                   settled, waits>>

CheckAnswered(t) ==
    /\ asks[t].op = "check" /\ asks[t].stage \in {"ok", "failed"}
    /\ asks' = [asks EXCEPT ![t] = NoAsk]
    /\ checking' = FALSE
    /\ IF asks[t].stage = "failed" THEN notice' = "error" /\ UNCHANGED status
       ELSE /\ status' = Used(asks[t].tells)
            /\ notice' = IF asks[t].tells.available THEN "available" ELSE "latest"
    /\ UNCHANGED <<updaterVars, updating, autoEnabled, autoSchedule, savingAuto,
                   turns, settled, waits>>

(* After a success the button stays as it is: the container is about to restart. *)
UpdateAnswered(t) ==
    /\ asks[t].op = "apply" /\ asks[t].stage \in {"ok", "failed"}
    /\ IF asks[t].stage = "failed"
       THEN updating' = FALSE /\ notice' = "error" /\ asks' = [asks EXCEPT ![t] = NoAsk]
       ELSE notice' = "started" /\ UNCHANGED updating /\ asks' = [asks EXCEPT ![t] = NoAsk]
    /\ UNCHANGED <<updaterVars, status, checking, autoEnabled, autoSchedule,
                   savingAuto, turns, settled, waits>>

AutoAnswered(t) ==
    /\ asks[t].op = "auto" /\ asks[t].stage \in {"ok", "failed"}
    /\ savingAuto' = FALSE
    /\ IF asks[t].stage = "failed"
       THEN notice' = "error" /\ asks' = [asks EXCEPT ![t] = NoAsk]
       ELSE notice' = "saved" /\ asks' = [asks EXCEPT ![t] = Ask("status", NoAuto)]
    /\ UNCHANGED <<updaterVars, status, checking, updating, autoEnabled,
                   autoSchedule, turns, settled, waits>>

(* The page opens with a load; it is left and opened again between calls. *)
FirstAsks == [t \in Tickets |-> IF t = 1 THEN Ask("status", NoAuto) ELSE NoAsk]

ReopenUpdates ==
    /\ FreeTickets = Tickets
    /\ status' = Used(NoStatus) /\ checking' = FALSE /\ updating' = FALSE
    /\ autoEnabled' = FALSE /\ autoSchedule' = "weekly" /\ savingAuto' = FALSE /\ notice' = ""
    /\ settled' = FALSE
    /\ asks' = FirstAsks
    /\ UNCHANGED <<updaterVars, turns, waits>>

-----------------------------------------------------------------------------
UpdatesInit ==
    /\ docker \in BOOLEAN /\ behind = TRUE /\ available = FALSE
    /\ auto = NoAuto /\ savedAuto = NoAuto /\ updatingBy = {} /\ helper = FALSE
    /\ restarts = 0 /\ loop = "rest"
    /\ status = Used(NoStatus) /\ checking = FALSE /\ updating = FALSE
    /\ autoEnabled = FALSE /\ autoSchedule = "weekly" /\ savingAuto = FALSE /\ notice = ""
    /\ asks = FirstAsks /\ turns = 0 /\ settled = FALSE /\ waits \in BOOLEAN

Serves(t) == ServeStatus(t) \/ ServeCheck(t) \/ ServeApply(t) \/ ServeAuto(t)
Answers(t) == LoadStatus(t) \/ CheckAnswered(t) \/ UpdateAnswered(t) \/ AutoAnswered(t)

UpdatesNext ==
    \/ AutoUpdateLoop \/ Restart
    \/ HandleCheck \/ HandleUpdate \/ TurnAuto \/ HandleSaveAuto \/ ReopenUpdates
    \/ \E t \in Tickets : Serves(t) \/ Answers(t)

(* Every call is answered; users, the registry and the helper owe nothing. *)
UpdatesFairness ==
    \A t \in Tickets : WF_updatesVars(Serves(t)) /\ WF_updatesVars(Answers(t))

UpdatesSpec == UpdatesInit /\ [][UpdatesNext]_updatesVars /\ UpdatesFairness

-----------------------------------------------------------------------------
(* The page's button, other requests and the updater's own loop never pull at once
   (ApplyUpdate looks at the flag and raises it under one lock). *)
OneUpdateAtATime == Cardinality(updatingBy) <= 1

(* When the page says the automatic settings were saved, to a user who waits for answers
   and touched nothing since, they are what the page shows, what the table keeps and what
   the updater goes by, across crashes and updates, unless it was restarted without the
   docker socket (handleSaveAuto, SetAutoUpdate, New, loadSettings). *)
AutoIsKept ==
    waits /\ FreeTickets = Tickets /\ notice = "saved" /\ settled /\ (docker \/ restarts = 0) =>
        /\ auto = [enabled |-> autoEnabled, timetable |-> autoSchedule]
        /\ savedAuto = auto

(* Checks and saves end, and the button of an update comes back unless the helper that
   restarts the container was launched, which is when the page leaves it locked, or the
   process restarted. *)
UpdatesEnd ==
    /\ []<>~checking /\ []<>~savingAuto
    /\ []<>(updating => helper \/ restarts > 0)
=============================================================================
