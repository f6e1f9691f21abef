----------------------------- MODULE ChartsPage -----------------------------
(***************************************************************************)
(* The charts page and the throttle log under it.  Choosing a range loads  *)
(* its history and all throttle events together; a load is not cancelled   *)
(* by the next one, so answers may overtake each other, and the first to   *)
(* end takes the spinner away.  Daily usage and speed tests are asked for  *)
(* once, and the log asks for the events on its own.                       *)
(*                                                                         *)
(* Ranges are numbered from the shortest; an event is its age, the number  *)
(* of the shortest range that it lies in, and whether it is still open.    *)
(* Slips are named after their definition and a word (ChooseRange_noLoad); *)
(* no behaviour takes them.                                                *)
(***************************************************************************)
EXTENDS Naturals, FiniteSets

CONSTANTS MaxRange,   \* ranges: 4 in the code
          Loads,      \* loads at once (bound)
          MaxEvents,  \* throttle events on the server (bound)
          MaxClicks   \* ranges chosen (bound)

ASSUME ChartsAssumption ==
    MaxRange \in Nat \ {0} /\ Loads # {} /\ IsFiniteSet(Loads) /\ MaxEvents \in Nat /\ MaxClicks \in Nat

Ranges == 1 .. MaxRange
ThrottleEvents == [age : Ranges, open : BOOLEAN]
NoLoad == [stage |-> "none", range |-> 1, points |-> FALSE, events |-> {}]
AskRange(r) == [stage |-> "sent", range |-> r, points |-> FALSE, events |-> {}]
SideStages == {"sent", "failed", "shown"}

VARIABLES
    serverEvents,
    range, history,        \* history: the range of the points shown, and whether there are any
    throttleEvents, chartLoading, chartError,
    loads,                 \* [Loads -> load]
    logStage, logEvents,   \* the log's own request, and what it shows
    dailyShown, speedsShown,
    clicks, unhurried      \* unhurried: the user waits for a range before the next

chartsVars == <<serverEvents, range, history, throttleEvents, chartLoading, chartError, loads,
                logStage, logEvents, dailyShown, speedsShown, clicks, unhurried>>
logVars == <<logStage, logEvents>>
sideVars == <<dailyShown, speedsShown>>

-----------------------------------------------------------------------------
(* What is shown *)

(* rangeStart and filteredEvents: by the beginning of an event. *)
FilteredEvents == {e \in throttleEvents : e.age <= range}

ChartScreen ==
    CASE chartLoading -> "loading"
      [] ~chartLoading /\ chartError -> "error"
      [] ~chartLoading /\ ~chartError /\ ~history.points -> "no data"
      [] OTHER -> "chart"

Marks == IF ChartScreen = "chart" THEN FilteredEvents ELSE {}

DailyPanel == IF dailyShown THEN {"bars"} ELSE {}
SpeedPanel == IF speedsShown THEN {"scatter"} ELSE {}

(* activeCount, and the screens of the log. *)
ActiveCount == Cardinality({e \in logEvents : e.open})

LogScreen ==
    CASE logStage = "sent" -> "loading"
      [] logStage = "failed" -> "error"
      [] logStage = "shown" /\ logEvents = {} -> "clear"
      [] OTHER -> IF ActiveCount > 0 THEN "active" ELSE "clear, with rows"

(* Types, and nothing is shown that never was on the server. *)
ChartsTypeOK ==
    /\ {serverEvents, throttleEvents, logEvents} \subseteq SUBSET ThrottleEvents
    /\ range \in Ranges /\ history \in [range : Ranges, points : BOOLEAN]
    /\ {chartLoading, chartError, dailyShown, speedsShown, unhurried} \subseteq BOOLEAN
    /\ \A l \in Loads : loads[l].stage \in {"none", "sent", "ok", "failed"} /\ loads[l].range \in Ranges
    /\ logStage \in SideStages /\ clicks \in 0 .. MaxClicks
    /\ Marks \subseteq serverEvents
    /\ DailyPanel \cup SpeedPanel \subseteq {"bars", "scatter"}
    /\ LogScreen = "active" => \E e \in serverEvents : e.open

-----------------------------------------------------------------------------
EventHappens ==
    /\ Cardinality(serverEvents) < MaxEvents
    /\ \E e \in ThrottleEvents : serverEvents' = serverEvents \cup {e}
    /\ UNCHANGED <<range, history, throttleEvents, chartLoading, chartError, loads, logVars,
                   sideVars, clicks, unhurried>>

Quiet == \A l \in Loads : loads[l] = NoLoad

(* loadData: the spinner, no error, and two requests that succeed or fail as one. *)
LoadData(r) ==
    /\ chartLoading' = TRUE /\ chartError' = FALSE
    /\ \E l \in Loads : loads[l] = NoLoad /\ loads' = [loads EXCEPT ![l] = AskRange(r)]

(* A range button: the effect loads when the range is another one. *)
ChooseRange_noLoad(r) ==
    /\ clicks < MaxClicks /\ clicks' = clicks + 1 /\ (unhurried => Quiet)
    /\ r # range /\ range' = r
    /\ UNCHANGED <<serverEvents, history, throttleEvents, chartLoading, chartError, loads,
                   logVars, sideVars, unhurried>>

ChooseRange(r) ==
    /\ clicks < MaxClicks /\ clicks' = clicks + 1 /\ (unhurried => Quiet)
    /\ r # range /\ range' = r
    /\ LoadData(r)
    /\ UNCHANGED <<serverEvents, history, throttleEvents, logVars, sideVars, unhurried>>

LoadServed(l) ==
    /\ loads[l].stage = "sent"
    /\ \/ \E points \in BOOLEAN :
             loads' = [loads EXCEPT ![l].stage = "ok", ![l].points = points, ![l].events = serverEvents]
       \/ loads' = [loads EXCEPT ![l].stage = "failed"]
    /\ UNCHANGED <<serverEvents, range, history, throttleEvents, chartLoading, chartError,
                   logVars, sideVars, clicks, unhurried>>

LoadEnds(l) ==
    /\ loads[l].stage \in {"ok", "failed"} /\ loads' = [loads EXCEPT ![l] = NoLoad]
    /\ chartLoading' = FALSE
    /\ IF loads[l].stage = "ok"
       THEN /\ history' = [range |-> loads[l].range, points |-> loads[l].points]
            /\ throttleEvents' = loads[l].events
            /\ UNCHANGED chartError
       ELSE chartError' = TRUE /\ UNCHANGED <<history, throttleEvents>>
    /\ UNCHANGED <<serverEvents, range, logVars, sideVars, clicks, unhurried>>

(* The side requests: the panels stay away when they fail; the log says so. *)
SideShown ==
    /\ \/ dailyShown' = TRUE /\ UNCHANGED speedsShown
       \/ speedsShown' = TRUE /\ UNCHANGED dailyShown
    /\ UNCHANGED <<serverEvents, range, history, throttleEvents, chartLoading, chartError,
                   loads, logVars, clicks, unhurried>>

LogAnswered ==
    /\ logStage = "sent"
    /\ \/ logStage' = "shown" /\ logEvents' = serverEvents
       \/ logStage' = "failed" /\ UNCHANGED logEvents
    /\ UNCHANGED <<serverEvents, range, history, throttleEvents, chartLoading, chartError,
                   loads, sideVars, clicks, unhurried>>

FirstLoads == [l \in Loads |-> IF l = CHOOSE x \in Loads : TRUE THEN AskRange(1) ELSE NoLoad]

(* The page is left and opened again once its requests have ended. *)
ReopenCharts ==
    /\ Quiet /\ logStage # "sent"
    /\ range' = 1 /\ history' = [range |-> 1, points |-> FALSE] /\ throttleEvents' = {}
    /\ chartLoading' = TRUE /\ chartError' = FALSE /\ loads' = FirstLoads
    /\ logStage' = "sent" /\ logEvents' = {}
    /\ dailyShown' = FALSE /\ speedsShown' = FALSE
    /\ UNCHANGED <<serverEvents, clicks, unhurried>>

-----------------------------------------------------------------------------
ChartsInit ==
    /\ serverEvents = {} /\ range = 1 /\ history = [range |-> 1, points |-> FALSE]
    /\ throttleEvents = {} /\ chartLoading = TRUE /\ chartError = FALSE /\ loads = FirstLoads
    /\ logStage = "sent" /\ logEvents = {} /\ dailyShown = FALSE /\ speedsShown = FALSE
    /\ clicks = 0 /\ unhurried \in BOOLEAN

ChartsNext ==
    \/ EventHappens \/ SideShown \/ LogAnswered \/ ReopenCharts
    \/ \E r \in Ranges : ChooseRange(r)
    \/ \E l \in Loads : LoadServed(l) \/ LoadEnds(l)

(* Requests end. *)
ChartsFairness ==
    /\ WF_chartsVars(LogAnswered)
    /\ \A l \in Loads : WF_chartsVars(LoadServed(l) \/ LoadEnds(l))

ChartsSpec == ChartsInit /\ [][ChartsNext]_chartsVars /\ ChartsFairness

-----------------------------------------------------------------------------
(* To a user who waits for a range before choosing the next, a chart at rest is a chart of
   the chosen range (the effect on range, loadData). *)
ChartIsOfItsRange == unhurried /\ Quiet /\ ChartScreen = "chart" => history.range = range

=============================================================================
