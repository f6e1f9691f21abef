---------------------------- MODULE DashboardPage ----------------------------
(***************************************************************************)
(* The panels of the dashboard.  Three lists are polled every ten seconds, *)
(* five are asked for once when the page opens, and the control surface    *)
(* polls the servers every five seconds on its own.  Every request fails   *)
(* or answers by itself, without the others, and a failure is ignored; so  *)
(* a behaviour follows one topic, chosen at the start, from the server to  *)
(* the panel that shows it.                                                *)
(*                                                                         *)
(* A topic's content is a short list of items that a panel tells apart: an *)
(* "on" item is an open throttle event, a blocked server or an enabled     *)
(* schedule.  Slips are named after their definition and a word            *)
(* (AnswerLost_clears); no behaviour takes them.                           *)
(***************************************************************************)
EXTENDS Naturals, Sequences

CONSTANTS Requests,    \* requests of the topic at once (bound)
          MaxChanges,  \* changes on the server (bound)
          MaxFaults,   \* requests that fail (bound)
          MaxOpens,    \* visits to the page (bound)
          RecentRows   \* rows a panel has room for: 5 in the code

ASSUME DashboardAssumption ==
    Requests # {} /\ MaxChanges \in Nat /\ MaxFaults \in Nat /\ MaxOpens \in Nat \ {0}
    /\ RecentRows \in Nat \ {0}

Polled == {"usage", "throttles", "health", "groups"}
Once == {"history", "schedules", "speedtests", "daily", "update"}
Single == {"usage", "update"}    \* one record, not a list
Items == {"on", "off"}
Contents == UNION {[1 .. n -> Items] : n \in 0 .. 2}
ContentsOf(t) == {c \in Contents : t \in Single => Len(c) = 1}
Pending(c) == {c}

VARIABLES
    topic,
    content,    \* on the server
    known,      \* the page's state of the topic, <<>> before an answer
    requests,   \* [Requests -> {} or the answer that is on its way]
    asked,      \* the page asked since it was opened
    streaming,  \* stats.running
    changes, faults, opens

dashboardVars == <<topic, content, known, requests, asked, streaming, changes, faults, opens>>

DashboardTypeOK ==
    /\ topic \in Polled \cup Once
    /\ content \in ContentsOf(topic) /\ known \in ContentsOf(topic) \cup {<<>>}
    /\ \A r \in Requests : requests[r] = {} \/ \E c \in Contents : requests[r] = Pending(c)
    /\ {asked, streaming} \subseteq BOOLEAN
    /\ changes \in 0 .. MaxChanges /\ faults \in 0 .. MaxFaults /\ opens \in 1 .. MaxOpens

-----------------------------------------------------------------------------
(* The panels: what each shows of its topic, {} when it is not on the page *)

SwitchedOn(l) == SelectSeq(l, LAMBDA i : i = "on")
Recent(l) == IF Len(l) > RecentRows THEN SubSeq(l, 1, RecentRows) ELSE l
Oldest(l) == [i \in 1 .. Len(l) |-> l[Len(l) + 1 - i]]    \* reversed

LastDay(l) == IF ~streaming /\ l # <<>> THEN {[chart |-> l]} ELSE {}
UsageCards(l) == IF l # <<>> THEN {[figures |-> l[1]]} ELSE {}
ThrottleMonitor(l) == {[active |-> Len(SwitchedOn(l)), rows |-> Recent(l)]}
DailyChart(l) == IF l # <<>> THEN {[bars |-> l]} ELSE {}
TopProvidersPanel(l) == IF l # <<>> THEN {[rows |-> l]} ELSE {}
ServerReliability(l) == {[blocked |-> Len(SwitchedOn(l))]}
SpeedHistory(l) == {[tests |-> Oldest(Recent(l))]}
ScheduleOverview(l) == {[active |-> Len(SwitchedOn(l)), of |-> Len(l), rows |-> Recent(l)]}
SystemStatus(l) == IF l # <<>> THEN {[available |-> l[1]]} ELSE {}
EngineConfiguration(l) == {[throttleEvents |-> Len(l)]}

Panels(t, l) ==
    CASE t = "history" -> LastDay(l)
      [] t = "usage" -> UsageCards(l)
      [] t = "throttles" -> ThrottleMonitor(l) \cup EngineConfiguration(l)
      [] t = "daily" -> DailyChart(l)
      [] t = "health" -> TopProvidersPanel(l) \cup ServerReliability(l)
      [] t = "groups" -> {[rows |-> l]}
      [] t = "speedtests" -> SpeedHistory(l)
      [] t = "schedules" -> ScheduleOverview(l)
      [] t = "update" -> SystemStatus(l)

-----------------------------------------------------------------------------
ContentChanges ==
    /\ changes < MaxChanges /\ changes' = changes + 1
    /\ content' \in ContentsOf(topic) \ {content}
    /\ UNCHANGED <<topic, known, requests, asked, streaming, faults, opens>>

StreamingChanges ==
    /\ streaming' = ~streaming
    /\ UNCHANGED <<topic, content, known, requests, asked, changes, faults, opens>>

(* The effect of the page: once when it opens, for a polled topic then every time the
   timer fires, whether or not the last request was answered. *)
Fetch_once ==
    /\ ~asked /\ asked' = TRUE
    /\ \E r \in Requests : requests[r] = {} /\ requests' = [requests EXCEPT ![r] = Pending(content)]
    /\ UNCHANGED <<topic, content, known, streaming, changes, faults, opens>>

Fetch ==
    /\ topic \in Once => ~asked
    /\ asked' = TRUE
    /\ \E r \in Requests : requests[r] = {} /\ requests' = [requests EXCEPT ![r] = Pending(content)]
    /\ UNCHANGED <<topic, content, known, streaming, changes, faults, opens>>

Answer(r) ==
    /\ requests[r] # {} /\ requests' = [requests EXCEPT ![r] = {}]
    /\ known' \in requests[r]
    /\ UNCHANGED <<topic, content, asked, streaming, changes, faults, opens>>

(* catch(() => {}): what was known stays. *)
AnswerLost_clears(r) ==
    /\ requests[r] # {} /\ requests' = [requests EXCEPT ![r] = {}]
    /\ faults < MaxFaults /\ faults' = faults + 1
    /\ known' = <<>>
    /\ UNCHANGED <<topic, content, asked, streaming, changes, opens>>

AnswerLost(r) ==
    /\ requests[r] # {} /\ requests' = [requests EXCEPT ![r] = {}]
    /\ faults < MaxFaults /\ faults' = faults + 1
    /\ UNCHANGED <<topic, content, known, asked, streaming, changes, opens>>

(* The page is left and opened again: answers under way come back to nothing. *)
OpenAgain ==
    /\ opens < MaxOpens /\ opens' = opens + 1
    /\ known' = <<>> /\ asked' = FALSE /\ requests' = [r \in Requests |-> {}]
    /\ UNCHANGED <<topic, content, streaming, changes, faults>>

DashboardInit ==
    /\ topic \in Polled \cup Once
    /\ content \in {c \in ContentsOf(topic) : Len(c) <= 1}
    /\ known = <<>> /\ requests = [r \in Requests |-> {}] /\ asked = FALSE
    /\ streaming = FALSE /\ changes = 0 /\ faults = 0 /\ opens = 1

DashboardNext == \/ ContentChanges \/ StreamingChanges \/ Fetch \/ OpenAgain
                 \/ \E r \in Requests : Answer(r) \/ AnswerLost(r)

(* The effects run, the timer fires and requests end. *)
DashboardFairness ==
    /\ WF_dashboardVars(Fetch)
    /\ \A r \in Requests : WF_dashboardVars(Answer(r))

DashboardSpec == DashboardInit /\ [][DashboardNext]_dashboardVars /\ DashboardFairness

-----------------------------------------------------------------------------
(* What a panel shows changes only by an answer, by the start or the end of a session, or
   by leaving the page: a request that fails, overtakes another or is never answered takes
   nothing away (the catch of each request). *)
PanelsStay ==
    [][ \/ Panels(topic, known)' = Panels(topic, known)
        \/ \E r \in Requests : known' \in requests[r]
        \/ topic = "history" /\ streaming' # streaming
        \/ opens' > opens ]_dashboardVars

(* A polled panel comes to show what the server holds and keeps showing it, though polls
   fail, overlap and overtake each other: content changes, requests fail and the page is
   opened a bounded number of times. *)
PanelsAreCurrent == topic \in Polled => Panels(topic, known) = Panels(topic, content)
=============================================================================
