----------------------------- MODULE Reads_proof -----------------------------
(***************************************************************************)
(* What is proved of the pages that show what the server knows, for every  *)
(* value of their constants: the chart belongs to the chosen range, a      *)
(* panel of the dashboard changes by an answer only, the groupings of      *)
(* servers lose nothing, and every page keeps within its types (MCReads).  *)
(***************************************************************************)
EXTENDS MCReads, Loops, SequenceTheorems

-----------------------------------------------------------------------------
(* ChartsPage *)

LoadRecords == [stage : {"none", "sent", "ok", "failed"}, range : Ranges, points : BOOLEAN,
                events : SUBSET ThrottleEvents]

LEMMA ChartsBounds == /\ MaxRange \in Nat /\ MaxRange # 0 /\ 1 \in Ranges /\ Loads # {}
                      /\ MaxEvents \in Nat /\ MaxClicks \in Nat
  BY ChartsAssumption DEF Ranges

(* The types, with where events may be: none is known to the page before it is on the server. *)
ChartsInv ==
    /\ serverEvents \subseteq ThrottleEvents
    /\ throttleEvents \subseteq serverEvents /\ logEvents \subseteq serverEvents
    /\ range \in Ranges /\ history \in [range : Ranges, points : BOOLEAN]
    /\ chartLoading \in BOOLEAN /\ chartError \in BOOLEAN
    /\ dailyShown \in BOOLEAN /\ speedsShown \in BOOLEAN /\ unhurried \in BOOLEAN
    /\ loads \in [Loads -> LoadRecords]
    /\ \A l \in Loads : loads[l].events \subseteq serverEvents
    /\ logStage \in SideStages /\ clicks \in 0 .. MaxClicks

(* Whoever waits has at most one load under way, which is of the chosen range; when it is
   over, the points shown are of that range or an error is. *)
LoadsFollow ==
    unhurried =>
       /\ \A l \in Loads : loads[l] # NoLoad =>
             /\ loads[l].range = range
             /\ \A k \in Loads : loads[k] # NoLoad => k = l
       /\ Quiet => chartError \/ history.range = range

LEMMA FirstLoadIsOfRange1 ==
    /\ FirstLoads \in [Loads -> LoadRecords]
    /\ \A l \in Loads : FirstLoads[l].events = {} /\ FirstLoads[l].range = 1
    /\ \A k, l \in Loads : FirstLoads[k] # NoLoad /\ FirstLoads[l] # NoLoad => k = l
    /\ \E l \in Loads : FirstLoads[l] # NoLoad
<1> DEFINE first == CHOOSE x \in Loads : TRUE
<1>1. first \in Loads
  BY ChartsBounds
<1> HIDE DEF first
<1>2. FirstLoads = [l \in Loads |-> IF l = first THEN AskRange(1) ELSE NoLoad]
  BY DEF FirstLoads, first
<1>3. NoLoad \in LoadRecords /\ AskRange(1) \in LoadRecords /\ AskRange(1) # NoLoad
  BY ChartsBounds DEF NoLoad, AskRange, LoadRecords
<1>4. NoLoad.events = {} /\ NoLoad.range = 1 /\ AskRange(1).events = {} /\ AskRange(1).range = 1
  BY DEF NoLoad, AskRange
<1> QED
  BY <1>1, <1>2, <1>3, <1>4

LEMMA ChartsInvInit == ChartsInit => ChartsInv /\ LoadsFollow
<1> SUFFICES ASSUME ChartsInit PROVE ChartsInv /\ LoadsFollow
  OBVIOUS
<1>1. ChartsInv
  <2>1. 0 \in 0 .. MaxClicks /\ [range |-> 1, points |-> FALSE] \in [range : Ranges, points : BOOLEAN]
    BY ChartsBounds
  <2>2. loads = FirstLoads /\ serverEvents = {}
    BY DEF ChartsInit
  <2>3. loads \in [Loads -> LoadRecords] /\ \A l \in Loads : loads[l].events \subseteq serverEvents
    BY <2>2, FirstLoadIsOfRange1
  <2> QED
    BY <2>1, <2>3, ChartsBounds DEF ChartsInit, ChartsInv, SideStages
<1>2. LoadsFollow
  BY FirstLoadIsOfRange1 DEF ChartsInit, LoadsFollow, Quiet
<1> QED
  BY <1>1, <1>2

LEMMA ChartsInvStep == ChartsInv /\ LoadsFollow /\ [ChartsNext]_chartsVars => ChartsInv' /\ LoadsFollow'
<1> SUFFICES ASSUME ChartsInv, LoadsFollow, [ChartsNext]_chartsVars PROVE ChartsInv' /\ LoadsFollow'
  OBVIOUS
<1>0. /\ serverEvents \subseteq ThrottleEvents
      /\ throttleEvents \subseteq serverEvents /\ logEvents \subseteq serverEvents
      /\ range \in Ranges /\ history \in [range : Ranges, points : BOOLEAN]
      /\ chartLoading \in BOOLEAN /\ chartError \in BOOLEAN
      /\ dailyShown \in BOOLEAN /\ speedsShown \in BOOLEAN /\ unhurried \in BOOLEAN
      /\ loads \in [Loads -> LoadRecords]
      /\ \A l \in Loads : loads[l].events \subseteq serverEvents
      /\ logStage \in SideStages /\ clicks \in 0 .. MaxClicks
  BY DEF ChartsInv
<1>1. UNCHANGED <<loads, range, history, chartError, unhurried>> => LoadsFollow'
  BY DEF LoadsFollow, Quiet
<1>2. CASE EventHappens
  <2>1. serverEvents \subseteq serverEvents' /\ serverEvents' \subseteq ThrottleEvents
    BY <1>0, <1>2 DEF EventHappens
  <2>2. /\ UNCHANGED <<range, history, throttleEvents, chartLoading, chartError, loads, clicks, unhurried>>
        /\ UNCHANGED <<logStage, logEvents, dailyShown, speedsShown>>
    BY <1>2 DEF EventHappens, logVars, sideVars
  <2>3. \A l \in Loads : loads'[l].events \subseteq serverEvents'
    BY <1>0, <2>1, <2>2
  <2> QED
    BY <1>0, <1>1, <2>1, <2>2, <2>3 DEF ChartsInv
<1>3. CASE SideShown
  <2>1. /\ UNCHANGED <<serverEvents, range, history, throttleEvents, chartLoading, chartError, loads, clicks,
                       unhurried, logStage, logEvents>>
        /\ dailyShown' \in BOOLEAN /\ speedsShown' \in BOOLEAN
    BY <1>0, <1>3 DEF SideShown, logVars
  <2> QED
    BY <1>0, <1>1, <2>1 DEF ChartsInv
<1>4. CASE LogAnswered
  <2>1. /\ UNCHANGED <<serverEvents, range, history, throttleEvents, chartLoading, chartError, loads, clicks,
                       unhurried, dailyShown, speedsShown>>
        /\ logStage' \in SideStages /\ logEvents' \subseteq serverEvents
    BY <1>0, <1>4 DEF LogAnswered, sideVars, SideStages
  <2> QED
    BY <1>0, <1>1, <2>1 DEF ChartsInv
<1>5. CASE ReopenCharts
  <2>1. /\ UNCHANGED <<serverEvents, clicks, unhurried>>
        /\ range' = 1 /\ history' = [range |-> 1, points |-> FALSE] /\ throttleEvents' = {}
        /\ chartLoading' = TRUE /\ chartError' = FALSE /\ loads' = FirstLoads
        /\ logStage' = "sent" /\ logEvents' = {} /\ dailyShown' = FALSE /\ speedsShown' = FALSE
    BY <1>5 DEF ReopenCharts
  <2>2. ChartsInv'
    BY <1>0, <2>1, FirstLoadIsOfRange1, ChartsBounds DEF ChartsInv, SideStages
  <2>3. LoadsFollow'
    BY <2>1, FirstLoadIsOfRange1 DEF LoadsFollow, Quiet
  <2> QED
    BY <2>2, <2>3
<1>6. ASSUME NEW r \in Ranges, ChooseRange(r) PROVE ChartsInv' /\ LoadsFollow'
  <2>1. PICK l \in Loads : loads[l] = NoLoad /\ loads' = [loads EXCEPT ![l] = AskRange(r)]
    BY <1>6 DEF ChooseRange, LoadData
  <2>2. /\ UNCHANGED <<serverEvents, history, throttleEvents, unhurried, logStage, logEvents, dailyShown, speedsShown>>
        /\ range' = r /\ chartLoading' = TRUE /\ chartError' = FALSE
        /\ clicks < MaxClicks /\ clicks' = clicks + 1
        /\ unhurried => Quiet
    BY <1>6 DEF ChooseRange, LoadData, logVars, sideVars
  <2>3. AskRange(r) \in LoadRecords /\ AskRange(r).events = {} /\ AskRange(r).range = r /\ AskRange(r) # NoLoad
    BY DEF AskRange, NoLoad, LoadRecords
  <2>4. /\ loads' \in [Loads -> LoadRecords] /\ loads'[l] = AskRange(r)
        /\ \A k \in Loads : k # l => loads'[k] = loads[k]
    BY <1>0, <2>1, <2>3
  <2>5. clicks' \in 0 .. MaxClicks
    BY <1>0, <2>2, ChartsBounds
  <2>6. \A k \in Loads : loads'[k].events \subseteq serverEvents
    BY <1>0, <2>3, <2>4
  <2>7. ChartsInv'
    BY <1>0, <2>2, <2>4, <2>5, <2>6 DEF ChartsInv
  <2>8. unhurried => \A k \in Loads : loads'[k] # NoLoad => k = l
    BY <2>2, <2>4 DEF Quiet
  <2>9. LoadsFollow'
    BY <2>2, <2>3, <2>4, <2>8 DEF LoadsFollow, Quiet
  <2> QED
    BY <2>7, <2>9
<1>7. ASSUME NEW l \in Loads, LoadServed(l) PROVE ChartsInv' /\ LoadsFollow'
  <2>1. PICK load : /\ loads' = [loads EXCEPT ![l] = load]
                    /\ load \in LoadRecords /\ load.events \subseteq serverEvents
                    /\ load.range = loads[l].range /\ load.stage \in {"ok", "failed"}
    <3>1. loads[l] \in LoadRecords
      BY <1>0
    <3>2. CASE loads' = [loads EXCEPT ![l].stage = "failed"]
      <4> DEFINE load == [loads[l] EXCEPT !.stage = "failed"]
      <4>1. loads' = [loads EXCEPT ![l] = load]
        BY <3>2
      <4>2. /\ load \in LoadRecords /\ load.events = loads[l].events
            /\ load.range = loads[l].range /\ load.stage = "failed"
        BY <3>1 DEF LoadRecords
      <4> HIDE DEF load
      <4> QED
        BY <1>0, <4>1, <4>2
    <3>3. ASSUME NEW points \in BOOLEAN,
                 loads' = [loads EXCEPT ![l].stage = "ok", ![l].points = points, ![l].events = serverEvents]
          PROVE  \E load : /\ loads' = [loads EXCEPT ![l] = load]
                           /\ load \in LoadRecords /\ load.events \subseteq serverEvents
                           /\ load.range = loads[l].range /\ load.stage \in {"ok", "failed"}
      <4> DEFINE load == [[[loads[l] EXCEPT !.stage = "ok"] EXCEPT !.points = points] EXCEPT !.events = serverEvents]
      <4>1. loads' = [loads EXCEPT ![l] = load]
        BY <3>3, <1>0
      <4>2. /\ load \in LoadRecords /\ load.events = serverEvents
            /\ load.range = loads[l].range /\ load.stage = "ok"
        BY <3>1, <1>0 DEF LoadRecords
      <4> HIDE DEF load
      <4> QED
        BY <4>1, <4>2
    <3> QED
      BY <1>7, <3>2, <3>3 DEF LoadServed
  <2>2. /\ UNCHANGED <<serverEvents, range, history, throttleEvents, chartLoading, chartError, clicks, unhurried>>
        /\ UNCHANGED <<logStage, logEvents, dailyShown, speedsShown>>
    BY <1>7 DEF LoadServed, logVars, sideVars
  <2>3. load # NoLoad /\ loads[l] # NoLoad
    <3>1. NoLoad.stage = "none"
      BY DEF NoLoad
    <3>2. loads[l].stage = "sent"
      BY <1>7 DEF LoadServed
    <3> QED
      BY <2>1, <3>1, <3>2
  <2>4. /\ loads' \in [Loads -> LoadRecords] /\ loads'[l] = load
        /\ \A k \in Loads : k # l => loads'[k] = loads[k]
    BY <1>0, <2>1
  <2>5. \A k \in Loads : loads'[k].events \subseteq serverEvents
    BY <1>0, <2>1, <2>4
  <2>6. ChartsInv'
    BY <1>0, <2>2, <2>4, <2>5 DEF ChartsInv
  <2>7. \A k \in Loads : (loads'[k] # NoLoad <=> loads[k] # NoLoad) /\ loads'[k].range = loads[k].range
    BY <2>1, <2>3, <2>4
  <2>8. LoadsFollow'
    BY <2>2, <2>7 DEF LoadsFollow, Quiet
  <2> QED
    BY <2>6, <2>8
<1>8. ASSUME NEW l \in Loads, LoadEnds(l) PROVE ChartsInv' /\ LoadsFollow'
  <2>1. /\ loads[l].stage \in {"ok", "failed"} /\ loads' = [loads EXCEPT ![l] = NoLoad]
        /\ chartLoading' = FALSE
        /\ UNCHANGED <<serverEvents, range, clicks, unhurried, logStage, logEvents, dailyShown, speedsShown>>
    BY <1>8 DEF LoadEnds, logVars, sideVars
  <2>2. NoLoad \in LoadRecords /\ NoLoad.events = {} /\ loads[l] # NoLoad /\ loads[l] \in LoadRecords
    BY <1>0, <2>1, ChartsBounds DEF NoLoad, LoadRecords
  <2>3. /\ loads' \in [Loads -> LoadRecords] /\ loads'[l] = NoLoad
        /\ \A k \in Loads : k # l => loads'[k] = loads[k]
    BY <1>0, <2>1, <2>2
  <2>4. \/ /\ history' = [range |-> loads[l].range, points |-> loads[l].points]
           /\ throttleEvents' = loads[l].events /\ chartError' = chartError
        \/ chartError' = TRUE /\ UNCHANGED <<history, throttleEvents>>
    BY <1>8 DEF LoadEnds
  <2>5. /\ history' \in [range : Ranges, points : BOOLEAN] /\ throttleEvents' \subseteq serverEvents
        /\ chartError' \in BOOLEAN
    <3>1. loads[l].range \in Ranges /\ loads[l].points \in BOOLEAN /\ loads[l].events \subseteq serverEvents
      BY <1>0, <2>2 DEF LoadRecords
    <3>2. [range |-> loads[l].range, points |-> loads[l].points] \in [range : Ranges, points : BOOLEAN]
      BY <3>1
    <3>3. history' \in [range : Ranges, points : BOOLEAN]
      BY <1>0, <2>4, <3>2
    <3> QED
      BY <1>0, <2>4, <3>1, <3>3
  <2>6. \A k \in Loads : loads'[k].events \subseteq serverEvents
    BY <1>0, <2>2, <2>3
  <2>7. ChartsInv'
    BY <1>0, <2>1, <2>3, <2>5, <2>6 DEF ChartsInv
  <2>8. unhurried => loads[l].range = range /\ \A k \in Loads : loads'[k] = NoLoad
    BY <2>2, <2>3 DEF LoadsFollow
  <2>9. unhurried => chartError' \/ history'.range = range
    BY <2>4, <2>8
  <2>10. LoadsFollow'
    BY <2>1, <2>8, <2>9 DEF LoadsFollow
  <2> QED
    BY <2>7, <2>10
<1>9. CASE UNCHANGED chartsVars
  BY <1>0, <1>1, <1>9 DEF ChartsInv, chartsVars, logVars, sideVars
<1> QED
  BY <1>2, <1>3, <1>4, <1>5, <1>6, <1>7, <1>8, <1>9 DEF ChartsNext

LEMMA ChartsTypes == ChartsInv => ChartsTypeOK
<1> SUFFICES ASSUME ChartsInv PROVE ChartsTypeOK
  OBVIOUS
<1>1. Marks \subseteq serverEvents
  BY DEF ChartsInv, Marks, FilteredEvents
<1>2. DailyPanel \cup SpeedPanel \subseteq {"bars", "scatter"}
  BY DEF DailyPanel, SpeedPanel
<1>3. ASSUME LogScreen = "active" PROVE \E e \in serverEvents : e.open
  <2>1. ActiveCount > 0
    BY <1>3 DEF LogScreen
  <2>2. {e \in logEvents : e.open} # {}
    <3> DEFINE active == {e \in logEvents : e.open}
    <3>1. Cardinality(active) > 0
      BY <2>1 DEF ActiveCount
    <3>2. Cardinality({}) = 0
      BY FS_EmptySet
    <3> HIDE DEF active
    <3>3. active # {}
      BY <3>1, <3>2
    <3> QED
      BY <3>3 DEF active
  <2> QED
    BY <2>2 DEF ChartsInv
<1>4. \A l \in Loads : loads[l].stage \in {"none", "sent", "ok", "failed"} /\ loads[l].range \in Ranges
  BY DEF ChartsInv, LoadRecords
<1> QED
  BY <1>1, <1>2, <1>3, <1>4 DEF ChartsInv, ChartsTypeOK

(* To a user who waits for a range before choosing the next, a chart at rest is of the chosen
   range, whatever answers fail or come empty and however often the page is opened again
   (loadData of Charts.tsx). *)
THEOREM ChartIsOfItsRangeHolds == ChartsSpec => []ChartIsOfItsRange
<1>1. LoadsFollow => ChartIsOfItsRange
  BY DEF LoadsFollow, ChartIsOfItsRange, ChartScreen
<1> QED
  BY <1>1, ChartsInvInit, ChartsInvStep, PTL DEF ChartsSpec

-----------------------------------------------------------------------------
(* DashboardPage *)

LEMMA DashboardBounds ==
    Requests # {} /\ MaxChanges \in Nat /\ MaxFaults \in Nat /\ MaxOpens \in Nat /\ MaxOpens # 0
  BY DashboardAssumption

(* The types, with what is on its way: an answer of the topic. *)
PanelsInv ==
    /\ topic \in Polled \cup Once
    /\ content \in ContentsOf(topic) /\ known \in ContentsOf(topic) \cup {<<>>}
    /\ requests \in [Requests -> {{}} \cup {Pending(c) : c \in ContentsOf(topic)}]
    /\ asked \in BOOLEAN /\ streaming \in BOOLEAN
    /\ changes \in 0 .. MaxChanges /\ faults \in 0 .. MaxFaults /\ opens \in 1 .. MaxOpens

LEMMA PanelsInit == DashboardInit => PanelsInv
<1> SUFFICES ASSUME DashboardInit PROVE PanelsInv
  OBVIOUS
<1>1. 0 \in 0 .. MaxChanges /\ 0 \in 0 .. MaxFaults /\ 1 \in 1 .. MaxOpens
  BY DashboardBounds
<1>2. requests \in [Requests -> {{}} \cup {Pending(c) : c \in ContentsOf(topic)}]
  BY DEF DashboardInit
<1> QED
  BY <1>1, <1>2 DEF DashboardInit, PanelsInv

LEMMA PanelsStep == PanelsInv /\ [DashboardNext]_dashboardVars => PanelsInv'
<1> SUFFICES ASSUME PanelsInv, [DashboardNext]_dashboardVars PROVE PanelsInv'
  OBVIOUS
<1>0. /\ topic \in Polled \cup Once
      /\ content \in ContentsOf(topic) /\ known \in ContentsOf(topic) \cup {<<>>}
      /\ requests \in [Requests -> {{}} \cup {Pending(c) : c \in ContentsOf(topic)}]
      /\ asked \in BOOLEAN /\ streaming \in BOOLEAN
      /\ changes \in 0 .. MaxChanges /\ faults \in 0 .. MaxFaults /\ opens \in 1 .. MaxOpens
  BY DEF PanelsInv
<1> DEFINE Answers == {{}} \cup {Pending(c) : c \in ContentsOf(topic)}
<1>1. requests \in [Requests -> Answers] /\ {} \in Answers /\ Pending(content) \in Answers
  BY <1>0
<1>2. \A r \in Requests : \A x \in requests[r] : x \in ContentsOf(topic)
  BY <1>0 DEF Pending
<1>3. requests' \in [Requests -> Answers] /\ topic' = topic
      => requests' \in [Requests -> {{}} \cup {Pending(c) : c \in ContentsOf(topic')}]
  OBVIOUS
<1> HIDE DEF Answers
<1>4. CASE ContentChanges
  <2>1. changes' \in 0 .. MaxChanges
    BY <1>0, <1>4, DashboardBounds DEF ContentChanges
  <2> QED
    BY <1>0, <1>4, <2>1 DEF ContentChanges, PanelsInv
<1>5. CASE StreamingChanges
  BY <1>0, <1>5 DEF StreamingChanges, PanelsInv
<1>6. CASE Fetch
  <2>1. requests' \in [Requests -> Answers]
    BY <1>1, <1>6 DEF Fetch
  <2>2. asked' = TRUE /\ UNCHANGED <<topic, content, known, streaming, changes, faults, opens>>
    BY <1>6 DEF Fetch
  <2> QED
    BY <1>0, <1>3, <2>1, <2>2 DEF PanelsInv
<1>7. CASE OpenAgain
  <2>1. requests' \in [Requests -> Answers]
    BY <1>1, <1>7 DEF OpenAgain
  <2>2. opens' \in 1 .. MaxOpens
    BY <1>0, <1>7, DashboardBounds DEF OpenAgain
  <2>3. known' = <<>> /\ asked' = FALSE /\ UNCHANGED <<topic, content, streaming, changes, faults>>
    BY <1>7 DEF OpenAgain
  <2> QED
    BY <1>0, <1>3, <2>1, <2>2, <2>3 DEF PanelsInv
<1>8. ASSUME NEW r \in Requests, Answer(r) PROVE PanelsInv'
  <2>1. requests' \in [Requests -> Answers]
    BY <1>1, <1>8 DEF Answer
  <2>2. known' \in ContentsOf(topic) /\ UNCHANGED <<topic, content, asked, streaming, changes, faults, opens>>
    BY <1>2, <1>8 DEF Answer
  <2> QED
    BY <1>0, <1>3, <2>1, <2>2 DEF PanelsInv
<1>9. ASSUME NEW r \in Requests, AnswerLost(r) PROVE PanelsInv'
  <2>1. requests' \in [Requests -> Answers]
    BY <1>1, <1>9 DEF AnswerLost
  <2>2. faults' \in 0 .. MaxFaults
    BY <1>0, <1>9, DashboardBounds DEF AnswerLost
  <2>3. UNCHANGED <<topic, content, known, asked, streaming, changes, opens>>
    BY <1>9 DEF AnswerLost
  <2> QED
    BY <1>0, <1>3, <2>1, <2>2, <2>3 DEF PanelsInv
<1>10. CASE UNCHANGED dashboardVars
  BY <1>0, <1>10 DEF dashboardVars, PanelsInv
<1> QED
  BY <1>4, <1>5, <1>6, <1>7, <1>8, <1>9, <1>10 DEF DashboardNext

LEMMA DashboardTypes == PanelsInv => DashboardTypeOK
  BY DEF PanelsInv, DashboardTypeOK, ContentsOf

(* Only the chart of the last day depends on the session. *)
LEMMA PanelsOfTopic ==
    ASSUME PanelsInv, UNCHANGED <<topic, known>>, topic = "history" => streaming' = streaming
    PROVE  Panels(topic, known)' = Panels(topic, known)
<1>1. CASE topic = "history"
  BY <1>1 DEF Panels, LastDay
<1>2. CASE topic # "history"
  <2>1. topic \in {"usage", "throttles", "health", "groups", "schedules", "speedtests", "daily", "update"}
    BY <1>2 DEF PanelsInv, Polled, Once
  <2> QED
    BY <1>2, <2>1 DEF Panels
<1> QED
  BY <1>1, <1>2

LEMMA PanelsStayStep ==
    ASSUME PanelsInv, [DashboardNext]_dashboardVars
    PROVE  \/ Panels(topic, known)' = Panels(topic, known)
           \/ \E r \in Requests : known' \in requests[r]
           \/ topic = "history" /\ streaming' # streaming
           \/ opens' > opens
<1>1. CASE ContentChanges \/ Fetch \/ UNCHANGED dashboardVars \/ \E r \in Requests : AnswerLost(r)
  <2>1. UNCHANGED <<topic, known, streaming>>
    BY <1>1 DEF ContentChanges, Fetch, AnswerLost, dashboardVars
  <2> QED
    BY <2>1, PanelsOfTopic
<1>2. CASE StreamingChanges
  <2>1. UNCHANGED <<topic, known>>
    BY <1>2 DEF StreamingChanges
  <2> QED
    BY <2>1, PanelsOfTopic
<1>3. CASE OpenAgain
  <2>1. opens \in Nat /\ opens' = opens + 1
    BY <1>3, DashboardBounds DEF OpenAgain, PanelsInv
  <2> QED
    BY <2>1
<1>4. ASSUME NEW r \in Requests, Answer(r) PROVE \E q \in Requests : known' \in requests[q]
  BY <1>4 DEF Answer
<1> QED
  BY <1>1, <1>2, <1>3, <1>4 DEF DashboardNext

(* A request that fails, overtakes another or is never answered takes nothing off a panel:
   only an answer, the start or end of a session, or leaving the page changes what it shows
   (the requests of Dashboard.tsx, each with its own catch). *)
THEOREM PanelsStayHolds == DashboardSpec => PanelsStay
<1>1. PanelsInv /\ [DashboardNext]_dashboardVars =>
        [ \/ Panels(topic, known)' = Panels(topic, known)
          \/ \E r \in Requests : known' \in requests[r]
          \/ topic = "history" /\ streaming' # streaming
          \/ opens' > opens ]_dashboardVars
  BY PanelsStayStep
<1> QED
  BY <1>1, PanelsInit, PanelsStep, PTL DEF DashboardSpec, PanelsStay

-----------------------------------------------------------------------------
(* ServersPage *)

LEMMA ServersBounds ==
    /\ "download" \in Sections /\ MaxBlocks \in Nat /\ MaxBadPolls \in Nat
    /\ MaxVisits \in Nat /\ MaxVisits # 0 /\ MaxTests \in Nat
  BY ServersAssumption

(* The types: a list is none or one, and a test under way was counted. *)
ListsInv ==
    /\ blocked \in [Sections -> SUBSET Vendors]
    /\ running \in Nat /\ running <= tests /\ marked \in BOOLEAN
    /\ blocks \in 0 .. MaxBlocks /\ tests \in 0 .. MaxTests
    /\ lists \in [Sections -> {{}} \cup {{f} : f \in [Vendors -> Conditions]}]
    /\ pageLoading \in BOOLEAN /\ testing \in BOOLEAN
    /\ collapsed \in [Sections -> BOOLEAN] /\ storage \in [Sections -> BOOLEAN]
    /\ expanded \in [Sections -> SUBSET Vendors] /\ allExpanded \in [Sections -> BOOLEAN]
    /\ polls \in [Polls -> {NotAsked} \cup {Asked(f) : f \in Fleets}]
    /\ reload \in {"none", "measuring", "asked"}
    /\ badPolls \in 0 .. MaxBadPolls /\ visits \in 1 .. MaxVisits

LEMMA ListsInit == ServersInit => ListsInv
<1> SUFFICES ASSUME ServersInit PROVE ListsInv
  OBVIOUS
<1>1. /\ 0 \in 0 .. MaxBlocks /\ 0 \in 0 .. MaxTests /\ 0 \in 0 .. MaxBadPolls /\ 1 \in 1 .. MaxVisits
      /\ 0 \in Nat /\ 0 <= 0
  BY ServersBounds
<1>2. lists \in [Sections -> {{}} \cup {{f} : f \in [Vendors -> Conditions]}]
  BY DEF ServersInit, NoList
<1>3. polls \in [Polls -> {NotAsked} \cup {Asked(f) : f \in Fleets}]
  BY DEF ServersInit
<1> QED
  BY <1>1, <1>2, <1>3 DEF ServersInit, ListsInv

LEMMA FleetIsFleet == fleet \in Fleets
  BY DEF fleet, Fleets, Conditions

LEMMA ListsStep == ListsInv /\ [ServersNext]_serversVars => ListsInv'
<1> SUFFICES ASSUME ListsInv, [ServersNext]_serversVars PROVE ListsInv'
  OBVIOUS
<1>0. /\ blocked \in [Sections -> SUBSET Vendors]
      /\ running \in Nat /\ running <= tests /\ marked \in BOOLEAN
      /\ blocks \in 0 .. MaxBlocks /\ tests \in 0 .. MaxTests
      /\ lists \in [Sections -> {{}} \cup {{f} : f \in [Vendors -> Conditions]}]
      /\ pageLoading \in BOOLEAN /\ testing \in BOOLEAN
      /\ collapsed \in [Sections -> BOOLEAN] /\ storage \in [Sections -> BOOLEAN]
      /\ expanded \in [Sections -> SUBSET Vendors] /\ allExpanded \in [Sections -> BOOLEAN]
      /\ polls \in [Polls -> {NotAsked} \cup {Asked(f) : f \in Fleets}]
      /\ reload \in {"none", "measuring", "asked"}
      /\ badPolls \in 0 .. MaxBadPolls /\ visits \in 1 .. MaxVisits
  BY DEF ListsInv
<1> DEFINE OneList == {{}} \cup {{f} : f \in [Vendors -> Conditions]}
           Poll == {NotAsked} \cup {Asked(f) : f \in Fleets}
<1>a. \A f \in Fleets : \A s \in Sections : {f[s]} \in OneList
  BY DEF Fleets
<1>b. \A p \in Polls : \A f \in polls[p] : f \in Fleets
  BY <1>0 DEF NotAsked, Asked
<1>c. fleet \in Fleets /\ Asked(fleet) \in Poll /\ NotAsked \in Poll /\ {} \in OneList
  BY FleetIsFleet
<1>d. lists \in [Sections -> OneList] /\ polls \in [Polls -> Poll]
  BY <1>0
<1>e. lists' \in [Sections -> OneList] => lists' \in [Sections -> {{}} \cup {{f} : f \in [Vendors -> Conditions]}]
  OBVIOUS
<1>f. polls' \in [Polls -> Poll] => polls' \in [Polls -> {NotAsked} \cup {Asked(f) : f \in Fleets}]
  OBVIOUS
<1> HIDE DEF OneList, Poll
<1>1. CASE Block
  <2>1. blocked' \in [Sections -> SUBSET Vendors] /\ blocks' \in 0 .. MaxBlocks
    BY <1>0, <1>1, ServersBounds DEF Block
  <2>2. UNCHANGED <<running, marked, tests, lists, pageLoading, testing, collapsed, storage, expanded, allExpanded,
                    polls, reload, badPolls, visits>>
    BY <1>1 DEF Block, accordionVars
  <2> QED
    BY <1>0, <2>1, <2>2 DEF ListsInv
<1>2. CASE FetchHealth
  <2>1. polls' \in [Polls -> Poll]
    BY <1>c, <1>d, <1>2 DEF FetchHealth
  <2>2. UNCHANGED <<blocked, running, marked, blocks, tests, lists, pageLoading, testing, collapsed, storage,
                    expanded, allExpanded, reload, badPolls, visits>>
    BY <1>2 DEF FetchHealth, fleetVars, accordionVars
  <2> QED
    BY <1>0, <1>f, <2>1, <2>2 DEF ListsInv
<1>3. ASSUME NEW p \in Polls, HealthArrives(p) PROVE ListsInv'
  <2>1. polls' \in [Polls -> Poll]
    BY <1>c, <1>d, <1>3 DEF HealthArrives
  <2>2. lists' \in [Sections -> OneList] /\ badPolls' \in 0 .. MaxBadPolls
    <3>1. CASE badPolls' = badPolls
      <4>1. PICK f \in polls[p] : lists' = [s \in Sections |-> {f[s]}]
        BY <1>3, <3>1, <1>0, ServersBounds DEF HealthArrives
      <4>2. f \in Fleets
        BY <1>b
      <4> QED
        BY <1>0, <1>a, <3>1, <4>1, <4>2
    <3>2. CASE badPolls' # badPolls
      <4>1. badPolls < MaxBadPolls /\ badPolls' = badPolls + 1 /\ lists' = lists
        BY <1>3, <3>2 DEF HealthArrives
      <4> QED
        BY <1>0, <1>d, <4>1, ServersBounds
    <3> QED
      BY <3>1, <3>2
  <2>3. /\ pageLoading' = FALSE
        /\ UNCHANGED <<blocked, running, marked, blocks, tests, testing, collapsed, storage, expanded, allExpanded,
                       reload, visits>>
    BY <1>3 DEF HealthArrives, fleetVars, accordionVars
  <2> QED
    BY <1>0, <1>e, <1>f, <2>1, <2>2, <2>3 DEF ListsInv
<1>4. CASE HandleSpeedTest \/ OtherTest
  <2>1. tests < MaxTests /\ tests' = tests + 1 /\ running' = running + 1 /\ marked' = TRUE
    BY <1>4 DEF HandleSpeedTest, OtherTest, Starts
  <2>2. running' \in Nat /\ running' <= tests' /\ tests' \in 0 .. MaxTests
    BY <1>0, <2>1, ServersBounds
  <2>3. testing' \in BOOLEAN /\ reload' \in {"none", "measuring", "asked"}
    BY <1>0, <1>4 DEF HandleSpeedTest, OtherTest
  <2>4. UNCHANGED <<blocked, blocks, lists, pageLoading, collapsed, storage, expanded, allExpanded, polls,
                    badPolls, visits>>
    BY <1>4 DEF HandleSpeedTest, OtherTest, accordionVars
  <2> QED
    BY <1>0, <2>1, <2>2, <2>3, <2>4 DEF ListsInv
<1>5. CASE TestOver
  <2>1. running > 0 /\ running' = running - 1 /\ marked' = FALSE /\ tests' = tests
    BY <1>5 DEF TestOver
  <2>2. running' \in Nat /\ running' <= tests'
    BY <1>0, <2>1, ServersBounds
  <2>3. reload' \in {"none", "measuring", "asked"}
    BY <1>0, <1>5 DEF TestOver
  <2>4. UNCHANGED <<blocked, blocks, tests, lists, pageLoading, testing, collapsed, storage, expanded, allExpanded,
                    polls, badPolls, visits>>
    BY <1>5 DEF TestOver, accordionVars
  <2> QED
    BY <1>0, <2>1, <2>2, <2>3, <2>4 DEF ListsInv
<1>6. CASE ReloadArrives
  <2>1. {fleet["download"]} \in OneList
    BY <1>a, <1>c, ServersBounds
  <2>2. lists' \in [Sections -> OneList]
    BY <1>d, <1>6, <2>1 DEF ReloadArrives
  <2>3. badPolls' \in 0 .. MaxBadPolls
    BY <1>0, <1>6, ServersBounds DEF ReloadArrives
  <2>4. /\ reload' = "none" /\ testing' = FALSE
        /\ UNCHANGED <<blocked, running, marked, blocks, tests, pageLoading, collapsed, storage, expanded,
                       allExpanded, polls, visits>>
    BY <1>6 DEF ReloadArrives, fleetVars, accordionVars
  <2> QED
    BY <1>0, <1>e, <2>2, <2>3, <2>4 DEF ListsInv
<1>7. CASE ReopenServers
  <2>1. lists' \in [Sections -> OneList] /\ polls' \in [Polls -> Poll]
    BY <1>c, <1>7 DEF ReopenServers, NoList
  <2>2. visits' \in 1 .. MaxVisits
    BY <1>0, <1>7, ServersBounds DEF ReopenServers
  <2>3. /\ pageLoading' = TRUE /\ testing' = FALSE /\ reload' = "none" /\ collapsed' = storage
        /\ expanded' \in [Sections -> SUBSET Vendors] /\ allExpanded' \in [Sections -> BOOLEAN]
        /\ UNCHANGED <<blocked, running, marked, blocks, tests, storage, badPolls>>
    BY <1>7 DEF ReopenServers, fleetVars
  <2> QED
    BY <1>0, <1>e, <1>f, <2>1, <2>2, <2>3 DEF ListsInv
<1>8. ASSUME NEW s \in Sections, UnblockOne(s) \/ UnblockAll(s) PROVE ListsInv'
  <2>1. PICK set : Unblock(s, set)
    BY <1>8 DEF UnblockOne, UnblockAll
  <2>2. blocked' \in [Sections -> SUBSET Vendors]
    BY <1>0, <2>1 DEF Unblock
  <2>3. UNCHANGED <<running, marked, blocks, tests, lists, pageLoading, testing, collapsed, storage, expanded,
                    allExpanded, polls, reload, badPolls, visits>>
    BY <2>1 DEF Unblock, accordionVars
  <2> QED
    BY <1>0, <2>2, <2>3 DEF ListsInv
<1>9. ASSUME NEW s \in Sections, ToggleSection(s) \/ ToggleAll(s) \/ \E v \in Vendors : ToggleProvider(s, v)
      PROVE  ListsInv'
  <2>1. collapsed' \in [Sections -> BOOLEAN] /\ storage' \in [Sections -> BOOLEAN]
    BY <1>0, <1>9 DEF ToggleSection, ToggleAll, ToggleProvider
  <2>2. expanded' \in [Sections -> SUBSET Vendors] /\ allExpanded' \in [Sections -> BOOLEAN]
    <3>1. PICK set : expanded' = [expanded EXCEPT ![s] = set] /\ set \subseteq Vendors
      <4>1. CASE ToggleSection(s)
        <5> DEFINE set == {}
        <5>1. expanded' = [expanded EXCEPT ![s] = set] /\ set \subseteq Vendors
          BY <4>1 DEF ToggleSection
        <5> HIDE DEF set
        <5> QED
          BY <5>1, Zenon
      <4>2. CASE ToggleAll(s)
        <5> DEFINE set == IF allExpanded[s] THEN {} ELSE Vendors
        <5>1. expanded' = [expanded EXCEPT ![s] = set] /\ set \subseteq Vendors
          BY <4>2 DEF ToggleAll
        <5> HIDE DEF set
        <5> QED
          BY <5>1, Zenon
      <4>3. ASSUME NEW v \in Vendors, ToggleProvider(s, v)
            PROVE  \E set : expanded' = [expanded EXCEPT ![s] = set] /\ set \subseteq Vendors
        <5> DEFINE set == IF v \in expanded[s] THEN expanded[s] \ {v} ELSE expanded[s] \cup {v}
        <5>1. expanded' = [expanded EXCEPT ![s] = set] /\ set \subseteq Vendors
          BY <1>0, <4>3 DEF ToggleProvider
        <5> HIDE DEF set
        <5> QED
          BY <5>1, Zenon
      <4> QED
        BY <1>9, <4>1, <4>2, <4>3
    <3>2. allExpanded' \in [Sections -> BOOLEAN]
      BY <1>0, <1>9 DEF ToggleSection, ToggleAll, ToggleProvider
    <3> QED
      BY <1>0, <3>1, <3>2
  <2>3. UNCHANGED <<blocked, running, marked, blocks, tests, lists, pageLoading, testing, polls, reload, badPolls,
                    visits>>
    BY <1>9 DEF ToggleSection, ToggleAll, ToggleProvider, fleetVars
  <2> QED
    BY <1>0, <2>1, <2>2, <2>3 DEF ListsInv
<1>10. CASE UNCHANGED serversVars
  BY <1>0, <1>10 DEF serversVars, fleetVars, accordionVars, ListsInv
<1> QED
  BY <1>1, <1>2, <1>3, <1>4, <1>5, <1>6, <1>7, <1>8, <1>9, <1>10 DEF ServersNext

LEMMA ServersTypes == ListsInv => ServersTypeOK
<1> SUFFICES ASSUME ListsInv PROVE ServersTypeOK
  OBVIOUS
<1>1. running \in 0 .. MaxTests
  BY ServersBounds DEF ListsInv
<1>2. \A s \in Sections : lists[s] \subseteq [Vendors -> Conditions] /\ Cardinality(lists[s]) <= 1
  <2> SUFFICES ASSUME NEW s \in Sections
               PROVE  lists[s] \subseteq [Vendors -> Conditions] /\ Cardinality(lists[s]) <= 1
    OBVIOUS
  <2>1. CASE lists[s] = {}
    <3>1. Cardinality(lists[s]) = 0
      BY <2>1, FS_EmptySet
    <3> QED
      BY <2>1, <3>1
  <2>2. ASSUME NEW f \in [Vendors -> Conditions], lists[s] = {f}
        PROVE  lists[s] \subseteq [Vendors -> Conditions] /\ Cardinality(lists[s]) <= 1
    <3>1. Cardinality(lists[s]) = 1
      BY <2>2, FS_Singleton
    <3> QED
      BY <2>2, <3>1
  <2> QED
    BY <2>1, <2>2 DEF ListsInv
<1>3. \A p \in Polls : polls[p] = NotAsked \/ \E f \in Fleets : polls[p] = Asked(f)
  BY DEF ListsInv
<1> QED
  BY <1>1, <1>2, <1>3 DEF ListsInv, ServersTypeOK

-----------------------------------------------------------------------------
(* ProviderGroups *)

(* What Sorted returns, of elements that ahead compares. *)
InOrder(list, groups, ahead) ==
    /\ list \in [1 .. Cardinality(groups) -> groups]
    /\ Range(list) = groups
    /\ \A i, j \in DOMAIN list : i < j =>
          \/ <<list[i], list[j]>> \in ahead
          \/ <<list[j], list[i]>> \notin ahead /\ list[i].place < list[j].place

(* Each has a place of its own, and what ahead does not tell apart are classes. *)
Sortable(groups, ahead) ==
    /\ IsFiniteSet(groups)
    /\ \A a \in groups : a.place \in Nat
    /\ \A a, b \in groups : a # b => a.place # b.place
    /\ \A a, b \in groups : <<a, b>> \in ahead => <<b, a>> \notin ahead
    /\ \A a, b, c \in groups : <<a, c>> \in ahead => <<a, b>> \in ahead \/ <<b, c>> \in ahead

LEMMA SortExists ==
    ASSUME NEW groups, NEW ahead, Sortable(groups, ahead)
    PROVE  \E list : InOrder(list, groups, ahead)
<1> DEFINE Before(a, b) == \/ <<a, b>> \in ahead
                           \/ <<b, a>> \notin ahead /\ a.place < b.place
           R == {p \in groups \X groups : Before(p[1], p[2])}
<1>1. \A a, b \in groups : <<a, b>> \in R <=> Before(a, b)
  OBVIOUS
<1>2. \A a, b \in groups : a # b => Before(a, b) \/ Before(b, a)
  <2>1. \A a, b \in groups : a # b => a.place < b.place \/ b.place < a.place
    BY DEF Sortable
  <2> QED
    BY <2>1
<1>3. \A a, b, c \in groups : Before(a, b) /\ Before(b, c) => Before(a, c)
  BY DEF Sortable
<1> HIDE DEF R
<1>4. Orders(R, groups)
  <2> HIDE DEF Before
  <2> QED
    BY <1>1, <1>2, <1>3 DEF Orders
<1>5. PICK list \in [1 .. Cardinality(groups) -> groups] :
         /\ Range(list) = groups
         /\ \A i, j \in 1 .. Cardinality(groups) : i < j => <<list[i], list[j]>> \in R
  BY <1>4, OrderExists DEF Sortable
<1>6. DOMAIN list = 1 .. Cardinality(groups)
  OBVIOUS
<1>7. ASSUME NEW i \in DOMAIN list, NEW j \in DOMAIN list, i < j PROVE Before(list[i], list[j])
  <2>1. list[i] \in groups /\ list[j] \in groups /\ <<list[i], list[j]>> \in R
    BY <1>5, <1>6, <1>7
  <2> QED
    BY <1>1, <2>1
<1> QED
  BY <1>5, <1>7 DEF InOrder

(* The three orders of the pages. *)
FasterPairs(groups) == {p \in groups \X groups : p[1].speed > p[2].speed}
MorePairs(groups) == {p \in groups \X groups : p[1].bytes > p[2].bytes}
SectionPairs(groups) == {p \in groups \X groups : SectionPrecedes(p[1], p[2])}

LEMMA SortedBySpeed ==
    ASSUME NEW groups, Sortable(groups, FasterPairs(groups))
    PROVE  InOrder(Sorted(groups, Faster), groups, FasterPairs(groups))
<1> DEFINE P(list) == /\ Range(list) = groups
                      /\ \A i, j \in DOMAIN list : i < j =>
                            \/ Faster(list[i], list[j])
                            \/ ~Faster(list[j], list[i]) /\ list[i].place < list[j].place
           arrangements == [1 .. Cardinality(groups) -> groups]
<1>1. \A list \in arrangements : P(list) <=> InOrder(list, groups, FasterPairs(groups))
  <2> SUFFICES ASSUME NEW list \in arrangements
               PROVE  P(list) <=> InOrder(list, groups, FasterPairs(groups))
    OBVIOUS
  <2>1. \A i, j \in DOMAIN list :
           <<list[i], list[j]>> \in FasterPairs(groups) <=> Faster(list[i], list[j])
    BY DEF FasterPairs, Faster
  <2> QED
    BY <2>1 DEF InOrder
<1>2. \E list \in arrangements : P(list)
  BY <1>1, SortExists DEF InOrder
<1>3. Sorted(groups, Faster) = CHOOSE list \in arrangements : P(list)
  BY DEF Sorted
<1> HIDE DEF P, arrangements
<1> QED
  BY <1>1, <1>2, <1>3

LEMMA SortedByBytes ==
    ASSUME NEW groups, Sortable(groups, MorePairs(groups))
    PROVE  InOrder(Sorted(groups, LAMBDA a, b : a.bytes > b.bytes), groups, MorePairs(groups))
<1> DEFINE P(list) == /\ Range(list) = groups
                      /\ \A i, j \in DOMAIN list : i < j =>
                            \/ list[i].bytes > list[j].bytes
                            \/ ~(list[j].bytes > list[i].bytes) /\ list[i].place < list[j].place
           arrangements == [1 .. Cardinality(groups) -> groups]
<1>1. \A list \in arrangements : P(list) <=> InOrder(list, groups, MorePairs(groups))
  <2> SUFFICES ASSUME NEW list \in arrangements
               PROVE  P(list) <=> InOrder(list, groups, MorePairs(groups))
    OBVIOUS
  <2>1. \A i, j \in DOMAIN list :
           <<list[i], list[j]>> \in MorePairs(groups) <=> list[i].bytes > list[j].bytes
    BY DEF MorePairs
  <2> QED
    BY <2>1 DEF InOrder
<1>2. \E list \in arrangements : P(list)
  BY <1>1, SortExists DEF InOrder
<1>3. Sorted(groups, LAMBDA a, b : a.bytes > b.bytes) = CHOOSE list \in arrangements : P(list)
  BY DEF Sorted
<1> HIDE DEF P, arrangements
<1> QED
  BY <1>1, <1>2, <1>3

LEMMA SortedByTrouble ==
    ASSUME NEW groups, Sortable(groups, SectionPairs(groups))
    PROVE  InOrder(Sorted(groups, LAMBDA a, b : SectionPrecedes(a, b)), groups, SectionPairs(groups))
<1> DEFINE P(list) == /\ Range(list) = groups
                      /\ \A i, j \in DOMAIN list : i < j =>
                            \/ SectionPrecedes(list[i], list[j])
                            \/ ~SectionPrecedes(list[j], list[i]) /\ list[i].place < list[j].place
           arrangements == [1 .. Cardinality(groups) -> groups]
<1>1. \A list \in arrangements : P(list) <=> InOrder(list, groups, SectionPairs(groups))
  <2> SUFFICES ASSUME NEW list \in arrangements
               PROVE  P(list) <=> InOrder(list, groups, SectionPairs(groups))
    OBVIOUS
  <2>1. \A i, j \in DOMAIN list :
           <<list[i], list[j]>> \in SectionPairs(groups) <=> SectionPrecedes(list[i], list[j])
    BY DEF SectionPairs
  <2> QED
    BY <2>1 DEF InOrder
<1>2. \E list \in arrangements : P(list)
  BY <1>1, SortExists DEF InOrder
<1>3. Sorted(groups, LAMBDA a, b : SectionPrecedes(a, b)) = CHOOSE list \in arrangements : P(list)
  BY DEF Sorted
<1> HIDE DEF P, arrangements
<1> QED
  BY <1>1, <1>2, <1>3

(* A list sorted from distinct elements holds each of them once. *)
LEMMA EachOnce ==
    ASSUME NEW list, NEW groups, NEW ahead, InOrder(list, groups, ahead),
           \A a \in groups : a.place \in Nat,
           \A a, b \in groups : <<a, b>> \in ahead => <<b, a>> \notin ahead
    PROVE  \A i, j \in DOMAIN list : i # j => list[i] # list[j]
<1> SUFFICES ASSUME NEW i \in DOMAIN list, NEW j \in DOMAIN list, i # j, list[i] = list[j]
             PROVE  FALSE
  OBVIOUS
<1>1. DOMAIN list = 1 .. Cardinality(groups) /\ list[i] \in groups
  BY DEF InOrder
<1>2. i \in Int /\ j \in Int
  BY <1>1
<1>3. <<list[i], list[i]>> \notin ahead /\ ~(list[i].place < list[i].place)
  BY <1>1
<1> QED
  BY <1>2, <1>3 DEF InOrder

-----------------------------------------------------------------------------
(* The servers at some places of a list, by provider. *)

\* A set of numbers that is not empty has a smallest one.
LEMMA SmallestExists ==
    ASSUME NEW S, IsFiniteSet(S), S \subseteq Nat, S # {}
    PROVE  \E m \in S : \A i \in S : m <= i
<1> DEFINE R == {p \in Nat \X Nat : p[2] < p[1]}
<1>1. \A a, b \in Nat : <<a, b>> \in R <=> b < a
  OBVIOUS
<1> HIDE DEF R
<1>2. Orders(R, S)
  BY <1>1 DEF Orders
<1>3. PICK m \in S : \A i \in S : i # m => <<i, m>> \in R
  BY <1>2, LastExists
<1>4. ASSUME NEW i \in S PROVE m <= i
  <2>1. i \in Nat /\ m \in Nat
    OBVIOUS
  <2>2. CASE i = m
    BY <2>1, <2>2
  <2>3. CASE i # m
    <3>1. <<i, m>> \in R
      BY <1>3, <2>3
    <3>2. m < i
      BY <1>1, <2>1, <3>1
    <3> QED
      BY <2>1, <3>2
  <2> QED
    BY <2>2, <2>3
<1> QED
  BY <1>4

Lists == Seq(Servers)

LEMMA PlacesAreNumbers ==
    ASSUME NEW list \in Lists, NEW places, places \subseteq DOMAIN list
    PROVE  /\ IsFiniteSet(DOMAIN list) /\ IsFiniteSet(places) /\ places \subseteq Nat
           /\ \A i \in places : /\ i \in OfProvider(list, places, i)
                                /\ OfProvider(list, places, i) \subseteq places
                                /\ IsFiniteSet(OfProvider(list, places, i))
           /\ MapKeys(list, places) \subseteq places /\ IsFiniteSet(MapKeys(list, places))
<1>1. DOMAIN list = 1 .. Len(list) /\ Len(list) \in Nat
  BY DEF Lists
<1>2. IsFiniteSet(DOMAIN list) /\ DOMAIN list \subseteq Nat
  BY <1>1, FS_Interval
<1>3. IsFiniteSet(places)
  BY <1>2, FS_Subset
<1>4. ASSUME NEW i \in places
      PROVE  /\ i \in OfProvider(list, places, i)
             /\ OfProvider(list, places, i) \subseteq places
             /\ IsFiniteSet(OfProvider(list, places, i))
  <2>1. i \in OfProvider(list, places, i) /\ OfProvider(list, places, i) \in SUBSET places
    BY DEF OfProvider
  <2> QED
    BY <1>3, <2>1, FS_Subset
<1>5. MapKeys(list, places) \in SUBSET places
  BY DEF MapKeys
<1>6. IsFiniteSet(MapKeys(list, places))
  BY <1>3, <1>5, FS_Subset
<1> QED
  BY <1>2, <1>3, <1>4, <1>5, <1>6

(* Every provider has one key, the first of its servers. *)
LEMMA KeyOfProvider ==
    ASSUME NEW list \in Lists, NEW places, places \subseteq DOMAIN list
    PROVE  /\ \A j \in places : \E i \in MapKeys(list, places) : list[i].provider = list[j].provider
           /\ \A i, j \in MapKeys(list, places) : list[i].provider = list[j].provider => i = j
<1>1. ASSUME NEW j \in places
      PROVE  \E i \in MapKeys(list, places) : list[i].provider = list[j].provider
  <2> DEFINE own == OfProvider(list, places, j)
  <2>1. IsFiniteSet(own) /\ own \subseteq Nat /\ own # {} /\ own \subseteq places
    BY PlacesAreNumbers
  <2> HIDE DEF own
  <2>2. PICK m \in own : \A i \in own : m <= i
    BY <2>1, SmallestExists
  <2>3. list[m].provider = list[j].provider /\ OfProvider(list, places, m) = own
    BY DEF own, OfProvider
  <2>4. m \in MapKeys(list, places)
    BY <2>1, <2>2, <2>3 DEF MapKeys
  <2> QED
    BY <2>3, <2>4
<1>2. ASSUME NEW i \in MapKeys(list, places), NEW j \in MapKeys(list, places),
             list[i].provider = list[j].provider
      PROVE  i = j
  <2>1. i \in places /\ j \in places /\ i \in Nat /\ j \in Nat
    BY PlacesAreNumbers
  <2>2. j \in OfProvider(list, places, i) /\ i \in OfProvider(list, places, j)
    BY <1>2, <2>1 DEF OfProvider
  <2>3. i <= j /\ j <= i
    BY <2>2 DEF MapKeys
  <2> QED
    BY <2>1, <2>3
<1> QED
  BY <1>1, <1>2

LEMMA PlacesDiffer ==
    ASSUME NEW list \in Lists, NEW places, places \subseteq DOMAIN list
    PROVE  /\ \A i \in MapKeys(list, places) : PlaceOf(list, places, i) \in Nat
           /\ \A i, j \in MapKeys(list, places) :
                 i # j => PlaceOf(list, places, i) # PlaceOf(list, places, j)
<1> DEFINE keys == MapKeys(list, places)
           before(i) == {j \in keys : j < i}
<1>1. IsFiniteSet(keys) /\ keys \subseteq Nat
  BY PlacesAreNumbers
<1> HIDE DEF keys
<1>2. \A i \in keys : IsFiniteSet(before(i)) /\ Cardinality(before(i)) \in Nat
  <2>1. \A i \in keys : before(i) \in SUBSET keys
    OBVIOUS
  <2> HIDE DEF before
  <2> QED
    BY <1>1, <2>1, FS_Subset, FS_CardinalityType
<1>3. ASSUME NEW i \in keys, NEW j \in keys, i < j
      PROVE  Cardinality(before(i)) # Cardinality(before(j))
  <2>0. \A k \in keys : k \in Nat /\ (k < i => k < j)
    <3>1. i \in Nat /\ j \in Nat /\ \A k \in keys : k \in Nat
      BY <1>1
    <3> QED
      BY <1>3, <3>1
  <2>1. before(i) \in SUBSET before(j) /\ i \in before(j) /\ i \notin before(i)
    BY <1>3, <2>0
  <2>2. IsFiniteSet(before(j))
    BY <1>2
  <2> HIDE DEF before
  <2> QED
    BY <2>1, <2>2, FS_Subset
<1>4. ASSUME NEW i \in keys, NEW j \in keys, i # j
      PROVE  Cardinality(before(i)) # Cardinality(before(j))
  <2>1. i < j \/ j < i
    BY <1>1, <1>4
  <2> HIDE DEF before
  <2> QED
    BY <1>3, <2>1
<1>5. \A i \in keys : PlaceOf(list, places, i) = Cardinality(before(i))
  BY DEF PlaceOf, keys
<1> HIDE DEF before
<1> QED
  BY <1>2, <1>4, <1>5 DEF keys

LEMMA TotalsAreNumbers ==
    ASSUME NEW list \in Lists, NEW own, own \subseteq DOMAIN list,
           NEW field \in {"streams", "speed", "bytes"}
    PROVE  Total(list, field, own) \in Nat
<1> DEFINE f == [i \in DOMAIN list |-> list[i][field]]
<1>1. \A i \in DOMAIN list : list[i] \in Servers
  BY DEF Lists
<1>2. MaxFigure \in Nat
  BY GroupsAssumption
<1>3. \A s \in Servers : s[field] \in Nat
  BY <1>2 DEF Servers
<1>4. \A i \in own : f[i] \in Nat
  BY <1>1, <1>3
<1>5. IsFiniteSet(own)
  BY PlacesAreNumbers
<1> HIDE DEF f
<1>6. SumFunctionOnSet(f, own) \in Nat
  BY <1>4, <1>5, SumAdds
<1> QED
  BY <1>6 DEF Total, f

-----------------------------------------------------------------------------
(* Groups *)

LEMMA GroupIs ==
    \A list, places, i :
       LET own == OfProvider(list, places, i)
           g == GroupAt(list, places, i)
       IN  /\ g.name = list[i].provider /\ g.place = PlaceOf(list, places, i)
           /\ g.colour = PlaceOf(list, places, i) % Palette
           /\ \A field \in {"streams", "speed", "bytes"} : g[field] = Total(list, field, own)
           /\ g.streams = Total(list, "streams", own) /\ g.speed = Total(list, "speed", own)
           /\ g.bytes = Total(list, "bytes", own)
  BY DEF GroupAt

LEMMA GroupsAreSortable ==
    ASSUME NEW list \in Lists, NEW places, places \subseteq DOMAIN list
    PROVE  LET groups == Groups(list, places)
           IN  /\ IsFiniteSet(groups)
               /\ \A a \in groups : /\ a.place \in Nat /\ a.streams \in Nat
                                    /\ a.speed \in Nat /\ a.bytes \in Nat
               /\ \A a, b \in groups : a # b => a.place # b.place /\ a.name # b.name
<1> DEFINE keys == MapKeys(list, places)
           group == [i \in keys |-> GroupAt(list, places, i)]
           groups == Groups(list, places)
<1>1. IsFiniteSet(keys) /\ keys \subseteq places
  BY PlacesAreNumbers
<1>2. group \in Surjection(keys, groups)
  BY DEF Groups, Surjection
<1>3. IsFiniteSet(groups)
  <2> HIDE DEF keys, group, groups
  <2> QED
    BY <1>1, <1>2, FS_Surjection
<1>4. \A a \in groups : \E i \in keys : a = GroupAt(list, places, i)
  BY DEF Groups
<1>5. ASSUME NEW i \in keys
      PROVE  LET a == GroupAt(list, places, i)
             IN  /\ a.place \in Nat /\ a.streams \in Nat /\ a.speed \in Nat /\ a.bytes \in Nat
  <2>1. OfProvider(list, places, i) \subseteq DOMAIN list
    BY <1>1, PlacesAreNumbers
  <2>2. \A field \in {"streams", "speed", "bytes"} :
           Total(list, field, OfProvider(list, places, i)) \in Nat
    BY <2>1, TotalsAreNumbers
  <2> QED
    BY <2>2, GroupIs, PlacesDiffer
<1>6. ASSUME NEW i \in keys, NEW j \in keys, i # j
      PROVE  LET a == GroupAt(list, places, i)
                 b == GroupAt(list, places, j)
             IN  a.place # b.place /\ a.name # b.name
  BY <1>6, GroupIs, PlacesDiffer, KeyOfProvider
<1> HIDE DEF keys, groups
<1>7. \A a \in groups : /\ a.place \in Nat /\ a.streams \in Nat
                        /\ a.speed \in Nat /\ a.bytes \in Nat
  BY <1>4, <1>5
<1>8. \A a, b \in groups : a # b => a.place # b.place /\ a.name # b.name
  BY <1>4, <1>6
<1> QED
  BY <1>3, <1>7, <1>8 DEF groups

(* What sorting some of the groups gives. *)
LEMMA GroupsInOrder ==
    ASSUME NEW list \in Lists, NEW places, places \subseteq DOMAIN list,
           NEW groups \in SUBSET Groups(list, places)
    PROVE  /\ Sortable(groups, FasterPairs(groups)) /\ Sortable(groups, MorePairs(groups))
           /\ InOrder(Sorted(groups, Faster), groups, FasterPairs(groups))
           /\ InOrder(Sorted(groups, LAMBDA a, b : a.bytes > b.bytes), groups, MorePairs(groups))
<1>1. /\ IsFiniteSet(groups)
      /\ \A a \in groups : a.place \in Nat /\ a.speed \in Nat /\ a.bytes \in Nat
      /\ \A a, b \in groups : a # b => a.place # b.place
  BY GroupsAreSortable, FS_Subset
<1>2. Sortable(groups, FasterPairs(groups))
  <2>1. \A a, b \in groups : <<a, b>> \in FasterPairs(groups) <=> a.speed > b.speed
    BY DEF FasterPairs
  <2>2. \A a, b \in groups : a.speed > b.speed => ~(b.speed > a.speed)
    BY <1>1
  <2>3. \A a, b, c \in groups : a.speed > c.speed => a.speed > b.speed \/ b.speed > c.speed
    BY <1>1
  <2> QED
    BY <1>1, <2>1, <2>2, <2>3 DEF Sortable
<1>3. Sortable(groups, MorePairs(groups))
  <2>1. \A a, b \in groups : <<a, b>> \in MorePairs(groups) <=> a.bytes > b.bytes
    BY DEF MorePairs
  <2>2. \A a, b \in groups : a.bytes > b.bytes => ~(b.bytes > a.bytes)
    BY <1>1
  <2>3. \A a, b, c \in groups : a.bytes > c.bytes => a.bytes > b.bytes \/ b.bytes > c.bytes
    BY <1>1
  <2> QED
    BY <1>1, <2>1, <2>2, <2>3 DEF Sortable
<1> QED
  BY <1>2, <1>3, SortedBySpeed, SortedByBytes

LEMMA InUseIsOfList == \A list : InUse(list) \subseteq DOMAIN list
  BY DEF InUse

LEMMA GroupServersInOrder ==
    ASSUME NEW list \in Lists
    PROVE  LET groups == Groups(list, InUse(list))
           IN  /\ InOrder(GroupServers(list), groups, FasterPairs(groups))
               /\ Range(GroupServers(list)) = groups
<1> DEFINE groups == Groups(list, InUse(list))
<1>1. InOrder(Sorted(groups, Faster), groups, FasterPairs(groups))
  BY InUseIsOfList, GroupsInOrder
<1>2. GroupServers(list) = Sorted(groups, Faster)
  BY DEF GroupServers
<1> HIDE DEF groups
<1>3. Range(GroupServers(list)) = groups
  BY <1>1, <1>2 DEF InOrder
<1> QED
  BY <1>1, <1>2, <1>3 DEF groups

-----------------------------------------------------------------------------
(* The colours *)

LEMMA ColoursFollowUse ==
    ASSUME NEW list \in Lists, NEW next \in Lists, Used(list) = Used(next)
    PROVE  Colours(list) = Colours(next)
<1>1. DOMAIN list = DOMAIN next
  BY DEF Used
<1>2. \A i \in DOMAIN list :
         /\ list[i].provider = next[i].provider
         /\ (list[i].streams > 0 \/ list[i].speed > 0) <=> (next[i].streams > 0 \/ next[i].speed > 0)
  <2> SUFFICES ASSUME NEW i \in DOMAIN list
               PROVE  /\ list[i].provider = next[i].provider
                      /\ (list[i].streams > 0 \/ list[i].speed > 0)
                         <=> (next[i].streams > 0 \/ next[i].speed > 0)
    OBVIOUS
  <2>1. Used(list)[i] = Used(next)[i]
    OBVIOUS
  <2>2. Used(list)[i] = [provider |-> list[i].provider,
                         used |-> list[i].streams > 0 \/ list[i].speed > 0]
    BY DEF Used
  <2>3. Used(next)[i] = [provider |-> next[i].provider,
                         used |-> next[i].streams > 0 \/ next[i].speed > 0]
    BY <1>1 DEF Used
  <2>4. Used(list)[i].provider = list[i].provider /\ Used(next)[i].provider = next[i].provider
    BY <2>2, <2>3
  <2>5. /\ Used(list)[i].used = (list[i].streams > 0 \/ list[i].speed > 0)
        /\ Used(next)[i].used = (next[i].streams > 0 \/ next[i].speed > 0)
    BY <2>2, <2>3
  <2> QED
    BY <2>1, <2>4, <2>5
<1>3. PICK places : places = InUse(list) /\ places = InUse(next)
  BY <1>1, <1>2 DEF InUse
<1>4. places \subseteq DOMAIN list
  BY <1>3 DEF InUse
<1>5. \A i \in places : OfProvider(list, places, i) = OfProvider(next, places, i)
  BY <1>2, <1>4 DEF OfProvider
<1>6. MapKeys(list, places) = MapKeys(next, places)
  BY <1>5 DEF MapKeys
<1>7. \A i : PlaceOf(list, places, i) = PlaceOf(next, places, i)
  BY <1>6 DEF PlaceOf
<1>8. ASSUME NEW l \in Lists, places = InUse(l)
      PROVE  Colours(l) = {<<l[i].provider, PlaceOf(l, places, i) % Palette>> : i \in MapKeys(l, places)}
  <2>1. Range(GroupServers(l)) = {GroupAt(l, places, i) : i \in MapKeys(l, places)}
    BY <1>8, GroupServersInOrder DEF Groups
  <2> DEFINE pair(i) == <<l[i].provider, PlaceOf(l, places, i) % Palette>>
  <2>2. \A i : <<GroupAt(l, places, i).name, GroupAt(l, places, i).colour>> = pair(i)
    BY GroupIs
  <2>3. Colours(l) = {<<g.name, g.colour>> : g \in {GroupAt(l, places, i) : i \in MapKeys(l, places)}}
    BY <2>1 DEF Colours
  <2> QED
    BY <2>2, <2>3
<1>9. MapKeys(list, places) \subseteq DOMAIN list
  BY <1>4 DEF MapKeys
<1> DEFINE pairs(l) == {<<l[i].provider, PlaceOf(l, places, i) % Palette>> : i \in MapKeys(l, places)}
<1>10. Colours(list) = pairs(list) /\ Colours(next) = pairs(next)
  BY <1>3, <1>8
<1>11. pairs(list) = pairs(next)
  BY <1>2, <1>6, <1>7, <1>9
<1> QED
  BY <1>10, <1>11

LEMMA ListIsTyped == GroupsTypeOK => servers \in Lists
  BY DEF GroupsTypeOK, Lists

-----------------------------------------------------------------------------
(* The groups carry what the list carries *)

LEMMA TotalsAgree ==
    ASSUME NEW list \in Lists, NEW field \in {"streams", "speed"}
    PROVE  LET groups == GroupServers(list)
           IN  Total(groups, field, DOMAIN groups) = Total(list, field, DOMAIN list)
<1> DEFINE q == GroupServers(list)
           used == InUse(list)
           S == DOMAIN list
           T == DOMAIN q
           f == [i \in S |-> list[i][field]]
           g == [k \in T |-> q[k][field]]
           at == [j \in S |-> {k \in T : j \in used /\ q[k].name = list[j].provider}]
           class == [k \in T |-> {j \in used : q[k].name = list[j].provider}]
           h == [j \in S |-> IF at[j] = {} THEN 0 ELSE CHOOSE k \in at[j] : TRUE]
<1>1. used \subseteq S /\ IsFiniteSet(S) /\ S \subseteq Nat
  BY InUseIsOfList, PlacesAreNumbers
<1>2. InOrder(q, Groups(list, used), FasterPairs(Groups(list, used)))
  BY GroupServersInOrder
<1>3. T = 1 .. Cardinality(Groups(list, used)) /\ IsFiniteSet(T) /\ T \subseteq Nat /\ 0 \notin T
  <2>1. T = 1 .. Cardinality(Groups(list, used))
    BY <1>2 DEF InOrder
  <2>2. Cardinality(Groups(list, used)) \in Nat
    BY <1>1, GroupsAreSortable, FS_CardinalityType
  <2> QED
    BY <2>1, <2>2, FS_Interval
<1>4. \A i \in S : list[i] \in Servers /\ f[i] = list[i][field]
  BY DEF Lists
<1>5. \A i \in S : f[i] \in Nat /\ (i \notin used => f[i] = 0)
  <2>1. MaxFigure \in Nat
    BY GroupsAssumption
  <2>2. \A s \in Servers : /\ s.streams \in Nat /\ s.speed \in Nat /\ s[field] \in Nat
                           /\ s[field] > 0 => s.streams > 0 \/ s.speed > 0
    BY <2>1 DEF Servers
  <2>3. \A i \in S : i \in used <=> list[i].streams > 0 \/ list[i].speed > 0
    BY DEF InUse
  <2> SUFFICES ASSUME NEW i \in S PROVE f[i] \in Nat /\ (i \notin used => f[i] = 0)
    OBVIOUS
  <2>4. PICK s \in Servers : s = list[i] /\ f[i] = s[field]
    BY <1>4
  <2>5. s[field] \in Nat /\ (s[field] > 0 => s.streams > 0 \/ s.speed > 0)
    BY <2>2, Zenon
  <2>6. i \notin used => ~(s.streams > 0 \/ s.speed > 0)
    BY <2>3, <2>4
  <2> HIDE DEF f, used, S
  <2> QED
    BY <2>4, <2>5, <2>6
<1>6. \A k \in T : \E i \in MapKeys(list, used) : q[k] = GroupAt(list, used, i)
  BY <1>2, <1>3 DEF InOrder, Groups
<1>7. \A i \in MapKeys(list, used) : \E k \in T : q[k] = GroupAt(list, used, i)
  BY <1>2, <1>3 DEF InOrder, Groups, Range
<1>8. \A k, l \in T : q[k].name = q[l].name => k = l
  <2>1. \A a, b \in Groups(list, used) : a.name = b.name => a = b
    BY <1>1, GroupsAreSortable
  <2>2. \A k \in T : q[k] \in Groups(list, used)
    BY <1>2, <1>3 DEF InOrder
  <2>3. \A k, l \in T : k # l => q[k] # q[l]
    <3>1. Sortable(Groups(list, used), FasterPairs(Groups(list, used)))
      BY <1>1, GroupsInOrder
    <3> HIDE DEF q, used
    <3> QED
      BY <1>2, <3>1, EachOnce DEF Sortable
  <2> QED
    BY <2>1, <2>2, <2>3
<1>9. ASSUME NEW j \in used PROVE at[j] # {}
  <2>1. PICK i \in MapKeys(list, used) : list[i].provider = list[j].provider
    BY <1>1, KeyOfProvider
  <2>2. PICK k \in T : q[k] = GroupAt(list, used, i)
    BY <1>7
  <2>3. q[k].name = list[j].provider /\ j \in S
    BY <1>1, <2>1, <2>2, GroupIs
  <2>4. k \in at[j]
    BY <2>3
  <2> QED
    BY <2>4
<1>10. \A j \in S : /\ h[j] \in at[j] \/ f[j] = 0
                    /\ h[j] # 0 => h[j] \in at[j]
                    /\ j \in used => h[j] \in at[j]
  <2> SUFFICES ASSUME NEW j \in S
               PROVE  /\ h[j] \in at[j] \/ f[j] = 0
                      /\ h[j] # 0 => h[j] \in at[j]
                      /\ j \in used => h[j] \in at[j]
    OBVIOUS
  <2> HIDE DEF at, f, used, S
  <2>1. h[j] = IF at[j] = {} THEN 0 ELSE CHOOSE k \in at[j] : TRUE
    OBVIOUS
  <2> QED
    BY <1>5, <1>9, <2>1
<1>11. \A k \in T : class[k] \subseteq S /\ \A j \in S : j \in class[k] <=> h[j] = k
  <2> SUFFICES ASSUME NEW k \in T
               PROVE  class[k] \subseteq S /\ \A j \in S : j \in class[k] <=> h[j] = k
    OBVIOUS
  <2>0. \A j : j \in class[k] <=> j \in used /\ q[k].name = list[j].provider
    OBVIOUS
  <2>1. \A j \in S : \A l : l \in at[j] => l \in T /\ j \in used /\ q[l].name = list[j].provider
    OBVIOUS
  <2> HIDE DEF at, h, class, used, q, S, T
  <2>2. ASSUME NEW j \in S, h[j] = k PROVE j \in used /\ q[k].name = list[j].provider
    <3>1. h[j] # 0
      BY <1>3, <2>2
    <3>2. h[j] \in at[j]
      BY <1>10, <3>1, Zenon
    <3> QED
      BY <2>1, <2>2, <3>2
  <2>3. ASSUME NEW j \in used, q[k].name = list[j].provider PROVE j \in S /\ h[j] = k
    <3>1. j \in S
      BY <1>1
    <3>2. h[j] \in at[j]
      BY <1>10, <3>1, Zenon
    <3>3. h[j] \in T /\ q[h[j]].name = q[k].name
      BY <2>1, <2>3, <3>1, <3>2
    <3> QED
      BY <1>8, <3>1, <3>3
  <2> QED
    BY <1>1, <2>0, <2>2, <2>3
<1>12. ASSUME NEW k \in T PROVE g[k] = SumFunctionOnSet(f, class[k])
  <2>1. PICK i \in MapKeys(list, used) : q[k] = GroupAt(list, used, i)
    BY <1>6
  <2>2. q[k].name = list[i].provider /\ q[k][field] = Total(list, field, OfProvider(list, used, i))
    BY <2>1, GroupIs
  <2>3. OfProvider(list, used, i) = class[k]
    BY <2>2 DEF OfProvider
  <2>4. g[k] = Total(list, field, OfProvider(list, used, i))
    BY <2>2
  <2>5. Total(list, field, OfProvider(list, used, i)) = SumFunctionOnSet(f, OfProvider(list, used, i))
    BY DEF Total
  <2> HIDE DEF g, f, class, h, q, used, S
  <2> QED
    BY <2>3, <2>4, <2>5
<1>13. \A j \in S : h[j] \in T \/ f[j] = 0
  <2>1. \A j \in S : \A k : k \in at[j] => k \in T
    OBVIOUS
  <2> HIDE DEF at, h, f, S, T
  <2> QED
    BY <1>10, <2>1, Zenon
<1>14. SumFunctionOnSet(g, T) = SumFunctionOnSet(f, S)
  <2>1. SumsClasses(f, S, T, h, class, g)
    <3> HIDE DEF g, f, h, class, S, T
    <3> QED
      BY <1>1, <1>3, <1>5, <1>11, <1>12, <1>13 DEF SumsClasses
  <2> HIDE DEF g, f, h, class, S, T
  <2> QED
    BY <2>1, SumByClass
<1> QED
  BY <1>14 DEF Total

\* What a shortened list leaves out is not ahead of anything it keeps.
LEMMA ShortenedKeepsTop ==
    ASSUME NEW list, NEW groups, NEW ahead, IsFiniteSet(groups), InOrder(list, groups, ahead),
           \A a, b \in groups : <<a, b>> \in ahead => <<b, a>> \notin ahead,
           NEW n \in Nat \ {0}
    PROVE  LET top == Range(FirstOf(list, n))
           IN  top \subseteq groups /\ \A a \in groups \ top : \A b \in top : <<a, b>> \notin ahead
<1> DEFINE m == IF n < Len(list) THEN n ELSE Len(list)
           part == SubSeq(list, 1, m)
<1>1. Cardinality(groups) \in Nat
  BY FS_CardinalityType
<1>2. list \in Seq(groups) /\ Len(list) = Cardinality(groups) /\ DOMAIN list = 1 .. Len(list)
  BY <1>1 DEF InOrder
<1>3. m \in 0 .. Len(list)
  BY <1>1, <1>2
<1>4. Len(part) = m /\ \A i \in 1 .. m : part[i] = list[i]
  BY <1>2, <1>3, SubSeqProperties
<1>5. DOMAIN part = 1 .. m
  <2>1. part \in Seq(groups)
    BY <1>2, <1>3, SubSeqProperties
  <2> HIDE DEF part, m
  <2> QED
    BY <1>4, <2>1
<1>6. FirstOf(list, n) = part
  BY DEF FirstOf
<1> HIDE DEF part, m
<1>7. Range(FirstOf(list, n)) = {list[i] : i \in 1 .. m}
  BY <1>4, <1>5, <1>6 DEF Range
<1>8. ASSUME NEW a \in groups, a \notin {list[i] : i \in 1 .. m}, NEW k \in 1 .. m
      PROVE  <<a, list[k]>> \notin ahead
  <2>1. PICK l \in DOMAIN list : a = list[l]
    BY DEF InOrder, Range
  <2>2. l \in 1 .. Len(list) /\ k \in 1 .. Len(list) /\ l \notin 1 .. m
    BY <1>2, <1>3, <1>8, <2>1
  <2>3. k < l
    BY <1>2, <1>3, <2>2
  <2>4. \/ <<list[k], list[l]>> \in ahead
        \/ <<list[l], list[k]>> \notin ahead
    BY <1>2, <2>2, <2>3 DEF InOrder
  <2>5. list[k] \in groups
    BY <1>2, <2>2
  <2> QED
    BY <2>1, <2>4, <2>5
<1>9. \A i \in 1 .. m : list[i] \in groups
  BY <1>2, <1>3
<1> QED
  BY <1>7, <1>8, <1>9

LEMMA GroupsAreConserved ==
    ASSUME NEW list \in Lists, servers = list
    PROVE  GroupsConserve
<1> DEFINE groups == GroupServers(list)
           used == Groups(list, InUse(list))
           all == Groups(list, DOMAIN list)
           active == {g \in used : g.streams > 0}
           top == Range(TopProviders(list))
           bars == Range(ActiveProviders(list))
<1>1. \A field \in {"streams", "speed"} :
         Total(groups, field, DOMAIN groups) = Total(list, field, DOMAIN list)
  BY TotalsAgree
<1>2. Cardinality({g.name : g \in Range(groups)}) = Len(groups)
  <2> DEFINE n == Cardinality(used)
             names == {g.name : g \in Range(groups)}
             name == [k \in 1 .. n |-> groups[k].name]
  <2>1. InOrder(groups, used, FasterPairs(used)) /\ Range(groups) = used
    BY GroupServersInOrder
  <2>2. /\ IsFiniteSet(used)
        /\ \A a, b \in used : a # b => a.name # b.name
        /\ \A a \in used : a.place \in Nat
        /\ \A a, b \in used : <<a, b>> \in FasterPairs(used) => <<b, a>> \notin FasterPairs(used)
    BY InUseIsOfList, GroupsAreSortable, GroupsInOrder DEF Sortable
  <2>3. n \in Nat
    BY <2>2, FS_CardinalityType
  <2> HIDE DEF groups, used
  <2>4. groups \in [1 .. n -> used] /\ DOMAIN groups = 1 .. n
    BY <2>1 DEF InOrder
  <2>5. Len(groups) = n
    BY <2>3, <2>4
  <2>6. \A i, j \in 1 .. n : i # j => groups[i] # groups[j]
    BY <2>1, <2>2, <2>4, EachOnce
  <2>7. \A i, j \in 1 .. n : i # j => name[i] # name[j]
    BY <2>2, <2>4, <2>6
  <2>8. names = {name[k] : k \in 1 .. n}
    BY <2>4 DEF Range
  <2>9. name \in Surjection(1 .. n, names) /\ name \in Injection(1 .. n, names)
    BY <2>7, <2>8 DEF Surjection, Injection, IsInjective
  <2>10. IsFiniteSet(1 .. n) /\ Cardinality(1 .. n) = n
    BY <2>3, FS_Interval
  <2> HIDE DEF n, names, name
  <2>11. Cardinality(names) = Cardinality(1 .. n)
    BY <2>9, <2>10, FS_Surjection
  <2> QED
    BY <2>5, <2>10, <2>11 DEF names
<1>3. \A g \in all \ top : \A t \in top : t.bytes >= g.bytes
  <2> DEFINE q == Sorted(all, LAMBDA a, b : a.bytes > b.bytes)
  <2>1. /\ IsFiniteSet(all) /\ InOrder(q, all, MorePairs(all))
        /\ \A a \in all : a.bytes \in Nat
        /\ \A a, b \in all : <<a, b>> \in MorePairs(all) => <<b, a>> \notin MorePairs(all)
    BY GroupsAreSortable, GroupsInOrder DEF Sortable
  <2>2. top = Range(FirstOf(q, TopCount)) /\ TopCount \in Nat \ {0}
    BY GroupsAssumption DEF TopProviders
  <2> HIDE DEF q, all, top
  <2>3. top \subseteq all /\ \A a \in all \ top : \A b \in top : <<a, b>> \notin MorePairs(all)
    BY <2>1, <2>2, ShortenedKeepsTop
  <2>4. \A a, b \in all : <<a, b>> \notin MorePairs(all) => b.bytes >= a.bytes
    BY <2>1 DEF MorePairs
  <2> QED
    BY <2>3, <2>4
<1>4. \A g \in Range(groups) \ bars : g.streams > 0 => \A t \in bars : t.speed >= g.speed
  <2> DEFINE q == Sorted(active, Faster)
  <2>0. active \in SUBSET used
    OBVIOUS
  <2>1. /\ IsFiniteSet(active) /\ InOrder(q, active, FasterPairs(active))
        /\ \A a \in active : a.speed \in Nat
        /\ \A a, b \in active : <<a, b>> \in FasterPairs(active) => <<b, a>> \notin FasterPairs(active)
    <3>1. IsFiniteSet(used) /\ \A a \in used : a.speed \in Nat
      BY InUseIsOfList, GroupsAreSortable
    <3> HIDE DEF active
    <3> QED
      BY <2>0, <3>1, InUseIsOfList, GroupsInOrder, FS_Subset DEF Sortable
  <2>2. bars = Range(FirstOf(q, PoolCount)) /\ PoolCount \in Nat \ {0}
    BY GroupsAssumption DEF ActiveProviders
  <2>3. Range(groups) = used
    BY GroupServersInOrder
  <2>4. \A g \in used : g.streams > 0 => g \in active
    OBVIOUS
  <2> HIDE DEF q, active, used, bars, groups
  <2>5. bars \subseteq active /\ \A a \in active \ bars : \A b \in bars : <<a, b>> \notin FasterPairs(active)
    BY <2>1, <2>2, ShortenedKeepsTop
  <2>6. \A a, b \in active : <<a, b>> \notin FasterPairs(active) => b.speed >= a.speed
    BY <2>1 DEF FasterPairs
  <2> QED
    BY <2>3, <2>4, <2>5, <2>6
<1> QED
  BY <1>1, <1>2, <1>3, <1>4 DEF GroupsConserve

-----------------------------------------------------------------------------
(* The sections of the server page *)

SectionsOf(list) == {Section(list, i) : i \in MapKeys(list, DOMAIN list)}

LEMMA SectionIs ==
    \A list, i :
       LET s == Section(list, i)
       IN  /\ s.place = PlaceOf(list, DOMAIN list, i)
           /\ s.speed = Total(list, "speed", OfProvider(list, DOMAIN list, i))
  BY DEF Section

LEMMA SectionsAreSortable ==
    ASSUME NEW list \in Lists
    PROVE  LET sections == SectionsOf(list)
           IN  /\ Sortable(sections, SectionPairs(sections))
               /\ \A a \in sections : a.speed \in Nat
<1> DEFINE keys == MapKeys(list, DOMAIN list)
           section == [i \in keys |-> Section(list, i)]
           sections == SectionsOf(list)
<1>1. IsFiniteSet(keys) /\ keys \subseteq DOMAIN list
  BY PlacesAreNumbers
<1>2. section \in Surjection(keys, sections)
  BY DEF SectionsOf, Surjection
<1>3. IsFiniteSet(sections)
  <2> HIDE DEF keys, section, sections
  <2> QED
    BY <1>1, <1>2, FS_Surjection
<1>4. \A a \in sections : \E i \in keys : a = Section(list, i)
  BY DEF SectionsOf
<1>5. ASSUME NEW i \in keys
      PROVE  Section(list, i).place \in Nat /\ Section(list, i).speed \in Nat
  <2>1. OfProvider(list, DOMAIN list, i) \subseteq DOMAIN list
    BY <1>1, PlacesAreNumbers
  <2>2. Total(list, "speed", OfProvider(list, DOMAIN list, i)) \in Nat
    BY <2>1, TotalsAreNumbers
  <2> QED
    BY <2>2, SectionIs, PlacesDiffer
<1>6. ASSUME NEW i \in keys, NEW j \in keys, i # j
      PROVE  Section(list, i).place # Section(list, j).place
  BY <1>6, SectionIs, PlacesDiffer
<1> HIDE DEF keys, sections
<1>7. \A a \in sections : a.place \in Nat /\ a.speed \in Nat
  BY <1>4, <1>5
<1>8. \A a, b \in sections : a # b => a.place # b.place
  BY <1>4, <1>6
<1>9. \A a, b \in sections : <<a, b>> \in SectionPairs(sections) <=> SectionPrecedes(a, b)
  BY DEF SectionPairs
<1>t. \A a, b : SectionPrecedes(a, b)
                 <=> \/ Troubled(a) /\ ~Troubled(b)
                     \/ (Troubled(a) <=> Troubled(b)) /\ a.speed > b.speed
  <2>1. \A a : Troubled(a) \in BOOLEAN
    BY DEF Troubled
  <2> QED
    BY <2>1 DEF SectionPrecedes
<1>10. \A a, b \in sections : SectionPrecedes(a, b) => ~SectionPrecedes(b, a)
  <2>1. \A a, b \in sections : a.speed > b.speed => ~(b.speed > a.speed)
    BY <1>7
  <2> QED
    BY <1>t, <2>1
<1>11. \A a, b, c \in sections :
          SectionPrecedes(a, c) => SectionPrecedes(a, b) \/ SectionPrecedes(b, c)
  <2>1. \A a, b, c \in sections : a.speed > c.speed => a.speed > b.speed \/ b.speed > c.speed
    BY <1>7
  <2> QED
    BY <1>t, <2>1
<1>12. Sortable(sections, SectionPairs(sections))
  BY <1>3, <1>7, <1>8, <1>9, <1>10, <1>11 DEF Sortable
<1> QED
  BY <1>7, <1>12 DEF sections

LEMMA TroubledGoFirst ==
    ASSUME NEW list \in Lists, servers = list
    PROVE  TroubledFirst
<1> DEFINE sections == SectionsOf(list)
           q == BuildProviderSections(list)
<1>1. /\ Sortable(sections, SectionPairs(sections)) /\ \A a \in sections : a.speed \in Nat
  BY SectionsAreSortable
<1>2. q = Sorted(sections, LAMBDA a, b : SectionPrecedes(a, b))
  BY DEF BuildProviderSections, SectionsOf
<1> HIDE DEF sections, q
<1>3. InOrder(q, sections, SectionPairs(sections))
  BY <1>1, <1>2, SortedByTrouble
<1>4. ASSUME NEW i \in DOMAIN q, NEW j \in DOMAIN q, i < j
      PROVE  \/ Troubled(q[i]) /\ ~Troubled(q[j])
             \/ Troubled(q[i]) = Troubled(q[j]) /\ q[i].speed >= q[j].speed
  <2>1. q[i] \in sections /\ q[j] \in sections
    BY <1>3 DEF InOrder
  <2>2. SectionPrecedes(q[i], q[j]) \/ ~SectionPrecedes(q[j], q[i])
    BY <1>3, <1>4, <2>1 DEF InOrder, SectionPairs
  <2>3. q[i].speed \in Nat /\ q[j].speed \in Nat
    BY <1>1, <2>1
  <2>4. Troubled(q[i]) \in BOOLEAN /\ Troubled(q[j]) \in BOOLEAN
    BY DEF Troubled
  <2> QED
    BY <2>2, <2>3, <2>4 DEF SectionPrecedes
<1> QED
  BY <1>4 DEF TroubledFirst, q

-----------------------------------------------------------------------------
(* What the pages make of any list *)

LEMMA AnswersAreLists == GroupsTypeOK /\ [GroupsNext]_servers => GroupsTypeOK'
<1> SUFFICES ASSUME GroupsTypeOK, GroupsNext PROVE GroupsTypeOK'
  BY DEF GroupsTypeOK
<1>0. servers \in Seq(Servers) /\ Len(servers) \in Nat /\ Len(servers) <= MaxServers /\ MaxServers \in Nat
  BY GroupsAssumption DEF GroupsTypeOK
<1>1. ASSUME NEW s \in Servers, Len(servers) < MaxServers, servers' = Append(servers, s) PROVE GroupsTypeOK'
  BY <1>0, <1>1 DEF GroupsTypeOK
<1>2. ASSUME NEW i \in DOMAIN servers, NEW s \in Servers, servers' = [servers EXCEPT ![i] = s] PROVE GroupsTypeOK'
  BY <1>0, <1>2 DEF GroupsTypeOK
<1>3. \A s \in Servers : /\ \A n \in 0 .. 1 : [s EXCEPT !.streams = n] \in Servers
                         /\ \A n \in 0 .. MaxFigure : [s EXCEPT !.speed = n] \in Servers
                         /\ \A n \in 0 .. MaxFigure : [s EXCEPT !.bytes = n] \in Servers
                         /\ \A st \in Troubles : [s EXCEPT !.status = st] \in Servers
  BY DEF Servers
<1>4. \A i \in DOMAIN servers : servers[i] \in Servers
  BY <1>0
<1>5. ASSUME NEW i \in DOMAIN servers,
             \/ \E n \in 0 .. 1 : servers' = [servers EXCEPT ![i].streams = n]
             \/ \E n \in 0 .. MaxFigure : servers' = [servers EXCEPT ![i].speed = n]
             \/ \E n \in 0 .. MaxFigure : servers' = [servers EXCEPT ![i].bytes = n]
             \/ \E st \in Troubles : servers' = [servers EXCEPT ![i].status = st]
      PROVE  \E s \in Servers : servers' = [servers EXCEPT ![i] = s]
  <2>1. servers[i] \in Servers
    BY <1>4, <1>5
  <2>2. CASE \E n \in 0 .. 1 : servers' = [servers EXCEPT ![i].streams = n]
    BY <1>3, <2>1, <2>2
  <2>3. CASE \E n \in 0 .. MaxFigure : servers' = [servers EXCEPT ![i].speed = n]
    BY <1>3, <2>1, <2>3
  <2>4. CASE \E n \in 0 .. MaxFigure : servers' = [servers EXCEPT ![i].bytes = n]
    BY <1>3, <2>1, <2>4
  <2>5. CASE \E st \in Troubles : servers' = [servers EXCEPT ![i].status = st]
    BY <1>3, <2>1, <2>5
  <2> QED
    BY <1>5, <2>2, <2>3, <2>4, <2>5
<1> QED
  BY <1>1, <1>2, <1>5 DEF GroupsNext, NextAnswer

LEMMA ListsOnly == GroupsSpec => []GroupsTypeOK
<1>1. GroupsInit => GroupsTypeOK
  BY GroupsAssumption DEF GroupsInit, GroupsTypeOK
<1> QED
  BY <1>1, AnswersAreLists, PTL DEF GroupsSpec

(* Whatever the API returns, groupServers carries every stream and all speed of the list,
   each provider once, and the shortened lists of the dashboard and the network column keep
   the largest (providerGrouping.ts, Dashboard.tsx, ServerPoolColumn.tsx). *)
THEOREM GroupsConserveHolds == GroupsSpec => []GroupsConserve
<1>1. GroupsTypeOK => GroupsConserve
  BY ListIsTyped, GroupsAreConserved
<1> QED
  BY <1>1, ListsOnly, PTL

(* A provider with a server in trouble is never listed below one without, and among equals
   the faster comes first (buildProviderSections of ProviderAccordion.tsx). *)
THEOREM TroubledFirstHolds == GroupsSpec => []TroubledFirst
<1>1. GroupsTypeOK => TroubledFirst
  BY ListIsTyped, TroubledGoFirst
<1> QED
  BY <1>1, ListsOnly, PTL

(* As long as the same servers are in use in the same order, every provider keeps its
   colour, however the ranking moves (groupServers of providerGrouping.ts). *)
THEOREM ColoursStandStillHolds == GroupsSpec => ColoursStandStill
<1>1. GroupsTypeOK /\ GroupsTypeOK' =>
         (Used(servers) = Used(servers') => Colours(servers) = Colours(servers'))
  <2> SUFFICES ASSUME GroupsTypeOK, GroupsTypeOK', Used(servers) = Used(servers')
               PROVE  Colours(servers) = Colours(servers')
    OBVIOUS
  <2>1. servers \in Lists /\ servers' \in Lists
    BY DEF GroupsTypeOK, Lists
  <2> QED
    BY <2>1, ColoursFollowUse
<1> QED
  BY <1>1, ListsOnly, PTL DEF GroupsSpec, ColoursStandStill

-----------------------------------------------------------------------------
(* The pages side by side *)

ReadsInv == GroupsTypeOK /\ PanelsInv /\ ListsInv /\ ChartsInv /\ LoadsFollow

LEMMA ReadsInvInit == ReadsInit => ReadsInv
<1>1. GroupsInit => GroupsTypeOK
  BY GroupsAssumption DEF GroupsInit, GroupsTypeOK
<1> QED
  BY <1>1, PanelsInit, ListsInit, ChartsInvInit DEF ReadsInit, ReadsInv

LEMMA ReadsInvStep == ReadsInv /\ [ReadsNext]_readsVars => ReadsInv'
<1> SUFFICES ASSUME ReadsInv, [ReadsNext]_readsVars PROVE ReadsInv'
  OBVIOUS
<1>1. [GroupsNext]_servers /\ [DashboardNext]_dashboardVars /\ [ServersNext]_serversVars /\ [ChartsNext]_chartsVars
  BY DEF ReadsNext, readsVars
<1> QED
  BY <1>1, AnswersAreLists, PanelsStep, ListsStep, ChartsInvStep DEF ReadsInv

(* Every page keeps within its types while the others are not open: lists, polls, loads and
   panels hold what the server once held, and no throttle event is shown that the server
   does not know (ServerHealth.tsx, Dashboard.tsx, Charts.tsx, ThrottleLog.tsx). *)
THEOREM ReadsTypes == ReadsSpec => []ReadsTypeOK
<1>1. ReadsInv => ReadsTypeOK
  BY DashboardTypes, ServersTypes, ChartsTypes DEF ReadsInv, ReadsTypeOK
<1> QED
  BY <1>1, ReadsInvInit, ReadsInvStep, PTL DEF ReadsSpec
=============================================================================
