------------------------------ MODULE Session ------------------------------
(***************************************************************************)
(* Who starts and stops the engines: the scheduler's tick loop and the     *)
(* API handlers, all calling startEngines and stopEngines of main.go, none *)
(* holding a lock.  Threads are the scheduler and one goroutine per API    *)
(* client; each runs the procedures step by step, `pc' naming the step and *)
(* `ret' the steps to return to.                                           *)
(*                                                                         *)
(* DL and UL are the two engines that run (the S3 engine is idle: an S3    *)
(* upload without credentials is skipped), composed from their modules;    *)
(* every call into one is that module's action.                            *)
(*                                                                         *)
(* Speeds stand for a pair of Mbps values; 0 is "unlimited", and also the  *)
(* scheduler's "nothing applied" and "no schedule matches".                *)
(***************************************************************************)
EXTENDS Integers, Sequences

CONSTANTS
    Clients,         \* threads that serve API requests
    Sched,           \* the scheduler's thread
    DefaultSpeed,    \* the configured default before any speed test (10 Mbps)
    TestedSpeeds,    \* what a successful ISP test may configure
    ScheduleSpeeds,  \* speeds of the schedules
    RequestSpeeds,   \* speeds a start request may name instead of the default
    AutoModes,       \* values the autoMode setting may have at a start
    UploadModes,     \* values the uploadMode setting may have at a start
    Generations, None, Concurrencies, MaxConcurrency, Throughput,  \* of the engines
    Overlap          \* whether a request or a tick may begin while another thread works

Threads == Clients \cup {Sched}

ASSUME SpeedAssumption ==
    /\ DefaultSpeed \in Nat \ {0}
    /\ TestedSpeeds \subseteq Nat \ {0}
    /\ ScheduleSpeeds \subseteq Nat \ {0}
    /\ RequestSpeeds \subseteq Nat \ {0}
ASSUME ModeAssumption ==
    /\ AutoModes \subseteq {"reliable", "max"}
    /\ UploadModes \subseteq {"http", "s3"}
    /\ Overlap \in BOOLEAN

ASSUME EnginesAssumption ==
    /\ None \notin Generations
    /\ Concurrencies \subseteq Nat \ {0}
    /\ MaxConcurrency \in Nat
    /\ Throughput \subseteq Nat

VARIABLES
    running,      \* main's running flag
    override,     \* Scheduler.manualOverride
    manual,       \* Scheduler.manualDownloadMbps, manualUploadMbps
    applied,      \* Scheduler.lastAppliedDownload, lastAppliedUpload
    matched,      \* the speed of the schedule that matches now, or 0
    cfgSpeed,     \* the configured default speed
    limit,        \* the rate limit and target the engines were given
    ispRunning,   \* ispTestRunning
    pc, ret,      \* per thread: current step, and the steps to return to
    want,         \* per thread: the speed its caller asked startEngines for
    speed,        \* per thread: the speed startEngines has settled on
    dlRunning, dlCancel, dlActive, dlCancelled, dlLaunching, dlStreams, dlAdjusting,
    dlPc, dlHeld,
    ulRunning, ulCancel, ulActive, ulCancelled, ulLaunching, ulStreams, ulAdjusting,
    ulPc, ulMine

DL == INSTANCE DownloadEngine WITH
    Stoppers <- Threads, StopsIdle <- TRUE, Overlap <- TRUE,
    running <- dlRunning, cancel <- dlCancel, active <- dlActive,
    cancelled <- dlCancelled, launching <- dlLaunching, streams <- dlStreams,
    adjusting <- dlAdjusting, pc <- dlPc, held <- dlHeld

UL == INSTANCE HTTPEngine WITH
    Callers <- Threads, Serial <- FALSE,
    running <- ulRunning, cancel <- ulCancel, active <- ulActive,
    cancelled <- ulCancelled, launching <- ulLaunching, streams <- ulStreams,
    adjusting <- ulAdjusting, pc <- ulPc, mine <- ulMine

dlVars == <<dlRunning, dlCancel, dlActive, dlCancelled, dlLaunching, dlStreams,
            dlAdjusting, dlPc, dlHeld>>
ulVars == <<ulRunning, ulCancel, ulActive, ulCancelled, ulLaunching, ulStreams,
            ulAdjusting, ulPc, ulMine>>
control == <<running, override, manual, applied, matched, cfgSpeed, limit, ispRunning>>
thread == <<pc, ret, want, speed>>
vars == <<control, thread, dlVars, ulVars>>

Init ==
    /\ DL!Init /\ UL!Init
    /\ running = FALSE /\ ispRunning = FALSE
    /\ override = "none"
    /\ manual = 0 /\ applied = 0 /\ limit = DefaultSpeed
    /\ matched \in {0} \cup ScheduleSpeeds
    /\ cfgSpeed = DefaultSpeed
    /\ pc = [t \in Threads |-> "idle"]
    /\ ret = [t \in Threads |-> <<>>]
    /\ want = [t \in Threads |-> 0]
    /\ speed = [t \in Threads |-> 0]

-----------------------------------------------------------------------------
(* Control flow of a thread *)

AllIdle == \A t \in Threads : pc[t] = "idle"

\* A request or a tick may begin now.
MayBegin(t) == pc[t] = "idle" /\ (Overlap \/ AllIdle)

Goto(t, step) ==
    /\ pc' = [pc EXCEPT ![t] = step]
    /\ UNCHANGED ret

Call(t, step, back) ==
    /\ pc' = [pc EXCEPT ![t] = step]
    /\ ret' = [ret EXCEPT ![t] = <<back>> \o @]

Return(t) ==
    /\ pc' = [pc EXCEPT ![t] = Head(ret[t])]
    /\ ret' = [ret EXCEPT ![t] = Tail(@)]

\* startEngines(s), to come back to `back'.
CallStart(t, s, back) ==
    /\ Call(t, "start", back)
    /\ want' = [want EXCEPT ![t] = s]
    /\ speed' = [speed EXCEPT ![t] = s]

\* The locals of a call that has ended are dead.
Forget(t) ==
    /\ want' = [want EXCEPT ![t] = 0]
    /\ speed' = [speed EXCEPT ![t] = 0]

NoSpeeds == UNCHANGED <<want, speed>>
NoEngines == UNCHANGED <<dlVars, ulVars>>

-----------------------------------------------------------------------------
(* Mutated forms: slips a change to the code might make.  No behaviour of Spec
   takes them; each is known to break one of the properties below. *)

\* The ISP test does not pause the engines.
RequestTest_noPause(c) ==
    /\ MayBegin(c)
    /\ Goto(c, "ispBegin")
    /\ UNCHANGED control /\ NoSpeeds /\ NoEngines

\* The tick takes a stop override for no override.
Tick_stopIgnored ==
    /\ MayBegin(Sched)
    /\ Goto(Sched, IF override = "forceStart" THEN "forced" ELSE "scheduled")
    /\ UNCHANGED control /\ NoSpeeds /\ NoEngines

\* The tick trusts what it last applied and not the engines.
Ensure_trustsApplied(s) ==
    IF applied # s
    THEN CallStart(Sched, s, "record")
    ELSE Goto(Sched, "idle") /\ NoSpeeds

\* The tick does nothing when no schedule matches.
TickScheduled_neverStops ==
    /\ pc[Sched] = "scheduled"
    /\ \/ matched = 0 /\ Goto(Sched, "idle") /\ NoSpeeds
       \/ matched # 0 /\ Ensure_trustsApplied(matched)
    /\ UNCHANGED control /\ NoEngines

\* stopEngines does not wait for the upload engine's Stop.
Stopped_noWait(t) ==
    /\ pc[t] = "stopped"
    /\ running' = FALSE
    /\ Return(t)
    /\ UNCHANGED <<override, manual, applied, matched, cfgSpeed, limit, ispRunning>>
    /\ NoSpeeds /\ NoEngines

-----------------------------------------------------------------------------
(* The API handlers *)

\* HandleStart begins: the speed in the request, or the configured default.
RequestStart(c) ==
    /\ MayBegin(c)
    /\ \E s \in {cfgSpeed} \cup RequestSpeeds : CallStart(c, s, "manualStart")
    /\ UNCHANGED control /\ NoEngines

\* HandleStart ends: only now does the scheduler learn of it.
ManualStart(c) ==
    /\ pc[c] = "manualStart"
    /\ manual' = want[c]
    /\ override' = "forceStart"
    /\ Goto(c, "idle")
    /\ UNCHANGED <<running, applied, matched, cfgSpeed, limit, ispRunning>>
    /\ Forget(c) /\ NoEngines

\* HandleStop: the override first, then stopEngines.
RequestStop(c) ==
    /\ MayBegin(c)
    /\ override' = "forceStop"
    /\ Call(c, "stop", "idle")
    /\ UNCHANGED <<running, manual, applied, matched, cfgSpeed, limit, ispRunning>>
    /\ NoSpeeds /\ NoEngines

\* The ISP speed test on demand pauses running engines.
RequestTest(c) ==
    /\ MayBegin(c)
    /\ IF running THEN Call(c, "stop", "ispBegin") ELSE Goto(c, "ispBegin")
    /\ UNCHANGED control /\ NoSpeeds /\ NoEngines

IspBegin(c) ==
    /\ pc[c] = "ispBegin"
    /\ ispRunning' = TRUE
    /\ Goto(c, "ispEnd")
    /\ UNCHANGED <<running, override, manual, applied, matched, cfgSpeed, limit>>
    /\ NoSpeeds /\ NoEngines

\* The test fails, or configures a new default speed.
IspEnd(c) ==
    /\ pc[c] = "ispEnd"
    /\ ispRunning' = FALSE
    /\ cfgSpeed' \in {cfgSpeed} \cup TestedSpeeds
    /\ Goto(c, "idle")
    /\ UNCHANGED <<running, override, manual, applied, matched, limit>>
    /\ NoSpeeds /\ NoEngines

-----------------------------------------------------------------------------
(* The scheduler *)

\* Time passes into or out of a schedule's window, or schedules are edited.
MatchChanges ==
    /\ matched' \in {0} \cup ScheduleSpeeds
    /\ matched' # matched
    /\ UNCHANGED <<running, override, manual, applied, cfgSpeed, limit, ispRunning, thread>>
    /\ NoEngines

Tick ==
    /\ MayBegin(Sched)
    /\ \/ override = "forceStop"  /\ Call(Sched, "stop", "forget")
       \/ override = "forceStart" /\ Goto(Sched, "forced")
       \/ override = "none"       /\ Goto(Sched, "scheduled")
    /\ UNCHANGED control /\ NoSpeeds /\ NoEngines

\* Start the engines unless they run at this speed by the scheduler's own doing.
Ensure(s) ==
    IF ~running \/ applied # s
    THEN CallStart(Sched, s, "record")
    ELSE Goto(Sched, "idle") /\ NoSpeeds

TickForced ==
    /\ pc[Sched] = "forced"
    /\ Ensure(manual)
    /\ UNCHANGED control /\ NoEngines

\* No schedule matches, or one does.
TickScheduled ==
    /\ pc[Sched] = "scheduled"
    /\ \/ matched = 0 /\ Call(Sched, "stop", "forget") /\ NoSpeeds
       \/ matched # 0 /\ Ensure(matched)
    /\ UNCHANGED control /\ NoEngines

\* The schedules cannot be read: the tick changes nothing.
TickReadFails ==
    /\ pc[Sched] = "scheduled"
    /\ Goto(Sched, "idle")
    /\ UNCHANGED control /\ NoSpeeds /\ NoEngines

\* lastApplied after a start, and after a stop.
TickEnds(step, s) ==
    /\ pc[Sched] = step
    /\ applied' = s
    /\ Goto(Sched, "idle")
    /\ UNCHANGED <<running, override, manual, matched, cfgSpeed, limit, ispRunning>>
    /\ Forget(Sched) /\ NoEngines

-----------------------------------------------------------------------------
(* startEngines *)

\* Engines that run are stopped first, by the same calls as in stopEngines.
StartCheck(t) ==
    /\ pc[t] = "start"
    /\ IF running THEN Call(t, "stopDl", "config") ELSE Goto(t, "config")
    /\ UNCHANGED control /\ NoSpeeds /\ NoEngines

\* Max mode lifts the limit; reliable mode measures the line if only default
\* speeds are configured.
Config(t) ==
    /\ pc[t] = "config"
    /\ \/ /\ "max" \in AutoModes
          /\ Goto(t, "apply")
          /\ speed' = [speed EXCEPT ![t] = 0]
          /\ UNCHANGED ispRunning
       \/ /\ "reliable" \in AutoModes /\ cfgSpeed <= DefaultSpeed
          /\ Goto(t, "testEnd")
          /\ ispRunning' = TRUE
          /\ UNCHANGED speed
       \/ /\ "reliable" \in AutoModes /\ cfgSpeed > DefaultSpeed
          /\ Goto(t, "apply")
          /\ UNCHANGED <<speed, ispRunning>>
    /\ UNCHANGED <<running, override, manual, applied, matched, cfgSpeed, limit, want>>
    /\ NoEngines

\* The test fails and the caller's speed stands, or the measured speed replaces
\* both it and the configured default.
TestEnd(t) ==
    /\ pc[t] = "testEnd"
    /\ ispRunning' = FALSE
    /\ \/ UNCHANGED <<cfgSpeed, speed>>
       \/ \E s \in TestedSpeeds :
            cfgSpeed' = s /\ speed' = [speed EXCEPT ![t] = s]
    /\ Goto(t, "apply")
    /\ UNCHANGED <<running, override, manual, applied, matched, limit, want>>
    /\ NoEngines

Apply(t) ==
    /\ pc[t] = "apply"
    /\ limit' = speed[t]
    /\ Goto(t, "startDl")
    /\ UNCHANGED <<running, override, manual, applied, matched, cfgSpeed, ispRunning>>
    /\ NoSpeeds /\ NoEngines

\* On an engine that runs already, Start does nothing.
StartDl(t) ==
    /\ pc[t] = "startDl"
    /\ DL!Start \/ (dlRunning /\ UNCHANGED dlVars)
    /\ Goto(t, "startUl")
    /\ UNCHANGED <<control, ulVars>> /\ NoSpeeds

StartUl(t) ==
    /\ pc[t] = "startUl"
    /\ \/ "http" \in UploadModes /\ UL!StartCall(t)
       \/ "s3" \in UploadModes /\ UNCHANGED ulVars
    /\ Goto(t, "started")
    /\ UNCHANGED <<control, dlVars>> /\ NoSpeeds

Started(t) ==
    /\ pc[t] = "started" /\ ulPc[t] = "idle"
    /\ running' = TRUE
    /\ Return(t)
    /\ UNCHANGED <<override, manual, applied, matched, cfgSpeed, limit, ispRunning>>
    /\ NoSpeeds /\ NoEngines

-----------------------------------------------------------------------------
(* stopEngines *)

StopCheck(t) ==
    /\ pc[t] = "stop"
    /\ IF running THEN Goto(t, "stopDl") ELSE Return(t)
    /\ UNCHANGED control /\ NoSpeeds /\ NoEngines

StopDl(t) ==
    /\ pc[t] = "stopDl"
    /\ DL!StopCall(t)
    /\ Goto(t, "stopUl")
    /\ UNCHANGED <<control, ulVars>> /\ NoSpeeds

\* The download engine's Stop has returned.
StopUl(t) ==
    /\ pc[t] = "stopUl" /\ dlPc[t] = "idle"
    /\ UL!StopCall(t)
    /\ Goto(t, "stopped")
    /\ UNCHANGED <<control, dlVars>> /\ NoSpeeds

\* The upload engine's Stop has returned.
Stopped(t) ==
    /\ pc[t] = "stopped" /\ ulPc[t] = "idle"
    /\ running' = FALSE
    /\ Return(t)
    /\ UNCHANGED <<override, manual, applied, matched, cfgSpeed, limit, ispRunning>>
    /\ NoSpeeds /\ NoEngines

-----------------------------------------------------------------------------
\* A step of the call under way in thread t.
Working(t) ==
    \/ StartCheck(t) \/ Config(t) \/ TestEnd(t) \/ Apply(t)
    \/ StartDl(t) \/ StartUl(t) \/ Started(t)
    \/ StopCheck(t) \/ StopDl(t) \/ StopUl(t) \/ Stopped(t)
    \/ ManualStart(t) \/ IspBegin(t) \/ IspEnd(t)
    \/ DL!Stopping(t) /\ UNCHANGED <<control, thread, ulVars>>
    \/ (UL!Starting(t) \/ UL!Stopping(t)) /\ UNCHANGED <<control, thread, dlVars>>

TickGoesOn ==
    \/ TickForced \/ TickScheduled \/ TickReadFails
    \/ TickEnds("record", want[Sched]) \/ TickEnds("forget", 0)

DLGoroutine(g) ==
    /\ DL!LaunchNext(g) \/ DL!AutoAdjust(g) \/ DL!Leaving(g)
    /\ UNCHANGED <<control, thread, ulVars>>

ULGoroutine(g) ==
    /\ UL!LaunchNext(g) \/ UL!AutoAdjust(g) \/ UL!Leaving(g)
    /\ UNCHANGED <<control, thread, dlVars>>

Next ==
    \/ \E c \in Clients : RequestStart(c) \/ RequestStop(c) \/ RequestTest(c)
    \/ MatchChanges
    \/ Tick \/ TickGoesOn
    \/ \E t \in Threads : Working(t)
    \/ \E g \in Generations : DLGoroutine(g) \/ ULGoroutine(g)

\* The ticker fires every 30 s however often requests keep the scheduler waiting
\* (strong fairness matters only when Overlap is FALSE); reading the schedules does
\* not fail for ever; a call under way goes on; goroutines whose context is done
\* return.
Fairness ==
    /\ SF_vars(Tick)
    /\ WF_vars(TickGoesOn) /\ SF_vars(TickScheduled)
    /\ \A t \in Threads : WF_vars(Working(t))
    /\ \A g \in Generations :
        /\ WF_vars(DL!AbandonLaunch(g) /\ UNCHANGED <<control, thread, ulVars>>)
        /\ WF_vars(DL!StreamExit(g) /\ UNCHANGED <<control, thread, ulVars>>)
        /\ WF_vars(DL!AutoAdjustExit(g) /\ UNCHANGED <<control, thread, ulVars>>)
        /\ WF_vars(UL!AbandonLaunch(g) /\ UNCHANGED <<control, thread, dlVars>>)
        /\ WF_vars(UL!StreamExit(g) /\ UNCHANGED <<control, thread, dlVars>>)
        /\ WF_vars(UL!AutoAdjustExit(g) /\ UNCHANGED <<control, thread, dlVars>>)

Spec == Init /\ [][Next]_vars /\ Fairness

-----------------------------------------------------------------------------
(* Properties *)

Streaming == ~DL!Quiet \/ ~UL!Quiet

Measuring == \E t \in Threads : pc[t] \in {"testEnd", "ispEnd"}

\* No goroutine of an engine escapes the engine's next Stop.
NoOrphans == DL!NoOrphans /\ UL!NoOrphans

\* The scheduler and the handlers use both engines as they must be used, the upload
\* engine too, whose Start looks at nothing: no goroutine escapes the next Stop, an engine
\* that drains is not started again before it is off, and none drains but by a Stop.
EnginesKeepContract == []NoOrphans /\ DL!KeepsContract /\ UL!KeepsContract

\* The ISP speed test measures a silent line: "Pause engines - stop all
\* download/upload traffic".
MeasuresInSilence == Measuring => ~Streaming

\* Once a stop request is answered, and until a start request is, nothing streams:
\* neither a tick nor an ISP test brings the engines back.
StopOverrideHolds == AllIdle /\ override = "forceStop" => ~Streaming

\* A manual start holds against schedules and ISP tests: "forces the engines to run".
ForceStartWins ==
    override = "forceStart" ~> (~DL!Quiet \/ override # "forceStart")

\* Left to the schedules, the engines stop when no window matches any more.
ScheduleEnds ==
    []<>(override # "none" \/ matched # 0 \/ ~Streaming)

=============================================================================
