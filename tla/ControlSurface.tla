--------------------------- MODULE ControlSurface ---------------------------
(***************************************************************************)
(* The control surface at the head of the dashboard (ControlSurface.tsx    *)
(* with its columns): the button that launches and stops the engines, the  *)
(* switch between the modes, the history of speeds, and what is shown of   *)
(* the frames the server sends every second.                               *)
(*                                                                         *)
(* A frame is taken when the server broadcasts and arrives later, so the   *)
(* page always acts on an older state of the server.  Every command is a   *)
(* request of its own: it is sent, served (or lost) and answered.  Leaving *)
(* the dashboard and coming back makes a new component while the answers   *)
(* to the old one are still on their way.                                  *)
(* A slip of a change to the code is named after its definition and a word *)
(* (Toggle_twice); no behaviour takes one.                                 *)
(***************************************************************************)
EXTENDS Naturals, Sequences, FiniteSets, SequencesExt

CONSTANTS MaxBps,        \* largest speed of a frame (bound)
          FrameCap,      \* frames on their way at a time (bound)
          SparkCap,      \* MAX_SPARKLINE
          MaxCalls,      \* start and stop requests at a time (bound)
          MaxOverlap,    \* mode requests at a time (bound)
          MaxModeClicks, \* mode changes (bound)
          MaxLost        \* mode requests that fail (bound)

ASSUME ControlAssumption == /\ MaxBps \in Nat
                            /\ FrameCap \in Nat \ {0}
                            /\ SparkCap \in Nat \ {0}
                            /\ MaxCalls \in Nat \ {0}
                            /\ MaxOverlap \in Nat \ {0}
                            /\ MaxModeClicks \in Nat
                            /\ MaxLost \in Nat

Modes == {"reliable", "max"}
Ops == {"start", "stop"}
Frames == [running : BOOLEAN, bps : 0 .. MaxBps, mode : Modes]
Calls == [op : Ops, mine : BOOLEAN, served : BOOLEAN]

VARIABLES
    engine,        \* the server: are the engines running, and autoMode
    frames,        \* frames on their way, oldest first
    view,          \* stats: the last frame, or the empty one
    mode,          \* the mode the switch shows
    toggling,
    spark,         \* sparkline
    lastBps,       \* lastBpsRef.current
    calls,         \* start and stop requests under way
    modeRequests,  \* updateSettings requests under way
    modeClicks,
    lost           \* mode requests that failed

controlVars == <<engine, frames, view, mode, toggling, spark, lastBps, calls,
                 modeRequests, modeClicks, lost>>

EmptyView == [running |-> FALSE, bps |-> 0, mode |-> ""]

ControlTypeOK ==
    /\ engine \in [running : BOOLEAN, mode : Modes]
    /\ frames \in Seq(Frames) /\ Len(frames) <= FrameCap
    /\ view \in Frames \cup {EmptyView}
    /\ mode \in Modes
    /\ toggling \in BOOLEAN
    /\ spark \in Seq(0 .. MaxBps) /\ Len(spark) <= SparkCap
    /\ lastBps \in 0 .. MaxBps
    /\ calls \in Seq(Calls) /\ Len(calls) <= MaxCalls
    /\ modeRequests \in Seq(Modes) /\ Len(modeRequests) <= MaxOverlap
    /\ modeClicks \in 0 .. MaxModeClicks
    /\ lost \in 0 .. MaxLost

KeepLast(seq, n) == IF Len(seq) <= n THEN seq ELSE SubSeq(seq, Len(seq) - n + 1, Len(seq))

(* The buttons of the two screens; the columns of figures beside them are left out. *)
ModeToggle == {"reliable", "max"}
IdleScreen == IF toggling THEN ModeToggle ELSE ModeToggle \cup {"launch"}
RunningScreen == IF toggling THEN ModeToggle ELSE ModeToggle \cup {"stop"}
Buttons == IF view.running THEN RunningScreen ELSE IdleScreen

-----------------------------------------------------------------------------
(* The server *)

(* The broadcast goroutine: the speed is zero when the engines do not run. *)
SendFrame ==
    /\ Len(frames) < FrameCap
    /\ \E b \in 0 .. MaxBps :
          frames' = Append(frames, [running |-> engine.running, mode |-> engine.mode,
                                    bps |-> IF engine.running THEN b ELSE 0])
    /\ UNCHANGED <<engine, view, mode, toggling, spark, lastBps, calls, modeRequests,
                   modeClicks, lost>>

(* The scheduler starts or stops the engines on its own. *)
ScheduleFlips ==
    /\ engine' = [engine EXCEPT !.running = ~@]
    /\ UNCHANGED <<frames, view, mode, toggling, spark, lastBps, calls, modeRequests,
                   modeClicks, lost>>

-----------------------------------------------------------------------------
(* The component *)

(* The effect of the history: emptied when the engines do not run, else a speed that
   differs from the last one is added. *)
SparkEffect_always(v, history, last) ==
    IF ~v.running
    THEN spark' = <<>> /\ lastBps' = last
    ELSE /\ lastBps' = v.bps
         /\ spark' = KeepLast(Append(history, v.bps), SparkCap)

SparkEffect(v, history, last) ==
    IF ~v.running
    THEN spark' = <<>> /\ lastBps' = last
    ELSE /\ lastBps' = v.bps
         /\ spark' = IF v.bps = last THEN history ELSE KeepLast(Append(history, v.bps), SparkCap)

(* A frame arrives: the switch follows autoMode only when the frame changes it, and the
   history follows the speed. *)
FrameArrives ==
    /\ frames # <<>>
    /\ view' = Head(frames) /\ frames' = Tail(frames)
    /\ mode' = IF view'.mode # view.mode THEN view'.mode ELSE mode
    /\ SparkEffect(view', spark, lastBps)
    /\ UNCHANGED <<engine, toggling, calls, modeRequests, modeClicks, lost>>

(* Another page is opened and the dashboard again: a new component over the same
   statistics, whose effects run at once.  The old requests answer nobody. *)
Reopen ==
    /\ mode' = IF view.mode # "" THEN view.mode ELSE "reliable"
    /\ toggling' = FALSE
    /\ SparkEffect(view, <<>>, 0)
    /\ calls' = [i \in DOMAIN calls |-> [calls[i] EXCEPT !.mine = FALSE]]
    /\ UNCHANGED <<engine, frames, view, modeRequests, modeClicks, lost>>

(* handleModeChange: the switch moves at once, the request follows. *)
ChangeMode(m) ==
    /\ m \in Buttons
    /\ Len(modeRequests) < MaxOverlap /\ modeClicks < MaxModeClicks
    /\ mode' = m
    /\ modeRequests' = Append(modeRequests, m)
    /\ modeClicks' = modeClicks + 1
    /\ UNCHANGED <<engine, frames, view, toggling, spark, lastBps, calls, lost>>

(* A mode request reaches the server, in any order, or fails: nothing is caught and
   nothing is taken back. *)
ServeMode(i) ==
    /\ i \in DOMAIN modeRequests
    /\ modeRequests' = RemoveAt(modeRequests, i)
    /\ \/ engine' = [engine EXCEPT !.mode = modeRequests[i]] /\ UNCHANGED lost
       \/ lost < MaxLost /\ lost' = lost + 1 /\ UNCHANGED engine
    /\ UNCHANGED <<frames, view, mode, toggling, spark, lastBps, calls, modeClicks>>

(* handleToggle: stops what the last frame says is running, and starts it otherwise. *)
Toggle_twice ==
    /\ Len(calls) < MaxCalls
    /\ toggling' = TRUE
    /\ calls' = Append(calls, [op |-> IF view.running THEN "stop" ELSE "start",
                               mine |-> TRUE, served |-> FALSE])
    /\ UNCHANGED <<engine, frames, view, mode, spark, lastBps, modeRequests, modeClicks, lost>>

Toggle ==
    /\ Buttons \cap {"launch", "stop"} # {} /\ Len(calls) < MaxCalls
    /\ toggling' = TRUE
    /\ calls' = Append(calls, [op |-> IF view.running THEN "stop" ELSE "start",
                               mine |-> TRUE, served |-> FALSE])
    /\ UNCHANGED <<engine, frames, view, mode, spark, lastBps, modeRequests, modeClicks, lost>>

(* The server carries the command out, or answers an error and leaves things alone. *)
ServeCall(i) ==
    /\ i \in DOMAIN calls /\ ~calls[i].served
    /\ calls' = [calls EXCEPT ![i].served = TRUE]
    /\ \/ engine' = [engine EXCEPT !.running = (calls[i].op = "start")]
       \/ UNCHANGED engine
    /\ UNCHANGED <<frames, view, mode, toggling, spark, lastBps, modeRequests, modeClicks, lost>>

(* The answer, good or bad: finally sets toggling back, in the component that asked. *)
CallReturns(i) ==
    /\ i \in DOMAIN calls /\ calls[i].served
    /\ calls' = RemoveAt(calls, i)
    /\ toggling' = IF calls[i].mine THEN FALSE ELSE toggling
    /\ UNCHANGED <<engine, frames, view, mode, spark, lastBps, modeRequests, modeClicks, lost>>

-----------------------------------------------------------------------------
ControlInit ==
    /\ engine \in [running : {FALSE}, mode : Modes]
    /\ frames = <<>> /\ view = EmptyView
    /\ mode = "reliable" /\ toggling = FALSE
    /\ spark = <<>> /\ lastBps = 0
    /\ calls = <<>> /\ modeRequests = <<>> /\ modeClicks = 0 /\ lost = 0

ControlNext ==
    \/ SendFrame \/ ScheduleFlips \/ FrameArrives \/ Reopen \/ Toggle
    \/ \E m \in Modes : ChangeMode(m)
    \/ \E i \in 1 .. MaxOverlap : ServeMode(i)
    \/ \E i \in 1 .. MaxCalls : ServeCall(i) \/ CallReturns(i)

(* The server sends a frame a second and answers every request; the user and the
   scheduler owe nothing. *)
ControlFairness ==
    /\ WF_controlVars(SendFrame)
    /\ WF_controlVars(FrameArrives)
    /\ WF_controlVars(\E i \in 1 .. MaxOverlap : ServeMode(i))
    /\ WF_controlVars(\E i \in 1 .. MaxCalls : ServeCall(i))
    /\ WF_controlVars(\E i \in 1 .. MaxCalls : CallReturns(i))

ControlSpec == ControlInit /\ [][ControlNext]_controlVars /\ ControlFairness

-----------------------------------------------------------------------------
(* The history shows speeds of the session on screen only: it is empty over stopped
   engines, ends with the speed of the last frame, and never holds the same speed twice
   in a row, whatever starts, stops and reopenings come between (the effect with
   lastBpsRef in ControlSurface). *)
SparkFollows ==
    /\ spark # <<>> => view.running /\ spark[Len(spark)] = view.bps
    /\ view.running => lastBps = view.bps
    /\ \A i \in 1 .. Len(spark) - 1 : spark[i] # spark[i + 1]

(* The button is locked exactly while one command of this very component is under way;
   a command of a page that was left neither locks it nor unlocks it. *)
OneCommandAtATime ==
    Cardinality({i \in DOMAIN calls : calls[i].mine}) = IF toggling THEN 1 ELSE 0

(* A locked button comes back, whether the command succeeds, fails or is answered late. *)
ButtonComesBack == []<>~toggling

(* When no mode request fails, the switch ends up on the mode the server uses, although it
   moves before the server knows and frames that were taken earlier arrive later
   ("Sync mode from WebSocket", docs/plans/2026-04-02-control-surface-plan.md). *)
ModeIsTheServers == lost = 0 => mode = engine.mode
ModeSettles == <>[]ModeIsTheServers
=============================================================================
