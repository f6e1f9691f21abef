---------------------------- MODULE Session_proof ----------------------------
(***************************************************************************)
(* Proofs about Session, for any number of clients, any speeds, modes and  *)
(* engine parameters, as long as requests and ticks take turns.  Where     *)
(* they overlap the properties are not claimed: main.go holds no lock      *)
(* around startEngines and stopEngines.                                    *)
(***************************************************************************)
EXTENDS Session, SequenceTheorems, TLAPS

\* No request and no tick begins while another is being answered.
TakeTurns == Overlap = FALSE

-----------------------------------------------------------------------------
(* The invariant *)

\* Steps that only come after the engines were found, or made, to be stopped.
PausedSteps == {"config", "testEnd", "apply", "startDl", "startUl", "started",
                "ispBegin", "ispEnd"}

StartSteps == {"start", "config", "testEnd", "apply", "startDl", "startUl", "started"}

StopSteps == {"stopDl", "stopUl", "stopped"}

StartReturns == {<<"manualStart">>, <<"record">>}

StopReturns == {<<"idle">>, <<"ispBegin">>, <<"forget">>}

\* The steps to return to, at each step of a thread.
Returns(step) ==
    IF step \in StartSteps THEN StartReturns
    ELSE IF step = "stop" THEN StopReturns
    ELSE IF step \in StopSteps
         THEN StopReturns \cup {<<"config", "manualStart">>, <<"config", "record">>}
    ELSE {<<>>}

Frames ==
    /\ DOMAIN pc = Threads /\ DOMAIN ret = Threads
    /\ \A t \in Threads : ret[t] \in Returns(pc[t])

Alone == \A t, u \in Threads : pc[t] # "idle" /\ pc[u] # "idle" => t = u

Paused == \A t \in Threads : pc[t] \in PausedSteps => ~running

\* Between the tick's look at the override and its start of the engines no stop
\* request comes in: a start on the tick's behalf is never under a stop override.
OnTicksBehalf(t) ==
    \/ pc[t] \in {"forced", "scheduled", "record"}
    \/ ret[t] \in {<<"record">>, <<"config", "record">>}

\* Under a stop override the engines run only while a stop is about to reach them,
\* or while a start request that is about to lift the override is being answered.
StopsWillWin ==
    override = "forceStop" =>
        /\ running => \E t \in Threads : pc[t] \in StopSteps \cup {"stop", "manualStart"}
        /\ \A t \in Threads : ~OnTicksBehalf(t)

\* What startEngines and stopEngines know of the download engine as they go.
DlFollows ==
    /\ ~running /\ (\A t \in Threads : pc[t] \notin {"startUl", "started"}) => DL!Quiet
    /\ \A t \in Threads :
        /\ pc[t] = "stopUl" /\ dlPc[t] \in {"idle", "clearing", "zeroing"} => DL!Quiet
        /\ pc[t] = "stopped" => DL!Quiet

\* And of the upload engine: a Start of it under way is alone and its context is the
\* one a Stop would cancel.
UlFollows ==
    /\ ~running /\ (\A t \in Threads : pc[t] # "started") => UL!Quiet
    /\ \A t \in Threads :
        /\ pc[t] = "stopped" /\ ulPc[t] # "waiting" => UL!Quiet
        /\ ulPc[t] \in {"resetting", "launching"} =>
            pc[t] = "started" /\ UL!Quiet /\ ulMine[t] = ulCancel

\* The engines' functions are functions of generations and of threads.
Domains ==
    /\ DOMAIN dlStreams = Generations /\ DOMAIN dlLaunching = Generations
    /\ DOMAIN ulStreams = Generations /\ DOMAIN ulLaunching = Generations
    /\ DOMAIN dlPc = Threads /\ DOMAIN ulPc = Threads /\ DOMAIN ulMine = Threads

ThreadInv == Frames /\ Alone /\ Paused /\ StopsWillWin

Inv == ThreadInv /\ DlFollows /\ UlFollows /\ Domains /\ NoOrphans

LEMMA InitEstablishes == Init => Inv
<1> SUFFICES ASSUME Init PROVE Inv
  OBVIOUS
<1>1. \A t \in Threads : pc[t] = "idle" /\ ret[t] = <<>> /\ ulPc[t] = "idle"
  BY DEF Init, UL!Init
<1>2. Domains
  BY DEF Domains, Init, DL!Init, UL!Init
<1>3. \A g \in Generations : ~DL!Live(g) /\ ~UL!Live(g)
  BY DEF Init, DL!Init, UL!Init, DL!Live, UL!Live
<1>4. DL!Quiet /\ UL!Quiet /\ NoOrphans
  BY <1>3 DEF DL!Quiet, UL!Quiet, NoOrphans, DL!NoOrphans, UL!NoOrphans
<1>5. DOMAIN pc = Threads /\ DOMAIN ret = Threads
  BY DEF Init
<1>6. Frames
  BY <1>1, <1>5 DEF Frames, Returns, StartSteps, PausedSteps, StopSteps
<1>7. Alone /\ Paused
  BY <1>1 DEF Alone, Paused, PausedSteps
<1>8. override = "none"
  BY DEF Init
<1>9. StopsWillWin
  BY <1>8 DEF StopsWillWin
<1>10. DlFollows /\ UlFollows
  BY <1>1, <1>4 DEF DlFollows, UlFollows
<1> QED
  BY <1>2, <1>4, <1>6, <1>7, <1>9, <1>10 DEF Inv, ThreadInv

-----------------------------------------------------------------------------
(* Steps of a thread *)

\* Whoever is not idle is alone.
LEMMA OthersIdle ==
    ASSUME Alone, NEW t \in Threads, pc[t] # "idle", NEW u \in Threads, u # t
    PROVE  pc[u] = "idle"
  BY DEF Alone

\* When requests take turns, one begins only when all threads are idle.
LEMMA BeginsAlone ==
    ASSUME TakeTurns, NEW t \in Threads, MayBegin(t), NEW u \in Threads
    PROVE  pc[u] = "idle"
  BY DEF TakeTurns, MayBegin, AllIdle

\* What a step of thread t leaves alone: the other threads are idle and stay so.
Moves(t) ==
    /\ DOMAIN pc' = Threads /\ DOMAIN ret' = Threads
    /\ \A u \in Threads : u # t => pc[u] = "idle" /\ pc'[u] = "idle" /\ ret'[u] = ret[u]

LEMMA GotoMoves ==
    ASSUME Frames, NEW t \in Threads, NEW step, Goto(t, step),
           \A u \in Threads : u # t => pc[u] = "idle"
    PROVE  Moves(t) /\ pc'[t] = step /\ ret'[t] = ret[t]
  BY DEF Goto, Frames, Moves

LEMMA ReturnMoves ==
    ASSUME Frames, NEW t \in Threads, Return(t),
           \A u \in Threads : u # t => pc[u] = "idle"
    PROVE  Moves(t) /\ pc'[t] = Head(ret[t]) /\ ret'[t] = Tail(ret[t])
  BY DEF Return, Frames, Moves

LEMMA CallMoves ==
    ASSUME Frames, NEW t \in Threads, NEW step, NEW back, Call(t, step, back),
           \A u \in Threads : u # t => pc[u] = "idle"
    PROVE  Moves(t) /\ pc'[t] = step /\ ret'[t] = <<back>> \o ret[t]
  BY DEF Call, Frames, Moves

\* The stacks are of one or two frames.
LEMMA PushOne ==
    ASSUME NEW x
    PROVE  <<x>> \o <<>> = <<x>>
<1>1. <<x>> \in Seq({x})
  OBVIOUS
<1> QED
  BY <1>1, ConcatEmptySeq, Zenon

LEMMA PushTwo ==
    ASSUME NEW x, NEW y
    PROVE  <<x>> \o <<y>> = <<x, y>>
<1>1. <<x>> \in Seq({x, y}) /\ <<y>> \in Seq({x, y}) /\ <<x, y>> \in Seq({x, y})
  OBVIOUS
<1>2. Len(<<x>>) = 1 /\ Len(<<y>>) = 1 /\ Len(<<x, y>>) = 2
  OBVIOUS
<1>3. /\ <<x>> \o <<y>> \in Seq({x, y})
      /\ Len(<<x>> \o <<y>>) = 2
      /\ \A i \in 1..2 : (<<x>> \o <<y>>)[i] = IF i <= 1 THEN <<x>>[i] ELSE <<y>>[i - 1]
  BY <1>1, <1>2, ConcatProperties
<1>4. \A i \in 1..2 : (<<x>> \o <<y>>)[i] = <<x, y>>[i]
  BY <1>3
<1> QED
  BY <1>1, <1>2, <1>3, <1>4, SeqEqual

LEMMA Pop ==
    ASSUME NEW x, NEW y
    PROVE  /\ Head(<<x>>) = x /\ Tail(<<x>>) = <<>>
           /\ Head(<<x, y>>) = x /\ Tail(<<x, y>>) = <<y>>
<1>1. Head(<<x>>) = x
  OBVIOUS
<1>2. Tail(<<x>>) = <<>>
  OBVIOUS
<1>3. Head(<<x, y>>) = x
  OBVIOUS
<1>4. Tail(<<x, y>>) = <<y>>
  OBVIOUS
<1> QED
  BY <1>1, <1>2, <1>3, <1>4

\* What a step that moves a thread must show for the threads' invariant.
LEMMA ThreadStep ==
    ASSUME ThreadInv, NEW t \in Threads, Moves(t),
           ret'[t] \in Returns(pc'[t]),
           pc'[t] \in PausedSteps => ~running',
           override' = "forceStop" =>
               /\ running' => pc'[t] \in StopSteps \cup {"stop", "manualStart"}
               /\ ~OnTicksBehalf(t)'
    PROVE  ThreadInv'
<1>1. Frames'
  BY DEF ThreadInv, Frames, Moves
<1>2. Alone'
  BY DEF Alone, Moves
<1>3. Paused'
  BY DEF Paused, Moves, PausedSteps
<1>4. StopsWillWin'
  <2> SUFFICES ASSUME override' = "forceStop"
               PROVE  /\ running' => \E u \in Threads :
                                pc'[u] \in StopSteps \cup {"stop", "manualStart"}
                      /\ \A u \in Threads : ~OnTicksBehalf(u)'
    BY DEF StopsWillWin
  <2>1. ASSUME NEW u \in Threads, u # t PROVE ~OnTicksBehalf(u)'
    <3>1. ret'[u] = <<>> /\ pc'[u] = "idle"
      BY <2>1 DEF Moves, ThreadInv, Frames, Returns, StartSteps, PausedSteps, StopSteps
    <3> QED
      BY <3>1 DEF OnTicksBehalf
  <2> QED
    BY <2>1
<1> QED
  BY <1>1, <1>2, <1>3, <1>4 DEF ThreadInv

-----------------------------------------------------------------------------
(* Steps of the engines *)

\* Nothing an engine does on its own disturbs the threads.
LEMMA ThreadsRest ==
    ASSUME ThreadInv, UNCHANGED <<running, override, pc, ret>>
    PROVE  ThreadInv'
<1>1. Frames' /\ Alone' /\ Paused'
  BY DEF ThreadInv, Frames, Alone, Paused
<1>2. StopsWillWin'
  BY DEF ThreadInv, StopsWillWin, OnTicksBehalf
<1> QED
  BY <1>1, <1>2 DEF ThreadInv

\* What the invariant says of an engine that nothing happens to.
LEMMA DlRests == UNCHANGED dlVars => /\ DL!Quiet' = DL!Quiet
                                     /\ DL!NoOrphans' = DL!NoOrphans
  BY DEF dlVars, DL!Quiet, DL!Live, DL!NoOrphans

LEMMA UlRests == UNCHANGED ulVars => /\ UL!Quiet' = UL!Quiet
                                     /\ UL!NoOrphans' = UL!NoOrphans
  BY DEF ulVars, UL!Quiet, UL!Live, UL!NoOrphans

\* The download engine only winds down: no generation comes to life, no cancellation
\* is undone, and a Stop that waits goes on only when the engine is quiet.
DlWindsDown ==
    /\ DOMAIN dlStreams' = Generations /\ DOMAIN dlLaunching' = Generations
    /\ DOMAIN dlPc' = Threads
    /\ \A g \in Generations : DL!Live(g)' => DL!Live(g)
    /\ dlCancel' = dlCancel
    /\ dlCancelled \subseteq dlCancelled'
    /\ \A t \in Threads : dlPc'[t] \in {"idle", "clearing", "zeroing"} =>
                            dlPc[t] \in {"idle", "clearing", "zeroing"} \/ DL!Quiet'

LEMMA DlStep ==
    ASSUME Inv, DlWindsDown, UNCHANGED <<control, thread, ulVars>>
    PROVE  Inv'
<1>1. DL!Quiet => DL!Quiet'
  BY DEF DlWindsDown, DL!Quiet
<1>2. UL!Quiet' = UL!Quiet /\ UL!NoOrphans' = UL!NoOrphans
  BY UlRests
<1>3. DL!NoOrphans'
  BY DEF DlWindsDown, Inv, NoOrphans, DL!NoOrphans
<1>4. UNCHANGED <<running, override, pc, ret, ulPc, ulMine, ulCancel, ulStreams, ulLaunching>>
  BY DEF control, thread, ulVars
<1>5. ThreadInv'
  BY <1>4, ThreadsRest DEF Inv
<1>6. DlFollows'
  BY <1>1, <1>4 DEF Inv, DlFollows, DlWindsDown
<1>7. UlFollows'
  BY <1>2, <1>4 DEF Inv, UlFollows
<1>8. Domains'
  BY <1>4 DEF Inv, Domains, DlWindsDown
<1> QED
  BY <1>2, <1>3, <1>5, <1>6, <1>7, <1>8 DEF Inv, NoOrphans

LEMMA DlReleases ==
    ASSUME DL!ReleaseWaiters
    PROVE  /\ DOMAIN dlPc' = Threads
           /\ \A t \in Threads : dlPc'[t] = dlPc[t] \/ DL!Quiet'
  BY DEF DL!ReleaseWaiters

LEMMA DlWinds ==
    ASSUME Domains,
           \/ \E g \in Generations : DL!LaunchNext(g) \/ DL!AutoAdjust(g) \/ DL!Leaving(g)
           \/ \E t \in Threads : DL!Stopping(t)
    PROVE  DlWindsDown
<1>1. ASSUME NEW g \in Generations, DL!LaunchNext(g) PROVE DlWindsDown
  BY <1>1 DEF DlWindsDown, Domains, DL!LaunchNext, DL!Live
<1>2. ASSUME NEW g \in Generations, DL!AutoAdjust(g) PROVE DlWindsDown
  BY <1>2 DEF DlWindsDown, Domains, DL!AutoAdjust, DL!Live
<1>3. ASSUME NEW g \in Generations, DL!AbandonLaunch(g) PROVE DlWindsDown
  BY <1>3, DlReleases DEF DlWindsDown, Domains, DL!AbandonLaunch, DL!Live
<1>4. ASSUME NEW g \in Generations, DL!StreamExit(g) PROVE DlWindsDown
  BY <1>4, DlReleases DEF DlWindsDown, Domains, DL!StreamExit, DL!Live
<1>5. ASSUME NEW g \in Generations, DL!AutoAdjustExit(g) PROVE DlWindsDown
  BY <1>5, DlReleases DEF DlWindsDown, Domains, DL!AutoAdjustExit, DL!Live
<1>6. ASSUME NEW t \in Threads, DL!StopCancel(t) PROVE DlWindsDown
  <2>1. \A g \in Generations : DL!Live(g)' <=> DL!Live(g)
    BY <1>6 DEF DL!StopCancel, DL!goroutines, DL!Live
  <2>2. DL!Quiet' <=> DL!Quiet
    BY <2>1 DEF DL!Quiet
  <2> QED
    BY <1>6, <2>1, <2>2 DEF DlWindsDown, Domains, DL!StopCancel, DL!goroutines
<1>7. ASSUME NEW t \in Threads, DL!StopClear(t) PROVE DlWindsDown
  BY <1>7 DEF DlWindsDown, Domains, DL!StopClear, DL!goroutines, DL!Live
<1>8. ASSUME NEW t \in Threads, DL!StopZero(t) PROVE DlWindsDown
  BY <1>8 DEF DlWindsDown, Domains, DL!StopZero, DL!Live
<1> QED
  BY <1>1, <1>2, <1>3, <1>4, <1>5, <1>6, <1>7, <1>8 DEF DL!Leaving, DL!Stopping

\* The upload engine winds down: as above, and no Start of it begins.
UlWindsDown ==
    /\ DOMAIN ulStreams' = Generations /\ DOMAIN ulLaunching' = Generations
    /\ DOMAIN ulPc' = Threads /\ DOMAIN ulMine' = Threads
    /\ \A g \in Generations : UL!Live(g)' => UL!Live(g)
    /\ ulCancel' = ulCancel
    /\ ulCancelled \subseteq ulCancelled'
    /\ ulMine' = ulMine
    /\ \A t \in Threads :
        /\ ulPc'[t] # "waiting" => ulPc[t] # "waiting" \/ UL!Quiet'
        /\ ulPc'[t] \in {"resetting", "launching"} => ulPc[t] \in {"resetting", "launching"}

LEMMA UlStep ==
    ASSUME Inv, UlWindsDown, UNCHANGED <<control, thread, dlVars>>
    PROVE  Inv'
<1>1. UL!Quiet => UL!Quiet'
  BY DEF UlWindsDown, UL!Quiet
<1>2. DL!Quiet' = DL!Quiet /\ DL!NoOrphans' = DL!NoOrphans
  BY DlRests
<1>3. UL!NoOrphans'
  BY DEF UlWindsDown, Inv, NoOrphans, UL!NoOrphans
<1>4. UNCHANGED <<running, override, pc, ret, dlPc, dlStreams, dlLaunching>>
  BY DEF control, thread, dlVars
<1>5. ThreadInv'
  BY <1>4, ThreadsRest DEF Inv
<1>6. DlFollows'
  BY <1>2, <1>4 DEF Inv, DlFollows
<1>7. UlFollows'
  BY <1>1, <1>4 DEF Inv, UlFollows, UlWindsDown
<1>8. Domains'
  BY <1>4 DEF Inv, Domains, UlWindsDown
<1> QED
  BY <1>2, <1>3, <1>5, <1>6, <1>7, <1>8 DEF Inv, NoOrphans

LEMMA UlReleases ==
    ASSUME UL!ReleaseWaiters
    PROVE  /\ DOMAIN ulPc' = Threads
           /\ \A t \in Threads :
                \/ ulPc'[t] = ulPc[t]
                \/ UL!Quiet' /\ ulPc'[t] = "clearing"
<1>1. DOMAIN ulPc' = Threads
  BY DEF UL!ReleaseWaiters
<1>2. \A t \in Threads :
        ulPc'[t] = IF ulPc[t] = "waiting" /\ UL!Quiet' THEN "clearing" ELSE ulPc[t]
  BY DEF UL!ReleaseWaiters
<1> QED
  BY <1>1, <1>2

LEMMA UlWinds ==
    ASSUME Domains,
           \/ \E g \in Generations : UL!LaunchNext(g) \/ UL!AutoAdjust(g) \/ UL!Leaving(g)
           \/ \E t \in Threads : UL!Stopping(t) \/ UL!StartReset(t)
    PROVE  UlWindsDown
<1>1. ASSUME NEW g \in Generations, UL!LaunchNext(g) PROVE UlWindsDown
  BY <1>1 DEF UlWindsDown, Domains, UL!LaunchNext, UL!Live
<1>2. ASSUME NEW g \in Generations, UL!AutoAdjust(g) PROVE UlWindsDown
  BY <1>2 DEF UlWindsDown, Domains, UL!AutoAdjust, UL!Live
<1>3. ASSUME NEW g \in Generations, UL!AbandonLaunch(g) PROVE UlWindsDown
  BY <1>3, UlReleases DEF UlWindsDown, Domains, UL!AbandonLaunch, UL!Live
<1>4. ASSUME NEW g \in Generations, UL!StreamExit(g) PROVE UlWindsDown
  BY <1>4, UlReleases DEF UlWindsDown, Domains, UL!StreamExit, UL!Live
<1>5. ASSUME NEW g \in Generations, UL!AutoAdjustExit(g) PROVE UlWindsDown
  BY <1>5, UlReleases DEF UlWindsDown, Domains, UL!AutoAdjustExit, UL!Live
<1>6. ASSUME NEW t \in Threads, UL!StopClear(t) PROVE UlWindsDown
  BY <1>6 DEF UlWindsDown, Domains, UL!StopClear, UL!goroutines, UL!Live
<1>7. ASSUME NEW t \in Threads, UL!StopZero(t) PROVE UlWindsDown
  BY <1>7 DEF UlWindsDown, Domains, UL!StopZero, UL!Live
<1>8. ASSUME NEW t \in Threads, UL!StartReset(t) PROVE UlWindsDown
  BY <1>8 DEF UlWindsDown, Domains, UL!StartReset, UL!Live
<1> QED
  BY <1>1, <1>2, <1>3, <1>4, <1>5, <1>6, <1>7, <1>8 DEF UL!Leaving, UL!Stopping

\* The streams of a Start of the upload engine belong to the context Stop cancels.
LEMMA UlLaunches ==
    ASSUME Inv, NEW t \in Threads, UL!StartLaunch(t), UNCHANGED <<control, thread, dlVars>>
    PROVE  Inv'
<1>1. pc[t] = "started" /\ UL!Quiet /\ ulMine[t] = ulCancel
  BY DEF UL!StartLaunch, Inv, UlFollows
<1>2. \A g \in Generations : UL!Live(g)' => g = ulCancel
  BY <1>1 DEF UL!StartLaunch, UL!Quiet, UL!Live, Inv, Domains
<1>3. UL!NoOrphans'
  BY <1>2 DEF UL!NoOrphans, UL!StartLaunch
<1>4. UNCHANGED <<running, override, pc, ret, dlPc, dlStreams, dlLaunching>>
  BY DEF control, thread, dlVars
<1>5. DL!Quiet' = DL!Quiet /\ DL!NoOrphans' = DL!NoOrphans
  BY DlRests
<1>6. ThreadInv'
  BY <1>4, ThreadsRest DEF Inv
<1>7. DlFollows'
  BY <1>4, <1>5 DEF Inv, DlFollows
<1>8. Domains'
  BY <1>4 DEF Inv, Domains, UL!StartLaunch
<1>9. \A u \in Threads : u # t => pc[u] = "idle"
  BY <1>1 DEF Inv, ThreadInv, Alone
<1>10. ulPc'[t] = "idle" /\ \A u \in Threads : u # t => ulPc'[u] = ulPc[u]
  BY DEF Inv, Domains, UL!StartLaunch
<1>11. UlFollows'
  BY <1>1, <1>4, <1>9, <1>10 DEF Inv, UlFollows
<1> QED
  BY <1>3, <1>5, <1>6, <1>7, <1>8, <1>11 DEF Inv, NoOrphans

-----------------------------------------------------------------------------
(* Steps of the handlers and of the tick *)

\* A step that moves a thread and touches no engine.
LEMMA MoveStep ==
    ASSUME Inv, NEW t \in Threads, Moves(t), NoEngines, ThreadInv',
           ulPc[t] \notin {"resetting", "launching"},
           pc'[t] \notin {"stopUl", "stopped"},
           ~running' /\ pc'[t] \notin {"startUl", "started"} => DL!Quiet,
           ~running' /\ pc'[t] # "started" => UL!Quiet
    PROVE  Inv'
<1>1. DL!Quiet' = DL!Quiet /\ DL!NoOrphans' = DL!NoOrphans
  BY DlRests DEF NoEngines
<1>2. UL!Quiet' = UL!Quiet /\ UL!NoOrphans' = UL!NoOrphans
  BY UlRests DEF NoEngines
<1>3. UNCHANGED <<dlPc, dlStreams, dlLaunching, ulPc, ulMine, ulCancel, ulStreams, ulLaunching>>
  BY DEF NoEngines, dlVars, ulVars
<1>4. Domains'
  BY <1>3 DEF Inv, Domains
<1>5. \A u \in Threads : u # t => pc[u] = "idle" /\ pc'[u] = "idle"
  BY DEF Moves
<1>6. DlFollows'
  BY <1>1, <1>3, <1>5 DEF DlFollows
<1>7. \A u \in Threads : ulPc[u] \notin {"resetting", "launching"}
  BY <1>5 DEF Inv, UlFollows
<1>8. UlFollows'
  BY <1>2, <1>3, <1>5, <1>7 DEF UlFollows
<1> QED
  BY <1>1, <1>2, <1>4, <1>6, <1>8 DEF Inv, NoOrphans

\* Stopped engines are quiet, unless a start of them has begun.
LEMMA QuietWhenStopped ==
    ASSUME Inv, NEW t \in Threads, \A u \in Threads : u # t => pc[u] = "idle", ~running
    PROVE  /\ pc[t] \notin {"startUl", "started"} => DL!Quiet
           /\ pc[t] # "started" => UL!Quiet
  BY DEF Inv, DlFollows, UlFollows

\* A request or a tick begins: no thread works, so no engine is being started.
LEMMA BeginStep ==
    ASSUME TakeTurns, Inv, NEW t \in Threads, MayBegin(t), Moves(t), NoEngines,
           UNCHANGED running, ThreadInv',
           pc'[t] \notin {"stopUl", "stopped"}
    PROVE  Inv'
<1>1. \A u \in Threads : pc[u] = "idle"
  BY BeginsAlone
<1>2. ~running => DL!Quiet /\ UL!Quiet
  BY <1>1, QuietWhenStopped
<1>3. ulPc[t] \notin {"resetting", "launching"}
  BY <1>1 DEF Inv, UlFollows
<1> QED
  BY <1>2, <1>3, MoveStep

\* Under a stop override idle threads mean stopped engines.
LEMMA ObeyedWhenIdle ==
    ASSUME ThreadInv, \A u \in Threads : pc[u] = "idle", override = "forceStop"
    PROVE  ~running
  BY DEF ThreadInv, StopsWillWin, StopSteps

LEMMA RequestStartKeeps ==
    ASSUME TakeTurns, Inv, NEW t \in Threads, RequestStart(t)
    PROVE  Inv'
<1>1. MayBegin(t) /\ NoEngines /\ UNCHANGED <<running, override>>
  BY DEF RequestStart, control
<1>2. Call(t, "start", "manualStart")
  BY DEF RequestStart, CallStart
<1>3. \A u \in Threads : pc[u] = "idle"
  BY <1>1, BeginsAlone
<1>4. Moves(t) /\ pc'[t] = "start" /\ ret'[t] = <<"manualStart">> \o ret[t]
  BY <1>2, <1>3, CallMoves DEF Inv, ThreadInv
<1>5. ret[t] = <<>>
  BY <1>3 DEF Inv, ThreadInv, Frames, Returns, StartSteps, PausedSteps, StopSteps
<1>6. ret'[t] = <<"manualStart">>
  BY <1>4, <1>5, PushOne
<1>7. ret'[t] \in Returns(pc'[t]) /\ pc'[t] \notin PausedSteps
  BY <1>4, <1>6 DEF Returns, StartSteps, PausedSteps, StartReturns
<1>8. override' = "forceStop" => ~running' /\ ~OnTicksBehalf(t)'
  <2>1. override' = "forceStop" => ~running'
    BY <1>1, <1>3, ObeyedWhenIdle DEF Inv
  <2>2. <<"manualStart">> # <<"record">> /\ <<"manualStart">> # <<"config", "record">>
    OBVIOUS
  <2> QED
    BY <1>4, <1>6, <2>1, <2>2 DEF OnTicksBehalf
<1>9. ThreadInv'
  BY <1>4, <1>7, <1>8, ThreadStep DEF Inv
<1> QED
  BY <1>1, <1>4, <1>9, BeginStep

LEMMA RequestStopKeeps ==
    ASSUME TakeTurns, Inv, NEW t \in Threads, RequestStop(t)
    PROVE  Inv'
<1>1. MayBegin(t) /\ NoEngines /\ UNCHANGED running
  BY DEF RequestStop
<1>2. Call(t, "stop", "idle")
  BY DEF RequestStop
<1>3. \A u \in Threads : pc[u] = "idle"
  BY <1>1, BeginsAlone
<1>4. Moves(t) /\ pc'[t] = "stop" /\ ret'[t] = <<"idle">> \o ret[t]
  BY <1>2, <1>3, CallMoves DEF Inv, ThreadInv
<1>5. ret[t] = <<>>
  BY <1>3 DEF Inv, ThreadInv, Frames, Returns, StartSteps, PausedSteps, StopSteps
<1>6. ret'[t] = <<"idle">>
  BY <1>4, <1>5, PushOne
<1>7. ret'[t] \in Returns(pc'[t]) /\ pc'[t] \notin PausedSteps
  BY <1>4, <1>6 DEF Returns, StartSteps, PausedSteps, StopReturns
<1>8. pc'[t] \in StopSteps \cup {"stop", "manualStart"} /\ ~OnTicksBehalf(t)'
  <2>1. <<"idle">> # <<"record">> /\ <<"idle">> # <<"config", "record">>
    OBVIOUS
  <2> QED
    BY <1>4, <1>6, <2>1 DEF OnTicksBehalf
<1>9. ThreadInv'
  BY <1>4, <1>7, <1>8, ThreadStep DEF Inv
<1> QED
  BY <1>1, <1>4, <1>9, BeginStep

LEMMA RequestTestKeeps ==
    ASSUME TakeTurns, Inv, NEW t \in Threads, RequestTest(t)
    PROVE  Inv'
<1>1. MayBegin(t) /\ NoEngines /\ UNCHANGED <<running, override>>
  BY DEF RequestTest, control
<1>2. \A u \in Threads : pc[u] = "idle"
  BY <1>1, BeginsAlone
<1>3. ret[t] = <<>>
  BY <1>2 DEF Inv, ThreadInv, Frames, Returns, StartSteps, PausedSteps, StopSteps
<1>4. CASE running /\ Call(t, "stop", "ispBegin")
  <2>1. Moves(t) /\ pc'[t] = "stop" /\ ret'[t] = <<"ispBegin">> \o ret[t]
    BY <1>2, <1>4, CallMoves DEF Inv, ThreadInv
  <2>2. ret'[t] = <<"ispBegin">>
    BY <1>3, <2>1, PushOne
  <2>3. ret'[t] \in Returns(pc'[t]) /\ pc'[t] \notin PausedSteps
    BY <2>1, <2>2 DEF Returns, StartSteps, PausedSteps, StopReturns
  <2>4. pc'[t] \in StopSteps \cup {"stop", "manualStart"} /\ ~OnTicksBehalf(t)'
    <3>1. <<"ispBegin">> # <<"record">> /\ <<"ispBegin">> # <<"config", "record">>
      OBVIOUS
    <3> QED
      BY <2>1, <2>2, <3>1 DEF OnTicksBehalf
  <2>5. ThreadInv'
    BY <2>1, <2>3, <2>4, ThreadStep DEF Inv
  <2> QED
    BY <1>1, <2>1, <2>5, BeginStep
<1>5. CASE ~running /\ Goto(t, "ispBegin")
  <2>1. Moves(t) /\ pc'[t] = "ispBegin" /\ ret'[t] = <<>>
    BY <1>2, <1>3, <1>5, GotoMoves DEF Inv, ThreadInv
  <2>2. ret'[t] \in Returns(pc'[t]) /\ ~running'
    BY <1>1, <1>5, <2>1 DEF Returns, StartSteps, PausedSteps, StopSteps
  <2>3. ~OnTicksBehalf(t)'
    BY <2>1 DEF OnTicksBehalf
  <2>4. ThreadInv'
    BY <2>1, <2>2, <2>3, ThreadStep DEF Inv
  <2> QED
    BY <1>1, <2>1, <2>4, BeginStep
<1> QED
  BY <1>4, <1>5 DEF RequestTest

\* Under a stop override and with engines that run, the thread at work stops them.
LEMMA ObeyedAtWork ==
    ASSUME ThreadInv, NEW t \in Threads, pc[t] # "idle", override = "forceStop"
    PROVE  /\ running => pc[t] \in StopSteps \cup {"stop", "manualStart"}
           /\ ~OnTicksBehalf(t)
  BY DEF ThreadInv, Alone, StopsWillWin, StopSteps

\* A step of a handler or of the tick outside startEngines and stopEngines proper.
LEMMA WorkStep ==
    ASSUME Inv, NEW t \in Threads, pc[t] \notin {"idle", "startUl", "started"},
           Moves(t), NoEngines, UNCHANGED running,
           pc'[t] \notin {"stopUl", "stopped"},
           ret'[t] \in Returns(pc'[t]),
           pc'[t] \in PausedSteps => ~running,
           override' = "forceStop" =>
               /\ running => pc'[t] \in StopSteps \cup {"stop", "manualStart"}
               /\ ~OnTicksBehalf(t)'
    PROVE  Inv'
<1>1. ThreadInv'
  BY ThreadStep DEF Inv
<1>2. \A u \in Threads : u # t => pc[u] = "idle"
  BY DEF Moves
<1>3. ~running => DL!Quiet /\ UL!Quiet
  BY <1>2, QuietWhenStopped
<1>4. ulPc[t] \notin {"resetting", "launching"}
  BY DEF Inv, UlFollows
<1> QED
  BY <1>1, <1>3, <1>4, MoveStep

\* One that only goes to its next step.
LEMMA GotoStep ==
    ASSUME Inv, NEW t \in Threads, NEW step,
           pc[t] \notin {"idle", "startUl", "started", "manualStart"},
           Goto(t, step), NoEngines, UNCHANGED <<running, override>>,
           step \notin {"stopUl", "stopped", "forced", "scheduled", "record"},
           ret[t] \in Returns(step),
           step \in PausedSteps => ~running,
           pc[t] \in StopSteps \cup {"stop"} => step \in StopSteps
    PROVE  Inv'
<1>1. \A u \in Threads : u # t => pc[u] = "idle"
  BY DEF Inv, ThreadInv, Alone
<1>2. Moves(t) /\ pc'[t] = step /\ ret'[t] = ret[t]
  BY <1>1, GotoMoves DEF Inv, ThreadInv
<1>3. ASSUME override' = "forceStop"
      PROVE  /\ running => pc'[t] \in StopSteps \cup {"stop", "manualStart"}
             /\ ~OnTicksBehalf(t)'
  <2>1. (running => pc[t] \in StopSteps \cup {"stop", "manualStart"}) /\ ~OnTicksBehalf(t)
    BY <1>3, ObeyedAtWork DEF Inv
  <2>2. ~OnTicksBehalf(t)'
    BY <1>2, <2>1 DEF OnTicksBehalf
  <2> QED
    BY <1>2, <2>1, <2>2
<1> QED
  BY <1>2, <1>3, WorkStep

\* The stack of a thread that is at one of these steps.
LEMMA EmptyStack ==
    ASSUME Inv, NEW t \in Threads,
           pc[t] \in {"idle", "manualStart", "record", "forget", "ispBegin", "ispEnd",
                      "forced", "scheduled"}
    PROVE  ret[t] = <<>>
  BY DEF Inv, ThreadInv, Frames, Returns, StartSteps, StopSteps

LEMMA NoFrames ==
    ASSUME NEW step \in {"idle", "manualStart", "record", "forget", "ispBegin", "ispEnd",
                         "forced", "scheduled"}
    PROVE  <<>> \in Returns(step)
  BY DEF Returns, StartSteps, StopSteps

LEMMA ManualStartKeeps ==
    ASSUME Inv, NEW t \in Threads, ManualStart(t)
    PROVE  Inv'
<1>1. /\ pc[t] = "manualStart" /\ Goto(t, "idle") /\ NoEngines /\ running' = running
      /\ override' = "forceStart"
  BY DEF ManualStart
<1>2. \A u \in Threads : u # t => pc[u] = "idle"
  BY <1>1 DEF Inv, ThreadInv, Alone
<1>3. ret[t] = <<>>
  BY <1>1, EmptyStack
<1>4. Moves(t) /\ pc'[t] = "idle" /\ ret'[t] = <<>>
  BY <1>1, <1>2, <1>3, GotoMoves DEF Inv, ThreadInv
<1>5. ret'[t] \in Returns(pc'[t]) /\ pc'[t] \notin PausedSteps
  BY <1>4, NoFrames DEF PausedSteps
<1> QED
  BY <1>1, <1>4, <1>5, WorkStep

LEMMA IspBeginKeeps ==
    ASSUME Inv, NEW t \in Threads, IspBegin(t)
    PROVE  Inv'
<1>1. /\ pc[t] = "ispBegin" /\ Goto(t, "ispEnd") /\ NoEngines
      /\ UNCHANGED <<running, override>>
  BY DEF IspBegin
<1>2. ~running
  BY <1>1 DEF Inv, ThreadInv, Paused, PausedSteps
<1>3. ret[t] \in Returns("ispEnd")
  BY <1>1, EmptyStack, NoFrames
<1> QED
  BY <1>1, <1>2, <1>3, GotoStep DEF StopSteps

\* A thread that has nothing left to do.
LEMMA EndStep ==
    ASSUME Inv, NEW t \in Threads,
           pc[t] \in {"record", "forget", "ispEnd", "forced", "scheduled"},
           Goto(t, "idle"), NoEngines, UNCHANGED <<running, override>>
    PROVE  Inv'
<1>1. ret[t] \in Returns("idle")
  BY EmptyStack, NoFrames
<1> QED
  BY <1>1, GotoStep DEF StopSteps, PausedSteps

LEMMA IspEndKeeps ==
    ASSUME Inv, NEW t \in Threads, IspEnd(t)
    PROVE  Inv'
  BY EndStep DEF IspEnd

LEMMA TickEndsKeeps ==
    ASSUME Inv, Sched \in Threads, NEW step \in {"record", "forget"}, NEW s, TickEnds(step, s)
    PROVE  Inv'
  BY EndStep DEF TickEnds

\* A tick that looks at the override, then at the speed or the schedules.
LEMMA TickKeeps ==
    ASSUME TakeTurns, Inv, Tick
    PROVE  Inv'
<1>0. Sched \in Threads
  BY DEF Threads
<1>1. MayBegin(Sched) /\ NoEngines /\ UNCHANGED <<running, override>>
  BY DEF Tick, control
<1>2. \A u \in Threads : pc[u] = "idle"
  BY <1>0, <1>1, BeginsAlone
<1>3. ret[Sched] = <<>>
  BY <1>0, <1>2, EmptyStack
<1>4. CASE override = "forceStop" /\ Call(Sched, "stop", "forget")
  <2>1. Moves(Sched) /\ pc'[Sched] = "stop" /\ ret'[Sched] = <<"forget">> \o ret[Sched]
    BY <1>0, <1>2, <1>4, CallMoves DEF Inv, ThreadInv
  <2>2. ret'[Sched] = <<"forget">>
    BY <1>3, <2>1, PushOne
  <2>3. ret'[Sched] \in Returns(pc'[Sched]) /\ pc'[Sched] \notin PausedSteps
    BY <2>1, <2>2 DEF Returns, StartSteps, PausedSteps, StopReturns
  <2>4. pc'[Sched] \in StopSteps \cup {"stop", "manualStart"} /\ ~OnTicksBehalf(Sched)'
    <3>1. <<"forget">> # <<"record">> /\ <<"forget">> # <<"config", "record">>
      OBVIOUS
    <3> QED
      BY <2>1, <2>2, <3>1 DEF OnTicksBehalf
  <2>5. ThreadInv'
    BY <1>0, <2>1, <2>3, <2>4, ThreadStep DEF Inv
  <2> QED
    BY <1>0, <1>1, <2>1, <2>5, BeginStep
<1>5. ASSUME NEW step \in {"forced", "scheduled"}, override # "forceStop", Goto(Sched, step)
      PROVE  Inv'
  <2>1. Moves(Sched) /\ pc'[Sched] = step /\ ret'[Sched] = <<>>
    BY <1>0, <1>2, <1>3, <1>5, GotoMoves DEF Inv, ThreadInv
  <2>2. ret'[Sched] \in Returns(pc'[Sched]) /\ pc'[Sched] \notin PausedSteps
    BY <2>1, NoFrames DEF PausedSteps
  <2>3. ThreadInv'
    BY <1>0, <1>1, <1>5, <2>1, <2>2, ThreadStep DEF Inv
  <2> QED
    BY <1>0, <1>1, <2>1, <2>3, BeginStep
<1> QED
  BY <1>4, <1>5 DEF Tick

\* The tick starts the engines, or leaves them as they are.
LEMMA EnsureKeeps ==
    ASSUME Inv, Sched \in Threads, pc[Sched] \in {"forced", "scheduled"},
           NEW s, Ensure(s), UNCHANGED control, NoEngines
    PROVE  Inv'
<1>1. UNCHANGED <<running, override>>
  BY DEF control
<1>2. override # "forceStop"
  BY ObeyedAtWork DEF OnTicksBehalf, Inv
<1>3. ret[Sched] = <<>>
  BY EmptyStack
<1>4. CASE CallStart(Sched, s, "record")
  <2>1. \A u \in Threads : u # Sched => pc[u] = "idle"
    BY DEF Inv, ThreadInv, Alone
  <2>2. Moves(Sched) /\ pc'[Sched] = "start" /\ ret'[Sched] = <<"record">> \o ret[Sched]
    BY <1>4, <2>1, CallMoves DEF Inv, ThreadInv, CallStart
  <2>3. ret'[Sched] = <<"record">>
    BY <1>3, <2>2, PushOne
  <2>4. ret'[Sched] \in Returns(pc'[Sched]) /\ pc'[Sched] \notin PausedSteps
    BY <2>2, <2>3 DEF Returns, StartSteps, PausedSteps, StartReturns
  <2> QED
    BY <1>1, <1>2, <2>2, <2>4, WorkStep
<1>5. CASE Goto(Sched, "idle")
  BY <1>1, <1>5, EndStep
<1> QED
  BY <1>4, <1>5 DEF Ensure

LEMMA TickGoesOnKeeps ==
    ASSUME Inv, TickGoesOn
    PROVE  Inv'
<1>0. Sched \in Threads
  BY DEF Threads
<1>1. CASE TickForced
  BY <1>0, <1>1, EnsureKeeps DEF TickForced
<1>2. CASE TickScheduled
  <2>1. /\ pc[Sched] = "scheduled" /\ UNCHANGED control /\ NoEngines
        /\ UNCHANGED <<running, override>>
    BY <1>2 DEF TickScheduled, control
  <2>2. CASE Call(Sched, "stop", "forget")
    <3>1. \A u \in Threads : u # Sched => pc[u] = "idle"
      BY <1>0, <2>1 DEF Inv, ThreadInv, Alone
    <3>2. Moves(Sched) /\ pc'[Sched] = "stop" /\ ret'[Sched] = <<"forget">> \o ret[Sched]
      BY <1>0, <2>2, <3>1, CallMoves DEF Inv, ThreadInv
    <3>3. ret'[Sched] = <<"forget">>
      BY <1>0, <2>1, <3>2, EmptyStack, PushOne
    <3>4. ret'[Sched] \in Returns(pc'[Sched]) /\ pc'[Sched] \notin PausedSteps
      BY <3>2, <3>3 DEF Returns, StartSteps, PausedSteps, StopReturns
    <3>5. pc'[Sched] \in StopSteps \cup {"stop", "manualStart"} /\ ~OnTicksBehalf(Sched)'
      <4>1. <<"forget">> # <<"record">> /\ <<"forget">> # <<"config", "record">>
        OBVIOUS
      <4> QED
        BY <3>2, <3>3, <4>1 DEF OnTicksBehalf
    <3> QED
      BY <1>0, <2>1, <3>2, <3>4, <3>5, WorkStep
  <2>3. CASE Ensure(matched)
    BY <1>0, <2>1, <2>3, EnsureKeeps
  <2> QED
    BY <1>2, <2>2, <2>3 DEF TickScheduled
<1>3. CASE TickReadFails
  BY <1>0, <1>3, EndStep DEF TickReadFails, control
<1>4. CASE TickEnds("record", want[Sched]) \/ TickEnds("forget", 0)
  BY <1>0, <1>4, TickEndsKeeps
<1> QED
  BY <1>1, <1>2, <1>3, <1>4 DEF TickGoesOn

-----------------------------------------------------------------------------
(* Steps of startEngines and stopEngines *)

\* The steps of startEngines share their stacks, and so do those of stopEngines.
LEMMA StartStack ==
    ASSUME Inv, NEW t \in Threads, pc[t] \in StartSteps
    PROVE  /\ ret[t] \in StartReturns
           /\ \A step \in StartSteps : ret[t] \in Returns(step)
  BY DEF Inv, ThreadInv, Frames, Returns

LEMMA StopStack ==
    ASSUME Inv, NEW t \in Threads, pc[t] \in StopSteps \cup {"stop"}
    PROVE  \A step \in StopSteps : ret[t] \in Returns(step)
  BY DEF Inv, ThreadInv, Frames, Returns, StartSteps, StopSteps

LEMMA StartCheckKeeps ==
    ASSUME Inv, NEW t \in Threads, StartCheck(t)
    PROVE  Inv'
<1>1. pc[t] = "start" /\ NoEngines /\ UNCHANGED <<running, override>>
  BY DEF StartCheck, control
<1>2. ret[t] \in StartReturns /\ ret[t] \in Returns("config")
  BY <1>1, StartStack DEF StartSteps
<1>3. CASE running /\ Call(t, "stopDl", "config")
  <2>1. \A u \in Threads : u # t => pc[u] = "idle"
    BY <1>1 DEF Inv, ThreadInv, Alone
  <2>2. Moves(t) /\ pc'[t] = "stopDl" /\ ret'[t] = <<"config">> \o ret[t]
    BY <1>3, <2>1, CallMoves DEF Inv, ThreadInv
  <2>3. override # "forceStop"
    BY <1>1, <1>3, ObeyedAtWork DEF Inv, StopSteps
  <2>4. ret'[t] \in {<<"config", "manualStart">>, <<"config", "record">>}
    BY <1>2, <2>2, PushTwo DEF StartReturns
  <2>5. ret'[t] \in Returns(pc'[t]) /\ pc'[t] \notin PausedSteps
    BY <2>2, <2>4 DEF Returns, StartSteps, StopSteps, PausedSteps
  <2> QED
    BY <1>1, <2>2, <2>3, <2>5, WorkStep
<1>4. CASE ~running /\ Goto(t, "config")
  BY <1>1, <1>2, <1>4, GotoStep DEF StopSteps
<1> QED
  BY <1>3, <1>4 DEF StartCheck

\* The steps that settle on a speed, on stopped engines.
LEMMA SettleStep ==
    ASSUME Inv, NEW t \in Threads, pc[t] \in {"config", "testEnd", "apply"},
           NEW step \in {"testEnd", "apply", "startDl"}, Goto(t, step),
           NoEngines, UNCHANGED <<running, override>>
    PROVE  Inv'
<1>1. ~running
  BY DEF Inv, ThreadInv, Paused, PausedSteps
<1>2. ret[t] \in Returns(step)
  BY StartStack DEF StartSteps
<1> QED
  BY <1>1, <1>2, GotoStep DEF StopSteps

LEMMA ConfigKeeps ==
    ASSUME Inv, NEW t \in Threads, Config(t)
    PROVE  Inv'
<1>1. /\ pc[t] = "config" /\ NoEngines /\ UNCHANGED <<running, override>>
      /\ Goto(t, "apply") \/ Goto(t, "testEnd")
  BY DEF Config
<1> QED
  BY <1>1, SettleStep

LEMMA TestEndKeeps ==
    ASSUME Inv, NEW t \in Threads, TestEnd(t)
    PROVE  Inv'
<1>1. /\ pc[t] = "testEnd" /\ NoEngines /\ UNCHANGED <<running, override>>
      /\ Goto(t, "apply")
  BY DEF TestEnd
<1> QED
  BY <1>1, SettleStep

LEMMA ApplyKeeps ==
    ASSUME Inv, NEW t \in Threads, Apply(t)
    PROVE  Inv'
<1>1. /\ pc[t] = "apply" /\ NoEngines /\ UNCHANGED <<running, override>>
      /\ Goto(t, "startDl")
  BY DEF Apply
<1> QED
  BY <1>1, SettleStep

\* A step of startEngines or stopEngines that calls an engine: what is left to show
\* is that the engines follow.
LEMMA CallStep ==
    ASSUME Inv, NEW t \in Threads, NEW step, Goto(t, step), UNCHANGED control,
           \/ pc[t] \in {"startDl", "startUl"} /\ step \in {"startUl", "started"}
           \/ pc[t] \in StopSteps /\ step \in StopSteps
    PROVE  Moves(t) /\ pc'[t] = step /\ ThreadInv'
<1>0. pc[t] # "idle"
  BY DEF StopSteps
<1>1. \A u \in Threads : u # t => pc[u] = "idle"
  BY <1>0 DEF Inv, ThreadInv, Alone
<1>2. Moves(t) /\ pc'[t] = step /\ ret'[t] = ret[t]
  BY <1>1, GotoMoves DEF Inv, ThreadInv
<1>3. UNCHANGED <<running, override>>
  BY DEF control
<1>4. ret'[t] \in Returns(step)
  BY <1>2, StartStack, StopStack DEF StartSteps
<1>5. step \in PausedSteps => ~running
  BY DEF Inv, ThreadInv, Paused, PausedSteps, StopSteps
<1>6. ASSUME override' = "forceStop"
      PROVE  /\ running' => pc'[t] \in StopSteps \cup {"stop", "manualStart"}
             /\ ~OnTicksBehalf(t)'
  <2>1. /\ running => pc[t] \in StopSteps \cup {"stop", "manualStart"}
        /\ ~OnTicksBehalf(t)
    BY <1>0, <1>3, <1>6, ObeyedAtWork DEF Inv
  <2>2. ~OnTicksBehalf(t)'
    BY <1>2, <2>1 DEF OnTicksBehalf, StopSteps
  <2>3. running => step \in StopSteps
    BY <2>1 DEF StopSteps
  <2> QED
    BY <1>2, <1>3, <2>2, <2>3
<1>7. ThreadInv'
  BY <1>2, <1>3, <1>4, <1>5, <1>6, ThreadStep DEF Inv
<1> QED
  BY <1>2, <1>7

\* The download engine starts on stopped engines, so its generation is alone.
LEMMA StartDlKeeps ==
    ASSUME Inv, NEW t \in Threads, StartDl(t)
    PROVE  Inv'
<1>1. /\ pc[t] = "startDl" /\ Goto(t, "startUl") /\ UNCHANGED <<control, ulVars>>
      /\ DL!Start \/ UNCHANGED dlVars
  BY DEF StartDl
<1>2. Moves(t) /\ pc'[t] = "startUl" /\ ThreadInv'
  BY <1>1, CallStep DEF StopSteps
<1>3. \A u \in Threads : u # t => pc[u] = "idle" /\ pc'[u] = "idle"
  BY <1>2 DEF Moves
<1>4. ~running /\ ~running'
  BY <1>1 DEF Inv, ThreadInv, Paused, PausedSteps, control
<1>5. DL!Quiet /\ UL!Quiet
  BY <1>1, <1>3, <1>4, QuietWhenStopped
<1>6. UL!Quiet' /\ UL!NoOrphans'
  BY <1>1, <1>5, UlRests DEF Inv, NoOrphans
<1>7. UNCHANGED <<ulPc, ulMine, ulCancel, ulStreams, ulLaunching>>
  BY <1>1 DEF ulVars
<1>8. /\ DL!NoOrphans' /\ UNCHANGED dlPc
      /\ DOMAIN dlStreams' = Generations /\ DOMAIN dlLaunching' = Generations
  <2>1. CASE UNCHANGED dlVars
    BY <2>1, DlRests DEF Inv, NoOrphans, Domains, dlVars
  <2>2. CASE DL!Start
    <3>1. PICK g \in Generations, n \in Concurrencies : DL!LaunchGeneration(g, n)
      BY <2>2 DEF DL!Start
    <3>2. \A h \in Generations : DL!Live(h)' => h = g
      BY <1>5, <3>1 DEF DL!LaunchGeneration, DL!Quiet, DL!Live, Inv, Domains
    <3>3. DL!NoOrphans'
      BY <3>1, <3>2 DEF DL!NoOrphans, DL!LaunchGeneration
    <3> QED
      BY <2>2, <3>1, <3>3 DEF DL!Start, DL!LaunchGeneration, Inv, Domains
  <2> QED
    BY <1>1, <2>1, <2>2
<1>9. Domains'
  BY <1>7, <1>8 DEF Inv, Domains
<1>10. DlFollows'
  BY <1>2, <1>3 DEF DlFollows
<1>11. UlFollows'
  BY <1>1, <1>2, <1>3, <1>6, <1>7 DEF Inv, UlFollows
<1> QED
  BY <1>2, <1>6, <1>8, <1>9, <1>10, <1>11 DEF Inv, NoOrphans

\* The upload engine's Start begins on a quiet engine: the cancel function that it
\* overwrites has nothing left to cancel.
LEMMA StartUlKeeps ==
    ASSUME Inv, NEW t \in Threads, StartUl(t)
    PROVE  Inv'
<1>1. /\ pc[t] = "startUl" /\ Goto(t, "started") /\ UNCHANGED <<control, dlVars>>
      /\ UL!StartCall(t) \/ UNCHANGED ulVars
  BY DEF StartUl
<1>2. Moves(t) /\ pc'[t] = "started" /\ ThreadInv'
  BY <1>1, CallStep DEF StopSteps
<1>3. \A u \in Threads : u # t => pc[u] = "idle" /\ pc'[u] = "idle"
  BY <1>2 DEF Moves
<1>4. ~running /\ ~running'
  BY <1>1 DEF Inv, ThreadInv, Paused, PausedSteps, control
<1>5. UL!Quiet
  BY <1>1, <1>3, <1>4, QuietWhenStopped
<1>6. DL!NoOrphans' /\ UNCHANGED <<dlPc, dlStreams, dlLaunching>>
  BY <1>1, DlRests DEF Inv, NoOrphans, dlVars
<1>7. \A u \in Threads : ulPc[u] \notin {"resetting", "launching"}
  BY <1>1, <1>3 DEF Inv, UlFollows
<1>8. /\ UL!Quiet' /\ UNCHANGED <<ulStreams, ulLaunching>>
      /\ DOMAIN ulPc' = Threads /\ DOMAIN ulMine' = Threads
      /\ \A u \in Threads : ulPc'[u] \in {"resetting", "launching"} =>
                               u = t /\ ulMine'[u] = ulCancel'
  <2>1. CASE UNCHANGED ulVars
    BY <1>5, <1>7, <2>1, UlRests DEF ulVars, Inv, Domains
  <2>2. CASE UL!StartCall(t)
    <3>1. UNCHANGED <<ulStreams, ulLaunching, ulAdjusting>>
      BY <2>2 DEF UL!StartCall, UL!goroutines
    <3>2. UL!Quiet'
      BY <1>5, <3>1 DEF UL!Quiet, UL!Live
    <3> QED
      BY <1>7, <2>2, <3>1, <3>2 DEF UL!StartCall, Inv, Domains
  <2> QED
    BY <1>1, <2>1, <2>2
<1>9. UL!NoOrphans'
  BY <1>8 DEF UL!NoOrphans, UL!Quiet
<1>10. Domains'
  BY <1>6, <1>8 DEF Inv, Domains
<1>11. DlFollows'
  BY <1>2, <1>3 DEF DlFollows
<1>12. UlFollows'
  BY <1>2, <1>3, <1>8 DEF UlFollows
<1> QED
  BY <1>2, <1>6, <1>9, <1>10, <1>11, <1>12 DEF Inv, NoOrphans

\* A step by which startEngines or stopEngines returns.
LEMMA ReturnStep ==
    ASSUME Inv, NEW t \in Threads, Return(t), NoEngines, UNCHANGED override,
           \/ pc[t] = "started" /\ ulPc[t] = "idle" /\ running' = TRUE
           \/ pc[t] = "stop" /\ ~running /\ UNCHANGED running
           \/ pc[t] = "stopped" /\ ulPc[t] = "idle" /\ running' = FALSE
    PROVE  Inv'
<1>1. \A u \in Threads : u # t => pc[u] = "idle"
  BY DEF Inv, ThreadInv, Alone
<1>2. Moves(t) /\ pc'[t] = Head(ret[t]) /\ ret'[t] = Tail(ret[t])
  BY <1>1, ReturnMoves DEF Inv, ThreadInv
<1>3. \/ ret[t] \in StopReturns
      \/ ret[t] \in StartReturns
      \/ ret[t] \in {<<"config", "manualStart">>, <<"config", "record">>} /\ pc[t] = "stopped"
  BY DEF Inv, ThreadInv, Frames, Returns, StartSteps, StopSteps
<1>4. /\ pc[t] = "started" => ret[t] \in StartReturns
      /\ pc[t] # "started" => ret[t] \notin StartReturns
  BY DEF Inv, ThreadInv, Frames, Returns, StartSteps, StopSteps, StartReturns, StopReturns
<1>5. \/ /\ pc'[t] \in {"idle", "ispBegin", "forget"} /\ ret'[t] = <<>> /\ ~running'
      \/ /\ pc'[t] \in {"manualStart", "record"} /\ ret'[t] = <<>>
         /\ ret[t] = <<pc'[t]>> /\ pc[t] = "started"
      \/ /\ pc'[t] = "config" /\ ret'[t] \in StartReturns /\ ~running'
         /\ ret[t] = <<"config">> \o ret'[t]
  <2>1. CASE ret[t] \in StopReturns
    <3>1. pc[t] # "started"
      BY <1>4, <2>1 DEF StartReturns, StopReturns
    <3>2. pc'[t] \in {"idle", "ispBegin", "forget"} /\ ret'[t] = <<>>
      <4>1. PICK back \in {"idle", "ispBegin", "forget"} : ret[t] = <<back>>
        BY <2>1 DEF StopReturns
      <4>2. Head(<<back>>) = back /\ Tail(<<back>>) = <<>>
        BY Pop
      <4> QED
        BY <1>2, <4>1, <4>2
    <3> QED
      BY <3>1, <3>2
  <2>2. CASE ret[t] \in StartReturns
    <3>1. pc[t] = "started"
      BY <1>4, <2>2
    <3>2. pc'[t] \in {"manualStart", "record"} /\ ret'[t] = <<>> /\ ret[t] = <<pc'[t]>>
      <4>1. PICK back \in {"manualStart", "record"} : ret[t] = <<back>>
        BY <2>2 DEF StartReturns
      <4>2. Head(<<back>>) = back /\ Tail(<<back>>) = <<>>
        BY Pop
      <4> QED
        BY <1>2, <4>1, <4>2
    <3> QED
      BY <3>1, <3>2
  <2>3. ASSUME NEW back \in {"manualStart", "record"}, ret[t] = <<"config", back>>,
               pc[t] = "stopped"
        PROVE  /\ pc'[t] = "config" /\ ret'[t] \in StartReturns /\ ~running'
               /\ ret[t] = <<"config">> \o ret'[t]
    <3>1. pc'[t] = "config" /\ ret'[t] = <<back>>
      BY <1>2, <2>3, Pop
    <3>2. ret[t] = <<"config">> \o ret'[t]
      BY <2>3, <3>1, PushTwo
    <3> QED
      BY <2>3, <3>1, <3>2 DEF StartReturns
  <2> QED
    BY <1>3, <2>1, <2>2, <2>3
<1>6. ret'[t] \in Returns(pc'[t]) /\ (pc'[t] \in PausedSteps => ~running')
  <2>1. CASE pc'[t] \in {"idle", "ispBegin", "forget"} /\ ret'[t] = <<>> /\ ~running'
    BY <2>1, NoFrames
  <2>2. CASE pc'[t] \in {"manualStart", "record"} /\ ret'[t] = <<>>
    BY <2>2, NoFrames DEF PausedSteps
  <2>3. CASE pc'[t] = "config" /\ ret'[t] \in StartReturns /\ ~running'
    BY <2>3 DEF Returns, StartSteps
  <2> QED
    BY <1>5, <2>1, <2>2, <2>3
<1>7. ASSUME override' = "forceStop"
      PROVE  /\ running' => pc'[t] \in StopSteps \cup {"stop", "manualStart"}
             /\ ~OnTicksBehalf(t)'
  <2>1. ~OnTicksBehalf(t)
    BY <1>7, ObeyedAtWork DEF Inv
  <2>2. <<"config">> \o <<"record">> = <<"config", "record">>
    BY PushTwo
  <2>3. pc'[t] # "record" /\ ret'[t] # <<"record">> /\ ret'[t] # <<"config", "record">>
    <3>1. CASE pc'[t] \in {"idle", "ispBegin", "forget"} /\ ret'[t] = <<>>
      BY <3>1
    <3>2. CASE /\ pc'[t] \in {"manualStart", "record"} /\ ret'[t] = <<>>
               /\ ret[t] = <<pc'[t]>>
      BY <2>1, <3>2 DEF OnTicksBehalf
    <3>3. CASE /\ pc'[t] = "config" /\ ret'[t] \in StartReturns
               /\ ret[t] = <<"config">> \o ret'[t]
      BY <2>1, <2>2, <3>3 DEF OnTicksBehalf, StartReturns
    <3> QED
      BY <1>5, <3>1, <3>2, <3>3
  <2>4. ~OnTicksBehalf(t)'
    BY <1>5, <2>3 DEF OnTicksBehalf
  <2> QED
    BY <1>5, <2>3, <2>4
<1>8. ThreadInv'
  BY <1>2, <1>6, <1>7, ThreadStep DEF Inv
<1>9. pc[t] # "started" => DL!Quiet /\ UL!Quiet
  BY <1>1, QuietWhenStopped DEF Inv, DlFollows, UlFollows
<1>10. ulPc[t] \notin {"resetting", "launching"}
  BY DEF Inv, UlFollows
<1> QED
  BY <1>2, <1>5, <1>8, <1>9, <1>10, MoveStep

LEMMA StopCheckKeeps ==
    ASSUME Inv, NEW t \in Threads, StopCheck(t)
    PROVE  Inv'
<1>1. pc[t] = "stop" /\ NoEngines /\ UNCHANGED <<running, override>>
  BY DEF StopCheck, control
<1>2. CASE running /\ Goto(t, "stopDl")
  <2>1. ret[t] \in Returns("stopDl")
    BY <1>1, StopStack DEF StopSteps
  <2> QED
    BY <1>1, <1>2, <2>1, GotoStep DEF StopSteps, PausedSteps
<1>3. CASE ~running /\ Return(t)
  BY <1>1, <1>3, ReturnStep
<1> QED
  BY <1>2, <1>3 DEF StopCheck

\* The download engine's Stop begins.
LEMMA StopDlKeeps ==
    ASSUME Inv, NEW t \in Threads, StopDl(t)
    PROVE  Inv'
<1>1. /\ pc[t] = "stopDl" /\ Goto(t, "stopUl") /\ UNCHANGED <<control, ulVars>>
      /\ DL!StopCall(t)
  BY DEF StopDl
<1>2. Moves(t) /\ pc'[t] = "stopUl" /\ ThreadInv'
  BY <1>1, CallStep DEF StopSteps
<1>3. \A u \in Threads : u # t => pc[u] = "idle" /\ pc'[u] = "idle"
  BY <1>2 DEF Moves
<1>4. UNCHANGED <<running, dlCancel, dlCancelled, dlStreams, dlLaunching, dlAdjusting>>
  BY <1>1 DEF control, DL!StopCall, DL!goroutines
<1>5. DL!Quiet' = DL!Quiet /\ DL!NoOrphans' = DL!NoOrphans
  BY <1>4 DEF DL!Quiet, DL!Live, DL!NoOrphans
<1>6. UL!Quiet' = UL!Quiet /\ UL!NoOrphans' = UL!NoOrphans
  BY <1>1, UlRests
<1>7. UNCHANGED <<ulPc, ulMine, ulCancel, ulStreams, ulLaunching>>
  BY <1>1 DEF ulVars
<1>8. dlPc'[t] = "cancelling" /\ DOMAIN dlPc' = Threads
  BY <1>1 DEF DL!StopCall, Inv, Domains
<1>9. Domains'
  BY <1>4, <1>7, <1>8 DEF Inv, Domains
<1>10. ~running => DL!Quiet /\ UL!Quiet
  BY <1>1, <1>3, QuietWhenStopped
<1>11. DlFollows'
  BY <1>2, <1>3, <1>4, <1>5, <1>8, <1>10 DEF DlFollows
<1>12. UlFollows'
  BY <1>1, <1>2, <1>3, <1>4, <1>6, <1>7, <1>10 DEF Inv, UlFollows
<1> QED
  BY <1>2, <1>5, <1>6, <1>9, <1>11, <1>12 DEF Inv, NoOrphans

\* The download engine's Stop has returned, and the upload engine's begins.
LEMMA StopUlKeeps ==
    ASSUME Inv, NEW t \in Threads, StopUl(t)
    PROVE  Inv'
<1>1. /\ pc[t] = "stopUl" /\ dlPc[t] = "idle" /\ Goto(t, "stopped")
      /\ UNCHANGED <<control, dlVars>> /\ UL!StopCall(t)
  BY DEF StopUl
<1>2. Moves(t) /\ pc'[t] = "stopped" /\ ThreadInv'
  BY <1>1, CallStep DEF StopSteps
<1>3. \A u \in Threads : u # t => pc[u] = "idle" /\ pc'[u] = "idle"
  BY <1>2 DEF Moves
<1>4. UNCHANGED <<running, ulCancel, ulMine, ulStreams, ulLaunching, ulAdjusting>>
  BY <1>1 DEF control, UL!StopCall, UL!goroutines
<1>5. UL!Quiet' = UL!Quiet
  BY <1>4 DEF UL!Quiet, UL!Live
<1>6. UL!NoOrphans'
  BY <1>1, <1>4 DEF UL!NoOrphans, UL!Live, UL!StopCall, Inv, NoOrphans
<1>7. DL!Quiet' = DL!Quiet /\ DL!NoOrphans' = DL!NoOrphans
  BY <1>1, DlRests
<1>8. DL!Quiet
  BY <1>1 DEF Inv, DlFollows
<1>9. UNCHANGED <<dlPc, dlStreams, dlLaunching>>
  BY <1>1 DEF dlVars
<1>10. /\ DOMAIN ulPc' = Threads
       /\ ulPc'[t] = IF UL!Quiet THEN "clearing" ELSE "waiting"
       /\ \A u \in Threads : u # t => ulPc'[u] = ulPc[u]
  BY <1>1 DEF UL!StopCall, Inv, Domains
<1>11. Domains'
  BY <1>4, <1>9, <1>10 DEF Inv, Domains
<1>12. DlFollows'
  BY <1>2, <1>3, <1>7, <1>8 DEF DlFollows
<1>13. ~running => UL!Quiet
  BY <1>1, <1>3, QuietWhenStopped
<1>14. \A u \in Threads : ulPc'[u] \notin {"resetting", "launching"}
  BY <1>3, <1>10 DEF Inv, UlFollows
<1>15. UlFollows'
  BY <1>2, <1>3, <1>4, <1>5, <1>10, <1>13, <1>14 DEF UlFollows
<1> QED
  BY <1>2, <1>6, <1>7, <1>11, <1>12, <1>15 DEF Inv, NoOrphans

-----------------------------------------------------------------------------
(* The theorems *)

LEMMA WorkingKeeps ==
    ASSUME Inv, NEW t \in Threads, Working(t)
    PROVE  Inv'
<1>1. CASE StartCheck(t) \/ Config(t) \/ TestEnd(t) \/ Apply(t)
  BY <1>1, StartCheckKeeps, ConfigKeeps, TestEndKeeps, ApplyKeeps
<1>2. CASE StartDl(t) \/ StartUl(t)
  BY <1>2, StartDlKeeps, StartUlKeeps
<1>3. CASE Started(t)
  BY <1>3, ReturnStep DEF Started
<1>4. CASE StopCheck(t) \/ StopDl(t) \/ StopUl(t)
  BY <1>4, StopCheckKeeps, StopDlKeeps, StopUlKeeps
<1>5. CASE Stopped(t)
  BY <1>5, ReturnStep DEF Stopped
<1>6. CASE ManualStart(t) \/ IspBegin(t) \/ IspEnd(t)
  BY <1>6, ManualStartKeeps, IspBeginKeeps, IspEndKeeps
<1>7. CASE DL!Stopping(t) /\ UNCHANGED <<control, thread, ulVars>>
  BY <1>7, DlWinds, DlStep DEF Inv
<1>8. CASE (UL!Starting(t) \/ UL!Stopping(t)) /\ UNCHANGED <<control, thread, dlVars>>
  <2>1. CASE UL!StartLaunch(t)
    BY <1>8, <2>1, UlLaunches
  <2>2. CASE UL!StartReset(t) \/ UL!Stopping(t)
    BY <1>8, <2>2, UlWinds, UlStep DEF Inv
  <2> QED
    BY <1>8, <2>1, <2>2 DEF UL!Starting
<1> QED
  BY <1>1, <1>2, <1>3, <1>4, <1>5, <1>6, <1>7, <1>8 DEF Working

LEMMA NextKeeps == TakeTurns /\ Inv /\ [Next]_vars => Inv'
<1> SUFFICES ASSUME TakeTurns, Inv, [Next]_vars PROVE Inv'
  OBVIOUS
<1>1. ASSUME NEW c \in Clients, RequestStart(c) \/ RequestStop(c) \/ RequestTest(c)
      PROVE  Inv'
  BY <1>1, RequestStartKeeps, RequestStopKeeps, RequestTestKeeps DEF Threads
<1>2. CASE MatchChanges \/ UNCHANGED vars
  <2>1. UNCHANGED <<running, override, pc, ret>> /\ NoEngines
    BY <1>2 DEF MatchChanges, vars, control, thread, NoEngines
  <2>2. ThreadInv'
    BY <2>1, ThreadsRest DEF Inv
  <2>3. DL!Quiet' = DL!Quiet /\ DL!NoOrphans' = DL!NoOrphans
    BY <2>1, DlRests DEF NoEngines
  <2>4. UL!Quiet' = UL!Quiet /\ UL!NoOrphans' = UL!NoOrphans
    BY <2>1, UlRests DEF NoEngines
  <2>5. UNCHANGED <<dlPc, dlStreams, dlLaunching,
                    ulPc, ulMine, ulCancel, ulStreams, ulLaunching>>
    BY <2>1 DEF NoEngines, dlVars, ulVars
  <2>6. Domains'
    BY <2>5 DEF Inv, Domains
  <2>7. DlFollows'
    BY <2>1, <2>3, <2>5 DEF Inv, DlFollows
  <2>8. UlFollows'
    BY <2>1, <2>4, <2>5 DEF Inv, UlFollows
  <2> QED
    BY <2>2, <2>3, <2>4, <2>6, <2>7, <2>8 DEF Inv, NoOrphans
<1>3. CASE Tick \/ TickGoesOn
  BY <1>3, TickKeeps, TickGoesOnKeeps
<1>4. ASSUME NEW t \in Threads, Working(t) PROVE Inv'
  BY <1>4, WorkingKeeps
<1>5. ASSUME NEW g \in Generations, DLGoroutine(g) PROVE Inv'
  BY <1>5, DlWinds, DlStep DEF DLGoroutine, Inv
<1>6. ASSUME NEW g \in Generations, ULGoroutine(g) PROVE Inv'
  BY <1>6, UlWinds, UlStep DEF ULGoroutine, Inv
<1> QED
  BY <1>1, <1>2, <1>3, <1>4, <1>5, <1>6 DEF Next

\* What startEngines and stopEngines find at each of their steps, whatever the engines'
\* goroutines do meanwhile.
THEOREM SessionHolds == TakeTurns /\ Spec => []Inv
<1>1. CASE TakeTurns
  <2>1. Inv /\ [Next]_vars => Inv'
    BY <1>1, NextKeeps
  <2> QED
    BY <2>1, InitEstablishes, PTL DEF Spec
<1> QED
  BY <1>1

\* No goroutine of an engine escapes the engine's next Stop: startEngines stops engines
\* that run before it starts them again, so HTTPEngine.Start, which has no guard of its
\* own, never overwrites a cancel function that is needed.
THEOREM NoOrphansHolds == TakeTurns /\ Spec => []NoOrphans
<1>1. Inv => NoOrphans
  BY DEF Inv
<1> QED
  BY <1>1, SessionHolds, PTL

\* The ISP speed test measures a silent line, on demand and within startEngines.
THEOREM MeasuresInSilenceHolds == TakeTurns /\ Spec => []MeasuresInSilence
<1>1. ASSUME Inv, NEW t \in Threads, pc[t] \in {"testEnd", "ispEnd"}
      PROVE  ~Streaming
  <2>1. \A u \in Threads : u # t => pc[u] = "idle"
    BY <1>1 DEF Inv, ThreadInv, Alone
  <2>2. ~running
    BY <1>1 DEF Inv, ThreadInv, Paused, PausedSteps
  <2> QED
    BY <1>1, <2>1, <2>2, QuietWhenStopped DEF Streaming
<1>2. Inv => MeasuresInSilence
  BY <1>1 DEF MeasuresInSilence, Measuring
<1> QED
  BY <1>2, SessionHolds, PTL

\* Once a stop request is answered, and until a start request is, nothing streams:
\* neither a tick nor an ISP test brings the engines back.
THEOREM StopOverrideWins == TakeTurns /\ Spec => []StopOverrideHolds
<1>1. ASSUME Inv, AllIdle, override = "forceStop" PROVE ~Streaming
  <2>1. \A u \in Threads : pc[u] = "idle"
    BY <1>1 DEF AllIdle
  <2>2. ~running
    BY <1>1, <2>1, ObeyedWhenIdle DEF Inv
  <2> QED
    BY <1>1, <2>1, <2>2 DEF Inv, DlFollows, UlFollows, Streaming
<1>2. Inv => StopOverrideHolds
  BY <1>1 DEF StopOverrideHolds
<1> QED
  BY <1>2, SessionHolds, PTL
-----------------------------------------------------------------------------
(* The engines keep their contract *)

\* What the engines' steps count, and what a Stop of the download engine holds while it
\* is under way: only at its step of stopEngines, and what it holds is the engine's.
DlCalls ==
    /\ dlActive \in Int
    /\ dlStreams \in [Generations -> Nat] /\ dlLaunching \in [Generations -> Nat]
    /\ DOMAIN dlPc = Threads /\ DOMAIN dlHeld = Threads
    /\ \A t \in Threads :
        /\ dlPc[t] # "idle" => pc[t] = "stopUl"
        /\ dlPc[t] = "cancelling" => dlHeld[t] = dlCancel

\* A Start of the upload engine under way has a context that nobody has cancelled.
UlCalls ==
    /\ ulStreams \in [Generations -> Nat] /\ ulLaunching \in [Generations -> Nat]
    /\ \A t \in Threads :
        ulPc[t] \in {"resetting", "launching"} =>
            ulCancel \in Generations /\ ulCancel \notin ulCancelled

LEMMA CallsInit == Init => DlCalls /\ UlCalls
  BY DEF Init, DlCalls, UlCalls, DL!Init, UL!Init

\* What autoAdjust adds is a number of streams.
LEMMA RoomIsPositive ==
    ASSUME NEW pct \in Nat, pct < 80, dlActive \in Int, dlActive < MaxConcurrency
    PROVE  LET wanted == ((100 - pct) * 4) \div 100 + 1
               room   == MaxConcurrency - dlActive
           IN  (IF wanted > room THEN room ELSE wanted) \in Nat
<1>1. MaxConcurrency \in Nat
  BY EnginesAssumption
<1> QED
  BY <1>1

\* A thread's step on one of the engines or on none leaves the other threads where they are.
Stays(t) == \A u \in Threads : u # t => pc'[u] = pc[u]

LEMMA GotoStays ==
    ASSUME Frames, NEW t \in Threads,
           \/ \E step : Goto(t, step)
           \/ \E step, back : Call(t, step, back)
           \/ Return(t)
    PROVE  Stays(t)
  BY DEF Frames, Stays, Goto, Call, Return

\* A step of a thread that calls no engine.
LEMMA CallsRest ==
    ASSUME DlCalls, UlCalls, NEW t \in Threads, pc[t] # "stopUl", Stays(t), NoEngines
    PROVE  DlCalls' /\ UlCalls'
<1>1. DlCalls'
  BY DEF DlCalls, Stays, NoEngines, dlVars
<1>2. UlCalls'
  BY DEF UlCalls, NoEngines, ulVars
<1> QED
  BY <1>1, <1>2

-----------------------------------------------------------------------------
(* The download engine's phase *)

LEMMA DlSamePhase ==
    ASSUME UNCHANGED dlCancelled, \A g \in Generations : DL!Live(g)' <=> DL!Live(g)
    PROVE  DL!Phase' = DL!Phase
<1>1. DL!Quiet' <=> DL!Quiet
  BY DEF DL!Quiet
<1>2. DL!Serving' <=> DL!Serving
  BY DEF DL!Serving
<1> QED
  BY <1>1, <1>2 DEF DL!Phase

LEMMA DlUntouched == UNCHANGED dlVars => DL!Phase' = DL!Phase
<1> SUFFICES ASSUME UNCHANGED dlVars PROVE DL!Phase' = DL!Phase
  OBVIOUS
<1> QED
  BY DlSamePhase DEF dlVars, DL!Live

\* A goroutine that works on keeps the phase; the last that leaves drains the engine.
LEMMA DlDrains ==
    ASSUME UNCHANGED dlCancelled,
           \A g \in Generations : DL!Live(g)' => DL!Live(g),
           \A g \in Generations : DL!Live(g) /\ g \notin dlCancelled => DL!Live(g)'
    PROVE  DL!Contract!Drained \/ DL!Phase' = DL!Phase
<1>1. DL!Serving' <=> DL!Serving
  BY DEF DL!Serving
<1>2. DL!Quiet => DL!Quiet'
  BY DEF DL!Quiet
<1>3. DL!Serving' => ~DL!Quiet'
  BY DEF DL!Serving, DL!Quiet
<1> QED
  BY <1>1, <1>2, <1>3 DEF DL!Phase, DL!Contract!Drained

\* The download engine is started when it is quiet.
LEMMA DlTurnsOn ==
    ASSUME DlCalls, DL!Quiet, DL!Start
    PROVE  DL!Contract!TurnOn
<1>1. PICK g \in Generations, n \in Concurrencies : DL!LaunchGeneration(g, n)
  BY DEF DL!Start
<1>2. DL!Live(g)' /\ g \notin dlCancelled'
  BY <1>1 DEF DL!LaunchGeneration, DL!Live, DlCalls
<1> QED
  BY <1>2 DEF DL!Phase, DL!Quiet, DL!Serving, DL!Contract!TurnOn

\* The cancellation in its Stop reaches all of it.
LEMMA DlCancels ==
    ASSUME DlCalls, DL!NoOrphans, NEW t \in Threads, DL!StopCancel(t)
    PROVE  DL!Contract!Cancel \/ DL!Phase' = DL!Phase
<1>1. \A g \in Generations : DL!Live(g)' <=> DL!Live(g)
  BY DEF DL!StopCancel, DL!goroutines, DL!Live
<1>2. DL!Quiet' <=> DL!Quiet
  BY <1>1 DEF DL!Quiet
<1>3. ~DL!Serving'
  BY <1>1 DEF DL!StopCancel, DL!NoOrphans, DL!Serving, DlCalls
<1> QED
  BY <1>2, <1>3 DEF DL!Phase, DL!Contract!Cancel

\* A step of a goroutine.
LEMMA DlGoroutineStep ==
    ASSUME DlCalls, NEW g \in Generations, UNCHANGED pc,
           DL!LaunchNext(g) \/ DL!AutoAdjust(g) \/ DL!Leaving(g)
    PROVE  DlCalls' /\ (DL!Contract!Drained \/ DL!Phase' = DL!Phase)
<1> DEFINE Drains == /\ UNCHANGED dlCancelled
                     /\ \A h \in Generations : DL!Live(h)' => DL!Live(h)
                     /\ \A h \in Generations : DL!Live(h) /\ h \notin dlCancelled => DL!Live(h)'
<1>1. CASE DL!LaunchNext(g)
  <2>1. DlCalls'
    BY <1>1 DEF DlCalls, DL!LaunchNext
  <2>2. Drains
    BY <1>1 DEF DlCalls, DL!LaunchNext, DL!Live
  <2> QED
    BY <2>1, <2>2, DlDrains
<1>2. CASE DL!AutoAdjust(g)
  <2> DEFINE wanted(pct) == ((100 - pct) * 4) \div 100 + 1
             room        == MaxConcurrency - dlActive
             toAdd(pct)  == IF wanted(pct) > room THEN room ELSE wanted(pct)
  <2>1. PICK pct \in Throughput :
           /\ pct < 80
           /\ dlActive < MaxConcurrency
           /\ dlStreams' = [dlStreams EXCEPT ![g] = @ + toAdd(pct)]
           /\ dlActive' = dlActive + toAdd(pct)
    BY <1>2 DEF DL!AutoAdjust
  <2>2. UNCHANGED <<dlCancel, dlCancelled, dlLaunching, dlAdjusting, dlPc, dlHeld>>
    BY <1>2 DEF DL!AutoAdjust
  <2>3. toAdd(pct) \in Nat
    BY <2>1, RoomIsPositive, EnginesAssumption DEF DlCalls
  <2> HIDE DEF toAdd
  <2>4. DlCalls'
    BY <2>1, <2>2, <2>3 DEF DlCalls
  <2>5. g \in dlAdjusting
    BY <1>2 DEF DL!AutoAdjust
  <2>6. \A h \in Generations : DL!Live(h)' <=> DL!Live(h)
    BY <2>1, <2>2, <2>3, <2>5 DEF DL!Live, DlCalls
  <2> QED
    BY <2>2, <2>4, <2>6, DlSamePhase
<1>3. CASE DL!Leaving(g)
  <2>1. UNCHANGED <<dlCancel, dlCancelled, dlHeld>> /\ DL!ReleaseWaiters /\ g \in dlCancelled
    BY <1>3 DEF DL!Leaving, DL!AbandonLaunch, DL!StreamExit, DL!AutoAdjustExit
  <2>2. /\ DOMAIN dlPc' = Threads
        /\ \A t \in Threads : dlPc'[t] = dlPc[t] \/ (dlPc[t] = "waiting" /\ dlPc'[t] = "clearing")
    BY <2>1 DEF DL!ReleaseWaiters
  <2>3. /\ dlActive' \in Int
        /\ dlStreams' \in [Generations -> Nat] /\ dlLaunching' \in [Generations -> Nat]
        /\ \A h \in Generations : DL!Live(h)' => DL!Live(h)
        /\ \A h \in Generations : h # g => (DL!Live(h)' <=> DL!Live(h))
    <3>1. CASE DL!AbandonLaunch(g)
      BY <3>1 DEF DlCalls, DL!AbandonLaunch, DL!Live
    <3>2. CASE DL!StreamExit(g)
      BY <3>2 DEF DlCalls, DL!StreamExit, DL!Live
    <3>3. CASE DL!AutoAdjustExit(g)
      BY <3>3 DEF DlCalls, DL!AutoAdjustExit, DL!Live
    <3> QED
      BY <1>3, <3>1, <3>2, <3>3 DEF DL!Leaving
  <2>4. DlCalls'
    BY <2>1, <2>2, <2>3 DEF DlCalls
  <2>5. Drains
    BY <2>1, <2>3
  <2> QED
    BY <2>4, <2>5, DlDrains
<1> QED
  BY <1>1, <1>2, <1>3

\* A step of a Stop under way.
LEMMA DlStoppingStep ==
    ASSUME DlCalls, DL!NoOrphans, NEW t \in Threads, DL!Stopping(t), UNCHANGED pc
    PROVE  DlCalls' /\ (DL!Contract!Cancel \/ DL!Phase' = DL!Phase)
<1>1. CASE DL!StopCancel(t)
  <2>1. DlCalls'
    BY <1>1 DEF DlCalls, DL!StopCancel, DL!goroutines
  <2> QED
    BY <1>1, <2>1, DlCancels
<1>2. CASE DL!StopClear(t)
  <2>1. DlCalls'
    BY <1>2 DEF DlCalls, DL!StopClear, DL!goroutines
  <2>2. DL!Phase' = DL!Phase
    BY <1>2, DlSamePhase DEF DL!StopClear, DL!goroutines, DL!Live
  <2> QED
    BY <2>1, <2>2
<1>3. CASE DL!StopZero(t)
  <2>1. DlCalls'
    BY <1>3 DEF DlCalls, DL!StopZero
  <2>2. DL!Phase' = DL!Phase
    BY <1>3, DlSamePhase DEF DL!StopZero, DL!Live
  <2> QED
    BY <2>1, <2>2
<1> QED
  BY <1>1, <1>2, <1>3 DEF DL!Stopping

-----------------------------------------------------------------------------
(* The upload engine's phase *)

\* No cancellation that matters, and nothing gained or lost.
LEMMA UlSamePhase ==
    ASSUME UNCHANGED <<ulLaunching, ulStreams, ulAdjusting>>,
           \A g \in Generations : UL!Live(g) => (g \in ulCancelled' <=> g \in ulCancelled)
    PROVE  UL!Phase' = UL!Phase
<1>1. \A g \in Generations : UL!Live(g)' <=> UL!Live(g)
  BY DEF UL!Live
<1>2. UL!Quiet' <=> UL!Quiet
  BY <1>1 DEF UL!Quiet
<1>3. UL!Serving' <=> UL!Serving
  BY <1>1 DEF UL!Serving
<1> QED
  BY <1>2, <1>3 DEF UL!Phase

LEMMA UlUntouched == UNCHANGED ulVars => UL!Phase' = UL!Phase
<1> SUFFICES ASSUME UNCHANGED ulVars PROVE UL!Phase' = UL!Phase
  OBVIOUS
<1> QED
  BY UlSamePhase DEF ulVars

\* The streams of a Start are launched on a quiet engine, under a context that is not done.
LEMMA UlTurnsOn ==
    ASSUME UlCalls, UlFollows, NEW t \in Threads, UL!StartLaunch(t)
    PROVE  UL!Contract!TurnOn /\ UlCalls'
<1>1. /\ UL!Quiet /\ ulMine[t] = ulCancel
      /\ ulCancel \in Generations /\ ulCancel \notin ulCancelled
  BY DEF UlCalls, UlFollows, UL!StartLaunch
<1>2. ulCancel \in ulAdjusting' /\ UNCHANGED <<ulCancel, ulCancelled>>
  BY <1>1 DEF UL!StartLaunch
<1>3. UL!Live(ulCancel)'
  BY <1>2 DEF UL!Live
<1>4. UL!Contract!TurnOn
  BY <1>1, <1>2, <1>3 DEF UL!Phase, UL!Quiet, UL!Serving, UL!Contract!TurnOn
<1>5. PICK n \in Concurrencies : ulLaunching' = [ulLaunching EXCEPT ![ulCancel] = n - 1]
  BY <1>1 DEF UL!StartLaunch
<1>6. n - 1 \in Nat
  BY EnginesAssumption
<1>7. ulStreams' \in [Generations -> Nat] /\ ulLaunching' \in [Generations -> Nat]
  BY <1>1, <1>5, <1>6 DEF UlCalls, UL!StartLaunch
<1>8. UlCalls'
  BY <1>1, <1>2, <1>7 DEF UlCalls
<1> QED
  BY <1>4, <1>8

\* A Start makes its context while nothing of it lives yet.
LEMMA UlStartStutters ==
    ASSUME UlCalls, NEW t \in Threads, UL!StartCall(t)
    PROVE  UL!Phase' = UL!Phase /\ UlCalls'
<1>1. PICK g \in Generations :
         /\ UL!Fresh(g) /\ ulCancel' = g /\ ulCancelled' = ulCancelled \ {g}
         /\ UNCHANGED <<ulLaunching, ulStreams, ulAdjusting>>
  BY DEF UL!StartCall, UL!goroutines
<1>2. \A h \in Generations : UL!Live(h) => (h \in ulCancelled' <=> h \in ulCancelled)
  BY <1>1 DEF UL!Fresh
<1> QED
  BY <1>1, <1>2, UlSamePhase DEF UlCalls

\* Its Stop cancels all of it at once, when no Start is under way.
LEMMA UlCancels ==
    ASSUME UlCalls, UL!NoOrphans, NEW t \in Threads, UL!StopCall(t),
           \A u \in Threads : ulPc[u] \notin {"resetting", "launching"}
    PROVE  (UL!Contract!Cancel \/ UL!Phase' = UL!Phase) /\ UlCalls'
<1>1. UNCHANGED <<ulStreams, ulLaunching, ulAdjusting>>
  BY DEF UL!StopCall, UL!goroutines
<1>2. \A g \in Generations : UL!Live(g)' <=> UL!Live(g)
  BY <1>1 DEF UL!Live
<1>3. UL!Quiet' <=> UL!Quiet
  BY <1>2 DEF UL!Quiet
<1>4. ~UL!Serving'
  BY <1>2 DEF UL!StopCall, UL!NoOrphans, UL!Serving
<1>5. \A u \in Threads : ulPc'[u] \notin {"resetting", "launching"}
  <2>1. ulPc' = [ulPc EXCEPT ![t] = IF UL!Quiet THEN "clearing" ELSE "waiting"]
    BY DEF UL!StopCall
  <2> QED
    BY <2>1
<1> QED
  BY <1>1, <1>3, <1>4, <1>5 DEF UL!Phase, UL!Contract!Cancel, UlCalls

\* A step of a goroutine.
LEMMA UlGoroutineStep ==
    ASSUME UlCalls, NEW g \in Generations,
           UL!LaunchNext(g) \/ UL!AutoAdjust(g) \/ UL!Leaving(g)
    PROVE  UlCalls' /\ (UL!Contract!Drained \/ UL!Phase' = UL!Phase)
<1> DEFINE Typed == ulStreams' \in [Generations -> Nat] /\ ulLaunching' \in [Generations -> Nat]
           Drains == /\ \A h \in Generations : UL!Live(h)' => UL!Live(h)
                     /\ \A h \in Generations : UL!Live(h) /\ h \notin ulCancelled => UL!Live(h)'
<1>1. UNCHANGED <<ulCancel, ulCancelled>>
  BY DEF UL!LaunchNext, UL!AutoAdjust, UL!Leaving, UL!AbandonLaunch, UL!StreamExit,
         UL!AutoAdjustExit
<1>2. Typed /\ Drains
  <2>1. CASE UL!LaunchNext(g)
    BY <2>1 DEF UlCalls, UL!LaunchNext, UL!Live
  <2>2. CASE UL!AutoAdjust(g)
    BY <2>2 DEF UlCalls, UL!AutoAdjust, UL!Live
  <2>3. CASE UL!AbandonLaunch(g)
    BY <2>3 DEF UlCalls, UL!AbandonLaunch, UL!Live
  <2>4. CASE UL!StreamExit(g)
    BY <2>4 DEF UlCalls, UL!StreamExit, UL!Live
  <2>5. CASE UL!AutoAdjustExit(g)
    BY <2>5 DEF UlCalls, UL!AutoAdjustExit, UL!Live
  <2> QED
    BY <2>1, <2>2, <2>3, <2>4, <2>5 DEF UL!Leaving
<1>3. \A t \in Threads : ulPc'[t] \in {"resetting", "launching"} => ulPc'[t] = ulPc[t]
  <2>1. UNCHANGED ulPc \/ UL!ReleaseWaiters
    BY DEF UL!LaunchNext, UL!AutoAdjust, UL!Leaving, UL!AbandonLaunch, UL!StreamExit,
           UL!AutoAdjustExit
  <2> QED
    BY <2>1 DEF UL!ReleaseWaiters
<1>4. UlCalls'
  BY <1>1, <1>2, <1>3 DEF UlCalls
<1>5. UL!Serving' <=> UL!Serving
  BY <1>1, <1>2 DEF UL!Serving
<1>6. UL!Quiet => UL!Quiet'
  BY <1>2 DEF UL!Quiet
<1>7. UL!Serving' => ~UL!Quiet'
  BY DEF UL!Serving, UL!Quiet
<1> QED
  BY <1>4, <1>5, <1>6, <1>7 DEF UL!Phase, UL!Contract!Drained

\* The rest of a Start and of a Stop.
LEMMA UlCallStep ==
    ASSUME UlCalls, DOMAIN ulPc = Threads, NEW t \in Threads, UL!StartReset(t) \/ UL!Stopping(t)
    PROVE  UlCalls' /\ UL!Phase' = UL!Phase
<1>1. UNCHANGED <<ulCancel, ulCancelled, ulStreams, ulLaunching, ulAdjusting>>
  BY DEF UL!StartReset, UL!Stopping, UL!StopClear, UL!StopZero, UL!goroutines
<1>2. \A u \in Threads :
         ulPc'[u] \in {"resetting", "launching"} => ulPc[u] \in {"resetting", "launching"}
  BY DEF UL!StartReset, UL!Stopping, UL!StopClear, UL!StopZero
<1>3. UlCalls'
  BY <1>1, <1>2 DEF UlCalls
<1> QED
  BY <1>1, <1>3, UlSamePhase

-----------------------------------------------------------------------------
(* Both engines, whatever the threads do *)

\* What a step shows: the calls stay in order, and each engine's phase changes as the
\* contract allows.
InOrder ==
    /\ DlCalls' /\ UlCalls'
    /\ DL!Contract!Next \/ DL!Phase' = DL!Phase
    /\ UL!Contract!Next \/ UL!Phase' = UL!Phase

LEMMA RestInOrder ==
    ASSUME DlCalls', UlCalls', NoEngines
    PROVE  InOrder
  BY DlUntouched, UlUntouched DEF InOrder, NoEngines

\* The handlers, the tick, and the steps of startEngines and stopEngines between the calls.
LEMMA ThreadInOrder ==
    ASSUME Inv, DlCalls, UlCalls, NEW t \in Threads, pc[t] # "stopUl", NoEngines,
           \/ \E step : Goto(t, step)
           \/ \E step, back : Call(t, step, back)
           \/ Return(t)
    PROVE  InOrder
<1>1. Stays(t)
  BY GotoStays DEF Inv, ThreadInv
<1> QED
  BY <1>1, CallsRest, RestInOrder

\* The steps of stopEngines and startEngines that call an engine.
LEMMA CallsInOrder ==
    ASSUME Inv, DlCalls, UlCalls, NEW t \in Threads,
           StartDl(t) \/ StartUl(t) \/ StopDl(t) \/ StopUl(t)
    PROVE  InOrder
<1>1. pc[t] \in {"startDl", "startUl", "stopDl", "stopUl"}
  BY DEF StartDl, StartUl, StopDl, StopUl
<1>2. \A u \in Threads : u # t => pc[u] = "idle"
  BY <1>1 DEF Inv, ThreadInv, Alone
<1>3. Stays(t)
  BY GotoStays DEF Inv, ThreadInv, StartDl, StartUl, StopDl, StopUl
<1>4. \A u \in Threads : dlPc[u] # "idle" => u = t /\ pc[t] = "stopUl"
  BY <1>2 DEF DlCalls
<1>5. CASE StartDl(t)
  <2>1. pc[t] = "startDl" /\ UNCHANGED ulVars /\ (DL!Start \/ UNCHANGED dlVars)
    BY <1>5 DEF StartDl
  <2>2. \A u \in Threads : dlPc[u] = "idle"
    BY <1>4, <2>1
  <2>3. UlCalls' /\ UL!Phase' = UL!Phase
    BY <2>1, UlUntouched DEF UlCalls, ulVars
  <2>4. CASE UNCHANGED dlVars
    <3>1. DlCalls'
      BY <2>2, <2>4 DEF DlCalls, dlVars
    <3> QED
      BY <2>3, <2>4, <3>1, DlUntouched DEF InOrder
  <2>5. CASE DL!Start
    <3>1. DL!Quiet
      <4>1. ~running
        BY <2>1 DEF Inv, ThreadInv, Paused, PausedSteps
      <4> QED
        BY <1>2, <2>1, <4>1, QuietWhenStopped
    <3>2. DL!Contract!Next
      BY <2>5, <3>1, DlTurnsOn DEF DL!Contract!Next
    <3>3. PICK g \in Generations, n \in Concurrencies : DL!LaunchGeneration(g, n)
      BY <2>5 DEF DL!Start
    <3>4. n - 1 \in Nat
      BY EnginesAssumption
    <3>5. UNCHANGED <<dlPc, dlHeld>>
      BY <2>5 DEF DL!Start
    <3>6. DlCalls'
      BY <2>2, <3>3, <3>4, <3>5 DEF DlCalls, DL!LaunchGeneration
    <3> QED
      BY <2>3, <3>2, <3>6 DEF InOrder
  <2> QED
    BY <2>1, <2>4, <2>5
<1>6. CASE StartUl(t)
  <2>1. pc[t] = "startUl" /\ UNCHANGED dlVars /\ (UL!StartCall(t) \/ UNCHANGED ulVars)
    BY <1>6 DEF StartUl
  <2>2. \A u \in Threads : dlPc[u] = "idle"
    BY <1>4, <2>1
  <2>3. DlCalls' /\ DL!Phase' = DL!Phase
    BY <2>1, <2>2, DlUntouched DEF DlCalls, dlVars
  <2>4. UlCalls' /\ UL!Phase' = UL!Phase
    <3>1. CASE UNCHANGED ulVars
      BY <3>1, UlUntouched DEF UlCalls, ulVars
    <3>2. CASE UL!StartCall(t)
      BY <3>2, UlStartStutters
    <3> QED
      BY <2>1, <3>1, <3>2
  <2> QED
    BY <2>3, <2>4 DEF InOrder
<1>7. CASE StopDl(t)
  <2>1. /\ pc[t] = "stopDl" /\ UNCHANGED ulVars /\ DL!StopCall(t)
        /\ Goto(t, "stopUl")
    BY <1>7 DEF StopDl
  <2>2. UlCalls' /\ UL!Phase' = UL!Phase
    BY <2>1, UlUntouched DEF UlCalls, ulVars
  <2>3. UNCHANGED <<dlActive, dlCancel, dlCancelled, dlStreams, dlLaunching, dlAdjusting>>
    BY <2>1 DEF DL!StopCall, DL!goroutines
  <2>4. DL!Phase' = DL!Phase
    BY <2>3, DlSamePhase DEF DL!Live
  <2>5. pc'[t] = "stopUl"
    BY <2>1 DEF Goto, Inv, ThreadInv, Frames
  <2>6. /\ DOMAIN dlPc' = Threads /\ DOMAIN dlHeld' = Threads
        /\ dlHeld'[t] = dlCancel
        /\ \A u \in Threads : u # t => dlPc'[u] = dlPc[u]
    BY <2>1 DEF DL!StopCall, DlCalls
  <2>7. \A u \in Threads : u # t => dlPc'[u] = "idle"
    BY <1>4, <2>6
  <2>8. DlCalls'
    BY <2>3, <2>5, <2>6, <2>7 DEF DlCalls
  <2> QED
    BY <2>2, <2>4, <2>8 DEF InOrder
<1>8. CASE StopUl(t)
  <2>1. pc[t] = "stopUl" /\ dlPc[t] = "idle" /\ UNCHANGED dlVars /\ UL!StopCall(t)
    BY <1>8 DEF StopUl
  <2>2. \A u \in Threads : dlPc[u] = "idle"
    BY <1>4, <2>1
  <2>3. DlCalls' /\ DL!Phase' = DL!Phase
    BY <2>1, <2>2, DlUntouched DEF DlCalls, dlVars
  <2>4. \A u \in Threads : ulPc[u] \notin {"resetting", "launching"}
    BY <1>2, <2>1 DEF Inv, UlFollows
  <2>5. (UL!Contract!Next \/ UL!Phase' = UL!Phase) /\ UlCalls'
    BY <2>1, <2>4, UlCancels DEF UL!Contract!Next, Inv, NoOrphans
  <2> QED
    BY <2>3, <2>5 DEF InOrder
<1> QED
  BY <1>5, <1>6, <1>7, <1>8

\* The engines' own steps.
LEMMA EnginesInOrder ==
    ASSUME Inv, DlCalls, UlCalls,
           \/ \E g \in Generations : DLGoroutine(g) \/ ULGoroutine(g)
           \/ \E t \in Threads : DL!Stopping(t) /\ UNCHANGED <<control, thread, ulVars>>
           \/ \E t \in Threads : /\ UL!Starting(t) \/ UL!Stopping(t)
                                 /\ UNCHANGED <<control, thread, dlVars>>
    PROVE  InOrder
<1>1. UNCHANGED ulVars => UlCalls' /\ UL!Phase' = UL!Phase
  <2> SUFFICES ASSUME UNCHANGED ulVars PROVE UlCalls' /\ UL!Phase' = UL!Phase
    OBVIOUS
  <2> QED
    BY UlUntouched DEF UlCalls, ulVars
<1>2. UNCHANGED dlVars /\ UNCHANGED pc => DlCalls' /\ DL!Phase' = DL!Phase
  <2> SUFFICES ASSUME UNCHANGED dlVars, UNCHANGED pc PROVE DlCalls' /\ DL!Phase' = DL!Phase
    OBVIOUS
  <2> QED
    BY DlUntouched DEF DlCalls, dlVars
<1>3. UNCHANGED pc
  BY DEF DLGoroutine, ULGoroutine, thread
<1>4. ASSUME NEW g \in Generations, DLGoroutine(g) PROVE InOrder
  BY <1>1, <1>3, <1>4, DlGoroutineStep DEF DLGoroutine, InOrder, DL!Contract!Next
<1>5. ASSUME NEW g \in Generations, ULGoroutine(g) PROVE InOrder
  BY <1>2, <1>3, <1>5, UlGoroutineStep DEF ULGoroutine, InOrder, UL!Contract!Next
<1>6. ASSUME NEW t \in Threads, DL!Stopping(t), UNCHANGED ulVars PROVE InOrder
  BY <1>1, <1>3, <1>6, DlStoppingStep DEF InOrder, DL!Contract!Next, Inv, NoOrphans
<1>7. ASSUME NEW t \in Threads, UL!Starting(t) \/ UL!Stopping(t), UNCHANGED dlVars PROVE InOrder
  <2>1. DlCalls' /\ DL!Phase' = DL!Phase
    BY <1>2, <1>3, <1>7
  <2>2. CASE UL!StartLaunch(t)
    BY <2>1, <2>2, UlTurnsOn DEF InOrder, UL!Contract!Next, Inv
  <2>3. CASE UL!StartReset(t) \/ UL!Stopping(t)
    BY <2>1, <2>3, UlCallStep DEF InOrder, Inv, Domains
  <2> QED
    BY <1>7, <2>2, <2>3 DEF UL!Starting
<1> QED
  BY <1>4, <1>5, <1>6, <1>7

LEMMA StepInOrder == Inv /\ DlCalls /\ UlCalls /\ [Next]_vars => InOrder
<1> SUFFICES ASSUME Inv, DlCalls, UlCalls, [Next]_vars PROVE InOrder
  OBVIOUS
<1>1. ASSUME NEW c \in Clients, RequestStart(c) \/ RequestStop(c) \/ RequestTest(c)
      PROVE  InOrder
  <2>1. /\ c \in Threads /\ pc[c] = "idle" /\ NoEngines
        /\ (\E step : Goto(c, step)) \/ (\E step, back : Call(c, step, back))
    BY <1>1 DEF Threads, RequestStart, RequestStop, RequestTest, MayBegin, CallStart
  <2> QED
    BY <2>1, ThreadInOrder
<1>2. CASE MatchChanges \/ UNCHANGED vars
  <2>1. UNCHANGED pc /\ NoEngines
    BY <1>2 DEF MatchChanges, vars, thread, NoEngines
  <2>2. DlCalls' /\ UlCalls'
    BY <2>1 DEF NoEngines, dlVars, ulVars, DlCalls, UlCalls
  <2> QED
    BY <2>1, <2>2, RestInOrder
<1>3. CASE Tick \/ TickGoesOn
  <2>1. /\ Sched \in Threads /\ pc[Sched] # "stopUl" /\ NoEngines
        /\ (\E step : Goto(Sched, step)) \/ (\E step, back : Call(Sched, step, back))
    BY <1>3 DEF Threads, Tick, MayBegin, TickGoesOn, TickForced, TickScheduled, TickReadFails,
                TickEnds, Ensure, CallStart
  <2> QED
    BY <2>1, ThreadInOrder
<1>4. ASSUME NEW t \in Threads, Working(t) PROVE InOrder
  <2>1. CASE StartDl(t) \/ StartUl(t) \/ StopDl(t) \/ StopUl(t)
    BY <2>1, CallsInOrder
  <2>2. CASE \/ StartCheck(t) \/ Config(t) \/ TestEnd(t) \/ Apply(t) \/ Started(t)
             \/ StopCheck(t) \/ Stopped(t) \/ ManualStart(t) \/ IspBegin(t) \/ IspEnd(t)
    <3>1. /\ pc[t] # "stopUl" /\ NoEngines
          /\ \/ \E step : Goto(t, step)
             \/ \E step, back : Call(t, step, back)
             \/ Return(t)
      BY <2>2 DEF StartCheck, Config, TestEnd, Apply, Started, StopCheck, Stopped,
                  ManualStart, IspBegin, IspEnd
    <3> QED
      BY <3>1, ThreadInOrder
  <2>3. CASE \/ DL!Stopping(t) /\ UNCHANGED <<control, thread, ulVars>>
             \/ (UL!Starting(t) \/ UL!Stopping(t)) /\ UNCHANGED <<control, thread, dlVars>>
    BY <2>3, EnginesInOrder
  <2> QED
    BY <1>4, <2>1, <2>2, <2>3 DEF Working
<1>5. ASSUME NEW g \in Generations, DLGoroutine(g) \/ ULGoroutine(g) PROVE InOrder
  BY <1>5, EnginesInOrder
<1> QED
  BY <1>1, <1>2, <1>3, <1>4, <1>5 DEF Next

\* When calls take turns, the handlers and the tick use both engines as the contract has
\* it: nothing escapes the next Stop, and what drains is not started before it is off.
THEOREM EnginesKeepContractHolds == TakeTurns /\ Spec => EnginesKeepContract
<1>1. Init => DL!Contract!Init /\ UL!Contract!Init
  <2> SUFFICES ASSUME Init PROVE DL!Quiet /\ UL!Quiet
    BY DEF DL!Contract!Init, UL!Contract!Init, DL!Phase, UL!Phase
  <2> QED
    BY InitEstablishes DEF Init, DL!Init, UL!Init, DL!Quiet, UL!Quiet, DL!Live, UL!Live
<1>2. Inv /\ DlCalls /\ UlCalls /\ [Next]_vars =>
          DlCalls' /\ UlCalls' /\ [DL!Contract!Next]_(DL!Phase) /\ [UL!Contract!Next]_(UL!Phase)
  BY StepInOrder DEF InOrder
<1> QED
  BY <1>1, <1>2, CallsInit, SessionHolds, NoOrphansHolds, PTL
     DEF Spec, EnginesKeepContract, DL!KeepsContract, UL!KeepsContract,
         DL!Contract!Safety, UL!Contract!Safety
=============================================================================
