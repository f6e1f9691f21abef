-------------------------- MODULE HTTPEngine_proof --------------------------
(***************************************************************************)
(* Proofs about HTTPEngine, for all values of its constants.               *)
(*                                                                         *)
(* Type correctness needs no assumption on the callers.  The rest needs    *)
(* Serial, since Start has no guard of its own: calls take turns and Start *)
(* is called only on a stopped engine.                                     *)
(***************************************************************************)
EXTENDS HTTPEngine, TLAPS

-----------------------------------------------------------------------------
(* Type correctness *)

\* A caller inside Start has made a context.
StartsHaveContext ==
    \A c \in Callers : pc[c] \in {"resetting", "launching"} => mine[c] \in Generations

Typed == TypeOK /\ StartsHaveContext

LEMMA InitTyped == Init => Typed
<1> SUFFICES ASSUME Init PROVE Typed
  OBVIOUS
<1>0. running \in BOOLEAN
  BY Zenon DEF Init
<1>1. cancel \in Generations \cup {None} /\ active \in Int
  BY DEF Init
<1>2. cancelled \subseteq Generations /\ adjusting \subseteq Generations
  BY DEF Init
<1>3. launching \in [Generations -> Nat] /\ streams \in [Generations -> Nat]
  BY DEF Init
<1>4. pc \in [Callers -> {"idle", "resetting", "launching",
                          "waiting", "clearing", "zeroing"}]
  BY DEF Init
<1>5. mine \in [Callers -> Generations \cup {None}]
  BY DEF Init
<1>6. StartsHaveContext
  BY DEF Init, StartsHaveContext
<1> QED
  BY <1>0, <1>1, <1>2, <1>3, <1>4, <1>5, <1>6 DEF Typed, TypeOK

\* A call of Start keeps the types: the first stream and the goroutines go to the
\* context its caller made.
LEMMA StartTyped ==
    ASSUME Typed, NEW c \in Callers, StartCall(c) \/ Starting(c)
    PROVE  Typed'
<1>1. CASE StartCall(c)
  <2>1. PICK g \in Generations :
          /\ cancel' = g
          /\ cancelled' = cancelled \ {g}
          /\ mine' = [mine EXCEPT ![c] = g]
    BY <1>1 DEF StartCall
  <2> QED
    BY <1>1, <2>1 DEF Typed, TypeOK, StartsHaveContext, StartCall, goroutines
<1>2. CASE StartReset(c)
  BY <1>2 DEF Typed, TypeOK, StartsHaveContext, StartReset
<1>3. CASE StartLaunch(c)
  <2>1. mine[c] \in Generations
    BY <1>3 DEF Typed, StartsHaveContext, StartLaunch
  <2>2. PICK n \in Concurrencies : launching' = [launching EXCEPT ![mine[c]] = n - 1]
    BY <1>3 DEF StartLaunch
  <2>3. n - 1 \in Nat
    BY ConcurrencyAssumption
  <2> QED
    BY <1>3, <2>1, <2>2, <2>3 DEF Typed, TypeOK, StartsHaveContext, StartLaunch
<1> QED
  BY <1>1, <1>2, <1>3 DEF Starting

\* A call of Stop keeps the types.
LEMMA StopTyped ==
    ASSUME Typed, NEW c \in Callers, StopCall(c) \/ Stopping(c)
    PROVE  Typed'
<1>1. CASE StopCall(c)
  BY <1>1 DEF Typed, TypeOK, StartsHaveContext, StopCall, goroutines
<1>2. CASE StopClear(c)
  BY <1>2 DEF Typed, TypeOK, StartsHaveContext, StopClear, goroutines
<1>3. CASE StopZero(c)
  BY <1>3 DEF Typed, TypeOK, StartsHaveContext, StopZero
<1> QED
  BY <1>1, <1>2, <1>3 DEF Stopping

\* Releasing the waiters leaves every caller at a step of Start or Stop.
LEMMA ReleaseTyped ==
    ASSUME Typed, ReleaseWaiters, UNCHANGED mine
    PROVE  /\ pc' \in [Callers -> {"idle", "resetting", "launching",
                                   "waiting", "clearing", "zeroing"}]
           /\ StartsHaveContext'
  BY DEF Typed, TypeOK, StartsHaveContext, ReleaseWaiters

\* A step of a goroutine keeps the types.
LEMMA GoroutineTyped ==
    ASSUME Typed, NEW g \in Generations,
           LaunchNext(g) \/ AutoAdjust(g) \/ Leaving(g)
    PROVE  Typed'
<1>1. CASE LaunchNext(g)
  BY <1>1 DEF Typed, TypeOK, StartsHaveContext, LaunchNext
<1>2. CASE AutoAdjust(g)
  BY <1>2 DEF Typed, TypeOK, StartsHaveContext, AutoAdjust
<1>3. CASE AbandonLaunch(g)
  BY <1>3, ReleaseTyped DEF Typed, TypeOK, AbandonLaunch
<1>4. CASE StreamExit(g)
  BY <1>4, ReleaseTyped DEF Typed, TypeOK, StreamExit
<1>5. CASE AutoAdjustExit(g)
  BY <1>5, ReleaseTyped DEF Typed, TypeOK, AutoAdjustExit
<1> QED
  BY <1>1, <1>2, <1>3, <1>4, <1>5 DEF Leaving

LEMMA NextTyped == Typed /\ [Next]_vars => Typed'
<1> SUFFICES ASSUME Typed, [Next]_vars PROVE Typed'
  OBVIOUS
<1>1. CASE UNCHANGED vars
  BY <1>1 DEF Typed, TypeOK, StartsHaveContext, vars, goroutines
<1> QED
  BY <1>1, StartTyped, StopTyped, GoroutineTyped DEF Next

\* The engine's variables keep their types, however many threads call Start and
\* Stop at whatever moments: no stream leaves e.wg twice.
THEOREM TypeCorrect == Spec => []TypeOK
<1>1. Typed => TypeOK
  BY DEF Typed
<1> QED
  BY <1>1, InitTyped, NextTyped, PTL DEF Spec

-----------------------------------------------------------------------------
(* Calls that take turns *)

OneCall ==
    \A c, d \in Callers : pc[c] # "idle" /\ pc[d] # "idle" => c = d

\* A Start finds the engine quiet, and nobody cancels its context before it ends.
StartsOnQuiet ==
    \A c \in Callers : pc[c] \in {"resetting", "launching"} =>
        Quiet /\ mine[c] = cancel /\ cancel \notin cancelled

LaunchesRunning == \A c \in Callers : pc[c] = "launching" => running

WaitsOnlyForCancelled ==
    \A c \in Callers, g \in Generations :
        pc[c] = "waiting" /\ Live(g) => g \in cancelled

EndsQuiet ==
    \A c \in Callers :
        /\ pc[c] \in {"clearing", "zeroing"} => Quiet
        /\ pc[c] = "zeroing" => ~running

\* Between calls the engine is stopped and quiet, or it runs: then autoAdjust lives,
\* and whatever lives belongs to the context e.cancel cancels.
AtRest ==
    NoCallUnderWay =>
        \/ ~running /\ Quiet
        \/ /\ running
           /\ cancel \in adjusting \ cancelled
           /\ \A g \in Generations : Live(g) => g = cancel

IInv ==
    /\ Typed
    /\ OneCall
    /\ StartsOnQuiet
    /\ LaunchesRunning
    /\ WaitsOnlyForCancelled
    /\ EndsQuiet
    /\ AtRest

LEMMA InitEstablishes == Init => IInv
<1> SUFFICES ASSUME Init PROVE IInv
  OBVIOUS
<1>1. Quiet
  BY DEF Init, Quiet, Live
<1>2. \A c \in Callers : pc[c] = "idle"
  BY DEF Init
<1>3. ~running
  BY Zenon DEF Init
<1> QED
  BY <1>1, <1>2, <1>3, InitTyped DEF IInv, OneCall, StartsOnQuiet, LaunchesRunning,
     WaitsOnlyForCancelled, EndsQuiet, AtRest

\* Calls change no goroutine until Start launches.
LEMMA SameGoroutines ==
    ASSUME UNCHANGED <<launching, streams, adjusting>>
    PROVE  /\ \A h \in Generations : Live(h)' <=> Live(h)
           /\ Quiet' <=> Quiet
  BY DEF Live, Quiet

\* A Start begins on a stopped engine, so on a quiet one.
LEMMA StartCallPreserves ==
    ASSUME IInv, Typed', NoCallUnderWay, ~running, NEW c \in Callers, StartCall(c)
    PROVE  IInv'
<1>1. Quiet /\ Quiet'
  BY SameGoroutines DEF IInv, AtRest, StartCall, goroutines
<1>2. \A d \in Callers : pc'[d] = IF d = c THEN "resetting" ELSE "idle"
  BY DEF IInv, Typed, TypeOK, NoCallUnderWay, StartCall
<1>3. mine'[c] = cancel' /\ cancel' \notin cancelled'
  BY DEF IInv, Typed, TypeOK, StartCall
<1> QED
  BY <1>1, <1>2, <1>3 DEF IInv, OneCall, StartsOnQuiet, LaunchesRunning,
     WaitsOnlyForCancelled, EndsQuiet, AtRest, NoCallUnderWay

\* The sole call under way is c's: all other callers are idle.
LEMMA OthersIdle ==
    ASSUME IInv, NEW c \in Callers, pc[c] # "idle", NEW step, pc' = [pc EXCEPT ![c] = step]
    PROVE  \A d \in Callers : pc'[d] = IF d = c THEN step ELSE "idle"
  BY DEF IInv, Typed, TypeOK, OneCall

LEMMA StartResetPreserves ==
    ASSUME IInv, Typed', NEW c \in Callers, StartReset(c)
    PROVE  IInv'
<1> USE DEF StartReset
<1>1. \A d \in Callers : pc'[d] = IF d = c THEN "launching" ELSE "idle"
  BY OthersIdle
<1>2. Quiet' /\ mine'[c] = cancel' /\ cancel' \notin cancelled'
  BY SameGoroutines DEF IInv, StartsOnQuiet
<1>3. running'
  OBVIOUS
<1> QED
  BY <1>1, <1>2, <1>3 DEF IInv, OneCall, StartsOnQuiet, LaunchesRunning,
     WaitsOnlyForCancelled, EndsQuiet, AtRest, NoCallUnderWay

\* Start launches into the engine's context, and nothing else lives.
LEMMA StartLaunchPreserves ==
    ASSUME IInv, Typed', NEW c \in Callers, StartLaunch(c)
    PROVE  IInv'
<1> USE DEF StartLaunch
<1>1. \A d \in Callers : pc'[d] = "idle"
  BY OthersIdle
<1>2. Quiet /\ mine[c] = cancel /\ cancel \notin cancelled
  BY DEF IInv, StartsOnQuiet
<1>3. \A h \in Generations : Live(h)' => h = cancel
  BY <1>2 DEF IInv, Typed, TypeOK, Quiet, Live
<1>4. running' /\ cancel' \in adjusting' \ cancelled'
  BY <1>2 DEF IInv, LaunchesRunning
<1> QED
  BY <1>1, <1>3, <1>4 DEF IInv, OneCall, StartsOnQuiet, LaunchesRunning,
     WaitsOnlyForCancelled, EndsQuiet, AtRest, NoCallUnderWay

\* A Stop cancels all that lives, or finds the engine quiet.
LEMMA StopCallPreserves ==
    ASSUME IInv, Typed', NoCallUnderWay, NEW c \in Callers, StopCall(c)
    PROVE  IInv'
<1> USE DEF StopCall, goroutines
<1>1. \A d \in Callers :
        pc'[d] = IF d # c THEN "idle" ELSE IF Quiet THEN "clearing" ELSE "waiting"
  BY DEF IInv, Typed, TypeOK, NoCallUnderWay
<1>2. \A h \in Generations : Live(h)' => h \in cancelled'
  BY SameGoroutines DEF IInv, AtRest, Quiet
<1>3. Quiet' <=> Quiet
  BY SameGoroutines
<1> QED
  BY <1>1, <1>2, <1>3 DEF IInv, OneCall, StartsOnQuiet, LaunchesRunning,
     WaitsOnlyForCancelled, EndsQuiet, AtRest, NoCallUnderWay

LEMMA StoppingPreserves ==
    ASSUME IInv, Typed', NEW c \in Callers, Stopping(c)
    PROVE  IInv'
<1>1. CASE StopClear(c)
  <2>1. \A d \in Callers : pc'[d] = IF d = c THEN "zeroing" ELSE "idle"
    BY <1>1, OthersIdle DEF StopClear
  <2>2. Quiet' /\ ~running'
    BY <1>1, SameGoroutines DEF IInv, EndsQuiet, StopClear, goroutines
  <2> QED
    BY <2>1, <2>2 DEF IInv, OneCall, StartsOnQuiet, LaunchesRunning,
       WaitsOnlyForCancelled, EndsQuiet, AtRest, NoCallUnderWay
<1>2. CASE StopZero(c)
  <2>1. \A d \in Callers : pc'[d] = "idle"
    BY <1>2, OthersIdle DEF StopZero
  <2>2. Quiet' /\ ~running'
    BY <1>2, SameGoroutines DEF IInv, EndsQuiet, StopZero
  <2> QED
    BY <2>1, <2>2 DEF IInv, OneCall, StartsOnQuiet, LaunchesRunning,
       WaitsOnlyForCancelled, EndsQuiet, AtRest, NoCallUnderWay
<1> QED
  BY <1>1, <1>2 DEF Stopping

\* A step of a goroutine brings no generation to life, keeps autoAdjust alive in a
\* generation that is not cancelled, and at most releases waiters.
LEMMA GoroutineStep ==
    ASSUME TypeOK, NEW g \in Generations,
           LaunchNext(g) \/ AutoAdjust(g) \/ Leaving(g)
    PROVE  /\ UNCHANGED <<running, cancel, cancelled, mine>>
           /\ \A h \in Generations : Live(h)' => Live(h)
           /\ \A h \in Generations : Live(h) /\ h \notin cancelled => Live(h)'
           /\ adjusting \ cancelled \subseteq adjusting'
           /\ UNCHANGED pc \/ ReleaseWaiters
<1>1. CASE LaunchNext(g)
  BY <1>1 DEF LaunchNext, Live, TypeOK
<1>2. CASE AutoAdjust(g)
  BY <1>2 DEF AutoAdjust, Live, TypeOK
<1>3. CASE AbandonLaunch(g)
  BY <1>3 DEF AbandonLaunch, Live, TypeOK
<1>4. CASE StreamExit(g)
  BY <1>4 DEF StreamExit, Live, TypeOK
<1>5. CASE AutoAdjustExit(g)
  BY <1>5 DEF AutoAdjustExit, Live, TypeOK
<1> QED
  BY <1>1, <1>2, <1>3, <1>4, <1>5 DEF Leaving

LEMMA GoroutinesPreserve ==
    ASSUME IInv, Typed',
           UNCHANGED <<running, cancel, cancelled, mine>>,
           \A h \in Generations : Live(h)' => Live(h),
           adjusting \ cancelled \subseteq adjusting',
           UNCHANGED pc \/ ReleaseWaiters
    PROVE  IInv'
<1>1. Quiet => Quiet'
  BY DEF Quiet
<1>2. \A c \in Callers : \/ pc'[c] = pc[c]
                         \/ pc[c] = "waiting" /\ pc'[c] = "clearing" /\ Quiet'
  BY DEF ReleaseWaiters
<1>3. \A c \in Callers : pc'[c] = "idle" <=> pc[c] = "idle"
  BY <1>2
<1>4. OneCall' /\ LaunchesRunning'
  BY <1>2, <1>3 DEF IInv, OneCall, LaunchesRunning
<1>5. StartsOnQuiet' /\ WaitsOnlyForCancelled'
  BY <1>1, <1>2 DEF IInv, StartsOnQuiet, WaitsOnlyForCancelled
<1>6. EndsQuiet'
  BY <1>1, <1>2 DEF IInv, EndsQuiet
<1>7. AtRest'
  BY <1>1, <1>3 DEF IInv, AtRest, NoCallUnderWay
<1> QED
  BY <1>4, <1>5, <1>6, <1>7 DEF IInv

LEMMA NextPreserves == Serial /\ IInv /\ [Next]_vars => IInv'
<1> SUFFICES ASSUME Serial, IInv, [Next]_vars PROVE IInv'
  OBVIOUS
<1>t. Typed'
  BY NextTyped DEF IInv
<1>1. ASSUME NoCallUnderWay, ~running, NEW c \in Callers, StartCall(c) PROVE IInv'
  BY <1>t, <1>1, StartCallPreserves
<1>2. ASSUME NEW c \in Callers, Starting(c) PROVE IInv'
  BY <1>t, <1>2, StartResetPreserves, StartLaunchPreserves DEF Starting
<1>3. ASSUME NoCallUnderWay, NEW c \in Callers, StopCall(c) PROVE IInv'
  BY <1>t, <1>3, StopCallPreserves
<1>4. ASSUME NEW c \in Callers, Stopping(c) PROVE IInv'
  BY <1>t, <1>4, StoppingPreserves
<1>5. ASSUME NEW g \in Generations, LaunchNext(g) \/ AutoAdjust(g) \/ Leaving(g)
      PROVE  IInv'
  BY <1>t, <1>5, GoroutineStep, GoroutinesPreserve DEF IInv, Typed
<1>6. CASE UNCHANGED vars
  <2>1. \A h \in Generations : Live(h)' => Live(h)
    BY <1>6 DEF vars, goroutines, Live
  <2> QED
    BY <1>t, <1>6, <2>1, GoroutinesPreserve DEF vars, goroutines
<1> QED
  BY <1>1, <1>2, <1>3, <1>4, <1>5, <1>6 DEF Next

\* As long as calls take turns and Start is called on a stopped engine, the invariant
\* holds, whatever the goroutines do in between.
THEOREM TurnsAreSafe == Serial /\ Spec => []IInv
<1>1. CASE Serial
  <2>1. IInv /\ [Next]_vars => IInv'
    BY <1>1, NextPreserves
  <2> QED
    BY <2>1, InitEstablishes, PTL DEF Spec
<1> QED
  BY <1>1

-----------------------------------------------------------------------------
(* What follows *)

\* In whatever call the engine is, what lives uncancelled is e.cancel's.
LEMMA ReachesAll == IInv => NoOrphans
<1> SUFFICES ASSUME IInv, NEW g \in Generations, Live(g), g \notin cancelled
             PROVE  g = cancel
  BY DEF NoOrphans
<1>1. CASE NoCallUnderWay
  BY <1>1 DEF IInv, AtRest, Quiet
<1>2. CASE ~NoCallUnderWay
  <2>1. PICK c \in Callers : pc[c] # "idle"
    BY <1>2 DEF NoCallUnderWay
  <2>2. ~Quiet
    BY DEF Quiet
  <2> QED
    BY <2>1, <2>2 DEF IInv, Typed, TypeOK, StartsOnQuiet, WaitsOnlyForCancelled, EndsQuiet
<1> QED
  BY <1>1, <1>2

\* No live goroutine whose context is not done belongs to an older context.
THEOREM NoOrphansHolds == Serial /\ Spec => []NoOrphans
  BY ReachesAll, TurnsAreSafe, PTL

\* Between calls, running tells whether goroutines live.
THEOREM RunningIsTruthfulHolds == Serial /\ Spec => []RunningIsTruthful
<1>1. IInv => RunningIsTruthful
  <2> SUFFICES ASSUME IInv, NoCallUnderWay PROVE running <=> ~Quiet
    BY DEF RunningIsTruthful
  <2>1. running => Live(cancel) /\ cancel \in Generations
    BY DEF IInv, AtRest, Live, Typed, TypeOK
  <2>2. ~running => Quiet
    BY DEF IInv, AtRest
  <2> QED
    BY <2>1, <2>2 DEF Quiet
<1> QED
  BY <1>1, TurnsAreSafe, PTL

-----------------------------------------------------------------------------
(* The safety of the contract *)

\* What no goroutine gains or loses by, and no cancellation that matters, is a stutter.
LEMMA SamePhase ==
    ASSUME UNCHANGED <<launching, streams, adjusting>>,
           \A h \in Generations : Live(h) => (h \in cancelled' <=> h \in cancelled)
    PROVE  Phase' = Phase
<1>1. Quiet' <=> Quiet
  BY SameGoroutines
<1>2. Serving' <=> Serving
  BY SameGoroutines DEF Serving
<1> QED
  BY <1>1, <1>2 DEF Phase

LEMMA StartTurnsOn ==
    ASSUME IInv, NEW c \in Callers, StartLaunch(c)
    PROVE  Contract!TurnOn
<1>1. Quiet /\ mine[c] = cancel /\ cancel \notin cancelled /\ cancel \in Generations
  BY DEF IInv, StartsOnQuiet, Typed, StartsHaveContext, StartLaunch
<1>2. cancel \in adjusting' /\ cancel \notin cancelled'
  BY <1>1 DEF StartLaunch
<1>3. Serving'
  BY <1>1, <1>2 DEF Serving, Live, StartLaunch
<1>4. ~Quiet'
  BY <1>3 DEF Serving, Quiet
<1> QED
  BY <1>1, <1>3, <1>4 DEF Phase, Contract!TurnOn

LEMMA StopCancelsAll ==
    ASSUME IInv, NEW c \in Callers, StopCall(c)
    PROVE  Contract!Cancel \/ Phase' = Phase
<1> USE DEF StopCall, goroutines
<1>1. Quiet' <=> Quiet
  BY SameGoroutines
<1>2. ~Serving'
  BY ReachesAll, SameGoroutines DEF NoOrphans, Serving
<1> QED
  BY <1>1, <1>2 DEF Phase, Contract!Cancel

LEMMA GoroutinesDrain ==
    ASSUME TypeOK, NEW g \in Generations,
           LaunchNext(g) \/ AutoAdjust(g) \/ Leaving(g)
    PROVE  Contract!Drained \/ Phase' = Phase
<1>1. Serving' <=> Serving
  BY GoroutineStep DEF Serving
<1>2. Quiet => Quiet'
  BY GoroutineStep DEF Quiet
<1>3. Serving' => ~Quiet'
  BY DEF Serving, Quiet
<1> QED
  BY <1>1, <1>2, <1>3 DEF Phase, Contract!Drained

\* A Start has made its context, but nothing of it lives yet.
LEMMA StartCallStutters ==
    ASSUME IInv, NEW c \in Callers, StartCall(c)
    PROVE  Phase' = Phase
<1>1. \A h \in Generations : Live(h) => (h \in cancelled' <=> h \in cancelled)
  BY DEF StartCall, Fresh
<1> QED
  BY <1>1, SamePhase DEF StartCall, goroutines

LEMMA StepKeepsContract == IInv /\ [Next]_vars => [Contract!Next]_Phase
<1> SUFFICES ASSUME IInv, [Next]_vars PROVE Contract!Next \/ Phase' = Phase
  OBVIOUS
<1>1. ASSUME NEW c \in Callers, StartCall(c) PROVE Phase' = Phase
  BY <1>1, StartCallStutters
<1>2. ASSUME NEW c \in Callers, StartReset(c) \/ StopClear(c) \/ StopZero(c)
      PROVE  Phase' = Phase
  BY <1>2, SamePhase DEF StartReset, StopClear, StopZero, goroutines
<1>3. ASSUME NEW c \in Callers, StartLaunch(c) PROVE Contract!Next
  BY <1>3, StartTurnsOn DEF Contract!Next
<1>4. ASSUME NEW c \in Callers, StopCall(c) PROVE Contract!Next \/ Phase' = Phase
  BY <1>4, StopCancelsAll DEF Contract!Next
<1>5. ASSUME NEW g \in Generations, LaunchNext(g) \/ AutoAdjust(g) \/ Leaving(g)
      PROVE  Contract!Next \/ Phase' = Phase
  BY <1>5, GoroutinesDrain DEF IInv, Typed, Contract!Next
<1>6. CASE UNCHANGED vars
  BY <1>6, SamePhase DEF vars, goroutines
<1> QED
  BY <1>1, <1>2, <1>3, <1>4, <1>5, <1>6 DEF Next, Starting, Stopping

\* As long as calls take turns the unguarded engine keeps the safety part of the
\* contract: it is switched on only when nothing of the run before is left, and a
\* Stop cancels all of its goroutines at once.
THEOREM ContractKept == Serial /\ Spec => KeepsContract
<1>1. Init => Contract!Init
  <2> SUFFICES ASSUME Init PROVE Quiet
    BY DEF Contract!Init, Phase
  <2> QED
    BY DEF Init, Quiet, Live
<1>2. IInv /\ [Next]_vars => [Contract!Next]_Phase
  BY StepKeepsContract
<1> QED
  BY <1>1, <1>2, TurnsAreSafe, PTL DEF Spec, KeepsContract, Contract!Safety
=============================================================================
