------------------------ MODULE DownloadEngine_proof ------------------------
(***************************************************************************)
(* Proofs about DownloadEngine, for all values of its constants.           *)
(*                                                                         *)
(* Type correctness needs no assumption on the callers.  The safety of     *)
(* Stop does: it is proved for one stopping thread that stops only an      *)
(* engine that runs, while Start may come at any moment.  With a second    *)
(* stopper it is false (run download_engine_two_stops).  The cap on        *)
(* streams is proved for any number of stoppers, if no Start comes while a *)
(* Stop is under way.                                                      *)
(***************************************************************************)
EXTENDS DownloadEngine, FiniteSetTheorems, Loops

-----------------------------------------------------------------------------
(* Type correctness *)

\* What autoAdjust adds is a number of streams, never a negative one.
LEMMA RoomIsPositive ==
    ASSUME NEW pct \in Nat, pct < 80, active \in Int, active < MaxConcurrency
    PROVE  LET wanted == ((100 - pct) * 4) \div 100 + 1
               room   == MaxConcurrency - active
           IN  (IF wanted > room THEN room ELSE wanted) \in Nat
<1>1. MaxConcurrency \in Nat
  BY ConcurrencyAssumption
<1>2. ((100 - pct) * 4) \div 100 \in Nat
  OBVIOUS
<1>3. MaxConcurrency - active \in Nat
  BY <1>1
<1> QED
  BY <1>2, <1>3

\* Releasing the waiters leaves every stopper at a step of Stop.
LEMMA ReleaseTyped ==
    ASSUME TypeOK, ReleaseWaiters
    PROVE  pc' \in [Stoppers -> {"idle", "cancelling", "waiting", "clearing", "zeroing"}]
  BY DEF TypeOK, ReleaseWaiters

\* A Start that takes effect keeps the types.
LEMMA StartTyped == TypeOK /\ Start => TypeOK'
<1> SUFFICES ASSUME TypeOK,
                    NEW g \in Generations, NEW n \in Concurrencies,
                    LaunchGeneration(g, n), UNCHANGED <<pc, held>>
             PROVE  TypeOK'
  BY DEF Start
<1>1. n - 1 \in Nat
  BY ConcurrencyAssumption
<1> QED
  BY <1>1 DEF TypeOK, LaunchGeneration

\* Every step keeps the types.
LEMMA NextTyped == TypeOK /\ [Next]_vars => TypeOK'
<1> SUFFICES ASSUME TypeOK, [Next]_vars PROVE TypeOK'
  OBVIOUS
<1>1. CASE Start
  BY <1>1, StartTyped
<1>2. ASSUME NEW s \in Stoppers, StopCall(s) PROVE TypeOK'
  BY <1>2 DEF TypeOK, StopCall, goroutines
<1>3. ASSUME NEW s \in Stoppers, Stopping(s) PROVE TypeOK'
  <2>1. CASE StopCancel(s)
    BY <2>1 DEF TypeOK, StopCancel, goroutines
  <2>2. CASE StopClear(s)
    BY <2>2 DEF TypeOK, StopClear, goroutines
  <2>3. CASE StopZero(s)
    BY <2>3 DEF TypeOK, StopZero
  <2> QED
    BY <1>3, <2>1, <2>2, <2>3 DEF Stopping
<1>4. ASSUME NEW g \in Generations, LaunchNext(g) PROVE TypeOK'
  BY <1>4 DEF TypeOK, LaunchNext
<1>5. ASSUME NEW g \in Generations, AutoAdjust(g) PROVE TypeOK'
  <2> DEFINE wanted(pct) == ((100 - pct) * 4) \div 100 + 1
             room        == MaxConcurrency - active
             toAdd(pct)  == IF wanted(pct) > room THEN room ELSE wanted(pct)
  <2>1. PICK pct \in Throughput :
           /\ pct < 80
           /\ active < MaxConcurrency
           /\ streams' = [streams EXCEPT ![g] = @ + toAdd(pct)]
           /\ active' = active + toAdd(pct)
           /\ UNCHANGED <<running, cancel, cancelled, launching, adjusting, pc, held>>
    BY <1>5 DEF AutoAdjust
  <2>2. toAdd(pct) \in Nat
    BY <2>1, RoomIsPositive, ThroughputAssumption DEF TypeOK
  <2> QED
    BY <2>1, <2>2 DEF TypeOK
<1>6. ASSUME NEW g \in Generations, Leaving(g) PROVE TypeOK'
  <2>1. CASE AbandonLaunch(g)
    BY <2>1, ReleaseTyped DEF TypeOK, AbandonLaunch
  <2>2. CASE StreamExit(g)
    BY <2>2, ReleaseTyped DEF TypeOK, StreamExit
  <2>3. CASE AutoAdjustExit(g)
    BY <2>3, ReleaseTyped DEF TypeOK, AutoAdjustExit
  <2> QED
    BY <1>6, <2>1, <2>2, <2>3 DEF Leaving
<1>7. CASE UNCHANGED vars
  BY <1>7 DEF TypeOK, vars, goroutines
<1> QED
  BY <1>1, <1>2, <1>3, <1>4, <1>5, <1>6, <1>7 DEF Next

LEMMA InitTyped == Init => TypeOK
<1> SUFFICES ASSUME Init PROVE TypeOK
  OBVIOUS
<1>0. running \in BOOLEAN
  BY Zenon DEF Init
<1>1. cancel \in Generations \cup {None} /\ active \in Int
  BY DEF Init
<1>2. cancelled \subseteq Generations /\ adjusting \subseteq Generations
  BY DEF Init
<1>3. launching \in [Generations -> Nat] /\ streams \in [Generations -> Nat]
  BY DEF Init
<1>4. pc \in [Stoppers -> {"idle", "cancelling", "waiting", "clearing", "zeroing"}]
  BY DEF Init
<1>5. held \in [Stoppers -> Generations \cup {None}]
  BY DEF Init
<1> QED
  BY <1>0, <1>1, <1>2, <1>3, <1>4, <1>5 DEF TypeOK

\* The engine's variables keep their types: in particular no stream leaves twice,
\* which would drive e.wg below zero and panic, whoever calls Start and Stop.
THEOREM TypeCorrect == Spec => []TypeOK
  BY InitTyped, NextTyped, PTL DEF Spec

-----------------------------------------------------------------------------
(* The safety of Stop: what makes its three invariants inductive *)

\* One thread stops the engine, and only while it runs.
SoleStopper == StopsIdle = FALSE /\ \A s, t \in Stoppers : s = t

\* Throughout a Stop the engine reports running, so no Start takes effect before
\* the flag is cleared: what the Stop read as e.cancel is still the engine's.
StopExcludesStart ==
    \A s \in Stoppers :
        pc[s] \in {"cancelling", "waiting", "clearing"} => running

\* The cancel function a Stop is about to call is the engine's.
HeldIsCurrent == \A s \in Stoppers : pc[s] = "cancelling" => held[s] = cancel

\* A Stop clears the flag only when every goroutine has left.
ClearsWhenQuiet == \A s \in Stoppers : pc[s] = "clearing" => Quiet

IInv ==
    /\ TypeOK
    /\ NoOrphans
    /\ WaitsOnlyForCancelled
    /\ StoppedIsQuiet
    /\ StopExcludesStart
    /\ HeldIsCurrent
    /\ ClearsWhenQuiet

LEMMA InitEstablishes == Init => IInv
<1> SUFFICES ASSUME Init PROVE IInv
  OBVIOUS
<1>1. Quiet
  BY DEF Init, Quiet, Live
<1>2. \A s \in Stoppers : pc[s] = "idle"
  BY DEF Init
<1> QED
  BY <1>1, <1>2, InitTyped DEF IInv, Quiet, NoOrphans, WaitsOnlyForCancelled,
     StoppedIsQuiet, StopExcludesStart, HeldIsCurrent, ClearsWhenQuiet

-----------------------------------------------------------------------------
(* Every step preserves the invariant *)

\* A Start takes effect on a quiet engine, so its generation is the only one, and
\* no Stop is between its reading of e.cancel and the clearing of the flag.
LEMMA StartPreserves == IInv /\ Start => IInv'
<1> SUFFICES ASSUME IInv, ~running,
                    NEW g \in Generations, NEW n \in Concurrencies,
                    LaunchGeneration(g, n), UNCHANGED <<pc, held>>, TypeOK'
             PROVE  IInv'
  BY StartTyped DEF Start, IInv
<1>1. \A h \in Generations : Live(h)' => h = g
  BY DEF IInv, StoppedIsQuiet, Quiet, Live, LaunchGeneration, TypeOK
<1>2. \A s \in Stoppers : pc[s] \notin {"cancelling", "waiting", "clearing"}
  BY DEF IInv, StopExcludesStart
<1>3. NoOrphans'
  BY <1>1 DEF NoOrphans, LaunchGeneration
<1>4. StoppedIsQuiet'
  BY DEF StoppedIsQuiet, LaunchGeneration
<1>5. WaitsOnlyForCancelled' /\ StopExcludesStart' /\ HeldIsCurrent' /\ ClearsWhenQuiet'
  BY <1>2 DEF WaitsOnlyForCancelled, StopExcludesStart, HeldIsCurrent, ClearsWhenQuiet
<1> QED
  BY <1>3, <1>4, <1>5 DEF IInv

\* The sole stopper reads e.cancel while the engine runs.
LEMMA StopCallPreserves ==
    ASSUME IInv, TypeOK', running, NEW s \in Stoppers, StopCall(s)
    PROVE  IInv'
<1> USE DEF StopCall, goroutines
<1>1. \A h \in Generations : Live(h)' <=> Live(h)
  BY DEF Live
<1>2. Quiet' <=> Quiet
  BY <1>1 DEF Quiet
<1>3. pc' = [pc EXCEPT ![s] = "cancelling"] /\ held' = [held EXCEPT ![s] = cancel]
  OBVIOUS
<1>4. NoOrphans' /\ StoppedIsQuiet'
  BY <1>1, <1>2 DEF IInv, NoOrphans, StoppedIsQuiet
<1>5. WaitsOnlyForCancelled' /\ ClearsWhenQuiet'
  BY <1>1, <1>2, <1>3 DEF IInv, TypeOK, WaitsOnlyForCancelled, ClearsWhenQuiet
<1>6. StopExcludesStart' /\ HeldIsCurrent'
  BY <1>3 DEF IInv, TypeOK, StopExcludesStart, HeldIsCurrent
<1> QED
  BY <1>4, <1>5, <1>6 DEF IInv

\* Cancelling the engine's context leaves no live generation uncancelled.
LEMMA StopCancelPreserves ==
    ASSUME IInv, TypeOK', SoleStopper, NEW s \in Stoppers, StopCancel(s)
    PROVE  IInv'
<1> USE DEF StopCancel, goroutines
<1>1. \A h \in Generations : Live(h)' <=> Live(h)
  BY DEF Live
<1>2. Quiet' <=> Quiet
  BY <1>1 DEF Quiet
<1>3. \A h \in Generations : Live(h) => h \in cancelled'
  BY DEF IInv, NoOrphans, HeldIsCurrent
<1>4. \A t \in Stoppers : t = s
  BY DEF SoleStopper
<1>5. pc'[s] = IF Quiet THEN "clearing" ELSE "waiting"
  BY DEF IInv, TypeOK
<1>6. NoOrphans' /\ StoppedIsQuiet' /\ WaitsOnlyForCancelled'
  BY <1>1, <1>2, <1>3 DEF IInv, NoOrphans, StoppedIsQuiet, WaitsOnlyForCancelled
<1>7. StopExcludesStart' /\ HeldIsCurrent' /\ ClearsWhenQuiet'
  BY <1>2, <1>4, <1>5 DEF IInv, StopExcludesStart, HeldIsCurrent, ClearsWhenQuiet
<1> QED
  BY <1>6, <1>7 DEF IInv

\* The flag falls on a quiet engine.
LEMMA StopClearPreserves ==
    ASSUME IInv, TypeOK', SoleStopper, NEW s \in Stoppers, StopClear(s)
    PROVE  IInv'
<1> USE DEF StopClear, goroutines
<1>1. \A h \in Generations : Live(h)' <=> Live(h)
  BY DEF Live
<1>2. Quiet /\ Quiet'
  BY <1>1 DEF IInv, ClearsWhenQuiet, Quiet
<1>3. \A t \in Stoppers : pc'[t] = "zeroing"
  BY DEF SoleStopper, IInv, TypeOK
<1> QED
  BY <1>2, <1>3 DEF IInv, Quiet, NoOrphans, StoppedIsQuiet, WaitsOnlyForCancelled,
     StopExcludesStart, HeldIsCurrent, ClearsWhenQuiet

\* Zeroing the counter touches nothing the invariant speaks of.
LEMMA StopZeroPreserves ==
    ASSUME IInv, TypeOK', SoleStopper, NEW s \in Stoppers, StopZero(s)
    PROVE  IInv'
<1> USE DEF StopZero
<1>1. \A h \in Generations : Live(h)' <=> Live(h)
  BY DEF Live
<1>2. Quiet' <=> Quiet
  BY <1>1 DEF Quiet
<1>3. \A t \in Stoppers : pc'[t] = "idle"
  BY DEF SoleStopper, IInv, TypeOK
<1> QED
  BY <1>1, <1>2, <1>3 DEF IInv, NoOrphans, StoppedIsQuiet, WaitsOnlyForCancelled,
     StopExcludesStart, HeldIsCurrent, ClearsWhenQuiet

\* Whatever the goroutines do, they bring no generation to life, and the waiters
\* they release find the engine quiet.
LEMMA GoroutinesPreserve ==
    ASSUME IInv, TypeOK',
           UNCHANGED <<running, cancel, cancelled, held>>,
           \A h \in Generations : Live(h)' => Live(h),
           UNCHANGED pc \/ ReleaseWaiters
    PROVE  IInv'
<1>1. Quiet => Quiet'
  BY DEF Quiet
<1>2. \A t \in Stoppers : \/ pc'[t] = pc[t]
                          \/ pc[t] = "waiting" /\ pc'[t] = "clearing" /\ Quiet'
  BY DEF ReleaseWaiters
<1>3. NoOrphans' /\ StoppedIsQuiet'
  BY <1>1 DEF IInv, NoOrphans, StoppedIsQuiet
<1>4. WaitsOnlyForCancelled' /\ ClearsWhenQuiet'
  BY <1>1, <1>2 DEF IInv, WaitsOnlyForCancelled, ClearsWhenQuiet
<1>5. StopExcludesStart' /\ HeldIsCurrent'
  BY <1>2 DEF IInv, StopExcludesStart, HeldIsCurrent
<1> QED
  BY <1>3, <1>4, <1>5 DEF IInv

\* A step of a goroutine is one of these.
LEMMA GoroutineStep ==
    ASSUME TypeOK, NEW g \in Generations,
           LaunchNext(g) \/ AutoAdjust(g) \/ Leaving(g)
    PROVE  /\ UNCHANGED <<running, cancel, cancelled, held>>
           /\ \A h \in Generations : Live(h)' => Live(h)
           /\ UNCHANGED pc \/ ReleaseWaiters
<1>1. CASE LaunchNext(g)
  BY <1>1 DEF LaunchNext, Live, TypeOK
<1>2. CASE AutoAdjust(g)
  BY <1>2 DEF AutoAdjust, Live, TypeOK
<1>3. CASE AbandonLaunch(g)
  BY <1>3 DEF AbandonLaunch, Live, TypeOK
<1>4. CASE StreamExit(g)
  BY <1>4 DEF StreamExit, Live, TypeOK
<1>5. CASE AutoAdjustExit(g)
  BY <1>5 DEF AutoAdjustExit, Live, TypeOK
<1> QED
  BY <1>1, <1>2, <1>3, <1>4, <1>5 DEF Leaving

LEMMA NextPreserves == SoleStopper /\ IInv /\ [Next]_vars => IInv'
<1> SUFFICES ASSUME SoleStopper, IInv, [Next]_vars PROVE IInv'
  OBVIOUS
<1>t. TypeOK'
  BY NextTyped DEF IInv
<1>1. CASE Start
  BY <1>1, StartPreserves
<1>2. ASSUME running, NEW s \in Stoppers, StopCall(s) PROVE IInv'
  BY <1>t, <1>2, StopCallPreserves
<1>3. ASSUME NEW s \in Stoppers, Stopping(s) PROVE IInv'
  BY <1>t, <1>3, StopCancelPreserves, StopClearPreserves, StopZeroPreserves DEF Stopping
<1>4. ASSUME NEW g \in Generations, LaunchNext(g) \/ AutoAdjust(g) \/ Leaving(g)
      PROVE  IInv'
  BY <1>t, <1>4, GoroutineStep, GoroutinesPreserve DEF IInv
<1>5. CASE UNCHANGED vars
  <2>1. \A h \in Generations : Live(h)' => Live(h)
    BY <1>5 DEF vars, goroutines, Live
  <2> QED
    BY <1>t, <1>5, <2>1, GoroutinesPreserve DEF vars, goroutines
<1> QED
  BY <1>1, <1>2, <1>3, <1>4, <1>5 DEF Next, SoleStopper

\* With a sole stopper, whatever goroutines and Starts interleave with a Stop: no
\* live goroutine is beyond the reach of the next Stop, a Stop waits only for
\* goroutines it cancelled, and an engine that does not report running is quiet.
THEOREM StopIsSafe == SoleStopper /\ Spec => []IInv
<1>1. CASE SoleStopper
  <2>1. IInv /\ [Next]_vars => IInv'
    BY <1>1, NextPreserves
  <2> QED
    BY <2>1, InitEstablishes, PTL DEF Spec
<1> QED
  BY <1>1

\* No live goroutine whose context is not done belongs to an older context.
THEOREM NoOrphansHolds == SoleStopper /\ Spec => []NoOrphans
<1>1. IInv => NoOrphans
  BY DEF IInv
<1> QED
  BY <1>1, StopIsSafe, PTL

\* A Stop that waits, waits only for goroutines told to leave.
THEOREM WaitsOnlyForCancelledHolds == SoleStopper /\ Spec => []WaitsOnlyForCancelled
<1>1. IInv => WaitsOnlyForCancelled
  BY DEF IInv
<1> QED
  BY <1>1, StopIsSafe, PTL

\* An engine that does not report running has no goroutine left.
THEOREM StoppedIsQuietHolds == SoleStopper /\ Spec => []StoppedIsQuiet
<1>1. IInv => StoppedIsQuiet
  BY DEF IInv
<1> QED
  BY <1>1, StopIsSafe, PTL

-----------------------------------------------------------------------------
(* The safety of the contract *)

\* What no goroutine gains or loses by, and no cancellation, is a stutter.
LEMMA SamePhase ==
    ASSUME UNCHANGED cancelled, \A h \in Generations : Live(h)' <=> Live(h)
    PROVE  Phase' = Phase
<1>1. Quiet' <=> Quiet
  BY DEF Quiet
<1>2. Serving' <=> Serving
  BY DEF Serving
<1> QED
  BY <1>1, <1>2 DEF Phase

\* A Start that takes effect finds the engine off.
LEMMA StartTurnsOn == IInv /\ Start => Contract!TurnOn
<1> SUFFICES ASSUME IInv, ~running,
                    NEW g \in Generations, NEW n \in Concurrencies,
                    LaunchGeneration(g, n)
             PROVE  Contract!TurnOn
  BY DEF Start
<1>1. Phase = "off"
  BY DEF IInv, StoppedIsQuiet, Phase
<1>2. Live(g)' /\ g \notin cancelled'
  BY DEF LaunchGeneration, Live, IInv, TypeOK
<1>3. Phase' = "on"
  BY <1>2 DEF Phase, Quiet, Serving
<1> QED
  BY <1>1, <1>3 DEF Contract!TurnOn

\* The cancellation in Stop reaches every live generation.
LEMMA CancelReachesAll ==
    ASSUME IInv, NEW s \in Stoppers, StopCancel(s)
    PROVE  Contract!Cancel \/ Phase' = Phase
<1> USE DEF StopCancel, goroutines
<1>1. \A h \in Generations : Live(h)' <=> Live(h)
  BY DEF Live
<1>2. Quiet' <=> Quiet
  BY <1>1 DEF Quiet
<1>3. ~Serving'
  BY <1>1 DEF IInv, NoOrphans, HeldIsCurrent, Serving
<1> QED
  BY <1>2, <1>3 DEF Phase, Contract!Cancel

\* A goroutine that works on keeps the phase; the last that leaves drains the engine.
LEMMA GoroutinesDrain ==
    ASSUME TypeOK, NEW g \in Generations,
           LaunchNext(g) \/ AutoAdjust(g) \/ Leaving(g)
    PROVE  Contract!Drained \/ Phase' = Phase
<1>1. \A h \in Generations : Live(h)' => Live(h)
  BY GoroutineStep
<1>2. \A h \in Generations : Live(h) /\ h \notin cancelled => Live(h)'
  <2>1. CASE LaunchNext(g)
    BY <2>1 DEF LaunchNext, Live, TypeOK
  <2>2. CASE AutoAdjust(g)
    BY <2>2 DEF AutoAdjust, Live, TypeOK
  <2>3. CASE AbandonLaunch(g)
    BY <2>3 DEF AbandonLaunch, Live, TypeOK
  <2>4. CASE StreamExit(g)
    BY <2>4 DEF StreamExit, Live, TypeOK
  <2>5. CASE AutoAdjustExit(g)
    BY <2>5 DEF AutoAdjustExit, Live, TypeOK
  <2> QED
    BY <2>1, <2>2, <2>3, <2>4, <2>5 DEF Leaving
<1>3. Serving' <=> Serving
  BY <1>1, <1>2, GoroutineStep DEF Serving
<1>4. Quiet => Quiet'
  BY <1>1 DEF Quiet
<1>5. Serving' => ~Quiet'
  BY DEF Serving, Quiet
<1> QED
  BY <1>3, <1>4, <1>5 DEF Phase, Contract!Drained

\* Every step is a step of the contract or a stutter.
LEMMA StepKeepsContract == IInv /\ [Next]_vars => [Contract!Next]_Phase
<1> SUFFICES ASSUME IInv, [Next]_vars PROVE Contract!Next \/ Phase' = Phase
  OBVIOUS
<1>1. CASE Start
  BY <1>1, StartTurnsOn DEF Contract!Next
<1>2. ASSUME NEW s \in Stoppers, StopCall(s) \/ StopClear(s) \/ StopZero(s)
      PROVE  Phase' = Phase
  BY <1>2, SamePhase DEF StopCall, StopClear, StopZero, goroutines, Live
<1>3. ASSUME NEW s \in Stoppers, StopCancel(s) PROVE Contract!Next \/ Phase' = Phase
  BY <1>3, CancelReachesAll DEF Contract!Next
<1>4. ASSUME NEW g \in Generations, LaunchNext(g) \/ AutoAdjust(g) \/ Leaving(g)
      PROVE  Contract!Next \/ Phase' = Phase
  BY <1>4, GoroutinesDrain DEF IInv, Contract!Next
<1>5. CASE UNCHANGED vars
  BY <1>5, SamePhase DEF vars, goroutines, Live
<1> QED
  BY <1>1, <1>2, <1>3, <1>4, <1>5 DEF Next, Stopping

\* With a sole stopper the engine implements the safety part of EngineContract: it
\* is switched on only when nothing of the run before is left, and a Stop cancels
\* all of its goroutines at once.
THEOREM ContractKept == SoleStopper /\ Spec => KeepsContract
<1>1. Init => Contract!Init
  <2> SUFFICES ASSUME Init PROVE Quiet
    BY DEF Contract!Init, Phase
  <2> QED
    BY DEF Init, Quiet, Live
<1>2. IInv /\ [Next]_vars => [Contract!Next]_Phase
  BY StepKeepsContract
<1> QED
  BY <1>1, <1>2, StopIsSafe, PTL DEF Spec, KeepsContract, Contract!Safety

-----------------------------------------------------------------------------
(* The cap on streams *)

\* The sum of a function that is 0 but in one place, whatever the order of adding.
LEMMA SumOfOne ==
    ASSUME NEW S, IsFiniteSet(S), NEW f \in [S -> Nat], NEW g \in S,
           \A h \in S : h # g => f[h] = 0
    PROVE  SumFunction(f) = f[g]
<1>1. SumFunctionOnSet(f, S) = f[g] + SumFunctionOnSet(f, S \ {g})
  BY SumAdds
<1>2. SumFunctionOnSet(f, S \ {g}) = 0
  <2>1. IsFiniteSet(S \ {g}) /\ \A h \in S \ {g} : f[h] = 0
    BY FS_RemoveElement
  <2> QED
    BY <2>1, SumOfZeros
<1>3. f[g] \in Nat
  OBVIOUS
<1> QED
  BY <1>1, <1>2, <1>3 DEF SumFunction

LEMMA SumOfNone ==
    ASSUME NEW f, DOMAIN f = {}
    PROVE  SumFunction(f) = 0
  BY SumOfNothing DEF SumFunction

\* No Start while a Stop is under way, as main.go calls the engine.
StartsAfterStop == Overlap = FALSE

\* The settings bound the configured concurrency, and contexts are finitely many.
Bounded ==
    /\ IsFiniteSet(Generations)
    /\ \E n \in Concurrencies : \A m \in Concurrencies : m <= n

Cap == Max(Concurrencies \cup {MaxConcurrency})

LEMMA CapIsLargest ==
    ASSUME Bounded
    PROVE  Cap \in Nat /\ MaxConcurrency <= Cap /\ \A n \in Concurrencies : n <= Cap
<1> DEFINE all == Concurrencies \cup {MaxConcurrency}
<1>1. all \subseteq Nat
  BY ConcurrencyAssumption
<1>2. PICK n \in Concurrencies : \A m \in Concurrencies : m <= n
  BY DEF Bounded
<1>3. \E x \in all : \A y \in all : x >= y
  <2>1. CASE n <= MaxConcurrency
    BY <1>1, <1>2, <2>1
  <2>2. CASE ~(n <= MaxConcurrency)
    BY <1>1, <1>2, <2>2
  <2> QED
    BY <2>1, <2>2
<1>4. Cap \in all /\ \A y \in all : Cap >= y
  BY <1>3 DEF Cap, Max
<1> QED
  BY <1>1, <1>4

\* A Stop past its wait finds the engine quiet, and it stays so until Stop returns.
EndsQuiet == \A s \in Stoppers : pc[s] \in {"clearing", "zeroing"} => Quiet

\* The goroutines of two generations never live side by side.
OneLive == \A g, h \in Generations : Live(g) /\ Live(h) => g = h

\* The counter is the number of streams of the live generation; these and the ones still
\* to be launched stay under the cap.
Counted ==
    \A g \in Generations :
        Live(g) => active = streams[g] /\ streams[g] + launching[g] <= Cap

SerialInv == TypeOK /\ StoppedIsQuiet /\ EndsQuiet /\ OneLive /\ Counted

LEMMA InitSerial == Init => SerialInv
<1> SUFFICES ASSUME Init PROVE SerialInv
  OBVIOUS
<1>1. \A g \in Generations : ~Live(g)
  BY DEF Init, Live
<1> QED
  BY <1>1, InitTyped DEF SerialInv, StoppedIsQuiet, EndsQuiet, OneLive, Counted, Quiet

\* A step that changes no stream keeps what is said of streams.
LEMMA SameStreams ==
    ASSUME SerialInv, UNCHANGED <<launching, streams, adjusting>>,
           UNCHANGED active \/ Quiet
    PROVE  /\ OneLive' /\ Counted'
           /\ Quiet' = Quiet
<1>1. \A g \in Generations : Live(g)' = Live(g)
  BY DEF Live
<1>2. Quiet' = Quiet
  BY <1>1 DEF Quiet
<1>3. OneLive'
  BY <1>1 DEF SerialInv, OneLive
<1>4. Counted'
  BY <1>1 DEF SerialInv, Counted, Quiet, Cap
<1> QED
  BY <1>2, <1>3, <1>4

LEMMA StartSerial ==
    ASSUME Bounded, SerialInv, NoStopUnderWay, Start, TypeOK'
    PROVE  SerialInv'
<1>1. PICK g \in Generations, n \in Concurrencies : LaunchGeneration(g, n)
  BY DEF Start
<1>2. n \in Nat \ {0} /\ n <= Cap /\ Cap \in Nat
  BY CapIsLargest, ConcurrencyAssumption
<1>3. ~running /\ Quiet /\ UNCHANGED pc
  BY DEF Start, SerialInv, StoppedIsQuiet
<1>4. /\ \A h \in Generations : Live(h)' => h = g
      /\ active' = 1 /\ streams'[g] = 1 /\ launching'[g] = n - 1
  BY <1>1, <1>3 DEF Quiet, Live, LaunchGeneration, SerialInv, TypeOK
<1>5. OneLive'
  BY <1>4 DEF OneLive
<1>6. Cap' = Cap
  BY DEF Cap
<1>7. Counted'
  BY <1>2, <1>4, <1>6 DEF Counted
<1>8. EndsQuiet'
  BY <1>3 DEF EndsQuiet, NoStopUnderWay
<1>9. StoppedIsQuiet'
  BY <1>1 DEF StoppedIsQuiet, LaunchGeneration
<1> QED
  BY <1>5, <1>7, <1>8, <1>9 DEF SerialInv

LEMMA StopSerial ==
    ASSUME SerialInv, TypeOK', NEW s \in Stoppers, StopCall(s) \/ Stopping(s)
    PROVE  SerialInv'
<1>1. CASE StopCall(s)
  <2>1. UNCHANGED <<running, active, launching, streams, adjusting>>
    BY <1>1 DEF StopCall, goroutines
  <2>2. OneLive' /\ Counted' /\ Quiet' = Quiet
    BY <2>1, SameStreams
  <2>3. EndsQuiet'
    BY <1>1, <2>2 DEF StopCall, EndsQuiet, SerialInv, TypeOK
  <2> QED
    BY <2>1, <2>2, <2>3 DEF SerialInv, StoppedIsQuiet
<1>2. CASE StopCancel(s)
  <2>1. UNCHANGED <<running, active, launching, streams, adjusting>>
    BY <1>2 DEF StopCancel, goroutines
  <2>2. OneLive' /\ Counted' /\ Quiet' = Quiet
    BY <2>1, SameStreams
  <2>3. EndsQuiet'
    BY <1>2, <2>2 DEF StopCancel, EndsQuiet, SerialInv, TypeOK
  <2> QED
    BY <2>1, <2>2, <2>3 DEF SerialInv, StoppedIsQuiet
<1>3. CASE StopClear(s)
  <2>1. UNCHANGED <<active, launching, streams, adjusting>> /\ Quiet
    BY <1>3 DEF StopClear, goroutines, SerialInv, EndsQuiet
  <2>2. OneLive' /\ Counted' /\ Quiet'
    BY <2>1, SameStreams
  <2> QED
    BY <2>2 DEF SerialInv, StoppedIsQuiet, EndsQuiet
<1>4. CASE StopZero(s)
  <2>1. UNCHANGED <<launching, streams, adjusting>> /\ Quiet
    BY <1>4 DEF StopZero, SerialInv, EndsQuiet
  <2>2. OneLive' /\ Counted' /\ Quiet'
    BY <2>1, SameStreams
  <2> QED
    BY <2>2 DEF SerialInv, StoppedIsQuiet, EndsQuiet
<1> QED
  BY <1>1, <1>2, <1>3, <1>4 DEF Stopping

\* What a goroutine does to the streams of its generation.
LEMMA GoroutineCounted ==
    ASSUME Bounded, SerialInv, NEW g \in Generations,
           LaunchNext(g) \/ AutoAdjust(g) \/ Leaving(g)
    PROVE  Counted'
<1> USE DEF SerialInv
<1>0. /\ \A h \in Generations : Live(h)' => h = g
      /\ Live(g) /\ active = streams[g] /\ streams[g] + launching[g] <= Cap
  <2>1. Live(g)
    BY DEF LaunchNext, AutoAdjust, Leaving, AbandonLaunch, StreamExit, AutoAdjustExit, Live
  <2>2. \A h \in Generations : Live(h)' => Live(h)
    BY GoroutineStep
  <2> QED
    BY <2>1, <2>2 DEF OneLive, Counted
<1>1. streams[g] \in Nat /\ launching[g] \in Nat /\ Cap' = Cap /\ Cap \in Nat
  BY CapIsLargest DEF TypeOK, Cap
<1> SUFFICES active' = streams'[g] /\ streams'[g] + launching'[g] <= Cap
  BY <1>0, <1>1 DEF Counted
<1>2. CASE LaunchNext(g)
  <2>1. /\ active' = active + 1 /\ streams'[g] = streams[g] + 1
        /\ launching'[g] = launching[g] - 1
    BY <1>2 DEF LaunchNext, TypeOK
  <2> QED
    BY <1>0, <1>1, <2>1
<1>3. CASE AutoAdjust(g)
  <2>1. PICK more \in Int : /\ active' = active + more /\ more <= MaxConcurrency - active
                            /\ streams' = [streams EXCEPT ![g] = @ + more]
                            /\ launching' = launching /\ launching[g] = 0
    <3> DEFINE wanted(pct) == ((100 - pct) * 4) \div 100 + 1
               room        == MaxConcurrency - active
               toAdd(pct)  == IF wanted(pct) > room THEN room ELSE wanted(pct)
    <3>1. PICK pct \in Throughput :
             /\ pct < 80
             /\ active < MaxConcurrency
             /\ streams' = [streams EXCEPT ![g] = @ + toAdd(pct)]
             /\ active' = active + toAdd(pct)
             /\ launching' = launching /\ launching[g] = 0
      BY <1>3 DEF AutoAdjust
    <3>2. toAdd(pct) \in Int /\ toAdd(pct) <= room
      BY <3>1, ThroughputAssumption, ConcurrencyAssumption DEF TypeOK
    <3> HIDE DEF toAdd
    <3> QED
      BY <3>1, <3>2
  <2>2. streams'[g] = streams[g] + more /\ launching'[g] = 0
    BY <2>1 DEF TypeOK
  <2>3. MaxConcurrency \in Nat /\ MaxConcurrency <= Cap
    BY CapIsLargest, ConcurrencyAssumption
  <2> QED
    BY <1>0, <1>1, <2>1, <2>2, <2>3
<1>4. CASE AbandonLaunch(g)
  <2>1. active' = active /\ streams' = streams /\ launching'[g] = 0
    BY <1>4 DEF AbandonLaunch, TypeOK
  <2> QED
    BY <1>0, <1>1, <2>1
<1>5. CASE StreamExit(g)
  <2>1. active' = active - 1 /\ streams'[g] = streams[g] - 1 /\ launching' = launching
    BY <1>5 DEF StreamExit, TypeOK
  <2> QED
    BY <1>0, <1>1, <2>1
<1>6. CASE AutoAdjustExit(g)
  BY <1>0, <1>6 DEF AutoAdjustExit
<1> QED
  BY <1>2, <1>3, <1>4, <1>5, <1>6 DEF Leaving

LEMMA GoroutineSerial ==
    ASSUME Bounded, SerialInv, TypeOK', NEW g \in Generations,
           LaunchNext(g) \/ AutoAdjust(g) \/ Leaving(g)
    PROVE  SerialInv'
<1>1. /\ UNCHANGED running
      /\ \A h \in Generations : Live(h)' => Live(h)
      /\ UNCHANGED pc \/ ReleaseWaiters
  BY GoroutineStep DEF SerialInv
<1>2. Quiet => Quiet'
  BY <1>1 DEF Quiet
<1>3. OneLive'
  BY <1>1 DEF OneLive, SerialInv
<1>4. \A s \in Stoppers : pc'[s] = pc[s] \/ Quiet'
  BY <1>1 DEF ReleaseWaiters
<1>5. EndsQuiet'
  BY <1>2, <1>4 DEF EndsQuiet, SerialInv
<1>6. StoppedIsQuiet'
  BY <1>1, <1>2 DEF StoppedIsQuiet, SerialInv
<1> QED
  BY <1>3, <1>5, <1>6, GoroutineCounted DEF SerialInv

LEMMA NextSerial == StartsAfterStop /\ Bounded /\ SerialInv /\ [Next]_vars => SerialInv'
<1> SUFFICES ASSUME StartsAfterStop, Bounded, SerialInv, [Next]_vars PROVE SerialInv'
  OBVIOUS
<1>t. TypeOK'
  BY NextTyped DEF SerialInv
<1>1. CASE NoStopUnderWay /\ Start
  BY <1>t, <1>1, StartSerial
<1>2. ASSUME NEW s \in Stoppers, StopCall(s) \/ Stopping(s) PROVE SerialInv'
  BY <1>t, <1>2, StopSerial
<1>3. ASSUME NEW g \in Generations, LaunchNext(g) \/ AutoAdjust(g) \/ Leaving(g)
      PROVE  SerialInv'
  BY <1>t, <1>3, GoroutineSerial
<1>4. CASE UNCHANGED vars
  <2>1. UNCHANGED <<running, active, launching, streams, adjusting, pc>>
    BY <1>4 DEF vars, goroutines
  <2>2. OneLive' /\ Counted' /\ Quiet' = Quiet
    BY <2>1, SameStreams
  <2> QED
    BY <1>t, <2>1, <2>2 DEF SerialInv, StoppedIsQuiet, EndsQuiet
<1> QED
  BY <1>1, <1>2, <1>3, <1>4 DEF Next, StartsAfterStop

\* autoAdjust never drives the stream count over the larger of the configured
\* concurrency and maxConcurrency, however many threads stop the engine, if no Start
\* falls into a Stop: otherwise Stop's last store would reset the counter of the new
\* streams, which autoAdjust trusts.
THEOREM StreamsCappedHolds == StartsAfterStop /\ Bounded /\ Spec => []StreamsCapped
<1>1. SerialInv /\ Bounded => StreamsCapped
  <2> SUFFICES ASSUME SerialInv, Bounded PROVE SumFunction(streams) <= Cap
    BY DEF StreamsCapped, Cap
  <2>0. Cap \in Nat /\ streams \in [Generations -> Nat]
    BY CapIsLargest DEF SerialInv, TypeOK
  <2>1. CASE Generations = {}
    <3>1. DOMAIN streams = {}
      BY <2>0, <2>1
    <3>2. SumFunction(streams) = 0
      BY <3>1, SumOfNone
    <3> QED
      BY <2>0, <3>2
  <2>2. CASE Generations # {}
    <3>1. PICK g \in Generations : \A h \in Generations : h # g => streams[h] = 0
      <4>1. \A h \in Generations : ~Live(h) => streams[h] = 0
        BY <2>0 DEF Live
      <4> QED
        BY <2>2, <4>1 DEF SerialInv, OneLive
    <3>2. SumFunction(streams) = streams[g]
      BY <2>0, <3>1, SumOfOne DEF Bounded
    <3>3. streams[g] <= Cap
      <4>1. CASE Live(g)
        BY <2>0, <4>1 DEF SerialInv, Counted, TypeOK
      <4>2. CASE ~Live(g)
        BY <2>0, <4>2 DEF Live
      <4> QED
        BY <4>1, <4>2
    <3> QED
      BY <3>2, <3>3
  <2> QED
    BY <2>1, <2>2
<1>2. CASE StartsAfterStop /\ Bounded
  <2>1. SerialInv /\ [Next]_vars => SerialInv'
    BY <1>2, NextSerial
  <2>2. SerialInv => StreamsCapped
    BY <1>1, <1>2
  <2> QED
    BY <2>1, <2>2, InitSerial, PTL DEF Spec
<1> QED
  BY <1>2
=============================================================================
