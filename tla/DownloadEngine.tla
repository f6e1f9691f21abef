--------------------------- MODULE DownloadEngine ---------------------------
(***************************************************************************)
(* The life cycle of download.Engine: Start, Stop and the goroutines they  *)
(* govern.  Every Start that takes effect makes a context and a generation *)
(* of goroutines bound to it: the streams (downloadLoop), the goroutine    *)
(* that staggers the launch of the remaining streams, and autoAdjust.      *)
(*                                                                         *)
(* Start holds e.mu throughout and is one step.  Stop only reads e.cancel  *)
(* under e.mu: the cancellation, the wait and the two final stores are     *)
(* separate steps, and any Start or other Stop may fall between them.      *)
(*                                                                         *)
(* e.wg is not a variable: its count is the number of live goroutines, and *)
(* a waiting Stop is released by the goroutine that brings it to zero.     *)
(***************************************************************************)
EXTENDS Integers, FiniteSetsExt, Functions

CONSTANTS
    Stoppers,        \* the threads that call Stop; any thread may call Start
    Generations,     \* identities of contexts; one is reused when nothing refers to it
    None,            \* the nil cancel function
    Concurrencies,   \* the values SetConcurrency may have left for a Start
    MaxConcurrency,  \* e.maxConcurrency
    Throughput,      \* measured rates autoAdjust may see, in percent of the target
    StopsIdle,       \* whether Stop may be called on an engine that is not running
    Overlap          \* whether Start may be called while a Stop is under way

ASSUME GenerationsAssumption == None \notin Generations
ASSUME ConcurrencyAssumption ==
    /\ Concurrencies \subseteq Nat \ {0}
    /\ MaxConcurrency \in Nat
ASSUME ThroughputAssumption == Throughput \subseteq Nat
ASSUME UseAssumption == StopsIdle \in BOOLEAN /\ Overlap \in BOOLEAN

VARIABLES
    running,    \* e.running
    cancel,     \* the generation e.cancel cancels, or None
    active,     \* e.activeStreams
    cancelled,  \* the generations whose context is done
    launching,  \* per generation, the streams its stagger goroutine has yet to launch
    streams,    \* per generation, its live streams
    adjusting,  \* the generations whose autoAdjust goroutine lives
    pc,         \* where each stopper is in Stop
    held        \* the cancel function each stopper read

goroutines == <<active, launching, streams, adjusting>>
vars == <<running, cancel, cancelled, goroutines, pc, held>>

\* The generation has a goroutine that e.wg counts.
Live(g) == streams[g] > 0 \/ launching[g] > 0 \/ g \in adjusting

\* e.wg is zero.
Quiet == \A g \in Generations : ~Live(g)

\* No variable refers to the identity any more: a new context may have it.
Fresh(g) == ~Live(g) /\ g # cancel /\ \A s \in Stoppers : held[s] # g

TypeOK ==
    /\ running \in BOOLEAN
    /\ cancel \in Generations \cup {None}
    /\ active \in Int
    /\ cancelled \subseteq Generations
    /\ launching \in [Generations -> Nat]
    /\ streams \in [Generations -> Nat]
    /\ adjusting \subseteq Generations
    /\ pc \in [Stoppers -> {"idle", "cancelling", "waiting", "clearing", "zeroing"}]
    /\ held \in [Stoppers -> Generations \cup {None}]

Init ==
    /\ running = FALSE
    /\ cancel = None
    /\ active = 0
    /\ cancelled = {}
    /\ launching = [g \in Generations |-> 0]
    /\ streams = [g \in Generations |-> 0]
    /\ adjusting = {}
    /\ pc = [s \in Stoppers |-> "idle"]
    /\ held = [s \in Stoppers |-> None]

-----------------------------------------------------------------------------
(* Mutated forms: slips a change to the code might make.  No behaviour of Spec
   takes them; each is known to break one of the properties below. *)

\* Start keeps the first cancel function.
LaunchGeneration_keepsCancel(g, n) ==
    /\ cancel' = IF cancel = None THEN g ELSE cancel
    /\ cancelled' = cancelled \ {g}
    /\ running' = TRUE
    /\ active' = 1
    /\ streams' = [streams EXCEPT ![g] = 1]
    /\ launching' = [launching EXCEPT ![g] = n - 1]
    /\ adjusting' = adjusting \cup {g}

\* Stop does not wait.
StopCancel_noWait(s) ==
    /\ pc[s] = "cancelling"
    /\ cancelled' = cancelled \cup ({held[s]} \cap Generations)
    /\ pc' = [pc EXCEPT ![s] = "clearing"]
    /\ UNCHANGED <<running, cancel, goroutines, held>>

\* Stop does not cancel.
StopCancel_noCancel(s) ==
    /\ pc[s] = "cancelling"
    /\ pc' = [pc EXCEPT ![s] = IF Quiet THEN "clearing" ELSE "waiting"]
    /\ UNCHANGED <<running, cancel, cancelled, goroutines, held>>

\* autoAdjust adds what it wants, whatever room is left.
AutoAdjust_uncapped(g) ==
    \E pct \in Throughput :
        LET toAdd == ((100 - pct) * 4) \div 100 + 1
        IN  /\ g \in adjusting
            /\ launching[g] = 0
            /\ pct < 80
            /\ active < MaxConcurrency
            /\ streams' = [streams EXCEPT ![g] = @ + toAdd]
            /\ active' = active + toAdd
            /\ UNCHANGED <<running, cancel, cancelled, launching, adjusting, pc, held>>

-----------------------------------------------------------------------------
(* Start *)

\* The body of Start: a new context, the counters, the first stream, and the
\* stagger and autoAdjust goroutines.
LaunchGeneration(g, n) ==
    /\ cancel' = g
    /\ cancelled' = cancelled \ {g}
    /\ running' = TRUE
    /\ active' = 1
    /\ streams' = [streams EXCEPT ![g] = 1]
    /\ launching' = [launching EXCEPT ![g] = n - 1]
    /\ adjusting' = adjusting \cup {g}

\* A Start that takes effect; on a running engine Start changes nothing.
Start ==
    /\ ~running
    /\ \E g \in Generations, n \in Concurrencies : Fresh(g) /\ LaunchGeneration(g, n)
    /\ UNCHANGED <<pc, held>>

-----------------------------------------------------------------------------
(* Stop *)

StopCall(s) ==
    /\ pc[s] = "idle"
    /\ held' = [held EXCEPT ![s] = cancel]
    /\ pc' = [pc EXCEPT ![s] = "cancelling"]
    /\ UNCHANGED <<running, cancel, cancelled, goroutines>>

\* cancel() if there is one; wg.Wait returns at once if nothing lives.
StopCancel(s) ==
    /\ pc[s] = "cancelling"
    /\ cancelled' = cancelled \cup ({held[s]} \cap Generations)
    /\ pc' = [pc EXCEPT ![s] = IF Quiet THEN "clearing" ELSE "waiting"]
    /\ UNCHANGED <<running, cancel, goroutines, held>>

StopClear(s) ==
    /\ pc[s] = "clearing"
    /\ running' = FALSE
    /\ pc' = [pc EXCEPT ![s] = "zeroing"]
    /\ UNCHANGED <<cancel, cancelled, goroutines, held>>

StopZero(s) ==
    /\ pc[s] = "zeroing"
    /\ active' = 0
    /\ held' = [held EXCEPT ![s] = None]
    /\ pc' = [pc EXCEPT ![s] = "idle"]
    /\ UNCHANGED <<running, cancel, cancelled, launching, streams, adjusting>>

-----------------------------------------------------------------------------
(* Goroutines *)

\* wg.Done: the goroutine that brings the count to zero releases the waiters.
ReleaseWaiters ==
    pc' = [s \in Stoppers |->
             IF pc[s] = "waiting" /\ Quiet' THEN "clearing" ELSE pc[s]]

\* The stagger goroutine's select takes the timer, even if the context is done too.
LaunchNext(g) ==
    /\ launching[g] > 0
    /\ launching' = [launching EXCEPT ![g] = @ - 1]
    /\ streams' = [streams EXCEPT ![g] = @ + 1]
    /\ active' = active + 1
    /\ UNCHANGED <<running, cancel, cancelled, adjusting, pc, held>>

AbandonLaunch(g) ==
    /\ launching[g] > 0 /\ g \in cancelled
    /\ launching' = [launching EXCEPT ![g] = 0]
    /\ UNCHANGED <<running, cancel, cancelled, active, streams, adjusting, held>>
    /\ ReleaseWaiters

\* downloadLoop returns only when its context is done.
StreamExit(g) ==
    /\ streams[g] > 0 /\ g \in cancelled
    /\ streams' = [streams EXCEPT ![g] = @ - 1]
    /\ active' = active - 1
    /\ UNCHANGED <<running, cancel, cancelled, launching, adjusting, held>>
    /\ ReleaseWaiters

\* A tick of autoAdjust below 80% of the target.  The first tick comes 10 s after
\* Start, when the stagger goroutine (50 ms a stream) has launched its streams.
AutoAdjust(g) ==
    \E pct \in Throughput :
        LET wanted == ((100 - pct) * 4) \div 100 + 1
            room   == MaxConcurrency - active
            toAdd  == IF wanted > room THEN room ELSE wanted
        IN  /\ g \in adjusting
            /\ launching[g] = 0
            /\ pct < 80
            /\ active < MaxConcurrency
            /\ streams' = [streams EXCEPT ![g] = @ + toAdd]
            /\ active' = active + toAdd
            /\ UNCHANGED <<running, cancel, cancelled, launching, adjusting, pc, held>>

AutoAdjustExit(g) ==
    /\ g \in adjusting \cap cancelled
    /\ adjusting' = adjusting \ {g}
    /\ UNCHANGED <<running, cancel, cancelled, active, launching, streams, held>>
    /\ ReleaseWaiters

-----------------------------------------------------------------------------
Stopping(s) == StopCancel(s) \/ StopClear(s) \/ StopZero(s)

Leaving(g) == AbandonLaunch(g) \/ StreamExit(g) \/ AutoAdjustExit(g)

NoStopUnderWay == \A s \in Stoppers : pc[s] = "idle"

Next ==
    \/ (Overlap \/ NoStopUnderWay) /\ Start
    \/ (StopsIdle \/ running) /\ \E s \in Stoppers : StopCall(s)
    \/ \E s \in Stoppers : Stopping(s)
    \/ \E g \in Generations : LaunchNext(g) \/ AutoAdjust(g) \/ Leaving(g)

\* A caller inside Stop runs on, and a goroutine whose context is done returns:
\* requests, limiter waits and sleeps all end with the context.
Fairness ==
    /\ \A s \in Stoppers : WF_vars(Stopping(s))
    /\ \A g \in Generations :
        /\ WF_vars(AbandonLaunch(g))
        /\ WF_vars(StreamExit(g))
        /\ WF_vars(AutoAdjustExit(g))

Spec == Init /\ [][Next]_vars /\ Fairness

-----------------------------------------------------------------------------
(* Properties *)

\* No orphans: a goroutine whose context is not done belongs to the context the
\* engine would cancel.  Start overwrites e.cancel, so a Start that took effect
\* beside live streams would leave them beyond the reach of any Stop.
NoOrphans ==
    \A g \in Generations : Live(g) /\ g \notin cancelled => g = cancel

\* A Stop that waits, waits only for goroutines told to leave: wg.Wait would
\* otherwise hang the request or the scheduler that called Stop.
WaitsOnlyForCancelled ==
    \A s \in Stoppers, g \in Generations :
        pc[s] = "waiting" /\ Live(g) => g \in cancelled

\* An engine that does not report running has no goroutine left: the next Start
\* finds the counters and the pool of streams clean.
StoppedIsQuiet == ~running => Quiet

\* autoAdjust never drives the stream count over the larger of the configured
\* concurrency and maxConcurrency.
StreamsCapped ==
    SumFunction(streams) <= Max(Concurrencies \cup {MaxConcurrency})

\* Some goroutine may take new work.
Serving == \E g \in Generations : Live(g) /\ g \notin cancelled

Phase == IF Quiet THEN "off" ELSE IF Serving THEN "on" ELSE "draining"

Contract == INSTANCE EngineContract WITH phase <- Phase

\* The engine keeps the contract of EngineContract: it is switched on only when it
\* is off, a Stop cancels all of it at once, and what is cancelled ends.
ImplementsContract == Contract!Spec

\* Its safety part: the engine is switched on only when nothing of the run before
\* is left, and a Stop leaves none of its workers behind.
KeepsContract == Contract!Safety

\* Every Stop returns.
StopReturns == \A s \in Stoppers : pc[s] # "idle" ~> pc[s] = "idle"
=============================================================================
