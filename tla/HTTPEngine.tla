----------------------------- MODULE HTTPEngine -----------------------------
(***************************************************************************)
(* The life cycle of upload.HTTPEngine.  It launches the same goroutines   *)
(* as download.Engine, with two differences: Start neither takes e.mu nor  *)
(* asks whether the engine runs, so it is a sequence of steps with effects *)
(* whenever it is called, and Stop reads e.cancel without e.mu.            *)
(*                                                                         *)
(* e.wg is the number of live goroutines, as in DownloadEngine.            *)
(***************************************************************************)
EXTENDS Integers, FiniteSetsExt, Functions

CONSTANTS
    Callers,         \* the threads that call Start and Stop
    Generations,     \* identities of contexts; one is reused when nothing refers to it
    None,            \* the nil cancel function
    Concurrencies,   \* the values SetConcurrency may have left for a Start
    MaxConcurrency,  \* e.maxConcurrency
    Serial           \* whether calls follow main.go's discipline without a race:
                     \* one at a time, and Start only on a stopped engine

ASSUME GenerationsAssumption == None \notin Generations
ASSUME ConcurrencyAssumption ==
    /\ Concurrencies \subseteq Nat \ {0}
    /\ MaxConcurrency \in Nat
ASSUME SerialAssumption == Serial \in BOOLEAN

VARIABLES
    running,    \* e.running
    cancel,     \* the generation e.cancel cancels, or None
    active,     \* e.activeStreams
    cancelled,  \* the generations whose context is done
    launching,  \* per generation, the streams its stagger goroutine has yet to launch
    streams,    \* per generation, its live streams
    adjusting,  \* the generations whose autoAdjust goroutine lives
    pc,         \* where each caller is in Start or Stop
    mine        \* the context a caller inside Start has made

goroutines == <<active, launching, streams, adjusting>>
vars == <<running, cancel, cancelled, goroutines, pc, mine>>

\* The generation has a goroutine that e.wg counts.
Live(g) == streams[g] > 0 \/ launching[g] > 0 \/ g \in adjusting

\* e.wg is zero.
Quiet == \A g \in Generations : ~Live(g)

\* No variable refers to the identity any more: a new context may have it.
Fresh(g) == ~Live(g) /\ g # cancel /\ \A c \in Callers : mine[c] # g

TypeOK ==
    /\ running \in BOOLEAN
    /\ cancel \in Generations \cup {None}
    /\ active \in Int
    /\ cancelled \subseteq Generations
    /\ launching \in [Generations -> Nat]
    /\ streams \in [Generations -> Nat]
    /\ adjusting \subseteq Generations
    /\ pc \in [Callers -> {"idle", "resetting", "launching",
                           "waiting", "clearing", "zeroing"}]
    /\ mine \in [Callers -> Generations \cup {None}]

Init ==
    /\ running = FALSE
    /\ cancel = None
    /\ active = 0
    /\ cancelled = {}
    /\ launching = [g \in Generations |-> 0]
    /\ streams = [g \in Generations |-> 0]
    /\ adjusting = {}
    /\ pc = [c \in Callers |-> "idle"]
    /\ mine = [c \in Callers |-> None]

-----------------------------------------------------------------------------
(* Mutated forms: slips a change to the code might make.  No behaviour of Spec
   takes them; each is known to break one of the properties below. *)

\* Stop does not cancel.
StopCall_noCancel(c) ==
    /\ pc[c] = "idle"
    /\ pc' = [pc EXCEPT ![c] = IF Quiet THEN "clearing" ELSE "waiting"]
    /\ UNCHANGED <<running, cancel, cancelled, goroutines, mine>>

\* Stop does not wait.
StopCall_noWait(c) ==
    /\ pc[c] = "idle"
    /\ cancelled' = cancelled \cup ({cancel} \cap Generations)
    /\ pc' = [pc EXCEPT ![c] = "clearing"]
    /\ UNCHANGED <<running, cancel, goroutines, mine>>

-----------------------------------------------------------------------------
(* Start *)

\* A new context; its cancel function overwrites whatever e.cancel held.
StartCall(c) ==
    /\ pc[c] = "idle"
    /\ \E g \in Generations :
        /\ Fresh(g)
        /\ cancel' = g
        /\ cancelled' = cancelled \ {g}
        /\ mine' = [mine EXCEPT ![c] = g]
    /\ pc' = [pc EXCEPT ![c] = "resetting"]
    /\ UNCHANGED <<running, goroutines>>

StartReset(c) ==
    /\ pc[c] = "resetting"
    /\ running' = TRUE
    /\ active' = 0
    /\ pc' = [pc EXCEPT ![c] = "launching"]
    /\ UNCHANGED <<cancel, cancelled, launching, streams, adjusting, mine>>

\* The first stream, and the stagger and autoAdjust goroutines.
StartLaunch(c) ==
    /\ pc[c] = "launching"
    /\ streams' = [streams EXCEPT ![mine[c]] = @ + 1]
    /\ active' = active + 1
    /\ \E n \in Concurrencies : launching' = [launching EXCEPT ![mine[c]] = n - 1]
    /\ adjusting' = adjusting \cup {mine[c]}
    /\ mine' = [mine EXCEPT ![c] = None]
    /\ pc' = [pc EXCEPT ![c] = "idle"]
    /\ UNCHANGED <<running, cancel, cancelled>>

-----------------------------------------------------------------------------
(* Stop *)

\* e.cancel() if there is one; wg.Wait returns at once if nothing lives.
StopCall(c) ==
    /\ pc[c] = "idle"
    /\ cancelled' = cancelled \cup ({cancel} \cap Generations)
    /\ pc' = [pc EXCEPT ![c] = IF Quiet THEN "clearing" ELSE "waiting"]
    /\ UNCHANGED <<running, cancel, goroutines, mine>>

StopClear(c) ==
    /\ pc[c] = "clearing"
    /\ running' = FALSE
    /\ pc' = [pc EXCEPT ![c] = "zeroing"]
    /\ UNCHANGED <<cancel, cancelled, goroutines, mine>>

StopZero(c) ==
    /\ pc[c] = "zeroing"
    /\ active' = 0
    /\ pc' = [pc EXCEPT ![c] = "idle"]
    /\ UNCHANGED <<running, cancel, cancelled, launching, streams, adjusting, mine>>

-----------------------------------------------------------------------------
(* Goroutines *)

\* wg.Done: the goroutine that brings the count to zero releases the waiters.
ReleaseWaiters ==
    pc' = [c \in Callers |->
             IF pc[c] = "waiting" /\ Quiet' THEN "clearing" ELSE pc[c]]

\* The stagger goroutine's select takes the timer, even if the context is done too.
LaunchNext(g) ==
    /\ launching[g] > 0
    /\ launching' = [launching EXCEPT ![g] = @ - 1]
    /\ streams' = [streams EXCEPT ![g] = @ + 1]
    /\ active' = active + 1
    /\ UNCHANGED <<running, cancel, cancelled, adjusting, pc, mine>>

AbandonLaunch(g) ==
    /\ launching[g] > 0 /\ g \in cancelled
    /\ launching' = [launching EXCEPT ![g] = 0]
    /\ UNCHANGED <<running, cancel, cancelled, active, streams, adjusting, mine>>
    /\ ReleaseWaiters

\* uploadLoop returns only when its context is done.
StreamExit(g) ==
    /\ streams[g] > 0 /\ g \in cancelled
    /\ streams' = [streams EXCEPT ![g] = @ - 1]
    /\ active' = active - 1
    /\ UNCHANGED <<running, cancel, cancelled, launching, adjusting, mine>>
    /\ ReleaseWaiters

\* A tick of autoAdjust below 80% of the target: one stream more.  The first tick
\* comes 10 s after Start, when the stagger goroutine has launched its streams.
AutoAdjust(g) ==
    /\ g \in adjusting
    /\ launching[g] = 0
    /\ active < MaxConcurrency
    /\ streams' = [streams EXCEPT ![g] = @ + 1]
    /\ active' = active + 1
    /\ UNCHANGED <<running, cancel, cancelled, launching, adjusting, pc, mine>>

AutoAdjustExit(g) ==
    /\ g \in adjusting \cap cancelled
    /\ adjusting' = adjusting \ {g}
    /\ UNCHANGED <<running, cancel, cancelled, active, launching, streams, mine>>
    /\ ReleaseWaiters

-----------------------------------------------------------------------------
Starting(c) == StartReset(c) \/ StartLaunch(c)

Stopping(c) == StopClear(c) \/ StopZero(c)

Leaving(g) == AbandonLaunch(g) \/ StreamExit(g) \/ AutoAdjustExit(g)

NoCallUnderWay == \A c \in Callers : pc[c] = "idle"

Next ==
    \/ (Serial => NoCallUnderWay /\ ~running) /\ \E c \in Callers : StartCall(c)
    \/ (Serial => NoCallUnderWay) /\ \E c \in Callers : StopCall(c)
    \/ \E c \in Callers : Starting(c) \/ Stopping(c)
    \/ \E g \in Generations : LaunchNext(g) \/ AutoAdjust(g) \/ Leaving(g)

\* A caller inside Start or Stop runs on, and a goroutine whose context is done
\* returns: requests, limiter waits and sleeps all end with the context.
Fairness ==
    /\ \A c \in Callers : WF_vars(Starting(c) \/ Stopping(c))
    /\ \A g \in Generations :
        /\ WF_vars(AbandonLaunch(g))
        /\ WF_vars(StreamExit(g))
        /\ WF_vars(AutoAdjustExit(g))

Spec == Init /\ [][Next]_vars /\ Fairness

-----------------------------------------------------------------------------
(* Properties *)

\* No orphans: a goroutine whose context is not done belongs to the context the
\* engine would cancel.  Start overwrites e.cancel, so a Start beside live
\* streams leaves them beyond the reach of any Stop.
NoOrphans ==
    \A g \in Generations : Live(g) /\ g \notin cancelled => g = cancel

\* Between calls, running tells whether goroutines live: GetUploadStreams picks
\* the engine whose count it reports by this flag.
RunningIsTruthful == NoCallUnderWay => (running <=> ~Quiet)

\* Some goroutine may take new work.
Serving == \E g \in Generations : Live(g) /\ g \notin cancelled

Phase == IF Quiet THEN "off" ELSE IF Serving THEN "on" ELSE "draining"

Contract == INSTANCE EngineContract WITH phase <- Phase

\* As long as calls take turns, this engine keeps the same contract as the guarded
\* one: it is switched on only when it is off, a Stop cancels all of it at once, and
\* what is cancelled ends.
ImplementsContract == Contract!Spec

\* Its safety part.
KeepsContract == Contract!Safety

\* Every call of Start or Stop returns: "Stop cancels all upload goroutines and
\* waits for them to finish".
CallsReturn == \A c \in Callers : pc[c] # "idle" ~> pc[c] = "idle"
=============================================================================
