---------------------------- MODULE ServerHealth ----------------------------
(***************************************************************************)
(* download.ServerList and the callers that share it: the streams of the   *)
(* download engine, the server speed test, the user's unblock requests and *)
(* the engine restarts that replace the list.                              *)
(*                                                                         *)
(* Every method holds the list's lock and is one step; a stream calls      *)
(* Next, IncrementStreams, DecrementStreams and MarkSuccess or             *)
(* MarkUnhealthy in separate steps, with the download between them.        *)
(*                                                                         *)
(* Time runs in units of the base cooldown (30 s): `left' is what remains  *)
(* of unhealthyUntil, 0 once it has passed and for the zero time.  Speed   *)
(* scores are abstracted to a small set, ordered as the code orders them.  *)
(***************************************************************************)
EXTENDS Integers, FiniteSets

CONSTANTS
    N,            \* number of configured servers
    Workers,      \* the engine's streams
    BlockAt,      \* consecutive failures that block a server (5)
    Cap,          \* maxCooldown in units of unhealthyCooldown (20)
    MaxFailures,  \* bound: failure counts beyond it behave alike
    Scores,       \* speed scores a sample may lead to
    SpeedTests    \* whether the user runs the server speed test

ASSUME ServerAssumption == N \in Nat \ {0}
ASSUME CooldownAssumption ==
    /\ BlockAt \in Nat \ {0} /\ Cap \in Nat \ {0}
    /\ MaxFailures \in Nat /\ MaxFailures >= BlockAt
ASSUME ScoreAssumption == Scores \subseteq Nat /\ SpeedTests \in BOOLEAN

Servers == 1..N

VARIABLES
    server,    \* the list: per position, the fields of Server that steer selection
    index,     \* ServerList.index, the next position of the round robin
    pc,        \* per stream: "idle", "chosen", "busy", "done", "failed", "scoring"
    choice,    \* per stream: the server it works on
    stopping,  \* the engine's context is cancelled
    test,      \* the speed test's servers not yet probed, while testing
    testOn,    \* a speed test runs
    streak     \* history: results in a row that were failures, up to BlockAt

vars == <<server, index, pc, choice, stopping, test, testOn, streak>>

NewServer == [healthy |-> TRUE, blocked |-> FALSE, left |-> 0, failures |-> 0,
              score |-> 0, streams |-> 0, testing |-> FALSE]

ServerType == [healthy : BOOLEAN, blocked : BOOLEAN, left : 0..Cap,
               failures : 0..MaxFailures, score : Nat, streams : Int, testing : BOOLEAN]

TypeOK ==
    /\ server \in [Servers -> ServerType]
    /\ index \in Servers
    /\ pc \in [Workers -> {"idle", "chosen", "busy", "done", "failed", "scoring"}]
    /\ choice \in [Workers -> Servers]
    /\ stopping \in BOOLEAN /\ testOn \in BOOLEAN
    /\ test \subseteq Servers
    /\ streak \in [Servers -> 0..BlockAt]

Init ==
    /\ server = [i \in Servers |-> NewServer]
    /\ index = 1
    /\ pc = [w \in Workers |-> "idle"]
    /\ choice = [w \in Workers |-> 1]
    /\ stopping = FALSE
    /\ test = {} /\ testOn = FALSE
    /\ streak = [i \in Servers |-> 0]

-----------------------------------------------------------------------------
(* Mutated forms: slips a change to the code might make.  No behaviour of Spec
   takes them; each is known to break one of the properties below. *)

\* A server is blocked one failure early.
MarkUnhealthy_blocksEarly(i) ==
    LET n == IF server[i].failures < MaxFailures THEN server[i].failures + 1
                                                 ELSE MaxFailures
    IN  /\ server' = [server EXCEPT
                        ![i].healthy = FALSE,
                        ![i].failures = n,
                        ![i].blocked = @ \/ n >= BlockAt - 1,
                        ![i].left = 1]
        /\ streak' = [streak EXCEPT ![i] = IF @ < BlockAt THEN @ + 1 ELSE BlockAt]

\* The speed test releases only the servers it found healthy.
EndTest_healthyOnly ==
    /\ testOn /\ test = {}
    /\ testOn' = FALSE
    /\ server' = [i \in Servers |->
                    [server[i] EXCEPT !.testing = @ /\ ~server[i].healthy]]
    /\ UNCHANGED <<index, pc, choice, stopping, test, streak>>

-----------------------------------------------------------------------------
(* Selection *)

\* A server whose cooldown has run out is healthy again, its failures forgotten.
Promoted(s) ==
    IF ~s.healthy /\ ~s.blocked /\ s.left = 0
    THEN [s EXCEPT !.healthy = TRUE, !.failures = 0]
    ELSE s

Candidates(list) ==
    {i \in Servers : list[i].healthy /\ ~list[i].testing /\ ~list[i].blocked}

\* With no candidate: the unblocked servers that recover soonest, or the first
\* of the list if all are blocked.
Soonest(list) ==
    LET unblocked == {i \in Servers : ~list[i].blocked}
    IN  IF unblocked = {} THEN {1}
        ELSE {i \in unblocked : \A j \in unblocked : list[i].left <= list[j].left}

\* Without scores: the first server from the index on that is healthy and not
\* under test.  The code does not look at `blocked' here.
RoundRobin(list) ==
    LET fit == {i \in Servers : list[i].healthy /\ ~list[i].testing}
        Steps(i) == (i - index + N) % N
    IN  {i \in fit : \A j \in fit : Steps(i) <= Steps(j)}

\* With scores: the first candidate with the best score per stream it would have.
Weighted(list) ==
    LET Beats(i, j) == list[i].score * (list[j].streams + 1)
                         > list[j].score * (list[i].streams + 1)
        best == {i \in Candidates(list) :
                    \A j \in Candidates(list) : ~Beats(j, i)}
    IN  {i \in best : \A j \in best : i <= j}

\* What Next may return.
Choices(list) ==
    IF Candidates(list) = {} THEN Soonest(list)
    ELSE IF \A i \in Candidates(list) : list[i].score = 0 THEN RoundRobin(list)
    ELSE Weighted(list)

-----------------------------------------------------------------------------
(* Results *)

\* unhealthyCooldown doubled with every failure after the first, at most maxCooldown.
Cooldown(n) == LET c == 2^(n - 1) IN IF c \in 1..Cap THEN c ELSE Cap

OneMore(n, bound) == IF n < bound THEN n + 1 ELSE bound

MarkUnhealthy(i) ==
    LET n == OneMore(server[i].failures, MaxFailures)
    IN  /\ server' = [server EXCEPT
                        ![i].healthy = FALSE,
                        ![i].failures = n,
                        ![i].blocked = @ \/ n >= BlockAt,
                        ![i].left = Cooldown(n)]
        /\ streak' = [streak EXCEPT ![i] = OneMore(@, BlockAt)]

MarkSuccess(i) ==
    /\ server' = [server EXCEPT ![i].failures = 0]
    /\ streak' = [streak EXCEPT ![i] = 0]

\* The score becomes the average of the last samples.
UpdateSpeedScore(i) ==
    \E v \in Scores : server' = [server EXCEPT ![i].score = v]

-----------------------------------------------------------------------------
(* A stream: downloadLoop *)

\* The server of an idle stream is a dead local.
Goto(w, step) ==
    /\ pc' = [pc EXCEPT ![w] = step]
    /\ choice' = [choice EXCEPT ![w] = IF step = "idle" THEN 1 ELSE @]

SelectNext(w) ==
    /\ pc[w] = "idle" /\ ~stopping
    /\ LET list == [i \in Servers |-> Promoted(server[i])]
       IN  \E i \in Choices(list) :
            /\ server' = list
            /\ choice' = [choice EXCEPT ![w] = i]
            /\ index' = ((IF Candidates(list) = {} THEN index ELSE i) % N) + 1
    /\ pc' = [pc EXCEPT ![w] = "chosen"]
    /\ UNCHANGED <<stopping, test, testOn, streak>>

IncrementStreams(w) ==
    /\ pc[w] = "chosen"
    /\ server' = [server EXCEPT ![choice[w]].streams = @ + 1]
    /\ Goto(w, "busy")
    /\ UNCHANGED <<index, stopping, test, testOn, streak>>

\* The download ends: at the end of the file, with an error, or with an error
\* because the engine stops, which is not held against the server.
DecrementStreams(w) ==
    /\ pc[w] = "busy"
    /\ server' = [server EXCEPT ![choice[w]].streams = @ - 1]
    /\ IF stopping
       THEN Goto(w, "done") \/ Goto(w, "idle")
       ELSE Goto(w, "done") \/ Goto(w, "failed")
    /\ UNCHANGED <<index, stopping, test, testOn, streak>>

Failed(w) ==
    /\ pc[w] = "failed"
    /\ MarkUnhealthy(choice[w])
    /\ Goto(w, "idle")
    /\ UNCHANGED <<index, stopping, test, testOn>>

\* A download of more than a second goes on to update the speed score.
Succeeded(w) ==
    /\ pc[w] = "done"
    /\ MarkSuccess(choice[w])
    /\ Goto(w, "idle") \/ Goto(w, "scoring")
    /\ UNCHANGED <<index, stopping, test, testOn>>

Scored(w) ==
    /\ pc[w] = "scoring"
    /\ UpdateSpeedScore(choice[w])
    /\ Goto(w, "idle")
    /\ UNCHANGED <<index, stopping, test, testOn, streak>>

-----------------------------------------------------------------------------
(* The server speed test: RunSpeedTest *)

BeginTest ==
    /\ ~testOn
    /\ testOn' = TRUE /\ test' = Servers
    /\ server' = [i \in Servers |-> [server[i] EXCEPT !.testing = TRUE]]
    /\ UNCHANGED <<index, pc, choice, stopping, streak>>

\* One probe, good or bad.
Probe(i) ==
    /\ i \in test
    /\ test' = test \ {i}
    /\ \/ UpdateSpeedScore(i) /\ UNCHANGED streak
       \/ MarkUnhealthy(i)
    /\ UNCHANGED <<index, pc, choice, stopping, testOn>>

EndTest ==
    /\ testOn /\ test = {}
    /\ testOn' = FALSE
    /\ server' = [i \in Servers |-> [server[i] EXCEPT !.testing = FALSE]]
    /\ UNCHANGED <<index, pc, choice, stopping, test, streak>>

-----------------------------------------------------------------------------
(* The user *)

UnblockServer(i) ==
    /\ server' = [server EXCEPT ![i].blocked = FALSE, ![i].healthy = FALSE,
                                ![i].left = 1]
    /\ UNCHANGED <<index, pc, choice, stopping, test, testOn, streak>>

UnblockAll ==
    /\ server' = [i \in Servers |->
                    IF server[i].blocked
                    THEN [server[i] EXCEPT !.blocked = FALSE, !.healthy = FALSE, !.left = 1]
                    ELSE server[i]]
    /\ UNCHANGED <<index, pc, choice, stopping, test, testOn, streak>>

-----------------------------------------------------------------------------
(* Engine restarts and time *)

Stop ==
    /\ ~stopping
    /\ stopping' = TRUE
    /\ UNCHANGED <<server, index, pc, choice, test, testOn, streak>>

AllIdle == \A w \in Workers : pc[w] = "idle"

\* startEngines in Max mode, once the engine's streams have left.
ResetCooldowns ==
    /\ stopping /\ AllIdle
    /\ server' = [i \in Servers |-> [server[i] EXCEPT
                    !.healthy = TRUE, !.blocked = FALSE, !.left = 0, !.failures = 0]]
    /\ streak' = [i \in Servers |-> 0]
    /\ UNCHANGED <<index, pc, choice, stopping, test, testOn>>

\* startEngines replaces the list by new entries, then starts the streams.
UpdateServers ==
    /\ stopping /\ AllIdle
    /\ server' = [i \in Servers |-> NewServer]
    /\ index' = 1
    /\ streak' = [i \in Servers |-> 0]
    /\ stopping' = FALSE
    /\ UNCHANGED <<pc, choice, test, testOn>>

\* A unit of time: cooldowns run down.
Tick ==
    /\ \E i \in Servers : server[i].left > 0
    /\ server' = [i \in Servers |->
                    [server[i] EXCEPT !.left = IF @ > 0 THEN @ - 1 ELSE 0]]
    /\ UNCHANGED <<index, pc, choice, stopping, test, testOn, streak>>

-----------------------------------------------------------------------------
Streams(w) ==
    \/ SelectNext(w) \/ IncrementStreams(w) \/ DecrementStreams(w)
    \/ Failed(w) \/ Succeeded(w) \/ Scored(w)

Next ==
    \/ \E w \in Workers : Streams(w)
    \/ SpeedTests /\ BeginTest
    \/ EndTest \/ \E i \in Servers : Probe(i)
    \/ UnblockAll \/ \E i \in Servers : UnblockServer(i)
    \/ Stop \/ ResetCooldowns \/ UpdateServers
    \/ Tick

Spec == Init /\ [][Next]_vars

-----------------------------------------------------------------------------
(* Properties *)

\* A blocked server is not healthy, and a healthy one waits for no cooldown.  The
\* round robin relies on it: it looks for healthy servers and never at `blocked'.
HealthIsConsistent ==
    \A i \in Servers :
        server[i].healthy => ~server[i].blocked /\ server[i].left = 0

\* No early block: the failures counted against a server are failures in a row.
FailuresAreInARow ==
    \A i \in Servers :
        server[i].failures <= streak[i] \/ streak[i] = BlockAt

BlocksOnlyAfterStreak ==
    [][\A i \in Servers :
        ~server[i].blocked /\ server'[i].blocked => streak'[i] = BlockAt]_vars

\* A stream is sent to a blocked server only when every server is blocked.
AvoidsBlocked ==
    [][\A w \in Workers :
        SelectNext(w) /\ server[choice'[w]].blocked
            => \A i \in Servers : server[i].blocked]_vars

\* When no test runs, none of the servers is kept out of the selection by one.
TestingEnds == ~testOn => \A i \in Servers : ~server[i].testing

\* "Auto-blocks after 5 consecutive failures" (README): the fifth failure in a row,
\* with no success between, finds or leaves the server blocked.
StreakBlocks ==
    [][\A i \in Servers :
        streak[i] < BlockAt /\ streak'[i] = BlockAt => server'[i].blocked]_vars
=============================================================================
