------------------------- MODULE ServerHealth_proof -------------------------
(***************************************************************************)
(* Proofs about ServerHealth, for any number of servers and streams, any   *)
(* threshold and any cooldowns.                                            *)
(***************************************************************************)
EXTENDS ServerHealth, TLAPS

USE ServerAssumption, CooldownAssumption, ScoreAssumption DEF Servers

-----------------------------------------------------------------------------
(* Operators *)

\* Updating a field with a value of its type leaves a server record.
LEMMA FieldTyped ==
    ASSUME NEW s \in ServerType
    PROVE  /\ \A b \in BOOLEAN : /\ [s EXCEPT !.healthy = b] \in ServerType
                                 /\ [s EXCEPT !.blocked = b] \in ServerType
                                 /\ [s EXCEPT !.testing = b] \in ServerType
           /\ \A n \in 0..Cap : [s EXCEPT !.left = n] \in ServerType
           /\ \A n \in 0..MaxFailures : [s EXCEPT !.failures = n] \in ServerType
           /\ \A n \in Nat : [s EXCEPT !.score = n] \in ServerType
           /\ \A n \in Int : [s EXCEPT !.streams = n] \in ServerType
<1>1. ASSUME NEW b \in BOOLEAN PROVE [s EXCEPT !.healthy = b] \in ServerType
  BY DEF ServerType
<1>2. ASSUME NEW b \in BOOLEAN PROVE [s EXCEPT !.blocked = b] \in ServerType
  BY DEF ServerType
<1>3. ASSUME NEW b \in BOOLEAN PROVE [s EXCEPT !.testing = b] \in ServerType
  BY DEF ServerType
<1>4. ASSUME NEW n \in 0..Cap PROVE [s EXCEPT !.left = n] \in ServerType
  BY DEF ServerType
<1>5. ASSUME NEW n \in 0..MaxFailures PROVE [s EXCEPT !.failures = n] \in ServerType
  BY DEF ServerType
<1>6. ASSUME NEW n \in Nat PROVE [s EXCEPT !.score = n] \in ServerType
  BY DEF ServerType
<1>7. ASSUME NEW n \in Int PROVE [s EXCEPT !.streams = n] \in ServerType
  BY DEF ServerType
<1> QED
  BY <1>1, <1>2, <1>3, <1>4, <1>5, <1>6, <1>7

\* The cooldown is a number of time units up to maxCooldown, however many failures.
LEMMA CooldownTyped == ASSUME NEW n PROVE Cooldown(n) \in 0..Cap
  BY DEF Cooldown

LEMMA OneMoreTyped ==
    ASSUME NEW bound \in Nat, NEW n \in 0..bound
    PROVE  OneMore(n, bound) \in 0..bound
  BY DEF OneMore

LEMMA PromotedTyped ==
    ASSUME NEW s \in ServerType PROVE Promoted(s) \in ServerType
<1> DEFINE r == [s EXCEPT !.healthy = TRUE]
<1>1. r \in ServerType
  BY FieldTyped
<1>2. [r EXCEPT !.failures = 0] \in ServerType
  <2> HIDE DEF r
  <2>1. 0 \in 0..MaxFailures
    OBVIOUS
  <2> QED
    BY <1>1, <2>1, FieldTyped
<1> QED
  BY <1>2 DEF Promoted

\* Next returns one of the servers.
LEMMA ChoicesAreServers == ASSUME NEW list PROVE Choices(list) \subseteq Servers
  BY DEF Choices, Soonest, RoundRobin, Weighted, Candidates

-----------------------------------------------------------------------------
(* Type correctness *)

LEMMA InitTyped == Init => TypeOK
<1> SUFFICES ASSUME Init PROVE TypeOK
  OBVIOUS
<1>1. NewServer \in ServerType
  BY DEF NewServer, ServerType
<1>2. server \in [Servers -> ServerType]
  BY <1>1 DEF Init
<1>3. index \in Servers /\ choice \in [Workers -> Servers]
  BY DEF Init
<1>4. pc \in [Workers -> {"idle", "chosen", "busy", "done", "failed", "scoring"}]
  BY DEF Init
<1>5. stopping \in BOOLEAN /\ testOn \in BOOLEAN
  BY Zenon DEF Init
<1>6. test \subseteq Servers /\ streak \in [Servers -> 0..BlockAt]
  BY DEF Init
<1> QED
  BY <1>2, <1>3, <1>4, <1>5, <1>6 DEF TypeOK

\* Moving a stream to its next step keeps the types.
LEMMA GotoTyped ==
    ASSUME TypeOK, NEW w \in Workers,
           NEW step \in {"idle", "done", "failed", "busy", "scoring"}, Goto(w, step)
    PROVE  /\ pc' \in [Workers -> {"idle", "chosen", "busy", "done", "failed", "scoring"}]
           /\ choice' \in [Workers -> Servers]
<1>1. 1 \in Servers
  OBVIOUS
<1> QED
  BY <1>1 DEF TypeOK, Goto

LEMMA MarkUnhealthyTyped ==
    ASSUME TypeOK, NEW i \in Servers, MarkUnhealthy(i)
    PROVE  server' \in [Servers -> ServerType] /\ streak' \in [Servers -> 0..BlockAt]
<1> DEFINE n  == OneMore(server[i].failures, MaxFailures)
           s1 == [server[i] EXCEPT !.healthy = FALSE]
           s2 == [s1 EXCEPT !.failures = n]
           s3 == [s2 EXCEPT !.blocked = server[i].blocked \/ n >= BlockAt]
           s4 == [s3 EXCEPT !.left = Cooldown(n)]
<1>1. server[i] \in ServerType /\ n \in 0..MaxFailures
  BY OneMoreTyped DEF TypeOK, ServerType
<1>2. Cooldown(n) \in 0..Cap
  BY CooldownTyped
<1>3. s2 \in ServerType
  BY <1>1, FieldTyped
<1>4. (server[i].blocked \/ n >= BlockAt) \in BOOLEAN
  OBVIOUS
<1>5. s4 \in ServerType
  BY <1>2, <1>3, <1>4, FieldTyped
<1>6. server' = [server EXCEPT ![i] = s4]
  BY DEF MarkUnhealthy, TypeOK
<1>7. server' \in [Servers -> ServerType]
  BY <1>5, <1>6 DEF TypeOK
<1>8. streak' \in [Servers -> 0..BlockAt]
  BY OneMoreTyped DEF TypeOK, MarkUnhealthy
<1> QED
  BY <1>7, <1>8

\* Every step of a stream keeps the types.
LEMMA StreamsTyped ==
    ASSUME TypeOK, NEW w \in Workers, Streams(w) PROVE TypeOK'
<1>1. CASE SelectNext(w)
  <2> DEFINE list == [i \in Servers |-> Promoted(server[i])]
  <2>1. list \in [Servers -> ServerType]
    BY PromotedTyped DEF TypeOK
  <2>2. PICK i \in Choices(list) :
           /\ server' = list
           /\ choice' = [choice EXCEPT ![w] = i]
           /\ index' = ((IF Candidates(list) = {} THEN index ELSE i) % N) + 1
    BY <1>1 DEF SelectNext
  <2>3. i \in Servers
    BY ChoicesAreServers
  <2>4. index' \in Servers
    <3>1. ASSUME NEW k \in Servers PROVE (k % N) + 1 \in Servers
      OBVIOUS
    <3> QED
      BY <2>2, <2>3, <3>1 DEF TypeOK
  <2> HIDE DEF list
  <2> QED
    BY <1>1, <2>1, <2>2, <2>3, <2>4 DEF TypeOK, SelectNext
<1>2. CASE IncrementStreams(w)
  <2>1. server' \in [Servers -> ServerType]
    <3> DEFINE n == server[choice[w]].streams + 1
    <3>0. server[choice[w]] \in ServerType
      BY DEF TypeOK
    <3>1. n \in Int
      BY <3>0 DEF ServerType
    <3>2. [server[choice[w]] EXCEPT !.streams = n] \in ServerType
      BY <3>0, <3>1, FieldTyped
    <3> QED
      BY <1>2, <3>2 DEF IncrementStreams, TypeOK
  <2> QED
    BY <1>2, <2>1, GotoTyped DEF TypeOK, IncrementStreams
<1>3. CASE DecrementStreams(w)
  <2>1. server' \in [Servers -> ServerType]
    <3> DEFINE n == server[choice[w]].streams - 1
    <3>0. server[choice[w]] \in ServerType
      BY DEF TypeOK
    <3>1. n \in Int
      BY <3>0 DEF ServerType
    <3>2. [server[choice[w]] EXCEPT !.streams = n] \in ServerType
      BY <3>0, <3>1, FieldTyped
    <3> QED
      BY <1>3, <3>2 DEF DecrementStreams, TypeOK
  <2> QED
    BY <1>3, <2>1, GotoTyped DEF TypeOK, DecrementStreams
<1>4. CASE Failed(w)
  <2>1. choice[w] \in Servers
    BY DEF TypeOK
  <2>2. server' \in [Servers -> ServerType] /\ streak' \in [Servers -> 0..BlockAt]
    BY <1>4, <2>1, MarkUnhealthyTyped DEF Failed
  <2> QED
    BY <1>4, <2>2, GotoTyped DEF TypeOK, Failed
<1>5. CASE Succeeded(w)
  <2>1. server' \in [Servers -> ServerType] /\ streak' \in [Servers -> 0..BlockAt]
    <3>1. server[choice[w]] \in ServerType /\ 0 \in 0..MaxFailures /\ 0 \in 0..BlockAt
      BY DEF TypeOK
    <3>2. [server[choice[w]] EXCEPT !.failures = 0] \in ServerType
      BY <3>1, FieldTyped
    <3> QED
      BY <1>5, <3>1, <3>2 DEF Succeeded, MarkSuccess, TypeOK
  <2> QED
    BY <1>5, <2>1, GotoTyped DEF TypeOK, Succeeded
<1>6. CASE Scored(w)
  <2>1. server' \in [Servers -> ServerType]
    <3>1. PICK v \in Scores : server' = [server EXCEPT ![choice[w]].score = v]
      BY <1>6 DEF Scored, UpdateSpeedScore
    <3>2. server[choice[w]] \in ServerType /\ v \in Nat
      BY DEF TypeOK
    <3>3. [server[choice[w]] EXCEPT !.score = v] \in ServerType
      BY <3>2, FieldTyped
    <3> QED
      BY <3>1, <3>3 DEF TypeOK
  <2> QED
    BY <1>6, <2>1, GotoTyped DEF TypeOK, Scored
<1> QED
  BY <1>1, <1>2, <1>3, <1>4, <1>5, <1>6 DEF Streams

\* Every step of the speed test keeps the types.
LEMMA TestTyped ==
    ASSUME TypeOK, BeginTest \/ EndTest \/ \E i \in Servers : Probe(i) PROVE TypeOK'
<1>1. CASE BeginTest
  <2>1. \A i \in Servers : [server[i] EXCEPT !.testing = TRUE] \in ServerType
    BY FieldTyped DEF TypeOK
  <2> QED
    BY <1>1, <2>1 DEF TypeOK, BeginTest
<1>2. CASE EndTest
  <2>1. \A i \in Servers : [server[i] EXCEPT !.testing = FALSE] \in ServerType
    BY FieldTyped DEF TypeOK
  <2> QED
    BY <1>2, <2>1 DEF TypeOK, EndTest
<1>3. ASSUME NEW i \in Servers, Probe(i) PROVE TypeOK'
  <2>1. server' \in [Servers -> ServerType] /\ streak' \in [Servers -> 0..BlockAt]
    <3>1. CASE UpdateSpeedScore(i) /\ UNCHANGED streak
      <4>1. PICK v \in Scores : server' = [server EXCEPT ![i].score = v]
        BY <3>1 DEF UpdateSpeedScore
      <4>2. server[i] \in ServerType /\ v \in Nat
        BY DEF TypeOK
      <4>3. [server[i] EXCEPT !.score = v] \in ServerType
        BY <4>2, FieldTyped
      <4> QED
        BY <3>1, <4>1, <4>3 DEF TypeOK
    <3>2. CASE MarkUnhealthy(i)
      BY <3>2, MarkUnhealthyTyped
    <3> QED
      BY <1>3, <3>1, <3>2 DEF Probe
  <2> QED
    BY <1>3, <2>1 DEF TypeOK, Probe
<1> QED
  BY <1>1, <1>2, <1>3

\* A server in cooldown after an unblock, from whatever state.
LEMMA UnblockedTyped ==
    ASSUME NEW s \in ServerType
    PROVE  [s EXCEPT !.blocked = FALSE, !.healthy = FALSE, !.left = 1] \in ServerType
<1> DEFINE s1 == [s EXCEPT !.blocked = FALSE]
           s2 == [s1 EXCEPT !.healthy = FALSE]
<1>1. s1 \in ServerType
  BY FieldTyped
<1>2. s2 \in ServerType
  <2> HIDE DEF s1
  <2> QED
    BY <1>1, FieldTyped
<1>3. [s2 EXCEPT !.left = 1] \in ServerType
  <2> HIDE DEF s2
  <2>1. 1 \in 0..Cap
    OBVIOUS
  <2> QED
    BY <1>2, <2>1, FieldTyped
<1> QED
  BY <1>3

LEMMA UnblockTyped ==
    ASSUME TypeOK, UnblockAll \/ \E i \in Servers : UnblockServer(i) PROVE TypeOK'
<1> DEFINE cooled(i) ==
        [server[i] EXCEPT !.blocked = FALSE, !.healthy = FALSE, !.left = 1]
<1>1. \A i \in Servers : server[i] \in ServerType /\ cooled(i) \in ServerType
  BY UnblockedTyped DEF TypeOK
<1>2. CASE UnblockAll
  BY <1>1, <1>2 DEF TypeOK, UnblockAll
<1>3. ASSUME NEW i \in Servers, UnblockServer(i) PROVE TypeOK'
  <2>1. server' = [server EXCEPT ![i] = cooled(i)]
    BY <1>3 DEF UnblockServer, TypeOK
  <2>2. UNCHANGED <<index, pc, choice, stopping, test, testOn, streak>>
    BY <1>3 DEF UnblockServer
  <2> HIDE DEF cooled
  <2> QED
    BY <1>1, <2>1, <2>2 DEF TypeOK
<1> QED
  BY <1>2, <1>3

\* Restarts and the passing of time keep the types.
LEMMA RestartTyped ==
    ASSUME TypeOK, Stop \/ ResetCooldowns \/ UpdateServers \/ Tick PROVE TypeOK'
<1>1. CASE Stop
  BY <1>1 DEF TypeOK, Stop
<1>2. CASE ResetCooldowns
  <2>1. ASSUME NEW s \in ServerType
        PROVE  [s EXCEPT !.healthy = TRUE, !.blocked = FALSE, !.left = 0, !.failures = 0]
                 \in ServerType
    <3> DEFINE s1 == [s EXCEPT !.healthy = TRUE]
               s2 == [s1 EXCEPT !.blocked = FALSE]
               s3 == [s2 EXCEPT !.left = 0]
    <3>1. s2 \in ServerType
      BY FieldTyped
    <3>2. s3 \in ServerType
      <4> HIDE DEF s2
      <4>1. 0 \in 0..Cap
        OBVIOUS
      <4> QED
        BY <3>1, <4>1, FieldTyped
    <3>3. [s3 EXCEPT !.failures = 0] \in ServerType
      <4> HIDE DEF s3
      <4>1. 0 \in 0..MaxFailures
        OBVIOUS
      <4> QED
        BY <3>2, <4>1, FieldTyped
    <3> QED
      BY <3>3
  <2> DEFINE reset(i) == [server[i] EXCEPT !.healthy = TRUE, !.blocked = FALSE,
                                           !.left = 0, !.failures = 0]
  <2>2. \A i \in Servers : reset(i) \in ServerType
    BY <2>1 DEF TypeOK
  <2>3. server' = [i \in Servers |-> reset(i)]
    BY <1>2 DEF ResetCooldowns
  <2>4. /\ streak' = [i \in Servers |-> 0]
        /\ UNCHANGED <<index, pc, choice, stopping, test, testOn>>
    BY <1>2, Zenon DEF ResetCooldowns
  <2>5. 0 \in 0..BlockAt
    OBVIOUS
  <2> HIDE DEF reset
  <2> QED
    BY <2>2, <2>3, <2>4, <2>5 DEF TypeOK
<1>3. CASE UpdateServers
  <2>1. NewServer \in ServerType /\ 1 \in Servers /\ 0 \in 0..BlockAt
    BY DEF NewServer, ServerType
  <2> QED
    BY <1>3, <2>1 DEF TypeOK, UpdateServers
<1>4. CASE Tick
  <2> DEFINE n(i) == IF server[i].left > 0 THEN server[i].left - 1 ELSE 0
  <2>1. \A i \in Servers : server[i] \in ServerType
    BY DEF TypeOK
  <2>2. \A i \in Servers : n(i) \in 0..Cap
    BY <2>1 DEF ServerType
  <2>3. \A i \in Servers : [server[i] EXCEPT !.left = n(i)] \in ServerType
    BY <2>1, <2>2, FieldTyped
  <2> QED
    BY <1>4, <2>3 DEF TypeOK, Tick
<1> QED
  BY <1>1, <1>2, <1>3, <1>4

LEMMA NextTyped == TypeOK /\ [Next]_vars => TypeOK'
<1> SUFFICES ASSUME TypeOK, [Next]_vars PROVE TypeOK'
  OBVIOUS
<1>1. CASE UNCHANGED vars
  BY <1>1 DEF TypeOK, vars
<1> QED
  BY <1>1, StreamsTyped, TestTyped, UnblockTyped, RestartTyped DEF Next

\* The list and its callers keep their types: a failure count never exceeds its
\* bound, a cooldown never exceeds maxCooldown, Next never leaves the list.
THEOREM TypeCorrect == Spec => []TypeOK
  BY InitTyped, NextTyped, PTL DEF Spec

-----------------------------------------------------------------------------
(* What a step may do to the health of one server: s and t are its record before
   and after the step, k and l the length of its streak of failures. *)

\* Nothing, or its cooldown runs down.
Waits(s, t, k, l) ==
    /\ t.healthy = s.healthy /\ t.blocked = s.blocked /\ (s.left = 0 => t.left = 0)
    /\ t.failures = s.failures /\ l = k

IsPromoted(s, t, k, l) ==
    ~s.blocked /\ s.left = 0 /\ ~t.blocked /\ t.left = 0 /\ t.failures = 0 /\ l = k

Fails(s, t, k, l) ==
    /\ ~t.healthy
    /\ t.failures = OneMore(s.failures, MaxFailures)
    /\ t.blocked => s.blocked \/ t.failures >= BlockAt
    /\ l = OneMore(k, BlockAt)

Succeeds(s, t, k, l) ==
    /\ t.healthy = s.healthy /\ t.blocked = s.blocked /\ t.left = s.left
    /\ t.failures = 0 /\ l = 0

IsUnblocked(s, t, k, l) ==
    ~t.healthy /\ ~t.blocked /\ t.failures = s.failures /\ l = k

IsReset(s, t, k, l) ==
    ~t.blocked /\ t.left = 0 /\ t.failures = 0 /\ l = 0

HealthStep(s, t, k, l) ==
    \/ Waits(s, t, k, l) \/ IsPromoted(s, t, k, l) \/ Fails(s, t, k, l)
    \/ Succeeds(s, t, k, l) \/ IsUnblocked(s, t, k, l) \/ IsReset(s, t, k, l)

\* A result, wherever it comes from, leaves the other servers alone.
LEMMA MarkUnhealthyStep ==
    ASSUME TypeOK, NEW j \in Servers, MarkUnhealthy(j), NEW i \in Servers
    PROVE  HealthStep(server[i], server'[i], streak[i], streak'[i])
<1> DEFINE n == OneMore(server[j].failures, MaxFailures)
<1>1. CASE i = j
  <2>1. /\ server'[i].healthy = FALSE
        /\ server'[i].failures = n
        /\ server'[i].blocked = (server[i].blocked \/ n >= BlockAt)
        /\ streak'[i] = OneMore(streak[i], BlockAt)
    BY <1>1 DEF MarkUnhealthy, TypeOK, ServerType
  <2> QED
    BY <1>1, <2>1 DEF HealthStep, Fails
<1>2. CASE i # j
  <2>1. server'[i] = server[i] /\ streak'[i] = streak[i]
    BY <1>2 DEF MarkUnhealthy, TypeOK
  <2> QED
    BY <2>1 DEF HealthStep, Waits
<1> QED
  BY <1>1, <1>2

\* The step changes no field that HealthStep speaks of.
SameHealth(s, t) ==
    /\ t.healthy = s.healthy /\ t.blocked = s.blocked
    /\ t.left = s.left /\ t.failures = s.failures

LEMMA SameHealthStep ==
    ASSUME NEW i \in Servers, SameHealth(server[i], server'[i]), UNCHANGED streak
    PROVE  HealthStep(server[i], server'[i], streak[i], streak'[i])
  BY DEF SameHealth, HealthStep, Waits

\* A new speed score, after a download or a probe.
LEMMA ScoreHealth ==
    ASSUME TypeOK, NEW j \in Servers, UpdateSpeedScore(j), UNCHANGED streak,
           NEW i \in Servers
    PROVE  HealthStep(server[i], server'[i], streak[i], streak'[i])
<1>1. PICK v \in Scores : server' = [server EXCEPT ![j].score = v]
  BY DEF UpdateSpeedScore
<1>2. server[i] \in ServerType
  BY DEF TypeOK
<1>3. server'[i] = server[i] \/ server'[i] = [server[i] EXCEPT !.score = v]
  BY <1>1 DEF TypeOK
<1>4. SameHealth(server[i], server'[i])
  BY <1>2, <1>3 DEF ServerType, SameHealth
<1> QED
  BY <1>4, SameHealthStep

\* Every step of a stream changes the health of a server in one of these ways.
LEMMA StreamsHealth ==
    ASSUME TypeOK, NEW w \in Workers, Streams(w), NEW i \in Servers
    PROVE  HealthStep(server[i], server'[i], streak[i], streak'[i])
<1>1. CASE SelectNext(w)
  <2>1. server'[i] = Promoted(server[i]) /\ streak'[i] = streak[i]
    BY <1>1 DEF SelectNext
  <2>2. CASE server'[i] = server[i]
    BY <2>1, <2>2 DEF HealthStep, Waits
  <2>3. CASE server'[i] # server[i]
    <3>1. /\ ~server[i].blocked /\ server[i].left = 0
          /\ server'[i] = [server[i] EXCEPT !.healthy = TRUE, !.failures = 0]
      BY <2>1, <2>3 DEF Promoted
    <3>2. /\ server'[i].blocked = server[i].blocked
          /\ server'[i].left = server[i].left
          /\ server'[i].failures = 0
      BY <3>1 DEF TypeOK, ServerType
    <3> QED
      BY <2>1, <3>1, <3>2 DEF HealthStep, IsPromoted
  <2> QED
    BY <2>2, <2>3
<1>2. CASE IncrementStreams(w) \/ DecrementStreams(w)
  <2>1. PICK n : server' = [server EXCEPT ![choice[w]].streams = n]
    BY <1>2, Zenon DEF IncrementStreams, DecrementStreams
  <2>2. server[i] \in ServerType
    BY DEF TypeOK
  <2>3. server'[i] = server[i] \/ server'[i] = [server[i] EXCEPT !.streams = n]
    BY <2>1 DEF TypeOK
  <2>4. SameHealth(server[i], server'[i])
    BY <2>2, <2>3 DEF ServerType, SameHealth
  <2>5. UNCHANGED streak
    BY <1>2 DEF IncrementStreams, DecrementStreams
  <2> QED
    BY <2>4, <2>5, SameHealthStep
<1>3. CASE Failed(w)
  BY <1>3, MarkUnhealthyStep DEF Failed, TypeOK
<1>4. CASE Succeeded(w)
  <2>1. CASE i = choice[w]
    <3>1. /\ server'[i].healthy = server[i].healthy
          /\ server'[i].blocked = server[i].blocked
          /\ server'[i].left = server[i].left
          /\ server'[i].failures = 0 /\ streak'[i] = 0
      BY <1>4, <2>1 DEF Succeeded, MarkSuccess, TypeOK, ServerType
    <3> QED
      BY <3>1 DEF HealthStep, Succeeds
  <2>2. CASE i # choice[w]
    <3>1. server'[i] = server[i] /\ streak'[i] = streak[i]
      BY <1>4, <2>2 DEF Succeeded, MarkSuccess, TypeOK
    <3> QED
      BY <3>1 DEF HealthStep, Waits
  <2> QED
    BY <2>1, <2>2
<1>5. CASE Scored(w)
  BY <1>5, ScoreHealth DEF Scored, TypeOK
<1> QED
  BY <1>1, <1>2, <1>3, <1>4, <1>5 DEF Streams

\* So does every step of the speed test.
LEMMA TestHealth ==
    ASSUME TypeOK, BeginTest \/ EndTest \/ (\E j \in Servers : Probe(j)),
           NEW i \in Servers
    PROVE  HealthStep(server[i], server'[i], streak[i], streak'[i])
<1>1. CASE BeginTest \/ EndTest
  <2>1. PICK x \in BOOLEAN : server'[i] = [server[i] EXCEPT !.testing = x]
    BY <1>1 DEF BeginTest, EndTest
  <2>2. server[i] \in ServerType /\ UNCHANGED streak
    BY <1>1 DEF BeginTest, EndTest, TypeOK
  <2>3. SameHealth(server[i], server'[i])
    BY <2>1, <2>2 DEF ServerType, SameHealth
  <2> QED
    BY <2>2, <2>3, SameHealthStep
<1>2. ASSUME NEW j \in Servers, Probe(j)
      PROVE  HealthStep(server[i], server'[i], streak[i], streak'[i])
  BY <1>2, ScoreHealth, MarkUnhealthyStep DEF Probe
<1> QED
  BY <1>1, <1>2

\* And every request of the user, every restart, and time.
LEMMA OthersHealth ==
    ASSUME TypeOK, NEW i \in Servers,
           \/ UnblockAll \/ (\E j \in Servers : UnblockServer(j))
           \/ Stop \/ ResetCooldowns \/ UpdateServers \/ Tick
    PROVE  HealthStep(server[i], server'[i], streak[i], streak'[i])
<1>1. CASE UnblockAll
  <2>1. \/ server'[i] = server[i] /\ streak'[i] = streak[i]
        \/ /\ server'[i].healthy = FALSE /\ server'[i].blocked = FALSE
           /\ server'[i].failures = server[i].failures /\ streak'[i] = streak[i]
    BY <1>1 DEF UnblockAll, TypeOK, ServerType
  <2> QED
    BY <2>1 DEF HealthStep, Waits, IsUnblocked
<1>2. ASSUME NEW j \in Servers, UnblockServer(j)
      PROVE  HealthStep(server[i], server'[i], streak[i], streak'[i])
  <2>1. CASE i = j
    <3>1. server'[i] = [server[i] EXCEPT !.blocked = FALSE, !.healthy = FALSE, !.left = 1]
      BY <1>2, <2>1 DEF UnblockServer, TypeOK
    <3>2. server[i] \in ServerType /\ UNCHANGED streak
      BY <1>2 DEF UnblockServer, TypeOK
    <3>3. /\ server'[i].healthy = FALSE /\ server'[i].blocked = FALSE
          /\ server'[i].failures = server[i].failures
      BY <3>1, <3>2 DEF ServerType
    <3> QED
      BY <3>2, <3>3 DEF HealthStep, IsUnblocked
  <2>2. CASE i # j
    <3>1. server'[i] = server[i] /\ streak'[i] = streak[i]
      BY <1>2, <2>2 DEF UnblockServer, TypeOK
    <3> QED
      BY <3>1 DEF HealthStep, Waits
  <2> QED
    BY <2>1, <2>2
<1>3. CASE Stop
  BY <1>3 DEF Stop, HealthStep, Waits
<1>4. CASE ResetCooldowns
  <2>1. /\ server'[i].blocked = FALSE /\ server'[i].left = 0
        /\ server'[i].failures = 0 /\ streak'[i] = 0
    BY <1>4 DEF ResetCooldowns, TypeOK, ServerType
  <2> QED
    BY <2>1 DEF HealthStep, IsReset
<1>5. CASE UpdateServers
  BY <1>5 DEF UpdateServers, NewServer, HealthStep, IsReset
<1>6. CASE Tick
  <2> DEFINE n == IF server[i].left > 0 THEN server[i].left - 1 ELSE 0
  <2>1. server'[i] = [server[i] EXCEPT !.left = n] /\ UNCHANGED streak
    BY <1>6 DEF Tick
  <2>2. server[i] \in ServerType
    BY DEF TypeOK
  <2>3. server[i].left = 0 => n = 0
    OBVIOUS
  <2> HIDE DEF n
  <2>4. /\ server'[i].healthy = server[i].healthy
        /\ server'[i].blocked = server[i].blocked
        /\ server'[i].left = n
        /\ server'[i].failures = server[i].failures
    BY <2>1, <2>2 DEF ServerType
  <2> QED
    BY <2>1, <2>3, <2>4 DEF HealthStep, Waits
<1> QED
  BY <1>1, <1>2, <1>3, <1>4, <1>5, <1>6

LEMMA NextHealth ==
    ASSUME TypeOK, [Next]_vars, NEW i \in Servers
    PROVE  HealthStep(server[i], server'[i], streak[i], streak'[i])
<1>1. CASE UNCHANGED vars
  BY <1>1 DEF vars, HealthStep, Waits
<1> QED
  BY <1>1, StreamsHealth, TestHealth, OthersHealth DEF Next

-----------------------------------------------------------------------------
(* The invariants *)

\* No healthy server is blocked or in cooldown, whatever results, probes, unblocks
\* and restarts come in between.
THEOREM HealthIsConsistentHolds == Spec => []HealthIsConsistent
<1>1. Init => HealthIsConsistent
  BY DEF Init, NewServer, HealthIsConsistent
<1>2. TypeOK /\ HealthIsConsistent /\ [Next]_vars => HealthIsConsistent'
  <2> SUFFICES ASSUME TypeOK, HealthIsConsistent, [Next]_vars, NEW i \in Servers,
                      server'[i].healthy
               PROVE  ~server'[i].blocked /\ server'[i].left = 0
    BY DEF HealthIsConsistent
  <2>1. HealthStep(server[i], server'[i], streak[i], streak'[i])
    BY NextHealth
  <2>2. server[i].healthy => ~server[i].blocked /\ server[i].left = 0
    BY DEF HealthIsConsistent
  <2> QED
    BY <2>1, <2>2 DEF HealthStep, Waits, IsPromoted, Fails, Succeeds, IsUnblocked, IsReset
<1> QED
  BY <1>1, <1>2, TypeCorrect, PTL DEF Spec

LEMMA FailuresInductive ==
    TypeOK /\ FailuresAreInARow /\ [Next]_vars => FailuresAreInARow'
<1> SUFFICES ASSUME TypeOK, FailuresAreInARow, [Next]_vars, NEW i \in Servers
             PROVE  server'[i].failures <= streak'[i] \/ streak'[i] = BlockAt
  BY DEF FailuresAreInARow
<1>1. HealthStep(server[i], server'[i], streak[i], streak'[i])
  BY NextHealth
<1>2. server[i].failures <= streak[i] \/ streak[i] = BlockAt
  BY DEF FailuresAreInARow
<1>3. server[i].failures \in 0..MaxFailures /\ streak[i] \in 0..BlockAt
  BY DEF TypeOK, ServerType
<1> QED
  BY <1>1, <1>2, <1>3 DEF HealthStep, Waits, IsPromoted, Fails, Succeeds, IsUnblocked,
     IsReset, OneMore

\* The failures counted against a server are never more than the failures in a row:
\* late results of other streams and probes are all accounted for.
THEOREM FailuresAreInARowHolds == Spec => []FailuresAreInARow
<1>1. Init => FailuresAreInARow
  BY DEF Init, NewServer, FailuresAreInARow
<1> QED
  BY <1>1, FailuresInductive, TypeCorrect, PTL DEF Spec

\* No server is blocked before its BlockAt-th failure in a row.
THEOREM BlocksOnlyAfterStreakHolds == Spec => BlocksOnlyAfterStreak
<1> DEFINE Streak(i) == ~server[i].blocked /\ server'[i].blocked => streak'[i] = BlockAt
<1>1. TypeOK /\ FailuresAreInARow /\ [Next]_vars => [\A i \in Servers : Streak(i)]_vars
  <2> SUFFICES ASSUME TypeOK, FailuresAreInARow, [Next]_vars, NEW i \in Servers,
                      ~server[i].blocked, server'[i].blocked
               PROVE  streak'[i] = BlockAt
    OBVIOUS
  <2>1. HealthStep(server[i], server'[i], streak[i], streak'[i])
    BY NextHealth
  <2>2. server[i].failures <= streak[i] \/ streak[i] = BlockAt
    BY DEF FailuresAreInARow
  <2>3. server[i].failures \in 0..MaxFailures /\ streak[i] \in 0..BlockAt
    BY DEF TypeOK, ServerType
  <2>4. Fails(server[i], server'[i], streak[i], streak'[i])
    BY <2>1 DEF HealthStep, Waits, IsPromoted, Succeeds, IsUnblocked, IsReset
  <2>5. OneMore(server[i].failures, MaxFailures) >= BlockAt
    BY <2>4 DEF Fails
  <2>6. OneMore(streak[i], BlockAt) = BlockAt
    BY <2>2, <2>3, <2>5 DEF OneMore
  <2> QED
    BY <2>4, <2>6 DEF Fails
<1> QED
  BY <1>1, TypeCorrect, FailuresAreInARowHolds, PTL DEF Spec, BlocksOnlyAfterStreak

-----------------------------------------------------------------------------
(* Selection *)

\* Promotion neither blocks a server nor lets one out.
LEMMA PromotedKeepsBlocked ==
    ASSUME NEW s \in ServerType PROVE Promoted(s).blocked = s.blocked
<1>1. CASE Promoted(s) = s
  BY <1>1
<1>2. CASE Promoted(s) = [s EXCEPT !.healthy = TRUE, !.failures = 0]
  BY <1>2 DEF ServerType
<1> QED
  BY <1>1, <1>2 DEF Promoted

\* Promotion leaves no server both healthy and blocked if none was.
LEMMA PromotedIsConsistent ==
    ASSUME NEW s \in ServerType, s.healthy => ~s.blocked
    PROVE  Promoted(s).healthy => ~Promoted(s).blocked
  BY PromotedKeepsBlocked DEF Promoted

\* Next returns a blocked server only if all are, although the round robin never
\* looks at `blocked': it relies on healthy servers not being blocked.
LEMMA ChoiceAvoidsBlocked ==
    ASSUME NEW list, \A i \in Servers : list[i].healthy => ~list[i].blocked,
           NEW c \in Choices(list), list[c].blocked
    PROVE  \A i \in Servers : list[i].blocked
<1>1. CASE Candidates(list) = {}
  BY <1>1 DEF Choices, Soonest
<1>2. CASE Candidates(list) # {}
  BY <1>2 DEF Choices, RoundRobin, Weighted, Candidates
<1> QED
  BY <1>1, <1>2

\* A stream is sent to a blocked server only when every server is blocked.
THEOREM AvoidsBlockedHolds == Spec => AvoidsBlocked
<1> DEFINE Avoids == \A w \in Workers : SelectNext(w) /\ server[choice'[w]].blocked
                         => \A i \in Servers : server[i].blocked
<1>1. TypeOK /\ HealthIsConsistent /\ [Next]_vars => [Avoids]_vars
  <2> SUFFICES ASSUME TypeOK, HealthIsConsistent, NEW w \in Workers, SelectNext(w),
                      server[choice'[w]].blocked
               PROVE  \A i \in Servers : server[i].blocked
    OBVIOUS
  <2> DEFINE list == [i \in Servers |-> Promoted(server[i])]
  <2>1. \A i \in Servers : server[i] \in ServerType
    BY DEF TypeOK
  <2>2. \A i \in Servers : list[i].blocked = server[i].blocked
    BY <2>1, PromotedKeepsBlocked
  <2>3. \A i \in Servers : list[i].healthy => ~list[i].blocked
    BY <2>1, PromotedIsConsistent DEF HealthIsConsistent
  <2>4. PICK c \in Choices(list) : choice' = [choice EXCEPT ![w] = c]
    BY DEF SelectNext
  <2>5. choice'[w] = c /\ c \in Servers
    BY <2>4, ChoicesAreServers DEF TypeOK
  <2>6. list[c].blocked
    BY <2>2, <2>5
  <2> HIDE DEF list
  <2>7. \A i \in Servers : list[i].blocked
    BY <2>3, <2>6, ChoiceAvoidsBlocked
  <2> QED
    BY <2>2, <2>7
<1> QED
  BY <1>1, TypeCorrect, HealthIsConsistentHolds, PTL DEF Spec, AvoidsBlocked

-----------------------------------------------------------------------------
(* The speed test's marks *)

\* Changing other fields of a server keeps the mark of the test.
LEMMA SameTesting ==
    ASSUME NEW s \in ServerType
    PROVE  /\ Promoted(s).testing = s.testing
           /\ [s EXCEPT !.blocked = FALSE, !.healthy = FALSE, !.left = 1].testing = s.testing
           /\ [s EXCEPT !.healthy = TRUE, !.blocked = FALSE, !.left = 0, !.failures = 0].testing = s.testing
  BY DEF ServerType, Promoted

\* Counting a stream on any server keeps the marks.
LEMMA CountKeepsMark ==
    ASSUME TypeOK, NEW j \in Servers, NEW i \in Servers,
           \/ server' = [server EXCEPT ![j].streams = @ + 1]
           \/ server' = [server EXCEPT ![j].streams = @ - 1]
    PROVE  server'[i].testing = server[i].testing
<1>1. server[i] \in ServerType
  BY DEF TypeOK
<1>2. PICK n : server' = [server EXCEPT ![j].streams = n]
  <2>1. CASE server' = [server EXCEPT ![j].streams = @ + 1]
    BY <2>1, Zenon
  <2>2. CASE server' = [server EXCEPT ![j].streams = @ - 1]
    BY <2>2, Zenon
  <2> QED
    BY <2>1, <2>2
<1>3. server'[i] = server[i] \/ server'[i] = [server[i] EXCEPT !.streams = n]
  BY <1>2 DEF TypeOK
<1> QED
  BY <1>1, <1>3 DEF ServerType

\* A result keeps the mark, wherever it comes from.
LEMMA ResultKeepsMark ==
    ASSUME TypeOK, NEW j \in Servers, MarkUnhealthy(j) \/ UpdateSpeedScore(j), NEW i \in Servers
    PROVE  server'[i].testing = server[i].testing
<1>1. server[i] \in ServerType
  BY DEF TypeOK
<1>2. CASE MarkUnhealthy(j)
  BY <1>1, <1>2 DEF MarkUnhealthy, TypeOK, ServerType
<1>3. CASE UpdateSpeedScore(j)
  <2>1. PICK v \in Scores : server' = [server EXCEPT ![j].score = v]
    BY <1>3 DEF UpdateSpeedScore
  <2> QED
    BY <1>1, <2>1 DEF TypeOK, ServerType
<1> QED
  BY <1>2, <1>3

\* No step but the beginning of a test marks a server.
LEMMA MarkStep ==
    ASSUME TypeOK, [Next]_vars, ~BeginTest, NEW i \in Servers, server'[i].testing
    PROVE  server[i].testing /\ testOn' = testOn
<1>0. server[i] \in ServerType
  BY DEF TypeOK
<1>1. ASSUME NEW w \in Workers, Streams(w) PROVE server[i].testing /\ testOn' = testOn
  <2>1. CASE SelectNext(w)
    <3>1. server'[i] = Promoted(server[i])
      BY <2>1 DEF SelectNext
    <3>2. server'[i].testing = server[i].testing
      BY <1>0, <3>1, SameTesting
    <3>3. testOn' = testOn
      BY <2>1 DEF SelectNext
    <3> QED
      BY <3>2, <3>3
  <2>2. CASE IncrementStreams(w)
    <3>0. choice[w] \in Servers
      BY DEF TypeOK
    <3>1. server' = [server EXCEPT ![choice[w]].streams = @ + 1]
      BY <2>2 DEF IncrementStreams
    <3>2. server'[i].testing = server[i].testing
      BY <3>0, <3>1, CountKeepsMark, Zenon
    <3> QED
      BY <2>2, <3>2 DEF IncrementStreams
  <2>5. CASE DecrementStreams(w)
    <3>0. choice[w] \in Servers
      BY DEF TypeOK
    <3>1. server' = [server EXCEPT ![choice[w]].streams = @ - 1]
      BY <2>5 DEF DecrementStreams
    <3>2. server'[i].testing = server[i].testing
      BY <3>0, <3>1, CountKeepsMark, Zenon
    <3> QED
      BY <2>5, <3>2 DEF DecrementStreams
  <2>3. CASE Failed(w) \/ Scored(w)
    <3>1. choice[w] \in Servers
      BY DEF TypeOK
    <3>2. server'[i].testing = server[i].testing
      BY <2>3, <3>1, ResultKeepsMark DEF Failed, Scored
    <3> QED
      BY <2>3, <3>2 DEF Failed, Scored
  <2>4. CASE Succeeded(w)
    <3>1. server'[i] = server[i] \/ server'[i] = [server[i] EXCEPT !.failures = 0]
      BY <2>4 DEF Succeeded, MarkSuccess, TypeOK
    <3> QED
      BY <1>0, <2>4, <3>1 DEF Succeeded, ServerType
  <2> QED
    BY <1>1, <2>1, <2>2, <2>3, <2>4, <2>5 DEF Streams
<1>2. CASE EndTest
  <2>1. server'[i] = [server[i] EXCEPT !.testing = FALSE]
    BY <1>2 DEF EndTest
  <2> QED
    BY <1>0, <2>1 DEF ServerType
<1>3. ASSUME NEW j \in Servers, Probe(j) PROVE server[i].testing /\ testOn' = testOn
  BY <1>3, ResultKeepsMark DEF Probe
<1>4. ASSUME UnblockAll \/ \E j \in Servers : UnblockServer(j)
      PROVE  server[i].testing /\ testOn' = testOn
  <2>1. \/ server'[i] = server[i]
        \/ server'[i] = [server[i] EXCEPT !.blocked = FALSE, !.healthy = FALSE, !.left = 1]
    BY <1>4 DEF UnblockAll, UnblockServer, TypeOK
  <2> QED
    BY <1>0, <1>4, <2>1, SameTesting DEF UnblockAll, UnblockServer
<1>5. CASE ResetCooldowns
  <2>1. server'[i] = [server[i] EXCEPT !.healthy = TRUE, !.blocked = FALSE, !.left = 0, !.failures = 0]
    BY <1>5 DEF ResetCooldowns
  <2> QED
    BY <1>0, <1>5, <2>1, SameTesting DEF ResetCooldowns
<1>6. CASE UpdateServers
  BY <1>6 DEF UpdateServers, NewServer
<1>7. CASE Tick
  <2>1. PICK n : server'[i] = [server[i] EXCEPT !.left = n]
    BY <1>7 DEF Tick
  <2> QED
    BY <1>0, <1>7, <2>1 DEF Tick, ServerType
<1>8. CASE Stop \/ UNCHANGED vars
  BY <1>8 DEF Stop, vars
<1> QED
  BY <1>1, <1>2, <1>3, <1>4, <1>5, <1>6, <1>7, <1>8 DEF Next

\* When no test runs none keeps a server out of the selection: what results, unblocks and
\* restarts happen during a test, its end releases every server (RunSpeedTest).
THEOREM TestingEndsHolds == Spec => []TestingEnds
<1>1. Init => TestingEnds
  BY DEF Init, NewServer, TestingEnds
<1>2. TypeOK /\ TestingEnds /\ [Next]_vars => TestingEnds'
  <2> SUFFICES ASSUME TypeOK, TestingEnds, [Next]_vars, ~testOn', NEW i \in Servers, server'[i].testing
               PROVE  FALSE
    BY DEF TestingEnds
  <2>1. ~BeginTest
    BY DEF BeginTest
  <2> QED
    BY <2>1, MarkStep DEF TestingEnds
<1> QED
  BY <1>1, <1>2, TypeCorrect, PTL DEF Spec
=============================================================================
