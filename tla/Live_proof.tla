----------------------------- MODULE Live_proof -----------------------------
(***************************************************************************)
(* What is proved of the live parts of the dashboard, Socket,              *)
(* ControlSurface and FlowRenderer, for every value of their constants:    *)
(* types and bounds, the chains of reconnections, the order of the events, *)
(* the lock of the button, the history of speeds, the loop of frames and   *)
(* the pipes of the diagram; and that each part keeps all of it while      *)
(* the others stand still (MCLive).                                        *)
(***************************************************************************)
EXTENDS MCLive, Loops, FiniteSetTheorems, SequenceTheorems, TLAPS

-----------------------------------------------------------------------------
(* Socket: the chains of reconnections *)

(* The property with what it needs to be counted. *)
ChainInv ==
    /\ mounts \in Nat
    /\ socket \in [Sockets -> SocketStates]
    /\ timers \subseteq Sockets
    /\ ChainsBounded

LEMMA SocketsFinite == IsFiniteSet(Sockets) /\ 1 \in Sockets
<1>1. MaxMounts \in Nat /\ MaxMounts # 0 /\ MaxFailures \in Nat
  BY SocketAssumption
<1>2. 1 \in Int /\ 2 * MaxMounts + MaxFailures \in Int /\ 1 \in Sockets
  BY <1>1 DEF Sockets
<1> QED
  BY <1>2, FS_Interval DEF Sockets

LEMMA ChainInit == SocketInit => ChainInv
<1> SUFFICES ASSUME SocketInit PROVE ChainInv
  OBVIOUS
<1>1. socket \in [Sockets -> SocketStates] /\ Live = {1}
  BY SocketsFinite DEF SocketInit, SocketStates, Live
<1>2. Cardinality(Live) = 1 /\ Cardinality(timers) = 0
  BY <1>1, FS_Singleton, FS_EmptySet DEF SocketInit
<1> QED
  BY <1>1, <1>2 DEF SocketInit, ChainInv, ChainsBounded

(* Live and timers can be counted. *)
LEMMA Counted ==
    ASSUME ChainInv
    PROVE  /\ IsFiniteSet(Live) /\ IsFiniteSet(timers)
           /\ Cardinality(Live) \in Nat /\ Cardinality(timers) \in Nat
<1>1. Live \in SUBSET Sockets /\ timers \in SUBSET Sockets
  BY DEF Live, ChainInv
<1>2. IsFiniteSet(Live) /\ IsFiniteSet(timers)
  BY <1>1, SocketsFinite, FS_Subset
<1> QED
  BY <1>2, FS_CardinalityType

(* connect opens at most one socket. *)
LEMMA OneConnection ==
    ASSUME ChainInv, Connect(socket)
    PROVE  /\ socket' \in [Sockets -> SocketStates]
           /\ IsFiniteSet(Live')
           /\ Cardinality(Live') \in Nat /\ Cardinality(Live') <= Cardinality(Live) + 1
<1>1. CASE socket' = socket
  <2>1. Live' = Live
    BY <1>1 DEF Live
  <2> QED
    BY <1>1, <2>1, Counted DEF ChainInv
<1>2. ASSUME NEW s \in Sockets, socket' = [socket EXCEPT ![s] = "connecting"]
      PROVE  /\ socket' \in [Sockets -> SocketStates] /\ IsFiniteSet(Live')
             /\ Cardinality(Live') \in Nat /\ Cardinality(Live') <= Cardinality(Live) + 1
  <2>1. socket' \in [Sockets -> SocketStates] /\ Live' = Live \cup {s}
    BY <1>2 DEF ChainInv, Live, SocketStates
  <2>2. /\ IsFiniteSet(Live \cup {s})
        /\ Cardinality(Live \cup {s}) = IF s \in Live THEN Cardinality(Live) ELSE Cardinality(Live) + 1
    BY Counted, FS_AddElement
  <2> QED
    BY <2>1, <2>2, Counted
<1> QED
  BY <1>1, <1>2 DEF Connect

LEMMA ChainStep == ChainInv /\ [SocketNext]_socketVars => ChainInv'
<1> SUFFICES ASSUME ChainInv, [SocketNext]_socketVars PROVE ChainInv'
  OBVIOUS
<1>0. /\ mounts \in Nat /\ socket \in [Sockets -> SocketStates] /\ timers \subseteq Sockets
      /\ Cardinality(Live) + Cardinality(timers) <= mounts
  BY DEF ChainInv, ChainsBounded
<1>1. CASE Mount
  <2>1. mounts' = mounts + 1 /\ timers' = timers /\ Connect(socket)
    BY <1>1 DEF Mount
  <2> QED
    BY <1>0, <2>1, Counted, OneConnection DEF ChainInv, ChainsBounded
<1>2. CASE Unmount
  <2>1. /\ mounts' = mounts /\ timers' = timers \ {timerRef}
        /\ socket' \in [Sockets -> SocketStates] /\ Live' = Live
    BY <1>0, <1>2 DEF Unmount, Live, SocketStates
  <2>2. /\ IsFiniteSet(timers \ {timerRef})
        /\ Cardinality(timers \ {timerRef})
             = IF timerRef \in timers THEN Cardinality(timers) - 1 ELSE Cardinality(timers)
    BY Counted, FS_RemoveElement, Zenon
  <2>3. Cardinality(timers \ {timerRef}) \in Nat
    BY <2>2, FS_CardinalityType
  <2>4. Cardinality(timers') \in Nat /\ Cardinality(timers') <= Cardinality(timers)
    BY <2>1, <2>2, <2>3, Counted
  <2> QED
    BY <1>0, <2>1, <2>4, Counted DEF ChainInv, ChainsBounded
<1>3. ASSUME NEW s \in Sockets, Opened(s) \/ Break(s) PROVE ChainInv'
  <2>1. /\ mounts' = mounts /\ timers' = timers
        /\ socket' \in [Sockets -> SocketStates] /\ Live' = Live
    BY <1>0, <1>3 DEF Opened, Break, Live, SocketStates
  <2> QED
    BY <1>0, <2>1 DEF ChainInv, ChainsBounded
<1>4. ASSUME NEW s \in Sockets, Closed(s) PROVE ChainInv'
  <2>1. /\ mounts' = mounts /\ timers' = timers \cup {s}
        /\ socket' \in [Sockets -> SocketStates] /\ s \in Live /\ Live' = Live \ {s}
    BY <1>0, <1>4 DEF Closed, Live, SocketStates
  <2>2. Cardinality(Live') = Cardinality(Live) - 1
    BY <2>1, Counted, FS_RemoveElement
  <2>3. Cardinality(timers \cup {s})
             = IF s \in timers THEN Cardinality(timers) ELSE Cardinality(timers) + 1
    BY Counted, FS_AddElement, Zenon
  <2>4. Cardinality(timers') <= Cardinality(timers) + 1 /\ Cardinality(timers') \in Nat
    BY <2>1, <2>3, Counted
  <2> QED
    BY <1>0, <2>1, <2>2, <2>4, Counted DEF ChainInv, ChainsBounded
<1>5. ASSUME NEW s \in Sockets, Reconnect(s) PROVE ChainInv'
  <2>1. mounts' = mounts /\ s \in timers /\ timers' = timers \ {s} /\ Connect(socket)
    BY <1>5 DEF Reconnect
  <2>2. Cardinality(timers') = Cardinality(timers) - 1
    BY <2>1, Counted, FS_RemoveElement
  <2> QED
    BY <1>0, <2>1, <2>2, Counted, OneConnection DEF ChainInv, ChainsBounded
<1>6. ASSUME UNCHANGED <<mounts, socket, timers>> PROVE ChainInv'
  <2>1. Live' = Live
    BY <1>6 DEF Live
  <2> QED
    BY <1>0, <1>6, <2>1 DEF ChainInv, ChainsBounded
<1>7. ASSUME NEW s \in Sockets, HubStep(s) \/ Message(s) PROVE UNCHANGED <<mounts, socket, timers>>
  BY <1>7 DEF HubStep, Accept, Register, Forget, Write, Message, hookVars
<1>8. ASSUME AddEvent \/ BroadcastTick PROVE UNCHANGED <<mounts, socket, timers>>
  BY <1>8 DEF AddEvent, BroadcastTick, hookVars
<1>9. ASSUME UNCHANGED socketVars PROVE UNCHANGED <<mounts, socket, timers>>
  BY <1>9 DEF socketVars, hookVars
<1> QED
  BY <1>1, <1>2, <1>3, <1>4, <1>5, <1>6, <1>7, <1>8, <1>9 DEF SocketNext, HookStep

(* However closes, timers and remounts of useWebSocket interleave, there are never more
   chains of reconnections than the hook was mounted. *)
THEOREM ChainsBoundedHolds == SocketSpec => []ChainsBounded
<1>1. ChainInv => ChainsBounded
  BY DEF ChainInv
<1> QED
  BY ChainInit, ChainStep, <1>1, PTL DEF SocketSpec

-----------------------------------------------------------------------------
(* Socket: types, the header and the order of the events *)

LEMMA SocketBounds ==
    /\ MaxMounts \in Nat /\ MaxMounts # 0 /\ MaxFailures \in Nat /\ MaxEvents \in Nat
    /\ BufferCap \in Nat /\ BufferCap # 0 /\ LogCap \in Nat /\ LogCap # 0
  BY SocketAssumption

(* The last n of a sequence are its elements from some place on. *)
LEMMA LastNProperties ==
    ASSUME NEW S, NEW seq \in Seq(S), NEW n \in Nat
    PROVE  /\ LastN(seq, n) \in Seq(S) /\ Len(LastN(seq, n)) <= n
           /\ \E d \in Nat : /\ Len(LastN(seq, n)) + d = Len(seq)
                             /\ \A i \in 1 .. Len(LastN(seq, n)) : LastN(seq, n)[i] = seq[i + d]
<1> DEFINE last == LastN(seq, n)
<1> SUFFICES /\ last \in Seq(S) /\ Len(last) <= n
             /\ \E d \in Nat : /\ Len(last) + d = Len(seq)
                               /\ \A i \in 1 .. Len(last) : last[i] = seq[i + d]
  OBVIOUS
<1>1. CASE Len(seq) <= n
  <2>1. last = seq /\ Len(seq) \in Nat
    BY <1>1 DEF LastN
  <2>2. Len(last) + 0 = Len(seq) /\ \A i \in 1 .. Len(last) : last[i] = seq[i + 0]
    BY <2>1
  <2> HIDE DEF last
  <2> QED
    BY <1>1, <2>1, <2>2
<1>2. CASE ~(Len(seq) <= n)
  <2> DEFINE d == Len(seq) - n
  <2>1. last = SubSeq(seq, d + 1, Len(seq)) /\ d \in Nat /\ Len(seq) \in Nat /\ n + d = Len(seq)
    BY <1>2 DEF LastN
  <2>2. /\ SubSeq(seq, d + 1, Len(seq)) \in Seq(S) /\ Len(SubSeq(seq, d + 1, Len(seq))) = n
        /\ \A i \in 1 .. n : SubSeq(seq, d + 1, Len(seq))[i] = seq[i + d]
    BY <1>2, <2>1, SubSeqProperties
  <2> HIDE DEF d, last
  <2>3. last \in Seq(S) /\ Len(last) = n /\ \A i \in 1 .. Len(last) : last[i] = seq[i + d]
    BY <2>1, <2>2
  <2>4. Len(last) <= n /\ d \in Nat /\ Len(last) + d = Len(seq)
    BY <2>1, <2>3
  <2> QED
    BY <2>3, <2>4, Zenon
<1> QED
  BY <1>1, <1>2

-----------------------------------------------------------------------------
(* Types and bounds *)

LEMMA SocketTypesInit == SocketInit => SocketTypeOK
<1> SUFFICES ASSUME SocketInit PROVE SocketTypeOK
  OBVIOUS
<1>1. 1 \in Sockets /\ 1 \in 1 .. MaxMounts /\ 1 \in 1 .. MaxEvents + 1 /\ 0 \in 0 .. MaxFailures
  BY SocketBounds DEF Sockets
<1>2. <<>> \in Seq(Events) /\ Len(<<>>) = 0 /\ <<>> \in Seq(Seq(Events)) /\ 0 <= LogCap /\ 0 <= BufferCap
  BY SocketBounds
<1>3. socket \in [Sockets -> SocketStates]
  BY DEF SocketInit, SocketStates
<1>4. /\ peer \in [Sockets -> {"none", "accepted", "registered", "gone"}]
      /\ wire \in [Sockets -> Seq(Seq(Events))]
      /\ cast \in [to : SUBSET Sockets, events : Seq(Events)]
  BY <1>2 DEF SocketInit
<1> QED
  BY <1>1, <1>2, <1>3, <1>4 DEF SocketInit, SocketTypeOK

LEMMA ConnectTypes ==
    ASSUME SocketTypeOK, Connect(socket)
    PROVE  socket' \in [Sockets -> SocketStates] /\ wsRef' \in Sockets \cup {0}
  BY DEF SocketTypeOK, Connect, SocketStates

LEMMA SocketTypesStep == SocketTypeOK /\ [SocketNext]_socketVars => SocketTypeOK'
<1> SUFFICES ASSUME SocketTypeOK, [SocketNext]_socketVars PROVE SocketTypeOK'
  OBVIOUS
<1>0. /\ mounts \in 1 .. MaxMounts /\ mounted \in BOOLEAN
      /\ failures \in 0 .. MaxFailures
      /\ socket \in [Sockets -> SocketStates]
      /\ wsRef \in Sockets \cup {0}
      /\ timers \subseteq Sockets /\ timerRef \in Sockets \cup {0}
      /\ connected \in BOOLEAN
      /\ log \in Seq(Events) /\ Len(log) <= LogCap
      /\ peer \in [Sockets -> {"none", "accepted", "registered", "gone"}]
      /\ clients \subseteq Sockets
      /\ nextEvent \in 1 .. MaxEvents + 1
      /\ buffer \in Seq(Events) /\ Len(buffer) <= BufferCap
      /\ cast \in [to : SUBSET Sockets, events : Seq(Events)]
      /\ wire \in [Sockets -> Seq(Seq(Events))]
  BY DEF SocketTypeOK
<1>1. CASE Mount
  <2>1. mounts' \in 1 .. MaxMounts /\ mounted' \in BOOLEAN
    BY <1>0, <1>1, SocketBounds DEF Mount
  <2>2. UNCHANGED <<failures, timers, timerRef, connected, log, peer, clients, nextEvent, buffer, cast, wire>>
    BY <1>1 DEF Mount, hubVars
  <2> QED
    BY <1>0, <1>1, <2>1, <2>2, ConnectTypes DEF SocketTypeOK, Mount
<1>2. CASE Unmount
  <2>1. socket' \in [Sockets -> SocketStates]
    BY <1>0, <1>2 DEF Unmount, SocketStates
  <2>2. UNCHANGED <<mounts, wsRef, timerRef, connected, log, peer, clients, nextEvent, buffer, cast, failures, wire>>
    BY <1>2 DEF Unmount, hubVars
  <2>3. mounted' \in BOOLEAN /\ timers' \subseteq Sockets
    BY <1>0, <1>2 DEF Unmount
  <2> QED
    BY <1>0, <2>1, <2>2, <2>3 DEF SocketTypeOK
<1>3. ASSUME NEW s \in Sockets, Opened(s) \/ Break(s) PROVE SocketTypeOK'
  <2>0. failures' \in 0 .. MaxFailures
    BY <1>0, <1>3, SocketBounds DEF Opened, Break
  <2>1. socket' \in [Sockets -> SocketStates] /\ connected' \in BOOLEAN
    BY <1>0, <1>3 DEF Opened, Break, SocketStates
  <2>2. UNCHANGED <<mounts, mounted, wsRef, timers, timerRef, log, peer, clients, nextEvent, buffer, cast, wire>>
    BY <1>3 DEF Opened, Break, hubVars
  <2> QED
    BY <1>0, <2>0, <2>1, <2>2 DEF SocketTypeOK
<1>4. ASSUME NEW s \in Sockets, Message(s) PROVE SocketTypeOK'
  <2>1. wire[s] \in Seq(Seq(Events)) /\ wire[s] # <<>>
    BY <1>0, <1>4 DEF Message
  <2>2. Head(wire[s]) \in Seq(Events) /\ Tail(wire[s]) \in Seq(Seq(Events))
    BY <2>1, HeadTailProperties
  <2>3. log \o Head(wire[s]) \in Seq(Events)
    BY <1>0, <2>2
  <2>4. log' \in Seq(Events) /\ Len(log') <= LogCap
    BY <1>4, <2>3, SocketBounds, LastNProperties DEF Message
  <2>5. wire' \in [Sockets -> Seq(Seq(Events))]
    BY <1>0, <1>4, <2>2 DEF Message
  <2>6. UNCHANGED <<mounts, mounted, socket, wsRef, timers, timerRef, connected, peer, clients, nextEvent, buffer,
                    cast, failures>>
    BY <1>4 DEF Message, hubVars
  <2> QED
    BY <1>0, <2>4, <2>5, <2>6 DEF SocketTypeOK
<1>5. ASSUME NEW s \in Sockets, Closed(s) PROVE SocketTypeOK'
  <2>1. socket' \in [Sockets -> SocketStates] /\ wire' \in [Sockets -> Seq(Seq(Events))]
    BY <1>0, <1>5 DEF Closed, SocketStates
  <2>2. connected' \in BOOLEAN /\ wsRef' \in Sockets \cup {0} /\ timers' \subseteq Sockets
        /\ timerRef' \in Sockets \cup {0}
    BY <1>0, <1>5 DEF Closed
  <2>3. UNCHANGED <<mounts, mounted, log, peer, clients, nextEvent, buffer, cast, failures>>
    BY <1>5 DEF Closed, hubVars
  <2> QED
    BY <1>0, <2>1, <2>2, <2>3 DEF SocketTypeOK
<1>6. ASSUME NEW s \in Sockets, Reconnect(s) PROVE SocketTypeOK'
  <2>1. timers' \subseteq Sockets /\ Connect(socket)
    BY <1>0, <1>6 DEF Reconnect
  <2>2. UNCHANGED <<mounts, mounted, timerRef, connected, log, peer, clients, nextEvent, buffer, cast, failures, wire>>
    BY <1>6 DEF Reconnect, hubVars
  <2> QED
    BY <1>0, <2>1, <2>2, ConnectTypes DEF SocketTypeOK
<1>7. ASSUME NEW s \in Sockets, Accept(s) \/ Register(s) \/ Forget(s) PROVE SocketTypeOK'
  <2>1. peer' \in [Sockets -> {"none", "accepted", "registered", "gone"}] /\ clients' \subseteq Sockets
    BY <1>0, <1>7 DEF Accept, Register, Forget
  <2>2. UNCHANGED <<mounts, mounted, socket, wsRef, timers, timerRef, connected, log, nextEvent, buffer, cast,
                    failures, wire>>
    BY <1>7 DEF Accept, Register, Forget, hookVars
  <2> QED
    BY <1>0, <2>1, <2>2 DEF SocketTypeOK
<1>8. ASSUME NEW s \in Sockets, Write(s) PROVE SocketTypeOK'
  <2>1. cast.to \in SUBSET Sockets /\ cast.events \in Seq(Events) /\ wire[s] \in Seq(Seq(Events))
    BY <1>0
  <2>2. Append(wire[s], cast.events) \in Seq(Seq(Events))
    BY <2>1
  <2>3. wire' \in [Sockets -> Seq(Seq(Events))]
    BY <1>0, <1>8, <2>2 DEF Write
  <2>4. cast' \in [to : SUBSET Sockets, events : Seq(Events)]
    BY <1>0, <1>8, <2>1 DEF Write
  <2>5. peer' \in [Sockets -> {"none", "accepted", "registered", "gone"}] /\ clients' \subseteq Sockets
    BY <1>0, <1>8 DEF Write
  <2>6. UNCHANGED <<mounts, mounted, socket, wsRef, timers, timerRef, connected, log, nextEvent, buffer, failures>>
    BY <1>8 DEF Write, hookVars
  <2> QED
    BY <1>0, <2>3, <2>4, <2>5, <2>6 DEF SocketTypeOK
<1>9. CASE AddEvent
  <2>1. nextEvent \in Events /\ nextEvent' \in 1 .. MaxEvents + 1
    BY <1>0, <1>9, SocketBounds DEF AddEvent, Events
  <2>2. Append(buffer, nextEvent) \in Seq(Events)
    BY <1>0, <2>1
  <2>3. buffer' \in Seq(Events) /\ Len(buffer') <= BufferCap
    BY <1>9, <2>2, SocketBounds, LastNProperties DEF AddEvent
  <2>4. UNCHANGED <<mounts, mounted, socket, wsRef, timers, timerRef, connected, log, peer, clients, cast,
                    failures, wire>>
    BY <1>9 DEF AddEvent, hookVars
  <2> QED
    BY <1>0, <2>1, <2>3, <2>4 DEF SocketTypeOK
<1>10. CASE BroadcastTick
  <2>1. cast' \in [to : SUBSET Sockets, events : Seq(Events)]
    BY <1>0, <1>10 DEF BroadcastTick
  <2>2. buffer' \in Seq(Events) /\ Len(buffer') <= BufferCap
    BY <1>10, SocketBounds DEF BroadcastTick
  <2>3. UNCHANGED <<mounts, mounted, socket, wsRef, timers, timerRef, connected, log, peer, clients, nextEvent,
                    failures, wire>>
    BY <1>10 DEF BroadcastTick, hookVars
  <2> QED
    BY <1>0, <2>1, <2>2, <2>3 DEF SocketTypeOK
<1>11. CASE UNCHANGED socketVars
  BY <1>0, <1>11 DEF SocketTypeOK, socketVars, hookVars, hubVars
<1> QED
  BY <1>1, <1>2, <1>3, <1>4, <1>5, <1>6, <1>7, <1>8, <1>9, <1>10, <1>11 DEF SocketNext, HookStep, HubStep

(* The hook, the hub and the event buffer keep their types, and the buffer and the log their
   capacities, whatever the clients and the engines do (useWebSocket, websocket.go). *)
THEOREM SocketTypes == SocketSpec => []SocketTypeOK
  BY SocketTypesInit, SocketTypesStep, PTL DEF SocketSpec

-----------------------------------------------------------------------------
(* One chain: mounted once, only the current socket is alive, and no timer waits beside it. *)
OneSocket ==
    mounts = 1 =>
       /\ \A s \in Live : s = wsRef /\ timers = {}
       /\ \A s, t \in timers : s = t
       /\ connected => wsRef # 0 /\ socket[wsRef] \in {"open", "closing"}

LEMMA OneSocketInit == SocketInit => OneSocket
<1> SUFFICES ASSUME SocketInit PROVE OneSocket
  OBVIOUS
<1>1. \A s \in Live : s = 1
  BY DEF SocketInit, Live
<1> QED
  BY <1>1 DEF SocketInit, OneSocket

(* The steps that leave the number of mounts alone, and the one that does not. *)
LEMMA MountsGrow ==
    SocketTypeOK /\ [SocketNext]_socketVars =>
        \/ Mount /\ mounts' # 1
        \/ mounts' = mounts /\ ~Mount
<1> SUFFICES ASSUME SocketTypeOK, [SocketNext]_socketVars
             PROVE  (Mount /\ mounts' # 1) \/ (mounts' = mounts /\ ~Mount)
  OBVIOUS
<1>0. mounts \in Nat /\ mounts >= 1
  BY SocketBounds DEF SocketTypeOK
<1>1. CASE Mount
  BY <1>0, <1>1 DEF Mount
<1>2. CASE ~Mount
  <2>1. CASE Unmount \/ AddEvent \/ BroadcastTick \/ UNCHANGED socketVars
    BY <1>2, <2>1 DEF Unmount, AddEvent, BroadcastTick, socketVars, hookVars
  <2>2. ASSUME NEW s \in Sockets, HookStep(s) \/ HubStep(s) \/ Break(s) PROVE mounts' = mounts
    BY <2>2 DEF HookStep, HubStep, Opened, Message, Closed, Reconnect, Accept, Register, Forget, Write,
                Break, hookVars
  <2> QED
    BY <1>2, <2>1, <2>2 DEF SocketNext
<1> QED
  BY <1>1, <1>2

LEMMA OneSocketStep == SocketTypeOK /\ OneSocket /\ [SocketNext]_socketVars => OneSocket'
<1> SUFFICES ASSUME SocketTypeOK, OneSocket, [SocketNext]_socketVars, mounts' = 1
             PROVE  /\ \A s \in Live' : s = wsRef' /\ timers' = {}
                    /\ \A s, t \in timers' : s = t
                    /\ connected' => wsRef' # 0 /\ socket'[wsRef'] \in {"open", "closing"}
  BY DEF OneSocket
<1>1. mounts = 1 /\ ~Mount
  BY MountsGrow
<1>2. /\ \A s \in Live : s = wsRef /\ timers = {}
      /\ \A s, t \in timers : s = t
      /\ connected => wsRef # 0 /\ socket[wsRef] \in {"open", "closing"}
  BY <1>1 DEF OneSocket
<1>3. socket \in [Sockets -> SocketStates] /\ timers \subseteq Sockets /\ wsRef \in Sockets \cup {0}
  BY DEF SocketTypeOK
<1>4. CASE Unmount
  <2>1. Live' = Live /\ wsRef' = wsRef /\ connected' = connected /\ timers' = timers \ {timerRef}
    BY <1>3, <1>4 DEF Unmount, Live, SocketStates
  <2>2. connected => socket'[wsRef] \in {"open", "closing"}
    <3>1. connected => wsRef \in Sockets
      BY <1>2, <1>3
    <3> QED
      BY <1>2, <1>4, <3>1 DEF Unmount
  <2> QED
    BY <1>2, <2>1, <2>2
<1>5. ASSUME NEW s \in Sockets, Opened(s)
      PROVE  /\ \A t \in Live' : t = wsRef' /\ timers' = {}
             /\ \A t, u \in timers' : t = u
             /\ connected' => wsRef' # 0 /\ socket'[wsRef'] \in {"open", "closing"}
  <2>1. s \in Live /\ Live' = Live /\ UNCHANGED <<wsRef, timers>> /\ socket'[s] = "open"
    BY <1>3, <1>5 DEF Opened, Live
  <2>2. s = wsRef /\ s # 0 /\ timers = {}
    BY <1>2, <2>1, <1>3, SocketBounds DEF Sockets
  <2> QED
    BY <1>2, <2>1, <2>2
<1>6. ASSUME NEW s \in Sockets, Break(s)
      PROVE  /\ \A t \in Live' : t = wsRef' /\ timers' = {}
             /\ \A t, u \in timers' : t = u
             /\ connected' => wsRef' # 0 /\ socket'[wsRef'] \in {"open", "closing"}
  <2>1. Live' = Live /\ UNCHANGED <<wsRef, timers, connected>>
    BY <1>3, <1>6 DEF Break, Live
  <2>2. connected => socket'[wsRef] \in {"open", "closing"}
    <3>1. connected => wsRef \in Sockets
      BY <1>2, <1>3
    <3> QED
      BY <1>2, <1>3, <1>6, <3>1 DEF Break
  <2> QED
    BY <1>2, <2>1, <2>2
<1>7. ASSUME NEW s \in Sockets, Closed(s)
      PROVE  /\ \A t \in Live' : t = wsRef' /\ timers' = {}
             /\ \A t, u \in timers' : t = u
             /\ connected' => wsRef' # 0 /\ socket'[wsRef'] \in {"open", "closing"}
  <2>1. s \in Live /\ Live' = Live \ {s} /\ connected' = FALSE /\ timers' = timers \cup {s}
    BY <1>3, <1>7 DEF Closed, Live
  <2>2. Live' = {} /\ timers' = {s}
    BY <1>2, <2>1
  <2> QED
    BY <2>1, <2>2
<1>8. ASSUME NEW s \in Sockets, Reconnect(s)
      PROVE  /\ \A t \in Live' : t = wsRef' /\ timers' = {}
             /\ \A t, u \in timers' : t = u
             /\ connected' => wsRef' # 0 /\ socket'[wsRef'] \in {"open", "closing"}
  <2>1. s \in timers /\ timers' = timers \ {s} /\ connected' = connected /\ Connect(socket)
    BY <1>8 DEF Reconnect
  <2>2. Live = {} /\ timers' = {}
    BY <1>2, <2>1
  <2>3. ~connected /\ ~(wsRef # 0 /\ socket[wsRef] = "open")
    BY <1>2, <1>3, <2>2 DEF Live
  <2>4. PICK t \in Sockets : socket' = [socket EXCEPT ![t] = "connecting"] /\ wsRef' = t
    BY <2>1, <2>3 DEF Connect
  <2>5. Live' = {t}
    BY <1>3, <2>2, <2>4 DEF Live
  <2> QED
    BY <2>1, <2>2, <2>3, <2>4, <2>5
<1>9. ASSUME UNCHANGED <<socket, wsRef, timers, connected>>
      PROVE  /\ \A t \in Live' : t = wsRef' /\ timers' = {}
             /\ \A t, u \in timers' : t = u
             /\ connected' => wsRef' # 0 /\ socket'[wsRef'] \in {"open", "closing"}
  <2>1. Live' = Live
    BY <1>9 DEF Live
  <2> QED
    BY <1>2, <1>9, <2>1
<1>10. ASSUME NEW s \in Sockets, HubStep(s) \/ Message(s) PROVE UNCHANGED <<socket, wsRef, timers, connected>>
  BY <1>10 DEF HubStep, Accept, Register, Forget, Write, Message, hookVars
<1>11. ASSUME AddEvent \/ BroadcastTick \/ UNCHANGED socketVars
       PROVE  UNCHANGED <<socket, wsRef, timers, connected>>
  BY <1>11 DEF AddEvent, BroadcastTick, socketVars, hookVars
<1> QED
  BY <1>1, <1>4, <1>5, <1>6, <1>7, <1>8, <1>9, <1>10, <1>11 DEF SocketNext, HookStep

(* While the page is mounted once, the header says Live only over an open socket or one whose
   close has not been reported, however breaks, timers and unmounts interleave (onopen,
   onclose and connect of useWebSocket). *)
THEOREM ConnectedIsTruthfulHolds == SocketSpec => []ConnectedIsTruthful
<1>1. OneSocket => ConnectedIsTruthful
  BY DEF OneSocket, ConnectedIsTruthful
<1> QED
  BY <1>1, SocketTypesInit, SocketTypesStep, OneSocketInit, OneSocketStep, PTL DEF SocketSpec

-----------------------------------------------------------------------------
(* The order of the events, wherever they are *)

Ascending(q) == \A i, j \in DOMAIN q : i < j => q[i] < q[j]
Before(p, q) == \A i \in DOMAIN p : \A j \in DOMAIN q : p[i] < q[j]
Past(q, next) == \A i \in DOMAIN q : q[i] < next

(* In the buffer and in the broadcast under way. *)
ServerOrder ==
    /\ Ascending(buffer) /\ Past(buffer, nextEvent)
    /\ Ascending(cast.events) /\ Past(cast.events, nextEvent) /\ Before(cast.events, buffer)

(* On the way to a socket: nothing before it exists, and what a broadcast still has to write
   to it is newer than what it wrote before. *)
WireOrder ==
    \A s \in Sockets :
       /\ socket[s] = "unborn" => peer[s] = "none" /\ wire[s] = <<>> /\ s \notin clients /\ s \notin cast.to
       /\ \A i \in DOMAIN wire[s] :
             /\ Ascending(wire[s][i]) /\ Past(wire[s][i], nextEvent) /\ Before(wire[s][i], buffer)
             /\ s \in cast.to => Before(wire[s][i], cast.events)
             /\ \A j \in DOMAIN wire[s] : i < j => Before(wire[s][i], wire[s][j])

(* In the log, and before what can still come to it. *)
LogOrder ==
    mounts = 1 =>
       /\ Ascending(log) /\ Past(log, nextEvent) /\ Before(log, buffer)
       /\ \A s \in Live : /\ s \in cast.to => Before(log, cast.events)
                          /\ \A i \in DOMAIN wire[s] : Before(log, wire[s][i])

OrderInv == ServerOrder /\ WireOrder /\ LogOrder

LEMMA OrderInit == SocketInit => OrderInv
<1> SUFFICES ASSUME SocketInit PROVE OrderInv
  OBVIOUS
<1>1. /\ buffer = <<>> /\ cast.events = <<>> /\ cast.to = {} /\ clients = {} /\ log = <<>>
      /\ \A s \in Sockets : wire[s] = <<>> /\ peer[s] = "none"
  BY DEF SocketInit
<1>2. ServerOrder
  BY <1>1 DEF ServerOrder, Ascending, Before, Past
<1>3. WireOrder
  BY <1>1 DEF WireOrder
<1>4. LogOrder
  BY <1>1 DEF LogOrder, Ascending, Before, Past, Live
<1> QED
  BY <1>2, <1>3, <1>4 DEF OrderInv

(* Order is kept by what comes late, by cutting a sequence and by joining two. *)
LEMMA OrderOfPart ==
    ASSUME NEW q \in Seq(Nat), NEW p \in Seq(Nat), NEW d \in Nat, Len(p) + d = Len(q),
           \A i \in 1 .. Len(p) : p[i] = q[i + d]
    PROVE  /\ Ascending(q) => Ascending(p)
           /\ \A next \in Nat : Past(q, next) => Past(p, next)
           /\ \A r \in Seq(Nat) : Before(q, r) => Before(p, r)
           /\ \A r \in Seq(Nat) : Before(r, q) => Before(r, p)
<1>1. /\ DOMAIN p = 1 .. Len(p) /\ DOMAIN q = 1 .. Len(q) /\ Len(p) \in Nat /\ Len(q) \in Nat
      /\ \A i \in 1 .. Len(p) : i + d \in 1 .. Len(q)
  OBVIOUS
<1>2. \A i, j \in 1 .. Len(p) : i < j => i + d < j + d
  BY <1>1
<1> QED
  BY <1>1, <1>2 DEF Ascending, Past, Before

LEMMA OrderOfLastN ==
    ASSUME NEW q \in Seq(Nat), NEW n \in Nat
    PROVE  /\ LastN(q, n) \in Seq(Nat)
           /\ Ascending(q) => Ascending(LastN(q, n))
           /\ \A next \in Nat : Past(q, next) => Past(LastN(q, n), next)
           /\ \A r \in Seq(Nat) : Before(q, r) => Before(LastN(q, n), r)
           /\ \A r \in Seq(Nat) : Before(r, q) => Before(r, LastN(q, n))
  BY LastNProperties, OrderOfPart

LEMMA OrderOfJoin ==
    ASSUME NEW p \in Seq(Nat), NEW q \in Seq(Nat)
    PROVE  /\ p \o q \in Seq(Nat)
           /\ Ascending(p) /\ Ascending(q) /\ Before(p, q) => Ascending(p \o q)
           /\ \A next \in Nat : Past(p, next) /\ Past(q, next) => Past(p \o q, next)
           /\ \A r \in Seq(Nat) : Before(p, r) /\ Before(q, r) => Before(p \o q, r)
<1> DEFINE both == p \o q
<1>1. /\ both \in Seq(Nat) /\ Len(p) \in Nat /\ Len(q) \in Nat
      /\ DOMAIN p = 1 .. Len(p) /\ DOMAIN q = 1 .. Len(q) /\ DOMAIN both = 1 .. Len(p) + Len(q)
      /\ \A i \in 1 .. Len(p) + Len(q) : both[i] = IF i <= Len(p) THEN p[i] ELSE q[i - Len(p)]
  BY ConcatProperties
<1>2. \A i \in 1 .. Len(p) + Len(q) : i <= Len(p) => i \in 1 .. Len(p)
  BY <1>1
<1>3. \A i \in 1 .. Len(p) + Len(q) : ~(i <= Len(p)) => i - Len(p) \in 1 .. Len(q)
  BY <1>1
<1>4. \A i, j \in 1 .. Len(p) + Len(q) :
         i < j => (j <= Len(p) => i <= Len(p)) /\ (~(i <= Len(p)) => i - Len(p) < j - Len(p))
  BY <1>1
<1> HIDE DEF both
<1>5. Ascending(p) /\ Ascending(q) /\ Before(p, q) => Ascending(both)
  BY <1>1, <1>2, <1>3, <1>4 DEF Ascending, Before
<1>6. \A next \in Nat : Past(p, next) /\ Past(q, next) => Past(both, next)
  BY <1>1, <1>2, <1>3 DEF Past
<1>7. \A r \in Seq(Nat) : Before(p, r) /\ Before(q, r) => Before(both, r)
  BY <1>1, <1>2, <1>3 DEF Before
<1> QED
  BY <1>1, <1>5, <1>6, <1>7 DEF both

(* A new event comes after all others. *)
LEMMA OrderOfAppend ==
    ASSUME NEW q \in Seq(Nat), NEW e \in Nat, Past(q, e)
    PROVE  /\ Append(q, e) \in Seq(Nat)
           /\ Ascending(q) => Ascending(Append(q, e))
           /\ Past(Append(q, e), e + 1)
           /\ \A r \in Seq(Nat) : Past(r, e) => Past(r, e + 1)
           /\ \A r \in Seq(Nat) : Before(r, q) /\ Past(r, e) => Before(r, Append(q, e))
<1> DEFINE more == Append(q, e)
<1>1. /\ more \in Seq(Nat) /\ Len(q) \in Nat /\ DOMAIN q = 1 .. Len(q) /\ DOMAIN more = 1 .. Len(q) + 1
      /\ \A i \in 1 .. Len(q) : more[i] = q[i] /\ q[i] \in Nat
      /\ more[Len(q) + 1] = e
  OBVIOUS
<1>2. \A i \in 1 .. Len(q) + 1 : i \in 1 .. Len(q) \/ i = Len(q) + 1
  BY <1>1
<1> HIDE DEF more
<1>3. Ascending(q) => Ascending(more)
  <2> SUFFICES ASSUME Ascending(q), NEW i \in 1 .. Len(q) + 1, NEW j \in 1 .. Len(q) + 1, i < j
               PROVE  more[i] < more[j]
    BY <1>1 DEF Ascending
  <2>1. i \in 1 .. Len(q)
    BY <1>1
  <2>2. CASE j \in 1 .. Len(q)
    BY <1>1, <2>1, <2>2 DEF Ascending
  <2>3. CASE j = Len(q) + 1
    BY <1>1, <2>1, <2>3 DEF Past
  <2> QED
    BY <1>2, <2>2, <2>3
<1>4. Past(more, e + 1)
  <2> SUFFICES ASSUME NEW i \in 1 .. Len(q) + 1 PROVE more[i] < e + 1
    BY <1>1 DEF Past
  <2>1. CASE i \in 1 .. Len(q)
    <3>1. more[i] = q[i] /\ q[i] \in Nat /\ q[i] < e
      BY <1>1, <2>1 DEF Past
    <3> QED
      BY <3>1
  <2>2. CASE i = Len(q) + 1
    BY <1>1, <2>2
  <2> QED
    BY <1>2, <2>1, <2>2
<1>5. \A r \in Seq(Nat) : Past(r, e) => Past(r, e + 1)
  <2> SUFFICES ASSUME NEW r \in Seq(Nat), Past(r, e), NEW i \in DOMAIN r PROVE r[i] < e + 1
    BY DEF Past
  <2>1. r[i] \in Nat /\ r[i] < e
    BY DEF Past
  <2> QED
    BY <2>1
<1>6. \A r \in Seq(Nat) : Before(r, q) /\ Past(r, e) => Before(r, more)
  BY <1>1, <1>2 DEF Before, Past
<1> QED
  BY <1>1, <1>3, <1>4, <1>5, <1>6 DEF more

LEMMA EventSequences ==
    ASSUME SocketTypeOK
    PROVE  /\ log \in Seq(Nat) /\ buffer \in Seq(Nat) /\ cast.events \in Seq(Nat) /\ nextEvent \in Nat
           /\ cast.to \subseteq Sockets
           /\ \A s \in Sockets : /\ wire[s] \in Seq(Seq(Nat))
                                 /\ \A i \in DOMAIN wire[s] : wire[s][i] \in Seq(Nat)
<1>1. \A q \in Seq(Events) : q \in Seq(Nat)
  BY SocketBounds DEF Events
<1>2. \A q \in Seq(Seq(Events)) : q \in Seq(Seq(Nat)) /\ \A i \in DOMAIN q : q[i] \in Seq(Nat)
  <2> SUFFICES ASSUME NEW q \in Seq(Seq(Events))
               PROVE  q \in Seq(Seq(Nat)) /\ \A i \in DOMAIN q : q[i] \in Seq(Nat)
    OBVIOUS
  <2>1. \A i \in DOMAIN q : q[i] \in Seq(Nat)
    BY <1>1
  <2> QED
    BY <2>1
<1>3. /\ log \in Seq(Events) /\ buffer \in Seq(Events) /\ cast.events \in Seq(Events) /\ nextEvent \in Nat
      /\ cast.to \subseteq Sockets /\ \A s \in Sockets : wire[s] \in Seq(Seq(Events))
  BY SocketBounds DEF SocketTypeOK
<1> QED
  BY <1>1, <1>2, <1>3

(* Steps of the hook that neither receive nor drop anything. *)
LEMMA OrderKept ==
    ASSUME OrderInv, UNCHANGED <<log, peer, clients, nextEvent, buffer, cast, wire>>,
           mounts' = 1 => mounts = 1,
           \A s \in Sockets : socket'[s] = "unborn" => socket[s] = "unborn",
           \A s \in Live' : s \in Live \/ (s \in Sockets /\ socket[s] = "unborn")
    PROVE  OrderInv'
<1>1. ServerOrder'
  BY DEF OrderInv, ServerOrder
<1>2. WireOrder'
  BY DEF OrderInv, WireOrder
<1>3. LogOrder'
  <2> SUFFICES ASSUME mounts' = 1, NEW s \in Live'
               PROVE  /\ s \in cast.to => Before(log, cast.events)
                      /\ \A i \in DOMAIN wire[s] : Before(log, wire[s][i])
    BY DEF OrderInv, LogOrder
  <2>1. CASE s \in Live
    BY <2>1 DEF OrderInv, LogOrder
  <2>2. CASE s \in Sockets /\ socket[s] = "unborn"
    <3>1. wire[s] = <<>> /\ s \notin cast.to
      BY <2>2 DEF OrderInv, WireOrder
    <3> QED
      BY <3>1
  <2> QED
    BY <2>1, <2>2
<1> QED
  BY <1>1, <1>2, <1>3 DEF OrderInv

LEMMA ConnectOrder ==
    ASSUME SocketTypeOK, Connect(socket)
    PROVE  /\ \A s \in Sockets : socket'[s] = "unborn" => socket[s] = "unborn"
           /\ \A s \in Live' : s \in Live \/ (s \in Sockets /\ socket[s] = "unborn")
  BY DEF SocketTypeOK, Connect, Live

LEMMA MessageOrder ==
    ASSUME SocketTypeOK, OneSocket, OrderInv, NEW s \in Sockets, Message(s)
    PROVE  OrderInv'
<1> DEFINE first == Head(wire[s])
           rest == Tail(wire[s])
<1>1. /\ socket[s] = "open" /\ log' = LastN(log \o first, LogCap) /\ wire[s] # <<>>
      /\ wire' = [wire EXCEPT ![s] = rest]
      /\ UNCHANGED <<mounts, socket, wsRef, timers, peer, clients, nextEvent, buffer, cast>>
  BY DEF Message, hubVars
<1>2. /\ log \in Seq(Nat) /\ buffer \in Seq(Nat) /\ cast.events \in Seq(Nat) /\ nextEvent \in Nat
      /\ wire[s] \in Seq(Seq(Nat)) /\ \A i \in DOMAIN wire[s] : wire[s][i] \in Seq(Nat)
      /\ wire \in [Sockets -> Seq(Seq(Events))] /\ LogCap \in Nat
  BY EventSequences, SocketBounds DEF SocketTypeOK
<1>3. /\ 1 \in DOMAIN wire[s] /\ first = wire[s][1] /\ first \in Seq(Nat) /\ rest \in Seq(Seq(Nat))
      /\ Len(wire[s]) \in Nat /\ DOMAIN wire[s] = 1 .. Len(wire[s]) /\ DOMAIN rest = 1 .. Len(wire[s]) - 1
      /\ \A i \in DOMAIN rest : i + 1 \in DOMAIN wire[s] /\ rest[i] = wire[s][i + 1]
  BY <1>1, <1>2, HeadTailProperties
<1>4. wire'[s] = rest /\ \A t \in Sockets : t # s => wire'[t] = wire[t]
  BY <1>1, <1>2
<1> HIDE DEF first, rest
<1>5. ServerOrder'
  BY <1>1 DEF OrderInv, ServerOrder
<1>6. \A i, j \in DOMAIN rest : i < j => i + 1 < j + 1
  BY <1>3
<1>7. WireOrder'
  <2> SUFFICES ASSUME NEW t \in Sockets
               PROVE  /\ socket[t] = "unborn" => peer[t] = "none" /\ wire'[t] = <<>> /\ t \notin clients /\ t \notin cast.to
                      /\ \A i \in DOMAIN wire'[t] :
                            /\ Ascending(wire'[t][i]) /\ Past(wire'[t][i], nextEvent) /\ Before(wire'[t][i], buffer)
                            /\ t \in cast.to => Before(wire'[t][i], cast.events)
                            /\ \A j \in DOMAIN wire'[t] : i < j => Before(wire'[t][i], wire'[t][j])
    BY <1>1 DEF WireOrder
  <2>1. CASE t # s
    <3>1. wire'[t] = wire[t]
      BY <1>4, <2>1
    <3> QED
      BY <3>1 DEF OrderInv, WireOrder
  <2>2. CASE t = s
    <3>1. /\ wire'[t] = rest /\ socket[t] # "unborn"
          /\ \A i \in DOMAIN wire[t] :
                /\ Ascending(wire[t][i]) /\ Past(wire[t][i], nextEvent) /\ Before(wire[t][i], buffer)
                /\ t \in cast.to => Before(wire[t][i], cast.events)
                /\ \A j \in DOMAIN wire[t] : i < j => Before(wire[t][i], wire[t][j])
      BY <1>1, <1>4, <2>2 DEF OrderInv, WireOrder
    <3> QED
      BY <1>3, <1>6, <2>2, <3>1
  <2> QED
    BY <2>1, <2>2
<1>8. LogOrder'
  <2> SUFFICES ASSUME mounts = 1 PROVE LogOrder'
    BY <1>1 DEF LogOrder
  <2>1. s \in Live /\ Live' = Live /\ \A t \in Live : t = s
    BY <1>1 DEF Live, OneSocket
  <2>2. /\ Ascending(log) /\ Past(log, nextEvent) /\ Before(log, buffer)
        /\ s \in cast.to => Before(log, cast.events)
        /\ \A i \in DOMAIN wire[s] : Before(log, wire[s][i])
    BY <2>1 DEF OrderInv, LogOrder
  <2>3. /\ Ascending(first) /\ Past(first, nextEvent) /\ Before(first, buffer)
        /\ s \in cast.to => Before(first, cast.events)
        /\ \A j \in DOMAIN wire[s] : 1 < j => Before(first, wire[s][j])
    BY <1>3 DEF OrderInv, WireOrder
  <2>4. Before(log, first)
    BY <1>3, <2>2
  <2>5. \A i \in DOMAIN rest : rest[i] \in Seq(Nat) /\ Before(log, rest[i]) /\ Before(first, rest[i])
    <3> SUFFICES ASSUME NEW i \in DOMAIN rest
                 PROVE  rest[i] \in Seq(Nat) /\ Before(log, rest[i]) /\ Before(first, rest[i])
      OBVIOUS
    <3>1. i + 1 \in DOMAIN wire[s] /\ rest[i] = wire[s][i + 1] /\ 1 < i + 1
      BY <1>3
    <3> QED
      BY <1>2, <2>2, <2>3, <3>1
  <2> DEFINE both == log \o first
  <2>6. /\ both \in Seq(Nat) /\ Ascending(both) /\ Past(both, nextEvent) /\ Before(both, buffer)
        /\ s \in cast.to => Before(both, cast.events)
        /\ \A i \in DOMAIN rest : Before(both, rest[i])
    BY <1>2, <1>3, <2>2, <2>3, <2>4, <2>5, OrderOfJoin
  <2>7. log' = LastN(both, LogCap)
    BY <1>1
  <2> HIDE DEF both
  <2>8. /\ Ascending(log') /\ Past(log', nextEvent) /\ Before(log', buffer)
        /\ s \in cast.to => Before(log', cast.events)
        /\ \A i \in DOMAIN rest : Before(log', rest[i])
    BY <1>2, <2>5, <2>6, <2>7, OrderOfLastN
  <2> QED
    BY <1>1, <1>4, <2>1, <2>8 DEF LogOrder
<1> QED
  BY <1>5, <1>7, <1>8 DEF OrderInv

LEMMA AddOrder ==
    ASSUME SocketTypeOK, OrderInv, AddEvent
    PROVE  OrderInv'
<1> DEFINE more == Append(buffer, nextEvent)
<1>1. /\ buffer' = LastN(more, BufferCap) /\ nextEvent' = nextEvent + 1
      /\ UNCHANGED <<mounts, socket, log, peer, clients, cast, wire>>
  BY DEF AddEvent, hookVars
<1>2. /\ log \in Seq(Nat) /\ buffer \in Seq(Nat) /\ cast.events \in Seq(Nat) /\ nextEvent \in Nat
      /\ \A s \in Sockets : \A i \in DOMAIN wire[s] : wire[s][i] \in Seq(Nat)
      /\ BufferCap \in Nat /\ nextEvent + 1 \in Nat
  BY EventSequences, SocketBounds
<1>3. Ascending(buffer) /\ Past(buffer, nextEvent)
  BY DEF OrderInv, ServerOrder
<1>4. /\ more \in Seq(Nat) /\ Ascending(more) /\ Past(more, nextEvent + 1)
      /\ \A r \in Seq(Nat) : Past(r, nextEvent) => Past(r, nextEvent + 1)
      /\ \A r \in Seq(Nat) : Before(r, buffer) /\ Past(r, nextEvent) => Before(r, more)
  BY <1>2, <1>3, OrderOfAppend
<1> HIDE DEF more
<1>5. /\ Ascending(buffer') /\ Past(buffer', nextEvent')
      /\ \A r \in Seq(Nat) : Before(r, buffer) /\ Past(r, nextEvent) => Before(r, buffer')
      /\ \A r \in Seq(Nat) : Past(r, nextEvent) => Past(r, nextEvent')
  BY <1>1, <1>2, <1>4, OrderOfLastN
<1>6. ServerOrder'
  BY <1>1, <1>2, <1>5 DEF OrderInv, ServerOrder
<1>7. WireOrder'
  BY <1>1, <1>2, <1>5 DEF OrderInv, WireOrder
<1>8. LogOrder'
  <2>1. Live' = Live
    BY <1>1 DEF Live
  <2> QED
    BY <1>1, <1>2, <1>5, <2>1 DEF OrderInv, LogOrder
<1> QED
  BY <1>6, <1>7, <1>8 DEF OrderInv

LEMMA TickOrder ==
    ASSUME SocketTypeOK, OrderInv, BroadcastTick
    PROVE  OrderInv'
<1>1. /\ buffer' = <<>> /\ cast'.to = clients /\ cast'.events = buffer
      /\ UNCHANGED <<mounts, socket, log, peer, clients, nextEvent, wire>>
  BY DEF BroadcastTick, hookVars
<1>2. ServerOrder'
  BY <1>1 DEF OrderInv, ServerOrder, Ascending, Before, Past
<1>3. \A r : Before(r, buffer')
  BY <1>1 DEF Before
<1>4. WireOrder'
  BY <1>1, <1>3 DEF OrderInv, WireOrder
<1>5. LogOrder'
  <2>1. Live' = Live
    BY <1>1 DEF Live
  <2> QED
    BY <1>1, <1>3, <2>1 DEF OrderInv, LogOrder
<1> QED
  BY <1>2, <1>4, <1>5 DEF OrderInv

LEMMA WriteOrder ==
    ASSUME SocketTypeOK, OrderInv, NEW s \in Sockets, Write(s)
    PROVE  OrderInv'
<1>1. /\ s \in cast.to /\ cast'.to = cast.to \ {s} /\ cast'.events = cast.events
      /\ UNCHANGED <<mounts, socket, log, nextEvent, buffer>>
  BY DEF Write, hookVars, SocketTypeOK
<1>2. ServerOrder'
  BY <1>1 DEF OrderInv, ServerOrder
<1>3. Live' = Live
  BY <1>1 DEF Live
<1>4. CASE wire' = wire
  <2>1. peer' = [peer EXCEPT ![s] = "gone"] \/ peer' = peer
    BY DEF Write
  <2>2. clients' \subseteq clients /\ socket[s] # "unborn"
    BY DEF Write
  <2>3. \A t \in Sockets : socket[t] = "unborn" => peer'[t] = peer[t]
    BY <2>1, <2>2 DEF SocketTypeOK
  <2>4. WireOrder'
    BY <1>1, <1>4, <2>2, <2>3 DEF OrderInv, WireOrder
  <2>5. LogOrder'
    BY <1>1, <1>3, <1>4 DEF OrderInv, LogOrder
  <2> QED
    BY <1>2, <2>4, <2>5 DEF OrderInv
<1>5. CASE wire' # wire
  <2> DEFINE longer == Append(wire[s], cast.events)
  <2>1. /\ wire' = [wire EXCEPT ![s] = longer] /\ socket[s] \in {"connecting", "open"}
        /\ UNCHANGED <<peer, clients>>
    BY <1>5 DEF Write
  <2>2. /\ wire[s] \in Seq(Seq(Nat)) /\ cast.events \in Seq(Nat) /\ wire \in [Sockets -> Seq(Seq(Events))]
    BY EventSequences DEF SocketTypeOK
  <2>3. /\ Len(wire[s]) \in Nat /\ DOMAIN wire[s] = 1 .. Len(wire[s]) /\ DOMAIN longer = 1 .. Len(wire[s]) + 1
        /\ \A i \in 1 .. Len(wire[s]) : longer[i] = wire[s][i]
        /\ longer[Len(wire[s]) + 1] = cast.events
    BY <2>2, AppendProperties
  <2>4. wire'[s] = longer /\ \A t \in Sockets : t # s => wire'[t] = wire[t]
    BY <2>1, <2>2
  <2> HIDE DEF longer
  <2>5. \A i \in 1 .. Len(wire[s]) + 1 : i \in 1 .. Len(wire[s]) \/ i = Len(wire[s]) + 1
    BY <2>3
  <2>6. \A i, j \in 1 .. Len(wire[s]) + 1 : i < j => i \in 1 .. Len(wire[s])
    BY <2>3
  <2>7. /\ \A i \in DOMAIN wire[s] :
             /\ Ascending(wire[s][i]) /\ Past(wire[s][i], nextEvent) /\ Before(wire[s][i], buffer)
             /\ Before(wire[s][i], cast.events)
             /\ \A j \in DOMAIN wire[s] : i < j => Before(wire[s][i], wire[s][j])
        /\ Ascending(cast.events) /\ Past(cast.events, nextEvent) /\ Before(cast.events, buffer)
    BY <1>1 DEF OrderInv, WireOrder, ServerOrder
  <2>8. \A i \in DOMAIN longer :
             /\ Ascending(longer[i]) /\ Past(longer[i], nextEvent) /\ Before(longer[i], buffer)
             /\ \A j \in DOMAIN longer : i < j => Before(longer[i], longer[j])
    BY <2>3, <2>5, <2>6, <2>7
  <2>9. WireOrder'
    <3> SUFFICES ASSUME NEW t \in Sockets
                 PROVE  /\ socket[t] = "unborn" => peer[t] = "none" /\ wire'[t] = <<>> /\ t \notin clients /\ t \notin cast'.to
                        /\ \A i \in DOMAIN wire'[t] :
                              /\ Ascending(wire'[t][i]) /\ Past(wire'[t][i], nextEvent) /\ Before(wire'[t][i], buffer)
                              /\ t \in cast'.to => Before(wire'[t][i], cast'.events)
                              /\ \A j \in DOMAIN wire'[t] : i < j => Before(wire'[t][i], wire'[t][j])
      BY <1>1, <2>1 DEF WireOrder
    <3>1. CASE t = s
      BY <1>1, <2>1, <2>4, <2>8, <3>1
    <3>2. CASE t # s
      <4>1. wire'[t] = wire[t]
        BY <2>4, <3>2
      <4> QED
        BY <1>1, <4>1 DEF OrderInv, WireOrder
    <3> QED
      BY <3>1, <3>2
  <2>10. LogOrder'
    <3> SUFFICES ASSUME mounts = 1, NEW t \in Live
                 PROVE  /\ t \in cast'.to => Before(log, cast.events)
                        /\ \A i \in DOMAIN wire'[t] : Before(log, wire'[t][i])
      BY <1>1, <1>3 DEF OrderInv, LogOrder
    <3>1. /\ t \in cast.to => Before(log, cast.events)
          /\ \A i \in DOMAIN wire[t] : Before(log, wire[t][i])
      BY DEF OrderInv, LogOrder
    <3>2. CASE t = s
      BY <1>1, <2>3, <2>4, <2>5, <3>1, <3>2
    <3>3. CASE t # s
      <4>1. wire'[t] = wire[t]
        BY <2>4, <3>3 DEF Live
      <4> QED
        BY <1>1, <3>1, <4>1
    <3> QED
      BY <3>2, <3>3
  <2> QED
    BY <1>2, <2>9, <2>10 DEF OrderInv
<1> QED
  BY <1>4, <1>5

(* A closed socket takes what was on its way to it along. *)
LEMMA ClosedOrder ==
    ASSUME SocketTypeOK, OrderInv, NEW s \in Sockets, Closed(s)
    PROVE  OrderInv'
<1>1. /\ socket[s] = "closing" /\ socket' = [socket EXCEPT ![s] = "closed"] /\ wire' = [wire EXCEPT ![s] = <<>>]
      /\ UNCHANGED <<mounts, log, peer, clients, nextEvent, buffer, cast>>
  BY DEF Closed, hubVars
<1>2. /\ socket'[s] = "closed" /\ wire'[s] = <<>>
      /\ \A t \in Sockets : t # s => socket'[t] = socket[t] /\ wire'[t] = wire[t]
  BY <1>1 DEF SocketTypeOK
<1>3. Live' \subseteq Live /\ s \notin Live' /\ \A t \in Live' : t \in Sockets
  BY <1>1, <1>2 DEF Live
<1>4. ServerOrder'
  BY <1>1 DEF OrderInv, ServerOrder
<1>5. WireOrder'
  <2> SUFFICES ASSUME NEW t \in Sockets
               PROVE  /\ socket'[t] = "unborn" => peer[t] = "none" /\ wire'[t] = <<>> /\ t \notin clients /\ t \notin cast.to
                      /\ \A i \in DOMAIN wire'[t] :
                            /\ Ascending(wire'[t][i]) /\ Past(wire'[t][i], nextEvent) /\ Before(wire'[t][i], buffer)
                            /\ t \in cast.to => Before(wire'[t][i], cast.events)
                            /\ \A j \in DOMAIN wire'[t] : i < j => Before(wire'[t][i], wire'[t][j])
    BY <1>1 DEF WireOrder
  <2>1. CASE t = s
    BY <1>2, <2>1
  <2>2. CASE t # s
    <3>1. wire'[t] = wire[t] /\ socket'[t] = socket[t]
      BY <1>2, <2>2
    <3> QED
      BY <3>1 DEF OrderInv, WireOrder
  <2> QED
    BY <2>1, <2>2
<1>6. LogOrder'
  <2> SUFFICES ASSUME mounts = 1 PROVE LogOrder'
    BY <1>1 DEF LogOrder
  <2>1. \A t \in Live' : wire'[t] = wire[t] /\ t \in Live
    BY <1>2, <1>3
  <2> QED
    BY <1>1, <2>1 DEF OrderInv, LogOrder
<1> QED
  BY <1>4, <1>5, <1>6 DEF OrderInv

(* The handshake, the entry in the hub and its removal touch no event. *)
LEMMA HubOrder ==
    ASSUME SocketTypeOK, OrderInv, NEW s \in Sockets, Accept(s) \/ Register(s) \/ Forget(s)
    PROVE  OrderInv'
<1>1. /\ UNCHANGED <<mounts, socket, log, nextEvent, buffer, cast, wire>>
      /\ peer' = [peer EXCEPT ![s] = peer'[s]] /\ clients' \subseteq clients \cup {s}
  BY DEF Accept, Register, Forget, hookVars, SocketTypeOK
<1>2. socket[s] # "unborn"
  BY DEF Accept, Register, Forget, OrderInv, WireOrder
<1>3. \A t \in Sockets : socket[t] = "unborn" => peer'[t] = peer[t] /\ (t \in clients' => t \in clients)
  BY <1>1, <1>2 DEF SocketTypeOK
<1>4. ServerOrder' /\ Live' = Live
  BY <1>1 DEF OrderInv, ServerOrder, Live
<1>5. WireOrder'
  BY <1>1, <1>3 DEF OrderInv, WireOrder
<1>6. LogOrder'
  BY <1>1, <1>4 DEF OrderInv, LogOrder
<1> QED
  BY <1>4, <1>5, <1>6 DEF OrderInv

LEMMA OrderStep == SocketTypeOK /\ OneSocket /\ OrderInv /\ [SocketNext]_socketVars => OrderInv'
<1> SUFFICES ASSUME SocketTypeOK, OneSocket, OrderInv, [SocketNext]_socketVars PROVE OrderInv'
  OBVIOUS
<1>0. mounts' = 1 => mounts = 1
  BY MountsGrow
<1>1. ASSUME NEW s \in Sockets, Reconnect(s) PROVE OrderInv'
  <2>1. Connect(socket) /\ UNCHANGED <<log, peer, clients, nextEvent, buffer, cast, wire>>
    BY <1>1 DEF Reconnect, hubVars
  <2> QED
    BY <1>0, <2>1, ConnectOrder, OrderKept
<1>2. CASE Mount
  <2>1. Connect(socket) /\ UNCHANGED <<log, peer, clients, nextEvent, buffer, cast, wire>>
    BY <1>2 DEF Mount, hubVars
  <2> QED
    BY <1>0, <2>1, ConnectOrder, OrderKept
<1>3. CASE Unmount
  <2>1. /\ UNCHANGED <<log, peer, clients, nextEvent, buffer, cast, wire>>
        /\ \A s \in Sockets : socket'[s] = "unborn" => socket[s] = "unborn"
    BY <1>3 DEF Unmount, hubVars
  <2>2. \A s \in Live' : s \in Live
    BY <1>3 DEF Unmount, Live
  <2> QED
    BY <1>0, <2>1, <2>2, OrderKept
<1>4. ASSUME NEW s \in Sockets, Opened(s) \/ Break(s) PROVE OrderInv'
  <2>1. /\ UNCHANGED <<log, peer, clients, nextEvent, buffer, cast, wire>>
        /\ \A t \in Sockets : socket'[t] = "unborn" => socket[t] = "unborn"
        /\ \A t \in Live' : t \in Live
    BY <1>4 DEF Opened, Break, hubVars, Live, SocketTypeOK
  <2> QED
    BY <1>0, <2>1, OrderKept
<1>5. CASE UNCHANGED socketVars
  <2>1. UNCHANGED <<socket, log, peer, clients, nextEvent, buffer, cast, wire>>
    BY <1>5 DEF socketVars, hookVars, hubVars
  <2>2. \A t \in Live' : t \in Live
    BY <2>1 DEF Live
  <2> QED
    BY <1>0, <2>1, <2>2, OrderKept
<1> QED
  BY <1>1, <1>2, <1>3, <1>4, <1>5, ClosedOrder, HubOrder, MessageOrder, AddOrder, TickOrder, WriteOrder
     DEF SocketNext, HookStep, HubStep

(* While the page is mounted once, it shows the engines' events in their order and none twice,
   across reconnections, overflows of the buffer and broadcasts that overlap a reconnection
   (onmessage of useWebSocket, Broadcast, Drain). *)
THEOREM LogInOrderHolds == SocketSpec => []LogInOrder
<1>1. OrderInv => LogInOrder
  BY DEF OrderInv, LogOrder, Ascending, LogInOrder
<1> QED
  BY <1>1, SocketTypesInit, SocketTypesStep, OneSocketInit, OneSocketStep, OrderInit, OrderStep, PTL DEF SocketSpec

-----------------------------------------------------------------------------
(* ControlSurface: the lock of the button *)

(* The property in a form that steps preserve: a locked button has exactly one command of
   its own among the calls, a free one none. *)
LockInv ==
    /\ toggling \in BOOLEAN
    /\ calls \in Seq(Calls)
    /\ ~toggling => \A i \in DOMAIN calls : ~calls[i].mine
    /\ toggling => \E i \in DOMAIN calls :
                      calls[i].mine /\ \A j \in DOMAIN calls : calls[j].mine => j = i

LEMMA LockInit == ControlInit => LockInv
<1>1. << >> \in Seq(Calls) /\ \A i \in DOMAIN << >> : FALSE
  OBVIOUS
<1>2. calls = << >> /\ toggling = FALSE => LockInv
  BY <1>1, Zenon DEF LockInv
<1> QED
  BY <1>2 DEF ControlInit

(* What is left after an element was taken out of the sequence. *)
LEMMA Removed ==
    ASSUME NEW C, NEW s \in Seq(C), NEW k \in DOMAIN s
    PROVE  /\ RemoveAt(s, k) \in Seq(C)
           /\ Len(RemoveAt(s, k)) = Len(s) - 1
           /\ \A i \in DOMAIN RemoveAt(s, k) :
                 RemoveAt(s, k)[i] = IF i < k THEN s[i] ELSE s[i + 1]
<1> DEFINE before == SubSeq(s, 1, k - 1)
           after == SubSeq(s, k + 1, Len(s))
<1>1. k \in 1 .. Len(s) /\ Len(s) \in Nat /\ \A i \in 1 .. Len(s) : s[i] \in C
  OBVIOUS
<1>2. before \in Seq(C) /\ Len(before) = k - 1 /\ \A i \in 1 .. k - 1 : before[i] = s[i]
  BY <1>1, SMTT(30)
<1>3. /\ after \in Seq(C) /\ Len(after) = Len(s) - k
      /\ \A i \in 1 .. Len(s) - k : after[i] = s[i + k]
  BY <1>1
<1>4. RemoveAt(s, k) = before \o after
  BY DEF RemoveAt
<1> HIDE DEF before, after
<1>5. before \o after \in Seq(C) /\ Len(before \o after) = Len(s) - 1
  BY <1>1, <1>2, <1>3
<1>6. ASSUME NEW i \in 1 .. Len(s) - 1 PROVE (before \o after)[i] = IF i < k THEN s[i] ELSE s[i + 1]
  <2>1. CASE i < k
    <3>1. (before \o after)[i] = before[i]
      BY <1>1, <1>2, <1>3, <2>1
    <3> QED
      BY <1>1, <1>2, <2>1, <3>1
  <2>2. CASE ~(i < k)
    <3>0. i \in Len(before) + 1 .. Len(before) + Len(after)
      BY <1>1, <1>2, <1>3, <2>2
    <3>1. (before \o after)[i] = after[i - Len(before)]
      <4>1. i \in 1 .. Len(before) + Len(after) /\ ~(i <= Len(before))
        BY <1>2, <1>3, <3>0
      <4>2. \A j \in 1 .. Len(before) + Len(after) :
               (before \o after)[j] = IF j <= Len(before) THEN before[j] ELSE after[j - Len(before)]
        BY <1>2, <1>3, ConcatProperties, Zenon
      <4> QED
        BY <4>1, <4>2, Zenon
    <3>2. i - Len(before) \in 1 .. Len(s) - k /\ i - Len(before) + k = i + 1
      BY <1>1, <1>2, <2>2
    <3> QED
      BY <1>3, <2>2, <3>1, <3>2
  <2> QED
    BY <2>1, <2>2
<1>7. DOMAIN RemoveAt(s, k) = 1 .. Len(s) - 1
  BY <1>1, <1>4, <1>5
<1> QED
  BY <1>4, <1>5, <1>6, <1>7

LEMMA LockStep == LockInv /\ [ControlNext]_controlVars => LockInv'
<1> SUFFICES ASSUME LockInv, [ControlNext]_controlVars PROVE LockInv'
  OBVIOUS
<1> USE DEF LockInv
<1>1. CASE SendFrame \/ ScheduleFlips \/ FrameArrives \/ UNCHANGED controlVars
          \/ (\E m \in Modes : ChangeMode(m)) \/ (\E i \in 1 .. MaxOverlap : ServeMode(i))
  <2>1. UNCHANGED <<toggling, calls>>
    BY <1>1 DEF SendFrame, ScheduleFlips, FrameArrives, controlVars, ChangeMode, ServeMode
  <2> QED
    BY <2>1
<1>2. CASE Reopen
  <2>1. toggling' = FALSE /\ calls' = [i \in DOMAIN calls |-> [calls[i] EXCEPT !.mine = FALSE]]
    BY <1>2 DEF Reopen
  <2>2. /\ Len(calls) \in Nat /\ DOMAIN calls = 1 .. Len(calls)
        /\ \A i \in 1 .. Len(calls) : calls[i] \in Calls
    OBVIOUS
  <2>5. \A c \in Calls : /\ [c EXCEPT !.mine = FALSE] \in Calls
                         /\ ~[c EXCEPT !.mine = FALSE].mine
    BY DEF Calls
  <2>3. calls' \in Seq(Calls) /\ DOMAIN calls' = DOMAIN calls
    BY <2>1, <2>2, <2>5
  <2>4. \A i \in DOMAIN calls' : ~calls'[i].mine
    BY <2>1, <2>2, <2>3, <2>5
  <2> QED
    BY <2>1, <2>3, <2>4
<1>3. CASE Toggle
  <2> DEFINE c == [op |-> IF view.running THEN "stop" ELSE "start", mine |-> TRUE, served |-> FALSE]
  <2>1. toggling' = TRUE /\ ~toggling /\ calls' = Append(calls, c)
    BY <1>3 DEF Toggle, Buttons, IdleScreen, RunningScreen, ModeToggle
  <2>2. c \in Calls /\ c.mine
    BY DEF Calls, Ops
  <2> HIDE DEF c
  <2>3. /\ calls' \in Seq(Calls) /\ Len(calls) \in Nat /\ Len(calls') = Len(calls) + 1
        /\ calls'[Len(calls) + 1] = c /\ \A j \in 1 .. Len(calls) : calls'[j] = calls[j]
    BY <2>1, <2>2
  <2>4. Len(calls) + 1 \in DOMAIN calls' /\ calls'[Len(calls) + 1].mine
    BY <2>2, <2>3
  <2>5. \A j \in DOMAIN calls' : calls'[j].mine => j = Len(calls) + 1
    BY <2>1, <2>3
  <2> QED
    BY <2>1, <2>3, <2>4, <2>5
<1>4. ASSUME NEW k \in 1 .. MaxCalls, ServeCall(k) PROVE LockInv'
  <2>1. toggling' = toggling /\ calls' = [calls EXCEPT ![k].served = TRUE] /\ k \in DOMAIN calls
    BY <1>4 DEF ServeCall
  <2>0. \A c \in Calls : /\ [c EXCEPT !.served = TRUE] \in Calls
                         /\ [c EXCEPT !.served = TRUE].mine = c.mine
    BY DEF Calls
  <2>2. calls[k] \in Calls /\ [calls[k] EXCEPT !.served = TRUE] \in Calls
        /\ [calls[k] EXCEPT !.served = TRUE].mine = calls[k].mine
    BY <2>0, <2>1
  <2>3. calls' \in Seq(Calls) /\ DOMAIN calls' = DOMAIN calls
    BY <2>1, <2>2
  <2>4. \A j \in DOMAIN calls : calls'[j].mine = calls[j].mine
    BY <2>1, <2>2
  <2> QED
    BY <2>1, <2>3, <2>4
<1>5. ASSUME NEW k \in 1 .. MaxCalls, CallReturns(k) PROVE LockInv'
  <2> DEFINE left == RemoveAt(calls, k)
  <2>1. /\ k \in DOMAIN calls /\ calls' = left
        /\ toggling' = IF calls[k].mine THEN FALSE ELSE toggling
    BY <1>5 DEF CallReturns
  <2>2. /\ left \in Seq(Calls) /\ Len(left) = Len(calls) - 1
        /\ \A i \in DOMAIN left : left[i] = IF i < k THEN calls[i] ELSE calls[i + 1]
    BY <2>1, Removed
  <2> HIDE DEF left
  <2>3. k \in 1 .. Len(calls) /\ Len(calls) \in Nat /\ DOMAIN left = 1 .. Len(calls) - 1
    BY <2>1, <2>2
  <2>4. CASE toggling /\ calls[k].mine
    <3>1. \A j \in DOMAIN calls : calls[j].mine => j = k
      BY <2>1, <2>4
    <3>2. \A i \in DOMAIN left : ~left[i].mine
      BY <2>2, <2>3, <3>1
    <3>3. toggling' = FALSE
      BY <2>1, <2>4
    <3> QED
      BY <2>1, <2>2, <3>2, <3>3
  <2>5. CASE toggling /\ ~calls[k].mine
    <3>1. PICK i \in DOMAIN calls :
              calls[i].mine /\ \A j \in DOMAIN calls : calls[j].mine => j = i
      BY <2>5
    <3> DEFINE place == IF i < k THEN i ELSE i - 1
    <3>2. place \in DOMAIN left /\ left[place] = calls[i]
      BY <2>2, <2>3, <2>5, <3>1
    <3>3. \A j \in DOMAIN left : left[j].mine => j = place
      BY <2>2, <2>3, <3>1
    <3>4. toggling' = toggling
      BY <2>1, <2>5
    <3> QED
      BY <2>1, <2>2, <2>5, <3>1, <3>2, <3>3, <3>4
  <2>6. CASE ~toggling
    <3>1. toggling' = FALSE
      BY <2>1, <2>6
    <3>2. \A i \in DOMAIN left : ~left[i].mine
      BY <2>2, <2>3, <2>6
    <3> QED
      BY <2>1, <2>2, <3>1, <3>2
  <2> QED
    BY <2>4, <2>5, <2>6
<1> QED
  BY <1>1, <1>2, <1>3, <1>4, <1>5 DEF ControlNext

(* Whatever frames, mode changes, reopenings and schedules come between, the button is locked
   exactly while one command of this very component is under way (handleToggle). *)
THEOREM OneCommandAtATimeHolds == ControlSpec => []OneCommandAtATime
<1>1. LockInv => OneCommandAtATime
  <2> SUFFICES ASSUME LockInv PROVE OneCommandAtATime
    OBVIOUS
  <2> DEFINE own == {i \in DOMAIN calls : calls[i].mine}
  <2>1. CASE toggling
    <3>1. PICK i \in DOMAIN calls :
              calls[i].mine /\ \A j \in DOMAIN calls : calls[j].mine => j = i
      BY <2>1 DEF LockInv
    <3>2. own = {i}
      BY <3>1
    <3>3. Cardinality(own) = 1
      BY <3>2, FS_Singleton
    <3> QED
      BY <2>1, <3>3 DEF OneCommandAtATime
  <2>2. CASE ~toggling
    <3>1. own = {}
      BY <2>2 DEF LockInv
    <3>2. Cardinality(own) = 0
      BY <3>1, FS_EmptySet
    <3> QED
      BY <2>2, <3>2 DEF OneCommandAtATime
  <2> QED
    BY <2>1, <2>2
<1> QED
  BY <1>1, LockInit, LockStep, PTL DEF ControlSpec

-----------------------------------------------------------------------------
(* The types of the control surface, and its history of speeds *)

LEMMA ControlBounds ==
    /\ MaxBps \in Nat /\ FrameCap \in Nat /\ FrameCap # 0 /\ SparkCap \in Nat /\ SparkCap # 0
    /\ MaxCalls \in Nat /\ MaxCalls # 0 /\ MaxOverlap \in Nat /\ MaxOverlap # 0
    /\ MaxModeClicks \in Nat /\ MaxLost \in Nat
  BY ControlAssumption

LEMMA LastKept == \A q, n : KeepLast(q, n) = LastN(q, n)
  BY DEF KeepLast, LastN

(* A history of the session on screen, whose newest speed is the last one seen. *)
Varied(history, last) ==
    /\ history \in Seq(0 .. MaxBps) /\ Len(history) <= SparkCap
    /\ history # <<>> => history[Len(history)] = last
    /\ \A i \in 1 .. Len(history) - 1 : history[i] # history[i + 1]

LEMMA SparkKept ==
    ASSUME NEW v \in Frames \cup {EmptyView}, NEW history, NEW last \in 0 .. MaxBps,
           Varied(history, last), SparkEffect(v, history, last)
    PROVE  /\ lastBps' \in 0 .. MaxBps /\ Varied(spark', lastBps')
           /\ spark' # <<>> => v.running
           /\ v.running => lastBps' = v.bps
<1>1. /\ history \in Seq(0 .. MaxBps) /\ Len(history) \in Nat /\ Len(history) <= SparkCap
      /\ history # <<>> => Len(history) > 0 /\ history[Len(history)] = last
      /\ \A i \in 1 .. Len(history) - 1 : history[i] # history[i + 1]
  BY DEF Varied
<1>2. CASE ~v.running
  <2>1. spark' = <<>> /\ lastBps' = last
    BY <1>2 DEF SparkEffect
  <2>2. <<>> \in Seq(0 .. MaxBps) /\ Len(<<>>) = 0 /\ 0 <= SparkCap
    BY ControlBounds
  <2>3. Varied(<<>>, last)
    BY <2>2 DEF Varied
  <2> QED
    BY <1>2, <2>1, <2>3
<1>3. CASE v.running /\ v.bps = last
  <2>1. spark' = history /\ lastBps' = last
    BY <1>3 DEF SparkEffect
  <2> QED
    BY <1>3, <2>1
<1>4. CASE v.running /\ v.bps # last
  <2> DEFINE more == Append(history, v.bps)
  <2>1. spark' = LastN(more, SparkCap) /\ lastBps' = v.bps
    BY <1>4, LastKept DEF SparkEffect
  <2>2. v.bps \in 0 .. MaxBps
    <3>1. EmptyView.running = FALSE
      BY DEF EmptyView
    <3>2. v # EmptyView
      BY <1>4, <3>1
    <3>3. v \in Frames
      BY <3>2
    <3> QED
      BY <3>3 DEF Frames
  <2>3. /\ more \in Seq(0 .. MaxBps) /\ Len(more) = Len(history) + 1 /\ more[Len(history) + 1] = v.bps
        /\ \A i \in 1 .. Len(history) : more[i] = history[i]
    BY <1>1, <2>2, AppendProperties
  <2> HIDE DEF more
  <2>4. \A i \in 1 .. Len(more) - 1 : more[i] # more[i + 1]
    <3> SUFFICES ASSUME NEW i \in 1 .. Len(history) PROVE more[i] # more[i + 1]
      BY <1>1, <2>3
    <3>1. CASE i = Len(history)
      <4>1. history # <<>> /\ more[i] = last /\ more[i + 1] = v.bps
        BY <1>1, <2>3, <3>1
      <4> QED
        BY <1>4, <4>1
    <3>2. CASE i # Len(history)
      <4>1. i \in 1 .. Len(history) - 1 /\ i + 1 \in 1 .. Len(history)
        BY <1>1, <3>2
      <4> QED
        BY <1>1, <2>3, <4>1
    <3> QED
      BY <3>1, <3>2
  <2> DEFINE new == LastN(more, SparkCap)
  <2>a. /\ new \in Seq(0 .. MaxBps) /\ Len(new) <= SparkCap
        /\ \E d \in Nat : /\ Len(new) + d = Len(more)
                          /\ \A i \in 1 .. Len(new) : new[i] = more[i + d]
    BY <2>3, ControlBounds, LastNProperties, Zenon
  <2> HIDE DEF new
  <2>b. spark' = new
    BY <2>1 DEF new
  <2>5. PICK d \in Nat : /\ Len(spark') + d = Len(more)
                         /\ \A i \in 1 .. Len(spark') : spark'[i] = more[i + d]
    BY <2>a, <2>b, Zenon
  <2>6. spark' \in Seq(0 .. MaxBps) /\ Len(spark') <= SparkCap /\ Len(spark') \in Nat
    BY <2>a, <2>b
  <2>7. \A i \in 1 .. Len(spark') - 1 :
           /\ i \in 1 .. Len(spark') /\ i + 1 \in 1 .. Len(spark') /\ i + d \in 1 .. Len(more) - 1
           /\ (i + 1) + d = (i + d) + 1
    BY <1>1, <2>3, <2>5, <2>6
  <2>8. \A i \in 1 .. Len(spark') - 1 : spark'[i] # spark'[i + 1]
    <3> SUFFICES ASSUME NEW i \in 1 .. Len(spark') - 1 PROVE spark'[i] # spark'[i + 1]
      OBVIOUS
    <3>1. spark'[i] = more[i + d] /\ spark'[i + 1] = more[(i + d) + 1] /\ i + d \in 1 .. Len(more) - 1
      BY <2>5, <2>7
    <3> QED
      BY <2>4, <3>1
  <2>9. spark' # <<>> => spark'[Len(spark')] = v.bps
    <3> SUFFICES ASSUME spark' # <<>> PROVE spark'[Len(spark')] = v.bps
      OBVIOUS
    <3>1. Len(spark') \in 1 .. Len(spark')
      BY <2>6
    <3>2. spark'[Len(spark')] = more[Len(spark') + d]
      BY <2>5, <3>1
    <3> QED
      BY <2>3, <2>5, <3>2
  <2> QED
    BY <1>4, <2>1, <2>2, <2>6, <2>8, <2>9 DEF Varied
<1> QED
  BY <1>2, <1>3, <1>4

(* What the types and the history need: the history was recorded up to the frame on screen. *)
SparkInv ==
    /\ Varied(spark, lastBps)
    /\ spark # <<>> => view.running
    /\ view.running => lastBps = view.bps

LEMMA HistoryInit == ControlInit => ControlTypeOK /\ SparkInv
<1> SUFFICES ASSUME ControlInit PROVE ControlTypeOK /\ SparkInv
  OBVIOUS
<1>1. /\ 0 \in 0 .. MaxBps /\ 0 \in 0 .. MaxModeClicks /\ 0 \in 0 .. MaxLost
      /\ 0 <= FrameCap /\ 0 <= SparkCap /\ 0 <= MaxCalls /\ 0 <= MaxOverlap
  BY ControlBounds
<1>2. /\ <<>> \in Seq(Frames) /\ <<>> \in Seq(0 .. MaxBps) /\ <<>> \in Seq(Calls) /\ <<>> \in Seq(Modes)
      /\ Len(<<>>) = 0
  OBVIOUS
<1>3. engine \in [running : BOOLEAN, mode : Modes]
  BY DEF ControlInit
<1>4. ControlTypeOK
  BY <1>1, <1>2, <1>3 DEF ControlInit, ControlTypeOK, Modes
<1>5. SparkInv
  <2>1. Varied(<<>>, 0)
    BY <1>1, <1>2 DEF Varied
  <2>2. EmptyView.running = FALSE
    BY DEF EmptyView
  <2> QED
    BY <2>1, <2>2 DEF ControlInit, SparkInv
<1> QED
  BY <1>4, <1>5

LEMMA HistoryStep ==
    ControlTypeOK /\ SparkInv /\ LockInv /\ [ControlNext]_controlVars => ControlTypeOK' /\ SparkInv'
<1> SUFFICES ASSUME ControlTypeOK, SparkInv, LockInv, [ControlNext]_controlVars
             PROVE  ControlTypeOK' /\ SparkInv'
  OBVIOUS
<1>0. /\ engine \in [running : BOOLEAN, mode : Modes]
      /\ frames \in Seq(Frames) /\ Len(frames) <= FrameCap
      /\ view \in Frames \cup {EmptyView}
      /\ mode \in Modes
      /\ toggling \in BOOLEAN
      /\ spark \in Seq(0 .. MaxBps) /\ Len(spark) <= SparkCap
      /\ lastBps \in 0 .. MaxBps
      /\ calls \in Seq(Calls) /\ Len(calls) <= MaxCalls
      /\ modeRequests \in Seq(Modes) /\ Len(modeRequests) <= MaxOverlap
      /\ modeClicks \in 0 .. MaxModeClicks
      /\ lost \in 0 .. MaxLost
  BY DEF ControlTypeOK
<1>a. Len(frames) \in Nat /\ Len(calls) \in Nat /\ Len(modeRequests) \in Nat
  BY <1>0
<1>b. UNCHANGED <<view, spark, lastBps>> => SparkInv'
  BY DEF SparkInv
<1>c. Varied(spark', lastBps') => spark' \in Seq(0 .. MaxBps) /\ Len(spark') <= SparkCap
  BY DEF Varied
<1>1. CASE SendFrame
  <2>1. PICK b \in 0 .. MaxBps :
           frames' = Append(frames, [running |-> engine.running, mode |-> engine.mode,
                                     bps |-> IF engine.running THEN b ELSE 0])
    BY <1>1 DEF SendFrame
  <2> DEFINE f == [running |-> engine.running, mode |-> engine.mode,
                   bps |-> IF engine.running THEN b ELSE 0]
  <2>2. (IF engine.running THEN b ELSE 0) \in 0 .. MaxBps
    BY ControlBounds
  <2>3. f \in Frames
    BY <1>0, <2>2 DEF Frames
  <2> HIDE DEF f
  <2>4. frames' = Append(frames, f) /\ Len(frames) < FrameCap
    BY <1>1, <2>1 DEF SendFrame, f
  <2>5. frames' \in Seq(Frames) /\ Len(frames') <= FrameCap
    BY <1>0, <1>a, <2>3, <2>4, ControlBounds
  <2>6. UNCHANGED <<engine, view, mode, toggling, spark, lastBps, calls, modeRequests, modeClicks, lost>>
    BY <1>1 DEF SendFrame
  <2> QED
    BY <1>0, <1>b, <2>5, <2>6 DEF ControlTypeOK
<1>2. CASE ScheduleFlips
  <2>1. engine' \in [running : BOOLEAN, mode : Modes]
    BY <1>0, <1>2 DEF ScheduleFlips
  <2>2. UNCHANGED <<frames, view, mode, toggling, spark, lastBps, calls, modeRequests, modeClicks, lost>>
    BY <1>2 DEF ScheduleFlips
  <2> QED
    BY <1>0, <1>b, <2>1, <2>2 DEF ControlTypeOK
<1>3. CASE FrameArrives
  <2>1. /\ frames # <<>> /\ view' = Head(frames) /\ frames' = Tail(frames)
        /\ mode' = IF view'.mode # view.mode THEN view'.mode ELSE mode
        /\ SparkEffect(view', spark, lastBps)
        /\ UNCHANGED <<engine, toggling, calls, modeRequests, modeClicks, lost>>
    BY <1>3 DEF FrameArrives
  <2>2. view' \in Frames /\ frames' \in Seq(Frames) /\ Len(frames') <= FrameCap
    BY <1>0, <1>a, <2>1, HeadTailProperties, ControlBounds
  <2>3. mode' \in Modes
    BY <1>0, <2>1, <2>2 DEF Frames
  <2>4. Varied(spark, lastBps)
    BY DEF SparkInv
  <2> DEFINE v == view'
  <2>5. v \in Frames \cup {EmptyView} /\ SparkEffect(v, spark, lastBps)
    BY <2>1, <2>2
  <2> HIDE DEF v
  <2>6. /\ lastBps' \in 0 .. MaxBps /\ Varied(spark', lastBps')
        /\ spark' # <<>> => v.running
        /\ v.running => lastBps' = v.bps
    BY <1>0, <2>4, <2>5, SparkKept
  <2>7. SparkInv'
    BY <2>6 DEF SparkInv, v
  <2> QED
    BY <1>0, <1>c, <2>1, <2>2, <2>3, <2>6, <2>7 DEF ControlTypeOK
<1>4. CASE Reopen
  <2>1. /\ mode' = IF view.mode # "" THEN view.mode ELSE "reliable"
        /\ toggling' = FALSE /\ SparkEffect(view, <<>>, 0)
        /\ UNCHANGED <<engine, frames, view, modeRequests, modeClicks, lost>>
    BY <1>4 DEF Reopen
  <2>2. mode' \in Modes
    <3>1. EmptyView.mode = ""
      BY DEF EmptyView
    <3>2. \A f \in Frames : f.mode \in Modes
      BY DEF Frames
    <3> QED
      BY <1>0, <2>1, <3>1, <3>2 DEF Modes
  <2>3. 0 \in 0 .. MaxBps /\ Varied(<<>>, 0)
    BY ControlBounds DEF Varied
  <2>4. /\ lastBps' \in 0 .. MaxBps /\ Varied(spark', lastBps')
        /\ spark' # <<>> => view.running
        /\ view.running => lastBps' = view.bps
    BY <1>0, <2>1, <2>3, SparkKept
  <2>5. SparkInv'
    BY <2>1, <2>4 DEF SparkInv
  <2>6. calls' = [i \in 1 .. Len(calls) |-> [calls[i] EXCEPT !.mine = FALSE]]
    <3>1. DOMAIN calls = 1 .. Len(calls)
      BY <1>0
    <3> QED
      BY <1>4, <3>1 DEF Reopen
  <2>7. \A c \in Calls : [c EXCEPT !.mine = FALSE] \in Calls
    BY DEF Calls
  <2>8. calls' \in Seq(Calls) /\ Len(calls') = Len(calls)
    BY <1>0, <1>a, <2>6, <2>7
  <2> QED
    BY <1>0, <1>c, <2>1, <2>2, <2>4, <2>5, <2>8 DEF ControlTypeOK
<1>5. ASSUME NEW m \in Modes, ChangeMode(m) PROVE ControlTypeOK' /\ SparkInv'
  <2>1. /\ mode' = m /\ modeRequests' = Append(modeRequests, m) /\ modeClicks' = modeClicks + 1
        /\ Len(modeRequests) < MaxOverlap /\ modeClicks < MaxModeClicks
        /\ UNCHANGED <<engine, frames, view, toggling, spark, lastBps, calls, lost>>
    BY <1>5 DEF ChangeMode
  <2>2. modeRequests' \in Seq(Modes) /\ Len(modeRequests') <= MaxOverlap
    BY <1>0, <1>a, <2>1, ControlBounds
  <2>3. modeClicks' \in 0 .. MaxModeClicks
    BY <1>0, <2>1, ControlBounds
  <2> QED
    BY <1>0, <1>b, <2>1, <2>2, <2>3 DEF ControlTypeOK
<1>6. ASSUME NEW i \in 1 .. MaxOverlap, ServeMode(i) PROVE ControlTypeOK' /\ SparkInv'
  <2>1. /\ i \in DOMAIN modeRequests /\ modeRequests' = RemoveAt(modeRequests, i)
        /\ UNCHANGED <<frames, view, mode, toggling, spark, lastBps, calls, modeClicks>>
    BY <1>6 DEF ServeMode
  <2>2. modeRequests' \in Seq(Modes) /\ Len(modeRequests') <= MaxOverlap
    BY <1>0, <1>a, <2>1, Removed, ControlBounds
  <2>3. lost' \in 0 .. MaxLost
    BY <1>0, <1>6, ControlBounds DEF ServeMode
  <2>4. modeRequests[i] \in Modes
    BY <1>0, <2>1
  <2>5. engine' \in [running : BOOLEAN, mode : Modes]
    BY <1>0, <1>6, <2>4 DEF ServeMode
  <2> QED
    BY <1>0, <1>b, <2>1, <2>2, <2>3, <2>5 DEF ControlTypeOK
<1>7. CASE Toggle
  <2> DEFINE c == [op |-> IF view.running THEN "stop" ELSE "start", mine |-> TRUE, served |-> FALSE]
  <2>1. toggling' = TRUE /\ calls' = Append(calls, c) /\ Len(calls) < MaxCalls
    BY <1>7 DEF Toggle
  <2>2. c \in Calls
    BY DEF Calls, Ops
  <2> HIDE DEF c
  <2>3. calls' \in Seq(Calls) /\ Len(calls') <= MaxCalls
    BY <1>0, <1>a, <2>1, <2>2, ControlBounds
  <2>4. UNCHANGED <<engine, frames, view, mode, spark, lastBps, modeRequests, modeClicks, lost>>
    BY <1>7 DEF Toggle
  <2> QED
    BY <1>0, <1>b, <2>1, <2>3, <2>4 DEF ControlTypeOK
<1>8. ASSUME NEW i \in 1 .. MaxCalls, ServeCall(i) PROVE ControlTypeOK' /\ SparkInv'
  <2>1. /\ i \in DOMAIN calls /\ calls' = [calls EXCEPT ![i].served = TRUE]
        /\ UNCHANGED <<frames, view, mode, toggling, spark, lastBps, modeRequests, modeClicks, lost>>
    BY <1>8 DEF ServeCall
  <2>2. \A c \in Calls : [c EXCEPT !.served = TRUE] \in Calls
    BY DEF Calls
  <2>3. calls[i] \in Calls /\ [calls[i] EXCEPT !.served = TRUE] \in Calls
    BY <1>0, <2>1, <2>2
  <2>4. calls' \in Seq(Calls) /\ Len(calls') = Len(calls)
    BY <1>0, <1>a, <2>1, <2>3
  <2>5. engine' \in [running : BOOLEAN, mode : Modes]
    BY <1>0, <1>8 DEF ServeCall
  <2> QED
    BY <1>0, <1>b, <2>1, <2>4, <2>5 DEF ControlTypeOK
<1>9. ASSUME NEW i \in 1 .. MaxCalls, CallReturns(i) PROVE ControlTypeOK' /\ SparkInv'
  <2>1. /\ i \in DOMAIN calls /\ calls' = RemoveAt(calls, i)
        /\ toggling' = IF calls[i].mine THEN FALSE ELSE toggling
        /\ UNCHANGED <<engine, frames, view, mode, spark, lastBps, modeRequests, modeClicks, lost>>
    BY <1>9 DEF CallReturns
  <2>2. calls' \in Seq(Calls) /\ Len(calls') <= MaxCalls
    BY <1>0, <1>a, <2>1, Removed, ControlBounds
  <2> QED
    BY <1>0, <1>b, <2>1, <2>2 DEF ControlTypeOK
<1>10. CASE UNCHANGED controlVars
  BY <1>0, <1>b, <1>10 DEF ControlTypeOK, controlVars
<1> QED
  BY <1>1, <1>2, <1>3, <1>4, <1>5, <1>6, <1>7, <1>8, <1>9, <1>10 DEF ControlNext

(* Frames, history, calls and mode requests keep their types and their lengths, the history
   its MAX_SPARKLINE (the state and the effects of ControlSurface.tsx). *)
THEOREM ControlTypes == ControlSpec => []ControlTypeOK
  BY LockInit, LockStep, HistoryInit, HistoryStep, PTL DEF ControlSpec

(* Whatever starts, stops and reopenings come between the frames, the history belongs to the
   session on screen, ends with the speed shown and repeats none (the effect of
   ControlSurface.tsx that keeps lastBpsRef). *)
THEOREM SparkFollowsHolds == ControlSpec => []SparkFollows
<1>1. SparkInv => SparkFollows
  BY DEF SparkInv, Varied, SparkFollows
<1> QED
  BY <1>1, LockInit, LockStep, HistoryInit, HistoryStep, PTL DEF ControlSpec

-----------------------------------------------------------------------------
(* The loop of frames *)

(* SingleLoop is not inductive: start and stop look at animId, so animId has to tell
   whether the loop runs. *)
LoopInv ==
    /\ shown \in BOOLEAN /\ visible \in BOOLEAN /\ animId \in BOOLEAN
    /\ shown /\ visible => animId /\ pending = 1
    /\ ~(shown /\ visible) => ~animId /\ pending = 0

LEMMA LoopInit == FlowInit => LoopInv
  BY DEF FlowInit, LoopInv

LEMMA LoopStep == LoopInv /\ [FlowNext]_flowVars => LoopInv'
<1> SUFFICES ASSUME LoopInv, [FlowNext]_flowVars PROVE LoopInv'
  OBVIOUS
<1> USE DEF LoopInv
<1>s. ASSUME Stop PROVE animId' = FALSE /\ (animId /\ pending = 1 => pending' = 0)
                                 /\ (~animId => pending' = pending)
  <2>1. CASE animId
    <3>1. pending' = pending - 1
      BY <1>s, <2>1 DEF Stop
    <3> QED
      BY <1>s, <2>1, <3>1 DEF Stop
  <2>2. CASE ~animId
    BY <1>s, <2>2 DEF Stop
  <2> QED
    BY <2>1, <2>2
<1>1. CASE Mounted
  BY <1>1 DEF Mounted
<1>2. CASE Unmounted
  <2>1. shown /\ shown' = FALSE /\ visible' = visible /\ Stop
    BY <1>2 DEF Unmounted
  <2> QED
    BY <1>s, <2>1
<1>3. CASE VisibilityChanges
  <2>1. CASE ~shown
    BY <1>3, <2>1 DEF VisibilityChanges
  <2>2. CASE shown /\ visible
    <3>1. shown' = shown /\ visible' = FALSE /\ Stop
      BY <1>3, <2>2 DEF VisibilityChanges
    <3> QED
      BY <1>s, <2>2, <3>1
  <2>3. CASE shown /\ ~visible
    <3>1. shown' = shown /\ visible' /\ visible' \in BOOLEAN /\ Start
      BY <1>3, <2>3 DEF VisibilityChanges
    <3>2. animId' /\ pending' = pending + 1
      BY <2>3, <3>1 DEF Start
    <3> QED
      BY <2>3, <3>1, <3>2
  <2> QED
    BY <2>1, <2>2, <2>3
<1>4. CASE ContainerResized \/ PollAnswered \/ StatsArrive
  BY <1>4 DEF ContainerResized, PollAnswered, StatsArrive
<1>5. CASE Frame
  BY <1>5 DEF Frame
<1>6. CASE UNCHANGED flowVars
  BY <1>6 DEF flowVars
<1> QED
  BY <1>1, <1>2, <1>3, <1>4, <1>5, <1>6 DEF FlowNext

(* start and stop are called by mounts, cleanups and visibility changes in any order, and
   frames run in between: one frame is asked for while the diagram is on a visible page and
   none otherwise (trafficFlowRenderer.ts start, stop, frame). *)
THEOREM SingleLoopHolds == FlowSpec => []SingleLoop
<1>1. LoopInv => SingleLoop
  BY DEF LoopInv, SingleLoop
<1> QED
  BY <1>1, LoopInit, LoopStep, PTL DEF FlowSpec

-----------------------------------------------------------------------------
(* The download pipes *)

(* A pipe keeps its fields, whatever their values. *)
HasFields(pipe) == DOMAIN pipe = {"node", "shows", "busy", "particles"}
OwnTraffic(old) ==
    \A i \in DOMAIN old : HasFields(old[i]) /\ old[i].shows \in {None, old[i].node}

PipesInv == OwnTraffic(pipes.dl)

LEMMA RebuiltIsOwn ==
    ASSUME NEW k, NEW names, NEW old
    PROVE  OwnTraffic(Rebuilt(k, names, old))
  BY DEF OwnTraffic, Rebuilt, HasFields

LEMMA LayoutIsOwn == ASSUME NEW d PROVE OwnTraffic(Layout(d).pipes.dl)
<1>1. Layout(d).pipes.dl = Rebuilt("dl", Placed(Active(d["dl"])), pipes["dl"])
  BY DEF Layout
<1> QED
  BY <1>1, RebuiltIsOwn

LEMMA SyncedIsOwn ==
    ASSUME NEW old, NEW groups, OwnTraffic(old)
    PROVE  OwnTraffic(SyncedDownload(old, groups))
  BY DEF OwnTraffic, SyncedDownload, HasFields

LEMMA DrawnIsOwn ==
    ASSUME NEW old, NEW pause, NEW carried, OwnTraffic(old)
    PROVE  OwnTraffic(Drawn(old, pause, carried))
  BY DEF OwnTraffic, Drawn, HasFields

LEMMA PipesStep == PipesInv /\ [FlowNext]_flowVars => PipesInv'
<1> SUFFICES ASSUME PipesInv, [FlowNext]_flowVars PROVE PipesInv'
  OBVIOUS
<1> USE DEF PipesInv
<1>1. CASE Mounted
  BY <1>1 DEF Mounted, Nobody, OwnTraffic
<1>2. CASE Unmounted \/ VisibilityChanges
  BY <1>2 DEF Unmounted, VisibilityChanges
<1>3. CASE ContainerResized
  BY <1>3, LayoutIsOwn DEF ContainerResized, Resize
<1>4. CASE PollAnswered
  BY <1>4, LayoutIsOwn DEF PollAnswered, Resize
<1>5. CASE StatsArrive
  <2> DEFINE changed == \/ Names(polled.dl) # Names(data.dl)
                        \/ Names(polled.ul) # Names(data.ul)
             layout == IF changed THEN Layout(polled) ELSE [nodes |-> nodes, pipes |-> pipes]
  <2>1. pipes'.dl = SyncedDownload(layout.pipes.dl, polled.dl)
    BY <1>5 DEF StatsArrive, Update
  <2>2. OwnTraffic(layout.pipes.dl)
    BY LayoutIsOwn
  <2> QED
    BY <2>1, <2>2, SyncedIsOwn
<1>6. CASE Frame
  <2>1. PICK pause \in Pauses,
             carried \in [{"dl", "ul"} -> SUBSET (DOMAIN pipes.dl \cup DOMAIN pipes.ul)] :
             pipes' = [k \in {"dl", "ul"} |-> Drawn(pipes[k], pause, carried[k])]
    BY <1>6 DEF Frame
  <2>2. pipes'.dl = Drawn(pipes.dl, pause, carried["dl"])
    BY <2>1
  <2> QED
    BY <2>2, DrawnIsOwn
<1>7. CASE UNCHANGED flowVars
  BY <1>7 DEF flowVars
<1> QED
  BY <1>1, <1>2, <1>3, <1>4, <1>5, <1>6, <1>7 DEF FlowNext

(* Whatever order the groups of a poll come in and however long a layout is kept, a download
   pipe is synchronised with the group of its own node (syncPipes looks up by name). *)
THEOREM DownloadsShowTheirNodeHolds == FlowSpec => []DownloadsShowTheirNode
<1>1. FlowInit => PipesInv
  BY DEF FlowInit, PipesInv, Nobody, OwnTraffic
<1>2. PipesInv => DownloadsShowTheirNode
  BY DEF PipesInv, OwnTraffic, DownloadsShowTheirNode
<1> QED
  BY <1>1, <1>2, PipesStep, PTL DEF FlowSpec
(* Filtering a list of groups gives a list of groups. *)
LEMMA ActiveGroups ==
    ASSUME NEW groups \in Seq(FlowGroups)
    PROVE  Active(groups) \in Seq(FlowGroups)
<1> DEFINE S == Seq(FlowGroups)
           m == Len(groups)
           nothing == <<>>
           Grown(n, v) == IF groups[n].active THEN Append(v, groups[n]) ELSE v
           Body(f) == [n \in 0 .. m |-> IF n = 0 THEN nothing ELSE Grown(n, f[n - 1])]
           kept == CHOOSE f : f = Body(f)
           step == [n \in 1 .. m |-> [v \in S |-> Grown(n, v)]]
           T == {k \in Nat : k <= m => kept[k] \in S}
<1>1. m \in Nat /\ nothing \in S /\ \A n \in 1 .. m : \A v \in S : Grown(n, v) \in S
  OBVIOUS
<1>2. Active(groups) = kept[m]
  BY DEF Active
<1> HIDE DEF S, m, nothing, Grown
<1>3. step \in [1 .. m -> [S -> S]] /\ \A n \in 1 .. m : \A v \in S : step[n][v] = Grown(n, v)
  BY <1>1
<1> HIDE DEF step
<1>4. PICK f : IsLoop(f, S, nothing, m, step)
  BY <1>1, <1>3, LoopExists
<1>5. \A n \in 1 .. m : n - 1 \in 0 .. m /\ f[n] = Grown(n, f[n - 1])
  BY <1>1, <1>3, <1>4 DEF IsLoop
<1>6. f = Body(f)
  BY <1>1, <1>4, <1>5 DEF IsLoop
<1>7. kept = Body(kept)
  BY <1>6
<1> HIDE DEF kept
<1>8. kept[0] = nothing /\ \A n \in 1 .. m : kept[n] = Grown(n, kept[n - 1])
  BY <1>1, <1>7
<1>9. 0 \in T /\ \A k \in Nat : k \in T => k + 1 \in T
  BY <1>1, <1>8
<1> HIDE DEF T
<1>10. m \in T
  BY <1>1, <1>9, Induction
<1> QED
  BY <1>1, <1>2, <1>10 DEF T, S

(* A node for each active group, named after its provider. *)
LEMMA LaidOut ==
    ASSUME NEW groups \in Seq(FlowGroups)
    PROVE  Placed(Active(groups)) \in Seq(Providers)
<1>1. ASSUME NEW some \in Seq(FlowGroups) PROVE Placed(some) \in Seq(Providers)
  <2>1. Len(some) \in Nat /\ DOMAIN some = 1 .. Len(some) /\ \A i \in 1 .. Len(some) : some[i] \in FlowGroups
    OBVIOUS
  <2>2. \A i \in 1 .. Len(some) : some[i].name \in Providers
    BY <2>1 DEF FlowGroups
  <2> QED
    BY <2>1, <2>2 DEF Placed
<1> QED
  BY <1>1, ActiveGroups

LEMMA PollGroups ==
    ASSUME NEW d \in Pools \cup {Nobody}
    PROVE  d["dl"] \in Seq(FlowGroups) /\ d["ul"] \in Seq(FlowGroups)
<1>1. CASE d \in Pools
  BY <1>1, FlowAssumption, Zenon
<1>2. CASE d = Nobody
  <2>1. d["dl"] = <<>> /\ d["ul"] = <<>> /\ <<>> \in Seq(FlowGroups)
    BY <1>2 DEF Nobody
  <2> QED
    BY <2>1
<1> QED
  BY <1>1, <1>2

LEMMA FlowBounds ==
    MinRows \in Nat /\ Fan \in Nat \ {0} /\ ParticleCap \in Nat \ {0} /\ Pauses \subseteq Nat
  BY FlowAssumption, Zenon

(* The pipes lead to the nodes; no pipe has more particles than two and what the pipe in its
   place had. *)
Meet(some, names) == {some[i].node : i \in DOMAIN some} = Range(names)
NoneAdded(new, old, more) ==
    \A i \in DOMAIN new :
       new[i].particles <= more + (IF i \in DOMAIN old THEN old[i].particles ELSE 0)

LEMMA RebuiltPipes ==
    ASSUME NEW k \in {"dl", "ul"}, NEW names \in Seq(Providers), NEW old \in Seq(Pipes)
    PROVE  /\ Rebuilt(k, names, old) \in Seq(Pipes)
           /\ Meet(Rebuilt(k, names, old), names)
           /\ NoneAdded(Rebuilt(k, names, old), old, 0)
<1> DEFINE count == IF k = "ul" /\ Len(names) = 1 THEN Fan ELSE Len(names)
           node(i) == IF Len(names) = 1 THEN names[1] ELSE names[i]
           pipe(i) == [node |-> node(i), shows |-> None, busy |-> FALSE,
                       particles |-> IF i \in DOMAIN old THEN old[i].particles ELSE 0]
           new == Rebuilt(k, names, old)
<1>1. /\ Len(names) \in Nat /\ DOMAIN names = 1 .. Len(names)
      /\ \A i \in 1 .. Len(names) : names[i] \in Providers
  OBVIOUS
<1>2. count \in Nat /\ (Len(names) = 1 => 1 \in 1 .. count) /\ (Len(names) # 1 => count = Len(names))
  <2>1. Fan \in Nat /\ Fan >= 1 /\ Len(names) \in Nat
    BY <1>1, FlowBounds
  <2>2. CASE k = "ul" /\ Len(names) = 1
    BY <2>1, <2>2
  <2>3. CASE ~(k = "ul" /\ Len(names) = 1)
    BY <2>1, <2>3
  <2> QED
    BY <2>2, <2>3
<1>3. \A i \in 1 .. count : node(i) \in Providers
  BY <1>1, <1>2
<1>4. \A i \in DOMAIN old : old[i].particles \in 0 .. ParticleCap
  <2>1. \A i \in DOMAIN old : old[i] \in Pipes
    OBVIOUS
  <2> QED
    BY <2>1 DEF Pipes
<1>5. \A i \in 1 .. count : pipe(i) \in Pipes
  BY <1>3, <1>4, FlowBounds DEF Pipes
<1>6. new = [i \in 1 .. count |-> pipe(i)]
  BY DEF Rebuilt
<1> HIDE DEF new, count
<1>7. new \in Seq(Pipes) /\ DOMAIN new = 1 .. count /\ \A i \in 1 .. count : new[i] = pipe(i)
  BY <1>2, <1>5, <1>6
<1>8. {new[i].node : i \in DOMAIN new} = {node(i) : i \in 1 .. count}
  BY <1>7
<1>9. {node(i) : i \in 1 .. count} = {names[i] : i \in 1 .. Len(names)}
  <2>1. CASE Len(names) = 1
    BY <1>2, <2>1
  <2>2. CASE Len(names) # 1
    BY <1>2, <2>2
  <2> QED
    BY <2>1, <2>2
<1>10. Meet(new, names)
  BY <1>1, <1>8, <1>9 DEF Meet, Range
<1>11. NoneAdded(new, old, 0)
  BY <1>4, <1>7, FlowBounds DEF NoneAdded
<1> QED
  BY <1>7, <1>10, <1>11 DEF new

(* What one of the synchronisations and the animation do to a list of pipes. *)
Kept(new, old) ==
    /\ DOMAIN new = DOMAIN old
    /\ \A i \in DOMAIN old : new[i].node = old[i].node

LEMMA KeptMeet ==
    ASSUME NEW new, NEW old, NEW names, Kept(new, old), Meet(old, names)
    PROVE  Meet(new, names)
  BY DEF Kept, Meet

LEMMA SyncedPipes ==
    ASSUME NEW old \in Seq(Pipes), NEW groups \in Seq(FlowGroups)
    PROVE  /\ SyncedDownload(old, groups) \in Seq(Pipes)
           /\ Kept(SyncedDownload(old, groups), old)
           /\ NoneAdded(SyncedDownload(old, groups), old, 0)
           /\ SyncedUpload(old, groups) \in Seq(Pipes)
           /\ Kept(SyncedUpload(old, groups), old)
           /\ NoneAdded(SyncedUpload(old, groups), old, 0)
<1> DEFINE n == Len(old)
           Tagged(pipe, p, b) == [pipe EXCEPT !.shows = p, !.busy = b]
           Like(new, pipe) == new \in Pipes /\ new.node = pipe.node /\ new.particles = pipe.particles
<1>1. n \in Nat /\ DOMAIN old = 1 .. n /\ \A i \in 1 .. n : old[i] \in Pipes
  OBVIOUS
<1>2. \A i \in DOMAIN groups : groups[i].name \in Providers /\ groups[i].active \in BOOLEAN
  <2>1. \A i \in DOMAIN groups : groups[i] \in FlowGroups
    OBVIOUS
  <2> QED
    BY <2>1 DEF FlowGroups
<1>3. \A pipe \in Pipes : \A p \in Providers : \A b \in BOOLEAN : Like(Tagged(pipe, p, b), pipe)
  BY DEF Pipes
<1>4. \A i \in 1 .. n : old[i].node \in Providers /\ old[i].particles \in Nat /\ Like(old[i], old[i])
  BY <1>1, FlowBounds DEF Pipes
<1>5. ASSUME NEW new, DOMAIN new = 1 .. n, new = [i \in 1 .. n |-> new[i]],
             \A i \in 1 .. n : Like(new[i], old[i])
      PROVE  new \in Seq(Pipes) /\ Kept(new, old) /\ NoneAdded(new, old, 0)
  <2>1. new \in Seq(Pipes)
    BY <1>1, <1>5
  <2>2. Kept(new, old)
    BY <1>1, <1>5 DEF Kept
  <2>3. NoneAdded(new, old, 0)
    BY <1>1, <1>4, <1>5 DEF NoneAdded
  <2> QED
    BY <2>1, <2>2, <2>3
<1> DEFINE mine(i) == {j \in DOMAIN groups : groups[j].name = old[i].node}
           busy(i) == groups[CHOOSE j \in mine(i) : TRUE].active
           down(i) == IF mine(i) = {} THEN old[i] ELSE Tagged(old[i], old[i].node, busy(i))
           up(i) == IF Len(groups) = 1 /\ Len(old) > 1 THEN Tagged(old[i], groups[1].name, TRUE)
                    ELSE IF i \in DOMAIN groups THEN Tagged(old[i], groups[i].name, groups[i].active)
                    ELSE old[i]
<1>6. SyncedDownload(old, groups) = [i \in 1 .. n |-> down(i)]
  BY <1>1 DEF SyncedDownload
<1>7. SyncedUpload(old, groups) = [i \in 1 .. n |-> up(i)]
  BY <1>1 DEF SyncedUpload
<1> HIDE DEF Tagged
<1>8. \A i \in 1 .. n : Like(down(i), old[i])
  <2> SUFFICES ASSUME NEW i \in 1 .. n PROVE Like(down(i), old[i])
    OBVIOUS
  <2>1. mine(i) # {} => busy(i) \in BOOLEAN
    BY <1>2
  <2> HIDE DEF mine, busy, Like
  <2>2. mine(i) # {} => Like(Tagged(old[i], old[i].node, busy(i)), old[i])
    BY <1>1, <1>3, <1>4, <2>1, Zenon
  <2> QED
    BY <1>4, <2>2
<1>9. \A i \in 1 .. n : Like(up(i), old[i])
  <2> SUFFICES ASSUME NEW i \in 1 .. n PROVE Like(up(i), old[i])
    OBVIOUS
  <2> HIDE DEF Like
  <2>1. Len(groups) = 1 => 1 \in DOMAIN groups
    OBVIOUS
  <2>2. 1 \in DOMAIN groups => Like(Tagged(old[i], groups[1].name, TRUE), old[i])
    BY <1>1, <1>2, <1>3, Zenon
  <2>3. i \in DOMAIN groups => Like(Tagged(old[i], groups[i].name, groups[i].active), old[i])
    BY <1>1, <1>2, <1>3, Zenon
  <2> QED
    BY <1>4, <2>1, <2>2, <2>3
<1> HIDE DEF down, up, Like
<1>10. \A i \in 1 .. n : Like(SyncedDownload(old, groups)[i], old[i])
  BY <1>6, <1>8
<1>11. \A i \in 1 .. n : Like(SyncedUpload(old, groups)[i], old[i])
  BY <1>7, <1>9
<1>12. /\ SyncedDownload(old, groups) \in Seq(Pipes)
       /\ Kept(SyncedDownload(old, groups), old)
       /\ NoneAdded(SyncedDownload(old, groups), old, 0)
  BY <1>5, <1>6, <1>10
<1>13. /\ SyncedUpload(old, groups) \in Seq(Pipes)
       /\ Kept(SyncedUpload(old, groups), old)
       /\ NoneAdded(SyncedUpload(old, groups), old, 0)
  BY <1>5, <1>7, <1>11
<1> QED
  BY <1>12, <1>13

LEMMA Extrema ==
    ASSUME NEW a \in Nat, NEW b \in Nat
    PROVE  /\ Min({a, b}) = IF a <= b THEN a ELSE b
           /\ Max({a, b}) = IF a <= b THEN b ELSE a
  BY DEF Min, Max

(* A frame brings two particles at most, however long the pause. *)
LEMMA SpawnedFew ==
    ASSUME NEW pipe, NEW pause \in Nat
    PROVE  Max(Spawned(pipe, pause)) \in 0 .. 2 /\ Min(Spawned(pipe, pause)) \in 0 .. 2
<1> DEFINE time == Min({pause, 100})
           made == ((IF pipe.busy THEN 15 ELSE 2) * time) \div 1000
<1>1. time \in 0 .. 100
  <2>1. 100 \in Nat
    OBVIOUS
  <2>2. time = IF pause <= 100 THEN pause ELSE 100
    BY <2>1, Extrema
  <2> QED
    BY <2>2
<1> HIDE DEF time
<1>2. made \in 0 .. 1
  BY <1>1
<1>3. Spawned(pipe, pause) = {made, made + 1}
  BY DEF Spawned, time
<1> HIDE DEF made
<1> QED
  BY <1>2, <1>3, Extrema

LEMMA DrawnPipes ==
    ASSUME NEW old \in Seq(Pipes), NEW pause \in Nat, NEW carried
    PROVE  /\ Drawn(old, pause, carried) \in Seq(Pipes)
           /\ Kept(Drawn(old, pause, carried), old)
           /\ NoneAdded(Drawn(old, pause, carried), old, 2)
<1> DEFINE n == Len(old)
           more(i) == IF i \in carried THEN Max(Spawned(old[i], pause)) ELSE Min(Spawned(old[i], pause))
           left(i) == Min({ParticleCap, old[i].particles + more(i)})
<1>1. n \in Nat /\ DOMAIN old = 1 .. n /\ \A i \in 1 .. n : old[i] \in Pipes
  OBVIOUS
<1>2. \A i \in 1 .. n : more(i) \in 0 .. 2
  BY SpawnedFew
<1>3. \A i \in 1 .. n : old[i].particles \in 0 .. ParticleCap
  BY <1>1 DEF Pipes
<1> HIDE DEF more
<1>4. \A i \in 1 .. n : left(i) \in 0 .. ParticleCap /\ left(i) <= 2 + old[i].particles
  <2> SUFFICES ASSUME NEW i \in 1 .. n
               PROVE  left(i) \in 0 .. ParticleCap /\ left(i) <= 2 + old[i].particles
    OBVIOUS
  <2>1. ParticleCap \in Nat /\ old[i].particles + more(i) \in Nat
    BY <1>2, <1>3, FlowBounds
  <2>2. left(i) = IF ParticleCap <= old[i].particles + more(i) THEN ParticleCap
                  ELSE old[i].particles + more(i)
    BY <2>1, Extrema
  <2> HIDE DEF left
  <2> QED
    BY <1>2, <1>3, <2>1, <2>2
<1>5. Drawn(old, pause, carried) = [i \in 1 .. n |-> [old[i] EXCEPT !.particles = left(i)]]
  BY <1>1 DEF Drawn, more
<1> HIDE DEF left
<1>6. \A pipe \in Pipes : \A p \in 0 .. ParticleCap :
         /\ [pipe EXCEPT !.particles = p] \in Pipes
         /\ [pipe EXCEPT !.particles = p].node = pipe.node
         /\ [pipe EXCEPT !.particles = p].particles = p
  BY DEF Pipes
<1> DEFINE drawn(i) == [old[i] EXCEPT !.particles = left(i)]
<1>7. \A i \in 1 .. n : /\ drawn(i) \in Pipes /\ drawn(i).node = old[i].node
                        /\ drawn(i).particles <= 2 + old[i].particles
  BY <1>1, <1>4, <1>6
<1> HIDE DEF drawn
<1>8. [i \in 1 .. n |-> drawn(i)] \in Seq(Pipes)
  BY <1>1, <1>7
<1>9. Kept([i \in 1 .. n |-> drawn(i)], old)
  BY <1>1, <1>7 DEF Kept
<1>10. NoneAdded([i \in 1 .. n |-> drawn(i)], old, 2)
  BY <1>1, <1>7 DEF NoneAdded
<1> QED
  BY <1>5, <1>8, <1>9, <1>10 DEF drawn

-----------------------------------------------------------------------------
(* The types of the diagram with the property that the pipes need to keep. *)
DiagramInv == FlowTypeOK /\ PipesMeetNodes

LEMMA LaidOutDiagram ==
    ASSUME NEW d \in Pools \cup {Nobody}, NEW k \in {"dl", "ul"}, pipes[k] \in Seq(Pipes)
    PROVE  /\ Layout(d).nodes[k] \in Seq(Providers)
           /\ Layout(d).pipes[k] \in Seq(Pipes)
           /\ Meet(Layout(d).pipes[k], Layout(d).nodes[k])
           /\ NoneAdded(Layout(d).pipes[k], pipes[k], 0)
<1>1. Placed(Active(d[k])) \in Seq(Providers)
  BY PollGroups, LaidOut
<1>2. /\ Layout(d).nodes[k] = Placed(Active(d[k]))
      /\ Layout(d).pipes[k] = Rebuilt(k, Placed(Active(d[k])), pipes[k])
  BY DEF Layout
<1> QED
  BY <1>1, <1>2, RebuiltPipes

LEMMA DiagramTypes ==
    ASSUME DiagramInv, NEW k \in {"dl", "ul"}
    PROVE  /\ nodes[k] \in Seq(Providers) /\ pipes[k] \in Seq(Pipes)
           /\ Meet(pipes[k], nodes[k])
  BY Zenon DEF DiagramInv, FlowTypeOK, PipesMeetNodes, Meet

(* What the steps do to the pipes, together. *)
Progress(more) ==
    \A k \in {"dl", "ul"} : /\ nodes'[k] \in Seq(Providers) /\ pipes'[k] \in Seq(Pipes)
                            /\ Meet(pipes'[k], nodes'[k])
                            /\ NoneAdded(pipes'[k], pipes[k], more)

LEMMA NoneAddedTwice ==
    ASSUME NEW a \in Seq(Pipes), NEW b \in Seq(Pipes), NEW c \in Seq(Pipes),
           DOMAIN a = DOMAIN b, NoneAdded(a, b, 0), NoneAdded(b, c, 0)
    PROVE  NoneAdded(a, c, 0)
<1>1. ASSUME NEW s \in Seq(Pipes), NEW i \in DOMAIN s PROVE s[i].particles \in Nat
  <2>1. s[i] \in Pipes
    BY <1>1
  <2> QED
    BY <2>1, FlowBounds DEF Pipes
<1> SUFFICES ASSUME NEW i \in DOMAIN a
             PROVE  a[i].particles <= 0 + (IF i \in DOMAIN c THEN c[i].particles ELSE 0)
  BY DEF NoneAdded
<1>2. a[i].particles <= 0 + b[i].particles
  BY DEF NoneAdded
<1>3. b[i].particles <= 0 + (IF i \in DOMAIN c THEN c[i].particles ELSE 0)
  BY DEF NoneAdded
<1>4. a[i].particles \in Nat /\ b[i].particles \in Nat /\ (i \in DOMAIN c => c[i].particles \in Nat)
  BY <1>1
<1> QED
  BY <1>2, <1>3, <1>4

LEMMA StillProgress == DiagramInv /\ UNCHANGED <<nodes, pipes>> => Progress(0)
<1> SUFFICES ASSUME DiagramInv, UNCHANGED <<nodes, pipes>>, NEW k \in {"dl", "ul"}
             PROVE  /\ nodes'[k] \in Seq(Providers) /\ pipes'[k] \in Seq(Pipes)
                    /\ Meet(pipes'[k], nodes'[k])
                    /\ NoneAdded(pipes'[k], pipes[k], 0)
  BY DEF Progress
<1>1. nodes[k] \in Seq(Providers) /\ pipes[k] \in Seq(Pipes) /\ Meet(pipes[k], nodes[k])
  BY DiagramTypes
<1>2. \A i \in DOMAIN pipes[k] : pipes[k][i].particles \in Nat
  <2>1. \A i \in DOMAIN pipes[k] : pipes[k][i] \in Pipes
    BY <1>1
  <2> QED
    BY <2>1, FlowBounds DEF Pipes
<1> QED
  BY <1>1, <1>2 DEF NoneAdded

LEMMA ResizeProgress == DiagramInv /\ Resize => Progress(0)
<1> SUFFICES ASSUME DiagramInv, Resize, NEW k \in {"dl", "ul"}
             PROVE  /\ nodes'[k] \in Seq(Providers) /\ pipes'[k] \in Seq(Pipes)
                    /\ Meet(pipes'[k], nodes'[k])
                    /\ NoneAdded(pipes'[k], pipes[k], 0)
  BY DEF Progress
<1>1. nodes' = Layout(data).nodes /\ pipes' = Layout(data).pipes /\ data \in Pools \cup {Nobody}
  BY DEF Resize, DiagramInv, FlowTypeOK
<1>2. pipes[k] \in Seq(Pipes)
  BY DiagramTypes
<1> QED
  BY <1>1, <1>2, LaidOutDiagram

LEMMA UpdateProgress == ASSUME DiagramInv, NEW d \in Pools \cup {Nobody}, Update(d) PROVE Progress(0)
<1> DEFINE changed == \/ Names(d.dl) # Names(data.dl)
                      \/ Names(d.ul) # Names(data.ul)
           layout == IF changed THEN Layout(d) ELSE [nodes |-> nodes, pipes |-> pipes]
<1>1. /\ nodes' = layout.nodes
      /\ pipes' = [dl |-> SyncedDownload(layout.pipes.dl, d.dl), ul |-> SyncedUpload(layout.pipes.ul, d.ul)]
  BY DEF Update
<1>2. ASSUME NEW k \in {"dl", "ul"}
      PROVE  /\ pipes[k] \in Seq(Pipes)
             /\ layout.nodes[k] \in Seq(Providers) /\ layout.pipes[k] \in Seq(Pipes)
             /\ Meet(layout.pipes[k], layout.nodes[k])
             /\ NoneAdded(layout.pipes[k], pipes[k], 0)
  <2>1. /\ nodes[k] \in Seq(Providers) /\ pipes[k] \in Seq(Pipes) /\ Meet(pipes[k], nodes[k])
    BY DiagramTypes
  <2>2. CASE changed
    BY <2>1, <2>2, LaidOutDiagram
  <2>3. CASE ~changed
    <3>1. layout.nodes[k] = nodes[k] /\ layout.pipes[k] = pipes[k]
      BY <2>3
    <3>2. NoneAdded(pipes[k], pipes[k], 0)
      <4>1. \A i \in DOMAIN pipes[k] : pipes[k][i] \in Pipes
        BY <2>1
      <4>2. \A i \in DOMAIN pipes[k] : pipes[k][i].particles \in Nat
        BY <4>1, FlowBounds DEF Pipes
      <4> QED
        BY <4>2 DEF NoneAdded
    <3> HIDE DEF layout
    <3> QED
      BY <2>1, <3>1, <3>2
  <2> QED
    BY <2>2, <2>3
<1> HIDE DEF layout
<1> DEFINE synced(k) == IF k = "dl" THEN SyncedDownload(layout.pipes["dl"], d["dl"])
                        ELSE SyncedUpload(layout.pipes["ul"], d["ul"])
<1>3. ASSUME NEW k \in {"dl", "ul"}
      PROVE  /\ synced(k) \in Seq(Pipes) /\ Kept(synced(k), layout.pipes[k])
             /\ NoneAdded(synced(k), layout.pipes[k], 0)
  <2>1. CASE k = "dl"
    BY <1>2, <2>1, PollGroups, SyncedPipes
  <2>2. CASE k = "ul"
    BY <1>2, <2>2, PollGroups, SyncedPipes
  <2> QED
    BY <2>1, <2>2
<1>4. \A k \in {"dl", "ul"} : pipes'[k] = synced(k) /\ nodes'[k] = layout.nodes[k]
  BY <1>1
<1> HIDE DEF synced
<1> SUFFICES ASSUME NEW k \in {"dl", "ul"}
             PROVE  /\ nodes'[k] \in Seq(Providers) /\ pipes'[k] \in Seq(Pipes)
                    /\ Meet(pipes'[k], nodes'[k])
                    /\ NoneAdded(pipes'[k], pipes[k], 0)
  BY DEF Progress
<1>5. Meet(synced(k), layout.nodes[k])
  BY <1>2, <1>3, KeptMeet
<1>6. NoneAdded(synced(k), pipes[k], 0)
  BY <1>2, <1>3, NoneAddedTwice DEF Kept
<1> QED
  BY <1>2, <1>3, <1>4, <1>5, <1>6

LEMMA FrameProgress == DiagramInv /\ Frame => Progress(2)
<1> SUFFICES ASSUME DiagramInv, Frame, NEW k \in {"dl", "ul"}
             PROVE  /\ nodes'[k] \in Seq(Providers) /\ pipes'[k] \in Seq(Pipes)
                    /\ Meet(pipes'[k], nodes'[k])
                    /\ NoneAdded(pipes'[k], pipes[k], 2)
  BY DEF Progress
<1>1. PICK pause \in Pauses,
           carried \in [{"dl", "ul"} -> SUBSET (DOMAIN pipes.dl \cup DOMAIN pipes.ul)] :
           pipes' = [j \in {"dl", "ul"} |-> Drawn(pipes[j], pause, carried[j])]
  BY DEF Frame
<1>2. pipes'[k] = Drawn(pipes[k], pause, carried[k]) /\ nodes' = nodes
  BY <1>1 DEF Frame
<1>3. pause \in Nat /\ nodes[k] \in Seq(Providers) /\ pipes[k] \in Seq(Pipes) /\ Meet(pipes[k], nodes[k])
  BY FlowBounds, DiagramTypes
<1> QED
  BY <1>2, <1>3, DrawnPipes, KeptMeet

LEMMA RowsAreNumbers == ASSUME NEW d \in Pools \cup {Nobody} PROVE RowsFor(d) \in Nat
<1>1. Active(d["dl"]) \in Seq(FlowGroups) /\ Active(d["ul"]) \in Seq(FlowGroups)
  BY PollGroups, ActiveGroups
<1>2. MinRows \in Nat /\ Len(Active(d.dl)) \in Nat /\ Len(Active(d.ul)) \in Nat
  BY <1>1, FlowBounds
<1>3. \A a, b, c \in Nat : Max({a, b, c}) \in Nat
  <2> SUFFICES ASSUME NEW a \in Nat, NEW b \in Nat, NEW c \in Nat PROVE Max({a, b, c}) \in Nat
    OBVIOUS
  <2>1. \E x \in {a, b, c} : \A y \in {a, b, c} : x >= y
    OBVIOUS
  <2>2. Max({a, b, c}) \in {a, b, c}
    BY <2>1 DEF Max
  <2> QED
    BY <2>2
<1> QED
  BY <1>2, <1>3 DEF RowsFor

LEMMA DiagramStep == DiagramInv /\ LoopInv' /\ [FlowNext]_flowVars => DiagramInv'
<1> SUFFICES ASSUME DiagramInv, LoopInv', [FlowNext]_flowVars PROVE DiagramInv'
  OBVIOUS
<1>1. /\ shown \in BOOLEAN /\ visible \in BOOLEAN /\ sized \in BOOLEAN
      /\ polled \in Pools \cup {Nobody} /\ rows \in Nat /\ data \in Pools \cup {Nobody}
  BY DEF DiagramInv, FlowTypeOK
<1>2. shown' \in BOOLEAN /\ visible' \in BOOLEAN /\ animId' \in BOOLEAN /\ pending' \in Nat
  BY DEF LoopInv
<1>3. /\ sized' \in BOOLEAN /\ polled' \in Pools \cup {Nobody}
      /\ rows' \in Nat /\ data' \in Pools \cup {Nobody}
  <2>1. CASE Mounted
    BY <1>1, <2>1 DEF Mounted
  <2>2. CASE Unmounted \/ VisibilityChanges \/ Frame \/ UNCHANGED flowVars
    BY <1>1, <2>2 DEF Unmounted, VisibilityChanges, Frame, flowVars
  <2>3. CASE ContainerResized
    BY <1>1, <2>3, RowsAreNumbers DEF ContainerResized
  <2>4. CASE PollAnswered
    BY <1>1, <2>4, RowsAreNumbers DEF PollAnswered
  <2>5. CASE StatsArrive
    BY <1>1, <2>5 DEF StatsArrive, Update
  <2> QED
    BY <2>1, <2>2, <2>3, <2>4, <2>5 DEF FlowNext
<1>4. \A k \in {"dl", "ul"} : nodes'[k] \in Seq(Providers) /\ pipes'[k] \in Seq(Pipes)
                             /\ Meet(pipes'[k], nodes'[k])
  <2>1. CASE Mounted
    <3>1. \A k \in {"dl", "ul"} : nodes'[k] = <<>> /\ pipes'[k] = <<>>
      BY <2>1 DEF Mounted, Nobody
    <3>2. <<>> \in Seq(Providers) /\ <<>> \in Seq(Pipes) /\ Meet(<<>>, <<>>)
      BY DEF Meet, Range
    <3> QED
      BY <3>1, <3>2
  <2>2. CASE Unmounted \/ VisibilityChanges \/ UNCHANGED flowVars
    <3>1. UNCHANGED <<nodes, pipes>>
      BY <2>2 DEF Unmounted, VisibilityChanges, flowVars
    <3> QED
      BY <3>1, StillProgress DEF Progress
  <2>3. CASE ContainerResized \/ PollAnswered
    <3>1. Resize \/ UNCHANGED <<nodes, pipes>>
      BY <2>3 DEF ContainerResized, PollAnswered
    <3> QED
      BY <3>1, StillProgress, ResizeProgress DEF Progress
  <2>4. CASE StatsArrive
    BY <1>1, <2>4, UpdateProgress DEF Progress, StatsArrive
  <2>5. CASE Frame
    BY <2>5, FrameProgress DEF Progress
  <2> QED
    BY <2>1, <2>2, <2>3, <2>4, <2>5 DEF FlowNext
<1>5. PipesMeetNodes'
  BY <1>4 DEF PipesMeetNodes, Meet
<1> QED
  BY <1>2, <1>3, <1>4, <1>5 DEF DiagramInv, FlowTypeOK

LEMMA DiagramInit == FlowInit => DiagramInv
<1> SUFFICES ASSUME FlowInit PROVE DiagramInv
  OBVIOUS
<1>1. \A k \in {"dl", "ul"} : nodes[k] = <<>> /\ pipes[k] = <<>>
  BY DEF FlowInit, Nobody
<1>2. <<>> \in Seq(Providers) /\ <<>> \in Seq(Pipes) /\ Meet(<<>>, <<>>)
  BY DEF Meet, Range
<1>3. PipesMeetNodes
  BY <1>1, <1>2 DEF PipesMeetNodes, Meet
<1> QED
  BY <1>1, <1>2, <1>3 DEF DiagramInv, FlowTypeOK, FlowInit

(* No step brings a pipe more than two particles. *)
LEMMA DiagramProgress ==
    DiagramInv /\ [FlowNext]_flowVars =>
        \A k \in {"dl", "ul"} : NoneAdded(pipes'[k], pipes[k], 2)
<1> SUFFICES ASSUME DiagramInv, [FlowNext]_flowVars, NEW k \in {"dl", "ul"}
             PROVE  NoneAdded(pipes'[k], pipes[k], 2)
  OBVIOUS
<1>1. polled \in Pools \cup {Nobody}
  BY DEF DiagramInv, FlowTypeOK
<1>2. CASE Mounted
  <2>1. pipes'[k] = <<>>
    BY <1>2 DEF Mounted, Nobody
  <2> QED
    BY <2>1 DEF NoneAdded
<1>3. Progress(0) => NoneAdded(pipes'[k], pipes[k], 2)
  <2> SUFFICES ASSUME Progress(0), NEW i \in DOMAIN pipes'[k]
               PROVE  pipes'[k][i].particles
                        <= 2 + (IF i \in DOMAIN pipes[k] THEN pipes[k][i].particles ELSE 0)
    BY DEF NoneAdded
  <2>1. pipes'[k] \in Seq(Pipes) /\ pipes[k] \in Seq(Pipes)
    BY DiagramTypes DEF Progress
  <2>2. pipes'[k][i] \in Pipes /\ (i \in DOMAIN pipes[k] => pipes[k][i] \in Pipes)
    BY <2>1
  <2>3. /\ pipes'[k][i].particles \in Nat
        /\ i \in DOMAIN pipes[k] => pipes[k][i].particles \in Nat
    BY <2>2, FlowBounds DEF Pipes
  <2>4. pipes'[k][i].particles <= 0 + (IF i \in DOMAIN pipes[k] THEN pipes[k][i].particles ELSE 0)
    BY DEF Progress, NoneAdded
  <2> QED
    BY <2>3, <2>4
<1>4. CASE Unmounted \/ VisibilityChanges \/ UNCHANGED flowVars
  <2>1. UNCHANGED <<nodes, pipes>>
    BY <1>4 DEF Unmounted, VisibilityChanges, flowVars
  <2> QED
    BY <2>1, <1>3, StillProgress
<1>5. CASE ContainerResized \/ PollAnswered
  <2>1. Resize \/ UNCHANGED <<nodes, pipes>>
    BY <1>5 DEF ContainerResized, PollAnswered
  <2> QED
    BY <2>1, <1>3, StillProgress, ResizeProgress
<1>6. CASE StatsArrive
  BY <1>1, <1>3, <1>6, UpdateProgress DEF StatsArrive
<1>7. CASE Frame
  BY <1>7, FrameProgress DEF Progress
<1> QED
  BY <1>2, <1>4, <1>5, <1>6, <1>7 DEF FlowNext

(* Layouts, pipes and particles keep their types, whatever the polls bring (rebuildLayout,
   rebuildPipes, syncPipes, drawPipes). *)
THEOREM FlowTypes == FlowSpec => []FlowTypeOK
<1>1. DiagramInv => FlowTypeOK
  BY DEF DiagramInv
<1> QED
  BY <1>1, DiagramInit, DiagramStep, LoopInit, LoopStep, PTL DEF FlowSpec

(* Whatever a poll brings and whenever the container is resized, every node has a pipe and
   every pipe leads to a node of the layout (rebuildLayout, rebuildPipes, syncPipes). *)
THEOREM PipesMeetNodesHolds == FlowSpec => []PipesMeetNodes
<1>1. DiagramInv => PipesMeetNodes
  BY DEF DiagramInv
<1> QED
  BY <1>1, DiagramInit, DiagramStep, LoopInit, LoopStep, PTL DEF FlowSpec

(* However long the page was frozen, and however many frames, polls and resizes there were
   before, no step brings a pipe more than two particles (the cap on delta in drawPipes). *)
THEOREM NoBacklogHolds == FlowSpec => NoBacklog
<1> DEFINE Few == \A k \in {"dl", "ul"} : \A i \in DOMAIN pipes'[k] :
                     pipes'[k][i].particles
                        <= 2 + (IF i \in DOMAIN pipes[k] THEN pipes[k][i].particles ELSE 0)
<1>1. DiagramInv /\ [FlowNext]_flowVars => [Few]_flowVars
  BY DiagramProgress DEF NoneAdded
<1> QED
  BY <1>1, DiagramInit, DiagramStep, LoopInit, LoopStep, PTL DEF FlowSpec, NoBacklog

-----------------------------------------------------------------------------
(* The three parts side by side *)

LiveInv ==
    /\ SocketTypeOK /\ ChainInv /\ OneSocket /\ OrderInv
    /\ ControlTypeOK /\ LockInv /\ SparkInv
    /\ LoopInv /\ PipesInv /\ DiagramInv

LEMMA LiveInvInit == LiveInit => LiveInv
<1>1. FlowInit => PipesInv
  BY DEF FlowInit, PipesInv, Nobody, OwnTraffic
<1> QED
  BY <1>1, SocketTypesInit, ChainInit, OneSocketInit, OrderInit, HistoryInit, LockInit, LoopInit, DiagramInit
     DEF LiveInit, LiveInv

LEMMA LiveInvStep == LiveInv /\ [LiveNext]_liveVars => LiveInv'
<1> SUFFICES ASSUME LiveInv, [LiveNext]_liveVars PROVE LiveInv'
  OBVIOUS
<1>1. [SocketNext]_socketVars /\ [ControlNext]_controlVars /\ [FlowNext]_flowVars
  BY DEF LiveNext, liveVars
<1>2. SocketTypeOK' /\ ChainInv' /\ OneSocket' /\ OrderInv'
  BY <1>1, SocketTypesStep, ChainStep, OneSocketStep, OrderStep DEF LiveInv
<1>3. ControlTypeOK' /\ LockInv' /\ SparkInv'
  BY <1>1, HistoryStep, LockStep DEF LiveInv
<1>4. LoopInv' /\ PipesInv'
  BY <1>1, LoopStep, PipesStep DEF LiveInv
<1>5. DiagramInv'
  BY <1>1, <1>4, DiagramStep DEF LiveInv
<1> QED
  BY <1>2, <1>3, <1>4, <1>5 DEF LiveInv

(* Whichever part moves, the feed, the controls and the diagram keep within their types, the
   log and the history of speeds within their lengths, a pipe within its particles
   (useWebSocket, ControlSurface.tsx, trafficFlowRenderer.ts). *)
THEOREM LiveTypes == LiveSpec => []LiveTypeOK
<1>1. LiveInv => LiveTypeOK
  BY DEF LiveInv, DiagramInv, LiveTypeOK
<1> QED
  BY <1>1, LiveInvInit, LiveInvStep, PTL DEF LiveSpec
=============================================================================
