------------------------------- MODULE Socket -------------------------------
(***************************************************************************)
(* The live feed of the dashboard: the hook useWebSocket with its chain of *)
(* reconnections, the hub that keeps the connections, the engines' event   *)
(* buffer and the goroutine that drains and broadcasts it every second.    *)
(*                                                                         *)
(* A socket is used once: each reconnection takes the next number, so the  *)
(* timer that follows the close of socket s is named s as well.  Sockets   *)
(* fail at most MaxFailures times, which bounds their number.  The hook is *)
(* mounted again up to MaxMounts times: React's StrictMode (main.tsx)      *)
(* mounts, unmounts and mounts every component while developing.           *)
(* A slip of a change to the code is named after its definition and a word *)
(* (Closed_noRetry); no behaviour takes one.                               *)
(***************************************************************************)
EXTENDS Naturals, Sequences, FiniteSets, SequencesExt

CONSTANTS MaxMounts,    \* mounts of the hook (bound)
          MaxFailures,  \* connections that break or are refused (bound)
          MaxEvents,    \* engine events (bound)
          BufferCap,    \* capacity of the event buffer
          LogCap        \* events the page keeps

ASSUME SocketAssumption == /\ MaxMounts \in Nat \ {0}
                           /\ MaxFailures \in Nat
                           /\ MaxEvents \in Nat
                           /\ BufferCap \in Nat \ {0}
                           /\ LogCap \in Nat \ {0}

Sockets == 1 .. 2 * MaxMounts + MaxFailures
Events == 1 .. MaxEvents
SocketStates == {"unborn", "connecting", "open", "closing", "closed"}

VARIABLES
    mounts,     \* how often the hook was mounted
    mounted,
    failures,   \* connections broken so far
    socket,     \* readyState of each socket; "closing" until onclose has run
    wsRef,      \* wsRef.current, 0 when null
    timers,     \* pending reconnections, named by the socket that closed
    timerRef,   \* reconnectTimer.current, 0 when never set
    connected,  \* what the header shows
    log,        \* stats.events
    peer,       \* the server's end of each socket
    clients,    \* hub.clients
    nextEvent,
    buffer,     \* events.Buffer
    cast,       \* the broadcast under way: its receivers and its events
    wire        \* messages on their way to each socket

hookVars == <<mounts, mounted, socket, wsRef, timers, timerRef, connected, log>>
hubVars == <<peer, clients, nextEvent, buffer, cast>>
socketVars == <<hookVars, hubVars, failures, wire>>

SocketTypeOK ==
    /\ mounts \in 1 .. MaxMounts /\ mounted \in BOOLEAN
    /\ failures \in 0 .. MaxFailures
    /\ socket \in [Sockets -> SocketStates]
    /\ wsRef \in Sockets \cup {0}
    /\ timers \subseteq Sockets /\ timerRef \in Sockets \cup {0}
    /\ connected \in BOOLEAN
    /\ log \in Seq(Events) /\ Len(log) <= LogCap
    /\ peer \in [Sockets -> {"none", "accepted", "registered", "gone"}]
    /\ clients \subseteq Sockets
    /\ nextEvent \in 1 .. MaxEvents + 1
    /\ buffer \in Seq(Events) /\ Len(buffer) <= BufferCap
    /\ cast \in [to : SUBSET Sockets, events : Seq(Events)]
    /\ wire \in [Sockets -> Seq(Seq(Events))]

Live == {s \in Sockets : socket[s] \in {"connecting", "open", "closing"}}
LastN(seq, n) == IF Len(seq) <= n THEN seq ELSE SubSeq(seq, Len(seq) - n + 1, Len(seq))

-----------------------------------------------------------------------------
(* The hook *)

(* connect: nothing when the current socket is open, else a new socket, whatever
   the current one was doing. *)
Connect(sockets) ==
    IF wsRef # 0 /\ sockets[wsRef] = "open"
    THEN socket' = sockets /\ UNCHANGED wsRef
    ELSE \E s \in Sockets : /\ sockets[s] = "unborn"
                            /\ \A t \in 1 .. s - 1 : sockets[t] # "unborn"
                            /\ socket' = [sockets EXCEPT ![s] = "connecting"]
                            /\ wsRef' = s

Mount ==
    /\ ~mounted /\ mounts < MaxMounts
    /\ mounts' = mounts + 1 /\ mounted' = TRUE
    /\ Connect(socket)
    /\ UNCHANGED <<timers, timerRef, connected, log, hubVars, failures, wire>>

(* The cleanup: clears the timer it knows of and closes the current socket, whose
   onclose comes later. *)
Unmount ==
    /\ mounted /\ mounts < MaxMounts
    /\ mounted' = FALSE
    /\ timers' = timers \ {timerRef}
    /\ socket' = [s \in Sockets |->
                    IF s = wsRef /\ socket[s] \in {"connecting", "open"} THEN "closing" ELSE socket[s]]
    /\ UNCHANGED <<mounts, wsRef, timerRef, connected, log, hubVars, failures, wire>>

(* onopen *)
Opened(s) ==
    /\ socket[s] = "connecting" /\ peer[s] \in {"accepted", "registered"}
    /\ socket' = [socket EXCEPT ![s] = "open"]
    /\ connected' = TRUE
    /\ UNCHANGED <<mounts, mounted, wsRef, timers, timerRef, log, hubVars, failures, wire>>

(* onmessage: the log grows by the message's events and keeps the last LogCap. *)
Message(s) ==
    /\ socket[s] = "open" /\ wire[s] # <<>>
    /\ log' = LastN(log \o Head(wire[s]), LogCap)
    /\ wire' = [wire EXCEPT ![s] = Tail(@)]
    /\ UNCHANGED <<mounts, mounted, socket, wsRef, timers, timerRef, connected, hubVars, failures>>

(* The connection breaks, or the handshake fails; onerror closes the socket. *)
Break(s) ==
    /\ socket[s] \in {"connecting", "open"} /\ failures < MaxFailures
    /\ failures' = failures + 1
    /\ socket' = [socket EXCEPT ![s] = "closing"]
    /\ UNCHANGED <<mounts, mounted, wsRef, timers, timerRef, connected, log, hubVars, wire>>

(* onclose, of whichever socket it is: the feed is offline, there is no current
   socket, and the hook tries again in two seconds. *)
Closed_noRetry(s) ==
    /\ socket[s] = "closing"
    /\ socket' = [socket EXCEPT ![s] = "closed"]
    /\ connected' = FALSE
    /\ wsRef' = 0
    /\ wire' = [wire EXCEPT ![s] = <<>>]
    /\ UNCHANGED <<mounts, mounted, timers, timerRef, log, failures, hubVars>>

Closed_keepsConnected(s) ==
    /\ socket[s] = "closing"
    /\ socket' = [socket EXCEPT ![s] = "closed"]
    /\ wsRef' = 0
    /\ timers' = timers \cup {s} /\ timerRef' = s
    /\ wire' = [wire EXCEPT ![s] = <<>>]
    /\ UNCHANGED <<mounts, mounted, connected, log, hubVars, failures>>

Closed(s) ==
    /\ socket[s] = "closing"
    /\ socket' = [socket EXCEPT ![s] = "closed"]
    /\ connected' = FALSE
    /\ wsRef' = 0
    /\ timers' = timers \cup {s} /\ timerRef' = s
    /\ wire' = [wire EXCEPT ![s] = <<>>]
    /\ UNCHANGED <<mounts, mounted, log, hubVars, failures>>

(* The two seconds are over. *)
Reconnect_interval(s) ==
    /\ s \in timers
    /\ Connect(socket)
    /\ UNCHANGED <<mounts, mounted, timers, timerRef, connected, log, hubVars, failures, wire>>

Reconnect(s) ==
    /\ s \in timers
    /\ timers' = timers \ {s}
    /\ Connect(socket)
    /\ UNCHANGED <<mounts, mounted, timerRef, connected, log, hubVars, failures, wire>>

-----------------------------------------------------------------------------
(* The server *)

(* HandleWs: the handshake, then the entry in the hub. *)
Accept(s) ==
    /\ socket[s] = "connecting" /\ peer[s] = "none"
    /\ peer' = [peer EXCEPT ![s] = "accepted"]
    /\ UNCHANGED <<hookVars, clients, nextEvent, buffer, cast, failures, wire>>

Register(s) ==
    /\ peer[s] = "accepted"
    /\ peer' = [peer EXCEPT ![s] = "registered"]
    /\ clients' = clients \cup {s}
    /\ UNCHANGED <<hookVars, nextEvent, buffer, cast, failures, wire>>

(* CloseRead notices that the other end is gone. *)
Forget(s) ==
    /\ peer[s] = "registered" /\ socket[s] \in {"closing", "closed"}
    /\ peer' = [peer EXCEPT ![s] = "gone"]
    /\ clients' = clients \ {s}
    /\ UNCHANGED <<hookVars, nextEvent, buffer, cast, failures, wire>>

(* An engine adds an event; a full buffer drops its oldest. *)
AddEvent ==
    /\ nextEvent <= MaxEvents
    /\ buffer' = LastN(Append(buffer, nextEvent), BufferCap)
    /\ nextEvent' = nextEvent + 1
    /\ UNCHANGED <<hookVars, peer, clients, cast, failures, wire>>

(* A tick of the broadcast goroutine: it drains the buffer whoever listens and
   copies the hub's clients before it writes to any of them. *)
BroadcastTick_keepsEvents ==
    /\ cast.to = {}
    /\ cast' = [to |-> clients, events |-> buffer]
    /\ UNCHANGED buffer
    /\ UNCHANGED <<hookVars, peer, clients, nextEvent, failures, wire>>

BroadcastTick ==
    /\ cast.to = {}
    /\ cast' = [to |-> clients, events |-> buffer]
    /\ buffer' = <<>>
    /\ UNCHANGED <<hookVars, peer, clients, nextEvent, failures, wire>>

(* One write of the broadcast: to a live peer, or to one that is gone, which the
   hub then drops.  A message without events carries statistics only. *)
Write(s) ==
    /\ s \in cast.to
    /\ cast' = [cast EXCEPT !.to = @ \ {s}]
    /\ \/ /\ socket[s] \in {"connecting", "open"} /\ peer[s] = "registered"
          /\ wire' = IF cast.events = <<>> THEN wire
                     ELSE [wire EXCEPT ![s] = Append(@, cast.events)]
          /\ UNCHANGED <<peer, clients>>
       \/ /\ socket[s] \in {"closing", "closed"}
          /\ peer' = [peer EXCEPT ![s] = "gone"]
          /\ clients' = clients \ {s}
          /\ UNCHANGED wire
    /\ UNCHANGED <<hookVars, nextEvent, buffer, failures>>

-----------------------------------------------------------------------------
SocketInit ==
    /\ mounts = 1 /\ mounted = TRUE /\ failures = 0
    /\ socket = [s \in Sockets |-> IF s = 1 THEN "connecting" ELSE "unborn"]
    /\ wsRef = 1 /\ timers = {} /\ timerRef = 0
    /\ connected = FALSE /\ log = <<>>
    /\ peer = [s \in Sockets |-> "none"] /\ clients = {}
    /\ nextEvent = 1 /\ buffer = <<>>
    /\ cast = [to |-> {}, events |-> <<>>]
    /\ wire = [s \in Sockets |-> <<>>]

HookStep(s) == Opened(s) \/ Message(s) \/ Closed(s) \/ Reconnect(s)
HubStep(s) == Accept(s) \/ Register(s) \/ Forget(s) \/ Write(s)

SocketNext ==
    \/ Mount \/ Unmount
    \/ \E s \in Sockets : HookStep(s) \/ HubStep(s) \/ Break(s)
    \/ AddEvent \/ BroadcastTick

(* Timers fire, callbacks run and the server answers.  Nobody has to mount the
   page, break a connection or produce an event. *)
SocketFairness ==
    /\ \A s \in Sockets : /\ WF_socketVars(HookStep(s))
                          /\ WF_socketVars(HubStep(s))
    /\ WF_socketVars(BroadcastTick)

SocketSpec == SocketInit /\ [][SocketNext]_socketVars /\ SocketFairness

-----------------------------------------------------------------------------
(* Every mount starts at most one chain of reconnections: the sockets that are not
   closed and the timers that wait never outnumber the mounts, however closes,
   timers and remounts interleave (connect and onclose of useWebSocket). *)
ChainsBounded == Cardinality(Live) + Cardinality(timers) <= mounts

(* Mounted once, the page shows every event at most once and in the order of the
   engines, across reconnections and overflows of the buffer (onmessage, Broadcast
   and Drain). *)
LogInOrder == mounts = 1 => \A i, j \in DOMAIN log : i < j => log[i] < log[j]

(* Mounted once, the header says Live only over a current socket that was opened and
   whose close has not been reported yet. *)
ConnectedIsTruthful ==
    mounts = 1 /\ connected => wsRef # 0 /\ socket[wsRef] \in {"open", "closing"}

(* Once connections stop breaking, a mounted page is live again and stays so. *)
FeedUp == mounted => connected
=============================================================================
