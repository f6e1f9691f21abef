------------------------------- MODULE MCLive -------------------------------
(***************************************************************************)
(* What is live on the dashboard: the feed, the control surface and the    *)
(* flow diagram.  The three modules share no variable, so a behaviour runs *)
(* one of them, chosen at the start, and leaves the others where they are. *)
(***************************************************************************)
EXTENDS Socket, ControlSurface, FlowRenderer

CONSTANTS FeedBound, ControlsBound   \* bounds on what happens in one behaviour

VARIABLE part
liveVars == <<part, socketVars, controlVars, flowVars>>

(* The answers a poll may bring. *)
P == {"p", "q"}
G(n, a) == [name |-> n, active |-> a]
MCPools == { [dl |-> <<G("q", TRUE)>>, ul |-> <<G("p", TRUE)>>],
             [dl |-> <<>>, ul |-> <<G("p", TRUE)>>],
             [dl |-> <<G("p", TRUE)>>, ul |-> <<G("q", TRUE)>>],
             [dl |-> <<G("p", TRUE), G("q", TRUE)>>, ul |-> <<G("p", TRUE), G("q", TRUE)>>],
             [dl |-> <<G("q", TRUE), G("p", FALSE)>>, ul |-> <<G("q", TRUE), G("p", FALSE)>>] }

LiveInit ==
    /\ part \in {"feed", "controls", "diagram"}
    /\ SocketInit /\ FlowInit
    /\ ControlInit /\ (part # "controls" => engine.mode = "reliable")

LiveNext ==
    \/ /\ part = "feed" /\ SocketNext /\ UNCHANGED <<part, controlVars, flowVars>>
       /\ 2 * mounts' + nextEvent' <= FeedBound
    \/ /\ part = "controls" /\ ControlNext /\ UNCHANGED <<part, socketVars, flowVars>>
       /\ modeClicks' + lost' <= ControlsBound
    \/ part = "diagram" /\ FlowNext /\ UNCHANGED <<part, socketVars, controlVars>>

(* The fairness of the module whose turn it is. *)
FeedFair ==
    /\ \A s \in Sockets : /\ WF_socketVars(part = "feed" /\ HookStep(s))
                          /\ WF_socketVars(part = "feed" /\ HubStep(s))
    /\ WF_socketVars(part = "feed" /\ BroadcastTick)

ControlsFair ==
    /\ WF_controlVars(part = "controls" /\ SendFrame)
    /\ WF_controlVars(part = "controls" /\ FrameArrives)
    /\ WF_controlVars(part = "controls" /\ (\E i \in 1 .. MaxOverlap : ServeMode(i)))
    /\ WF_controlVars(part = "controls" /\ (\E i \in 1 .. MaxCalls : ServeCall(i)))
    /\ WF_controlVars(part = "controls" /\ (\E i \in 1 .. MaxCalls : CallReturns(i)))

LiveSpec == LiveInit /\ [][LiveNext]_liveVars /\ FeedFair /\ ControlsFair

-----------------------------------------------------------------------------
(* The three modules keep within their types and bounds: the log and the history of
   speeds their lengths, a pipe its particles. *)
LiveTypeOK == SocketTypeOK /\ ControlTypeOK /\ FlowTypeOK

(* What must happen does: the feed comes back, the button of a command comes back, the
   switch of the modes settles. *)
LiveProgress ==
    /\ <>[](part = "feed" => FeedUp)
    /\ ButtonComesBack /\ ModeSettles
=============================================================================
