---------------------------- MODULE FlowRenderer ----------------------------
(***************************************************************************)
(* The animated diagram of the traffic: the component TrafficFlow, which   *)
(* polls the servers, and the canvas renderer, which keeps a layout of     *)
(* nodes and pipes between the frames it draws.                            *)
(*                                                                         *)
(* The renderer is driven by four sources that know nothing of each other: *)
(* frames of statistics, answers to polls, resizes of the container and    *)
(* the visibility of the tab.  Coordinates and text are left out; a pipe   *)
(* keeps the provider whose traffic it shows.  Groups come sorted by speed,*)
(* so their order changes from one poll to the next.  The dashboard mounts *)
(* the diagram while the engines run and at no other time.                 *)
(* Definitions named after another one and a word (Layout_keepsPipes) are  *)
(* slips of a change to the code; no behaviour of FlowSpec takes them.     *)
(***************************************************************************)
EXTENDS Integers, Sequences, FiniteSets, SequencesExt, FiniteSetsExt

CONSTANTS Providers,   \* provider names
          Pools,       \* what a poll may bring: [dl, ul : sequences of groups]
          MinRows,     \* nodes the smallest canvas is made for (3 in the code)
          Fan,         \* pipes to an only upload target (3 to 6 in the code)
          ParticleCap, \* particles of a pipe (60 in the code)
          Pauses       \* milliseconds between two frames

FlowGroups == [name : Providers, active : BOOLEAN]

ASSUME FlowAssumption ==
    /\ \A p \in Pools : /\ DOMAIN p = {"dl", "ul"}
                        /\ \A k \in {"dl", "ul"} : p[k] \in Seq(FlowGroups)
    /\ MinRows \in Nat /\ Fan \in Nat \ {0} /\ ParticleCap \in Nat \ {0}
    /\ Pauses \subseteq Nat

VARIABLES
    shown,      \* the diagram is mounted: the engines run
    visible,    \* usePageVisibility
    polled,     \* serverDataRef.current, grouped
    sized,      \* the container reported its width
    rows,       \* lastHeightRef.current, in nodes
    data,       \* this.data: what the last update brought
    nodes,      \* downloadNodes and uploadNodes: names, top to bottom
    pipes,      \* downloadPipes and uploadPipes
    animId,     \* this.animId is set
    pending     \* frames the browser was asked for

flowVars == <<shown, visible, polled, sized, rows, data, nodes, pipes, animId, pending>>

Nobody == [dl |-> <<>>, ul |-> <<>>]
None == "none"
Pipes == [node : Providers, shows : Providers \cup {None}, busy : BOOLEAN,
          particles : 0 .. ParticleCap]

FlowTypeOK ==
    /\ shown \in BOOLEAN /\ visible \in BOOLEAN /\ sized \in BOOLEAN
    /\ polled \in Pools \cup {Nobody}
    /\ rows \in Nat
    /\ data \in Pools \cup {Nobody}
    /\ \A k \in {"dl", "ul"} : nodes[k] \in Seq(Providers) /\ pipes[k] \in Seq(Pipes)
    /\ animId \in BOOLEAN /\ pending \in Nat

Names(groups) == {groups[i].name : i \in DOMAIN groups}

(* The active groups, in their order. *)
Active(groups) ==
    LET kept[n \in 0 .. Len(groups)] ==
            IF n = 0 THEN <<>>
            ELSE IF groups[n].active THEN Append(kept[n - 1], groups[n]) ELSE kept[n - 1]
    IN  kept[Len(groups)]

(* buildHorizontalLayout and buildVerticalLayout: a node for each group, in the order of
   the groups, in a column or in a row. *)
Placed(groups) == [i \in DOMAIN groups |-> groups[i].name]

-----------------------------------------------------------------------------
(* The layout *)

(* rebuildPipes: one pipe a node, an only upload target gets a fan.  The particles
   are handed on by position. *)
Rebuilt(k, names, old) ==
    LET count == IF k = "ul" /\ Len(names) = 1 THEN Fan ELSE Len(names)
    IN  [i \in 1 .. count |->
            [node |-> IF Len(names) = 1 THEN names[1] ELSE names[i],
             shows |-> None, busy |-> FALSE,
             particles |-> IF i \in DOMAIN old THEN old[i].particles ELSE 0]]

(* rebuildLayout, from the data the renderer has: the mounting effects bring the first
   before anything else asks for a layout. *)
Layout_keepsPipes(d) ==
    [nodes |-> [k \in {"dl", "ul"} |-> Placed(Active(d[k]))], pipes |-> pipes]

Layout(d) ==
    [nodes |-> [k \in {"dl", "ul"} |-> Placed(Active(d[k]))],
     pipes |-> [k \in {"dl", "ul"} |-> Rebuilt(k, Placed(Active(d[k])), pipes[k])]]

(* syncPipes: a download pipe looks its provider up by name, upload pipes take the
   targets in order, a fan shows the only target. *)
SyncedDownload_byPosition(old, groups) ==
    [i \in DOMAIN old |->
        IF i \in DOMAIN groups
        THEN [old[i] EXCEPT !.shows = groups[i].name, !.busy = groups[i].active]
        ELSE old[i]]

SyncedDownload(old, groups) ==
    [i \in DOMAIN old |->
        LET mine == {j \in DOMAIN groups : groups[j].name = old[i].node}
        IN  IF mine = {} THEN old[i]
            ELSE [old[i] EXCEPT !.shows = old[i].node,
                                !.busy = groups[CHOOSE j \in mine : TRUE].active]]

SyncedUpload(old, groups) ==
    IF Len(groups) = 1 /\ Len(old) > 1
    THEN [i \in DOMAIN old |-> [old[i] EXCEPT !.shows = groups[1].name, !.busy = TRUE]]
    ELSE [i \in DOMAIN old |->
            IF i \in DOMAIN groups
            THEN [old[i] EXCEPT !.shows = groups[i].name, !.busy = groups[i].active]
            ELSE old[i]]

(* update: a new layout only if the set of names changed, "not on reordering". *)
Update(d) ==
    LET changed == \/ Names(d.dl) # Names(data.dl)
                   \/ Names(d.ul) # Names(data.ul)
        layout == IF changed THEN Layout(d) ELSE [nodes |-> nodes, pipes |-> pipes]
    IN  /\ data' = d
        /\ nodes' = layout.nodes
        /\ pipes' = [dl |-> SyncedDownload(layout.pipes.dl, d.dl),
                     ul |-> SyncedUpload(layout.pipes.ul, d.ul)]

(* resize: a new layout of what is there; the traffic of the pipes comes with the next
   update. *)
Resize == nodes' = Layout(data).nodes /\ pipes' = Layout(data).pipes

-----------------------------------------------------------------------------
(* The animation: start and stop are calls made by the steps below. *)
Start == animId' = TRUE /\ pending' = IF animId THEN pending ELSE pending + 1
Stop == animId' = FALSE /\ pending' = IF animId THEN pending - 1 ELSE pending

(* drawPipes: time counts for a tenth of a second at most; a busy pipe brings fifteen
   particles a second, an idle one two, and the rest of a particle is carried over. *)
Spawned_backlog(pipe, pause) ==
    LET made == ((IF pipe.busy THEN 15 ELSE 2) * pause) \div 1000
    IN  {made, made + 1}

Spawned(pipe, pause) ==
    LET made == ((IF pipe.busy THEN 15 ELSE 2) * Min({pause, 100})) \div 1000
    IN  {made, made + 1}

Drawn_uncapped(old, pause, carried) ==
    [i \in DOMAIN old |->
        [old[i] EXCEPT !.particles =
            @ + IF i \in carried THEN Max(Spawned(old[i], pause)) ELSE Min(Spawned(old[i], pause))]]

Drawn(old, pause, carried) ==
    [i \in DOMAIN old |->
        [old[i] EXCEPT !.particles =
            Min({ParticleCap, @ + IF i \in carried THEN Max(Spawned(old[i], pause))
                                                   ELSE Min(Spawned(old[i], pause))})]]

(* frame: draws and asks for the next frame. *)
Frame ==
    /\ pending > 0
    /\ \E pause \in Pauses :
       \E carried \in [{"dl", "ul"} -> SUBSET (DOMAIN pipes.dl \cup DOMAIN pipes.ul)] :
          pipes' = [k \in {"dl", "ul"} |-> Drawn(pipes[k], pause, carried[k])]
    /\ animId' = TRUE
    /\ UNCHANGED <<shown, visible, polled, sized, rows, data, nodes, pending>>

-----------------------------------------------------------------------------
(* The component *)

(* The engines start and the dashboard mounts the diagram: a new renderer, which is
   started and then stopped again if the tab is hidden. *)
Mounted ==
    /\ ~shown /\ shown' = TRUE
    /\ polled' = Nobody /\ sized' = FALSE /\ rows' = 0
    /\ data' = Nobody /\ nodes' = Nobody /\ pipes' = Nobody
    /\ animId' = visible /\ pending' = IF visible THEN pending + 1 ELSE pending
    /\ UNCHANGED visible

(* The engines stop: the cleanup stops the renderer. *)
Unmounted_running ==
    /\ shown /\ shown' = FALSE
    /\ animId' = FALSE
    /\ UNCHANGED <<visible, polled, sized, rows, data, nodes, pipes, pending>>

Unmounted ==
    /\ shown /\ shown' = FALSE
    /\ Stop
    /\ UNCHANGED <<visible, polled, sized, rows, data, nodes, pipes>>

(* The tab is hidden or shown. *)
VisibilityChanges ==
    /\ visible' = ~visible
    /\ IF ~shown THEN UNCHANGED <<animId, pending>>
       ELSE IF visible' THEN Start ELSE Stop
    /\ UNCHANGED <<shown, polled, sized, rows, data, nodes, pipes>>

(* estimateProviderCount and the height made from it: the larger column, at least
   MinRows. *)
RowsFor(p) == Max({MinRows, Len(Active(p.dl)), Len(Active(p.ul))})

(* The observer reports the width, for the first time or a new one. *)
ContainerResized ==
    /\ shown
    /\ sized' = TRUE /\ rows' = RowsFor(polled)
    /\ Resize
    /\ UNCHANGED <<shown, visible, polled, data, animId, pending>>

(* An answer to a poll, which may be an old one: kept for the next update; the canvas
   is resized, and laid out from the data of before, when it needs another height. *)
PollAnswered ==
    /\ shown
    /\ \E p \in Pools :
          /\ polled' = p
          /\ IF sized /\ RowsFor(p) # rows
             THEN rows' = RowsFor(p) /\ Resize
             ELSE UNCHANGED <<rows, nodes, pipes>>
    /\ UNCHANGED <<shown, visible, sized, data, animId, pending>>

(* A frame of statistics: the groups of the last poll go to the renderer. *)
StatsArrive ==
    /\ shown
    /\ Update(polled)
    /\ UNCHANGED <<shown, visible, polled, sized, rows, animId, pending>>

-----------------------------------------------------------------------------
FlowInit ==
    /\ shown = FALSE /\ visible = TRUE /\ polled = Nobody /\ sized = FALSE /\ rows = 0
    /\ data = Nobody /\ nodes = Nobody /\ pipes = Nobody
    /\ animId = FALSE /\ pending = 0

FlowNext == \/ Mounted \/ Unmounted \/ VisibilityChanges
            \/ ContainerResized \/ PollAnswered \/ StatsArrive \/ Frame

FlowSpec == FlowInit /\ [][FlowNext]_flowVars

-----------------------------------------------------------------------------
(* One loop of frames at most, over all the renderers the page ever made, and none while
   the tab is hidden or the diagram is gone (start, stop, frame and the two effects that
   call them). *)
SingleLoop == pending = IF shown /\ visible THEN 1 ELSE 0

(* However long the page was frozen or hidden, a frame adds two particles to a pipe at
   most ("No backlog replay", docs/plans/2026-04-02-traffic-flow-diagram-design.md). *)
NoBacklog ==
    [][ \A k \in {"dl", "ul"} : \A i \in DOMAIN pipes'[k] :
          pipes'[k][i].particles
             <= 2 + (IF i \in DOMAIN pipes[k] THEN pipes[k][i].particles ELSE 0) ]_flowVars

(* A download pipe shows the traffic of the provider it starts from, and none of its
   neighbours', whatever order the groups come in (syncPipes). *)
DownloadsShowTheirNode ==
    \A i \in DOMAIN pipes.dl : pipes.dl[i].shows \in {None, pipes.dl[i].node}

(* Every node has a pipe and every pipe leads to a node of the layout. *)
PipesMeetNodes ==
    \A k \in {"dl", "ul"} : {pipes[k][i].node : i \in DOMAIN pipes[k]} = Range(nodes[k])
=============================================================================
