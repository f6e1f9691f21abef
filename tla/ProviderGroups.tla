--------------------------- MODULE ProviderGroups ---------------------------
(***************************************************************************)
(* What the pages make of the list of servers the API returns: the groups  *)
(* by provider (providerGrouping.ts), the sections of the server page      *)
(* (ProviderAccordion), the top providers of the dashboard.                *)
(*                                                                         *)
(* A server is reduced to the fields the groupings read; the provider that *)
(* extractProvider finds in its address is a field.  The list grows and    *)
(* its figures change in any way, so the properties below range over every *)
(* list of up to MaxServers servers.                                       *)
(* Definitions named after another one and a word (GroupServers_dropsIdle) *)
(* are slips of a change to the code; no behaviour takes them.             *)
(***************************************************************************)
EXTENDS Naturals, Sequences, FiniteSets, SequencesExt

CONSTANTS ProviderOrder, \* the providers' names in alphabetical order
          MaxServers,    \* length of a list (bound)
          MaxFigure,     \* largest speed and byte count (bound)
          Palette,       \* PROVIDER_COLORS.length
          DotPalette,    \* PROVIDER_DOT_COLORS.length
          TopCount,      \* providers the dashboard lists
          PoolCount      \* providers the network column lists

ASSUME GroupsAssumption == /\ MaxServers \in Nat /\ MaxFigure \in Nat
                           /\ Palette \in Nat \ {0} /\ DotPalette \in Nat \ {0}
                           /\ TopCount \in Nat \ {0} /\ PoolCount \in Nat \ {0}

VARIABLE servers

Troubles == {"healthy", "blocked"}   \* one status of each kind the code tells apart
Servers == [provider : Range(ProviderOrder), streams : 0 .. 1, speed : 0 .. MaxFigure,
            bytes : 0 .. MaxFigure, status : Troubles]

GroupsTypeOK == servers \in Seq(Servers) /\ Len(servers) <= MaxServers

-----------------------------------------------------------------------------
(* A group knows its place in the Map it was collected in.  Array.prototype.sort is stable:
   those that the comparison does not tell apart stay in the order of their places. *)
Sorted(groups, Precedes(_, _)) ==
    CHOOSE list \in [1 .. Cardinality(groups) -> groups] :
        /\ Range(list) = groups
        /\ \A i, j \in DOMAIN list : i < j =>
              \/ Precedes(list[i], list[j])
              \/ ~Precedes(list[j], list[i]) /\ list[i].place < list[j].place
FirstOf(list, n) == SubSeq(list, 1, IF n < Len(list) THEN n ELSE Len(list))

Faster(a, b) == a.speed > b.speed
Total(list, field, places) == SumFunctionOnSet([i \in DOMAIN list |-> list[i][field]], places)
OfProvider(list, places, i) == {j \in places : list[j].provider = list[i].provider}

(* The keys of a Map come in the order in which they were first set: by the first server of
   each provider. *)
MapKeys(list, places) == {i \in places : \A j \in OfProvider(list, places, i) : i <= j}
PlaceOf(list, places, i) == Cardinality({j \in MapKeys(list, places) : j < i})

(* The groups of the servers at these places; the colour is the one of the place in the Map. *)
GroupAt(list, places, i) ==
    LET own == OfProvider(list, places, i)
    IN  [name |-> list[i].provider, place |-> PlaceOf(list, places, i),
         servers |-> Cardinality(own), streams |-> Total(list, "streams", own),
         speed |-> Total(list, "speed", own), bytes |-> Total(list, "bytes", own),
         colour |-> PlaceOf(list, places, i) % Palette]
Groups(list, places) == {GroupAt(list, places, i) : i \in MapKeys(list, places)}

(* groupServers: servers with neither streams nor a speed are left out, the order is the one
   of the speeds. *)
InUse(list) == {i \in DOMAIN list : list[i].streams > 0 \/ list[i].speed > 0}

GroupServers_dropsIdle(list) ==
    Sorted(Groups(list, {i \in DOMAIN list : list[i].streams > 0}), Faster)

GroupServers_coloursAfterSort(list) ==
    LET sorted == Sorted(Groups(list, InUse(list)), Faster)
    IN  [i \in DOMAIN sorted |-> [sorted[i] EXCEPT !.colour = (i - 1) % Palette]]

GroupServers(list) == Sorted(Groups(list, InUse(list)), Faster)

(* The bars of the network column: the fastest groups with streams.  The code filters and
   sorts the sorted list; a stable sort by the same speeds leaves its ties where they were. *)
ActiveProviders(list) ==
    FirstOf(Sorted({g \in Groups(list, InUse(list)) : g.streams > 0}, Faster), PoolCount)

(* The top providers of the dashboard: all servers count, the order is the one of the
   bytes. *)
TopProviders(list) ==
    FirstOf(Sorted(Groups(list, DOMAIN list), LAMBDA a, b : a.bytes > b.bytes), TopCount)

(* buildProviderSections: every server, colours by the alphabet, sections with a server
   in trouble first, the faster ones first among equals. *)
Troubled(section) ==
    \E i \in DOMAIN section.servers : section.servers[i].status \in {"failed", "blocked", "cooldown"}

AlphabetRank(name, names) ==
    Cardinality({i \in DOMAIN ProviderOrder :
                    /\ ProviderOrder[i] \in names
                    /\ \E j \in DOMAIN ProviderOrder : i < j /\ ProviderOrder[j] = name})

Section(list, i) ==
    LET own == OfProvider(list, DOMAIN list, i)
        rows == SetToSortSeq(own, <)
    IN  [name |-> list[i].provider, place |-> PlaceOf(list, DOMAIN list, i),
         servers |-> [k \in DOMAIN rows |-> list[rows[k]]], speed |-> Total(list, "speed", own),
         healthy |-> Cardinality({j \in own : list[j].status \in {"healthy", "testing"}}),
         colour |-> AlphabetRank(list[i].provider, {s.provider : s \in Range(list)}) % DotPalette]

SectionPrecedes_bySpeed(a, b) == a.speed > b.speed

SectionPrecedes(a, b) ==
    IF Troubled(a) # Troubled(b) THEN Troubled(a) ELSE a.speed > b.speed

BuildProviderSections(list) ==
    Sorted({Section(list, i) : i \in MapKeys(list, DOMAIN list)},
           LAMBDA a, b : SectionPrecedes(a, b))

-----------------------------------------------------------------------------
GroupsInit == servers = <<>>

(* The next answer of the API: one server more, or a new figure for one. *)
NextAnswer ==
    \/ /\ Len(servers) < MaxServers
       /\ \E s \in Servers : servers' = Append(servers, s)
    \/ \E i \in DOMAIN servers :
          \/ \E n \in 0 .. 1 : servers' = [servers EXCEPT ![i].streams = n]
          \/ \E n \in 0 .. MaxFigure : servers' = [servers EXCEPT ![i].speed = n]
          \/ \E n \in 0 .. MaxFigure : servers' = [servers EXCEPT ![i].bytes = n]
          \/ \E st \in Troubles : servers' = [servers EXCEPT ![i].status = st]

GroupsNext == NextAnswer
GroupsSpec == GroupsInit /\ [][GroupsNext]_servers

-----------------------------------------------------------------------------
(* Grouping neither loses nor invents anything: the groups of groupServers carry all
   streams and all speed of the list and every provider once, although servers are
   skipped; and what a shortened list leaves out has no more bytes (dashboard) or speed
   (network column) than anything the list keeps. *)
GroupsConserve ==
    LET groups == GroupServers(servers)
        top == Range(TopProviders(servers))
        bars == Range(ActiveProviders(servers))
    IN  /\ \A field \in {"streams", "speed"} :
              Total(groups, field, DOMAIN groups) = Total(servers, field, DOMAIN servers)
        /\ Cardinality({g.name : g \in Range(groups)}) = Len(groups)
        /\ \A g \in Groups(servers, DOMAIN servers) \ top : \A t \in top : t.bytes >= g.bytes
        /\ \A g \in Range(groups) \ bars : g.streams > 0 => \A t \in bars : t.speed >= g.speed

(* A change of speeds alone leaves every provider its colour: as long as the same servers
   are in use, in the same order, the colours stand still while the ranking moves
   (colours are given before the sort). *)
Used(list) == [i \in DOMAIN list |-> [provider |-> list[i].provider,
                                      used |-> list[i].streams > 0 \/ list[i].speed > 0]]
Colours(list) == {<<g.name, g.colour>> : g \in Range(GroupServers(list))}
ColoursStandStill == [][Used(servers) = Used(servers') => Colours(servers) = Colours(servers')]_servers

(* No provider with a server in trouble is listed below one without, "unhealthy providers
   (those with any non-healthy server) float to top" (ProviderAccordion.tsx). *)
TroubledFirst ==
    LET sections == BuildProviderSections(servers)
    IN  \A i, j \in DOMAIN sections : i < j =>
            \/ Troubled(sections[i]) /\ ~Troubled(sections[j])
            \/ /\ Troubled(sections[i]) = Troubled(sections[j])
               /\ sections[i].speed >= sections[j].speed
=============================================================================
