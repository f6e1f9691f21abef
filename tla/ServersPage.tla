----------------------------- MODULE ServersPage -----------------------------
(***************************************************************************)
(* The servers page: two sections, downloads and uploads, each with a      *)
(* header, a button to lift all blocks and an accordion of providers.  A   *)
(* poll asks for both lists every five seconds whether or not the last one *)
(* was answered; answers may overtake each other and fail.  A speed test   *)
(* reloads one list when it ends.  The page may be left and opened again;  *)
(* which sections are collapsed is kept in the browser's storage, the open *)
(* providers are not.  App.tsx renders the page without the three props of *)
(* the feed, so it knows of its own test only and shows no progress.       *)
(*                                                                         *)
(* Slips are named after their definition and a word (TestOver_unguarded); *)
(* no behaviour takes them.                                                *)
(***************************************************************************)
EXTENDS Integers, FiniteSets

CONSTANTS Sections,      \* "download" and "upload"
          Vendors,       \* providers with a server in each section
          Polls,         \* requests of the page under way at once (bound)
          MaxBlocks,     \* servers blocked, over a behaviour (bound)
          MaxBadPolls,   \* polls that fail (bound)
          MaxVisits,     \* visits to the page (bound)
          MaxTests       \* speed tests, of this page or another (bound)

ASSUME ServersAssumption ==
    /\ "download" \in Sections /\ Sections \subseteq {"download", "upload"}
    /\ IsFiniteSet(Vendors) /\ IsFiniteSet(Polls) /\ Polls # {}
    /\ MaxBlocks \in Nat /\ MaxBadPolls \in Nat /\ MaxVisits \in Nat \ {0} /\ MaxTests \in Nat

Conditions == {"healthy", "blocked", "testing"}
Fleets == [Sections -> [Vendors -> Conditions]]
NotAsked == {}     \* a request that is not under way
Asked(f) == {f}    \* one under way, and what its answer will say
NoList == [s \in Sections |-> {}]

VARIABLES
    blocked,           \* [Sections -> the blocked servers]
    running, marked,   \* speed tests under way on the server; are the servers marked?
    blocks, tests,     \* bounds
    lists,             \* [Sections -> {} before the first answer, {list} after]
    pageLoading, testing,
    collapsed, storage,
    expanded, allExpanded,
    polls,             \* [Polls -> what is under way]
    reload,            \* the list that the page's own test asks for when it ends
    badPolls, visits

accordionVars == <<expanded, allExpanded>>
fleetVars == <<blocked, running, marked, blocks, tests>>
serversVars == <<fleetVars, lists, pageLoading, testing, collapsed, storage, accordionVars, polls,
                 reload, badPolls, visits>>

ServersTypeOK ==
    /\ blocked \in [Sections -> SUBSET Vendors] /\ running \in 0 .. MaxTests /\ marked \in BOOLEAN
    /\ blocks \in 0 .. MaxBlocks /\ tests \in 0 .. MaxTests
    /\ \A s \in Sections : lists[s] \subseteq [Vendors -> Conditions] /\ Cardinality(lists[s]) <= 1
    /\ {pageLoading, testing} \subseteq BOOLEAN
    /\ {collapsed, storage} \subseteq [Sections -> BOOLEAN]
    /\ expanded \in [Sections -> SUBSET Vendors] /\ allExpanded \in [Sections -> BOOLEAN]
    /\ \A p \in Polls : polls[p] = NotAsked \/ \E f \in Fleets : polls[p] = Asked(f)
    /\ reload \in {"none", "measuring", "asked"}
    /\ badPolls \in 0 .. MaxBadPolls /\ visits \in 1 .. MaxVisits

-----------------------------------------------------------------------------
(* The servers *)

(* HealthStatus of either list: the mark of a test hides a block, and only download servers
   are tested. *)
fleet == [s \in Sections |-> [v \in Vendors |->
             IF s = "download" /\ marked THEN "testing"
             ELSE IF v \in blocked[s] THEN "blocked" ELSE "healthy"]]

Block ==
    /\ blocks < MaxBlocks /\ blocks' = blocks + 1
    /\ \E s \in Sections : \E v \in Vendors \ blocked[s] :
          blocked' = [blocked EXCEPT ![s] = @ \cup {v}]
    /\ UNCHANGED <<running, marked, tests, lists, pageLoading, testing, collapsed, storage,
                   accordionVars, polls, reload, badPolls, visits>>

-----------------------------------------------------------------------------
(* What is shown *)

(* speedTestRunning || testing, where the first is a prop nobody passes. *)
isRunning == testing

(* computeCounts and the badges: how many servers of a section show a status. *)
Count(s, status) ==
    IF lists[s] = {} THEN 0
    ELSE LET l == CHOOSE x \in lists[s] : TRUE IN Cardinality({v \in Vendors : l[v] = status})

(* The header of a section: a click on it folds the section, the buttons stop the click. *)
HeaderControls(s) ==
    IF pageLoading THEN {}
    ELSE {"fold"}
         \cup (IF Count(s, "blocked") > 0 THEN {"unblockAll"} ELSE {})
         \cup (IF s = "download" /\ ~isRunning THEN {"test"} ELSE {})

(* The accordion exists only while its section is open. *)
Shown(s) == ~pageLoading /\ ~collapsed[s] /\ lists[s] # {}

(* The rows of the open providers; only a blocked server has a button. *)
RowButtons(s) ==
    IF ~Shown(s) THEN {}
    ELSE {v \in expanded[s] : \A l \in lists[s] : l[v] = "blocked"}

effectiveAllExpanded(s) == Vendors # {} /\ Vendors \subseteq expanded[s]
Label(s) == IF effectiveAllExpanded(s) THEN "Collapse All" ELSE "Expand All"

-----------------------------------------------------------------------------
(* The page *)

(* fetchHealth: at once when the page opens, then every five seconds; both lists are read
   before either is shown. *)
FetchHealth ==
    /\ \E p \in Polls : polls[p] = NotAsked /\ polls' = [polls EXCEPT ![p] = Asked(fleet)]
    /\ UNCHANGED <<fleetVars, lists, pageLoading, testing, collapsed,
                   storage, accordionVars, reload, badPolls, visits>>

HealthArrives(p) ==
    /\ polls[p] # NotAsked /\ polls' = [polls EXCEPT ![p] = NotAsked]
    /\ pageLoading' = FALSE
    /\ \/ /\ \E f \in polls[p] : lists' = [s \in Sections |-> {f[s]}]
          /\ UNCHANGED badPolls
       \/ /\ badPolls < MaxBadPolls /\ badPolls' = badPolls + 1
          /\ UNCHANGED lists
    /\ UNCHANGED <<fleetVars, testing, collapsed, storage,
                   accordionVars, reload, visits>>

(* RunSpeedTest starts a test whether or not one is under way, and marks every server; the
   first of several to end clears the marks of all. *)
Starts ==
    /\ tests < MaxTests /\ tests' = tests + 1
    /\ running' = running + 1 /\ marked' = TRUE

(* handleSpeedTest: the servers are tested, then the list is asked for and shown; the
   button comes back on every path. *)
HandleSpeedTest ==
    /\ "test" \in HeaderControls("download") /\ Starts
    /\ testing' = TRUE /\ reload' = "measuring"
    /\ UNCHANGED <<blocked, blocks, lists, pageLoading, collapsed, storage, accordionVars, polls,
                   badPolls, visits>>

(* A test of another page, of which this one hears only by its polls. *)
OtherTest ==
    /\ Starts
    /\ UNCHANGED <<blocked, blocks, lists, pageLoading, testing, collapsed, storage, accordionVars,
                   polls, reload, badPolls, visits>>

(* A test ends: the last one is this page's if its own has not ended before. *)
TestOver_unguarded ==
    /\ running' = running - 1 /\ marked' = FALSE
    /\ UNCHANGED <<blocked, blocks, tests, lists, pageLoading, testing, collapsed, storage,
                   accordionVars, polls, reload, badPolls, visits>>

TestOver ==
    /\ running > 0 /\ running' = running - 1 /\ marked' = FALSE
    /\ \/ reload = "measuring" /\ reload' = "asked"
       \/ ~(reload = "measuring" /\ running = 1) /\ UNCHANGED reload
    /\ UNCHANGED <<blocked, blocks, tests, lists, pageLoading, testing, collapsed, storage,
                   accordionVars, polls, badPolls, visits>>

ReloadArrives ==
    /\ reload = "asked" /\ reload' = "none"
    /\ testing' = FALSE
    /\ \/ lists' = [lists EXCEPT !["download"] = {fleet["download"]}] /\ UNCHANGED badPolls
       \/ badPolls < MaxBadPolls /\ badPolls' = badPolls + 1 /\ UNCHANGED lists
    /\ UNCHANGED <<fleetVars, pageLoading, collapsed, storage,
                   accordionVars, polls, visits>>

(* handleUnblockDownload, handleUnblockUpload and the two for all: the page leaves it to
   the next poll to show what came of it; an error is only logged. *)
Unblock(s, set) ==
    /\ \/ blocked' = [blocked EXCEPT ![s] = @ \ set]
       \/ UNCHANGED blocked
    /\ UNCHANGED <<running, marked, blocks, tests, lists, pageLoading, testing, collapsed, storage,
                   accordionVars, polls, reload, badPolls, visits>>

UnblockOne(s) == \E v \in RowButtons(s) : Unblock(s, {v})
UnblockAll(s) == "unblockAll" \in HeaderControls(s) /\ Unblock(s, Vendors)

(* toggleDownload and toggleUpload: a folded section forgets its open providers. *)
ToggleSection(s) ==
    /\ "fold" \in HeaderControls(s)
    /\ collapsed' = [collapsed EXCEPT ![s] = ~@]
    /\ storage' = [storage EXCEPT ![s] = collapsed'[s]]
    /\ expanded' = [expanded EXCEPT ![s] = {}] /\ allExpanded' = [allExpanded EXCEPT ![s] = FALSE]
    /\ UNCHANGED <<fleetVars, lists, pageLoading, testing, polls,
                   reload, badPolls, visits>>

ToggleProvider(s, v) ==
    /\ Shown(s)
    /\ expanded' = [expanded EXCEPT ![s] = IF v \in @ THEN @ \ {v} ELSE @ \cup {v}]
    /\ UNCHANGED <<fleetVars, lists, pageLoading, testing, collapsed,
                   storage, allExpanded, polls, reload, badPolls, visits>>

(* toggleAll goes by its own flag, not by what the button says. *)
ToggleAll(s) ==
    /\ Shown(s)
    /\ expanded' = [expanded EXCEPT ![s] = IF allExpanded[s] THEN {} ELSE Vendors]
    /\ allExpanded' = [allExpanded EXCEPT ![s] = ~@]
    /\ UNCHANGED <<fleetVars, lists, pageLoading, testing, collapsed,
                   storage, polls, reload, badPolls, visits>>

(* The page is left and opened again: polls under way come back to nothing, the collapsed
   sections are read from the storage. *)
ReopenServers ==
    /\ visits < MaxVisits /\ visits' = visits + 1
    /\ lists' = NoList /\ pageLoading' = TRUE /\ testing' = FALSE /\ reload' = "none"
    /\ collapsed' = storage
    /\ expanded' = [s \in Sections |-> {}] /\ allExpanded' = [s \in Sections |-> FALSE]
    /\ polls' = [p \in Polls |-> NotAsked]
    /\ UNCHANGED <<fleetVars, storage, badPolls>>

-----------------------------------------------------------------------------
ServersInit ==
    /\ blocked = [s \in Sections |-> {}] /\ running = 0 /\ marked = FALSE
    /\ blocks = 0 /\ tests = 0 /\ lists = NoList /\ pageLoading = TRUE
    /\ testing = FALSE
    /\ storage = [s \in Sections |-> FALSE] /\ collapsed = storage
    /\ expanded = [s \in Sections |-> {}] /\ allExpanded = [s \in Sections |-> FALSE]
    /\ polls = [p \in Polls |-> NotAsked] /\ reload = "none"
    /\ badPolls = 0 /\ visits = 1

ServersNext ==
    \/ Block \/ FetchHealth \/ HandleSpeedTest \/ OtherTest \/ TestOver \/ ReloadArrives
    \/ ReopenServers
    \/ \E p \in Polls : HealthArrives(p)
    \/ \E s \in Sections : \/ UnblockOne(s) \/ UnblockAll(s) \/ ToggleSection(s) \/ ToggleAll(s)
                           \/ \E v \in Vendors : ToggleProvider(s, v)

(* The timer fires, requests end and so do tests; users owe nothing. *)
ServersFairness ==
    /\ WF_serversVars(FetchHealth) /\ WF_serversVars(TestOver)
    /\ WF_serversVars(ReloadArrives)
    /\ \A p \in Polls : WF_serversVars(HealthArrives(p))

ServersSpec == ServersInit /\ [][ServersNext]_serversVars /\ ServersFairness

-----------------------------------------------------------------------------
(* Once the servers stand still the page comes to show them and keeps showing them, though
   polls overlap, fail and overtake each other (fetchHealth, handleSpeedTest): servers are
   blocked and tested a bounded number of times, and the page opened as often. *)
ListsAreCurrent == \A s \in Sections : lists[s] = {fleet[s]}
(* The button of the speed test comes back. *)
TestsEnd == []<>~testing

(* "Sync allExpanded state when individual toggles change": the button over an accordion
   does what it says at the moment of the click. *)
ToggleAllDoesWhatItSays ==
    [][\A s \in Sections : ToggleAll(s) =>
          expanded'[s] = IF Label(s) = "Collapse All" THEN {} ELSE Vendors]_serversVars

(* "Read speed test progress from WebSocket stats (passed as prop)": while a test runs and
   the badges of the page say so, its button does not offer another. *)
BadgesAndButtonAgree ==
    running > 0 /\ Count("download", "testing") > 0 => "test" \notin HeaderControls("download")
=============================================================================
