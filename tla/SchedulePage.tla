---------------------------- MODULE SchedulePage ----------------------------
(***************************************************************************)
(* The schedule page and the table of schedules behind it.  Every change   *)
(* the user makes is a call: the server carries it out, the page asks for  *)
(* the whole table again and shows what it is told.  Only Save is kept     *)
(* from overlapping itself; Delete and the switch of a row start calls of  *)
(* their own at any time, and the switch sends the whole row as the page   *)
(* showed it.  A load that fails replaces the page by its error for good.  *)
(*                                                                         *)
(* A row is its days, a speed that stands for the numbers and times (0 is  *)
(* refused) and whether it is enabled.  Slips are named after the          *)
(* definition and a word (Continues_noReload); no behaviour takes them.   *)
(***************************************************************************)
EXTENDS Naturals, FiniteSets

CONSTANTS Days,      \* days of the week
          MaxId,     \* rows ever created (bound)
          Slots,     \* calls at once (bound)
          MaxEntries \* edits of the form (bound)

ASSUME ScheduleAssumption ==
    MaxId \in Nat /\ MaxEntries \in Nat /\ IsFiniteSet(Days) /\ IsFiniteSet(Slots) /\ Slots # {}

Ids == 1 .. MaxId
Entries == [days : SUBSET Days, mbps : 0 .. 1, enabled : BOOLEAN]
emptyForm == [days |-> {}, mbps |-> 1, enabled |-> TRUE]
NoEntry == [days |-> {}, mbps |-> 0, enabled |-> FALSE]   \* no row of that id
Tables == [Ids -> Entries]
EmptyTable == [i \in Ids |-> NoEntry]

Ops == {"load", "create", "update", "toggle", "delete"}
FormOps == {"create", "update"}
CallStages == {"sent", "ok", "failed", "asked", "told", "untold"}
NoCall == [op |-> "none", id |-> 0, row |-> NoEntry, stage |-> "none", list |-> EmptyTable]

VARIABLES
    table, created,    \* the server: rows, and how many were ever created
    schedules, listLoading, error, showForm, editingId, scheduleForm, savingRow,
    calls,             \* [Slots -> call]: requests of this page under way
    entered,
    patient,           \* the user waits for every answer before the next click
    lostAnswer         \* a change was made whose answer got lost

formVars == <<showForm, editingId, scheduleForm>>
shownVars == <<schedules, listLoading, error>>
scheduleVars == <<table, created, shownVars, formVars, savingRow, calls, entered, patient, lostAnswer>>

Calls == [op : Ops, id : 0 .. MaxId, row : Entries, stage : CallStages, list : Tables]

ScheduleTypeOK ==
    /\ table \in Tables /\ created \in 0 .. MaxId /\ schedules \in Tables
    /\ {listLoading, error, showForm, savingRow, patient, lostAnswer} \subseteq BOOLEAN
    /\ editingId \in 0 .. MaxId /\ scheduleForm \in Entries /\ entered \in 0 .. MaxEntries
    /\ DOMAIN calls = Slots /\ \A c \in Slots : calls[c] = NoCall \/ calls[c] \in Calls

-----------------------------------------------------------------------------
(* The server *)

(* ValidateSchedule *)
ValidEntry(r) == r.days # {} /\ r.mbps >= 1

Rows(t) == {i \in Ids : t[i] # NoEntry}

(* Whether the handler carries a call out, and the table it leaves. *)
Accepted_anyId(c) == c.op = "delete" \/ ValidEntry(c.row)

Accepted(c) ==
    CASE c.op = "create" -> ValidEntry(c.row)
      [] c.op \in {"update", "toggle"} -> ValidEntry(c.row) /\ c.id \in Rows(table)
      [] OTHER -> c.id \in Rows(table)

Changed(c) ==
    CASE c.op = "create" -> [table EXCEPT ![created + 1] = c.row]
      [] c.op \in {"update", "toggle"} -> [table EXCEPT ![c.id] = c.row]
      [] OTHER -> [table EXCEPT ![c.id] = NoEntry]

(* The call reaches the server, or fails on its way there or back. *)
Served(s) ==
    LET c == calls[s] IN
    /\ c.stage = "sent"
    /\ \/ /\ Accepted(c) /\ (c.op = "create" => created < MaxId)
          /\ table' = Changed(c)
          /\ created' = IF c.op = "create" THEN created + 1 ELSE created
          /\ \E arrives \in BOOLEAN :
                /\ calls' = [calls EXCEPT ![s].stage = IF arrives THEN "ok" ELSE "failed"]
                /\ lostAnswer' = (lostAnswer \/ ~arrives)
       \/ calls' = [calls EXCEPT ![s].stage = "failed"] /\ UNCHANGED <<table, created, lostAnswer>>
    /\ UNCHANGED <<shownVars, formVars, savingRow, entered, patient>>

(* HandleGetSchedules *)
TableRead(s) ==
    /\ calls[s].stage = "asked"
    /\ \/ calls' = [calls EXCEPT ![s].stage = "told", ![s].list = table]
       \/ calls' = [calls EXCEPT ![s].stage = "untold"]
    /\ UNCHANGED <<table, created, shownVars, formVars, savingRow, entered, patient, lostAnswer>>

-----------------------------------------------------------------------------
(* The page *)

Free == {s \in Slots : calls[s] = NoCall}

(* While it loads and after an error the page has nothing to click. *)
Usable == ~listLoading /\ ~error /\ (patient => Free = Slots)

(* What the form offers while it is shown, and what the rows offer. *)
FormControls ==
    IF Usable /\ showForm
    THEN {"days", "numbers", "cancel"} \cup (IF savingRow THEN {} ELSE {"save"}) ELSE {}

RowControls == IF Usable THEN {"toggle", "edit", "delete"} \X Rows(schedules) ELSE {}

Send(op, id, row) ==
    \E s \in Free : calls' = [calls EXCEPT ![s] =
        [op |-> op, id |-> id, row |-> row, stage |-> "sent", list |-> EmptyTable]]

(* openAddForm, openEditForm, closeForm *)
OpenAddForm ==
    /\ Usable
    /\ scheduleForm' = emptyForm /\ editingId' = 0 /\ showForm' = TRUE
    /\ UNCHANGED <<table, created, shownVars, savingRow, calls, entered, patient, lostAnswer>>

OpenEditForm(i) ==
    /\ <<"edit", i>> \in RowControls
    /\ scheduleForm' = schedules[i] /\ editingId' = i /\ showForm' = TRUE
    /\ UNCHANGED <<table, created, shownVars, savingRow, calls, entered, patient, lostAnswer>>

CloseForm == showForm' = FALSE /\ editingId' = 0

CancelClick ==
    /\ "cancel" \in FormControls /\ CloseForm
    /\ UNCHANGED <<table, created, shownVars, scheduleForm, savingRow, calls, entered, patient, lostAnswer>>

(* toggleDay, and the inputs for times and speeds *)
ToggleDay(d) ==
    scheduleForm' = [scheduleForm EXCEPT !.days = IF d \in @ THEN @ \ {d} ELSE @ \cup {d}]

EnterSpeed(n) == scheduleForm' = [scheduleForm EXCEPT !.mbps = n]

Enter ==
    /\ entered < MaxEntries /\ entered' = entered + 1
    /\ \/ "days" \in FormControls /\ \E d \in Days : ToggleDay(d)
       \/ "numbers" \in FormControls /\ \E n \in 0 .. 1 : EnterSpeed(n)
    /\ UNCHANGED <<table, created, shownVars, showForm, editingId, savingRow, calls, patient, lostAnswer>>

(* handleSave: refused by the page without a day. *)
HandleSave ==
    /\ "save" \in FormControls /\ scheduleForm.days # {}
    /\ savingRow' = TRUE
    /\ Send(IF editingId # 0 THEN "update" ELSE "create", editingId, scheduleForm)
    /\ UNCHANGED <<table, created, shownVars, formVars, entered, patient, lostAnswer>>

HandleDelete(i) ==
    /\ <<"delete", i>> \in RowControls
    /\ Send("delete", i, NoEntry)
    /\ UNCHANGED <<table, created, shownVars, formVars, savingRow, entered, patient, lostAnswer>>

(* handleToggleEnabled: the row as it is shown, with the switch turned. *)
HandleToggleEnabled(i) ==
    /\ <<"toggle", i>> \in RowControls
    /\ Send("toggle", i, [schedules[i] EXCEPT !.enabled = ~@])
    /\ UNCHANGED <<table, created, shownVars, formVars, savingRow, entered, patient, lostAnswer>>

(* The answer of a change: the form closes, whichever it shows by then, and the table is
   asked for again; an error is only reported. *)
Continues_noReload(s) ==
    LET c == calls[s] IN
    /\ c.stage \in {"ok", "failed"}
    /\ IF c.stage = "ok" /\ c.op \in FormOps THEN CloseForm ELSE UNCHANGED <<showForm, editingId>>
    /\ IF c.stage = "ok" /\ c.op # "delete"
       THEN calls' = [calls EXCEPT ![s].stage = "asked"] /\ UNCHANGED savingRow
       ELSE calls' = [calls EXCEPT ![s] = NoCall] /\ savingRow' = (savingRow /\ c.op \notin FormOps)
    /\ UNCHANGED <<table, created, shownVars, scheduleForm, entered, patient, lostAnswer>>

Continues(s) ==
    LET c == calls[s] IN
    /\ c.stage \in {"ok", "failed"}
    /\ IF c.stage = "ok" /\ c.op \in FormOps THEN CloseForm ELSE UNCHANGED <<showForm, editingId>>
    /\ IF c.stage = "ok"
       THEN calls' = [calls EXCEPT ![s].stage = "asked"] /\ UNCHANGED savingRow
       ELSE calls' = [calls EXCEPT ![s] = NoCall] /\ savingRow' = (savingRow /\ c.op \notin FormOps)
    /\ UNCHANGED <<table, created, shownVars, scheduleForm, entered, patient, lostAnswer>>

(* loadSchedules: an error is never taken back. *)
LoadSchedules(s) ==
    LET c == calls[s] IN
    /\ c.stage \in {"told", "untold"}
    /\ calls' = [calls EXCEPT ![s] = NoCall]
    /\ listLoading' = FALSE
    /\ savingRow' = (savingRow /\ c.op \notin FormOps)
    /\ IF c.stage = "told" THEN schedules' = c.list /\ UNCHANGED error
       ELSE error' = TRUE /\ UNCHANGED schedules
    /\ lostAnswer' = (lostAnswer /\ c.stage = "untold")
    /\ UNCHANGED <<table, created, formVars, entered, patient>>

FirstLoad == [s \in Slots |-> IF s = CHOOSE x \in Slots : TRUE
                              THEN [NoCall EXCEPT !.op = "load", !.stage = "asked"] ELSE NoCall]

(* The page is left and opened again, between calls. *)
ReopenSchedule ==
    /\ Free = Slots
    /\ schedules' = EmptyTable /\ listLoading' = TRUE /\ error' = FALSE
    /\ showForm' = FALSE /\ editingId' = 0 /\ scheduleForm' = emptyForm /\ savingRow' = FALSE
    /\ calls' = FirstLoad /\ lostAnswer' = FALSE
    /\ UNCHANGED <<table, created, entered, patient>>

-----------------------------------------------------------------------------
ScheduleInit ==
    /\ table = EmptyTable /\ created = 0
    /\ schedules = EmptyTable /\ listLoading = TRUE /\ error = FALSE
    /\ showForm = FALSE /\ editingId = 0 /\ scheduleForm = emptyForm /\ savingRow = FALSE
    /\ calls = FirstLoad /\ entered = 0
    /\ patient \in BOOLEAN /\ lostAnswer = FALSE

ScheduleNext ==
    \/ OpenAddForm \/ CancelClick \/ Enter \/ HandleSave \/ ReopenSchedule
    \/ \E i \in Ids : OpenEditForm(i) \/ HandleDelete(i) \/ HandleToggleEnabled(i)
    \/ \E s \in Slots : Served(s) \/ Continues(s) \/ TableRead(s) \/ LoadSchedules(s)

(* Every call is answered; users owe nothing. *)
ScheduleFairness ==
    \A s \in Slots :
        /\ WF_scheduleVars(Served(s) \/ TableRead(s))
        /\ WF_scheduleVars(Continues(s) \/ LoadSchedules(s))

ScheduleSpec == ScheduleInit /\ [][ScheduleNext]_scheduleVars /\ ScheduleFairness

-----------------------------------------------------------------------------
(* To a user who waits for every answer the list is the table whenever the page is at
   rest, unless the answer of a change was lost (handleSave, handleDelete and
   handleToggleEnabled ask for the table before they end). *)
QuietListIsTable ==
    patient /\ Free = Slots /\ ~error /\ ~lostAnswer => schedules = table

(* Whatever overlaps, a deleted row stays deleted: neither a save of the form nor the
   switch of a row that the page still shows brings it back (UpdateSchedule). *)
DeletedStaysDeleted ==
    [][\A i \in Ids : i <= created /\ i \notin Rows(table) => i \notin Rows(table')]_scheduleVars

=============================================================================
