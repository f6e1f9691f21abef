---------------------------- MODULE SettingsPage ----------------------------
(***************************************************************************)
(* The settings page, the handler that takes its requests and the store    *)
(* behind it: the settings in memory and their copy in the database, which *)
(* is written key by key after the lock is released.                       *)
(*                                                                         *)
(* Five settings stand for all: the upload mode, the list of upload        *)
(* endpoints, the list of download servers, the credentials of S3 with     *)
(* their endpoint (which the page may leave empty) and a number with a     *)
(* least value (0 is refused).  Lists are sets: the server drops           *)
(* duplicates.  The page has two requests that change settings, Save and   *)
(* Test Connection; each is sent, carried out, written and answered.  The  *)
(* process may crash between any two steps and starts again.               *)
(* Definitions named after another one and a word (Loaded_raw) are slips   *)
(* of a change to the code; no behaviour takes them.                       *)
(***************************************************************************)
EXTENDS Integers, FiniteSets

CONSTANTS Urls,       \* addresses a user may enter
          Credentials,
          MaxEdits,   \* edits on the page (bound)
          MaxTimers,  \* messages waiting to be taken away (bound)
          MaxCrashes  \* crashes of the process and writes that fail (bound)

ASSUME SettingsAssumption ==
    /\ Urls # {} /\ Credentials # {} /\ "none" \notin Credentials
    /\ MaxEdits \in Nat /\ MaxTimers \in Nat \ {0}
    /\ MaxCrashes \in Nat

UploadModes == {"http", "s3", "local"}
Keys == {"mode", "endpoints", "servers", "creds", "target"}
NoCredentials == "none"   \* the endpoint of S3 left empty
DefaultUrl == CHOOSE u \in Urls : TRUE
Defaults == [mode |-> "http", endpoints |-> {DefaultUrl}, servers |-> {DefaultUrl},
             creds |-> CHOOSE c \in Credentials : TRUE, target |-> 1]
SettingsSet == [mode : UploadModes, endpoints : SUBSET Urls, servers : SUBSET Urls,
                creds : Credentials \cup {NoCredentials}, target : 0 .. 1]
Missing == {}   \* a row of the table: no value or one
Row(v) == {v}
NoForm == [mode |-> "no form"]

(* A request that changes settings: its stage, what it sends, and the keys of its
   snapshot that are still to be written. *)
Stages == {"idle", "sent", "writing", "probing", "done", "failed"}
Idle == [stage |-> "idle", sends |-> Defaults, left |-> {}]
Sent == [stage |-> "sent", sends |-> Defaults, left |-> {}]

VARIABLES
    form,     \* settings: what the page shows, NoForm before the answer
    loading,
    saving, message, timers,
    test,     \* testStatus
    edits, clean,  \* clean: the form was not edited since the last Save
    save, probe,   \* the two requests
    store,    \* config.Config.Snapshot
    disk,     \* the settings table
    torn,     \* the last writes of the table overlapped, or one of them failed
    crashes

settingsVars == <<form, loading, saving, message, timers, test, edits, clean, save, probe,
                  store, disk, torn, crashes>>
pageVars == <<form, loading, saving, message, timers, test, edits, clean>>

SettingsTypeOK ==
    /\ form \in SettingsSet \cup {NoForm} /\ loading \in BOOLEAN /\ saving \in BOOLEAN
    /\ message \in {"", "saved", "error"} /\ timers \in 0 .. MaxTimers
    /\ test \in {"idle", "testing", "success", "error"}
    /\ edits \in 0 .. MaxEdits /\ clean \in BOOLEAN
    /\ \A r \in {save, probe} : r.stage \in Stages /\ r.sends \in SettingsSet /\ r.left \subseteq Keys
    /\ store \in SettingsSet
    /\ DOMAIN disk = Keys
    /\ \A k \in Keys : \A v \in disk[k] : disk[k] = Row(v)
    /\ torn \in BOOLEAN /\ crashes \in 0 .. MaxCrashes

-----------------------------------------------------------------------------
(* The store *)

(* The checks of HandleUpdateSettings and validateSettingsSnapshot. *)
Valid(s) ==
    /\ s.target >= 1 /\ s.servers # {}
    /\ s.mode = "http" => s.endpoints # {}
    /\ s.mode = "s3" => s.creds # NoCredentials

(* cleanedSnapshot: an empty endpoint of S3 becomes the default one. *)
Cleaned(s) == [s EXCEPT !.creds = IF @ = NoCredentials THEN Defaults.creds ELSE @]

(* New: the defaults, what the table has instead, and the repairs of sanitizeLocked. *)
Loaded_raw(d) == [k \in Keys |-> IF d[k] = Missing THEN Defaults[k] ELSE CHOOSE v \in d[k] : TRUE]

Loaded(d) ==
    [k \in Keys |->
        IF d[k] = Missing \/ (k \in {"endpoints", "servers"} /\ d[k] = Row({}))
        THEN Defaults[k] ELSE CHOOSE v \in d[k] : TRUE]

(* HandleUpdateSettings and Update: refused as a whole, or taken over in memory; then the
   snapshot waits to be written. *)
Writing == {r \in {save, probe} : r.stage = "writing"}

Updated(r, s) ==
    IF Valid(s)
    THEN /\ store' = Cleaned(s)
         /\ r' = [r EXCEPT !.stage = "writing", !.sends = Cleaned(s), !.left = Keys]
         /\ torn' = (Writing # {})
    ELSE r' = [r EXCEPT !.stage = "failed"] /\ UNCHANGED <<store, torn>>

(* saveSnapshot: one key after the other, in any order, until one fails. *)
Write_skipsLast(r, next) ==
    /\ r.stage = "writing"
    /\ \E k \in r.left :
          IF r.left = {k} THEN r' = [r EXCEPT !.stage = next, !.left = {}] /\ UNCHANGED disk
          ELSE /\ disk' = [disk EXCEPT ![k] = Row(r.sends[k])]
               /\ r' = [r EXCEPT !.left = @ \ {k}]
    /\ UNCHANGED <<torn, crashes>>

Write(r, next) ==
    /\ r.stage = "writing"
    /\ \E k \in r.left :
          /\ disk' = [disk EXCEPT ![k] = Row(r.sends[k])]
          /\ r' = [r EXCEPT !.left = @ \ {k}, !.stage = IF r.left = {k} THEN next ELSE @]
    /\ UNCHANGED <<torn, crashes>>

WriteFails(r) ==
    /\ r.stage = "writing" /\ crashes < MaxCrashes /\ crashes' = crashes + 1
    /\ r' = [r EXCEPT !.stage = "failed", !.left = {}] /\ torn' = TRUE
    /\ UNCHANGED disk

(* The process dies and starts again: memory comes from the table, requests fail. *)
CrashAndRestart ==
    /\ crashes < MaxCrashes /\ crashes' = crashes + 1
    /\ store' = Loaded(disk) /\ torn' = FALSE
    /\ save' = IF save.stage \in {"sent", "writing"}
               THEN [save EXCEPT !.stage = "failed", !.left = {}] ELSE save
    /\ probe' = IF probe.stage \in {"sent", "writing", "probing"}
                THEN [probe EXCEPT !.stage = "failed", !.left = {}] ELSE probe
    /\ UNCHANGED <<pageVars, disk>>

-----------------------------------------------------------------------------
(* The page *)

(* The settings arrive, or do not: the page says it failed until it is opened again. *)
SettingsLoaded ==
    /\ loading /\ loading' = FALSE
    /\ form' \in {store, NoForm}
    /\ UNCHANGED <<saving, message, timers, test, edits, clean, save, probe, store, disk, torn, crashes>>

(* The page is left and opened again, between requests. *)
ReopenSettings ==
    /\ ~loading /\ save = Idle /\ probe = Idle
    /\ form' = NoForm /\ loading' = TRUE /\ saving' = FALSE /\ message' = "" /\ timers' = 0
    /\ test' = "idle" /\ clean' = FALSE
    /\ UNCHANGED <<edits, save, probe, store, disk, torn, crashes>>

(* What the page offers: nothing before the form, and the fields of the chosen mode. *)
Fields ==
    IF form = NoForm THEN {}
    ELSE {"mode", "servers", "target"}
         \cup (IF form.mode = "s3" THEN {"creds"} ELSE {})
         \cup (IF form.mode = "http" THEN {"endpoints"} ELSE {})

(* update: one field of the form. *)
Edit(s) ==
    /\ edits < MaxEdits /\ edits' = edits + 1
    /\ form' = s /\ clean' = FALSE
    /\ UNCHANGED <<loading, saving, message, timers, test, save, probe, store, disk, torn, crashes>>

ChooseMode == "mode" \in Fields /\ \E m \in UploadModes : Edit([form EXCEPT !.mode = m])
EnterTarget == "target" \in Fields /\ \E n \in 0 .. 1 : Edit([form EXCEPT !.target = n])
EnterCredentials ==
    "creds" \in Fields /\ \E c \in Credentials \cup {NoCredentials} : Edit([form EXCEPT !.creds = c])
AddServer == "servers" \in Fields /\ \E u \in Urls : Edit([form EXCEPT !.servers = @ \cup {u}])
RemoveServer == "servers" \in Fields /\ \E u \in form.servers : Edit([form EXCEPT !.servers = @ \ {u}])
AddUploadEndpoint ==
    "endpoints" \in Fields /\ \E u \in Urls : Edit([form EXCEPT !.endpoints = @ \cup {u}])
RemoveUploadEndpoint ==
    "endpoints" \in Fields /\ \E u \in form.endpoints : Edit([form EXCEPT !.endpoints = @ \ {u}])

(* handleSave: the whole form, as it is now. *)
SaveClick_keepsMessage ==
    /\ form # NoForm /\ ~saving /\ timers < MaxTimers
    /\ saving' = TRUE /\ clean' = TRUE
    /\ save' = [Sent EXCEPT !.sends = form]
    /\ UNCHANGED <<form, loading, message, timers, test, edits, probe, store, disk, torn, crashes>>

SaveClick ==
    /\ form # NoForm /\ ~saving /\ timers < MaxTimers
    /\ saving' = TRUE /\ message' = "" /\ clean' = TRUE
    /\ save' = [Sent EXCEPT !.sends = form]
    /\ UNCHANGED <<form, loading, timers, test, edits, probe, store, disk, torn, crashes>>

SaveServed ==
    /\ save.stage = "sent"
    /\ Updated(save, save.sends)
    /\ UNCHANGED <<pageVars, probe, disk, crashes>>

SaveWrites ==
    (Write(save, "done") \/ WriteFails(save)) /\ UNCHANGED <<pageVars, probe, store>>

(* The answer: the message, and a timer that takes it away again. *)
SaveAnswered_stuck ==
    /\ save.stage \in {"done", "failed"}
    /\ save' = Idle
    /\ IF save.stage = "done"
       THEN message' = "saved" /\ timers' = timers + 1 /\ saving' = FALSE
       ELSE message' = "error" /\ UNCHANGED <<timers, saving>>
    /\ UNCHANGED <<form, loading, test, edits, clean, probe, store, disk, torn, crashes>>

SaveAnswered ==
    /\ save.stage \in {"done", "failed"}
    /\ save' = Idle /\ saving' = FALSE
    /\ IF save.stage = "done"
       THEN message' = "saved" /\ timers' = timers + 1
       ELSE message' = "error" /\ UNCHANGED timers
    /\ UNCHANGED <<form, loading, test, edits, clean, probe, store, disk, torn, crashes>>

(* Three seconds after a success, whatever the message is by then. *)
MessageTimer_repeats ==
    /\ timers' = timers - 1
    /\ message' = ""
    /\ UNCHANGED <<form, loading, saving, test, edits, clean, save, probe, store, disk, torn, crashes>>

MessageTimer ==
    /\ timers > 0 /\ timers' = timers - 1
    /\ message' = ""
    /\ UNCHANGED <<form, loading, saving, test, edits, clean, save, probe, store, disk, torn, crashes>>

(* handleTestConnection: the credentials are saved first, then the server tries them. *)
TestClick ==
    /\ "creds" \in Fields /\ test # "testing"
    /\ test' = "testing"
    /\ probe' = [Sent EXCEPT !.sends = form]
    /\ UNCHANGED <<form, loading, saving, message, timers, edits, clean, save, store, disk, torn, crashes>>

TestServed ==
    /\ probe.stage = "sent"
    /\ Updated(probe, [store EXCEPT !.creds = probe.sends.creds])
    /\ UNCHANGED <<pageVars, save, disk, crashes>>

TestWrites ==
    (Write(probe, "probing") \/ WriteFails(probe)) /\ UNCHANGED <<pageVars, save, store>>

(* HandleTestB2 answers well or badly; every error ends the test as well. *)
TestAnswered ==
    /\ probe.stage \in {"probing", "failed"}
    /\ probe' = Idle
    /\ test' \in IF probe.stage = "failed" THEN {"error"} ELSE {"success", "error"}
    /\ UNCHANGED <<form, loading, saving, message, timers, edits, clean, save, store, disk, torn, crashes>>

-----------------------------------------------------------------------------
SettingsInit ==
    /\ form = NoForm /\ loading = TRUE /\ saving = FALSE /\ message = "" /\ timers = 0
    /\ test = "idle" /\ edits = 0 /\ clean = FALSE
    /\ save = Idle /\ probe = Idle
    /\ store = Defaults /\ disk = [k \in Keys |-> Missing]
    /\ torn = FALSE /\ crashes = 0

Editing == \/ ChooseMode \/ EnterTarget \/ EnterCredentials
           \/ AddServer \/ RemoveServer \/ AddUploadEndpoint \/ RemoveUploadEndpoint

Serving == SaveServed \/ SaveWrites \/ SaveAnswered \/ TestServed \/ TestWrites \/ TestAnswered

SettingsNext == \/ SettingsLoaded \/ ReopenSettings \/ Editing \/ SaveClick \/ TestClick
                \/ Serving \/ MessageTimer \/ CrashAndRestart

(* The server works on every request and answers it; users owe nothing. *)
SettingsFairness ==
    /\ WF_settingsVars(SaveServed)
    /\ WF_settingsVars(SaveWrites)
    /\ WF_settingsVars(SaveAnswered)
    /\ WF_settingsVars(TestServed)
    /\ WF_settingsVars(TestWrites)
    /\ WF_settingsVars(TestAnswered)

SettingsSpec == SettingsInit /\ [][SettingsNext]_settingsVars /\ SettingsFairness

-----------------------------------------------------------------------------
(* The settings in use are valid and complete at every moment, after a crash in the middle
   of a write too, when the table holds a mixture of two snapshots: a mixture that no
   validation saw is repaired when it is loaded (Update, saveSnapshot, loadFromDB,
   cleanedSnapshot, sanitizeLocked). *)
StoreIsValid == Valid(store) /\ store.creds # NoCredentials

(* When nothing is being written a restart brings the settings in use back, but for an
   empty list of endpoints, which comes back as the defaults.  That takes writes that
   succeed and do not overlap: Save and Test Connection write the table without a lock. *)
RestartKeepsSettings ==
    Writing = {} /\ ~torn =>
        \A k \in Keys : \/ Loaded(disk)[k] = store[k]
                        \/ k = "endpoints" /\ store.endpoints = {}

(* While the page says that the form was saved, and nobody edited it or tested
   credentials since, the server uses what the page shows, but for an endpoint of S3 that
   was left empty, for which it uses the default. *)
SavedMeansStored ==
    message = "saved" /\ clean /\ test = "idle" /\ crashes = 0 =>
        \A k \in Keys : \/ store[k] = form[k]
                        \/ k = "creds" /\ form.creds = NoCredentials /\ store.creds = Defaults.creds

(* Save and Test Connection come back to life, whatever is refused, crashes or fails. *)
RequestsEnd == []<>~saving /\ []<>(test # "testing")
=============================================================================
