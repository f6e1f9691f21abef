----------------------------- MODULE Forms_proof -----------------------------
(***************************************************************************)
(* What is proved of the pages that change what the server keeps, for all  *)
(* addresses, credentials, days, calls, restarts and bounds: the types of  *)
(* the three pages, and what each promises of the settings, the schedules  *)
(* and the automatic updates.                                              *)
(***************************************************************************)
EXTENDS MCForms, FiniteSetTheorems, TLAPS

Requests == [stage : Stages, sends : SettingsSet, left : SUBSET Keys]

(* A row holds a value of its type, and the least of the number is kept. *)
DiskOK(d) ==
    /\ DOMAIN d = Keys
    /\ d["mode"] \in {Missing} \cup {Row(v) : v \in UploadModes}
    /\ d["endpoints"] \in {Missing} \cup {Row(v) : v \in SUBSET Urls}
    /\ d["servers"] \in {Missing} \cup {Row(v) : v \in SUBSET Urls}
    /\ d["creds"] \in {Missing} \cup {Row(v) : v \in Credentials}
    /\ d["target"] \in {Missing, Row(1)}

Complete(s) == Valid(s) /\ s.creds # NoCredentials

(* What is about to be written was validated and completed, so is each value of the table,
   and what is missing of it or empty is repaired when it is loaded. *)
StoreInv ==
    /\ form \in SettingsSet \cup {NoForm}
    /\ save \in Requests /\ probe \in Requests
    /\ store \in SettingsSet /\ Complete(store)
    /\ \A r \in {save, probe} : r.stage = "writing" => Complete(r.sends)
    /\ DiskOK(disk)

LEMMA DefaultsValid ==
    /\ Defaults \in SettingsSet /\ Complete(Defaults) /\ Defaults.creds \in Credentials
    /\ Idle \in Requests /\ Sent \in Requests
<1>1. DefaultUrl \in Urls /\ Defaults.creds \in Credentials
  BY SettingsAssumption DEF DefaultUrl, Defaults
<1>2. Defaults \in SettingsSet
  BY <1>1 DEF Defaults, SettingsSet, UploadModes
<1>3. Complete(Defaults)
  BY <1>1, SettingsAssumption DEF Defaults, Complete, Valid, NoCredentials
<1> QED
  BY <1>1, <1>2, <1>3 DEF Idle, Sent, Requests, Stages

(* What a handler completes keeps its type. *)
LEMMA CleanedComplete ==
    ASSUME NEW s \in SettingsSet, Valid(s)
    PROVE  Cleaned(s) \in SettingsSet /\ Complete(Cleaned(s)) /\ Cleaned(s).creds \in Credentials
<1> DEFINE c == IF s.creds = NoCredentials THEN Defaults.creds ELSE s.creds
<1>1. c \in Credentials /\ c # NoCredentials
  BY DefaultsValid DEF SettingsSet, Complete
<1>2. Cleaned(s) = [s EXCEPT !.creds = c]
  BY DEF Cleaned, SettingsSet
<1> HIDE DEF c
<1>3. Cleaned(s) \in SettingsSet /\ Cleaned(s).creds = c
  BY <1>1, <1>2 DEF SettingsSet
<1>4. Complete(Cleaned(s))
  BY <1>1, <1>2, <1>3 DEF SettingsSet, Complete, Valid
<1> QED
  BY <1>1, <1>3, <1>4

(* A key of which the table has no value, or one of the set T. *)
LEMMA LoadedValue ==
    ASSUME NEW d, NEW T, NEW k \in Keys, Defaults[k] \in T,
           d[k] = Missing \/ \E v \in T : d[k] = Row(v)
    PROVE  Loaded(d)[k] \in T
<1>1. Loaded(d)[k] = Defaults[k] \/ Loaded(d)[k] = CHOOSE v \in d[k] : TRUE
  BY DEF Loaded
<1>2. Loaded(d)[k] = Defaults[k] \/ d[k] # Missing
  BY DEF Loaded
<1>3. ASSUME NEW v \in T, d[k] = Row(v) PROVE (CHOOSE x \in d[k] : TRUE) \in T
  BY <1>3 DEF Row
<1> QED
  BY <1>1, <1>2, <1>3

(* A list is repaired as well when it is empty. *)
LEMMA LoadedList ==
    ASSUME NEW d, NEW k \in {"endpoints", "servers"}, Defaults[k] # {}
    PROVE  Loaded(d)[k] # {} \/ (d[k] # Missing /\ ~\E v : d[k] = Row(v))
<1>1. CASE d[k] = Missing \/ d[k] = Row({})
  BY <1>1 DEF Loaded, Keys
<1>2. ASSUME NEW v, d[k] = Row(v), v # {} PROVE Loaded(d)[k] # {}
  <2>1. d[k] # Missing /\ d[k] # Row({}) /\ (CHOOSE x \in d[k] : TRUE) = v
    BY <1>2 DEF Row, Missing
  <2> QED
    BY <1>2, <2>1 DEF Loaded, Keys
<1> QED
  BY <1>1, <1>2

LEMMA LoadedValid == ASSUME NEW d, DiskOK(d) PROVE Loaded(d) \in SettingsSet /\ Complete(Loaded(d))
<1>1. /\ Defaults["mode"] \in UploadModes /\ Defaults["creds"] \in Credentials
      /\ Defaults["endpoints"] \in SUBSET Urls /\ Defaults["servers"] \in SUBSET Urls
      /\ Defaults["endpoints"] # {} /\ Defaults["servers"] # {} /\ Defaults["target"] \in {1}
  BY DefaultsValid DEF Defaults, SettingsSet
<1>0. NoCredentials \notin Credentials
  BY SettingsAssumption DEF NoCredentials
<1> HIDE DEF Defaults
<1>2. {"mode", "endpoints", "servers", "creds", "target"} = Keys
  BY DEF Keys
<1>3. Loaded(d)["mode"] \in UploadModes
  BY <1>1, <1>2, LoadedValue DEF DiskOK
<1>4. Loaded(d)["creds"] \in Credentials
  BY <1>1, <1>2, LoadedValue DEF DiskOK
<1>5. Loaded(d)["target"] \in {1}
  BY <1>1, <1>2, LoadedValue DEF DiskOK
<1>6. Loaded(d)["endpoints"] \in SUBSET Urls /\ Loaded(d)["endpoints"] # {}
  <2>1. d["endpoints"] = Missing \/ \E v \in SUBSET Urls : d["endpoints"] = Row(v)
    BY DEF DiskOK
  <2>2. Loaded(d)["endpoints"] \in SUBSET Urls
    BY <1>1, <1>2, <2>1, LoadedValue
  <2>3. Loaded(d)["endpoints"] # {}
    BY <1>1, <2>1, LoadedList
  <2> QED
    BY <2>2, <2>3
<1>7. Loaded(d)["servers"] \in SUBSET Urls /\ Loaded(d)["servers"] # {}
  <2>1. d["servers"] = Missing \/ \E v \in SUBSET Urls : d["servers"] = Row(v)
    BY DEF DiskOK
  <2>2. Loaded(d)["servers"] \in SUBSET Urls
    BY <1>1, <1>2, <2>1, LoadedValue
  <2>3. Loaded(d)["servers"] # {}
    BY <1>1, <2>1, LoadedList
  <2> QED
    BY <2>2, <2>3
<1>8. Loaded(d) = [k \in Keys |-> Loaded(d)[k]]
  BY DEF Loaded
<1>9. Loaded(d) \in SettingsSet
  BY <1>3, <1>4, <1>5, <1>6, <1>7, <1>8 DEF SettingsSet, Keys
<1> QED
  BY <1>0, <1>4, <1>5, <1>6, <1>7, <1>9 DEF Complete, Valid

-----------------------------------------------------------------------------
LEMMA StoreInit == SettingsInit => StoreInv
<1> SUFFICES ASSUME SettingsInit PROVE StoreInv
  OBVIOUS
<1>1. DiskOK(disk)
  BY DEF SettingsInit, DiskOK, Keys
<1>2. Idle.stage = "idle"
  BY DEF Idle
<1> QED
  BY <1>1, <1>2, DefaultsValid DEF SettingsInit, StoreInv

(* What a request may become, and what it may leave. *)
LEMMA RequestStages ==
    ASSUME NEW r \in Requests
    PROVE  /\ \A st \in Stages \ {"writing"} :
                 /\ [r EXCEPT !.stage = st] \in Requests /\ [r EXCEPT !.stage = st].stage = st
                 /\ [r EXCEPT !.stage = st, !.left = {}] \in Requests
                 /\ [r EXCEPT !.stage = st, !.left = {}].stage = st
           /\ \A s \in SettingsSet : [Sent EXCEPT !.sends = s] \in Requests
                                    /\ [Sent EXCEPT !.sends = s].stage = "sent"
BY DEF Requests, Sent, Stages, Defaults

(* A request that fails has nothing left to write. *)
LEMMA RequestFails ==
    ASSUME NEW r \in Requests
    PROVE  /\ [r EXCEPT !.stage = "failed", !.left = {}] \in Requests
           /\ [r EXCEPT !.stage = "failed", !.left = {}].stage = "failed"
BY DEF Requests, Stages

(* A request that a handler takes. *)
LEMMA UpdatedKeepsValid ==
    ASSUME NEW r \in Requests, NEW rNext, NEW s \in SettingsSet, store \in SettingsSet,
           IF Valid(s)
           THEN /\ store' = Cleaned(s)
                /\ rNext = [r EXCEPT !.stage = "writing", !.sends = Cleaned(s), !.left = Keys]
           ELSE rNext = [r EXCEPT !.stage = "failed"] /\ store' = store
    PROVE  /\ rNext \in Requests /\ (rNext.stage = "writing" => Complete(rNext.sends))
           /\ store' \in SettingsSet /\ (Complete(store') \/ store' = store)
<1>1. CASE Valid(s)
  <2>1. Cleaned(s) \in SettingsSet /\ Complete(Cleaned(s))
    BY <1>1, CleanedComplete
  <2>2. rNext \in Requests /\ rNext.sends = Cleaned(s)
    BY <1>1, <2>1 DEF Requests, Stages
  <2> QED
    BY <1>1, <2>1, <2>2
<1>2. CASE ~Valid(s)
  <2>1. rNext \in Requests /\ rNext.stage # "writing"
    BY <1>2 DEF Requests, Stages
  <2> QED
    BY <1>2, <2>1
<1> QED
  BY <1>1, <1>2

(* A write of one key. *)
LEMMA WrittenIsOK ==
    ASSUME NEW r \in Requests, NEW k \in Keys, r.stage = "writing", Complete(r.sends), DiskOK(disk)
    PROVE  DiskOK([disk EXCEPT ![k] = Row(r.sends[k])])
<1> DEFINE d == [disk EXCEPT ![k] = Row(r.sends[k])]
<1>1. r.sends \in SettingsSet /\ r.sends.target = 1 /\ r.sends.creds \in Credentials
  BY DEF Requests, SettingsSet, Valid, Complete
<1>2. DOMAIN d = Keys /\ \A j \in Keys : d[j] = IF j = k THEN Row(r.sends[j]) ELSE disk[j]
  BY DEF DiskOK
<1> HIDE DEF d
<1>3. d["mode"] \in {Missing} \cup {Row(v) : v \in UploadModes}
  BY <1>1, <1>2 DEF DiskOK, SettingsSet, Keys
<1>4. d["endpoints"] \in {Missing} \cup {Row(v) : v \in SUBSET Urls}
  BY <1>1, <1>2 DEF DiskOK, SettingsSet, Keys
<1>5. d["servers"] \in {Missing} \cup {Row(v) : v \in SUBSET Urls}
  BY <1>1, <1>2 DEF DiskOK, SettingsSet, Keys
<1>6. d["creds"] \in {Missing} \cup {Row(v) : v \in Credentials}
  BY <1>1, <1>2 DEF DiskOK, SettingsSet, Keys
<1>7. d["target"] \in {Missing, Row(1)}
  BY <1>1, <1>2 DEF DiskOK, Keys
<1> QED
  BY <1>2, <1>3, <1>4, <1>5, <1>6, <1>7 DEF DiskOK, d

LEMMA WriterKeepsSends ==
    ASSUME NEW r \in Requests, NEW next \in Stages, NEW k
    PROVE  LET written == [r EXCEPT !.left = @ \ {k}, !.stage = IF r.left = {k} THEN next ELSE @]
           IN  written \in Requests /\ written.sends = r.sends
<1> DEFINE written == [r EXCEPT !.left = @ \ {k}, !.stage = IF r.left = {k} THEN next ELSE @]
<1>1. written.sends = r.sends
  BY DEF Requests
<1>2. written \in Requests
  BY DEF Requests
<1> QED
  BY <1>1, <1>2

(* An edit leaves a form. *)
LEMMA EditedForm == ASSUME StoreInv, Editing PROVE form' \in SettingsSet
<1>1. form # NoForm
  BY DEF Editing, ChooseMode, EnterTarget, EnterCredentials, AddServer, RemoveServer,
         AddUploadEndpoint, RemoveUploadEndpoint, Fields
<1>2. form \in SettingsSet
  BY <1>1 DEF StoreInv
<1>3. CASE ChooseMode
  BY <1>2, <1>3 DEF ChooseMode, Edit, SettingsSet
<1>4. CASE EnterTarget
  BY <1>2, <1>4 DEF EnterTarget, Edit, SettingsSet
<1>5. CASE EnterCredentials
  BY <1>2, <1>5 DEF EnterCredentials, Edit, SettingsSet
<1>6. CASE AddServer \/ RemoveServer
  BY <1>2, <1>6 DEF AddServer, RemoveServer, Edit, SettingsSet
<1>7. CASE AddUploadEndpoint \/ RemoveUploadEndpoint
  BY <1>2, <1>7 DEF AddUploadEndpoint, RemoveUploadEndpoint, Edit, SettingsSet
<1> QED
  BY <1>3, <1>4, <1>5, <1>6, <1>7 DEF Editing

(* The page changes the form and starts requests. *)
LEMMA PageStep ==
    ASSUME StoreInv,
           SettingsLoaded \/ ReopenSettings \/ Editing \/ SaveClick \/ TestClick
             \/ SaveAnswered \/ TestAnswered \/ MessageTimer \/ UNCHANGED settingsVars
    PROVE  StoreInv'
<1>1. store' = store /\ disk' = disk
  BY DEF SettingsLoaded, ReopenSettings, Editing, ChooseMode, EnterTarget, EnterCredentials, AddServer,
         RemoveServer, AddUploadEndpoint, RemoveUploadEndpoint, Edit, SaveClick, TestClick,
         SaveAnswered, TestAnswered, MessageTimer, settingsVars
<1>2. form' \in SettingsSet \cup {NoForm}
  <2>1. CASE Editing
    BY <2>1, EditedForm
  <2>2. CASE SettingsLoaded \/ ReopenSettings
    BY <2>2 DEF SettingsLoaded, ReopenSettings, StoreInv
  <2>3. CASE SaveClick \/ TestClick \/ SaveAnswered \/ TestAnswered \/ MessageTimer \/ UNCHANGED settingsVars
    BY <2>3 DEF SaveClick, TestClick, SaveAnswered, TestAnswered, MessageTimer, settingsVars, StoreInv
  <2> QED
    BY <2>1, <2>2, <2>3
<1>3. Idle \in Requests /\ Idle.stage = "idle"
  BY DefaultsValid DEF Idle
<1>4. save' = save \/ save' = Idle \/ (form \in SettingsSet /\ save' = [Sent EXCEPT !.sends = form])
  BY DEF StoreInv, SettingsLoaded, ReopenSettings, Editing, ChooseMode, EnterTarget, EnterCredentials,
         AddServer, RemoveServer, AddUploadEndpoint, RemoveUploadEndpoint, Edit, SaveClick, TestClick,
         SaveAnswered, TestAnswered, MessageTimer, settingsVars
<1>5. "creds" \in Fields => form # NoForm
  BY DEF Fields
<1>6. probe' = probe \/ probe' = Idle \/ (form \in SettingsSet /\ probe' = [Sent EXCEPT !.sends = form])
  BY <1>5 DEF StoreInv, SettingsLoaded, ReopenSettings, Editing, ChooseMode, EnterTarget, EnterCredentials,
         AddServer, RemoveServer, AddUploadEndpoint, RemoveUploadEndpoint, Edit, SaveClick, TestClick,
         SaveAnswered, TestAnswered, MessageTimer, settingsVars
<1>7. save' \in Requests /\ (save'.stage = "writing" => Complete(save'.sends))
  BY <1>3, <1>4, RequestStages DEF StoreInv
<1>8. probe' \in Requests /\ (probe'.stage = "writing" => Complete(probe'.sends))
  BY <1>3, <1>6, RequestStages DEF StoreInv
<1>9. Complete(store') /\ DiskOK(disk') /\ store' \in SettingsSet
  BY <1>1 DEF StoreInv
<1> QED
  BY <1>2, <1>7, <1>8, <1>9 DEF StoreInv

(* The server takes a request, or writes a key of it. *)
LEMMA ServerStep ==
    ASSUME StoreInv, SaveServed \/ SaveWrites \/ TestServed \/ TestWrites
    PROVE  StoreInv'
<1>0. /\ form' = form /\ form \in SettingsSet \cup {NoForm} /\ save \in Requests /\ probe \in Requests
      /\ store \in SettingsSet /\ Complete(store) /\ DiskOK(disk)
      /\ save.stage = "writing" => Complete(save.sends)
      /\ probe.stage = "writing" => Complete(probe.sends)
  BY DEF SaveServed, SaveWrites, TestServed, TestWrites, Write, WriteFails, pageVars, StoreInv
<1>1. ASSUME save' \in Requests, probe' \in Requests, store' \in SettingsSet, DiskOK(disk'),
             Complete(store') \/ store' = store,
             save'.stage = "writing" => Complete(save'.sends),
             probe'.stage = "writing" => Complete(probe'.sends)
      PROVE  StoreInv'
  BY <1>0, <1>1 DEF StoreInv
<1>2. CASE SaveServed
  <2>1. probe' = probe /\ disk' = disk /\ Updated(save, save.sends) /\ save.sends \in SettingsSet
    BY <1>0, <1>2 DEF SaveServed, Requests
  <2>2. /\ save' \in Requests /\ (save'.stage = "writing" => Complete(save'.sends))
        /\ store' \in SettingsSet /\ (Complete(store') \/ store' = store)
    BY <1>0, <2>1, UpdatedKeepsValid DEF Updated
  <2> QED
    BY <1>0, <1>1, <2>1, <2>2
<1>3. CASE TestServed
  <2> DEFINE s == [store EXCEPT !.creds = probe.sends.creds]
  <2>1. save' = save /\ disk' = disk /\ Updated(probe, s)
    BY <1>3 DEF TestServed
  <2>2. s \in SettingsSet
    BY <1>0 DEF SettingsSet, Requests
  <2> HIDE DEF s
  <2>3. /\ probe' \in Requests /\ (probe'.stage = "writing" => Complete(probe'.sends))
        /\ store' \in SettingsSet /\ (Complete(store') \/ store' = store)
    BY <1>0, <2>1, <2>2, UpdatedKeepsValid DEF Updated
  <2> QED
    BY <1>0, <1>1, <2>1, <2>3
<1>4. CASE SaveWrites
  <2>1. probe' = probe /\ store' = store
    BY <1>4 DEF SaveWrites, pageVars
  <2>2. ASSUME Write(save, "done")
        PROVE  save' \in Requests /\ (save'.stage = "writing" => Complete(save'.sends)) /\ DiskOK(disk')
    <3>1. PICK k \in save.left :
             /\ disk' = [disk EXCEPT ![k] = Row(save.sends[k])]
             /\ save' = [save EXCEPT !.left = @ \ {k}, !.stage = IF save.left = {k} THEN "done" ELSE @]
      BY <2>2 DEF Write
    <3>2. save.stage = "writing" /\ k \in Keys /\ "done" \in Stages \ {"writing"}
      BY <1>0, <2>2, <3>1 DEF Write, Requests, Stages
    <3>3. DiskOK(disk')
      BY <1>0, <3>1, <3>2, WrittenIsOK
    <3>4. save' \in Requests /\ save'.sends = save.sends
      BY <1>0, <3>1, <3>2, WriterKeepsSends
    <3>5. save'.stage = "writing" => Complete(save'.sends)
      BY <1>0, <3>2, <3>4
    <3> QED
      BY <3>3, <3>4, <3>5
  <2>3. ASSUME WriteFails(save)
        PROVE  save' \in Requests /\ (save'.stage = "writing" => Complete(save'.sends)) /\ DiskOK(disk')
    <3>1. disk' = disk /\ save' = [save EXCEPT !.stage = "failed", !.left = {}]
      BY <2>3 DEF WriteFails
    <3>2. save' \in Requests /\ save'.stage = "failed"
      BY <1>0, <3>1, RequestFails
    <3>3. DiskOK(disk')
      BY <1>0, <3>1
    <3> QED
      BY <3>2, <3>3
  <2> QED
    BY <1>0, <1>1, <1>4, <2>1, <2>2, <2>3 DEF SaveWrites
<1>5. CASE TestWrites
  <2>1. save' = save /\ store' = store
    BY <1>5 DEF TestWrites, pageVars
  <2>2. ASSUME Write(probe, "probing")
        PROVE  probe' \in Requests /\ (probe'.stage = "writing" => Complete(probe'.sends)) /\ DiskOK(disk')
    <3>1. PICK k \in probe.left :
             /\ disk' = [disk EXCEPT ![k] = Row(probe.sends[k])]
             /\ probe' = [probe EXCEPT !.left = @ \ {k}, !.stage = IF probe.left = {k} THEN "probing" ELSE @]
      BY <2>2 DEF Write
    <3>2. probe.stage = "writing" /\ k \in Keys /\ "probing" \in Stages \ {"writing"}
      BY <1>0, <2>2, <3>1 DEF Write, Requests, Stages
    <3>3. DiskOK(disk')
      BY <1>0, <3>1, <3>2, WrittenIsOK
    <3>4. probe' \in Requests /\ probe'.sends = probe.sends
      BY <1>0, <3>1, <3>2, WriterKeepsSends
    <3>5. probe'.stage = "writing" => Complete(probe'.sends)
      BY <1>0, <3>2, <3>4
    <3> QED
      BY <3>3, <3>4, <3>5
  <2>3. ASSUME WriteFails(probe)
        PROVE  probe' \in Requests /\ (probe'.stage = "writing" => Complete(probe'.sends)) /\ DiskOK(disk')
    <3>1. disk' = disk /\ probe' = [probe EXCEPT !.stage = "failed", !.left = {}]
      BY <2>3 DEF WriteFails
    <3>2. probe' \in Requests /\ probe'.stage = "failed"
      BY <1>0, <3>1, RequestFails
    <3>3. DiskOK(disk')
      BY <1>0, <3>1
    <3> QED
      BY <3>2, <3>3
  <2> QED
    BY <1>0, <1>1, <1>5, <2>1, <2>2, <2>3 DEF TestWrites
<1> QED
  BY <1>2, <1>3, <1>4, <1>5

(* After a crash memory comes from the table, whatever of it was written. *)
LEMMA CrashStep == ASSUME StoreInv, CrashAndRestart PROVE StoreInv'
<1>1. /\ form' = form /\ disk' = disk /\ store' = Loaded(disk)
      /\ save' = save \/ save' = [save EXCEPT !.stage = "failed", !.left = {}]
      /\ probe' = probe \/ probe' = [probe EXCEPT !.stage = "failed", !.left = {}]
  BY DEF CrashAndRestart, pageVars
<1>2. store' \in SettingsSet /\ Complete(store')
  BY <1>1, LoadedValid DEF StoreInv
<1>3. save' \in Requests /\ (save'.stage = "writing" => Complete(save'.sends))
  BY <1>1, RequestFails DEF StoreInv
<1>4. probe' \in Requests /\ (probe'.stage = "writing" => Complete(probe'.sends))
  BY <1>1, RequestFails DEF StoreInv
<1> QED
  BY <1>1, <1>2, <1>3, <1>4 DEF StoreInv

LEMMA StoreStep == StoreInv /\ [SettingsNext]_settingsVars => StoreInv'
BY PageStep, ServerStep, CrashStep DEF SettingsNext, Serving

(* The settings in use are valid and complete at every moment: what handlers refuse never
   reaches memory, and what a crash leaves of two snapshots is repaired when it is loaded
   (Update, saveSnapshot, loadFromDB, cleanedSnapshot, sanitizeLocked). *)
THEOREM StoreIsValidHolds == SettingsSpec => []StoreIsValid
<1>1. StoreInv => StoreIsValid
  BY DEF StoreInv, StoreIsValid, Complete
<1> QED
  BY StoreInit, StoreStep, <1>1, PTL DEF SettingsSpec

-----------------------------------------------------------------------------
(* The page's own types. *)
PageTypes ==
    /\ loading \in BOOLEAN /\ saving \in BOOLEAN /\ clean \in BOOLEAN /\ torn \in BOOLEAN
    /\ message \in {"", "saved", "error"} /\ timers \in 0 .. MaxTimers
    /\ test \in {"idle", "testing", "success", "error"}
    /\ edits \in 0 .. MaxEdits /\ crashes \in 0 .. MaxCrashes

(* A request is under way while its button says so; only a writer has keys left. *)
RequestInv ==
    /\ ~saving => save = Idle
    /\ saving => message = "" /\ timers < MaxTimers
    /\ test # "testing" => probe = Idle
    /\ loading => form = NoForm /\ ~clean
    /\ save.stage # "writing" => save.left = {}
    /\ probe.stage # "writing" => probe.left = {}

(* What the table d gives of the key k after a restart is what s has, but for a list of
   endpoints that is empty. *)
StoredIn(d, s, k) == Loaded(d)[k] = s[k] \/ (k = "endpoints" /\ s.endpoints = {})

(* Unless the last writes overlapped or failed, whoever writes writes the settings in use,
   and what nobody has left to write is in the table. *)
Recorded ==
    ~torn =>
        /\ ~(save.stage = "writing" /\ probe.stage = "writing")
        /\ save.stage = "writing" => save.sends = store
        /\ probe.stage = "writing" => probe.sends = store
        /\ \A k \in Keys : k \notin save.left \cup probe.left => StoredIn(disk, store, k)

(* A form that nobody edited since its Save is on its way, or completed it is in use. *)
SavedInv ==
    clean /\ test = "idle" /\ crashes = 0 =>
        /\ form # NoForm
        /\ save.stage = "sent" => save.sends = form
        /\ save.stage \in {"writing", "done"} \/ message = "saved" => store = Cleaned(form)

SettingsInv == StoreInv /\ PageTypes /\ RequestInv /\ Recorded /\ SavedInv

LEMMA SettingsBounds ==
    MaxEdits \in Nat /\ MaxTimers \in Nat \ {0} /\ MaxCrashes \in Nat
BY SettingsAssumption

LEMMA RestParts ==
    /\ Idle.stage = "idle" /\ Idle.left = {}
    /\ \A s \in SettingsSet : LET sent == [Sent EXCEPT !.sends = s]
                              IN  sent.stage = "sent" /\ sent.left = {} /\ sent.sends = s
BY DEF Idle, Sent

(* A counter that rises below its bound, or falls. *)
LEMMA Counted ==
    ASSUME NEW max \in Nat, NEW n \in 0 .. max
    PROVE  (n < max => n + 1 \in 0 .. max) /\ (n > 0 => n - 1 \in 0 .. max /\ n - 1 < n /\ n - 1 < max)
OBVIOUS

(* What a request is when it is refused, and when it fails. *)
LEMMA RefusedParts ==
    ASSUME NEW r \in Requests, NEW q, q = [r EXCEPT !.stage = "failed"]
    PROVE  q.stage = "failed" /\ q.left = r.left /\ q.sends = r.sends
BY DEF Requests

LEMMA FailedParts ==
    ASSUME NEW r \in Requests, NEW q, q = [r EXCEPT !.stage = "failed", !.left = {}]
    PROVE  q.stage = "failed" /\ q.left = {} /\ q.sends = r.sends
BY DEF Requests

LEMMA EditedPage ==
    ASSUME Editing
    PROVE  /\ edits < MaxEdits /\ edits' = edits + 1 /\ clean' = FALSE /\ form # NoForm
           /\ UNCHANGED <<loading, saving, message, timers, test, save, probe, store, disk, torn, crashes>>
BY DEF Editing, ChooseMode, EnterTarget, EnterCredentials, AddServer, RemoveServer,
       AddUploadEndpoint, RemoveUploadEndpoint, Fields, Edit

LEMMA SettingsStart == SettingsInit => SettingsInv
<1> SUFFICES ASSUME SettingsInit PROVE SettingsInv
  OBVIOUS
<1>1. 0 \in 0 .. MaxTimers /\ 0 \in 0 .. MaxEdits /\ 0 \in 0 .. MaxCrashes
  BY SettingsBounds
<1>2. PageTypes
  BY <1>1 DEF SettingsInit, PageTypes
<1>3. RequestInv
  BY RestParts DEF SettingsInit, RequestInv
<1>4. \A k \in Keys : Loaded(disk)[k] = store[k]
  BY DEF SettingsInit, Loaded, Missing
<1>5. Recorded
  BY <1>4, RestParts DEF SettingsInit, Recorded, StoredIn
<1>6. SavedInv
  BY DEF SettingsInit, SavedInv
<1> QED
  BY <1>2, <1>3, <1>5, <1>6, StoreInit DEF SettingsInv

(* Every step keeps the types of the page. *)
LEMMA PageTypesStep ==
    ASSUME StoreInv, PageTypes, RequestInv, [SettingsNext]_settingsVars
    PROVE  PageTypes'
<1>0. /\ loading \in BOOLEAN /\ saving \in BOOLEAN /\ clean \in BOOLEAN /\ torn \in BOOLEAN
      /\ message \in {"", "saved", "error"} /\ timers \in 0 .. MaxTimers
      /\ test \in {"idle", "testing", "success", "error"}
      /\ edits \in 0 .. MaxEdits /\ crashes \in 0 .. MaxCrashes
  BY DEF PageTypes
<1>b. MaxEdits \in Nat /\ MaxTimers \in Nat \ {0} /\ MaxCrashes \in Nat
  BY SettingsBounds
<1>1. CASE SettingsLoaded
  BY <1>0, <1>1 DEF SettingsLoaded, PageTypes
<1>2. CASE ReopenSettings
  <2>1. 0 \in 0 .. MaxTimers
    BY <1>b
  <2> QED
    BY <1>0, <1>2, <2>1 DEF ReopenSettings, PageTypes
<1>3. CASE Editing
  <2>3. edits < MaxEdits /\ edits' = edits + 1
    BY <1>3, EditedPage
  <2>4. edits' \in 0 .. MaxEdits
    BY <1>0, <1>b, <2>3, Counted
  <2>1. edits' \in 0 .. MaxEdits /\ clean' = FALSE
    BY <1>3, <2>4, EditedPage
  <2>2. UNCHANGED <<loading, saving, message, timers, test, torn, crashes>>
    BY <1>3, EditedPage
  <2> QED
    BY <1>0, <2>1, <2>2 DEF PageTypes
<1>4. CASE SaveClick
  BY <1>0, <1>4 DEF SaveClick, PageTypes
<1>5. CASE TestClick
  BY <1>0, <1>5 DEF TestClick, PageTypes
<1>6. ASSUME SaveServed \/ TestServed PROVE PageTypes'
  <2>1. torn' \in BOOLEAN
    BY <1>0, <1>6 DEF SaveServed, TestServed, Updated
  <2> QED
    BY <1>0, <1>6, <2>1 DEF SaveServed, TestServed, pageVars, PageTypes
<1>7. ASSUME SaveWrites \/ TestWrites PROVE PageTypes'
  <2>2. crashes' = crashes \/ (crashes < MaxCrashes /\ crashes' = crashes + 1)
    BY <1>7 DEF SaveWrites, TestWrites, Write, WriteFails
  <2>3. torn' \in BOOLEAN
    BY <1>0, <1>7 DEF SaveWrites, TestWrites, Write, WriteFails
  <2>1. torn' \in BOOLEAN /\ crashes' \in 0 .. MaxCrashes
    BY <1>0, <1>b, <2>2, <2>3, Counted
  <2> QED
    BY <1>0, <1>7, <2>1 DEF SaveWrites, TestWrites, pageVars, PageTypes
<1>8. CASE SaveAnswered
  <2>1. save # Idle
    BY <1>8, RestParts DEF SaveAnswered
  <2>2. timers < MaxTimers
    BY <2>1 DEF RequestInv
  <2>4. timers' = timers \/ timers' = timers + 1
    BY <1>8 DEF SaveAnswered
  <2>5. timers' \in 0 .. MaxTimers
    BY <1>0, <1>b, <2>2, <2>4, Counted
  <2>3. timers' \in 0 .. MaxTimers /\ message' \in {"", "saved", "error"}
    BY <1>8, <2>5 DEF SaveAnswered
  <2> QED
    BY <1>0, <1>8, <2>3 DEF SaveAnswered, PageTypes
<1>9. CASE TestAnswered
  BY <1>0, <1>9 DEF TestAnswered, PageTypes
<1>10. CASE MessageTimer
  <2>2. timers > 0 /\ timers' = timers - 1
    BY <1>10 DEF MessageTimer
  <2>1. timers' \in 0 .. MaxTimers
    BY <1>0, <1>b, <2>2, Counted
  <2> QED
    BY <1>0, <1>10, <2>1 DEF MessageTimer, PageTypes
<1>11. CASE CrashAndRestart
  <2>2. crashes < MaxCrashes /\ crashes' = crashes + 1
    BY <1>11 DEF CrashAndRestart
  <2>1. crashes' \in 0 .. MaxCrashes
    BY <1>0, <1>b, <2>2, Counted
  <2> QED
    BY <1>0, <1>11, <2>1 DEF CrashAndRestart, pageVars, PageTypes
<1>12. CASE UNCHANGED settingsVars
  BY <1>0, <1>12 DEF settingsVars, PageTypes
<1> QED
  BY <1>1, <1>2, <1>3, <1>4, <1>5, <1>6, <1>7, <1>8, <1>9, <1>10, <1>11, <1>12
     DEF SettingsNext, Serving

(* What a step makes of the two requests: the step is another's, or its own. *)
LEMMA UpdatedParts ==
    ASSUME NEW r \in Requests, NEW rNext, r.stage = "sent", r.left = {}, NEW s,
           \/ rNext = [r EXCEPT !.stage = "writing", !.sends = Cleaned(s), !.left = Keys]
           \/ rNext = [r EXCEPT !.stage = "failed"]
    PROVE  rNext.stage # "writing" => rNext.left = {}
BY DEF Requests

LEMMA WrittenParts ==
    ASSUME NEW r \in Requests, NEW rNext, NEW next, r.stage = "writing",
           \/ \E k \in r.left : rNext = [r EXCEPT !.left = @ \ {k}, !.stage = IF r.left = {k} THEN next ELSE @]
           \/ rNext = [r EXCEPT !.stage = "failed", !.left = {}]
    PROVE  rNext.stage # "writing" => rNext.left = {}
<1>1. ASSUME NEW k \in r.left,
             rNext = [r EXCEPT !.left = @ \ {k}, !.stage = IF r.left = {k} THEN next ELSE @]
      PROVE  rNext.stage # "writing" => rNext.left = {}
  <2>1. /\ rNext.stage = IF r.left = {k} THEN next ELSE r.stage
        /\ rNext.left = r.left \ {k}
    BY <1>1 DEF Requests
  <2> QED
    BY <2>1
<1>2. CASE rNext = [r EXCEPT !.stage = "failed", !.left = {}]
  BY <1>2, FailedParts
<1> QED
  BY <1>1, <1>2

LEMMA RequestStep ==
    ASSUME StoreInv, PageTypes, RequestInv, [SettingsNext]_settingsVars
    PROVE  RequestInv'
<1>0. /\ ~saving => save = Idle
      /\ saving => message = "" /\ timers < MaxTimers
      /\ test # "testing" => probe = Idle
      /\ loading => form = NoForm /\ ~clean
      /\ save.stage # "writing" => save.left = {}
      /\ probe.stage # "writing" => probe.left = {}
  BY DEF RequestInv
<1>r. save \in Requests /\ probe \in Requests /\ form \in SettingsSet \cup {NoForm}
  BY DEF StoreInv
<1>i. Idle.stage = "idle" /\ Idle.left = {}
  BY RestParts
<1>1. CASE SettingsLoaded
  BY <1>0, <1>1 DEF SettingsLoaded, RequestInv
<1>2. CASE ReopenSettings
  BY <1>0, <1>2 DEF ReopenSettings, RequestInv
<1>3. CASE Editing
  <2>1. ~loading
    BY <1>0, <1>3, EditedPage
  <2>2. ~loading' /\ UNCHANGED <<saving, message, timers, test, save, probe>>
    BY <1>3, <2>1, EditedPage
  <2> QED
    BY <1>0, <2>2 DEF RequestInv
<1>4. CASE SaveClick
  <2>1. form \in SettingsSet /\ ~loading
    BY <1>0, <1>r, <1>4 DEF SaveClick
  <2>2. save'.left = {}
    BY <1>4, <2>1, RestParts DEF SaveClick
  <2> QED
    BY <1>0, <1>4, <2>1, <2>2 DEF SaveClick, RequestInv
<1>5. CASE TestClick
  <2>1. form \in SettingsSet
    BY <1>r, <1>5 DEF TestClick, Fields
  <2>2. probe'.left = {}
    BY <1>5, <2>1, RestParts DEF TestClick
  <2> QED
    BY <1>0, <1>5, <2>2 DEF TestClick, RequestInv
<1>6. CASE SaveServed
  <2>1. save # Idle /\ save.left = {}
    BY <1>0, <1>6, <1>i DEF SaveServed
  <2>2. save'.stage # "writing" => save'.left = {}
    BY <1>r, <1>6, <2>1, UpdatedParts DEF SaveServed, Updated
  <2> QED
    BY <1>0, <1>6, <2>1, <2>2 DEF SaveServed, pageVars, RequestInv
<1>7. CASE TestServed
  <2>1. probe # Idle /\ probe.left = {}
    BY <1>0, <1>7, <1>i DEF TestServed
  <2>2. probe'.stage # "writing" => probe'.left = {}
    BY <1>r, <1>7, <2>1, UpdatedParts DEF TestServed, Updated
  <2> QED
    BY <1>0, <1>7, <2>1, <2>2 DEF TestServed, pageVars, RequestInv
<1>8. CASE SaveWrites
  <2>1. save # Idle
    BY <1>8, <1>i DEF SaveWrites, Write, WriteFails
  <2>3. /\ save.stage = "writing"
        /\ \/ \E k \in save.left : save' = [save EXCEPT !.left = @ \ {k},
                                                 !.stage = IF save.left = {k} THEN "done" ELSE @]
           \/ save' = [save EXCEPT !.stage = "failed", !.left = {}]
    BY <1>8 DEF SaveWrites, Write, WriteFails
  <2>2. save'.stage # "writing" => save'.left = {}
    BY <1>r, <2>3, WrittenParts
  <2> QED
    BY <1>0, <1>8, <2>1, <2>2 DEF SaveWrites, pageVars, RequestInv
<1>9. CASE TestWrites
  <2>1. probe # Idle
    BY <1>9, <1>i DEF TestWrites, Write, WriteFails
  <2>3. /\ probe.stage = "writing"
        /\ \/ \E k \in probe.left : probe' = [probe EXCEPT !.left = @ \ {k},
                                                 !.stage = IF probe.left = {k} THEN "probing" ELSE @]
           \/ probe' = [probe EXCEPT !.stage = "failed", !.left = {}]
    BY <1>9 DEF TestWrites, Write, WriteFails
  <2>2. probe'.stage # "writing" => probe'.left = {}
    BY <1>r, <2>3, WrittenParts
  <2> QED
    BY <1>0, <1>9, <2>1, <2>2 DEF TestWrites, pageVars, RequestInv
<1>10. CASE SaveAnswered
  BY <1>0, <1>i, <1>10 DEF SaveAnswered, RequestInv
<1>11. CASE TestAnswered
  BY <1>0, <1>i, <1>11 DEF TestAnswered, RequestInv
<1>12. CASE MessageTimer
  <2>1. timers > 0 /\ timers' = timers - 1 /\ timers \in 0 .. MaxTimers /\ MaxTimers \in Nat
    BY <1>12, SettingsBounds DEF MessageTimer, PageTypes
  <2>2. timers' < MaxTimers
    BY <2>1, Counted
  <2>3. saving' = saving /\ message' = "" /\ test' = test /\ loading' = loading
    BY <1>12 DEF MessageTimer
  <2>4. UNCHANGED <<save, probe, form, clean>>
    BY <1>12 DEF MessageTimer
  <2> QED
    BY <1>0, <2>2, <2>3, <2>4 DEF RequestInv
<1>13. CASE CrashAndRestart
  <2>1. \/ save' = save
        \/ save # Idle /\ save' = [save EXCEPT !.stage = "failed", !.left = {}]
    BY <1>13, <1>i DEF CrashAndRestart
  <2>2. \/ probe' = probe
        \/ probe # Idle /\ probe' = [probe EXCEPT !.stage = "failed", !.left = {}]
    BY <1>13, <1>i DEF CrashAndRestart
  <2>3. save'.stage # "writing" => save'.left = {}
    BY <1>0, <1>r, <2>1, FailedParts
  <2>4. probe'.stage # "writing" => probe'.left = {}
    BY <1>0, <1>r, <2>2, FailedParts
  <2> QED
    BY <1>0, <1>13, <2>1, <2>2, <2>3, <2>4 DEF CrashAndRestart, pageVars, RequestInv
<1>14. CASE UNCHANGED settingsVars
  BY <1>0, <1>14 DEF settingsVars, RequestInv
<1> QED
  BY <1>1, <1>2, <1>3, <1>4, <1>5, <1>6, <1>7, <1>8, <1>9, <1>10, <1>11, <1>12, <1>13, <1>14
     DEF SettingsNext, Serving

(* The value of a row that was written comes back, but for an empty list. *)
LEMMA RowComesBack ==
    ASSUME NEW d, NEW s, NEW k \in Keys, d[k] = Row(s[k]), s["servers"] # {}
    PROVE  StoredIn(d, s, k)
<1>1. CASE k \in {"endpoints", "servers"} /\ s[k] = {}
  BY <1>1 DEF StoredIn
<1>2. CASE ~(k \in {"endpoints", "servers"} /\ s[k] = {})
  <2>1. d[k] # Missing /\ ~(k \in {"endpoints", "servers"} /\ d[k] = Row({}))
    BY <1>2 DEF Row, Missing
  <2>2. Loaded(d)[k] = CHOOSE v \in d[k] : TRUE
    BY <2>1 DEF Loaded
  <2>3. (CHOOSE v \in d[k] : TRUE) = s[k]
    BY DEF Row
  <2> QED
    BY <2>2, <2>3 DEF StoredIn
<1> QED
  BY <1>1, <1>2

LEMMA LoadedSame ==
    ASSUME NEW d, NEW e, NEW j \in Keys, d[j] = e[j]
    PROVE  Loaded(d)[j] = Loaded(e)[j]
<1> DEFINE V(S) == CHOOSE v \in S : TRUE
<1>1. /\ Loaded(d)[j] = IF d[j] = Missing \/ (j \in {"endpoints", "servers"} /\ d[j] = Row({}))
                        THEN Defaults[j] ELSE V(d[j])
      /\ Loaded(e)[j] = IF e[j] = Missing \/ (j \in {"endpoints", "servers"} /\ e[j] = Row({}))
                        THEN Defaults[j] ELSE V(e[j])
  BY DEF Loaded
<1> HIDE DEF V
<1> QED
  BY <1>1

(* A writer that writes one more key of the settings in use. *)
LEMMA WrittenIsStored ==
    ASSUME StoreInv, NEW r \in Requests, NEW k \in r.left, r.sends = store,
           disk' = [disk EXCEPT ![k] = Row(r.sends[k])], NEW j \in Keys,
           j # k => StoredIn(disk, store, j)
    PROVE  StoredIn(disk', store, j)
<1>1. k \in Keys /\ DiskOK(disk) /\ store["servers"] # {}
  BY DEF Requests, StoreInv, Complete, Valid
<1>2. disk' = [disk EXCEPT ![k] = Row(store[k])]
  OBVIOUS
<1>3. CASE j = k
  <2>1. disk'[j] = Row(store[j])
    BY <1>1, <1>2, <1>3 DEF DiskOK
  <2> QED
    BY <1>1, <2>1, RowComesBack
<1>4. CASE j # k
  <2>2. disk'[j] = disk[j]
    BY <1>1, <1>2, <1>4 DEF DiskOK
  <2>1. \A d, e : d[j] = e[j] => Loaded(d)[j] = Loaded(e)[j]
    BY LoadedSame
  <2>3. Loaded(disk')[j] = Loaded(disk)[j]
    BY <2>1, <2>2, Zenon
  <2> QED
    BY <1>4, <2>3 DEF StoredIn
<1> QED
  BY <1>3, <1>4

LEMMA RecordedStep ==
    ASSUME StoreInv, RequestInv, Recorded, [SettingsNext]_settingsVars
    PROVE  Recorded'
<1>0. /\ save \in Requests /\ probe \in Requests /\ form \in SettingsSet \cup {NoForm}
      /\ store["servers"] # {} /\ DiskOK(disk)
  BY DEF StoreInv, Complete, Valid
<1>q. /\ save.stage # "writing" => save.left = {}
      /\ probe.stage # "writing" => probe.left = {}
      /\ ~saving => save = Idle
      /\ test # "testing" => probe = Idle
  BY DEF RequestInv
<1>t. ~torn =>
        /\ ~(save.stage = "writing" /\ probe.stage = "writing")
        /\ save.stage = "writing" => save.sends = store
        /\ probe.stage = "writing" => probe.sends = store
        /\ \A k \in Keys : k \notin save.left \cup probe.left => StoredIn(disk, store, k)
  BY DEF Recorded
<1>i. Idle.stage = "idle" /\ Idle.left = {}
  BY RestParts
(* Steps that leave memory and table alone, and no keys of a request that ends. *)
<1>p. ASSUME UNCHANGED <<store, disk, torn>>,
             save' = save \/ (save.stage # "writing" /\ save'.stage # "writing" /\ save'.left = {}),
             probe' = probe \/ (probe.stage # "writing" /\ probe'.stage # "writing" /\ probe'.left = {})
      PROVE  Recorded'
  <2>1. save'.left = save.left /\ probe'.left = probe.left
    BY <1>q, <1>p
  <2>2. /\ save'.stage = "writing" => save' = save
        /\ probe'.stage = "writing" => probe' = probe
    BY <1>p
  <2> QED
    BY <1>t, <1>p, <2>1, <2>2 DEF Recorded
<1>1. CASE SettingsLoaded \/ ReopenSettings \/ MessageTimer \/ UNCHANGED settingsVars
  BY <1>1, <1>p DEF SettingsLoaded, ReopenSettings, MessageTimer, settingsVars
<1>2. CASE Editing
  BY <1>2, <1>p, EditedPage
<1>3. CASE SaveClick
  <2>1. form \in SettingsSet /\ save = Idle
    BY <1>0, <1>q, <1>3 DEF SaveClick
  <2>2. save'.stage # "writing" /\ save'.left = {}
    BY <1>3, <2>1, RestParts DEF SaveClick
  <2> QED
    BY <1>3, <1>p, <1>i, <2>1, <2>2 DEF SaveClick
<1>4. CASE TestClick
  <2>1. form \in SettingsSet /\ probe = Idle
    BY <1>0, <1>q, <1>4 DEF TestClick, Fields
  <2>2. probe'.stage # "writing" /\ probe'.left = {}
    BY <1>4, <2>1, RestParts DEF TestClick
  <2> QED
    BY <1>4, <1>p, <1>i, <2>1, <2>2 DEF TestClick
<1>5. CASE SaveAnswered
  BY <1>5, <1>p, <1>i DEF SaveAnswered
<1>6. CASE TestAnswered
  BY <1>6, <1>p, <1>i DEF TestAnswered
<1>7. CASE SaveServed
  <2>1. /\ save.stage = "sent" /\ save.left = {} /\ disk' = disk /\ probe' = probe
        /\ Updated(save, save.sends)
    BY <1>q, <1>7 DEF SaveServed
  <2>2. CASE Valid(save.sends)
    <3>1. /\ store' = Cleaned(save.sends) /\ torn' = (Writing # {})
          /\ save' = [save EXCEPT !.stage = "writing", !.sends = Cleaned(save.sends), !.left = Keys]
      BY <2>1, <2>2 DEF Updated
    <3>2. save'.left = Keys /\ save'.sends = store'
      BY <1>0, <3>1 DEF Requests
    <3>3. ~torn' => probe.stage # "writing"
      BY <3>1 DEF Writing
    <3> QED
      BY <2>1, <3>2, <3>3 DEF Recorded
  <2>3. CASE ~Valid(save.sends)
    <3>1. save' = [save EXCEPT !.stage = "failed"] /\ UNCHANGED <<store, torn>>
      BY <2>1, <2>3 DEF Updated
    <3>2. save'.stage = "failed" /\ save'.left = {}
      BY <1>0, <2>1, <3>1, RefusedParts
    <3> QED
      BY <1>p, <2>1, <3>1, <3>2
  <2> QED
    BY <2>2, <2>3
<1>8. CASE TestServed
  <2> DEFINE s == [store EXCEPT !.creds = probe.sends.creds]
  <2>1. /\ probe.stage = "sent" /\ probe.left = {} /\ disk' = disk /\ save' = save
        /\ Updated(probe, s)
    BY <1>q, <1>8 DEF TestServed
  <2> HIDE DEF s
  <2>2. CASE Valid(s)
    <3>1. /\ store' = Cleaned(s) /\ torn' = (Writing # {})
          /\ probe' = [probe EXCEPT !.stage = "writing", !.sends = Cleaned(s), !.left = Keys]
      BY <2>1, <2>2 DEF Updated
    <3>2. probe'.left = Keys /\ probe'.sends = store'
      BY <1>0, <3>1 DEF Requests
    <3>3. ~torn' => save.stage # "writing"
      BY <3>1 DEF Writing
    <3> QED
      BY <2>1, <3>2, <3>3 DEF Recorded
  <2>3. CASE ~Valid(s)
    <3>1. probe' = [probe EXCEPT !.stage = "failed"] /\ UNCHANGED <<store, torn>>
      BY <2>1, <2>3 DEF Updated
    <3>2. probe'.stage = "failed" /\ probe'.left = {}
      BY <1>0, <2>1, <3>1, RefusedParts
    <3> QED
      BY <1>p, <2>1, <3>1, <3>2
  <2> QED
    BY <2>2, <2>3
<1>9. CASE SaveWrites
  <2>1. UNCHANGED <<probe, store>>
    BY <1>9 DEF SaveWrites
  <2>2. CASE WriteFails(save)
    BY <2>2 DEF WriteFails, Recorded
  <2>3. CASE Write(save, "done")
    <3>1. PICK k \in save.left :
             /\ disk' = [disk EXCEPT ![k] = Row(save.sends[k])]
             /\ save' = [save EXCEPT !.left = @ \ {k}, !.stage = IF save.left = {k} THEN "done" ELSE @]
      BY <2>3 DEF Write
    <3>2. save.stage = "writing" /\ torn' = torn
      BY <2>3 DEF Write
    <3>3. save'.left = save.left \ {k} /\ save'.sends = save.sends
      BY <1>0, <3>1 DEF Requests
    <3>4. ASSUME ~torn, NEW j \in Keys, j \notin save'.left \cup probe.left
          PROVE  StoredIn(disk', store, j)
      <4>1. save.sends = store /\ (j # k => StoredIn(disk, store, j))
        BY <1>t, <3>2, <3>3, <3>4
      <4> QED
        BY <1>0, <3>1, <4>1, WrittenIsStored
    <3> QED
      BY <1>t, <2>1, <3>2, <3>3, <3>4 DEF Recorded
  <2> QED
    BY <1>9, <2>2, <2>3 DEF SaveWrites
<1>10. CASE TestWrites
  <2>1. UNCHANGED <<save, store>>
    BY <1>10 DEF TestWrites
  <2>2. CASE WriteFails(probe)
    BY <2>2 DEF WriteFails, Recorded
  <2>3. CASE Write(probe, "probing")
    <3>1. PICK k \in probe.left :
             /\ disk' = [disk EXCEPT ![k] = Row(probe.sends[k])]
             /\ probe' = [probe EXCEPT !.left = @ \ {k}, !.stage = IF probe.left = {k} THEN "probing" ELSE @]
      BY <2>3 DEF Write
    <3>2. probe.stage = "writing" /\ torn' = torn
      BY <2>3 DEF Write
    <3>3. probe'.left = probe.left \ {k} /\ probe'.sends = probe.sends
      BY <1>0, <3>1 DEF Requests
    <3>4. ASSUME ~torn, NEW j \in Keys, j \notin save.left \cup probe'.left
          PROVE  StoredIn(disk', store, j)
      <4>1. probe.sends = store /\ (j # k => StoredIn(disk, store, j))
        BY <1>t, <3>2, <3>3, <3>4
      <4> QED
        BY <1>0, <3>1, <4>1, WrittenIsStored
    <3> QED
      BY <1>t, <2>1, <3>2, <3>3, <3>4 DEF Recorded
  <2> QED
    BY <1>10, <2>2, <2>3 DEF TestWrites
<1>11. CASE CrashAndRestart
  <2>1. store' = Loaded(disk) /\ disk' = disk
    BY <1>11 DEF CrashAndRestart
  <2>2. save'.stage # "writing"
    BY <1>0, <1>11, FailedParts DEF CrashAndRestart
  <2>3. probe'.stage # "writing"
    BY <1>0, <1>11, FailedParts DEF CrashAndRestart
  <2> QED
    BY <2>1, <2>2, <2>3 DEF Recorded, StoredIn
<1> QED
  BY <1>1, <1>2, <1>3, <1>4, <1>5, <1>6, <1>7, <1>8, <1>9, <1>10, <1>11 DEF SettingsNext, Serving

(* What a cleaned form has is what the form has, but for the endpoint of S3. *)
LEMMA CleanedParts ==
    ASSUME NEW s \in SettingsSet, NEW k \in Keys
    PROVE  \/ Cleaned(s)[k] = s[k]
           \/ k = "creds" /\ s.creds = NoCredentials /\ Cleaned(s).creds = Defaults.creds
<1> DEFINE c == IF s.creds = NoCredentials THEN Defaults.creds ELSE s.creds
<1>1. Cleaned(s) = [s EXCEPT !.creds = c]
  BY DEF Cleaned, SettingsSet
<1>2. /\ k # "creds" => Cleaned(s)[k] = s[k]
      /\ Cleaned(s).creds = c
  BY <1>1 DEF SettingsSet, Keys
<1> QED
  BY <1>2

LEMMA SavedStep ==
    ASSUME StoreInv, PageTypes, RequestInv, SavedInv, [SettingsNext]_settingsVars
    PROVE  SavedInv'
<1>0. save \in Requests /\ probe \in Requests /\ form \in SettingsSet \cup {NoForm}
  BY DEF StoreInv
<1>q. /\ ~saving => save = Idle
      /\ saving => message = ""
      /\ test # "testing" => probe = Idle
      /\ loading => form = NoForm /\ ~clean
  BY DEF RequestInv
<1>t. clean /\ test = "idle" /\ crashes = 0 =>
        /\ form # NoForm
        /\ save.stage = "sent" => save.sends = form
        /\ save.stage \in {"writing", "done"} \/ message = "saved" => store = Cleaned(form)
  BY DEF SavedInv
<1>i. Idle.stage = "idle" /\ Idle.left = {}
  BY RestParts
<1>c. crashes \in Nat
  <2>1. MaxCrashes \in Nat /\ crashes \in 0 .. MaxCrashes
    BY SettingsBounds DEF PageTypes
  <2> QED
    BY <2>1
<1>1. CASE SettingsLoaded
  BY <1>q, <1>1 DEF SettingsLoaded, SavedInv
<1>2. CASE ReopenSettings
  BY <1>2 DEF ReopenSettings, SavedInv
<1>3. CASE Editing
  BY <1>3, EditedPage DEF SavedInv
<1>4. CASE SaveClick
  <2>1. form \in SettingsSet
    BY <1>0, <1>4 DEF SaveClick
  <2>2. save'.stage = "sent" /\ save'.sends = form /\ form' = form /\ message' = "" /\ form # NoForm
    BY <1>4, <2>1, RestParts DEF SaveClick
  <2> QED
    BY <2>2 DEF SavedInv
<1>5. CASE TestClick
  BY <1>5 DEF TestClick, SavedInv
<1>6. CASE SaveServed
  <2>1. /\ save.stage = "sent" /\ Updated(save, save.sends) /\ saving
        /\ UNCHANGED <<form, message, clean, test, crashes>>
    BY <1>i, <1>q, <1>6 DEF SaveServed, pageVars
  <2>2. CASE Valid(save.sends)
    <3>1. /\ store' = Cleaned(save.sends)
          /\ save' = [save EXCEPT !.stage = "writing", !.sends = Cleaned(save.sends), !.left = Keys]
      BY <2>1, <2>2 DEF Updated
    <3>2. save'.stage = "writing"
      BY <1>0, <3>1 DEF Requests
    <3> QED
      BY <1>t, <2>1, <3>1, <3>2 DEF SavedInv
  <2>3. CASE ~Valid(save.sends)
    <3>1. save' = [save EXCEPT !.stage = "failed"] /\ UNCHANGED store
      BY <2>1, <2>3 DEF Updated
    <3>2. save'.stage = "failed"
      BY <1>0, <3>1, RefusedParts
    <3> QED
      BY <1>t, <2>1, <3>1, <3>2 DEF SavedInv
  <2> QED
    BY <2>2, <2>3
<1>7. CASE SaveWrites
  <2>1. UNCHANGED <<form, message, clean, test, store>>
    BY <1>7 DEF SaveWrites, pageVars
  <2>2. CASE WriteFails(save)
    <3>1. crashes' # 0
      BY <1>c, <2>2 DEF WriteFails
    <3> QED
      BY <3>1 DEF SavedInv
  <2>3. CASE Write(save, "done")
    <3>1. PICK k \in save.left :
             save' = [save EXCEPT !.left = @ \ {k}, !.stage = IF save.left = {k} THEN "done" ELSE @]
      BY <2>3 DEF Write
    <3>2. save.stage = "writing" /\ crashes' = crashes
      BY <2>3 DEF Write
    <3>3. save'.stage \in {"writing", "done"}
      BY <1>0, <3>1, <3>2 DEF Requests
    <3> QED
      BY <1>t, <2>1, <3>2, <3>3 DEF SavedInv
  <2> QED
    BY <1>7, <2>2, <2>3 DEF SaveWrites
<1>8. CASE SaveAnswered
  <2>1. /\ save.stage = "done" \/ message' # "saved"
        /\ save' = Idle /\ UNCHANGED <<form, clean, test, store, crashes>>
    BY <1>8 DEF SaveAnswered
  <2> QED
    BY <1>t, <1>i, <2>1 DEF SavedInv
<1>9. CASE TestServed \/ TestWrites
  <2>1. test = "testing"
    BY <1>q, <1>i, <1>9 DEF TestServed, TestWrites, Write, WriteFails
  <2> QED
    BY <1>9, <2>1 DEF TestServed, TestWrites, pageVars, SavedInv
<1>10. CASE TestAnswered
  BY <1>10 DEF TestAnswered, SavedInv
<1>11. CASE MessageTimer
  BY <1>t, <1>11 DEF MessageTimer, SavedInv
<1>12. CASE CrashAndRestart
  <2>1. crashes' # 0
    BY <1>c, <1>12 DEF CrashAndRestart
  <2> QED
    BY <2>1 DEF SavedInv
<1>13. CASE UNCHANGED settingsVars
  BY <1>t, <1>13 DEF settingsVars, SavedInv
<1> QED
  BY <1>1, <1>2, <1>3, <1>4, <1>5, <1>6, <1>7, <1>8, <1>9, <1>10, <1>11, <1>12, <1>13
     DEF SettingsNext, Serving

LEMMA SettingsStep == SettingsInv /\ [SettingsNext]_settingsVars => SettingsInv'
BY StoreStep, PageTypesStep, RequestStep, RecordedStep, SavedStep DEF SettingsInv

(* Unless writes overlapped or failed, a restart between requests brings the settings in use
   back, but for an empty list of endpoints (saveSnapshot, loadFromDB, sanitizeLocked). *)
THEOREM RestartKeepsSettingsHolds == SettingsSpec => []RestartKeepsSettings
<1>1. ASSUME SettingsInv PROVE RestartKeepsSettings
  <2>1. Writing = {} => save.stage # "writing" /\ probe.stage # "writing"
    BY DEF Writing
  <2>2. Writing = {} => save.left = {} /\ probe.left = {}
    BY <1>1, <2>1 DEF SettingsInv, RequestInv
  <2> QED
    BY <1>1, <2>2 DEF SettingsInv, Recorded, StoredIn, RestartKeepsSettings
<1> QED
  BY SettingsStart, SettingsStep, <1>1, PTL DEF SettingsSpec

(* A page that says saved shows what the server uses, but for the endpoint of S3 that
   was left empty (handleSave, HandleUpdateSettings, cleanedSnapshot). *)
THEOREM SavedMeansStoredHolds == SettingsSpec => []SavedMeansStored
<1>1. ASSUME SettingsInv PROVE SavedMeansStored
  <2> SUFFICES ASSUME message = "saved", clean, test = "idle", crashes = 0, NEW k \in Keys
               PROVE  \/ store[k] = form[k]
                      \/ k = "creds" /\ form.creds = NoCredentials /\ store.creds = Defaults.creds
    BY DEF SavedMeansStored
  <2>1. store = Cleaned(form) /\ form \in SettingsSet
    BY <1>1 DEF SettingsInv, SavedInv, StoreInv
  <2> QED
    BY <2>1, CleanedParts
<1> QED
  BY SettingsStart, SettingsStep, <1>1, PTL DEF SettingsSpec

LEMMA SettingsTypes == SettingsInv => SettingsTypeOK
<1> SUFFICES ASSUME SettingsInv PROVE SettingsTypeOK
  OBVIOUS
<1>1. ASSUME NEW k \in Keys, NEW v \in disk[k] PROVE disk[k] = Row(v)
  BY DEF SettingsInv, StoreInv, DiskOK, Keys, Row, Missing
<1>2. \A r \in {save, probe} : r.stage \in Stages /\ r.sends \in SettingsSet /\ r.left \subseteq Keys
  BY DEF SettingsInv, StoreInv, Requests
<1>3. DOMAIN disk = Keys
  BY DEF SettingsInv, StoreInv, DiskOK
<1> QED
  BY <1>1, <1>2, <1>3 DEF SettingsInv, StoreInv, PageTypes, SettingsTypeOK

-----------------------------------------------------------------------------
(* The table has a place for every row, and rows are counted. *)
TableInv == created \in Nat /\ DOMAIN table = Ids

LEMMA TableInit == ScheduleInit => TableInv
BY DEF ScheduleInit, EmptyTable, TableInv

(* The page changes nothing in the table. *)
LEMMA PageKeepsTable ==
    ASSUME \/ OpenAddForm \/ CancelClick \/ Enter \/ HandleSave \/ ReopenSchedule
           \/ \E i \in Ids : OpenEditForm(i) \/ HandleDelete(i) \/ HandleToggleEnabled(i)
           \/ \E s \in Slots : Continues(s) \/ TableRead(s) \/ LoadSchedules(s)
           \/ UNCHANGED scheduleVars
    PROVE  UNCHANGED <<table, created>>
BY DEF OpenAddForm, CancelClick, Enter, HandleSave, ReopenSchedule, OpenEditForm, HandleDelete,
       HandleToggleEnabled, Continues, TableRead, LoadSchedules, scheduleVars

(* What an accepted call leaves of the rows that were ever created. *)
LEMMA ChangedKeepsDeleted ==
    ASSUME TableInv, NEW c, Accepted(c), NEW i \in Ids, i <= created, table[i] = NoEntry
    PROVE  Changed(c)[i] = NoEntry /\ DOMAIN Changed(c) = Ids
<1>1. CASE c.op = "create"
  <2>1. Changed(c) = [table EXCEPT ![created + 1] = c.row]
    BY <1>1 DEF Changed
  <2>2. i # created + 1
    BY DEF TableInv, Ids
  <2> QED
    BY <2>1, <2>2 DEF TableInv
<1>2. CASE c.op \in {"update", "toggle"}
  <2>1. Changed(c) = [table EXCEPT ![c.id] = c.row] /\ c.id \in Rows(table)
    BY <1>2 DEF Changed, Accepted
  <2>2. i # c.id
    BY <2>1 DEF Rows
  <2> QED
    BY <2>1, <2>2 DEF TableInv
<1>3. CASE c.op \notin {"create", "update", "toggle"}
  <2>1. Changed(c) = [table EXCEPT ![c.id] = NoEntry]
    BY <1>3 DEF Changed
  <2> QED
    BY <2>1 DEF TableInv
<1> QED
  BY <1>1, <1>2, <1>3

LEMMA ServedKeepsDeleted ==
    ASSUME TableInv, NEW s \in Slots, Served(s)
    PROVE  /\ TableInv'
           /\ \A i \in Ids : i <= created /\ i \notin Rows(table) => i \notin Rows(table')
<1>1. CASE UNCHANGED <<table, created>>
  BY <1>1 DEF TableInv
<1>2. CASE /\ Accepted(calls[s]) /\ table' = Changed(calls[s])
           /\ created' = IF calls[s].op = "create" THEN created + 1 ELSE created
  <2>1. DOMAIN table' = Ids
    BY <1>2 DEF Changed, TableInv
  <2>2. created' \in Nat
    BY <1>2 DEF TableInv
  <2>3. \A i \in Ids : i <= created /\ i \notin Rows(table) => i \notin Rows(table')
    BY <1>2, ChangedKeepsDeleted DEF Rows
  <2> QED
    BY <2>1, <2>2, <2>3 DEF TableInv
<1> QED
  BY <1>1, <1>2 DEF Served

LEMMA TableStep ==
    TableInv /\ [ScheduleNext]_scheduleVars =>
        /\ TableInv'
        /\ \A i \in Ids : i <= created /\ i \notin Rows(table) => i \notin Rows(table')
<1> SUFFICES ASSUME TableInv, [ScheduleNext]_scheduleVars
             PROVE  /\ TableInv'
                    /\ \A i \in Ids : i <= created /\ i \notin Rows(table) => i \notin Rows(table')
  OBVIOUS
<1>1. CASE UNCHANGED <<table, created>>
  BY <1>1 DEF TableInv
<1>2. CASE \E s \in Slots : Served(s)
  BY <1>2, ServedKeepsDeleted
<1> QED
  BY <1>1, <1>2, PageKeepsTable DEF ScheduleNext

(* Whatever calls overlap, no save of the form and no switch of a stale row brings a deleted
   schedule back (UpdateSchedule changes rows that exist). *)
THEOREM DeletedStaysDeletedHolds == ScheduleSpec => DeletedStaysDeleted
<1> DEFINE Keeps == \A i \in Ids : i <= created /\ i \notin Rows(table) => i \notin Rows(table')
<1>1. TableInv /\ [ScheduleNext]_scheduleVars => TableInv' /\ [Keeps]_scheduleVars
  BY TableStep
<1> HIDE DEF Keeps
<1>2. ScheduleSpec => [][Keeps]_scheduleVars
  BY TableInit, <1>1, PTL DEF ScheduleSpec
<1> QED
  BY <1>2 DEF Keeps, DeletedStaysDeleted

(* The types of the page, of the table and of each call. *)
CallsOK == calls \in [Slots -> Calls \cup {NoCall}]

TablesOK == table \in Tables /\ created \in 0 .. MaxId /\ schedules \in Tables

PageOK ==
    /\ listLoading \in BOOLEAN /\ error \in BOOLEAN /\ showForm \in BOOLEAN
    /\ savingRow \in BOOLEAN /\ patient \in BOOLEAN /\ lostAnswer \in BOOLEAN
    /\ editingId \in 0 .. MaxId /\ scheduleForm \in Entries /\ entered \in 0 .. MaxEntries

(* To a patient user one call is under way at most; what it is told is the table, and while
   it has changed nothing the list is the table, unless an answer was lost. *)
QuietInv ==
    patient =>
        /\ \A s, t \in Slots : calls[s] # NoCall /\ calls[t] # NoCall => s = t
        /\ \A s \in Slots : calls[s].stage = "told" => calls[s].list = table
        /\ ~error /\ ~lostAnswer /\ (\A s \in Slots : calls[s].stage \in {"none", "sent", "failed"})
              => schedules = table

ScheduleInv == CallsOK /\ TablesOK /\ PageOK /\ QuietInv

LEMMA ScheduleBounds ==
    /\ MaxId \in Nat /\ MaxEntries \in Nat /\ 0 \in 0 .. MaxId /\ 0 \in 0 .. MaxEntries
    /\ NoEntry \in Entries /\ emptyForm \in Entries /\ EmptyTable \in Tables
    /\ NoCall.stage = "none" /\ NoCall.op = "none"
<1>1. MaxId \in Nat /\ MaxEntries \in Nat /\ 0 \in 0 .. MaxId /\ 0 \in 0 .. MaxEntries
  BY ScheduleAssumption
<1>2. NoEntry \in Entries /\ emptyForm \in Entries
  BY DEF NoEntry, emptyForm, Entries
<1>3. EmptyTable \in Tables
  BY <1>2 DEF EmptyTable, Tables
<1> QED
  BY <1>1, <1>2, <1>3 DEF NoCall

(* No call is of another shape than a call under way. *)
LEMMA CallShapes ==
    ASSUME NEW c
    PROVE  /\ c \in Calls => c.op \in Ops /\ c.id \in 0 .. MaxId /\ c.row \in Entries
                             /\ c.stage \in CallStages /\ c.list \in Tables /\ c # NoCall
           /\ c \in Calls \cup {NoCall} /\ c.stage # "none" => c \in Calls
<1>1. NoCall.stage = "none" /\ "none" \notin CallStages
  BY DEF NoCall, CallStages
<1>2. c \in Calls => c.op \in Ops /\ c.id \in 0 .. MaxId /\ c.row \in Entries
                     /\ c.stage \in CallStages /\ c.list \in Tables
  BY DEF Calls
<1> QED
  BY <1>1, <1>2

LEMMA CallKeepsType ==
    ASSUME NEW c \in Calls
    PROVE  /\ \A st \in CallStages :
                 /\ [c EXCEPT !.stage = st] \in Calls /\ [c EXCEPT !.stage = st].stage = st
                 /\ [c EXCEPT !.stage = st].op = c.op
           /\ \A l \in Tables :
                 /\ [c EXCEPT !.stage = "told", !.list = l] \in Calls
                 /\ [c EXCEPT !.stage = "told", !.list = l].stage = "told"
                 /\ [c EXCEPT !.stage = "told", !.list = l].list = l
BY DEF Calls, CallStages

LEMMA NewCall ==
    ASSUME NEW op \in Ops, NEW id \in 0 .. MaxId, NEW row \in Entries
    PROVE  LET c == [op |-> op, id |-> id, row |-> row, stage |-> "sent", list |-> EmptyTable]
           IN  c \in Calls /\ c.stage = "sent"
BY ScheduleBounds DEF Calls, CallStages

LEMMA FirstCall ==
    /\ FirstLoad \in [Slots -> Calls \cup {NoCall}]
    /\ \E s \in Slots : FirstLoad[s].stage = "asked" /\ \A t \in Slots : t # s => FirstLoad[t] = NoCall
    /\ \A s \in Slots : FirstLoad[s].stage # "told"
<1> DEFINE first == CHOOSE x \in Slots : TRUE
<1> DEFINE load == [NoCall EXCEPT !.op = "load", !.stage = "asked"]
<1>1. first \in Slots
  BY ScheduleAssumption
<1>2. load \in Calls /\ load.stage = "asked"
  <2>1. NoCall.row \in Entries /\ NoCall.list \in Tables /\ NoCall.id \in 0 .. MaxId
    BY ScheduleBounds DEF NoCall
  <2> QED
    BY <2>1 DEF NoCall, Calls, Ops, CallStages
<1>3. FirstLoad = [s \in Slots |-> IF s = first THEN load ELSE NoCall]
  BY DEF FirstLoad
<1> HIDE DEF first, load
<1> QED
  BY <1>1, <1>2, <1>3, ScheduleBounds

LEMMA ScheduleStart == ScheduleInit => ScheduleInv
<1> SUFFICES ASSUME ScheduleInit PROVE ScheduleInv
  OBVIOUS
<1>1. CallsOK
  BY FirstCall DEF ScheduleInit, CallsOK
<1>2. TablesOK
  BY ScheduleBounds DEF ScheduleInit, TablesOK
<1>3. PageOK
  BY ScheduleBounds DEF ScheduleInit, PageOK
<1>4. QuietInv
  <2>1. calls = FirstLoad
    BY DEF ScheduleInit
  <2> QED
    BY <2>1, FirstCall DEF QuietInv
<1> QED
  BY <1>1, <1>2, <1>3, <1>4 DEF ScheduleInv

(* The table that an accepted call leaves is a table. *)
LEMMA ChangedType ==
    ASSUME TablesOK, NEW c \in Calls, Accepted(c), c.op = "create" => created < MaxId
    PROVE  /\ Changed(c) \in Tables
           /\ (IF c.op = "create" THEN created + 1 ELSE created) \in 0 .. MaxId
<1>1. c.row \in Entries /\ NoEntry \in Entries /\ table \in [Ids -> Entries] /\ MaxId \in Nat
      /\ created \in 0 .. MaxId
  BY CallShapes, ScheduleBounds DEF TablesOK, Tables
<1>2. CASE c.op = "create"
  <2>1. created + 1 \in Ids /\ created + 1 \in 0 .. MaxId
    BY <1>1, <1>2 DEF Ids
  <2>2. Changed(c) = [table EXCEPT ![created + 1] = c.row]
    BY <1>2 DEF Changed
  <2> QED
    BY <1>1, <1>2, <2>1, <2>2 DEF Tables
<1>3. CASE c.op \in {"update", "toggle"}
  <2>1. c.id \in Ids
    BY <1>3 DEF Accepted, Rows
  <2>2. Changed(c) = [table EXCEPT ![c.id] = c.row]
    BY <1>3 DEF Changed
  <2> QED
    BY <1>1, <1>3, <2>1, <2>2 DEF Tables
<1>4. CASE c.op \notin {"create", "update", "toggle"}
  <2>1. c.id \in Ids
    BY <1>4 DEF Accepted, Rows
  <2>2. Changed(c) = [table EXCEPT ![c.id] = NoEntry]
    BY <1>4 DEF Changed
  <2> QED
    BY <1>1, <1>4, <2>1, <2>2 DEF Tables
<1> QED
  BY <1>2, <1>3, <1>4

(* The page's own clicks: what they start, and that they wait when the user does. *)
LEMMA SentCalls ==
    ASSUME CallsOK, NEW op \in Ops, NEW id \in 0 .. MaxId, NEW row \in Entries, Send(op, id, row)
    PROVE  /\ CallsOK'
           /\ \E s \in Slots : calls'[s].stage = "sent" /\ \A t \in Slots : t # s => calls'[t] = calls[t]
<1> DEFINE c == [op |-> op, id |-> id, row |-> row, stage |-> "sent", list |-> EmptyTable]
<1>1. c \in Calls /\ c.stage = "sent"
  BY NewCall
<1>2. PICK s \in Free : calls' = [calls EXCEPT ![s] = c]
  BY DEF Send
<1> HIDE DEF c
<1>3. s \in Slots /\ calls \in [Slots -> Calls \cup {NoCall}]
  BY DEF Free, CallsOK
<1>4. /\ calls' \in [Slots -> Calls \cup {NoCall}] /\ calls'[s] = c
      /\ \A t \in Slots : t # s => calls'[t] = calls[t]
  BY <1>1, <1>2, <1>3
<1> QED
  BY <1>1, <1>3, <1>4 DEF CallsOK

LEMMA QuietSend ==
    ASSUME CallsOK, QuietInv, Usable, NEW op \in Ops, NEW id \in 0 .. MaxId, NEW row \in Entries,
           Send(op, id, row), UNCHANGED <<table, shownVars, patient, lostAnswer>>
    PROVE  QuietInv'
<1> SUFFICES ASSUME patient PROVE QuietInv'
  BY DEF QuietInv
<1>1. \A s \in Slots : calls[s] = NoCall
  BY DEF Usable, Free
<1>2. PICK s \in Slots : calls'[s].stage = "sent" /\ \A t \in Slots : t # s => calls'[t] = calls[t]
  BY SentCalls
<1>3. NoCall.stage = "none"
  BY ScheduleBounds
<1>4. ~error /\ ~lostAnswer => schedules = table
  BY <1>1, <1>3 DEF QuietInv
<1> QED
  BY <1>1, <1>2, <1>3, <1>4 DEF QuietInv, shownVars

(* Clicks that start no call. *)
LEMMA FormStep ==
    ASSUME ScheduleInv,
           OpenAddForm \/ CancelClick \/ Enter \/ (\E i \in Ids : OpenEditForm(i)) \/ UNCHANGED scheduleVars
    PROVE  ScheduleInv'
<1>1. UNCHANGED <<table, created, schedules, listLoading, error, savingRow, calls, patient, lostAnswer>>
  BY DEF OpenAddForm, CancelClick, Enter, OpenEditForm, scheduleVars, shownVars
<1>2. showForm' \in BOOLEAN /\ editingId' \in 0 .. MaxId /\ scheduleForm' \in Entries
  <2>1. CASE OpenAddForm
    BY <2>1, ScheduleBounds DEF OpenAddForm
  <2>2. CASE CancelClick
    BY <2>2, ScheduleBounds DEF CancelClick, CloseForm, ScheduleInv, PageOK
  <2>3. CASE Enter
    <3>1. \/ \E d \in Days : ToggleDay(d)
          \/ \E n \in 0 .. 1 : EnterSpeed(n)
      BY <2>3 DEF Enter
    <3>2. scheduleForm \in Entries
      BY DEF ScheduleInv, PageOK
    <3>3. scheduleForm' \in Entries
      BY <3>1, <3>2 DEF ToggleDay, EnterSpeed, Entries
    <3> QED
      BY <2>3, <3>3 DEF Enter, ScheduleInv, PageOK
  <2>4. ASSUME NEW i \in Ids, OpenEditForm(i)
        PROVE  showForm' \in BOOLEAN /\ editingId' \in 0 .. MaxId /\ scheduleForm' \in Entries
    <3>1. i \in 0 .. MaxId
      BY ScheduleBounds DEF Ids
    <3>2. schedules[i] \in Entries
      BY DEF ScheduleInv, TablesOK, Tables
    <3> QED
      BY <2>4, <3>1, <3>2 DEF OpenEditForm
  <2>5. CASE UNCHANGED scheduleVars
    BY <2>5 DEF scheduleVars, formVars, ScheduleInv, PageOK
  <2> QED
    BY <2>1, <2>2, <2>3, <2>4, <2>5
<1>3. entered' \in 0 .. MaxEntries
  <2>1. entered' = entered \/ (entered < MaxEntries /\ entered' = entered + 1)
    BY DEF OpenAddForm, CancelClick, Enter, OpenEditForm, scheduleVars
  <2> QED
    BY <2>1, ScheduleBounds, Counted DEF ScheduleInv, PageOK
<1> QED
  BY <1>1, <1>2, <1>3 DEF ScheduleInv, CallsOK, TablesOK, PageOK, QuietInv

(* Clicks that start one. *)
LEMMA ClickStep ==
    ASSUME ScheduleInv,
           HandleSave \/ \E i \in Ids : HandleDelete(i) \/ HandleToggleEnabled(i)
    PROVE  ScheduleInv'
<1>1. \E op \in Ops, id \in 0 .. MaxId, row \in Entries : Send(op, id, row)
  <2>1. CASE HandleSave
    <3>1. editingId \in 0 .. MaxId /\ scheduleForm \in Entries
      BY DEF ScheduleInv, PageOK
    <3>2. {"update", "create"} \subseteq Ops
      BY DEF Ops
    <3>3. Send("update", editingId, scheduleForm) \/ Send("create", editingId, scheduleForm)
      BY <2>1 DEF HandleSave
    <3> QED
      BY <3>1, <3>2, <3>3
  <2>2. ASSUME NEW i \in Ids, HandleDelete(i)
        PROVE  \E op \in Ops, id \in 0 .. MaxId, row \in Entries : Send(op, id, row)
    <3>1. i \in 0 .. MaxId /\ "delete" \in Ops /\ NoEntry \in Entries
      BY ScheduleBounds DEF Ids, Ops
    <3>2. Send("delete", i, NoEntry)
      BY <2>2 DEF HandleDelete
    <3> QED
      BY <3>1, <3>2
  <2>3. ASSUME NEW i \in Ids, HandleToggleEnabled(i)
        PROVE  \E op \in Ops, id \in 0 .. MaxId, row \in Entries : Send(op, id, row)
    <3> DEFINE row == [schedules[i] EXCEPT !.enabled = ~@]
    <3>1. i \in 0 .. MaxId /\ "toggle" \in Ops
      BY ScheduleBounds DEF Ids, Ops
    <3>2. schedules[i] \in Entries
      BY DEF ScheduleInv, TablesOK, Tables
    <3>3. row \in Entries
      BY <3>2 DEF Entries
    <3>4. Send("toggle", i, row)
      BY <2>3 DEF HandleToggleEnabled
    <3> HIDE DEF row
    <3> QED
      BY <3>1, <3>3, <3>4
  <2> QED
    BY <2>1, <2>2, <2>3
<1>2. /\ UNCHANGED <<table, created, shownVars, formVars, entered, patient, lostAnswer>>
      /\ savingRow' \in BOOLEAN /\ Usable
  BY DEF HandleSave, HandleDelete, HandleToggleEnabled, ScheduleInv, PageOK, FormControls, RowControls
<1>3. CallsOK' /\ QuietInv'
  BY <1>1, <1>2, SentCalls, QuietSend DEF ScheduleInv
<1> QED
  BY <1>2, <1>3 DEF ScheduleInv, TablesOK, PageOK, shownVars, formVars

(* A call moves on: what becomes of its slot. *)
LEMMA CallMoves ==
    ASSUME CallsOK, NEW s \in Slots, NEW c \in Calls \cup {NoCall}, calls' = [calls EXCEPT ![s] = c]
    PROVE  CallsOK' /\ calls'[s] = c /\ \A t \in Slots : t # s => calls'[t] = calls[t]
BY DEF CallsOK

(* A step of one slot, under way before it, keeps the promise when that slot keeps it. *)
LEMMA QuietMove ==
    ASSUME QuietInv, NEW s \in Slots, calls[s] # NoCall, UNCHANGED patient,
           \A t \in Slots : t # s => calls'[t] = calls[t],
           patient => /\ calls'[s].stage = "told" => calls'[s].list = table'
                      /\ ~error' /\ ~lostAnswer' /\ calls'[s].stage \in {"none", "sent", "failed"}
                            => schedules' = table'
    PROVE  QuietInv'
<1> SUFFICES ASSUME patient PROVE QuietInv'
  BY DEF QuietInv
<1>1. \A t \in Slots : t # s => calls[t] = NoCall
  BY DEF QuietInv
<1>2. NoCall.stage = "none"
  BY ScheduleBounds
<1> QED
  BY <1>1, <1>2 DEF QuietInv

(* What a patient user's only call says of the list. *)
LEMMA OnlyCall ==
    ASSUME QuietInv, patient, NEW s \in Slots, calls[s] # NoCall
    PROVE  ~error /\ ~lostAnswer /\ calls[s].stage \in {"none", "sent", "failed"} => schedules = table
<1>1. \A t \in Slots : t # s => calls[t] = NoCall
  BY DEF QuietInv
<1>2. NoCall.stage = "none"
  BY ScheduleBounds
<1> QED
  BY <1>1, <1>2 DEF QuietInv

LEMMA ServedStep ==
    ASSUME ScheduleInv, NEW s \in Slots, Served(s)
    PROVE  ScheduleInv'
<1> DEFINE c == calls[s]
<1>0. /\ c.stage = "sent" /\ c \in Calls /\ c # NoCall
      /\ calls \in [Slots -> Calls \cup {NoCall}] /\ CallsOK /\ QuietInv /\ TablesOK
  BY CallShapes DEF Served, ScheduleInv, CallsOK
<1>1. UNCHANGED <<schedules, listLoading, error, showForm, editingId, scheduleForm, savingRow, entered, patient>>
  BY DEF Served, shownVars, formVars
<1>2. \E st \in {"ok", "failed"} : calls' = [calls EXCEPT ![s].stage = st]
  BY DEF Served
<1>3. PICK st \in {"ok", "failed"} : calls' = [calls EXCEPT ![s] = [c EXCEPT !.stage = st]]
  BY <1>0, <1>2
<1>4. /\ [c EXCEPT !.stage = st] \in Calls /\ [c EXCEPT !.stage = st].stage = st
  BY <1>0 DEF Calls, CallStages
<1> DEFINE d == [c EXCEPT !.stage = st]
<1>5. CallsOK' /\ calls'[s].stage = st /\ \A t \in Slots : t # s => calls'[t] = calls[t]
  <2>1. calls' = [calls EXCEPT ![s] = d] /\ d \in Calls \cup {NoCall} /\ d.stage = st
    BY <1>3, <1>4
  <2> HIDE DEF d
  <2> QED
    BY <1>0, <2>1, CallMoves
<1>6. table' \in Tables /\ created' \in 0 .. MaxId /\ lostAnswer' \in BOOLEAN
  <2>1. \/ UNCHANGED <<table, created, lostAnswer>>
        \/ /\ Accepted(c) /\ (c.op = "create" => created < MaxId) /\ table' = Changed(c)
           /\ created' = IF c.op = "create" THEN created + 1 ELSE created
           /\ \E arrives \in BOOLEAN : lostAnswer' = (lostAnswer \/ ~arrives)
    BY DEF Served
  <2>2. CASE UNCHANGED <<table, created, lostAnswer>>
    BY <2>2 DEF ScheduleInv, TablesOK, PageOK
  <2>3. CASE /\ Accepted(c) /\ (c.op = "create" => created < MaxId) /\ table' = Changed(c)
             /\ created' = IF c.op = "create" THEN created + 1 ELSE created
             /\ \E arrives \in BOOLEAN : lostAnswer' = (lostAnswer \/ ~arrives)
    <3>1. lostAnswer' \in BOOLEAN
      BY <2>3 DEF ScheduleInv, PageOK
    <3>2. table' \in Tables /\ created' \in 0 .. MaxId
      BY <1>0, <2>3, ChangedType
    <3> QED
      BY <3>1, <3>2
  <2> QED
    BY <2>1, <2>2, <2>3
<1>7. st = "failed" /\ ~lostAnswer' => table' = table /\ lostAnswer' = lostAnswer
  <2>1. CASE UNCHANGED <<table, created, lostAnswer>>
    BY <2>1
  <2>2. ASSUME NEW arrives \in BOOLEAN, lostAnswer' = (lostAnswer \/ ~arrives),
               calls' = [calls EXCEPT ![s].stage = IF arrives THEN "ok" ELSE "failed"]
        PROVE  st = "failed" => lostAnswer'
    <3>1. CASE arrives
      <4>1. calls'[s].stage = "ok"
        BY <1>0, <2>2, <3>1 DEF Calls
      <4> QED
        BY <1>5, <4>1
    <3>2. CASE ~arrives
      BY <2>2, <3>2
    <3> QED
      BY <3>1, <3>2
  <2> QED
    BY <2>1, <2>2 DEF Served
<1>8. QuietInv'
  <2>1. ASSUME patient, ~error', ~lostAnswer', calls'[s].stage \in {"none", "sent", "failed"}
        PROVE  schedules' = table'
    <3>1. table' = table /\ ~lostAnswer /\ ~error
      BY <1>1, <1>5, <1>7, <2>1
    <3>2. schedules = table
      BY <1>0, <2>1, <3>1, OnlyCall
    <3> QED
      BY <1>1, <3>1, <3>2
  <2>2. calls'[s].stage # "told"
    BY <1>5
  <2> QED
    BY <1>0, <1>1, <1>5, <2>1, <2>2, QuietMove
<1> QED
  BY <1>1, <1>5, <1>6, <1>8 DEF ScheduleInv, TablesOK, PageOK

LEMMA TableReadStep ==
    ASSUME ScheduleInv, NEW s \in Slots, TableRead(s)
    PROVE  ScheduleInv'
<1> DEFINE c == calls[s]
<1>0. /\ c.stage = "asked" /\ c \in Calls /\ c # NoCall /\ table \in Tables
      /\ calls \in [Slots -> Calls \cup {NoCall}] /\ CallsOK /\ QuietInv
  BY CallShapes DEF TableRead, ScheduleInv, CallsOK, TablesOK
<1>1. UNCHANGED <<table, created, schedules, listLoading, error, showForm, editingId, scheduleForm,
                  savingRow, entered, patient, lostAnswer>>
  BY DEF TableRead, shownVars, formVars
<1>2. \E d \in Calls : /\ calls' = [calls EXCEPT ![s] = d] /\ d.stage \in {"told", "untold"}
                       /\ d.stage = "told" => d.list = table
  <2>1. CASE calls' = [calls EXCEPT ![s].stage = "told", ![s].list = table]
    <3> DEFINE d == [c EXCEPT !.stage = "told", !.list = table]
    <3>1. calls' = [calls EXCEPT ![s] = d]
      BY <1>0, <2>1
    <3>2. d \in Calls /\ d.stage = "told" /\ d.list = table
      BY <1>0, CallKeepsType
    <3> HIDE DEF d
    <3> QED
      BY <3>1, <3>2
  <2>2. CASE calls' = [calls EXCEPT ![s].stage = "untold"]
    <3> DEFINE d == [c EXCEPT !.stage = "untold"]
    <3>1. calls' = [calls EXCEPT ![s] = d]
      BY <1>0, <2>2
    <3>2. d \in Calls /\ d.stage = "untold"
      BY <1>0, CallKeepsType DEF CallStages
    <3> HIDE DEF d
    <3> QED
      BY <3>1, <3>2
  <2> QED
    BY <2>1, <2>2 DEF TableRead
<1>3. PICK d \in Calls : /\ calls' = [calls EXCEPT ![s] = d] /\ d.stage \in {"told", "untold"}
                         /\ d.stage = "told" => d.list = table
  BY <1>2
<1>4. CallsOK' /\ calls'[s] = d /\ \A t \in Slots : t # s => calls'[t] = calls[t]
  BY <1>0, <1>3, CallMoves
<1>5. QuietInv'
  BY <1>0, <1>1, <1>3, <1>4, QuietMove
<1> QED
  BY <1>1, <1>4, <1>5 DEF ScheduleInv, TablesOK, PageOK

LEMMA ContinuesStep ==
    ASSUME ScheduleInv, NEW s \in Slots, Continues(s)
    PROVE  ScheduleInv'
<1> DEFINE c == calls[s]
<1>0. /\ c.stage \in {"ok", "failed"} /\ c \in Calls /\ c # NoCall
      /\ calls \in [Slots -> Calls \cup {NoCall}] /\ CallsOK /\ QuietInv
  BY CallShapes DEF Continues, ScheduleInv, CallsOK
<1>1. UNCHANGED <<table, created, schedules, listLoading, error, scheduleForm, entered, patient, lostAnswer>>
  BY DEF Continues, shownVars
<1>2. showForm' \in BOOLEAN /\ editingId' \in 0 .. MaxId /\ savingRow' \in BOOLEAN
  BY ScheduleBounds DEF Continues, CloseForm, ScheduleInv, PageOK
<1>3. \E d \in Calls \cup {NoCall} :
          /\ calls' = [calls EXCEPT ![s] = d]
          /\ \/ d.stage = "asked"
             \/ c.stage = "failed" /\ d = NoCall
  <2>1. CASE c.stage = "ok"
    <3> DEFINE d == [c EXCEPT !.stage = "asked"]
    <3>1. calls' = [calls EXCEPT ![s] = d]
      BY <1>0, <2>1 DEF Continues
    <3>2. d \in Calls /\ d.stage = "asked"
      BY <1>0, CallKeepsType DEF CallStages
    <3> HIDE DEF d
    <3> QED
      BY <3>1, <3>2
  <2>2. CASE c.stage = "failed"
    BY <2>2 DEF Continues
  <2> QED
    BY <1>0, <2>1, <2>2
<1>4. PICK d \in Calls \cup {NoCall} :
          /\ calls' = [calls EXCEPT ![s] = d]
          /\ \/ d.stage = "asked"
             \/ c.stage = "failed" /\ d = NoCall
  BY <1>3
<1>5. CallsOK' /\ calls'[s] = d /\ \A t \in Slots : t # s => calls'[t] = calls[t]
  BY <1>0, <1>4, CallMoves
<1>6. QuietInv'
  <2>1. d.stage # "told"
    BY <1>4, ScheduleBounds
  <2>2. ASSUME patient, ~error, ~lostAnswer, d.stage \in {"none", "sent", "failed"}
        PROVE  schedules = table
    BY <1>0, <1>4, <2>2, OnlyCall
  <2> QED
    BY <1>0, <1>1, <1>5, <2>1, <2>2, QuietMove
<1> QED
  BY <1>1, <1>2, <1>5, <1>6 DEF ScheduleInv, TablesOK, PageOK

LEMMA LoadSchedulesStep ==
    ASSUME ScheduleInv, NEW s \in Slots, LoadSchedules(s)
    PROVE  ScheduleInv'
<1> DEFINE c == calls[s]
<1>0. /\ c.stage \in {"told", "untold"} /\ c \in Calls /\ c # NoCall /\ c.list \in Tables
      /\ CallsOK /\ QuietInv
  BY CallShapes DEF LoadSchedules, ScheduleInv, CallsOK
<1>1. UNCHANGED <<table, created, showForm, editingId, scheduleForm, entered, patient>>
  BY DEF LoadSchedules, formVars
<1>2. /\ listLoading' \in BOOLEAN /\ savingRow' \in BOOLEAN /\ error' \in BOOLEAN
      /\ lostAnswer' \in BOOLEAN /\ schedules' \in Tables
  BY <1>0 DEF LoadSchedules, ScheduleInv, PageOK, TablesOK
<1>3. CallsOK' /\ calls'[s] = NoCall /\ \A t \in Slots : t # s => calls'[t] = calls[t]
  BY <1>0, CallMoves DEF LoadSchedules
<1>4. QuietInv'
  <2>1. calls'[s].stage # "told"
    BY <1>3, ScheduleBounds
  <2>2. ASSUME patient, ~error' PROVE schedules' = table'
    <3>1. c.stage = "told" /\ schedules' = c.list
      BY <1>0, <2>2 DEF LoadSchedules
    <3> QED
      BY <1>0, <1>1, <2>2, <3>1 DEF QuietInv
  <2> QED
    BY <1>0, <1>1, <1>3, <2>1, <2>2, QuietMove
<1> QED
  BY <1>1, <1>2, <1>3, <1>4 DEF ScheduleInv, TablesOK, PageOK

LEMMA ReopenStep ==
    ASSUME ScheduleInv, ReopenSchedule
    PROVE  ScheduleInv'
<1>1. CallsOK'
  BY FirstCall DEF ReopenSchedule, CallsOK
<1>2. TablesOK' /\ PageOK'
  BY ScheduleBounds DEF ReopenSchedule, ScheduleInv, TablesOK, PageOK
<1>3. QuietInv'
  <2>1. calls' = FirstLoad
    BY DEF ReopenSchedule
  <2> QED
    BY <2>1, FirstCall DEF QuietInv
<1> QED
  BY <1>1, <1>2, <1>3 DEF ScheduleInv

LEMMA ScheduleStep == ScheduleInv /\ [ScheduleNext]_scheduleVars => ScheduleInv'
BY FormStep, ClickStep, ServedStep, TableReadStep, ContinuesStep, LoadSchedulesStep, ReopenStep
   DEF ScheduleNext

LEMMA ScheduleTypes == ScheduleInv => ScheduleTypeOK
<1> SUFFICES ASSUME ScheduleInv PROVE ScheduleTypeOK
  OBVIOUS
<1>1. DOMAIN calls = Slots /\ \A s \in Slots : calls[s] = NoCall \/ calls[s] \in Calls
  BY DEF ScheduleInv, CallsOK
<1> QED
  BY <1>1 DEF ScheduleInv, TablesOK, PageOK, ScheduleTypeOK

(* Whenever the page is at rest a user who waits for every answer sees the table, unless an
   answer was lost (handleSave, handleDelete, handleToggleEnabled, loadSchedules). *)
THEOREM QuietListIsTableHolds == ScheduleSpec => []QuietListIsTable
<1>1. ASSUME ScheduleInv PROVE QuietListIsTable
  <2>1. Free = Slots => \A s \in Slots : calls[s].stage = "none"
    BY ScheduleBounds DEF Free
  <2> QED
    BY <1>1, <2>1 DEF ScheduleInv, QuietInv, QuietListIsTable
<1> QED
  BY ScheduleStart, ScheduleStep, <1>1, PTL DEF ScheduleSpec

-----------------------------------------------------------------------------
(* Nobody is inside ApplyUpdate, or one is. *)
OneInside == updatingBy = {} \/ \E who \in Tickets \cup {Loop} : updatingBy = {who}

LEMMA LeavesOne ==
    ASSUME OneInside, NEW who, NEW ok, Leaves(who, ok)
    PROVE  OneInside'
<1>1. updatingBy' = {}
  BY DEF OneInside, Leaves
<1> QED
  BY <1>1 DEF OneInside

LEMMA EntersOne ==
    ASSUME NEW who \in Tickets \cup {Loop}, Enters(who)
    PROVE  OneInside'
BY DEF OneInside, Enters

LEMMA OneInsideStep == OneInside /\ [UpdatesNext]_updatesVars => OneInside'
<1> SUFFICES ASSUME OneInside, [UpdatesNext]_updatesVars PROVE OneInside'
  OBVIOUS
<1>1. CASE UNCHANGED updatingBy
  BY <1>1 DEF OneInside
<1>2. CASE AutoUpdateLoop
  BY <1>1, <1>2, EntersOne, LeavesOne DEF AutoUpdateLoop
<1>3. ASSUME NEW t \in Tickets, ServeApply(t) PROVE OneInside'
  BY <1>1, <1>3, EntersOne, LeavesOne DEF ServeApply
<1>4. CASE Restart
  BY <1>4 DEF Restart, OneInside
<1>5. ASSUME HandleCheck \/ HandleUpdate \/ TurnAuto \/ HandleSaveAuto \/ ReopenUpdates
      PROVE  UNCHANGED updatingBy
  BY <1>5 DEF HandleCheck, HandleUpdate, TurnAuto, HandleSaveAuto, ReopenUpdates, updaterVars
<1>6. ASSUME NEW t \in Tickets, ServeStatus(t) \/ ServeCheck(t) \/ ServeAuto(t) \/ Answers(t)
      PROVE  UNCHANGED updatingBy
  BY <1>6 DEF ServeStatus, ServeCheck, ServeAuto, Answers, LoadStatus, CheckAnswered,
              UpdateAnswered, AutoAnswered, updaterVars
<1>7. UNCHANGED updatesVars => UNCHANGED updatingBy
  BY DEF updatesVars, updaterVars
<1> QED
  BY <1>1, <1>2, <1>3, <1>4, <1>5, <1>6, <1>7 DEF UpdatesNext, Serves

(* The page, other requests and the updater's own loop never pull at once (ApplyUpdate). *)
THEOREM OneUpdateAtATimeHolds == UpdatesSpec => []OneUpdateAtATime
<1>1. UpdatesInit => OneInside
  BY DEF UpdatesInit, OneInside
<1>2. ASSUME OneInside PROVE OneUpdateAtATime
  <2>1. Cardinality(updatingBy) \in {0, 1}
    BY <1>2, FS_EmptySet, FS_Singleton, Zenon DEF OneInside
  <2> QED
    BY <2>1 DEF OneUpdateAtATime
<1> QED
  BY <1>1, OneInsideStep, <1>2, PTL DEF UpdatesSpec

-----------------------------------------------------------------------------
(* The types of the updater, of the page and of each call. *)
AskStages == {"none", "sent", "pulling", "ok", "failed"}
AskShapes == [op : UpdateOps \cup {"none"}, stage : AskStages, auto : Autos, tells : UpdateStatus]
AsksOK == asks \in [Tickets -> AskShapes]

UpdaterOK ==
    /\ docker \in BOOLEAN /\ behind \in BOOLEAN /\ available \in BOOLEAN /\ helper \in BOOLEAN
    /\ auto \in Autos /\ savedAuto \in Autos /\ updatingBy \subseteq Tickets \cup {Loop}
    /\ restarts \in 0 .. MaxRestarts /\ loop \in {"rest", "checked", "applying"}

UpdatesPageOK ==
    /\ checking \in BOOLEAN /\ updating \in BOOLEAN /\ autoEnabled \in BOOLEAN
    /\ savingAuto \in BOOLEAN /\ settled \in BOOLEAN /\ waits \in BOOLEAN
    /\ status \in [docker : BOOLEAN, available : BOOLEAN] /\ autoSchedule \in Timetables
    /\ notice \in Notices /\ turns \in 0 .. MaxTurns

(* The page shows what the updater goes by and what the table keeps. *)
Shown == [enabled |-> autoEnabled, timetable |-> autoSchedule]
Kept == auto = Shown /\ savedAuto = Shown

(* What the only call a tells of the automatic settings since they were saved: a status says
   what the updater goes by, a Save that is under way sends what is shown, and one that
   succeeded was kept. *)
KeptBy(a) ==
    settled /\ (docker \/ restarts = 0) =>
        /\ notice = "saved" /\ a.op # "auto" =>
              Kept /\ (a.op = "status" /\ a.stage = "ok" => a.tells.auto = auto)
        /\ a.op = "auto" => a.auto = Shown /\ (a.stage = "ok" => Kept)

AloneAt(t) == \A u \in Tickets : u # t => asks[u] = NoAsk

KeptInv ==
    waits => /\ \A s, t \in Tickets : asks[s] # NoAsk /\ asks[t] # NoAsk => s = t
             /\ \A t \in Tickets : AloneAt(t) => KeptBy(asks[t])

UpdatesInv == AsksOK /\ UpdaterOK /\ UpdatesPageOK /\ KeptInv

LEMMA UpdatesBounds ==
    /\ MaxRestarts \in Nat /\ MaxTurns \in Nat /\ 1 \in Tickets
    /\ 0 \in 0 .. MaxRestarts /\ 0 \in 0 .. MaxTurns
    /\ NoAuto \in Autos /\ NoStatus \in UpdateStatus /\ NoAsk \in AskShapes
    /\ NoAsk.op = "none" /\ NoAsk.stage = "none"
    /\ Used(NoStatus) \in [docker : BOOLEAN, available : BOOLEAN]
    /\ "weekly" \in Timetables /\ "" \notin Timetables
<1>1. /\ MaxRestarts \in Nat /\ MaxTurns \in Nat /\ 1 \in Tickets
      /\ 0 \in 0 .. MaxRestarts /\ 0 \in 0 .. MaxTurns
  <2>1. MaxRestarts \in Nat /\ MaxTurns \in Nat /\ MaxAsks \in Nat /\ MaxAsks >= 1
    BY UpdatesAssumption
  <2> QED
    BY <2>1 DEF Tickets
<1>2. NoAuto \in Autos /\ NoStatus \in UpdateStatus
  BY DEF NoAuto, Autos, NoStatus, UpdateStatus
<1>3. NoAsk \in AskShapes /\ NoAsk.op = "none" /\ NoAsk.stage = "none"
  BY <1>2 DEF NoAsk, AskShapes, AskStages
<1>4. Used(NoStatus) \in [docker : BOOLEAN, available : BOOLEAN]
  BY DEF Used, NoStatus
<1> QED
  BY <1>1, <1>2, <1>3, <1>4, UpdatesAssumption

LEMMA AskParts ==
    ASSUME NEW op \in UpdateOps, NEW a \in Autos
    PROVE  /\ Ask(op, a) \in AskShapes /\ Ask(op, a).op = op /\ Ask(op, a).stage = "sent"
           /\ Ask(op, a).auto = a /\ Ask(op, a) # NoAsk
<1>1. Ask(op, a).stage = "sent"
  BY DEF Ask
<1> QED
  BY <1>1, UpdatesBounds DEF Ask, AskShapes, AskStages

(* A call moves to another stage, and may be told a status. *)
LEMMA StageParts ==
    ASSUME AsksOK, NEW t \in Tickets, NEW st \in AskStages, Answered(t, st)
    PROVE  \E a \in AskShapes : /\ asks' = [asks EXCEPT ![t] = a] /\ a.op = asks[t].op
                                /\ a.stage = st /\ a.auto = asks[t].auto /\ a.tells = asks[t].tells
<1> DEFINE a == [asks[t] EXCEPT !.stage = st]
<1>1. asks[t] \in AskShapes
  BY DEF AsksOK
<1>2. a \in AskShapes /\ a.op = asks[t].op /\ a.stage = st /\ a.auto = asks[t].auto /\ a.tells = asks[t].tells
  BY <1>1 DEF AskShapes
<1>3. asks' = [asks EXCEPT ![t] = a]
  BY DEF Answered
<1> HIDE DEF a
<1> QED
  BY <1>2, <1>3

LEMMA ToldParts ==
    ASSUME AsksOK, NEW t \in Tickets, NEW st \in UpdateStatus,
           asks' = [asks EXCEPT ![t].stage = "ok", ![t].tells = st]
    PROVE  \E a \in AskShapes : /\ asks' = [asks EXCEPT ![t] = a] /\ a.op = asks[t].op
                                /\ a.stage = "ok" /\ a.auto = asks[t].auto /\ a.tells = st
<1> DEFINE a == [asks[t] EXCEPT !.stage = "ok", !.tells = st]
<1>1. asks[t] \in AskShapes
  BY DEF AsksOK
<1>2. a \in AskShapes /\ a.op = asks[t].op /\ a.stage = "ok" /\ a.auto = asks[t].auto /\ a.tells = st
  BY <1>1 DEF AskShapes, AskStages
<1>3. asks' = [asks EXCEPT ![t] = a]
  BY <1>1
<1> HIDE DEF a
<1> QED
  BY <1>2, <1>3

LEMMA AskMoves ==
    ASSUME AsksOK, NEW t \in Tickets, NEW a \in AskShapes, asks' = [asks EXCEPT ![t] = a]
    PROVE  AsksOK' /\ asks'[t] = a /\ \A u \in Tickets : u # t => asks'[u] = asks[u]
BY DEF AsksOK

(* A call that is alone after the step says all there is to say. *)
LEMMA KeptAlone ==
    ASSUME NEW t \in Tickets, AloneAt(t)', KeptBy(asks[t])'
    PROVE  KeptInv'
<1>1. ASSUME NEW r \in Tickets, NEW s \in Tickets, asks'[r] # NoAsk, asks'[s] # NoAsk PROVE r = s
  BY <1>1 DEF AloneAt
<1>2. ASSUME NEW u \in Tickets, AloneAt(u)' PROVE asks'[u] = asks'[t]
  BY <1>2 DEF AloneAt
<1>3. ASSUME NEW u \in Tickets, AloneAt(u)' PROVE KeptBy(asks[u])'
  BY <1>2, <1>3 DEF KeptBy
<1> QED
  BY <1>1, <1>3 DEF KeptInv

(* A step of one call: another becomes of its slot, and it says what is to say. *)
LEMMA KeptMove ==
    ASSUME AsksOK, KeptInv, NEW t \in Tickets, asks[t] # NoAsk, UNCHANGED waits,
           NEW a \in AskShapes, asks' = [asks EXCEPT ![t] = a],
           waits /\ KeptBy(asks[t]) => KeptBy(asks[t])'
    PROVE  AsksOK' /\ KeptInv'
<1>1. AsksOK' /\ asks'[t] = a /\ \A u \in Tickets : u # t => asks'[u] = asks[u]
  BY AskMoves
<1>2. CASE waits
  <2>1. AloneAt(t)
    BY <1>2 DEF KeptInv, AloneAt
  <2>2. AloneAt(t)'
    BY <1>1, <2>1 DEF AloneAt
  <2>3. KeptBy(asks[t])'
    BY <1>2, <2>1 DEF KeptInv
  <2> QED
    BY <1>1, <2>2, <2>3, KeptAlone
<1>3. CASE ~waits
  BY <1>1, <1>3 DEF KeptInv
<1> QED
  BY <1>2, <1>3

(* A click: a patient user makes it when nothing is under way. *)
LEMMA PutKeeps ==
    ASSUME AsksOK, KeptInv, Clickable, UNCHANGED waits, NEW op \in UpdateOps, NEW a \in Autos, Put(op, a),
           op # "auto" => notice' # "saved", op = "auto" => a = Shown'
    PROVE  AsksOK' /\ KeptInv'
<1> DEFINE p == CHOOSE t \in FreeTickets : \A u \in FreeTickets : t <= u
<1>1. Ask(op, a) \in AskShapes /\ Ask(op, a).op = op /\ Ask(op, a).stage = "sent" /\ Ask(op, a).auto = a
  BY AskParts
<1>2. asks' = [asks EXCEPT ![p] = Ask(op, a)]
  BY DEF Put
<1>3. AsksOK'
  BY <1>1, <1>2 DEF AsksOK
<1>4. CASE waits
  <2>1. FreeTickets = Tickets
    BY <1>4 DEF Clickable
  <2>2. 1 \in Tickets
    BY UpdatesBounds
  <2>3. \A u \in Tickets : 1 <= u
    BY DEF Tickets
  <2>4. p \in Tickets
    BY <2>1, <2>2, <2>3
  <2>5. PICK q \in Tickets : asks' = [asks EXCEPT ![q] = Ask(op, a)]
    BY <1>2, <2>4
  <2>6. asks \in [Tickets -> AskShapes] /\ \A u \in Tickets : asks[u] = NoAsk
    BY <2>1 DEF AsksOK, FreeTickets
  <2>7. asks'[q] = Ask(op, a) /\ \A u \in Tickets : u # q => asks'[u] = NoAsk
    BY <2>5, <2>6
  <2>8. AloneAt(q)'
    BY <2>7 DEF AloneAt
  <2>9. KeptBy(asks[q])'
    BY <1>1, <2>7 DEF KeptBy
  <2> QED
    BY <1>3, <2>8, <2>9, KeptAlone
<1>5. CASE ~waits
  BY <1>3, <1>5 DEF KeptInv
<1> QED
  BY <1>4, <1>5

LEMMA FirstAsksAlone ==
    ASSUME asks' = FirstAsks, ~settled'
    PROVE  AsksOK' /\ KeptInv'
<1>1. Ask("status", NoAuto) \in AskShapes /\ 1 \in Tickets /\ NoAsk \in AskShapes
  BY AskParts, UpdatesBounds DEF UpdateOps
<1>2. AsksOK' /\ AloneAt(1)'
  BY <1>1 DEF FirstAsks, AsksOK, AloneAt
<1>3. KeptBy(asks[1])'
  BY DEF KeptBy
<1> QED
  BY <1>1, <1>2, <1>3, KeptAlone

LEMMA UpdatesStart == UpdatesInit => UpdatesInv
<1> SUFFICES ASSUME UpdatesInit PROVE UpdatesInv
  OBVIOUS
<1>1. Ask("status", NoAuto) \in AskShapes /\ 1 \in Tickets /\ NoAsk \in AskShapes
  BY AskParts, UpdatesBounds DEF UpdateOps
<1>2. AsksOK
  BY <1>1 DEF UpdatesInit, FirstAsks, AsksOK
<1>3. KeptInv
  BY DEF UpdatesInit, FirstAsks, KeptInv, KeptBy
<1>4. UpdaterOK
  BY UpdatesBounds DEF UpdatesInit, UpdaterOK
<1>5. UpdatesPageOK
  BY UpdatesBounds DEF UpdatesInit, UpdatesPageOK, Notices
<1> QED
  BY <1>2, <1>3, <1>4, <1>5 DEF UpdatesInv

(* Steps that leave calls and what is shown and kept alone. *)
LEMMA KeptStays ==
    ASSUME KeptInv, UNCHANGED <<asks, waits, settled, docker, restarts, notice, auto, savedAuto,
                                autoEnabled, autoSchedule>>
    PROVE  KeptInv'
BY DEF KeptInv, AloneAt, KeptBy, Kept, Shown

LEMMA LoopStep == ASSUME UpdatesInv, AutoUpdateLoop PROVE UpdatesInv'
<1>1. /\ UNCHANGED <<docker, behind, auto, savedAuto, restarts, asks>>
      /\ UNCHANGED updatesPageVars
  BY DEF AutoUpdateLoop
<1>2. /\ available' \in BOOLEAN /\ helper' \in BOOLEAN /\ updatingBy' \subseteq Tickets \cup {Loop}
      /\ loop' \in {"rest", "checked", "applying"}
  BY DEF AutoUpdateLoop, Enters, Leaves, UpdatesInv, UpdaterOK
<1>3. KeptInv'
  BY <1>1, KeptStays DEF updatesPageVars, UpdatesInv
<1> QED
  BY <1>1, <1>2, <1>3 DEF UpdatesInv, UpdaterOK, UpdatesPageOK, AsksOK, updatesPageVars

LEMMA RestartStep == ASSUME UpdatesInv, Restart PROVE UpdatesInv'
<1>0. asks \in [Tickets -> AskShapes] /\ UNCHANGED <<docker, savedAuto, updatesPageVars>>
  BY DEF Restart, UpdatesInv, AsksOK
<1>1. restarts' \in 0 .. MaxRestarts /\ restarts' # 0
  <2>1. restarts \in 0 .. MaxRestarts /\ restarts < MaxRestarts /\ restarts' = restarts + 1
    BY DEF Restart, UpdatesInv, UpdaterOK
  <2>2. restarts' # 0
    BY <2>1
  <2> QED
    BY <2>1, <2>2, UpdatesBounds, Counted
<1>2. UpdaterOK'
  BY <1>0, <1>1, UpdatesBounds DEF Restart, UpdatesInv, UpdaterOK
<1>3. \A t \in Tickets : \/ asks'[t] = asks[t]
                         \/ asks[t].stage \in {"sent", "pulling"} /\ asks'[t] = [asks[t] EXCEPT !.stage = "failed"]
  BY DEF Restart
<1>4. ASSUME NEW t \in Tickets
      PROVE  /\ asks'[t] \in AskShapes /\ asks'[t].op = asks[t].op /\ asks'[t].auto = asks[t].auto
             /\ asks'[t].stage = "ok" => asks'[t] = asks[t]
             /\ asks'[t] = NoAsk <=> asks[t] = NoAsk
  <2>1. asks[t] \in AskShapes
    BY <1>0
  <2>2. CASE asks'[t] = asks[t]
    BY <2>1, <2>2
  <2>3. CASE asks[t].stage \in {"sent", "pulling"} /\ asks'[t] = [asks[t] EXCEPT !.stage = "failed"]
    <3>1. /\ asks'[t] \in AskShapes /\ asks'[t].stage = "failed" /\ asks'[t].op = asks[t].op
          /\ asks'[t].auto = asks[t].auto
      BY <2>1, <2>3 DEF AskShapes, AskStages
    <3> QED
      BY <2>3, <3>1, UpdatesBounds
  <2> QED
    BY <1>3, <2>2, <2>3
<1>5. AsksOK'
  <2>1. DOMAIN asks' = Tickets /\ asks' = [t \in Tickets |-> asks'[t]]
    BY DEF Restart
  <2> QED
    BY <1>4, <2>1 DEF AsksOK
<1>6. auto' = IF docker THEN savedAuto ELSE NoAuto
  BY DEF Restart
<1>7. ASSUME NEW t \in Tickets, KeptBy(asks[t]) PROVE KeptBy(asks[t])'
  BY <1>0, <1>1, <1>4, <1>6, <1>7 DEF KeptBy, Kept, Shown, updatesPageVars
<1>8. KeptInv'
  <2>1. waits' = waits
    BY <1>0 DEF updatesPageVars
  <2>2. \A t \in Tickets : AloneAt(t)' => AloneAt(t)
    BY <1>4 DEF AloneAt
  <2>3. KeptInv
    BY DEF UpdatesInv
  <2> QED
    BY <1>4, <1>7, <2>1, <2>2, <2>3 DEF KeptInv
<1> QED
  BY <1>0, <1>2, <1>5, <1>8 DEF UpdatesInv, UpdatesPageOK, updatesPageVars

LEMMA UpdatesClick ==
    ASSUME UpdatesInv, HandleCheck \/ HandleUpdate \/ HandleSaveAuto
    PROVE  UpdatesInv'
<1>1. Clickable /\ UNCHANGED <<waits, updaterVars, autoEnabled, autoSchedule>>
  BY DEF HandleCheck, HandleUpdate, HandleSaveAuto, UpdateControls, AutoControls
<1>2. UpdatesPageOK'
  BY DEF HandleCheck, HandleUpdate, HandleSaveAuto, UpdatesInv, UpdatesPageOK, Notices
<1>3. AsksOK' /\ KeptInv'
  <2>0. AsksOK /\ KeptInv /\ NoAuto \in Autos /\ {"check", "apply", "auto"} \subseteq UpdateOps
    BY UpdatesBounds DEF UpdatesInv, UpdateOps
  <2>1. CASE HandleCheck
    <3>1. notice' # "saved" /\ Put("check", NoAuto)
      BY <2>1 DEF HandleCheck
    <3> QED
      BY <1>1, <2>0, <3>1, PutKeeps
  <2>2. CASE HandleUpdate
    <3>1. notice' # "saved" /\ Put("apply", NoAuto)
      BY <2>2 DEF HandleUpdate
    <3> QED
      BY <1>1, <2>0, <3>1, PutKeeps
  <2>3. CASE HandleSaveAuto
    <3>1. Put("auto", Shown) /\ Shown' = Shown
      BY <1>1, <2>3 DEF HandleSaveAuto, Shown
    <3>2. Shown \in Autos
      BY DEF UpdatesInv, UpdatesPageOK, Shown, Autos
    <3> QED
      BY <1>1, <2>0, <3>1, <3>2, PutKeeps
  <2> QED
    BY <2>1, <2>2, <2>3
<1> QED
  BY <1>1, <1>2, <1>3 DEF UpdatesInv, UpdaterOK, updaterVars

LEMMA TurnStep == ASSUME UpdatesInv, TurnAuto PROVE UpdatesInv'
<1>1. UNCHANGED <<updaterVars, status, checking, updating, savingAuto, notice, waits, asks>> /\ ~settled'
  BY DEF TurnAuto
<1>2. turns' \in 0 .. MaxTurns
  <2>1. turns \in 0 .. MaxTurns /\ turns < MaxTurns /\ turns' = turns + 1
    BY DEF TurnAuto, UpdatesInv, UpdatesPageOK
  <2> QED
    BY <2>1, UpdatesBounds, Counted
<1>3. autoEnabled' \in BOOLEAN /\ autoSchedule' \in Timetables
  BY DEF TurnAuto, UpdatesInv, UpdatesPageOK
<1>4. KeptInv'
  BY <1>1 DEF UpdatesInv, KeptInv, KeptBy, AloneAt
<1>5. settled' \in BOOLEAN
  BY DEF TurnAuto
<1> QED
  BY <1>1, <1>2, <1>3, <1>4, <1>5 DEF UpdatesInv, UpdaterOK, UpdatesPageOK, AsksOK, updaterVars

LEMMA ReopenUpdatesStep == ASSUME UpdatesInv, ReopenUpdates PROVE UpdatesInv'
<1>1. AsksOK' /\ KeptInv'
  BY FirstAsksAlone DEF ReopenUpdates
<1>2. UpdatesPageOK'
  BY UpdatesBounds DEF ReopenUpdates, UpdatesInv, UpdatesPageOK, Notices
<1> QED
  BY <1>1, <1>2 DEF ReopenUpdates, UpdatesInv, UpdaterOK, updaterVars

(* The server works on a call. *)
LEMMA ServesStep == ASSUME UpdatesInv, NEW t \in Tickets, Serves(t) PROVE UpdatesInv'
<1>0. /\ AsksOK /\ KeptInv /\ asks[t] \in AskShapes /\ UNCHANGED updatesPageVars
      /\ asks[t] # NoAsk
  BY UpdatesBounds DEF Serves, ServeStatus, ServeCheck, ServeApply, ServeAuto, UpdatesInv, AsksOK
<1>p. UpdatesPageOK'
  BY <1>0 DEF UpdatesInv, UpdatesPageOK, updatesPageVars
<1>w. UNCHANGED <<waits, settled, notice, autoEnabled, autoSchedule>>
  BY <1>0 DEF updatesPageVars
<1>g. \A b \in BOOLEAN : GetStatus(b) \in UpdateStatus /\ GetStatus(b).auto = auto
                         /\ [GetStatus(b) EXCEPT !.auto = NoAuto] \in UpdateStatus
  BY UpdatesBounds DEF GetStatus, UpdateStatus, UpdatesInv, UpdaterOK
<1>1. CASE ServeStatus(t)
  <2>1. UNCHANGED <<docker, restarts, auto, savedAuto>> /\ UpdaterOK'
    BY <1>1 DEF ServeStatus, updaterVars, UpdatesInv, UpdaterOK
  <2>2. \E a \in AskShapes : /\ asks' = [asks EXCEPT ![t] = a] /\ a.op = asks[t].op
                             /\ a.stage = "ok" => a.tells.auto = auto
    <3>1. CASE asks' = [asks EXCEPT ![t].stage = "ok", ![t].tells = GetStatus(available)]
      <4>1. GetStatus(available) \in UpdateStatus /\ GetStatus(available).auto = auto
        BY <1>g DEF UpdatesInv, UpdaterOK
      <4>2. PICK st \in UpdateStatus :
               st.auto = auto /\ asks' = [asks EXCEPT ![t].stage = "ok", ![t].tells = st]
        BY <3>1, <4>1
      <4>3. PICK a \in AskShapes : /\ asks' = [asks EXCEPT ![t] = a] /\ a.op = asks[t].op
                                   /\ a.stage = "ok" /\ a.auto = asks[t].auto /\ a.tells = st
        BY <1>0, <4>2, ToldParts, Zenon
      <4> QED
        BY <4>2, <4>3
    <3>2. CASE Answered(t, "failed")
      BY <1>0, <3>2, StageParts DEF AskStages
    <3> QED
      BY <1>1, <3>1, <3>2 DEF ServeStatus
  <2>3. PICK a \in AskShapes : /\ asks' = [asks EXCEPT ![t] = a] /\ a.op = asks[t].op
                               /\ a.stage = "ok" => a.tells.auto = auto
    BY <2>2
  <2>4. asks'[t] = a
    BY <1>0, <2>3, AskMoves
  <2>5. asks[t].op = "status"
    BY <1>1 DEF ServeStatus
  <2>6. KeptBy(asks[t]) => KeptBy(asks[t])'
    BY <1>w, <2>1, <2>3, <2>4, <2>5 DEF KeptBy, Kept, Shown
  <2>7. AsksOK' /\ KeptInv'
    BY <1>0, <1>w, <2>3, <2>6, KeptMove
  <2> QED
    BY <1>p, <2>1, <2>7 DEF UpdatesInv
<1>2. CASE ServeCheck(t)
  <2>1. UNCHANGED <<docker, restarts, auto, savedAuto>> /\ UpdaterOK'
    BY <1>2 DEF ServeCheck, UpdatesInv, UpdaterOK
  <2>2. \E a \in AskShapes : asks' = [asks EXCEPT ![t] = a] /\ a.op = asks[t].op
    <3>1. ASSUME asks' = [asks EXCEPT ![t].stage = "ok",
                                     ![t].tells = [GetStatus(available') EXCEPT !.auto = NoAuto]]
          PROVE  \E a \in AskShapes : asks' = [asks EXCEPT ![t] = a] /\ a.op = asks[t].op
      <4>1. [GetStatus(available') EXCEPT !.auto = NoAuto] \in UpdateStatus
        BY <1>g, <2>1 DEF UpdaterOK
      <4> QED
        BY <1>0, <3>1, <4>1, ToldParts
    <3>2. ASSUME Answered(t, "failed")
          PROVE  \E a \in AskShapes : asks' = [asks EXCEPT ![t] = a] /\ a.op = asks[t].op
      BY <1>0, <3>2, StageParts DEF AskStages
    <3> QED
      BY <1>2, <3>1, <3>2 DEF ServeCheck
  <2>3. PICK a \in AskShapes : asks' = [asks EXCEPT ![t] = a] /\ a.op = asks[t].op
    BY <2>2
  <2>4. asks'[t] = a
    BY <1>0, <2>3, AskMoves
  <2>5. asks[t].op = "check"
    BY <1>2 DEF ServeCheck
  <2>6. KeptBy(asks[t]) => KeptBy(asks[t])'
    BY <1>w, <2>1, <2>3, <2>4, <2>5 DEF KeptBy, Kept, Shown
  <2>7. AsksOK' /\ KeptInv'
    BY <1>0, <1>w, <2>3, <2>6, KeptMove
  <2> QED
    BY <1>p, <2>1, <2>7 DEF UpdatesInv
<1>3. CASE ServeApply(t)
  <2>1. UNCHANGED <<docker, restarts, auto, savedAuto>>
    BY <1>3 DEF ServeApply
  <2>8. UpdaterOK'
    <3>1. updatingBy' \subseteq Tickets \cup {Loop} /\ helper' \in BOOLEAN
      BY <1>3 DEF ServeApply, Enters, Leaves, UpdatesInv, UpdaterOK
    <3> QED
      BY <1>3, <3>1 DEF ServeApply, UpdatesInv, UpdaterOK
  <2>2. \E st \in AskStages : Answered(t, st)
    <3>1. {"pulling", "failed", "ok"} \subseteq AskStages
      BY DEF AskStages
    <3>2. Answered(t, "pulling") \/ Answered(t, "failed") \/ Answered(t, "ok")
      BY <1>3 DEF ServeApply
    <3> QED
      BY <3>1, <3>2
  <2>3. PICK a \in AskShapes : asks' = [asks EXCEPT ![t] = a] /\ a.op = asks[t].op
    BY <1>0, <2>2, StageParts
  <2>4. asks'[t] = a
    BY <1>0, <2>3, AskMoves
  <2>5. asks[t].op = "apply"
    BY <1>3 DEF ServeApply
  <2>6. KeptBy(asks[t]) => KeptBy(asks[t])'
    BY <1>w, <2>1, <2>3, <2>4, <2>5 DEF KeptBy, Kept, Shown
  <2>7. AsksOK' /\ KeptInv'
    BY <1>0, <1>w, <2>3, <2>6, KeptMove
  <2> QED
    BY <1>p, <2>8, <2>7 DEF UpdatesInv
<1>4. CASE ServeAuto(t)
  <2>0. asks[t].auto \in Autos /\ savedAuto \in Autos /\ auto' = asks[t].auto /\ asks[t].op = "auto"
    BY <1>0, <1>4 DEF ServeAuto, AskShapes, UpdatesInv, UpdaterOK
  <2>1. UNCHANGED <<docker, restarts>> /\ UpdaterOK'
    <3>1. [savedAuto EXCEPT !.enabled = auto'.enabled] \in Autos
      BY <2>0 DEF Autos
    <3>2. savedAuto' \in Autos
      BY <1>4, <2>0, <3>1 DEF ServeAuto
    <3> QED
      BY <1>4, <2>0, <3>2 DEF ServeAuto, UpdatesInv, UpdaterOK
  <2>2. \/ Answered(t, "ok") /\ savedAuto' = auto'
        \/ Answered(t, "failed")
    BY <1>4 DEF ServeAuto
  <2>3. PICK a \in AskShapes : /\ asks' = [asks EXCEPT ![t] = a] /\ a.op = asks[t].op
                               /\ a.auto = asks[t].auto
                               /\ a.stage = "ok" => savedAuto' = auto'
    <3>1. {"failed", "ok"} \subseteq AskStages
      BY DEF AskStages
    <3>2. CASE Answered(t, "ok") /\ savedAuto' = auto'
      BY <1>0, <3>1, <3>2, StageParts
    <3>3. CASE Answered(t, "failed")
      <4>1. PICK a \in AskShapes : /\ asks' = [asks EXCEPT ![t] = a] /\ a.op = asks[t].op
                                   /\ a.stage = "failed" /\ a.auto = asks[t].auto
        BY <1>0, <3>1, <3>3, StageParts
      <4> QED
        BY <4>1
    <3> QED
      BY <2>2, <3>2, <3>3
  <2>4. asks'[t] = a
    BY <1>0, <2>3, AskMoves
  <2>6. KeptBy(asks[t]) => KeptBy(asks[t])'
    BY <1>w, <2>0, <2>1, <2>3, <2>4 DEF KeptBy, Kept, Shown
  <2>7. AsksOK' /\ KeptInv'
    BY <1>0, <1>w, <2>3, <2>6, KeptMove
  <2> QED
    BY <1>p, <2>1, <2>7 DEF UpdatesInv
<1> QED
  BY <1>1, <1>2, <1>3, <1>4 DEF Serves

(* The page takes an answer. *)
LEMMA AnswersStep == ASSUME UpdatesInv, NEW t \in Tickets, Answers(t) PROVE UpdatesInv'
<1>0. /\ AsksOK /\ KeptInv /\ asks[t] \in AskShapes /\ UNCHANGED <<updaterVars, settled, waits, turns>>
      /\ asks[t] # NoAsk /\ NoAsk \in AskShapes
  BY UpdatesBounds DEF Answers, LoadStatus, CheckAnswered, UpdateAnswered, AutoAnswered, UpdatesInv, AsksOK
<1>u. UpdaterOK' /\ UNCHANGED <<docker, restarts, auto, savedAuto>>
  BY <1>0 DEF UpdatesInv, UpdaterOK, updaterVars
<1>t. /\ Used(asks[t].tells) \in [docker : BOOLEAN, available : BOOLEAN]
      /\ asks[t].tells.auto \in Autos
  BY <1>0 DEF AskShapes, UpdateStatus, Used
<1>1. CASE LoadStatus(t)
  <2>1. asks' = [asks EXCEPT ![t] = NoAsk] /\ asks[t].op = "status" /\ notice' = notice
    BY <1>1 DEF LoadStatus
  <2>2. asks'[t] = NoAsk /\ NoAsk.op = "none"
    BY <1>0, <2>1, AskMoves, UpdatesBounds
  <2>3. status' \in [docker : BOOLEAN, available : BOOLEAN] /\ autoEnabled' \in BOOLEAN /\ autoSchedule' \in Timetables
    BY <1>1, <1>t, UpdatesBounds DEF LoadStatus, Autos, UpdatesInv, UpdatesPageOK
  <2>4. UpdatesPageOK'
    BY <1>0, <1>1, <2>3 DEF LoadStatus, UpdatesInv, UpdatesPageOK
  <2>5. ASSUME Kept, asks[t].stage = "ok" => asks[t].tells.auto = auto PROVE Shown' = Shown
    <3>1. CASE asks[t].stage = "ok"
      <4>1. auto.enabled = autoEnabled /\ auto.timetable = autoSchedule /\ autoSchedule # ""
        BY <2>5, UpdatesBounds DEF Kept, Shown, UpdatesInv, UpdatesPageOK
      <4>2. autoEnabled' = autoEnabled /\ autoSchedule' = autoSchedule
        BY <1>1, <2>5, <3>1, <4>1 DEF LoadStatus
      <4> QED
        BY <4>2 DEF Shown
    <3>2. CASE asks[t].stage # "ok"
      BY <1>1, <3>2 DEF LoadStatus, Shown
    <3> QED
      BY <3>1, <3>2
  <2>6. KeptBy(asks[t]) => KeptBy(asks[t])'
    BY <1>0, <1>u, <2>1, <2>2, <2>5 DEF KeptBy, Kept
  <2>7. AsksOK' /\ KeptInv'
    BY <1>0, <2>1, <2>6, KeptMove
  <2> QED
    BY <1>u, <2>4, <2>7 DEF UpdatesInv
<1>2. CASE CheckAnswered(t) \/ UpdateAnswered(t)
  <2>1. asks' = [asks EXCEPT ![t] = NoAsk] /\ notice' # "saved" /\ notice' \in Notices
    BY <1>2 DEF CheckAnswered, UpdateAnswered, Notices
  <2>2. asks'[t] = NoAsk /\ NoAsk.op = "none"
    BY <1>0, <2>1, AskMoves, UpdatesBounds
  <2>3. status' \in [docker : BOOLEAN, available : BOOLEAN]
    BY <1>2, <1>t DEF CheckAnswered, UpdateAnswered, UpdatesInv, UpdatesPageOK
  <2>4. UpdatesPageOK'
    BY <1>0, <1>2, <2>1, <2>3 DEF CheckAnswered, UpdateAnswered, UpdatesInv, UpdatesPageOK
  <2>6. KeptBy(asks[t])'
    BY <2>1, <2>2 DEF KeptBy
  <2>7. AsksOK' /\ KeptInv'
    BY <1>0, <2>1, <2>6, KeptMove
  <2> QED
    BY <1>u, <2>4, <2>7 DEF UpdatesInv
<1>3. CASE AutoAnswered(t)
  <2> DEFINE reload == Ask("status", NoAuto)
  <2>1. /\ reload \in AskShapes /\ reload.op = "status" /\ reload.stage = "sent"
        /\ NoAsk.op = "none"
    <3>1. NoAuto \in Autos /\ "status" \in UpdateOps /\ NoAsk.op = "none"
      BY UpdatesBounds DEF UpdateOps
    <3> QED
      BY <3>1, AskParts
  <2>2. \/ asks' = [asks EXCEPT ![t] = NoAsk] /\ notice' = "error"
        \/ asks' = [asks EXCEPT ![t] = reload] /\ notice' = "saved" /\ asks[t].stage = "ok"
    BY <1>3 DEF AutoAnswered
  <2>3. asks[t].op = "auto" /\ UNCHANGED <<autoEnabled, autoSchedule>>
    BY <1>3 DEF AutoAnswered
  <2> HIDE DEF reload
  <2>4. UpdatesPageOK'
    BY <1>0, <1>3 DEF AutoAnswered, UpdatesInv, UpdatesPageOK, Notices
  <2>5. PICK a \in {NoAsk, reload} :
             /\ asks' = [asks EXCEPT ![t] = a]
             /\ notice' = "saved" => a = reload /\ asks[t].stage = "ok"
    BY <2>2
  <2>6. a \in AskShapes /\ asks'[t] = a /\ a.op # "auto" /\ a.stage # "ok"
    BY <1>0, <2>1, <2>5, AskMoves, UpdatesBounds
  <2>7. KeptBy(asks[t]) => KeptBy(asks[t])'
    BY <1>0, <1>u, <2>3, <2>5, <2>6 DEF KeptBy, Kept, Shown
  <2>8. AsksOK' /\ KeptInv'
    BY <1>0, <2>5, <2>6, <2>7, KeptMove
  <2> QED
    BY <1>u, <2>4, <2>8 DEF UpdatesInv
<1> QED
  BY <1>1, <1>2, <1>3 DEF Answers

LEMMA UpdatesStep == UpdatesInv /\ [UpdatesNext]_updatesVars => UpdatesInv'
<1>1. ASSUME UpdatesInv, UNCHANGED updatesVars PROVE UpdatesInv'
  <2>1. KeptInv'
    BY <1>1, KeptStays DEF UpdatesInv, updatesVars, updaterVars, updatesPageVars
  <2> QED
    BY <1>1, <2>1 DEF UpdatesInv, UpdaterOK, UpdatesPageOK, AsksOK, updatesVars, updaterVars, updatesPageVars
<1> QED
  BY <1>1, LoopStep, RestartStep, UpdatesClick, TurnStep, ReopenUpdatesStep, ServesStep, AnswersStep
     DEF UpdatesNext

(* When the page says that the automatic settings were saved they are what it shows, what the
   updater goes by and what the table keeps, across restarts (SetAutoUpdate, loadSettings). *)
THEOREM AutoIsKeptHolds == UpdatesSpec => []AutoIsKept
<1>1. ASSUME UpdatesInv PROVE AutoIsKept
  <2> SUFFICES ASSUME waits, FreeTickets = Tickets, notice = "saved", settled, docker \/ restarts = 0
               PROVE  Kept
    BY DEF AutoIsKept, Kept, Shown
  <2>1. \A t \in Tickets : asks[t] = NoAsk
    BY DEF FreeTickets
  <2>2. 1 \in Tickets /\ NoAsk.op = "none"
    BY UpdatesBounds
  <2>3. KeptBy(asks[1])
    BY <1>1, <2>1, <2>2 DEF UpdatesInv, KeptInv, AloneAt
  <2> QED
    BY <2>1, <2>2, <2>3 DEF KeptBy
<1> QED
  BY UpdatesStart, UpdatesStep, <1>1, PTL DEF UpdatesSpec

LEMMA UpdatesTypes == UpdatesInv => UpdatesTypeOK
<1> SUFFICES ASSUME UpdatesInv PROVE UpdatesTypeOK
  OBVIOUS
<1>1. \A t \in Tickets : asks[t].op \in UpdateOps \cup {"none"} /\ asks[t].tells \in UpdateStatus
  BY DEF UpdatesInv, AsksOK, AskShapes
<1> QED
  BY <1>1 DEF UpdatesInv, UpdaterOK, UpdatesPageOK, UpdatesTypeOK

-----------------------------------------------------------------------------
(* One page is open at a time; each keeps its own invariant whatever the others do. *)
FormsInv == SettingsInv /\ ScheduleInv /\ UpdatesInv

LEMMA FormsStep == FormsInv /\ [FormsNext]_formsVars => FormsInv'
<1> SUFFICES ASSUME FormsInv, [FormsNext]_formsVars PROVE FormsInv'
  OBVIOUS
<1>1. [SettingsNext]_settingsVars /\ [ScheduleNext]_scheduleVars /\ [UpdatesNext]_updatesVars
  BY DEF FormsNext, formsVars
<1> QED
  BY <1>1, SettingsStep, ScheduleStep, UpdatesStep DEF FormsInv

(* Every form and what it changes on the server keep within their types, whichever is open
   (Settings.tsx, Schedule.tsx, Updates.tsx and their handlers). *)
THEOREM FormsTypes == FormsSpec => []FormsTypeOK
<1>1. FormsInit => FormsInv
  BY SettingsStart, ScheduleStart, UpdatesStart DEF FormsInit, FormsInv
<1>2. FormsInv => FormsTypeOK
  BY SettingsTypes, ScheduleTypes, UpdatesTypes DEF FormsInv, FormsTypeOK
<1> QED
  BY <1>1, <1>2, FormsStep, PTL DEF FormsSpec
=============================================================================
