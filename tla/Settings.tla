------------------------------ MODULE Settings ------------------------------
(***************************************************************************)
(* Settings of the system and of users: settings.service.ts, the batch of  *)
(* system.service.ts, and batchable of utils.service.ts, whose workers     *)
(* share one index and run the elements of an array side by side.          *)
(*                                                                         *)
(* The tables setting and setting_option are given: no code writes them.   *)
(* A string of a request is a model value, and NumberOf is what Number()   *)
(* makes of it.  One step of a worker is one element: what the element     *)
(* awaits, and the synchronous code that then takes the next element.      *)
(***************************************************************************)
EXTENDS Naturals, Sequences, FiniteSets

CONSTANTS
    setting,     \* table "setting" with its options, by id
    Users,
    NumberOf,    \* Number() of the strings there are
    Undefined,   \* undefined, or null
    BatchSize,   \* os.cpus().length squared
    \* the inputs the model offers
    Items,       \* the data of one setting
    Batches,     \* the bodies of PATCH /system/settings
    Requests     \* bound: the requests that may be served at a time

SettingType    == {"Binary", "MultiSelect", "SingleSelect"}
SettingContext == {"User", "System"}

Setting ==
    [type : SettingType, context : SettingContext, isDefinedOptions : BOOLEAN,
     options : SUBSET Nat]

Strings == DOMAIN NumberOf

UpdateSystemSettingDto ==
    [settingId : Nat, enable : BOOLEAN \cup {Undefined},
     selection : Strings \cup {Undefined}, selections : Seq(Strings) \cup {Undefined}]

ASSUME SettingsAssumption ==
    /\ \A s \in DOMAIN setting : s \in Nat /\ setting[s] \in Setting
    /\ BatchSize \in Nat \ {0}
    /\ Items \subseteq UpdateSystemSettingDto
    /\ \A item \in Items : item.selections # <<>>
    /\ \A batch \in Batches : batch # <<>> /\ batch \in Seq(Items)
    /\ Undefined \notin {"success", "error"}

VARIABLES
    systemSetting,   \* table "system_setting": the selection of each row
    userSetting,     \* table "user_setting"
    request          \* the batch each call runs

svars == <<systemSetting, userSetting, request>>

-----------------------------------------------------------------------------
(* Slips that are easy to make in the definitions below.  No action uses   *)
(* them.                                                                   *)

\* NumbersOf that leaves the strings what they are.
StringsOf(selections) == selections

\* HasOption that only looks whether there are options.
HasSomeOption(row, string) == row.options # {}

\* Took with the index moved on after the element, not before it.
TookLate(r, w) ==
    IF r.currentIndex <= Len(r.elements)
    THEN [r EXCEPT !.running[w] = r.currentIndex, !.runs[r.currentIndex] = @ + 1]
    ELSE [r EXCEPT !.running[w] = 0]

\* Rejected, inside retryable of the same service: it never gives up.
RetriedForEver(r, w) == r

-----------------------------------------------------------------------------
(* One setting.                                                            *)

\* _.some(options, { id: Number(string) })
HasOption(row, string) == NumberOf[string] \in row.options

NumbersOf(selections) == [i \in DOMAIN selections |-> NumberOf[selections[i]]]

\* What updateSystemSetting stores for the data of a request, as a set that
\* is empty where it throws.
SystemSelection(row, item) ==
    CASE row.type = "Binary" /\ item.enable # Undefined -> {item.enable}
      [] row.type = "SingleSelect" /\ item.selection # Undefined /\ ~row.isDefinedOptions ->
            {item.selection}
      [] row.type = "SingleSelect" /\ item.selection # Undefined /\ row.isDefinedOptions ->
            {NumberOf[s] : s \in {t \in {item.selection} : HasOption(row, t)}}
      [] row.type = "MultiSelect" /\ item.selections # Undefined /\ row.isDefinedOptions ->
            {NumbersOf(s) : s \in {t \in {item.selections} :
                                      \A i \in DOMAIN t : HasOption(row, t[i])}}
      [] OTHER -> {}

\* updateUserSetting does not take a string that is not an option.
UserSelection(row, item) ==
    IF row.type = "SingleSelect" /\ ~row.isDefinedOptions THEN {}
    ELSE SystemSelection(row, item)

\* upsert of the row with this key.
Upsert(table, key, selection) ==
    [k \in DOMAIN table \cup {key} |-> IF k = key THEN selection ELSE table[k]]

\* Of the ids in a selection those found among the options, in their order.
\* It is SelectSeq without its recursion: the k-th that is found comes k-th.
MapSelectionsToOption(selection, options) ==
    LET found == {i \in DOMAIN selection : selection[i] \in options}
    IN  [k \in 1..Cardinality(found) |->
            selection[CHOOSE i \in found : Cardinality(found \cap 1..i) = k]]

\* mapSettings of a row that is there: the options that are selected.
MapSetting(row, selection) ==
    CASE row.type = "SingleSelect" /\ row.isDefinedOptions ->
            IF selection \in row.options THEN selection ELSE Undefined
      [] row.type = "MultiSelect" /\ row.isDefinedOptions ->
            MapSelectionsToOption(selection, row.options)
      [] OTHER -> selection

\* getSystemSettings: what the system's settings are shown as.
SystemSettingsShown ==
    [s \in {t \in DOMAIN setting : setting[t].context = "System"} |->
        IF s \in DOMAIN systemSetting
        THEN MapSetting(setting[s], systemSetting[s]) ELSE Undefined]

\* getUserSettings
UserSettingsShown(u) ==
    [s \in {t \in DOMAIN setting : setting[t].context = "User"} |->
        IF <<u, s>> \in DOMAIN userSetting
        THEN MapSetting(setting[s], userSetting[<<u, s>>]) ELSE Undefined]

\* updateUserSetting, which nobody calls yet.  Where it throws it has written
\* nothing.
UpdateUserSetting(u, item) ==
    /\ item.settingId \in DOMAIN setting
    /\ \E selection \in UserSelection(setting[item.settingId], item) :
           userSetting' = Upsert(userSetting, <<u, item.settingId>>, selection)
    /\ UNCHANGED <<systemSetting, request>>

-----------------------------------------------------------------------------
(* batchable.                                                              *)

\* No request.
NoRequest ==
    [elements |-> <<>>, currentIndex |-> 1, running |-> <<>>, failed |-> {},
     results |-> {}, runs |-> <<>>, answer |-> Undefined]

\* const index = currentIndex++, while there are elements.
Took(r, w) ==
    IF r.currentIndex <= Len(r.elements)
    THEN [r EXCEPT !.running[w] = r.currentIndex, !.runs[r.currentIndex] = @ + 1,
                   !.currentIndex = @ + 1]
    ELSE [r EXCEPT !.running[w] = 0]

\* The workers are started in a loop, and each takes an element before it
\* first awaits.
Started(batch) ==
    LET workers == IF Len(batch) < BatchSize THEN Len(batch) ELSE BatchSize
    IN  [NoRequest EXCEPT
            !.elements = batch,
            !.currentIndex = workers + 1,
            !.running = [w \in 1..workers |-> w],
            !.runs = [i \in 1..Len(batch) |-> IF i <= workers THEN 1 ELSE 0]]

\* PATCH /system/settings
UpdateSettings(c, batch) ==
    /\ request[c] = NoRequest
    /\ request' = [request EXCEPT ![c] = Started(batch)]
    /\ UNCHANGED <<systemSetting, userSetting>>

ElementOf(c, w) == request[c].elements[request[c].running[w]]

\* updateSystemSetting returns, and the worker takes its next element.
RunElement(c, w) ==
    LET item == ElementOf(c, w)
    IN  /\ request[c].running[w] # 0
        /\ item.settingId \in DOMAIN setting
        /\ \E selection \in SystemSelection(setting[item.settingId], item) :
               systemSetting' = Upsert(systemSetting, item.settingId, selection)
        /\ request' = [request EXCEPT ![c] =
               Took([request[c] EXCEPT !.results = @ \cup {request[c].running[w]}], w)]
        /\ UNCHANGED userSetting

\* The worker is over, and Promise.all rejects although the others go on.
Rejected(r, w) ==
    [r EXCEPT !.running[w] = 0, !.failed = @ \cup {w},
              !.answer = IF @ = Undefined THEN "error" ELSE @]

\* updateSystemSetting throws: no such setting, data it does not take, or a
\* query that fails.
FailElement(c, w) ==
    /\ request[c].running[w] # 0
    /\ request' = [request EXCEPT ![c] = Rejected(request[c], w)]
    /\ UNCHANGED <<systemSetting, userSetting>>

Stopped(r) == \A w \in DOMAIN r.running : r.running[w] = 0

\* Promise.all resolves.
Respond(c) ==
    /\ request[c] # NoRequest
    /\ request[c].answer = Undefined
    /\ Stopped(request[c])
    /\ request' = [request EXCEPT ![c].answer = "success"]
    /\ UNCHANGED <<systemSetting, userSetting>>

\* Nothing is left of a request that was answered and does nothing any more.
Forget(c) ==
    /\ request[c].answer # Undefined
    /\ Stopped(request[c])
    /\ request' = [request EXCEPT ![c] = NoRequest]
    /\ UNCHANGED <<systemSetting, userSetting>>

-----------------------------------------------------------------------------

SettingsInit ==
    /\ systemSetting = <<>>
    /\ userSetting = <<>>
    /\ request = [c \in Requests |-> NoRequest]

Work(c) ==
    \/ \E w \in DOMAIN request[c].running : RunElement(c, w) \/ FailElement(c, w)
    \/ Respond(c)

SettingsNext ==
    \/ \E c \in Requests :
           \/ \E batch \in Batches : UpdateSettings(c, batch)
           \/ Work(c)
           \/ Forget(c)
    \/ \E u \in Users, item \in Items : UpdateUserSetting(u, item)

\* The database answers every query, if only with an error.
WorkGoesOn == \A c \in Requests : WF_svars(Work(c))

SettingsSpec == SettingsInit /\ [][SettingsNext]_svars /\ WorkGoesOn

-----------------------------------------------------------------------------

\* The selections a setting may have.
Selections(row) ==
    CASE row.type = "Binary" -> BOOLEAN
      [] row.type = "SingleSelect" /\ ~row.isDefinedOptions -> Strings
      [] row.type = "SingleSelect" /\ row.isDefinedOptions -> row.options
      [] OTHER -> Seq(row.options)

\* Every row holds a selection of its setting's type, out of its options.
SettingsTypeOK ==
    /\ DOMAIN systemSetting \subseteq DOMAIN setting
    /\ \A s \in DOMAIN systemSetting : systemSetting[s] \in Selections(setting[s])
    /\ DOMAIN userSetting \subseteq Users \X DOMAIN setting
    /\ \A k \in DOMAIN userSetting : userSetting[k] \in Selections(setting[k[2]])

\* What was accepted is shown again: reading finds the options by comparing
\* ids as ===, so a selection stored as the string it came in as would vanish.
SelectionsShown ==
    /\ \A s \in DOMAIN systemSetting \cap DOMAIN SystemSettingsShown :
           SystemSettingsShown[s] = systemSetting[s]
    /\ \A k \in DOMAIN userSetting :
           k[2] \in DOMAIN UserSettingsShown(k[1]) =>
               UserSettingsShown(k[1])[k[2]] = userSetting[k]

\* What batchable promises its callers: no element is run twice, although
\* the workers share the index; a success means that every element was
\* written and nothing is written any more; and an element is left out only
\* if every worker has met with an error, because a worker that fails leaves
\* the rest to the others.
BatchIsRun ==
    \A c \in Requests :
        LET r == request[c]
        IN  /\ \A i \in DOMAIN r.runs : r.runs[i] <= 1
            /\ r.answer = "success" => r.results = DOMAIN r.elements /\ Stopped(r)
            /\ Stopped(r) /\ (\E i \in DOMAIN r.runs : r.runs[i] = 0)
                   => r.failed = DOMAIN r.running

\* Every batch comes to an end: it is answered, and after an error, too, the
\* workers that go on run out of elements.
BatchesEnd ==
    \A c \in Requests :
        request[c] # NoRequest ~> request[c].answer # Undefined /\ Stopped(request[c])
=============================================================================
