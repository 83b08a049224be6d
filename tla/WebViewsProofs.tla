----------------------------- MODULE WebViewsProofs -----------------------------
(***************************************************************************)
(* Theorems about the web interface: the file editor, the configuration    *)
(* form, the mod browser, the pack a modpack page changes, the session     *)
(* that tabs share, and the console's connection, for any number of files, *)
(* servers, mods, tabs, sessions, sockets, edits, searches, messages on    *)
(* their way and failures.                                                 *)
(***************************************************************************)
EXTENDS FileEditor, ConfigForm, ModBrowser, PackStudio, PanelSession, ConsoleSocket, SequenceTheorems,
        FiniteSetTheorems, TLAPS

-----------------------------------------------------------------------------
(* The file editor *)

LEMMA EditorStarts == EditorInit => ClosedIsClean
  BY DEF EditorInit, ClosedIsClean, IsDirty

LEMMA EditorSteps == ClosedIsClean /\ [EditorNext]_editorVars => ClosedIsClean'
  <1> SUFFICES ASSUME ClosedIsClean, [EditorNext]_editorVars PROVE ClosedIsClean'
    OBVIOUS
  <1> USE DEF ClosedIsClean, IsDirty
  <1>1. CASE HandlePut
    BY <1>1 DEF HandlePut
  <1>2. CASE PutArrives
    BY <1>2 DEF PutArrives
  <1>3. ASSUME NEW g \in Gets, HandleGet(g) PROVE ClosedIsClean'
    BY <1>3 DEF HandleGet
  <1>4. ASSUME NEW g \in Gets, GetArrives(g) PROVE ClosedIsClean'
    BY <1>4 DEF GetArrives, GetFails, Made, Cleared
  <1>5. CASE Close
    BY <1>5 DEF Close, Cleared
  <1>6. CASE Type
    BY <1>6 DEF Type
  <1>7. CASE Save
    BY <1>7 DEF Save
  <1>8. ASSUME NEW p \in Paths, EditFile(p) PROVE ClosedIsClean'
    BY <1>8, EditorAssumption DEF EditFile, NoFile
  <1>9. CASE UNCHANGED editorVars
    BY <1>9 DEF editorVars
  <1> QED
    BY <1>1, <1>2, <1>3, <1>4, <1>5, <1>6, <1>7, <1>8, <1>9 DEF EditorNext, Answering

\* A dialog that is closed holds no text that could be written to the file it is opened for
\* next, whichever answers come after it was closed.
THEOREM ClosedDialogHoldsNothing == EditorSpec => []ClosedIsClean
  BY EditorStarts, EditorSteps, PTL DEF EditorSpec

-----------------------------------------------------------------------------
(* The configuration form *)

LEMMA ConfigStarts == ConfigInit => ConfigTypeOK /\ FormIsOfServer
  <1> SUFFICES ASSUME ConfigInit PROVE ConfigTypeOK /\ FormIsOfServer
    OBVIOUS
  <1>1. host \in Hosts
    BY ConfigAssumption DEF ConfigInit
  <1>2. 0 \in 0 .. MaxChanges
    BY ConfigAssumption
  <1> QED
    BY <1>1, <1>2 DEF ConfigInit, ConfigTypeOK, ConfigCalls, Values, FormIsOfServer, Blank, Lines, Hold, Asking, Anyone

LEMMA ConfigStepTypes == ConfigTypeOK /\ [ConfigNext]_configVars => ConfigTypeOK'
  <1> SUFFICES ASSUME ConfigTypeOK, [ConfigNext]_configVars PROVE ConfigTypeOK'
    OBVIOUS
  <1> USE DEF ConfigTypeOK
  <1>h. /\ Hold \in ConfigCalls /\ 0 \in Values
        /\ \A what \in {"config", "batch"}, s \in Hosts : Asking(what, s) \in ConfigCalls
        /\ \A what \in {"update", "stage", "discard"}, s \in Hosts, v \in Values :
             [Asking(what, s) EXCEPT !.value = v] \in ConfigCalls
    <2>1. Hold \in ConfigCalls /\ 0 \in Values
      BY ConfigAssumption DEF ConfigCalls, Values
    <2>2. \A what \in {"config", "batch"}, s \in Hosts : Asking(what, s) \in ConfigCalls
      BY <2>1 DEF ConfigCalls, Asking, Hold
    <2>3. \A what \in {"update", "stage", "discard"}, s \in Hosts, v \in Values :
             [Asking(what, s) EXCEPT !.value = v] \in ConfigCalls
      BY DEF ConfigCalls, Asking, Hold
    <2> QED
      BY <2>1, <2>2, <2>3
  <1>1. ASSUME NEW l \in Lines, HandleConfig(l) PROVE ConfigTypeOK'
    <2>c. /\ sent[l].of \in Hosts /\ sent[l].value \in Values
          /\ sent[l] \in [ask: {"config", "batch", "update", "stage", "discard"}, of: Hosts, value: Values,
                          answer: {"none", "ok", "failed"}, items: SUBSET Values]
      BY <1>1 DEF HandleConfig, ConfigCalls, Hold
    <2>1. config' \in [Hosts -> Values] /\ staged' \in [Hosts -> SUBSET Values]
      BY <1>1, <2>c DEF HandleConfig
    <2>2. \A a \in {"ok", "failed"}, i \in SUBSET Values, v \in Values :
            /\ [sent[l] EXCEPT !.answer = a, !.items = i, !.value = v] \in ConfigCalls
            /\ [sent[l] EXCEPT !.answer = a] \in ConfigCalls
      BY <2>c DEF ConfigCalls
    <2>3. sent' \in [Lines -> ConfigCalls]
      <3>1. staged[sent[l].of] \in SUBSET Values /\ config'[sent[l].of] \in Values /\ 0 \in Values
        BY <2>c, <2>1, <1>h
      <3>2. CASE sent' = [sent EXCEPT ![l].answer = "failed"]
        BY <3>2, <2>2, <3>1
      <3>3. CASE sent' = [sent EXCEPT ![l].answer = "ok", ![l].items = staged[sent[l].of],
                                      ![l].value = IF sent[l].ask = "discard" THEN 0 ELSE config'[sent[l].of]]
        <4> DEFINE new == [sent[l] EXCEPT !.answer = "ok", !.items = staged[sent[l].of],
                                          !.value = IF sent[l].ask = "discard" THEN 0 ELSE config'[sent[l].of]]
        <4>1. new \in ConfigCalls
          BY <2>2, <3>1
        <4>2. \A k \in Lines : sent'[k] = IF k = l THEN new ELSE sent[k]
          BY <3>3
        <4>3. DOMAIN sent' = Lines /\ sent' = [k \in Lines |-> sent'[k]]
          BY <3>3
        <4> QED
          BY <4>1, <4>2, <4>3
      <3> QED
        BY <1>1, <3>2, <3>3 DEF HandleConfig
    <2> QED
      BY <1>1, <2>1, <2>3 DEF HandleConfig
  <1>2. ASSUME NEW l \in Lines, FormArrives(l) PROVE ConfigTypeOK'
    <2>c. sent[l].of \in Hosts /\ sent[l].value \in Values
      BY <1>2 DEF FormArrives, ConfigCalls, Hold
    <2>1. form' \in [of: Hosts \union {Anyone}, original: Values, current: Values]
      BY <1>2, <2>c DEF FormArrives, ProcessConfig
    <2>2. loadingForm' \in BOOLEAN /\ excused' \in BOOLEAN
      BY <1>2 DEF FormArrives, IsFor
    <2> QED
      BY <1>2, <1>h, <2>1, <2>2 DEF FormArrives
  <1>3. ASSUME NEW l \in Lines, StagedArrives(l) PROVE ConfigTypeOK'
    <2>c. sent[l].items \subseteq Values
      BY <1>3, <1>h DEF StagedArrives, ConfigCalls, Hold
    <2>1. savingForm' \in BOOLEAN /\ batch' \subseteq Values
      BY <1>3, <2>c DEF StagedArrives
    <2> QED
      BY <1>3, <1>h, <2>1 DEF StagedArrives
  <1>4. CASE SaveAnswers
    <2>c. sent["save"].of \in Hosts /\ sent["save"].value \in Values
      BY <1>4 DEF SaveAnswers, ConfigCalls, Hold, Lines
    <2>1. form' \in [of: Hosts \union {Anyone}, original: Values, current: Values]
      BY <1>4, <2>c DEF SaveAnswers, ProcessConfig
    <2>2. savingForm' \in BOOLEAN /\ excused' \in BOOLEAN
      BY <1>4 DEF SaveAnswers
    <2>3. sent' \in [Lines -> ConfigCalls]
      BY <1>4, <1>h DEF SaveAnswers
    <2> QED
      BY <1>4, <2>1, <2>2, <2>3 DEF SaveAnswers
  <1>5. CASE DiscardAnswers
    BY <1>5, <1>h DEF DiscardAnswers
  <1>6. CASE TypeValue
    BY <1>6, ConfigAssumption DEF TypeValue, Values
  <1>7. CASE HandleReset
    BY <1>7 DEF HandleReset
  <1>8. ASSUME NEW s \in Hosts, VisitServer(s) PROVE ConfigTypeOK'
    <2>1. PICK f \in {"form1", "form2"}, b \in {"batch1", "batch2"} :
            sent' = [sent EXCEPT ![f] = Asking("config", s), ![b] = Asking("batch", s)]
      BY <1>8 DEF VisitServer
    <2>2. Asking("config", s) \in ConfigCalls /\ Asking("batch", s) \in ConfigCalls
      BY <1>h
    <2>3. sent' \in [Lines -> ConfigCalls]
      BY <2>1, <2>2
    <2> QED
      BY <1>8, <2>3 DEF VisitServer
  <1>9. ASSUME NEW stage \in BOOLEAN, HandleSave(stage) PROVE ConfigTypeOK'
    BY <1>9, <1>h DEF HandleSave
  <1>10. ASSUME NEW item \in 1 .. MaxChanges, DiscardStaged(item) PROVE ConfigTypeOK'
    BY <1>10, <1>h DEF DiscardStaged, Values
  <1>11. CASE UNCHANGED configVars
    BY <1>11 DEF configVars
  <1> QED
    BY <1>1, <1>2, <1>3, <1>4, <1>5, <1>6, <1>7, <1>8, <1>9, <1>10, <1>11 DEF ConfigNext, AnswersConfig

LEMMA ConfigStepForm == ConfigTypeOK /\ FormIsOfServer /\ [ConfigNext]_configVars => FormIsOfServer'
  <1> SUFFICES ASSUME ConfigTypeOK, FormIsOfServer, [ConfigNext]_configVars PROVE FormIsOfServer'
    OBVIOUS
  <1> USE DEF FormIsOfServer
  <1>1. ASSUME NEW l \in Lines, HandleConfig(l) PROVE FormIsOfServer'
    BY <1>1 DEF HandleConfig
  <1>2. ASSUME NEW l \in Lines, FormArrives(l) PROVE FormIsOfServer'
    <2>1. sent[l].answer \in {"ok", "failed"}
      BY <1>2 DEF FormArrives, ConfigTypeOK, ConfigCalls, Hold
    <2> QED
      <3>1. CASE host # sent[l].of
        <4>1. loadingForm' = (loadingForm /\ TRUE) /\ excused' = excused /\ form' = form /\ host' = host
          BY <1>2, <3>1 DEF FormArrives, IsFor
        <4> QED
          BY <4>1, Zenon
      <3>2. CASE host = sent[l].of /\ sent[l].answer = "ok"
        BY <1>2, <3>2 DEF FormArrives, ProcessConfig, IsFor
      <3>3. CASE host = sent[l].of /\ sent[l].answer = "failed"
        BY <1>2, <3>3 DEF FormArrives, IsFor
      <3> QED
        BY <2>1, <3>1, <3>2, <3>3
  <1>3. ASSUME NEW l \in Lines, StagedArrives(l) PROVE FormIsOfServer'
    BY <1>3 DEF StagedArrives
  <1>4. CASE SaveAnswers
    <2>1. CASE sent["save"].answer = "ok" /\ sent["save"].of = host
      BY <1>4, <2>1 DEF SaveAnswers, ProcessConfig
    <2>2. CASE sent["save"].answer = "ok" /\ sent["save"].of # host
      BY <1>4, <2>2 DEF SaveAnswers
    <2>3. CASE sent["save"].answer # "ok"
      <3>1. excused' = (excused \/ FALSE) /\ loadingForm' = loadingForm /\ form' = form /\ host' = host
        BY <1>4, <2>3 DEF SaveAnswers
      <3> QED
        BY <3>1, Zenon
    <2> QED
      BY <2>1, <2>2, <2>3
  <1>5. CASE DiscardAnswers
    BY <1>5 DEF DiscardAnswers
  <1>6. CASE TypeValue
    BY <1>6 DEF TypeValue, ConfigTypeOK, Values
  <1>7. CASE HandleReset
    BY <1>7 DEF HandleReset, ConfigTypeOK, Values
  <1>8. ASSUME NEW s \in Hosts, VisitServer(s) PROVE FormIsOfServer'
    BY <1>8 DEF VisitServer
  <1>9. ASSUME NEW stage \in BOOLEAN, HandleSave(stage) PROVE FormIsOfServer'
    BY <1>9 DEF HandleSave
  <1>10. ASSUME NEW item \in 1 .. MaxChanges, DiscardStaged(item) PROVE FormIsOfServer'
    BY <1>10 DEF DiscardStaged
  <1>11. CASE UNCHANGED configVars
    BY <1>11 DEF configVars
  <1> QED
    BY <1>1, <1>2, <1>3, <1>4, <1>5, <1>6, <1>7, <1>8, <1>9, <1>10, <1>11 DEF ConfigNext, AnswersConfig

\* The form that can be edited is the shown server's, for any number of servers, moves and late
\* answers, but for a load that failed and a save answered after the move.
THEOREM FormBelongs == ConfigSpec => []FormIsOfServer
  BY ConfigStarts, ConfigStepTypes, ConfigStepForm, PTL DEF ConfigSpec

-----------------------------------------------------------------------------
(* The mod browser *)

\* The list of versions that is waited for, and the one whose first version is chosen, are the ones
\* of the mod that is shown.
VersionsOfMod ==
  selectedMod # None =>
    /\ lists \in Numbers /\ asked["versions"][lists].answer # "unasked" => asked["versions"][lists].mod = selectedMod
    /\ selectedVersion \in {None, selectedMod}

BrowserInv == BrowserTypeOK /\ VersionsOfMod /\ results \in {0, searches}

LEMMA BrowserStarts == BrowserInit => BrowserInv
  <1> SUFFICES ASSUME BrowserInit PROVE BrowserInv
    OBVIOUS
  <1>1. NoCall \in BrowserCalls
    BY DEF NoCall, BrowserCalls
  <1>2. asked \in [Kinds -> [Numbers -> BrowserCalls]]
    BY <1>1 DEF BrowserInit
  <1>3. 0 \in 0 .. MaxAsked
    BY BrowserAssumption
  <1>4. BrowserTypeOK
    BY <1>2, <1>3 DEF BrowserInit, BrowserTypeOK
  <1> QED
    BY <1>4 DEF BrowserInit, BrowserInv, VersionsOfMod

LEMMA BrowserSteps == BrowserInv /\ [BrowserNext]_browserVars => BrowserInv'
  <1> SUFFICES ASSUME BrowserInv, [BrowserNext]_browserVars PROVE BrowserInv'
    OBVIOUS
  <1> USE BrowserAssumption DEF BrowserInv, BrowserTypeOK, VersionsOfMod, None, Kinds
  <1>1. ASSUME NEW k \in Kinds, NEW n \in Numbers, Respond(k, n) PROVE BrowserInv'
    <2>1. PICK a \in {"ok", "error", "failed"} : asked' = [asked EXCEPT ![k][n].answer = a]
      BY <1>1 DEF Respond
    <2>2. asked[k][n] \in BrowserCalls /\ [asked[k][n] EXCEPT !.answer = a] \in BrowserCalls
      BY DEF BrowserCalls
    <2>4. asked' = [asked EXCEPT ![k] = [asked[k] EXCEPT ![n] = [asked[k][n] EXCEPT !.answer = a]]]
      BY <2>1
    <2>5. asked' \in [Kinds -> [Numbers -> BrowserCalls]]
      BY <2>2, <2>4
    <2>6. \A i \in Kinds, j \in Numbers :
             /\ asked'[i][j].mod = asked[i][j].mod
             /\ asked'[i][j].answer # "unasked" => asked[i][j].answer # "unasked"
      BY <1>1, <2>1, <2>2, <2>4 DEF Respond, BrowserCalls
    <2>3. UNCHANGED <<browsing, searchVars, versionVars, installVars>>
      BY <1>1 DEF Respond
    <2> QED
      BY <2>3, <2>5, <2>6 DEF searchVars, versionVars, installVars
  <1>2. CASE SearchMods
    BY <1>2 DEF SearchMods, BeginsSearch, versionVars, installVars, Numbers, BrowserCalls
  <1>3. CASE OpenBrowser
    BY <1>3 DEF OpenBrowser, BeginsSearch, versionVars, installVars, Numbers, BrowserCalls
  <1>4. CASE CloseBrowser \/ Back
    BY <1>4 DEF CloseBrowser, Back, searchVars, installVars
  <1>5. CASE InstallMod
    BY <1>5 DEF InstallMod, searchVars, versionVars, Numbers, BrowserCalls
  <1>6. ASSUME NEW m \in Results, ViewModVersions(m) PROVE BrowserInv'
    BY <1>6 DEF ViewModVersions, searchVars, installVars, Numbers, BrowserCalls
  <1>7. ASSUME NEW n \in Numbers, SearchArrives(n) PROVE BrowserInv'
    BY <1>7 DEF SearchArrives, IsCurrent, NoCall, Numbers, versionVars, installVars, BrowserCalls
  <1>8. ASSUME NEW n \in Numbers, VersionsArrive(n) PROVE BrowserInv'
    BY <1>8 DEF VersionsArrive, IsCurrent, NoCall, Numbers, searchVars, installVars, BrowserCalls
  <1>9. CASE InstallArrives
    BY <1>9 DEF InstallArrives, NoCall, Numbers, searchVars, BrowserCalls
  <1>10. CASE UNCHANGED browserVars
    BY <1>10 DEF browserVars
  <1> QED
    BY <1>1, <1>2, <1>3, <1>4, <1>5, <1>6, <1>7, <1>8, <1>9, <1>10 DEF BrowserNext, Answers

LEMMA BrowserInvImplies == BrowserInv => AnswersAreNewest
  BY DEF BrowserInv, VersionsOfMod, AnswersAreNewest, None

\* What the dialog lists was found by the last search, and what it would install is a version of the
\* mod shown, for any number of searches, lists and late answers.
THEOREM NewestAnswersHold == BrowserSpec => []AnswersAreNewest
  BY BrowserStarts, BrowserSteps, BrowserInvImplies, PTL DEF BrowserSpec

-----------------------------------------------------------------------------
(* The pack *)

\* What the panel keeps of a pack.
IsPack(d) ==
  DOMAIN d = {"mods", "mc", "index", "override"} /\ d = [f \in {"mods", "mc", "index", "override"} |-> d[f]]

Indexed(d) == IsPack(d) /\ d.index \subseteq FilesOf(d)

-----------------------------------------------------------------------------
(* What a change of the pack leaves *)

LEMMA WriteIndexes ==
  ASSUME IsPack(disk), NEW p, NEW mc
  PROVE  Indexed(WritePackFiles(p, mc))
  <1> DEFINE new == WritePackFiles(p, mc)
  <1>1. IsPack(new) /\ new.index = {m \in PackMods : p[m] # Absent} /\ new.override = disk.override
        /\ new.mods = [m \in PackMods |-> IF p[m] # Absent THEN p[m] ELSE disk.mods[m]]
    BY DEF WritePackFiles, IsPack
  <1>2. new.index \subseteq In(new)
    BY <1>1 DEF In
  <1> QED
    BY <1>1, <1>2 DEF Indexed, FilesOf

LEMMA RefreshIndexes ==
  ASSUME NEW d, IsPack(d)
  PROVE  Indexed(RefreshPack(d))
  <1> DEFINE new == RefreshPack(d)
  <1>1. IsPack(new) /\ new.index = FilesOf(d) /\ new.mods = d.mods /\ new.override = d.override
    BY DEF RefreshPack, IsPack
  <1>2. FilesOf(new) = FilesOf(d)
    BY <1>1 DEF FilesOf, In
  <1> QED
    BY <1>1, <1>2 DEF Indexed

LEMMA DeleteIndexes ==
  ASSUME IsPack(disk), NEW S
  PROVE  Indexed(DeleteMod(S))
  <1> DEFINE new == DeleteMod(S)
  <1>1. IsPack(new) /\ new.index = In(disk) \ S
        /\ new.mods = [m \in PackMods |-> IF m \in S THEN Absent ELSE disk.mods[m]]
    BY DEF DeleteMod, IsPack
  <1>2. new.index \subseteq In(new)
    BY <1>1 DEF In
  <1> QED
    BY <1>1, <1>2 DEF Indexed, FilesOf

LEMMA ServedIndexes ==
  ASSUME Indexed(disk), NEW c
  PROVE  Indexed(Served(c))
  <1> USE DEF Indexed
  <1>1. CASE c.ask \in {"patch", "setSide", "pin"}
    BY <1>1, WriteIndexes DEF Served, UpdateMods
  <1>2. CASE c.ask \in {"save", "post", "apply"}
    BY <1>2, WriteIndexes DEF Served
  <1>3. CASE c.ask = "remove"
    BY <1>3, DeleteIndexes DEF Served
  <1>4. CASE c.ask = "refresh"
    BY <1>4, RefreshIndexes DEF Served
  <1>5. CASE c.ask = "saveFile"
    <2>1. IsPack([disk EXCEPT !.override = TRUE])
      BY DEF IsPack
    <2> QED
      BY <1>5, <2>1, RefreshIndexes DEF Served
  <1>6. CASE c.ask \notin {"patch", "setSide", "pin", "save", "post", "apply", "remove", "refresh", "saveFile"}
    BY <1>6 DEF Served
  <1> QED
    BY <1>1, <1>2, <1>3, <1>4, <1>5, <1>6

-----------------------------------------------------------------------------
(* The specification *)

LEMMA StudioStarts == StudioInit => Indexed(disk)
  <1> SUFFICES ASSUME StudioInit PROVE Indexed(disk)
    OBVIOUS
  <1>1. PICK S \in SUBSET PackMods :
          disk = [mods |-> [m \in PackMods |-> IF m \in S THEN Fresh("both") ELSE Absent], mc |-> 1, index |-> S,
                  override |-> FALSE]
    BY DEF StudioInit
  <1>2. Fresh("both") # Absent
    BY DEF Fresh, Absent
  <1> QED
    BY <1>1, <1>2 DEF Indexed, IsPack, FilesOf, In

LEMMA StudioSteps == Indexed(disk) /\ [StudioNext]_studioVars => Indexed(disk)'
  <1> SUFFICES ASSUME Indexed(disk), [StudioNext]_studioVars PROVE Indexed(disk)'
    OBVIOUS
  <1>1. disk' = disk => Indexed(disk)'
    BY DEF Indexed, IsPack, FilesOf, In
  <1>2. ASSUME NEW c, disk' = Served(c) PROVE Indexed(disk)'
    BY <1>2, ServedIndexes DEF Indexed, IsPack, FilesOf, In
  <1>3. ASSUME NEW f \in Functions, ServePack(f) PROVE Indexed(disk)'
    <2>1. disk' = disk \/ disk' = Served(jobs[f])
      BY <1>3 DEF ServePack
    <2> QED
      BY <1>1, <1>2, <2>1
  <1>4. ASSUME NEW m \in PackMods, Elsewhere(m) PROVE Indexed(disk)'
    <2>1. disk' = DeleteMod({m}) \/ disk' = WritePackFiles([disk.mods EXCEPT ![m] = Fresh("both")], disk.mc)
      BY <1>4 DEF Elsewhere
    <2>2. IsPack(disk)
      BY DEF Indexed
    <2>3. Indexed(DeleteMod({m})) /\ Indexed(WritePackFiles([disk.mods EXCEPT ![m] = Fresh("both")], disk.mc))
      BY <2>2, DeleteIndexes, WriteIndexes
    <2> QED
      BY <2>1, <2>3 DEF Indexed, IsPack, FilesOf, In
  <1>5. ASSUME NEW f \in Functions, JobArrives(f) PROVE disk' = disk
    BY <1>5 DEF JobArrives, PackArrives, SimulateArrives, ApplyArrives, PatchArrives, OtherArrives, SaveArrives,
                RemoveArrives, BatchArrives, AddArrives
  <1>6. CASE SaveMetadata \/ RunBatchAction \/ \E f \in DOMAIN Flagged : BeginFlagged(f)
    BY <1>1, <1>6 DEF SaveMetadata, RunBatchAction, BeginFlagged, Begin
  <1>7. ASSUME NEW v \in Versions, EditVersion(v) \/ \E apply \in BOOLEAN : SimulateMigration(v, apply) PROVE disk' = disk
    BY <1>7 DEF EditVersion, SimulateMigration, Begin
  <1>8. ASSUME NEW S \in SUBSET PackMods, Select(S) PROVE disk' = disk
    BY <1>8 DEF Select
  <1>9. ASSUME NEW m \in PackMods,
               ToggleSide(m) \/ TogglePin(m) \/ RemoveMod(m) \/ HandleAddUrlMod(m)
                 \/ \E s \in DOMAIN NextSide : AddModToPack(m, s)
        PROVE  disk' = disk
    BY <1>9 DEF ToggleSide, TogglePin, RemoveMod, HandleAddUrlMod, AddModToPack, Begin
  <1>10. CASE UNCHANGED studioVars
    BY <1>1, <1>10 DEF studioVars
  <1> QED
    BY <1>1, <1>3, <1>4, <1>5, <1>6, <1>7, <1>8, <1>9, <1>10 DEF StudioNext

\* A pack's index names only files that are there, for any mods and any overlapping changes of the
\* page, of another page and of a batch.
THEOREM IndexHasFilesHolds == StudioSpec => []IndexHasFiles
  <1>1. Indexed(disk) => IndexHasFiles
    BY DEF Indexed, IndexHasFiles
  <1> QED
    BY <1>1, StudioStarts, StudioSteps, PTL DEF StudioSpec

-----------------------------------------------------------------------------
(* The session *)

\* The session invariant: besides the property, that every tab has a token or none.
StoredIsHeld == token = [t \in Tabs |-> token[t]] /\ NoSessionLeft

\* A step that leaves the tokens and localStorage alone.
LEMMA SameTokensSame ==
  ASSUME StoredIsHeld, UNCHANGED <<token, stored>>, other' = other
  PROVE  StoredIsHeld'
  BY DEF StoredIsHeld, NoSessionLeft

\* A step that empties localStorage.
LEMMA EmptyIsHeld ==
  ASSUME StoredIsHeld, stored' = NoToken,
         UNCHANGED token \/ \E t \in Tabs : \E held : token' = [token EXCEPT ![t] = held]
  PROVE  StoredIsHeld'
  <1>1. token' = [t \in Tabs |-> token'[t]]
    BY DEF StoredIsHeld
  <1> QED
    BY <1>1 DEF StoredIsHeld, NoSessionLeft

\* A step after which tab t holds what localStorage names.
LEMMA HolderIsHeld ==
  ASSUME StoredIsHeld, NEW t \in Tabs, token' = [token EXCEPT ![t] = stored']
  PROVE  StoredIsHeld'
  <1>1. token' = [u \in Tabs |-> token'[u]] /\ token'[t] = stored'
    BY DEF StoredIsHeld
  <1> QED
    BY <1>1 DEF StoredIsHeld, NoSessionLeft

\* What a caller does with an answer keeps the tokens, unless the interceptor clears everything.
LEMMA CallersKeep ==
  ASSUME StoredIsHeld, NEW t \in Tabs, NEW k, NEW caller \in BOOLEAN, Unless(t, k, caller), other' = other,
         caller => token' = token
  PROVE  StoredIsHeld'
  <1>1. CASE Clears(t, k)
    BY <1>1, EmptyIsHeld DEF Unless, Forget
  <1>2. CASE ~Clears(t, k)
    BY <1>2, SameTokensSame DEF Unless
  <1> QED
    BY <1>1, <1>2

LEMMA AnswersKeepTokens ==
  ASSUME NEW t \in Tabs, NEW k, Arrives(t, k)
  PROVE  token' = token
  BY DEF Arrives, Checked, Unchecked

LEMMA SessionStarts == SessionInit => StoredIsHeld
  BY DEF SessionInit, StoredIsHeld, NoSessionLeft

LEMMA ArrivalsHold ==
  ASSUME StoredIsHeld, NEW t \in Tabs, NEW k \in Threads, Arrive(t, k)
  PROVE  StoredIsHeld'
  <1>1. CASE StatusArrives(t, k)
    BY <1>1, SameTokensSame DEF StatusArrives, tabVars, storeVars
  <1>2. CASE InitArrives(t)
    BY <1>2, AnswersKeepTokens, CallersKeep DEF InitArrives
  <1>3. CASE MountArrives(t)
    BY <1>3, AnswersKeepTokens, CallersKeep DEF MountArrives
  <1>4. CASE LoginArrives(t)
    <2>1. other' = other
      BY <1>4 DEF LoginArrives
    <2>2. CASE call[t]["form"].answer = "ok"
      BY <1>4, <2>2, HolderIsHeld DEF LoginArrives
    <2>3. CASE call[t]["form"].answer # "ok"
      BY <1>4, <2>1, <2>3, CallersKeep DEF LoginArrives, Unchecked
    <2> QED
      BY <2>2, <2>3
  <1>5. CASE FetchArrives(t)
    BY <1>5, AnswersKeepTokens, CallersKeep DEF FetchArrives
  <1>6. CASE Leave(t)
    BY <1>6, SameTokensSame DEF Leave, storeVars
  <1>7. CASE RegisterArrives(t)
    BY <1>7, SameTokensSame DEF RegisterArrives, tabVars, storeVars
  <1>8. CASE RecoverArrives(t)
    BY <1>8, SameTokensSame, EmptyIsHeld DEF RecoverArrives, Loaded, tabVars, storeVars
  <1>9. CASE DataArrives(t, k)
    BY <1>9, CallersKeep DEF DataArrives, storeVars
  <1>10. CASE LogoutArrives(t, k)
    BY <1>10, EmptyIsHeld DEF LogoutArrives, Forget
  <1> QED
    BY <1>1, <1>2, <1>3, <1>4, <1>5, <1>6, <1>7, <1>8, <1>9, <1>10 DEF Arrive

LEMMA SessionSteps == StoredIsHeld /\ [SessionNext]_sessionVars => StoredIsHeld'
  <1> SUFFICES ASSUME StoredIsHeld, [SessionNext]_sessionVars PROVE StoredIsHeld'
    OBVIOUS
  <1>1. ASSUME NEW t \in Tabs, NEW k \in Threads, Handle(t, k) PROVE StoredIsHeld'
    BY <1>1, SameTokensSame DEF Handle, tabVars, storeVars
  <1>2. ASSUME NEW t \in Tabs, NEW k \in Threads, Arrive(t, k) PROVE StoredIsHeld'
    BY <1>2, ArrivalsHold
  <1>3. ASSUME NEW t \in Tabs, NEW k, NEW op, Sends(t, k, op) PROVE StoredIsHeld'
    BY <1>3, SameTokensSame DEF Sends, tabVars, storeVars
  <1>4. ASSUME NEW t \in Tabs, Load(t) PROVE StoredIsHeld'
    BY <1>4, HolderIsHeld DEF Load, Loaded
  <1>5. ASSUME NEW t \in Tabs, SignInElsewhere(t) PROVE StoredIsHeld'
    BY <1>5, HolderIsHeld DEF SignInElsewhere, Loaded
  <1>6. CASE EndSession
    BY <1>6, SameTokensSame DEF EndSession, tabVars, storeVars
  <1>7. CASE OtherSignsIn
    BY <1>7 DEF OtherSignsIn, StoredIsHeld, NoSessionLeft, tabVars, storeVars
  <1>8. CASE OtherLogsOut
    BY <1>8, EmptyIsHeld DEF OtherLogsOut, tabVars, storeVars
  <1>9. CASE UNCHANGED sessionVars
    BY <1>9, SameTokensSame DEF sessionVars, tabVars, storeVars
  <1> QED
    BY <1>1, <1>2, <1>3, <1>4, <1>5, <1>6, <1>7, <1>8, <1>9
    DEF SessionNext, Poll, RequestData, SignIn, Register, Recover

\* The session that localStorage names is one that a tab of the browser still holds, whoever signs
\* in or out where, and whichever calls are refused, fail or arrive late: no reload brings back a
\* session that every tab was logged out of.
THEOREM NoSessionLeftHolds == SessionSpec => []NoSessionLeft
  <1>1. StoredIsHeld => NoSessionLeft
    BY DEF StoredIsHeld
  <1> QED
    BY SessionStarts, SessionSteps, <1>1, PTL DEF SessionSpec

-----------------------------------------------------------------------------
(* The console: messages *)

\* After the hub has read queue q of a connection that streams S, it may stream server s: the
\* last thing it is told about s is to subscribe, or it is told nothing and streams it already.
WillStream(q, S, s) ==
  \/ \E i \in 1..Len(q) : q[i] = Sub(s) /\ \A j \in (i + 1)..Len(q) : q[j] # Unsub(s)
  \/ s \in S /\ \A j \in 1..Len(q) : q[j] # Unsub(s)

LEMMA ClientMessages ==
  ASSUME NEW m \in ClientMessage
  PROVE  /\ m.type = "subscribe" => m.server \in Servers /\ m = Sub(m.server)
         /\ m.type = "unsubscribe" => m.server \in Servers /\ m = Unsub(m.server)
         /\ \A s : m = Sub(s) => m.type = "subscribe" /\ m.server = s
         /\ \A s : m = Unsub(s) => m.type = "unsubscribe" /\ m.server = s
  BY DEF ClientMessage, Sub, Unsub

LEMMA SubIsNoUnsub == \A s, r : /\ Sub(s) # Unsub(r)
                                /\ Sub(s) = Sub(r) => s = r
                                /\ Unsub(s) = Unsub(r) => s = r
  <1> SUFFICES ASSUME NEW s, NEW r
               PROVE  Sub(s) # Unsub(r) /\ (Sub(s) = Sub(r) => s = r) /\ (Unsub(s) = Unsub(r) => s = r)
    OBVIOUS
  <1>1. Sub(s).type = "subscribe" /\ Unsub(r).type = "unsubscribe"
    BY DEF Sub, Unsub
  <1>2. Sub(s).server = s /\ Sub(r).server = r /\ Unsub(s).server = s /\ Unsub(r).server = r
    BY DEF Sub, Unsub
  <1> QED
    BY <1>1, <1>2

LEMMA QuietStreams == \A S, s : WillStream(<<>>, S, s) <=> s \in S
  BY DEF WillStream

\* One more message at the end of the queue.
LEMMA MoreStreams ==
  ASSUME NEW q \in Seq(ClientMessage), NEW m \in ClientMessage, NEW S, NEW s
  PROVE  WillStream(q \o <<m>>, S, s) <=> (m = Sub(s) \/ (m # Unsub(s) /\ WillStream(q, S, s)))
  <1> DEFINE p == q \o <<m>>
  <1>1. Len(p) = Len(q) + 1 /\ p[Len(q) + 1] = m /\ \A i \in 1..Len(q) : p[i] = q[i]
    OBVIOUS
  <1>2. Len(q) \in Nat
    OBVIOUS
  <1> HIDE DEF p
  <1>3. ASSUME WillStream(p, S, s) PROVE m = Sub(s) \/ (m # Unsub(s) /\ WillStream(q, S, s))
    <2>1. CASE \E i \in 1..Len(p) : p[i] = Sub(s) /\ \A j \in (i + 1)..Len(p) : p[j] # Unsub(s)
      <3>1. PICK i \in 1..Len(p) : p[i] = Sub(s) /\ \A j \in (i + 1)..Len(p) : p[j] # Unsub(s)
        BY <2>1
      <3>2. CASE i = Len(q) + 1
        BY <1>1, <3>1, <3>2
      <3>3. CASE i # Len(q) + 1
        <4>1. i \in 1..Len(q) /\ q[i] = Sub(s)
          BY <1>1, <1>2, <3>1, <3>3
        <4>2. \A j \in (i + 1)..Len(q) : q[j] # Unsub(s)
          BY <1>1, <1>2, <3>1, <4>1
        <4>3. m # Unsub(s)
          BY <1>1, <1>2, <3>1, <4>1
        <4> QED
          BY <4>1, <4>2, <4>3 DEF WillStream
      <3> QED
        BY <3>2, <3>3
    <2>2. CASE s \in S /\ \A j \in 1..Len(p) : p[j] # Unsub(s)
      <3>1. m # Unsub(s) /\ \A j \in 1..Len(q) : q[j] # Unsub(s)
        BY <1>1, <1>2, <2>2
      <3> QED
        BY <2>2, <3>1 DEF WillStream
    <2> QED
      BY <1>3, <2>1, <2>2 DEF WillStream
  <1>4. ASSUME m = Sub(s) PROVE WillStream(p, S, s)
    <2>1. Len(p) \in 1..Len(p) /\ p[Len(p)] = Sub(s) /\ (Len(p) + 1)..Len(p) = {}
      BY <1>1, <1>2, <1>4
    <2> QED
      BY <2>1 DEF WillStream
  <1>5. ASSUME m # Unsub(s), WillStream(q, S, s) PROVE WillStream(p, S, s)
    <2>1. CASE \E i \in 1..Len(q) : q[i] = Sub(s) /\ \A j \in (i + 1)..Len(q) : q[j] # Unsub(s)
      <3>1. PICK i \in 1..Len(q) : q[i] = Sub(s) /\ \A j \in (i + 1)..Len(q) : q[j] # Unsub(s)
        BY <2>1
      <3>2. i \in 1..Len(p) /\ p[i] = Sub(s)
        BY <1>1, <1>2, <3>1
      <3>3. \A j \in (i + 1)..Len(p) : p[j] # Unsub(s)
        BY <1>1, <1>2, <1>5, <3>1
      <3> QED
        BY <3>2, <3>3 DEF WillStream
    <2>2. CASE s \in S /\ \A j \in 1..Len(q) : q[j] # Unsub(s)
      <3>1. \A j \in 1..Len(p) : p[j] # Unsub(s)
        BY <1>1, <1>2, <1>5, <2>2
      <3> QED
        BY <2>2, <3>1 DEF WillStream
    <2> QED
      BY <1>5, <2>1, <2>2 DEF WillStream
  <1> QED
    BY <1>3, <1>4, <1>5 DEF p

LEMMA TwoMoreStream ==
  ASSUME NEW q \in Seq(ClientMessage), NEW m \in ClientMessage, NEW n \in ClientMessage, NEW S, NEW s
  PROVE  WillStream(q \o <<m, n>>, S, s)
           <=> \/ n = Sub(s)
               \/ n # Unsub(s) /\ (m = Sub(s) \/ (m # Unsub(s) /\ WillStream(q, S, s)))
  <1>1. q \o <<m>> \in Seq(ClientMessage) /\ <<m>> \in Seq(ClientMessage) /\ <<n>> \in Seq(ClientMessage)
    OBVIOUS
  <1>3. <<m>> \o <<n>> = Append(<<m>>, n)
    BY <1>1, AppendIsConcat
  <1>4. Append(<<m>>, n) = <<m, n>>
    <2>1. Append(<<m>>, n) \in Seq(ClientMessage) /\ <<m, n>> \in Seq(ClientMessage)
      OBVIOUS
    <2>2. Len(Append(<<m>>, n)) = 2 /\ Len(<<m, n>>) = 2
      OBVIOUS
    <2>3. \A i \in 1..2 : Append(<<m>>, n)[i] = <<m, n>>[i]
      OBVIOUS
    <2> QED
      BY <2>1, <2>2, <2>3, SeqEqual
  <1>2. (q \o <<m>>) \o <<n>> = q \o (<<m>> \o <<n>>)
    BY <1>1, ConcatAssociative
  <1> QED
    BY <1>1, <1>2, <1>3, <1>4, MoreStreams

\* The hub reads the first message, m, and then streams T instead of S.
LEMMA ReadStreams ==
  ASSUME NEW q \in Seq(ClientMessage), q # <<>>, NEW S, NEW T, NEW s,
         Head(q) = Sub(s) => T \in {S, S \union {s}},
         Head(q) = Unsub(s) => s \notin T,
         Head(q) # Sub(s) /\ Head(q) # Unsub(s) => (s \in T <=> s \in S)
  PROVE  /\ WillStream(Tail(q), T, s) => WillStream(q, S, s)
         /\ (Head(q) = Sub(s) => s \in T) /\ WillStream(q, S, s) => WillStream(Tail(q), T, s)
  <1> DEFINE p == Tail(q)
  <1>1. Len(q) \in Nat /\ Len(q) > 0 /\ Len(p) = Len(q) - 1 /\ Head(q) = q[1]
        /\ \A i \in 1..Len(p) : p[i] = q[i + 1]
    OBVIOUS
  <1> HIDE DEF p
  <1>2. ASSUME WillStream(p, T, s) PROVE WillStream(q, S, s)
    <2>1. CASE \E i \in 1..Len(p) : p[i] = Sub(s) /\ \A j \in (i + 1)..Len(p) : p[j] # Unsub(s)
      <3>1. PICK i \in 1..Len(p) : p[i] = Sub(s) /\ \A j \in (i + 1)..Len(p) : p[j] # Unsub(s)
        BY <2>1
      <3>2. i + 1 \in 1..Len(q) /\ q[i + 1] = Sub(s)
        BY <1>1, <3>1
      <3>3. ASSUME NEW j \in ((i + 1) + 1)..Len(q) PROVE q[j] # Unsub(s)
        <4>1. j - 1 \in (i + 1)..Len(p) /\ j - 1 \in 1..Len(p) /\ (j - 1) + 1 = j
          BY <1>1
        <4> QED
          BY <1>1, <3>1, <4>1
      <3> QED
        BY <3>2, <3>3 DEF WillStream
    <2>2. CASE s \in T /\ \A j \in 1..Len(p) : p[j] # Unsub(s)
      <3>1. ASSUME NEW j \in 2..Len(q) PROVE q[j] # Unsub(s)
        <4>1. j - 1 \in 1..Len(p) /\ (j - 1) + 1 = j
          BY <1>1
        <4> QED
          BY <1>1, <2>2, <4>1
      <3>2. CASE Head(q) = Sub(s)
        <4>1. 1 \in 1..Len(q) /\ q[1] = Sub(s) /\ \A j \in (1 + 1)..Len(q) : q[j] # Unsub(s)
          BY <1>1, <3>1, <3>2
        <4> QED
          BY <4>1 DEF WillStream
      <3>3. CASE Head(q) # Sub(s)
        <4>1. s \in S /\ q[1] # Unsub(s)
          BY <1>1, <2>2, <3>3
        <4>2. \A j \in 1..Len(q) : q[j] # Unsub(s)
          BY <1>1, <3>1, <4>1
        <4> QED
          BY <4>1, <4>2 DEF WillStream
      <3> QED
        BY <3>2, <3>3
    <2> QED
      BY <1>2, <2>1, <2>2 DEF WillStream
  <1>3. ASSUME Head(q) = Sub(s) => s \in T, WillStream(q, S, s) PROVE WillStream(p, T, s)
    <2>1. ASSUME NEW n \in 1..Len(q), \A j \in (n + 1)..Len(q) : q[j] # Unsub(s), NEW j \in n..Len(p)
          PROVE  p[j] # Unsub(s)
      <3>1. j \in 1..Len(p) /\ j + 1 \in (n + 1)..Len(q)
        BY <1>1, <2>1
      <3> QED
        BY <1>1, <2>1, <3>1
    <2>2. CASE \E i \in 1..Len(q) : q[i] = Sub(s) /\ \A j \in (i + 1)..Len(q) : q[j] # Unsub(s)
      <3>1. PICK i \in 1..Len(q) : q[i] = Sub(s) /\ \A j \in (i + 1)..Len(q) : q[j] # Unsub(s)
        BY <2>2
      <3>2. \A j \in i..Len(p) : p[j] # Unsub(s)
        BY <2>1, <3>1
      <3>3. CASE i = 1
        <4>1. s \in T
          BY <1>1, <1>3, <3>1, <3>3
        <4> QED
          BY <3>2, <3>3, <4>1 DEF WillStream
      <3>4. CASE i # 1
        <4>1. i - 1 \in 1..Len(p) /\ (i - 1) + 1 = i /\ p[i - 1] = Sub(s)
          BY <1>1, <3>1, <3>4
        <4> QED
          BY <3>2, <4>1 DEF WillStream
      <3> QED
        BY <3>3, <3>4
    <2>3. CASE s \in S /\ \A j \in 1..Len(q) : q[j] # Unsub(s)
      <3>1. 1 \in 1..Len(q) /\ \A j \in (1 + 1)..Len(q) : q[j] # Unsub(s)
        BY <1>1, <2>3
      <3>2. \A j \in 1..Len(p) : p[j] # Unsub(s)
        BY <2>1, <3>1
      <3>3. s \in T
        BY <1>1, <1>3, <2>3, <3>1
      <3> QED
        BY <3>2, <3>3 DEF WillStream
    <2> QED
      BY <1>3, <2>2, <2>3 DEF WillStream
  <1> QED
    BY <1>2, <1>3 DEF p

\* Messages that only subscribe, at the end of the queue.
LEMMA SubsStream ==
  ASSUME NEW q \in Seq(ClientMessage), NEW r \in Seq(ClientMessage), NEW W, NEW S, NEW s,
         \A i \in 1..Len(r) : \E w \in W : r[i] = Sub(w),
         \A w \in W : \E i \in 1..Len(r) : r[i] = Sub(w)
  PROVE  /\ WillStream(q \o r, S, s) => s \in W \/ WillStream(q, S, s)
         /\ s \in W => WillStream(q \o r, S, s)
  <1> DEFINE p == q \o r
  <1>1. /\ Len(q) \in Nat /\ Len(r) \in Nat /\ Len(p) = Len(q) + Len(r)
        /\ \A i \in 1..Len(q) : p[i] = q[i]
        /\ \A i \in 1..Len(r) : p[Len(q) + i] = r[i]
    OBVIOUS
  <1> HIDE DEF p
  <1>2. ASSUME NEW j \in (Len(q) + 1)..Len(p) PROVE j - Len(q) \in 1..Len(r) /\ p[j] = r[j - Len(q)]
    <2>1. j - Len(q) \in 1..Len(r) /\ Len(q) + (j - Len(q)) = j
      BY <1>1
    <2> QED
      BY <1>1, <2>1
  <1>3. ASSUME NEW i \in 1..Len(r) PROVE r[i] # Unsub(s)
    BY SubIsNoUnsub
  <1>4. \A j \in (Len(q) + 1)..Len(p) : p[j] # Unsub(s)
    BY <1>2, <1>3
  <1>5. ASSUME WillStream(p, S, s) PROVE s \in W \/ WillStream(q, S, s)
    <2>1. CASE \E i \in 1..Len(p) : p[i] = Sub(s) /\ \A j \in (i + 1)..Len(p) : p[j] # Unsub(s)
      <3>1. PICK i \in 1..Len(p) : p[i] = Sub(s) /\ \A j \in (i + 1)..Len(p) : p[j] # Unsub(s)
        BY <2>1
      <3>2. CASE i \in (Len(q) + 1)..Len(p)
        <4>1. r[i - Len(q)] = Sub(s) /\ i - Len(q) \in 1..Len(r)
          BY <1>2, <3>1, <3>2
        <4>2. PICK w \in W : r[i - Len(q)] = Sub(w)
          BY <4>1
        <4> QED
          BY <4>1, <4>2, SubIsNoUnsub
      <3>3. CASE i \notin (Len(q) + 1)..Len(p)
        <4>1. i \in 1..Len(q) /\ q[i] = Sub(s)
          BY <1>1, <3>1, <3>3
        <4>2. \A j \in (i + 1)..Len(q) : q[j] # Unsub(s)
          BY <1>1, <3>1, <4>1
        <4> QED
          BY <4>1, <4>2 DEF WillStream
      <3> QED
        BY <3>2, <3>3
    <2>2. CASE s \in S /\ \A j \in 1..Len(p) : p[j] # Unsub(s)
      <3>1. \A j \in 1..Len(q) : q[j] # Unsub(s)
        BY <1>1, <2>2
      <3> QED
        BY <2>2, <3>1 DEF WillStream
    <2> QED
      BY <1>5, <2>1, <2>2 DEF WillStream
  <1>6. ASSUME s \in W PROVE WillStream(p, S, s)
    <2>1. PICK i \in 1..Len(r) : r[i] = Sub(s)
      BY <1>6
    <2>2. Len(q) + i \in 1..Len(p) /\ p[Len(q) + i] = Sub(s)
      BY <1>1, <2>1
    <2>3. \A j \in ((Len(q) + i) + 1)..Len(p) : p[j] # Unsub(s)
      BY <1>1, <1>4
    <2> QED
      BY <2>2, <2>3 DEF WillStream
  <1> QED
    BY <1>5, <1>6 DEF p

LEMMA AuthStreamsNothing ==
  ASSUME NEW q, \A i \in 1..Len(q) : q[i].type = "auth", NEW s
  PROVE  ~WillStream(q, {}, s)
  BY DEF WillStream, Sub

\* resubscribeAll asks once for everything wanted.
LEMMA ResubscribedIs ==
  ASSUME IsFiniteSet(wanted), wanted \subseteq Servers
  PROVE  /\ Resubscribed \in Seq(ClientMessage)
         /\ \A i \in 1..Len(Resubscribed) : \E w \in wanted : Resubscribed[i] = Sub(w)
         /\ \A w \in wanted : \E i \in 1..Len(Resubscribed) : Resubscribed[i] = Sub(w)
  <1> DEFINE M == {Sub(s) : s \in wanted}
             N == Cardinality(M)
             f == [s \in wanted |-> Sub(s)]
  <1>1. f \in Surjection(wanted, M)
    BY DEF Surjection
  <1>2. IsFiniteSet(M) /\ N \in Nat /\ ExistsBijection(1..N, M)
    BY <1>1, FS_Surjection, FS_CardinalityType
  <1>3. \E g \in [1..N -> M] : IsInjective(g)
    BY <1>2 DEF ExistsBijection, Bijection, Injection, IsInjective
  <1>4. Resubscribed \in [1..N -> M] /\ IsInjective(Resubscribed)
    BY <1>3 DEF Resubscribed, SetToSeq
  <1> HIDE DEF M, N, f
  <1>5. Resubscribed \in Injection(1..N, M)
    BY <1>4 DEF Injection
  <1>6. IsFiniteSet(1..N) /\ Cardinality(1..N) = N
    BY <1>2, FS_Interval
  <1>7. Resubscribed \in Surjection(1..N, M)
    BY <1>2, <1>5, <1>6, FS_Injection DEF N
  <1>8. Resubscribed \in Seq(M) /\ Len(Resubscribed) = N
    BY <1>2, <1>4
  <1>9. M \subseteq ClientMessage
    BY DEF M, Sub, ClientMessage
  <1>10. \A w \in wanted : \E i \in 1..N : Resubscribed[i] = Sub(w)
    BY <1>7 DEF Surjection, M
  <1>11. \A i \in 1..N : Resubscribed[i] \in M
    BY <1>4
  <1> QED
    BY <1>8, <1>9, <1>10, <1>11 DEF M

-----------------------------------------------------------------------------
(* The console: types *)

ClientTyped ==
  /\ sock \in Seq({"connecting", "open", "closed"}) /\ Len(sock) <= MaxSockets /\ current \in 0..Len(sock)
  /\ state \in ConnectionState /\ retry \in BOOLEAN /\ flushing \in BOOLEAN
  /\ wanted \subseteq Servers /\ IsFiniteSet(wanted) /\ buffered \subseteq Servers
OutTyped == outbox \in [Sockets -> Seq(ClientMessage)]
InTyped == inbox \in [Sockets -> Seq(ServerMessage)] /\ \A k \in Sockets : Len(inbox[k]) <= MaxQueue
StreamTyped == streamed \in [Sockets -> SUBSET Servers]
PageTyped ==
  /\ session \in BOOLEAN /\ container \subseteq Servers /\ server \in Servers /\ known \in BOOLEAN
  /\ active \in BOOLEAN /\ shown \subseteq Servers /\ fetches \subseteq Fetch
  /\ command \in BOOLEAN /\ loading \in BOOLEAN /\ polling \in BOOLEAN
ConsoleTyped == ClientTyped /\ OutTyped /\ InTyped /\ StreamTyped /\ PageTyped

LEMMA TypedIsTypeOK == ConsoleTyped => ConsoleTypeOK
  BY DEF ConsoleTyped, ClientTyped, OutTyped, InTyped, StreamTyped, PageTyped, ConsoleTypeOK

LEMMA ExistingSockets == ConsoleTyped => Existing \subseteq Sockets /\ Len(sock) \in Nat
  BY ConsoleAssumption DEF ConsoleTyped, ClientTyped, Existing, Sockets

LEMMA ConnectTyped ==
  ASSUME ClientTyped, Connect
  PROVE  /\ sock' \in Seq({"connecting", "open", "closed"}) /\ Len(sock') <= MaxSockets
         /\ current' \in 0..Len(sock') /\ state' \in ConnectionState
  <1>1. CASE Connects
    BY <1>1, ConsoleAssumption DEF ClientTyped, Connect, ConnectionState
  <1>2. CASE ~Connects
    BY <1>2 DEF ClientTyped, Connect
  <1> QED
    BY <1>1, <1>2

LEMMA SendTyped ==
  ASSUME ConsoleTyped, NEW ms \in Seq(ClientMessage)
  PROVE  /\ SendAll(ms) => OutTyped'
         /\ Told(ms) => OutTyped'
  <1>1. ASSUME SendAll(ms) PROVE OutTyped'
    <2>1. CASE IsOpen(current)
      <3>1. current \in Sockets
        BY <2>1, ConsoleAssumption DEF ConsoleTyped, ClientTyped, IsOpen, NoSocket, Sockets
      <3>2. outbox[current] \o ms \in Seq(ClientMessage)
        BY <3>1, ConcatProperties DEF ConsoleTyped, OutTyped
      <3>3. outbox' = [outbox EXCEPT ![current] = outbox[current] \o ms]
        BY <1>1, <2>1 DEF SendAll
      <3> QED
        BY <3>1, <3>2, <3>3 DEF ConsoleTyped, OutTyped
    <2>2. CASE ~IsOpen(current)
      BY <1>1, <2>2 DEF SendAll, ConsoleTyped, OutTyped
    <2> QED
      BY <2>1, <2>2
  <1>2. ASSUME Told(ms) PROVE OutTyped'
    BY <1>1, <1>2 DEF Told, ConsoleTyped, OutTyped
  <1> QED
    BY <1>1, <1>2

LEMMA SubTyped == \A s \in Servers : Sub(s) \in ClientMessage /\ Unsub(s) \in ClientMessage
  BY DEF Sub, Unsub, ClientMessage

LEMMA TellingTyped ==
  ASSUME NEW s \in Servers, NEW r \in Servers
  PROVE  /\ <<Sub(s)>> \in Seq(ClientMessage) /\ <<Unsub(s)>> \in Seq(ClientMessage)
         /\ <<Unsub(s), Sub(r)>> \in Seq(ClientMessage)
  BY SubTyped

LEMMA FlushTyped ==
  ASSUME ConsoleTyped, Flush
  PROVE  shown' \subseteq Servers /\ buffered' \subseteq Servers
  BY DEF ConsoleTyped, ClientTyped, PageTyped, Flush, Flushed

LEMMA PollTyped ==
  ASSUME active' \in BOOLEAN, PollEffect
  PROVE  polling' \in BOOLEAN
  BY DEF PollEffect

LEMMA FetchTyped ==
  ASSUME ConsoleTyped, NEW f \in Fetch, FetchLogs(f)
  PROVE  fetches' \subseteq Fetch /\ loading' \in BOOLEAN
  BY DEF ConsoleTyped, PageTyped, FetchLogs

LEMMA AskedTyped == \A s \in Servers : Asked(s) \in Fetch
  BY DEF Asked, Fetch

LEMMA WantedFinite ==
  ASSUME IsFiniteSet(wanted), NEW s, NEW r
  PROVE  /\ IsFiniteSet(wanted \union {s}) /\ IsFiniteSet(wanted \ {s})
         /\ IsFiniteSet((wanted \ {s}) \union {r}) /\ IsFiniteSet((wanted \ {s}) \union {})
  BY FS_AddElement, FS_RemoveElement, FS_Difference, FS_Union, FS_EmptySet, FS_Singleton

LEMMA SeenIsBoolean ==
  ASSUME NEW x, NEW s, NEW C, x = FALSE \/ x = (s \in C)
  PROVE  x \in BOOLEAN /\ (x => s \in C)
  <1>1. CASE s \in C
    <2>1. (s \in C) = TRUE
      BY <1>1
    <2> QED
      BY <1>1, <2>1
  <1>2. CASE s \notin C
    <2>1. (s \in C) = FALSE
      BY <1>2
    <2> QED
      BY <2>1
  <1> QED
    BY <1>1, <1>2

LEMMA ConsoleStartsTyped == ConsoleInit => ConsoleTyped
  <1> SUFFICES ASSUME ConsoleInit PROVE ConsoleTyped
    OBVIOUS
  <1>1. ClientTyped
    <2>1. sock = <<>> /\ sock \in Seq({"connecting", "open", "closed"}) /\ Len(sock) = 0
      BY EmptySeq DEF ConsoleInit
    <2>2. current \in 0..Len(sock) /\ Len(sock) <= MaxSockets
      BY <2>1, ConsoleAssumption DEF ConsoleInit, NoSocket
    <2>3. wanted = {} /\ IsFiniteSet(wanted) /\ buffered = {}
      BY FS_EmptySet DEF ConsoleInit
    <2> QED
      BY <2>1, <2>2, <2>3 DEF ConsoleInit, ClientTyped, ConnectionState
  <1>2. OutTyped /\ InTyped /\ StreamTyped
    BY ConsoleAssumption DEF ConsoleInit, OutTyped, InTyped, StreamTyped
  <1>3. PageTyped
    <2>1. known = FALSE \/ known = (server \in container)
      BY Zenon DEF ConsoleInit
    <2>3. known \in BOOLEAN
      BY <2>1, SeenIsBoolean
    <2>2. container \subseteq Servers
      BY DEF ConsoleInit
    <2> QED
      BY <2>2, <2>3 DEF ConsoleInit, PageTyped
  <1> QED
    BY <1>1, <1>2, <1>3 DEF ConsoleTyped

LEMMA CloseTyped ==
  ASSUME ConsoleTyped, NEW k \in Existing, OnClose(k), UNCHANGED <<wanted, current>>
  PROVE  ClientTyped' /\ shown' \subseteq Servers /\ active' \in BOOLEAN /\ polling' \in BOOLEAN
  <1>1. sock' \in Seq({"connecting", "open", "closed"}) /\ Len(sock') = Len(sock)
    BY ExceptSeq DEF ConsoleTyped, ClientTyped, OnClose, Existing
  <1>2. shown' \subseteq Servers /\ buffered' \subseteq Servers
    BY FlushTyped DEF OnClose
  <1>3. active' \in BOOLEAN /\ polling' \in BOOLEAN
    BY PollTyped DEF OnClose, ConsoleTyped, PageTyped
  <1> QED
    BY <1>1, <1>2, <1>3 DEF ConsoleTyped, ClientTyped, OnClose, ConnectionState

LEMMA OpenedTyped ==
  ASSUME ConsoleTyped, NEW k \in Existing, Opened(k)
  PROVE  ConsoleTyped'
  <1>1. sock' \in Seq({"connecting", "open", "closed"}) /\ Len(sock') = Len(sock)
    BY ExceptSeq DEF ConsoleTyped, ClientTyped, Opened, Existing
  <1>2. ClientTyped'
    BY <1>1 DEF ConsoleTyped, ClientTyped, Opened, ConnectionState
  <1>3. OutTyped'
    <2>1. CASE current = k \/ IsOpen(current)
      <3>1. current \in Sockets
        BY <2>1, ConsoleAssumption, ExistingSockets DEF ConsoleTyped, ClientTyped, IsOpen, NoSocket, Sockets
      <3>2. Append(outbox[current], [type |-> "auth"]) \in Seq(ClientMessage)
        BY <3>1 DEF ConsoleTyped, OutTyped, ClientMessage
      <3>3. outbox' = [outbox EXCEPT ![current] = Append(outbox[current], [type |-> "auth"])]
        BY <2>1 DEF Opened, Put
      <3> QED
        BY <3>1, <3>2, <3>3 DEF ConsoleTyped, OutTyped
    <2>2. CASE ~(current = k \/ IsOpen(current))
      BY <2>2 DEF Opened, ConsoleTyped, OutTyped
    <2> QED
      BY <2>1, <2>2
  <1>4. InTyped' /\ StreamTyped'
    BY DEF ConsoleTyped, InTyped, StreamTyped, Opened, hubVars
  <1>5. PageTyped'
    BY PollTyped DEF ConsoleTyped, PageTyped, Opened, hubVars
  <1> QED
    BY <1>2, <1>3, <1>4, <1>5 DEF ConsoleTyped

LEMMA ClosedTyped ==
  ASSUME ConsoleTyped, NEW k \in Existing, Closed(k)
  PROVE  ConsoleTyped'
  <1>1. k \in Sockets
    BY ExistingSockets
  <1>2. ClientTyped' /\ shown' \subseteq Servers /\ active' \in BOOLEAN /\ polling' \in BOOLEAN
    BY CloseTyped DEF Closed
  <1>3. OutTyped' /\ StreamTyped'
    BY <1>1 DEF Closed, ConsoleTyped, OutTyped, StreamTyped
  <1>4. InTyped'
    BY <1>1, ConsoleAssumption DEF Closed, ConsoleTyped, InTyped
  <1>5. PageTyped'
    BY <1>2 DEF Closed, ConsoleTyped, PageTyped
  <1> QED
    BY <1>2, <1>3, <1>4, <1>5 DEF ConsoleTyped

LEMMA ServerMessages ==
  ASSUME NEW m \in ServerMessage
  PROVE  m.type \in {"authOk", "authFail", "logs", "log", "result"}
         /\ (m.type \in {"logs", "log", "result"} => m.server \in Servers)
  BY DEF ServerMessage

LEMMA ReceiveTyped ==
  ASSUME ConsoleTyped, NEW k \in Existing, Receive(k)
  PROVE  ConsoleTyped'
  <1> DEFINE m == Head(inbox[k])
  <1>1. k \in Sockets /\ inbox[k] \in Seq(ServerMessage) /\ inbox[k] # <<>> /\ Len(inbox[k]) <= MaxQueue
    BY ExistingSockets DEF Receive, ConsoleTyped, InTyped
  <1>2. m \in ServerMessage /\ Tail(inbox[k]) \in Seq(ServerMessage) /\ Len(Tail(inbox[k])) <= MaxQueue
    BY <1>1, ConsoleAssumption
  <1>3. InTyped'
    <2>1. inbox' = [inbox EXCEPT ![k] = Tail(inbox[k])]
      BY DEF Receive
    <2> QED
      BY <1>1, <1>2, <2>1 DEF ConsoleTyped, InTyped
  <1>4. Resubscribed \in Seq(ClientMessage)
    BY ResubscribedIs DEF ConsoleTyped, ClientTyped
  <1>5. StreamTyped'
    BY DEF Receive, ConsoleTyped, StreamTyped, hubVars
  <1>6. m.type \in {"logs", "log", "result"} => m.server \in Servers
    BY <1>2, ServerMessages
  <1> HIDE DEF m
  <1>7. active' \in BOOLEAN
    BY DEF Receive, ConsoleTyped, PageTyped
  <1>8. OutTyped' /\ state' \in ConnectionState /\ buffered' \subseteq Servers /\ shown' \subseteq Servers
        /\ loading' \in BOOLEAN /\ polling' \in BOOLEAN
    <2> USE <1>7
    <2>0. /\ OutTyped /\ state \in ConnectionState /\ buffered \subseteq Servers /\ shown \subseteq Servers
          /\ loading \in BOOLEAN /\ polling \in BOOLEAN /\ server \in Servers
      BY DEF ConsoleTyped, ClientTyped, PageTyped
    <2>1. CASE m.type = "authOk" /\ state' = "authenticated" /\ SendAll(Resubscribed) /\ PollEffect
               /\ UNCHANGED <<buffered, shown, loading>>
      BY <1>4, <2>0, <2>1, SendTyped, PollTyped DEF ConnectionState
    <2>2. CASE m.type = "authFail" /\ UNCHANGED <<state, outbox, polling, buffered, shown, loading>>
      BY <2>0, <2>2 DEF OutTyped
    <2>3. CASE m.type = "logs" /\ shown' = (IF active /\ m.server = server THEN {server} ELSE shown)
               /\ UNCHANGED <<state, outbox, polling, buffered, loading>>
      BY <2>0, <2>3 DEF OutTyped
    <2>4. CASE m.type = "log" /\ buffered' = buffered \union {m.server}
               /\ UNCHANGED <<state, outbox, polling, shown, loading>>
      BY <1>6, <2>0, <2>4 DEF OutTyped
    <2>5. CASE m.type = "result" /\ loading' = (loading /\ ~(active /\ m.server = server))
               /\ UNCHANGED <<state, outbox, polling, buffered, shown>>
      BY <2>0, <2>5 DEF OutTyped
    <2> QED
      BY <2>1, <2>2, <2>3, <2>4, <2>5 DEF Receive, m
  <1>9. ClientTyped'
    BY <1>8 DEF Receive, ConsoleTyped, ClientTyped
  <1>10. PageTyped'
    BY <1>7, <1>8 DEF Receive, ConsoleTyped, PageTyped, hubVars
  <1> QED
    BY <1>3, <1>5, <1>8, <1>9, <1>10 DEF ConsoleTyped

LEMMA HubTyped ==
  ASSUME ConsoleTyped, NEW k \in Existing
  PROVE  /\ HubReceives(k) => ConsoleTyped'
         /\ \A s \in Servers : HubLogs(k, s) => ConsoleTyped'
  <1>1. k \in Sockets /\ inbox[k] \in Seq(ServerMessage) /\ outbox[k] \in Seq(ClientMessage) /\ streamed[k] \subseteq Servers
    BY ExistingSockets DEF ConsoleTyped, InTyped, OutTyped, StreamTyped
  <1>2. ASSUME HubReceives(k) PROVE ConsoleTyped'
    <2> DEFINE m == Head(outbox[k])
    <2>1. outbox[k] # <<>> /\ Len(inbox[k]) < MaxQueue /\ m \in ClientMessage /\ Tail(outbox[k]) \in Seq(ClientMessage)
      BY <1>1, <1>2 DEF HubReceives
    <2>2. /\ outbox' = [outbox EXCEPT ![k] = Tail(outbox[k])]
          /\ inbox' = [inbox EXCEPT ![k] = inbox[k] \o Replies(m)]
          /\ streamed' = [streamed EXCEPT ![k] = Subscriptions(k, m)]
      BY <1>2 DEF HubReceives
    <2>3. m.type \in {"auth", "subscribe", "unsubscribe", "command"}
          /\ (m.type # "auth" => m.server \in Servers)
      BY <2>1 DEF ClientMessage
    <2> HIDE DEF m
    <2>4. Subscriptions(k, m) \subseteq Servers
      BY <1>1, <2>3 DEF Subscriptions
    <2>5. Replies(m) \in Seq(ServerMessage) /\ Len(Replies(m)) <= 1
      <3>1. CASE m.type = "auth"
        BY <3>1 DEF Replies, ServerMessage
      <3>2. CASE m.type = "subscribe"
        BY <2>3, <3>2 DEF Replies, ServerMessage
      <3>3. CASE m.type = "command"
        BY <2>3, <3>3 DEF Replies, ServerMessage
      <3>4. CASE m.type = "unsubscribe"
        BY <3>4 DEF Replies
      <3> QED
        BY <2>3, <3>1, <3>2, <3>3, <3>4
    <2>6. inbox[k] \o Replies(m) \in Seq(ServerMessage) /\ Len(inbox[k] \o Replies(m)) <= MaxQueue
      BY <1>1, <2>1, <2>5, ConcatProperties, ConsoleAssumption
    <2>7. InTyped'
      BY <1>1, <2>2, <2>6 DEF ConsoleTyped, InTyped
    <2>8. OutTyped' /\ StreamTyped'
      BY <1>1, <2>1, <2>2, <2>4 DEF ConsoleTyped, OutTyped, StreamTyped
    <2>9. ClientTyped' /\ PageTyped'
      BY <1>2 DEF HubReceives, ConsoleTyped, ClientTyped, PageTyped, clientVars, pageVars
    <2> QED
      BY <2>7, <2>8, <2>9 DEF ConsoleTyped
  <1>3. ASSUME NEW s \in Servers, HubLogs(k, s) PROVE ConsoleTyped'
    <2>1. Append(inbox[k], [type |-> "log", server |-> s]) \in Seq(ServerMessage)
          /\ Len(Append(inbox[k], [type |-> "log", server |-> s])) <= MaxQueue
      BY <1>1, <1>3, ConsoleAssumption DEF HubLogs, ServerMessage
    <2>2. inbox' = [inbox EXCEPT ![k] = Append(inbox[k], [type |-> "log", server |-> s])]
      BY <1>3 DEF HubLogs, Put
    <2>3. InTyped'
      BY <1>1, <2>1, <2>2 DEF ConsoleTyped, InTyped
    <2>4. ClientTyped' /\ PageTyped' /\ OutTyped' /\ StreamTyped'
      BY <1>3 DEF HubLogs, ConsoleTyped, ClientTyped, OutTyped, StreamTyped, PageTyped, clientVars, hubVars, pageVars
    <2> QED
      BY <2>3, <2>4 DEF ConsoleTyped
  <1> QED
    BY <1>2, <1>3

LEMMA ContainerTyped ==
  ASSUME ConsoleTyped
  PROVE  /\ \A s \in Servers : ContainerCreated(s) => ConsoleTyped'
         /\ SessionEnds => ConsoleTyped'
  BY DEF ContainerCreated, SessionEnds, ConsoleTyped, ClientTyped, OutTyped, InTyped, StreamTyped, PageTyped,
         clientVars, wireVars, pageVars

LEMMA TimersTyped ==
  ASSUME ConsoleTyped
  PROVE  /\ RetryTick => ConsoleTyped'
         /\ FlushTick => ConsoleTyped'
         /\ PollTick => ConsoleTyped'
  <1>1. ASSUME RetryTick PROVE ConsoleTyped'
    <2>1. ClientTyped'
      BY <1>1, ConnectTyped DEF RetryTick, ConsoleTyped, ClientTyped
    <2>2. polling' \in BOOLEAN
      BY <1>1, PollTyped DEF RetryTick, ConsoleTyped, PageTyped
    <2>3. PageTyped'
      BY <1>1, <2>2 DEF RetryTick, ConsoleTyped, PageTyped, hubVars
    <2>4. OutTyped' /\ InTyped' /\ StreamTyped'
      BY <1>1 DEF RetryTick, ConsoleTyped, OutTyped, InTyped, StreamTyped, wireVars, hubVars
    <2> QED
      BY <2>1, <2>3, <2>4 DEF ConsoleTyped
  <1>2. ASSUME FlushTick PROVE ConsoleTyped'
    BY <1>2, FlushTyped
    DEF FlushTick, ConsoleTyped, ClientTyped, OutTyped, InTyped, StreamTyped, PageTyped, wireVars, hubVars
  <1>3. ASSUME PollTick PROVE ConsoleTyped'
    <2>1. fetches' \subseteq Fetch /\ loading' \in BOOLEAN
      BY <1>3, FetchTyped, AskedTyped DEF PollTick, ConsoleTyped, PageTyped
    <2> QED
      BY <1>3, <2>1
      DEF PollTick, ConsoleTyped, ClientTyped, OutTyped, InTyped, StreamTyped, PageTyped, clientVars, wireVars, hubVars
  <1> QED
    BY <1>1, <1>2, <1>3

LEMMA ReturnsTyped ==
  ASSUME ConsoleTyped
  PROVE  /\ \A f \in Fetch : FetchReturns(f) => ConsoleTyped'
         /\ CommandReturns => ConsoleTyped'
  <1>1. ASSUME NEW f \in Fetch, FetchReturns(f) PROVE ConsoleTyped'
    <2>1. shown' \subseteq Servers
      BY <1>1 DEF FetchReturns, Fetched, ConsoleTyped, PageTyped
    <2>2. fetches' \subseteq Fetch /\ loading' \in BOOLEAN
      BY <1>1 DEF FetchReturns, ConsoleTyped, PageTyped
    <2> QED
      BY <1>1, <2>1, <2>2
      DEF FetchReturns, ConsoleTyped, ClientTyped, OutTyped, InTyped, StreamTyped, PageTyped, clientVars, wireVars, hubVars
  <1>2. ASSUME CommandReturns PROVE ConsoleTyped'
    <2>1. [server |-> server, ends |-> TRUE] \in Fetch
      BY DEF ConsoleTyped, PageTyped, Fetch
    <2>2. fetches' \subseteq Fetch /\ loading' \in BOOLEAN
      BY <1>2, <2>1, FetchTyped DEF CommandReturns, ConsoleTyped, PageTyped
    <2> QED
      BY <1>2, <2>2
      DEF CommandReturns, ConsoleTyped, ClientTyped, OutTyped, InTyped, StreamTyped, PageTyped, clientVars, wireVars, hubVars
  <1> QED
    BY <1>1, <1>2

\* What the user's steps leave: the wire to the tab and the hub's subscriptions.
LEMMA UserTyped ==
  ASSUME ConsoleTyped
  PROVE  /\ OpenConsole => ConsoleTyped'
         /\ LeaveConsole => ConsoleTyped'
         /\ \A s \in Servers : ChangeServer(s) => ConsoleTyped'
         /\ ContainerSeen => ConsoleTyped'
         /\ ChangeTail => ConsoleTyped'
         /\ SendCommand => ConsoleTyped'
         /\ Reconnect => ConsoleTyped'
  <1>0. server \in Servers /\ IsFiniteSet(wanted) /\ wanted \subseteq Servers
    BY DEF ConsoleTyped, ClientTyped, PageTyped
  <1>1. ASSUME OpenConsole PROVE ConsoleTyped'
    <2>1. OutTyped'
      BY <1>0, <1>1, SendTyped, TellingTyped DEF OpenConsole
    <2>2. ClientTyped'
      <3>1. IsFiniteSet(wanted') /\ wanted' \subseteq Servers
        BY <1>0, <1>1, WantedFinite DEF OpenConsole
      <3> QED
        BY <1>1, <3>1, ConnectTyped DEF OpenConsole, ConsoleTyped, ClientTyped
    <2>3. fetches' \subseteq Fetch /\ loading' \in BOOLEAN /\ polling' \in BOOLEAN
      BY <1>0, <1>1, FetchTyped, AskedTyped DEF OpenConsole
    <2> QED
      BY <1>1, <2>1, <2>2, <2>3 DEF OpenConsole, ConsoleTyped, InTyped, StreamTyped, PageTyped, hubVars
  <1>2. ASSUME LeaveConsole PROVE ConsoleTyped'
    <2>1. OutTyped'
      BY <1>0, <1>2, SendTyped, TellingTyped DEF LeaveConsole
    <2>2. IsFiniteSet(wanted') /\ wanted' \subseteq Servers
      BY <1>0, <1>2, WantedFinite DEF LeaveConsole
    <2> QED
      BY <1>2, <2>1, <2>2 DEF LeaveConsole, ConsoleTyped, ClientTyped, InTyped, StreamTyped, PageTyped, hubVars
  <1>3. ASSUME NEW s \in Servers, ChangeServer(s) PROVE ConsoleTyped'
    <2>1. OutTyped'
      BY <1>0, <1>3, SendTyped, TellingTyped DEF ChangeServer
    <2>2. IsFiniteSet(wanted') /\ wanted' \subseteq Servers
      BY <1>0, <1>3, WantedFinite DEF ChangeServer
    <2>7. known' = FALSE \/ known' = (s \in container)
      BY <1>3, Zenon DEF ChangeServer
    <2>3. known' \in BOOLEAN
      BY <2>7, SeenIsBoolean
    <2>4. fetches' \subseteq Fetch /\ loading' \in BOOLEAN
      BY <1>3, FetchTyped, AskedTyped DEF ChangeServer, ConsoleTyped, PageTyped
    <2>5. ClientTyped'
      BY <1>3, <2>2 DEF ChangeServer, ConsoleTyped, ClientTyped
    <2>6. PageTyped'
      BY <1>3, <2>3, <2>4 DEF ChangeServer, ConsoleTyped, PageTyped, hubVars
    <2> QED
      BY <1>3, <2>1, <2>5, <2>6 DEF ChangeServer, ConsoleTyped, InTyped, StreamTyped, hubVars
  <1>4. ASSUME ContainerSeen PROVE ConsoleTyped'
    <2>1. OutTyped'
      BY <1>0, <1>4, SendTyped, TellingTyped DEF ContainerSeen
    <2>2. IsFiniteSet(wanted') /\ wanted' \subseteq Servers
      BY <1>0, <1>4, WantedFinite DEF ContainerSeen
    <2>3. fetches' \subseteq Fetch /\ loading' \in BOOLEAN
      BY <1>0, <1>4, FetchTyped, AskedTyped DEF ContainerSeen
    <2> QED
      BY <1>4, <2>1, <2>2, <2>3 DEF ContainerSeen, ConsoleTyped, ClientTyped, InTyped, StreamTyped, PageTyped, hubVars
  <1>5. ASSUME ChangeTail PROVE ConsoleTyped'
    <2>1. OutTyped'
      BY <1>0, <1>5, SendTyped, TellingTyped DEF ChangeTail, ConsoleTyped, OutTyped
    <2>2. IsFiniteSet(wanted') /\ wanted' \subseteq Servers
      BY <1>0, <1>5, WantedFinite DEF ChangeTail
    <2>3. fetches' \subseteq Fetch /\ loading' \in BOOLEAN
      BY <1>0, <1>5, FetchTyped, AskedTyped DEF ChangeTail, ConsoleTyped, PageTyped
    <2> QED
      BY <1>5, <2>1, <2>2, <2>3 DEF ChangeTail, ConsoleTyped, ClientTyped, InTyped, StreamTyped, PageTyped, hubVars
  <1>6. ASSUME SendCommand PROVE ConsoleTyped'
    <2>1. <<[type |-> "command", server |-> server]>> \in Seq(ClientMessage)
      BY <1>0 DEF ClientMessage
    <2>2. OutTyped'
      BY <1>6, <2>1, SendTyped DEF SendCommand, ConsoleTyped, OutTyped
    <2>3. command' \in BOOLEAN /\ loading' \in BOOLEAN
      BY <1>6 DEF SendCommand, ConsoleTyped, PageTyped
    <2> QED
      BY <1>6, <2>2, <2>3
      DEF SendCommand, ConsoleTyped, ClientTyped, InTyped, StreamTyped, PageTyped, clientVars, hubVars
  <1>7. ASSUME Reconnect PROVE ConsoleTyped'
    <2>1. shown' \subseteq Servers /\ buffered' \subseteq Servers
      BY <1>7, FlushTyped DEF Reconnect, Cleanup
    <2>2. ClientTyped'
      <3>1. Append(sock, "connecting") \in Seq({"connecting", "open", "closed"})
            /\ Len(Append(sock, "connecting")) = Len(sock) + 1 /\ Len(sock) + 1 <= MaxSockets /\ Len(sock) \in Nat
        BY <1>7, ConsoleAssumption DEF Reconnect, ConsoleTyped, ClientTyped
      <3>2. retry' = FALSE /\ flushing' = FALSE
        BY <1>7 DEF Reconnect, Cleanup
      <3>3. sock' = Append(sock, "connecting") /\ current' = Len(sock) + 1 /\ state' = "connecting" /\ wanted' = wanted
        BY <1>7 DEF Reconnect
      <3>4. sock' \in Seq({"connecting", "open", "closed"}) /\ Len(sock') <= MaxSockets
        BY <3>1, <3>3
      <3>5. current' \in 0..Len(sock')
        BY <3>1, <3>3
      <3>6. wanted' \subseteq Servers /\ IsFiniteSet(wanted')
        BY <3>3 DEF ConsoleTyped, ClientTyped
      <3> QED
        BY <2>1, <3>2, <3>3, <3>4, <3>5, <3>6 DEF ClientTyped, ConnectionState
    <2>3. PageTyped'
      BY <1>7, <2>1, PollTyped DEF Reconnect, ConsoleTyped, PageTyped, hubVars
    <2> QED
      BY <1>7, <2>2, <2>3 DEF Reconnect, ConsoleTyped, OutTyped, InTyped, StreamTyped, wireVars, hubVars
  <1> QED
    BY <1>1, <1>2, <1>3, <1>4, <1>5, <1>6, <1>7

LEMMA ConsoleStepsTyped == ConsoleTyped /\ [ConsoleNext]_consoleVars => ConsoleTyped'
  <1> SUFFICES ASSUME ConsoleTyped, [ConsoleNext]_consoleVars PROVE ConsoleTyped'
    OBVIOUS
  <1>1. CASE UNCHANGED consoleVars
    BY <1>1 DEF consoleVars, clientVars, wireVars, hubVars, pageVars, ConsoleTyped, ClientTyped, OutTyped, InTyped,
                StreamTyped, PageTyped
  <1> QED
    BY <1>1, OpenedTyped, ClosedTyped, ReceiveTyped, HubTyped, ContainerTyped, TimersTyped, ReturnsTyped, UserTyped
    DEF ConsoleNext

-----------------------------------------------------------------------------
(* The console: one socket *)

\* The client's state is that of its current socket, and no other socket is live.
OneSocket ==
  /\ \A k \in Existing : Live(k) => k = current
  /\ state = "disconnected" => ~Live(current)
  /\ state = "connecting" => current # NoSocket /\ sock[current] = "connecting"
  /\ state \in {"connected", "authenticated"} => IsOpen(current)

LEMMA OneSocketIsOneLive == OneSocket => OneLiveSocket
  BY DEF OneSocket, OneLiveSocket

LEMMA ConsoleStartsOne == ConsoleInit => OneSocket
  BY DEF ConsoleInit, OneSocket, Existing, Live, NoSocket

LEMMA SameSockets ==
  ASSUME OneSocket, UNCHANGED <<sock, current, state>>
  PROVE  OneSocket'
  BY DEF OneSocket, Existing, Live, IsOpen

\* A socket that is live is the current one, and the client's state says how far it is.
LEMMA CurrentSocket ==
  ASSUME ConsoleTyped, OneSocket, NEW k \in Existing, Live(k)
  PROVE  /\ k = current /\ state # "disconnected"
         /\ sock[k] = "connecting" => state = "connecting"
         /\ sock[k] = "open" => state \in {"connected", "authenticated"}
  BY DEF OneSocket, Live, IsOpen, ConsoleTyped, ClientTyped, ConnectionState

LEMMA NoneLive ==
  ASSUME ConsoleTyped, OneSocket, Connects
  PROVE  \A k \in Existing : ~Live(k)
  <1>1. state = "disconnected"
    BY DEF Connects, OneSocket, ConsoleTyped, ClientTyped, ConnectionState
  <1> QED
    BY <1>1 DEF OneSocket

LEMMA NewSocket ==
  ASSUME ConsoleTyped, OneSocket, \A k \in Existing : ~Live(k),
         sock' = Append(sock, "connecting"), current' = Len(sock) + 1, state' = "connecting"
  PROVE  OneSocket'
  <1>1. Len(sock) \in Nat /\ Len(sock') = Len(sock) + 1 /\ sock'[Len(sock) + 1] = "connecting"
        /\ \A k \in Existing : sock'[k] = sock[k]
    BY DEF ConsoleTyped, ClientTyped, Existing
  <1>2. ASSUME NEW k \in Existing', Live(k)' PROVE k = current'
    BY <1>1, <1>2 DEF Existing, Live
  <1> QED
    BY <1>1, <1>2 DEF OneSocket, NoSocket

LEMMA ConnectOne ==
  ASSUME ConsoleTyped, OneSocket, Connect
  PROVE  OneSocket'
  <1>1. CASE Connects
    BY <1>1, NoneLive, NewSocket DEF Connect
  <1>2. CASE ~Connects
    BY <1>2, SameSockets DEF Connect
  <1> QED
    BY <1>1, <1>2

LEMMA OpenedOne ==
  ASSUME ConsoleTyped, OneSocket, NEW k \in Existing, Opened(k)
  PROVE  OneSocket' /\ k = current /\ sock[k] = "connecting"
  <1>1. sock[k] = "connecting" /\ k = current /\ k # NoSocket
    BY CurrentSocket DEF Opened, Live, Existing, NoSocket
  <1>2. Existing' = Existing /\ sock'[k] = "open" /\ \A j \in Existing : j # k => sock'[j] = sock[j]
    BY DEF Opened, ConsoleTyped, ClientTyped, Existing
  <1> QED
    BY <1>1, <1>2 DEF OneSocket, Live, IsOpen, Opened

LEMMA ClosedOne ==
  ASSUME ConsoleTyped, OneSocket, NEW k \in Existing, Closed(k)
  PROVE  OneSocket' /\ k = current
  <1>1. k = current /\ k # NoSocket
    BY CurrentSocket DEF Closed, Existing, NoSocket
  <1>2. Existing' = Existing /\ sock'[k] = "closed" /\ \A j \in Existing : j # k => sock'[j] = sock[j]
    BY DEF Closed, OnClose, ConsoleTyped, ClientTyped, Existing
  <1>3. \A j \in Existing' : Live(j)' => FALSE
    BY <1>1, <1>2 DEF OneSocket, Live
  <1>4. current' = current /\ state' = "disconnected"
    BY DEF Closed, OnClose
  <1>5. ~Live(current)'
    BY <1>1, <1>2, <1>4 DEF Live
  <1> QED
    BY <1>1, <1>3, <1>4, <1>5 DEF OneSocket

LEMMA ReceiveOne ==
  ASSUME ConsoleTyped, OneSocket, NEW k \in Existing, Receive(k)
  PROVE  OneSocket' /\ k = current /\ state \in {"connected", "authenticated"} /\ UNCHANGED <<sock, current>>
         /\ (state' = state \/ state' = "authenticated")
  <1>1. k = current /\ state \in {"connected", "authenticated"}
    BY CurrentSocket DEF Receive, IsOpen, Live
  <1>2. UNCHANGED <<sock, current>> /\ (state' = state \/ state' = "authenticated")
    BY DEF Receive
  <1> QED
    BY <1>1, <1>2 DEF OneSocket, Existing, Live, IsOpen, Receive

LEMMA ReconnectOne ==
  ASSUME ConsoleTyped, OneSocket, Reconnect
  PROVE  OneSocket'
  <1>1. \A k \in Existing : ~Live(k)
    BY DEF Reconnect, ReconnectOffered, OneSocket
  <1> QED
    BY <1>1, NewSocket DEF Reconnect

LEMMA ConsoleStepsOne == ConsoleTyped /\ OneSocket /\ [ConsoleNext]_consoleVars => OneSocket'
  <1> SUFFICES ASSUME ConsoleTyped, OneSocket, [ConsoleNext]_consoleVars PROVE OneSocket'
    OBVIOUS
  <1>1. CASE RetryTick \/ OpenConsole
    BY <1>1, ConnectOne DEF RetryTick, OpenConsole
  <1>2. ASSUME \/ FlushTick \/ PollTick \/ CommandReturns \/ LeaveConsole \/ ContainerSeen \/ ChangeTail
               \/ SendCommand \/ SessionEnds \/ UNCHANGED consoleVars
               \/ \E f \in Fetch : FetchReturns(f)
               \/ \E s \in Servers : ChangeServer(s) \/ ContainerCreated(s)
               \/ \E k \in Existing : HubReceives(k) \/ \E s \in Servers : HubLogs(k, s)
        PROVE OneSocket'
    <2>1. UNCHANGED <<sock, current, state>>
      BY <1>2 DEF FlushTick, PollTick, CommandReturns, LeaveConsole, ContainerSeen, ChangeTail, SendCommand, SessionEnds,
                  consoleVars, FetchReturns, ChangeServer, ContainerCreated, HubReceives, HubLogs, clientVars
    <2> QED
      BY <2>1, SameSockets
  <1> QED
    BY <1>1, <1>2, OpenedOne, ClosedOne, ReceiveOne, ReconnectOne DEF ConsoleNext

-----------------------------------------------------------------------------
(* The console: what the hub will stream *)

\* What the hub streams to the current socket once it has read what is on its way.
Will(s) == WillStream(outbox[current], streamed[current], s)

\* A socket that has not come up carries nothing.
FreshWires == \A k \in Sockets : k > Len(sock) \/ sock[k] = "connecting" => outbox[k] = <<>> /\ streamed[k] = {}

\* A socket that has not authenticated carries only its authentication.
OnlyAuth ==
  state = "connected" =>
    streamed[current] = {} /\ \A i \in 1..Len(outbox[current]) : outbox[current][i].type = "auth"

\* What the page knows and shows, and what the client wants.
WantsShown == (known => server \in container) /\ (active => server \in wanted)

\* The hub will stream nothing unwanted, and the shown server.
WillAgree ==
  state = "authenticated" =>
    /\ \A s \in Servers : Will(s) => s \in wanted
    /\ active /\ known => Will(server)

Agreement == FreshWires /\ OnlyAuth /\ WantsShown /\ WillAgree

LEMMA ConsoleStartsAgreed == ConsoleInit => Agreement
  <1> SUFFICES ASSUME ConsoleInit PROVE Agreement
    OBVIOUS
  <1>1. known = FALSE \/ known = (server \in container)
    BY Zenon DEF ConsoleInit
  <1>2. known => server \in container
    BY <1>1, SeenIsBoolean
  <1> QED
    BY <1>2 DEF ConsoleInit, Agreement, FreshWires, OnlyAuth, WantsShown, WillAgree

LEMMA CurrentTyped ==
  ASSUME ConsoleTyped, OneSocket, state \in {"connected", "authenticated"}
  PROVE  /\ IsOpen(current) /\ current \in Existing /\ current \in Sockets
         /\ outbox[current] \in Seq(ClientMessage) /\ streamed[current] \subseteq Servers
  <1>1. IsOpen(current) /\ current \in Existing
    BY DEF OneSocket, IsOpen, NoSocket, ConsoleTyped, ClientTyped, Existing
  <1> QED
    BY <1>1, ExistingSockets DEF ConsoleTyped, OutTyped, StreamTyped

\* A step that leaves the client, its connection and its wishes alone.
LEMMA SameAgreement ==
  ASSUME Agreement, UNCHANGED <<sock, current, state, outbox, streamed, wanted, server, known, active>>,
         container \subseteq container'
  PROVE  Agreement'
  <1>1. FreshWires' /\ OnlyAuth'
    BY DEF Agreement, FreshWires, OnlyAuth
  <1>2. WantsShown'
    BY DEF Agreement, WantsShown
  <1>3. WillAgree'
    BY DEF Agreement, WillAgree, Will
  <1> QED
    BY <1>1, <1>2, <1>3 DEF Agreement

\* A step of a client that is not authenticated, which sends nothing.
LEMMA SilentAgreement ==
  ASSUME Agreement, UNCHANGED <<sock, current, state, outbox, streamed>>, state # "authenticated", WantsShown'
  PROVE  Agreement'
  BY DEF Agreement, FreshWires, OnlyAuth, WillAgree

\* A new socket.
LEMMA NewAgreement ==
  ASSUME ConsoleTyped, Agreement, sock' = Append(sock, "connecting"), state' = "connecting",
         UNCHANGED <<outbox, streamed>>, WantsShown'
  PROVE  Agreement'
  <1>1. Len(sock) \in Nat /\ Len(sock') = Len(sock) + 1 /\ \A k \in Sockets : k <= Len(sock) => sock'[k] = sock[k]
    BY ConsoleAssumption DEF ConsoleTyped, ClientTyped, Sockets
  <1>2. \A k \in Sockets : k > Len(sock) \/ k <= Len(sock)
    BY <1>1, ConsoleAssumption DEF Sockets
  <1>3. FreshWires'
    <2> SUFFICES ASSUME NEW k \in Sockets, k > Len(sock') \/ sock'[k] = "connecting"
                 PROVE  outbox[k] = <<>> /\ streamed[k] = {}
      BY DEF FreshWires
    <2>1. CASE k > Len(sock)
      BY <2>1 DEF Agreement, FreshWires
    <2>2. CASE k <= Len(sock)
      <3>1. sock[k] = "connecting"
        BY <1>1, <2>2, ConsoleAssumption DEF Sockets
      <3> QED
        BY <3>1 DEF Agreement, FreshWires
    <2> QED
      BY <1>2, <2>1, <2>2
  <1> QED
    BY <1>3 DEF Agreement, OnlyAuth, WillAgree

\* An authenticated client sends ms.
LEMMA TellingAgreement ==
  ASSUME ConsoleTyped, OneSocket, Agreement, state = "authenticated", NEW ms \in Seq(ClientMessage), SendAll(ms),
         UNCHANGED <<sock, current, state, streamed>>, WantsShown',
         \A s \in Servers : WillStream(outbox[current] \o ms, streamed[current], s) => s \in wanted',
         active' /\ known' => WillStream(outbox[current] \o ms, streamed[current], server')
  PROVE  Agreement'
  <1>1. IsOpen(current) /\ current \in Existing /\ current \in Sockets
    BY CurrentTyped
  <1>2. outbox' = [outbox EXCEPT ![current] = outbox[current] \o ms]
    BY <1>1 DEF SendAll
  <1>3. outbox'[current] = outbox[current] \o ms /\ \A k \in Sockets : k # current => outbox'[k] = outbox[k]
    BY <1>1, <1>2 DEF ConsoleTyped, OutTyped
  <1>4. FreshWires'
    <2> SUFFICES ASSUME NEW k \in Sockets, k > Len(sock) \/ sock[k] = "connecting"
                 PROVE  outbox'[k] = <<>> /\ streamed[k] = {}
      BY DEF FreshWires
    <2>1. k # current
      BY <1>1 DEF IsOpen, Existing
    <2> QED
      BY <1>3, <2>1 DEF Agreement, FreshWires
  <1>5. WillAgree'
    BY <1>3 DEF WillAgree, Will
  <1> QED
    BY <1>4, <1>5 DEF Agreement, OnlyAuth

LEMMA OpenedAgreement ==
  ASSUME ConsoleTyped, OneSocket, Agreement, NEW k \in Existing, Opened(k)
  PROVE  Agreement'
  <1>1. k = current /\ sock[k] = "connecting" /\ k \in Sockets
    BY OpenedOne, ExistingSockets
  <1>2. outbox[k] = <<>> /\ streamed[k] = {}
    BY <1>1 DEF Agreement, FreshWires
  <1>3. outbox' = [outbox EXCEPT ![k] = Append(<<>>, [type |-> "auth"])] /\ streamed' = streamed
    BY <1>1, <1>2 DEF Opened, Put, hubVars
  <1>4. outbox'[k] = <<[type |-> "auth"]>> /\ \A j \in Sockets : j # k => outbox'[j] = outbox[j]
    BY <1>1, <1>3 DEF ConsoleTyped, OutTyped
  <1>5. Len(sock') = Len(sock) /\ sock'[k] = "open" /\ k <= Len(sock)
        /\ \A j \in Sockets : j # k => sock'[j] = sock[j]
    BY <1>1 DEF Opened, ConsoleTyped, ClientTyped, Existing
  <1>6. FreshWires'
    <2> SUFFICES ASSUME NEW j \in Sockets, j > Len(sock') \/ sock'[j] = "connecting"
                 PROVE  outbox'[j] = <<>> /\ streamed[j] = {}
      BY <1>3 DEF FreshWires
    <2>1. j # k
      BY <1>1, <1>5 DEF Existing
    <2> QED
      BY <1>4, <1>5, <2>1 DEF Agreement, FreshWires
  <1>7. OnlyAuth'
    <2>1. current' = k
      BY <1>1 DEF Opened
    <2> QED
      BY <1>2, <1>3, <1>4, <2>1 DEF OnlyAuth
  <1>8. WantsShown' /\ WillAgree'
    BY DEF Opened, hubVars, Agreement, WantsShown, WillAgree
  <1> QED
    BY <1>6, <1>7, <1>8 DEF Agreement

LEMMA ClosedAgreement ==
  ASSUME ConsoleTyped, OneSocket, Agreement, NEW k \in Existing, Closed(k)
  PROVE  Agreement'
  <1>1. k \in Sockets
    BY ExistingSockets
  <1>2. outbox' = [outbox EXCEPT ![k] = <<>>] /\ streamed' = [streamed EXCEPT ![k] = {}]
        /\ sock' = [sock EXCEPT ![k] = "closed"] /\ state' = "disconnected"
    BY DEF Closed, OnClose
  <1>3. Len(sock') = Len(sock) /\ \A j \in Sockets : j # k => sock'[j] = sock[j]
    BY <1>2 DEF ConsoleTyped, ClientTyped, Existing
  <1>4. outbox'[k] = <<>> /\ streamed'[k] = {}
        /\ \A j \in Sockets : j # k => outbox'[j] = outbox[j] /\ streamed'[j] = streamed[j]
    BY <1>1, <1>2 DEF ConsoleTyped, OutTyped, StreamTyped
  <1>5. FreshWires'
    BY <1>3, <1>4 DEF Agreement, FreshWires
  <1>6. WantsShown'
    BY DEF Closed, OnClose, Agreement, WantsShown
  <1> QED
    BY <1>2, <1>5, <1>6 DEF Agreement, OnlyAuth, WillAgree

LEMMA ReceiveAgreement ==
  ASSUME ConsoleTyped, OneSocket, Agreement, NEW k \in Existing, Receive(k)
  PROVE  Agreement'
  <1>1. k = current /\ state \in {"connected", "authenticated"} /\ UNCHANGED <<sock, current>>
    BY ReceiveOne
  <1>2. UNCHANGED <<streamed, wanted, server, known, active, container>>
    BY DEF Receive, hubVars
  <1>3. CASE state' = "authenticated" /\ SendAll(Resubscribed)
    <2>1. IsOpen(current) /\ current \in Existing /\ current \in Sockets /\ outbox[current] \in Seq(ClientMessage)
      BY <1>1, CurrentTyped
    <2>2. /\ Resubscribed \in Seq(ClientMessage)
          /\ \A i \in 1..Len(Resubscribed) : \E w \in wanted : Resubscribed[i] = Sub(w)
          /\ \A w \in wanted : \E i \in 1..Len(Resubscribed) : Resubscribed[i] = Sub(w)
      BY ResubscribedIs DEF ConsoleTyped, ClientTyped
    <2> DEFINE q == outbox[current]
    <2>3. \A s \in Servers : Will(s) => s \in wanted
      <3>1. CASE state = "connected"
        BY <3>1, AuthStreamsNothing DEF Agreement, OnlyAuth, Will
      <3>2. CASE state = "authenticated"
        BY <3>2 DEF Agreement, WillAgree
      <3> QED
        BY <1>1, <3>1, <3>2
    <2>4. ASSUME NEW s \in Servers
          PROVE  /\ WillStream(q \o Resubscribed, streamed[current], s) => s \in wanted
                 /\ s \in wanted => WillStream(q \o Resubscribed, streamed[current], s)
      <3>1. /\ WillStream(q \o Resubscribed, streamed[current], s) => s \in wanted \/ WillStream(q, streamed[current], s)
            /\ s \in wanted => WillStream(q \o Resubscribed, streamed[current], s)
        BY <2>1, <2>2, SubsStream
      <3> QED
        BY <2>3, <3>1 DEF Will
    <2>5. outbox' = [outbox EXCEPT ![current] = q \o Resubscribed]
      BY <1>3, <2>1 DEF SendAll
    <2>6. outbox'[current] = q \o Resubscribed /\ \A j \in Sockets : j # current => outbox'[j] = outbox[j]
      BY <2>1, <2>5 DEF ConsoleTyped, OutTyped
    <2> HIDE DEF q
    <2>7. FreshWires'
      <3> SUFFICES ASSUME NEW j \in Sockets, j > Len(sock) \/ sock[j] = "connecting"
                   PROVE  outbox'[j] = <<>> /\ streamed[j] = {}
        BY <1>1, <1>2 DEF FreshWires
      <3>1. j # current
        BY <2>1 DEF IsOpen, Existing
      <3> QED
        BY <2>6, <3>1 DEF Agreement, FreshWires
    <2>8. WantsShown'
      BY <1>2 DEF Agreement, WantsShown
    <2>9. server \in Servers /\ (active => server \in wanted)
      BY DEF Agreement, WantsShown, ConsoleTyped, PageTyped
    <2>10. WillAgree'
      BY <1>1, <1>2, <2>4, <2>6, <2>9 DEF WillAgree, Will
    <2> QED
      BY <1>3, <2>7, <2>8, <2>10 DEF Agreement, OnlyAuth
  <1>4. CASE UNCHANGED <<state, outbox>>
    BY <1>1, <1>2, <1>4, SameAgreement
  <1> QED
    BY <1>3, <1>4 DEF Receive

LEMMA HubAgreement ==
  ASSUME ConsoleTyped, OneSocket, Agreement, NEW k \in Existing, HubReceives(k)
  PROVE  Agreement'
  <1> DEFINE m == Head(outbox[k])
             T == Subscriptions(k, m)
  <1>1. k = current /\ state \in {"connected", "authenticated"} /\ sock[k] = "open"
    BY CurrentSocket DEF HubReceives, IsOpen, Live
  <1>2. k \in Sockets /\ outbox[k] \in Seq(ClientMessage) /\ outbox[k] # <<>> /\ m \in ClientMessage
    BY ExistingSockets DEF HubReceives, ConsoleTyped, OutTyped
  <1>3. outbox' = [outbox EXCEPT ![k] = Tail(outbox[k])] /\ streamed' = [streamed EXCEPT ![k] = T]
    BY DEF HubReceives
  <1>4. /\ outbox'[k] = Tail(outbox[k]) /\ streamed'[k] = T
        /\ \A j \in Sockets : j # k => outbox'[j] = outbox[j] /\ streamed'[j] = streamed[j]
    BY <1>2, <1>3 DEF ConsoleTyped, OutTyped, StreamTyped
  <1>5. UNCHANGED <<sock, current, state, wanted, server, known, active, container>>
    BY DEF HubReceives, clientVars, pageVars
  <1>6. FreshWires'
    <2> SUFFICES ASSUME NEW j \in Sockets, j > Len(sock) \/ sock[j] = "connecting"
                 PROVE  outbox'[j] = <<>> /\ streamed'[j] = {}
      BY <1>5 DEF FreshWires
    <2>1. j # k
      BY <1>1 DEF Existing
    <2> QED
      BY <1>4, <2>1 DEF Agreement, FreshWires
  <1>7. OnlyAuth'
    <2> SUFFICES ASSUME state = "connected"
                 PROVE  T = {} /\ \A i \in 1..Len(Tail(outbox[k])) : Tail(outbox[k])[i].type = "auth"
      BY <1>1, <1>4, <1>5 DEF OnlyAuth
    <2>1. streamed[k] = {} /\ \A i \in 1..Len(outbox[k]) : outbox[k][i].type = "auth"
      BY <1>1 DEF Agreement, OnlyAuth
    <2>2. m.type = "auth"
      BY <1>2, <2>1
    <2>3. ASSUME NEW i \in 1..Len(Tail(outbox[k])) PROVE Tail(outbox[k])[i].type = "auth"
      <3>1. i + 1 \in 1..Len(outbox[k]) /\ Tail(outbox[k])[i] = outbox[k][i + 1]
        BY <1>2
      <3> QED
        BY <2>1, <3>1
    <2>4. T = {}
      BY <2>1, <2>2 DEF Subscriptions
    <2> QED
      BY <2>3, <2>4
  <1>8. WillAgree'
    <2> SUFFICES ASSUME state = "authenticated"
                 PROVE  /\ \A s \in Servers : WillStream(Tail(outbox[k]), T, s) => s \in wanted
                        /\ active /\ known => WillStream(Tail(outbox[k]), T, server)
      BY <1>1, <1>4, <1>5 DEF WillAgree, Will
    <2>1. ASSUME NEW s \in Servers
          PROVE  /\ WillStream(Tail(outbox[k]), T, s) => WillStream(outbox[k], streamed[k], s)
                 /\ s \in container /\ WillStream(outbox[k], streamed[k], s) => WillStream(Tail(outbox[k]), T, s)
      <3>1. m = Sub(s) => T \in {streamed[k], streamed[k] \union {s}} /\ (s \in container => s \in T)
        BY <1>2, ClientMessages DEF Subscriptions
      <3>2. m = Unsub(s) => s \notin T
        BY <1>2, ClientMessages DEF Subscriptions
      <3>3. m # Sub(s) /\ m # Unsub(s) => (s \in T <=> s \in streamed[k])
        <4>1. CASE m.type = "subscribe"
          BY <1>2, <4>1, ClientMessages DEF Subscriptions
        <4>2. CASE m.type = "unsubscribe"
          BY <1>2, <4>2, ClientMessages DEF Subscriptions
        <4>3. CASE m.type \notin {"subscribe", "unsubscribe"}
          BY <4>3 DEF Subscriptions
        <4> QED
          BY <4>1, <4>2, <4>3
      <3> HIDE DEF T
      <3> QED
        BY <1>2, <3>1, <3>2, <3>3, ReadStreams
    <2> HIDE DEF T
    <2>2. ASSUME NEW s \in Servers, WillStream(Tail(outbox[k]), T, s) PROVE s \in wanted
      BY <1>1, <2>1, <2>2 DEF Agreement, WillAgree, Will
    <2>3. ASSUME active, known PROVE WillStream(Tail(outbox[k]), T, server)
      <3>1. server \in Servers /\ server \in container /\ WillStream(outbox[k], streamed[k], server)
        BY <1>1, <2>3 DEF Agreement, WantsShown, WillAgree, Will, ConsoleTyped, PageTyped
      <3> QED
        BY <2>1, <3>1
    <2> QED
      BY <2>2, <2>3
  <1>9. WantsShown'
    BY <1>5 DEF Agreement, WantsShown
  <1> QED
    BY <1>6, <1>7, <1>8, <1>9 DEF Agreement

LEMMA RetryAgreement ==
  ASSUME ConsoleTyped, OneSocket, Agreement, RetryTick
  PROVE  Agreement'
  <1>1. UNCHANGED <<outbox, streamed, wanted, server, known, active, container>>
    BY DEF RetryTick, wireVars, hubVars
  <1>2. WantsShown'
    BY <1>1 DEF Agreement, WantsShown
  <1>3. CASE Connects
    BY <1>1, <1>2, <1>3, NewAgreement DEF RetryTick, Connect
  <1>4. CASE ~Connects
    BY <1>1, <1>4, SameAgreement DEF RetryTick, Connect
  <1> QED
    BY <1>3, <1>4

LEMMA ReconnectAgreement ==
  ASSUME ConsoleTyped, Agreement, Reconnect
  PROVE  Agreement'
  <1>1. UNCHANGED <<outbox, streamed>> /\ WantsShown'
    BY DEF Reconnect, wireVars, hubVars, Agreement, WantsShown
  <1> QED
    BY <1>1, NewAgreement DEF Reconnect

\* What an authenticated client will be streamed after telling the hub about servers.
LEMMA ToldStreams ==
  ASSUME ConsoleTyped, OneSocket, Agreement, state = "authenticated", NEW r \in Servers, NEW s \in Servers
  PROVE  LET Then(ms) == WillStream(outbox[current] \o ms, streamed[current], s) IN
         /\ Then(<<Sub(r)>>) => s = r \/ s \in wanted
         /\ Then(<<Unsub(r)>>) => s \in wanted \ {r}
         /\ \A u \in Servers : Then(<<Unsub(r), Sub(u)>>) => s = u \/ s \in wanted \ {r}
  <1>1. outbox[current] \in Seq(ClientMessage) /\ (WillStream(outbox[current], streamed[current], s) => s \in wanted)
    BY CurrentTyped DEF Agreement, WillAgree, Will
  <1>2. Sub(r) \in ClientMessage /\ Unsub(r) \in ClientMessage /\ \A u \in Servers : Sub(u) \in ClientMessage
    BY SubTyped
  <1>3. Sub(r) # Unsub(s) /\ Unsub(r) # Sub(s) /\ (Sub(r) = Sub(s) => r = s) /\ (s = r => Unsub(r) = Unsub(s))
        /\ \A u \in Servers : Sub(u) = Sub(s) => u = s
    BY SubIsNoUnsub
  <1> QED
    BY <1>1, <1>2, <1>3, MoreStreams, TwoMoreStream

LEMMA ToldStreamed ==
  ASSUME ConsoleTyped, OneSocket, state = "authenticated", NEW r \in Servers, NEW s \in Servers
  PROVE  /\ WillStream(outbox[current] \o <<Sub(s)>>, streamed[current], s)
         /\ WillStream(outbox[current] \o <<Unsub(r), Sub(s)>>, streamed[current], s)
  <1>1. outbox[current] \in Seq(ClientMessage)
    BY CurrentTyped
  <1> QED
    BY <1>1, SubTyped, MoreStreams, TwoMoreStream

LEMMA OpenAgreement ==
  ASSUME ConsoleTyped, OneSocket, Agreement, OpenConsole
  PROVE  Agreement'
  <1>0. server \in Servers
    BY DEF ConsoleTyped, PageTyped
  <1>1. UNCHANGED <<streamed, server, known, container>> /\ wanted' = wanted \union {server}
    BY DEF OpenConsole, hubVars
  <1>2. WantsShown'
    BY <1>1 DEF Agreement, WantsShown
  <1>3. CASE state = "authenticated"
    <2>1. UNCHANGED <<sock, current, state>>
      BY <1>3, CurrentTyped DEF OpenConsole, Connect, Connects
    <2>2. <<Unsub(server), Sub(server)>> \in Seq(ClientMessage) /\ SendAll(<<Unsub(server), Sub(server)>>)
      BY <1>0, <1>3, TellingTyped DEF OpenConsole, Told
    <2> QED
      BY <1>0, <1>1, <1>2, <1>3, <2>1, <2>2, ToldStreams, ToldStreamed, TellingAgreement
  <1>4. CASE state # "authenticated"
    <2>1. UNCHANGED outbox
      BY <1>4 DEF OpenConsole, Told
    <2>2. CASE Connects
      BY <1>1, <1>2, <2>1, <2>2, NewAgreement DEF OpenConsole, Connect
    <2>3. CASE ~Connects
      BY <1>1, <1>2, <1>4, <2>1, <2>3, SilentAgreement DEF OpenConsole, Connect
    <2> QED
      BY <2>2, <2>3
  <1> QED
    BY <1>3, <1>4

LEMMA LeaveAgreement ==
  ASSUME ConsoleTyped, OneSocket, Agreement, LeaveConsole
  PROVE  Agreement'
  <1>0. server \in Servers
    BY DEF ConsoleTyped, PageTyped
  <1>1. UNCHANGED <<sock, current, state, streamed, server, known, container>> /\ wanted' = wanted \ {server} /\ ~active'
    BY DEF LeaveConsole, hubVars
  <1>2. WantsShown'
    BY <1>1 DEF Agreement, WantsShown
  <1>3. CASE state = "authenticated"
    <2>1. <<Unsub(server)>> \in Seq(ClientMessage) /\ SendAll(<<Unsub(server)>>)
      BY <1>0, <1>3, TellingTyped DEF LeaveConsole, Told
    <2> QED
      BY <1>0, <1>1, <1>2, <1>3, <2>1, ToldStreams, TellingAgreement
  <1>4. CASE state # "authenticated"
    BY <1>1, <1>2, <1>4, SilentAgreement DEF LeaveConsole, Told
  <1> QED
    BY <1>3, <1>4

LEMMA ChangeAgreement ==
  ASSUME ConsoleTyped, OneSocket, Agreement, NEW s \in Servers, ChangeServer(s)
  PROVE  Agreement'
  <1>0. server \in Servers
    BY DEF ConsoleTyped, PageTyped
  <1>1. /\ UNCHANGED <<sock, current, state, streamed, active, container>> /\ server' = s
        /\ wanted' = (wanted \ {server}) \union (IF active THEN {s} ELSE {})
    BY DEF ChangeServer, hubVars
  <1>2. known' = FALSE \/ known' = (s \in container)
    BY Zenon DEF ChangeServer
  <1>3. known' => s \in container
    BY <1>2, SeenIsBoolean
  <1>4. WantsShown'
    BY <1>1, <1>3 DEF WantsShown
  <1>5. CASE state = "authenticated" /\ active
    <2>1. <<Unsub(server), Sub(s)>> \in Seq(ClientMessage) /\ SendAll(<<Unsub(server), Sub(s)>>)
      BY <1>0, <1>5, TellingTyped DEF ChangeServer, Told
    <2> QED
      BY <1>0, <1>1, <1>4, <1>5, <2>1, ToldStreams, ToldStreamed, TellingAgreement
  <1>6. CASE state = "authenticated" /\ ~active
    <2>1. <<Unsub(server)>> \in Seq(ClientMessage) /\ SendAll(<<Unsub(server)>>)
      BY <1>0, <1>6, TellingTyped DEF ChangeServer, Told
    <2> QED
      BY <1>0, <1>1, <1>4, <1>6, <2>1, ToldStreams, TellingAgreement
  <1>7. CASE state # "authenticated"
    BY <1>1, <1>4, <1>7, SilentAgreement DEF ChangeServer, Told
  <1> QED
    BY <1>5, <1>6, <1>7

LEMMA SeenAgreement ==
  ASSUME ConsoleTyped, OneSocket, Agreement, ContainerSeen
  PROVE  Agreement'
  <1>0. server \in Servers
    BY DEF ConsoleTyped, PageTyped
  <1>1. UNCHANGED <<sock, current, state, streamed, server, active, container>> /\ wanted' = wanted \union {server}
    BY DEF ContainerSeen, hubVars
  <1>2. WantsShown'
    BY <1>1 DEF ContainerSeen, WantsShown
  <1>3. CASE state = "authenticated"
    <2>1. <<Sub(server)>> \in Seq(ClientMessage) /\ SendAll(<<Sub(server)>>)
      BY <1>0, <1>3, TellingTyped DEF ContainerSeen, Told
    <2> QED
      BY <1>0, <1>1, <1>2, <1>3, <2>1, ToldStreams, ToldStreamed, TellingAgreement
  <1>4. CASE state # "authenticated"
    BY <1>1, <1>2, <1>4, SilentAgreement DEF ContainerSeen, Told
  <1> QED
    BY <1>3, <1>4

LEMMA TailAgreement ==
  ASSUME ConsoleTyped, OneSocket, Agreement, ChangeTail
  PROVE  Agreement'
  <1>0. server \in Servers
    BY DEF ConsoleTyped, PageTyped
  <1>1. UNCHANGED <<sock, current, state, streamed, server, known, active, container>>
    BY DEF ChangeTail, hubVars
  <1>2. CASE state = "authenticated"
    <2>1. wanted' = wanted \union {server} /\ SendAll(<<Unsub(server), Sub(server)>>)
          /\ <<Unsub(server), Sub(server)>> \in Seq(ClientMessage)
      BY <1>0, <1>2, TellingTyped DEF ChangeTail
    <2>2. WantsShown'
      BY <1>1, <2>1 DEF Agreement, WantsShown
    <2> QED
      BY <1>0, <1>1, <1>2, <2>1, <2>2, ToldStreams, ToldStreamed, TellingAgreement
  <1>3. CASE state # "authenticated"
    BY <1>1, <1>3, SameAgreement DEF ChangeTail
  <1> QED
    BY <1>2, <1>3

LEMMA CommandAgreement ==
  ASSUME ConsoleTyped, OneSocket, Agreement, SendCommand
  PROVE  Agreement'
  <1> DEFINE m == [type |-> "command", server |-> server]
  <1>0. server \in Servers /\ m \in ClientMessage /\ <<m>> \in Seq(ClientMessage)
    BY DEF ConsoleTyped, PageTyped, ClientMessage
  <1>1. UNCHANGED <<sock, current, state, streamed, wanted, server, known, active, container>>
    BY DEF SendCommand, clientVars, hubVars
  <1>2. WantsShown'
    BY <1>1 DEF Agreement, WantsShown
  <1>3. CASE state = "authenticated"
    <2>1. SendAll(<<m>>)
      BY <1>3 DEF SendCommand
    <2>2. \A s : m # Sub(s) /\ m # Unsub(s)
      BY <1>0, ClientMessages
    <2>3. outbox[current] \in Seq(ClientMessage)
      BY <1>3, CurrentTyped
    <2> HIDE DEF m
    <2>4. \A s : WillStream(outbox[current] \o <<m>>, streamed[current], s) <=> Will(s)
      BY <1>0, <2>2, <2>3, MoreStreams DEF Will
    <2>5. /\ \A s \in Servers : WillStream(outbox[current] \o <<m>>, streamed[current], s) => s \in wanted'
          /\ active' /\ known' => WillStream(outbox[current] \o <<m>>, streamed[current], server')
      BY <1>1, <1>3, <2>4 DEF Agreement, WillAgree
    <2> QED
      BY <1>0, <1>1, <1>2, <1>3, <2>1, <2>5, TellingAgreement
  <1>4. CASE state # "authenticated"
    BY <1>1, <1>4, SameAgreement DEF SendCommand
  <1> QED
    BY <1>3, <1>4

LEMMA ConsoleStepsAgree == ConsoleTyped /\ OneSocket /\ Agreement /\ [ConsoleNext]_consoleVars => Agreement'
  <1> SUFFICES ASSUME ConsoleTyped, OneSocket, Agreement, [ConsoleNext]_consoleVars PROVE Agreement'
    OBVIOUS
  <1>1. ASSUME \/ FlushTick \/ PollTick \/ CommandReturns \/ SessionEnds \/ UNCHANGED consoleVars
               \/ \E f \in Fetch : FetchReturns(f)
               \/ \E s \in Servers : ContainerCreated(s)
               \/ \E k \in Existing : \E s \in Servers : HubLogs(k, s)
        PROVE Agreement'
    <2>1. UNCHANGED <<sock, current, state, outbox, streamed, wanted, server, known, active>>
          /\ container \subseteq container'
      BY <1>1 DEF FlushTick, PollTick, CommandReturns, SessionEnds, consoleVars, FetchReturns, ContainerCreated, HubLogs,
                  clientVars, wireVars, hubVars, pageVars
    <2> QED
      BY <2>1, SameAgreement
  <1> QED
    BY <1>1, OpenedAgreement, ClosedAgreement, ReceiveAgreement, HubAgreement, RetryAgreement, ReconnectAgreement,
       OpenAgreement, LeaveAgreement, ChangeAgreement, SeenAgreement, TailAgreement, CommandAgreement DEF ConsoleNext

-----------------------------------------------------------------------------
(* The console: theorems *)

LEMMA ConsoleStepsShow == ConsoleTyped /\ ShownBelongs /\ [ConsoleNext]_consoleVars => ShownBelongs'
  <1> SUFFICES ASSUME ShownBelongs, [ConsoleNext]_consoleVars PROVE ShownBelongs'
    OBVIOUS
  <1> USE DEF ShownBelongs
  <1>1. ASSUME NEW k \in Existing, Opened(k) \/ HubReceives(k) \/ \E s \in Servers : HubLogs(k, s) PROVE ShownBelongs'
    BY <1>1 DEF Opened, HubReceives, HubLogs, pageVars
  <1>2. ASSUME NEW k \in Existing, Closed(k) PROVE ShownBelongs'
    BY <1>2 DEF Closed, OnClose, Flush, Flushed
  <1>3. ASSUME NEW k \in Existing, Receive(k) PROVE ShownBelongs'
    BY <1>3 DEF Receive
  <1>4. ASSUME NEW f \in Fetch, FetchReturns(f) PROVE ShownBelongs'
    BY <1>4 DEF FetchReturns, Fetched
  <1>5. CASE FlushTick \/ Reconnect
    BY <1>5 DEF FlushTick, Reconnect, Cleanup, Flush, Flushed
  <1>6. ASSUME NEW s \in Servers, ChangeServer(s) PROVE ShownBelongs'
    BY <1>6 DEF ChangeServer
  <1>7. ASSUME \/ RetryTick \/ PollTick \/ CommandReturns \/ OpenConsole \/ LeaveConsole \/ ContainerSeen \/ ChangeTail
               \/ SendCommand \/ SessionEnds \/ UNCHANGED consoleVars \/ \E s \in Servers : ContainerCreated(s)
        PROVE ShownBelongs'
    BY <1>7 DEF RetryTick, PollTick, CommandReturns, OpenConsole, LeaveConsole, ContainerSeen, ChangeTail, SendCommand,
                SessionEnds, ContainerCreated, consoleVars, pageVars
  <1> QED
    BY <1>1, <1>2, <1>3, <1>4, <1>5, <1>6, <1>7 DEF ConsoleNext

LEMMA AgreementIsAgreed ==
  ASSUME ConsoleTyped, OneSocket, Agreement
  PROVE  SubscriptionsAgree
  <1> SUFFICES ASSUME state = "authenticated", outbox[current] = <<>>
               PROVE  streamed[current] \subseteq wanted /\ (active /\ known => server \in streamed[current])
    BY DEF SubscriptionsAgree
  <1>1. streamed[current] \subseteq Servers
    BY CurrentTyped
  <1>2. \A s : Will(s) <=> s \in streamed[current]
    BY QuietStreams DEF Will
  <1> QED
    BY <1>1, <1>2 DEF Agreement, WillAgree

ConsoleInv == ConsoleTyped /\ OneSocket /\ Agreement /\ ShownBelongs

LEMMA ConsoleInvariant == ConsoleSpec => []ConsoleInv
  <1>1. ConsoleInit => ConsoleInv
    <2>1. ConsoleInit => ShownBelongs
      BY DEF ConsoleInit, ShownBelongs
    <2> QED
      BY <2>1, ConsoleStartsTyped, ConsoleStartsOne, ConsoleStartsAgreed DEF ConsoleInv
  <1>2. ConsoleInv /\ [ConsoleNext]_consoleVars => ConsoleInv'
    BY ConsoleStepsTyped, ConsoleStepsOne, ConsoleStepsAgree, ConsoleStepsShow DEF ConsoleInv
  <1> QED
    BY <1>1, <1>2, PTL DEF ConsoleSpec

\* The console's state has its types, and no connection's queue outgrows the hub's send buffer.
THEOREM ConsoleIsTypeCorrect == ConsoleSpec => []ConsoleTypeOK
  <1>1. ConsoleInv => ConsoleTypeOK
    BY TypedIsTypeOK DEF ConsoleInv
  <1> QED
    BY <1>1, ConsoleInvariant, PTL

\* However the retry timer, the tab and the Reconnect button interleave with connections that come
\* up, fail and break, the tab never has two connections up or on their way.
THEOREM OneLiveSocketHolds == ConsoleSpec => []OneLiveSocket
  <1>1. ConsoleInv => OneLiveSocket
    BY OneSocketIsOneLive DEF ConsoleInv
  <1> QED
    BY <1>1, ConsoleInvariant, PTL

\* Whatever was subscribed, dropped or lost while messages were on their way, a quiet connection
\* streams the shown server and nothing the tab gave up, and the log shows no other server's line.
THEOREM ConsoleAgreesHolds == ConsoleSpec => []ConsoleAgrees
  <1>1. ConsoleInv => ConsoleAgrees
    BY AgreementIsAgreed DEF ConsoleInv, ConsoleAgrees
  <1> QED
    BY <1>1, ConsoleInvariant, PTL

=============================================================================
