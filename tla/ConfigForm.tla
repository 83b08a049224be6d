------------------------------ MODULE ConfigForm ------------------------------
(***************************************************************************)
(* The configuration tab of a server (lib/components/                      *)
(* server-configuration.svelte): a form that is loaded, edited, and saved  *)
(* at once or staged for the server's next batch of updates, and the       *)
(* items of that batch.  A configuration is one value, known by the edit   *)
(* it comes from.  The page keeps the tab when it moves to another server. *)
(***************************************************************************)
EXTENDS Integers

CONSTANTS
  Hosts,        \* the servers
  MaxChanges,   \* bound on the user's edits, which are numbered
  MaxVisits,    \* bound on moves between servers
  MaxLapses     \* bound on calls that fail

ASSUME ConfigAssumption ==
  /\ Hosts \subseteq Nat \ {0} /\ Hosts # {}
  /\ MaxChanges \in Nat /\ MaxVisits \in Nat /\ MaxLapses \in Nat

VARIABLES
  host,                  \* the server whose page is shown
  form,                  \* whose configuration the form holds, the value it has for saved, and the value typed
  batch,                 \* the staged items shown
  loadingForm, savingForm,
  config, staged,        \* the panel's: a value and a set of items for every server
  sent,                  \* the calls under way
  excused,               \* why the form may be another server's: a load that failed, a save that was late
  changes, visits, lapses

configVars == <<host, form, batch, loadingForm, savingForm, config, staged, sent, excused, changes, visits, lapses>>

Anyone == 0
Blank == [of |-> Anyone, original |-> 0, current |-> 0]
Hold == [ask |-> "nothing", of |-> Anyone, value |-> 0, answer |-> "none", items |-> {}]
Lines == {"form1", "form2", "batch1", "batch2", "save", "discard"}
Asking(what, s) == [Hold EXCEPT !.ask = what, !.of = s]

ConfigInit ==
  /\ host = (CHOOSE s \in Hosts : TRUE) /\ form = Blank /\ batch = {} /\ loadingForm = TRUE /\ savingForm = FALSE
  /\ config = [s \in Hosts |-> 0] /\ staged = [s \in Hosts |-> {}] /\ excused = FALSE
  /\ sent = [l \in Lines |-> IF l = "form1" THEN Asking("config", host)
                             ELSE IF l = "batch1" THEN Asking("batch", host) ELSE Hold]
  /\ changes = 0 /\ visits = 0 /\ lapses = 0

-----------------------------------------------------------------------------
(* The panel: internal/rpc/services/config.go, as the tab uses it *)

HandleConfig(l) ==
  LET c == sent[l] IN
  /\ c.ask # "nothing" /\ c.answer = "none"
  /\ \/ /\ config' = IF c.ask = "update" THEN [config EXCEPT ![c.of] = c.value] ELSE config
        /\ staged' = CASE c.ask = "stage"   -> [staged EXCEPT ![c.of] = @ \union {c.value}]
                       [] c.ask = "discard" -> [staged EXCEPT ![c.of] = @ \ {c.value}]
                       [] OTHER             -> staged
        /\ sent' = [sent EXCEPT ![l].answer = "ok", ![l].items = staged[c.of],
                                ![l].value = IF c.ask = "discard" THEN 0 ELSE config'[c.of]]
        /\ UNCHANGED lapses
     \/ /\ lapses < MaxLapses /\ lapses' = lapses + 1
        /\ sent' = [sent EXCEPT ![l].answer = "failed"] /\ UNCHANGED <<config, staged>>
  /\ UNCHANGED <<host, form, batch, loadingForm, savingForm, excused, changes, visits>>

-----------------------------------------------------------------------------
(* Loading *)

ProcessConfig(s, value) == form' = [of |-> s, original |-> value, current |-> value]

\* Mutant: the answer is used for whichever server is shown.
IsFor_Anyone(c) == TRUE

\* if (server?.id !== requestedId) return
IsFor(c) == host = c.of

FormArrives(l) ==
  LET c == sent[l] IN
  /\ c.ask = "config" /\ c.answer # "none" /\ sent' = [sent EXCEPT ![l] = Hold]
  /\ IF IsFor(c) /\ c.answer = "ok" THEN ProcessConfig(c.of, c.value) ELSE UNCHANGED form
  /\ loadingForm' = (loadingForm /\ ~IsFor(c))
  /\ excused' = IF IsFor(c) /\ host = c.of THEN c.answer = "failed" ELSE excused
  /\ UNCHANGED <<host, batch, savingForm, config, staged, changes, visits, lapses>>

\* loadBatch: whatever server its answer is about.  A save ends with it.
StagedArrives(l) ==
  LET c == sent[l] IN
  /\ c.ask = "batch" /\ c.answer # "none" /\ sent' = [sent EXCEPT ![l] = Hold]
  /\ batch' = IF c.answer = "ok" THEN c.items ELSE batch
  /\ savingForm' = (savingForm /\ l # "save")
  /\ UNCHANGED <<host, form, loadingForm, config, staged, excused, changes, visits, lapses>>

\* The page shows another server; what was typed is forgotten when its configuration is there.
VisitServer(s) ==
  /\ s # host /\ host' = s /\ visits < MaxVisits /\ visits' = visits + 1 /\ loadingForm' = TRUE
  /\ \E f \in {"form1", "form2"}, b \in {"batch1", "batch2"} :
       /\ sent[f] = Hold /\ sent[b] = Hold
       /\ sent' = [sent EXCEPT ![f] = Asking("config", s), ![b] = Asking("batch", s)]
  /\ UNCHANGED <<form, batch, savingForm, config, staged, excused, changes, lapses>>

-----------------------------------------------------------------------------
(* Actions of the user *)

HasChanges == form.current # form.original

TypeValue ==
  /\ ~loadingForm /\ form.of # Anyone /\ changes < MaxChanges /\ changes' = changes + 1
  /\ form' = [form EXCEPT !.current = changes']
  /\ UNCHANGED <<host, batch, loadingForm, savingForm, config, staged, sent, excused, visits, lapses>>

HandleReset ==
  /\ ~loadingForm /\ HasChanges /\ form' = [form EXCEPT !.current = form.original]
  /\ UNCHANGED <<host, batch, loadingForm, savingForm, config, staged, sent, excused, changes, visits, lapses>>

\* handleSave, at once or staged.
HandleSave(stage) ==
  /\ ~loadingForm /\ HasChanges /\ ~savingForm /\ savingForm' = TRUE
  /\ sent' = [sent EXCEPT !["save"] = [Asking(IF stage THEN "stage" ELSE "update", host) EXCEPT !.value = form.current]]
  /\ UNCHANGED <<host, form, batch, loadingForm, config, staged, excused, changes, visits, lapses>>

\* The form becomes what was saved, also under another server's name by now; the batch is that one's.
SaveAnswers ==
  LET c == sent["save"] IN
  /\ c.ask \in {"stage", "update"} /\ c.answer # "none"
  /\ IF c.answer = "ok"
     THEN ProcessConfig(c.of, c.value) /\ sent' = [sent EXCEPT !["save"] = Asking("batch", host)] /\ UNCHANGED savingForm
     ELSE sent' = [sent EXCEPT !["save"] = Hold] /\ savingForm' = FALSE /\ UNCHANGED form
  /\ excused' = (excused \/ (c.answer = "ok" /\ c.of # host))
  /\ UNCHANGED <<host, batch, loadingForm, config, staged, changes, visits, lapses>>

DiscardStaged(item) ==
  /\ ~loadingForm /\ item \in batch /\ sent["discard"] = Hold
  /\ sent' = [sent EXCEPT !["discard"] = [Asking("discard", host) EXCEPT !.value = item]]
  /\ UNCHANGED <<host, form, batch, loadingForm, savingForm, config, staged, excused, changes, visits, lapses>>

DiscardAnswers ==
  LET c == sent["discard"] IN
  /\ c.ask = "discard" /\ c.answer # "none"
  /\ sent' = [sent EXCEPT !["discard"] = IF c.answer = "ok" THEN Asking("batch", host) ELSE Hold]
  /\ UNCHANGED <<host, form, batch, loadingForm, savingForm, config, staged, excused, changes, visits, lapses>>

-----------------------------------------------------------------------------
AnswersConfig(l) ==
  \/ HandleConfig(l) \/ FormArrives(l) \/ StagedArrives(l)
  \/ (l = "save" /\ SaveAnswers) \/ (l = "discard" /\ DiscardAnswers)

ConfigNext ==
  \/ TypeValue \/ HandleReset
  \/ \E l \in Lines : AnswersConfig(l)
  \/ \E s \in Hosts : VisitServer(s)
  \/ \E stage \in BOOLEAN : HandleSave(stage)
  \/ \E item \in 1 .. MaxChanges : DiscardStaged(item)

\* While calls are under way, one is answered or its answer arrives.
ConfigFairness == WF_configVars(\E l \in Lines : AnswersConfig(l))

ConfigSpec == ConfigInit /\ [][ConfigNext]_configVars /\ ConfigFairness

-----------------------------------------------------------------------------
Values == 0 .. MaxChanges
ConfigCalls ==
  {Hold} \union [ask: {"config", "batch", "update", "stage", "discard"}, of: Hosts, value: Values,
                 answer: {"none", "ok", "failed"}, items: SUBSET Values]

ConfigTypeOK ==
  /\ host \in Hosts /\ form \in [of: Hosts \union {Anyone}, original: Values, current: Values]
  /\ loadingForm \in BOOLEAN /\ savingForm \in BOOLEAN /\ excused \in BOOLEAN /\ batch \subseteq Values
  /\ config \in [Hosts -> Values] /\ staged \in [Hosts -> SUBSET Values]
  /\ sent \in [Lines -> ConfigCalls] /\ changes \in Values

\* The form that can be edited is the one of the server shown: an answer for another server does not
\* get into it, but for the two cases that the code lets through, a load that failed and the answer
\* of a save that comes after the move.
FormIsOfServer == ~loadingForm /\ ~excused => form.of = host

\* The form cannot be used while it is loaded or saved.
ConfigWaits == loadingForm \/ savingForm
=============================================================================
