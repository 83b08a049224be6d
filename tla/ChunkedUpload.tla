--------------------------- MODULE ChunkedUpload ---------------------------
(***************************************************************************)
(* Resumable uploads: the browser tabs that upload a file of one name and  *)
(* size (lib/utils/chunked-upload.ts and the pages that call it), the      *)
(* session record they share in localStorage, and the panel's upload       *)
(* manager (pkg/upload) with the call that saves a finished file.          *)
(*                                                                         *)
(* A file is a sequence of blocks; what a block holds is the version of    *)
(* the file it came from.  A call to the panel is one step, its answer     *)
(* included; a PUT is a stream the panel reads block by block, and goes on *)
(* reading for a while after its client has gone.                          *)
(***************************************************************************)
EXTENDS Integers

CONSTANTS
  Tabs,
  PageOf,       \* the page each tab uploads from
  Sessions,     \* the session ids InitSession may hand out
  Streams,      \* slots for the PUT requests the panel is reading
  Versions,     \* the contents of the files with that name and size
  N,            \* the size of the file, in blocks
  MaxUploads,   \* bound on uploads the users start
  MaxFaults     \* bound on lost connections, sessions that expire and records that age

None == 0

\* The pages: whether an upload can be cancelled, whether several files are taken one after
\* the other, and whether a failed save leaves the session for another try.
ServerFiles == [cancellable |-> TRUE, many |-> TRUE, keeps |-> TRUE]
ServerMods == [cancellable |-> TRUE, many |-> TRUE, keeps |-> TRUE]
Modpacks == [cancellable |-> TRUE, many |-> FALSE, keeps |-> FALSE]
ServerDatapacks == [cancellable |-> FALSE, many |-> FALSE, keeps |-> FALSE]
StudioDatapacks == [cancellable |-> FALSE, many |-> FALSE, keeps |-> FALSE]
Pages == {ServerFiles, ServerMods, Modpacks, ServerDatapacks, StudioDatapacks}

ASSUME UploadAssumption ==
  /\ PageOf \in [Tabs -> Pages]
  /\ N \in Nat \ {0} /\ MaxUploads \in Nat /\ MaxFaults \in Nat
  /\ None \notin Versions /\ None \notin Sessions /\ None \notin Tabs

VARIABLES
  record,     \* the session localStorage names for the file, or None
  pc,         \* what each tab waits for
  chosen,     \* the version each tab uploads
  session,    \* sessionId
  offset,
  aborted,    \* the tabs whose abort signal is set before there was a PUT to abort
  sess,       \* the manager's sessions
  received,   \* BytesReceived
  block,      \* the content of each session's temporary file
  temp,       \* the sessions whose temporary file exists
  stream,     \* the PUT requests
  cancels,    \* CancelUpload calls on their way
  saved,      \* the files saved: by whom, from which session, what
  uploads, faults

tabVars == <<pc, chosen, session, offset, aborted>>
panelVars == <<sess, received, block, temp>>
uploadVars == <<record, tabVars, panelVars, stream, cancels, saved, uploads, faults>>

Blocks == 1..N
Offsets == 0..N
Content == [Blocks -> Versions \union {None}]
Free == [at |-> "free", session |-> None, pos |-> 0, version |-> None, tab |-> None]
Stream == {Free} \union [at: {"waiting", "writing"}, session: Sessions, pos: Offsets, version: Versions,
                          tab: Tabs \union {None}]
File == [tab: Tabs, session: Sessions, chosen: Versions, content: Content]

UploadInit ==
  /\ record = None
  /\ pc = [t \in Tabs |-> "idle"] /\ chosen \in [Tabs -> Versions]
  /\ session = [t \in Tabs |-> None] /\ offset = [t \in Tabs |-> 0] /\ aborted = {}
  /\ sess = [s \in Sessions |-> "unborn"] /\ received = [s \in Sessions |-> 0]
  /\ block = [s \in Sessions |-> [b \in Blocks |-> None]] /\ temp = {}
  /\ stream = [p \in Streams |-> Free] /\ cancels = {} /\ saved = {}
  /\ uploads = 0 /\ faults = 0

Goto(t, where) == pc' = [pc EXCEPT ![t] = where] /\ UNCHANGED <<session, offset, aborted>>
\* An upload settles, and its local variables are gone.
Settle(t) ==
  /\ pc' = [pc EXCEPT ![t] = "idle"] /\ session' = [session EXCEPT ![t] = None]
  /\ offset' = [offset EXCEPT ![t] = 0] /\ aborted' = aborted \ {t}
Fault == faults < MaxFaults /\ faults' = faults + 1
Exists(s) == sess[s] \in {"open", "completed"}

-----------------------------------------------------------------------------
(* uploadFile, one tab *)

\* The user picks a file; a record of that name and size is taken up.
Start(t) ==
  /\ pc[t] = "idle" /\ uploads < MaxUploads /\ uploads' = uploads + 1
  /\ \E v \in Versions : chosen' = [chosen EXCEPT ![t] = v]
  /\ session' = [session EXCEPT ![t] = record]
  /\ pc' = [pc EXCEPT ![t] = IF record = None THEN "init" ELSE "status"]
  /\ UNCHANGED <<record, offset, aborted, panelVars, stream, cancels, saved, faults>>

\* Mutant: the upload goes on behind the first block that is missing.
ResumeAt_OffByOne(s) == IF received[s] < N THEN received[s] + 1 ELSE N

\* getUploadStatus: where to go on.
ResumeAt(s) == received[s]

\* The status of a session: complete, resumable, or (any error) one to replace.
Status(t) ==
  /\ pc[t] = "status"
  /\ LET s == session[t] IN
     \/ /\ sess[s] = "completed" /\ pc' = [pc EXCEPT ![t] = "save"] /\ record' = None
        /\ UNCHANGED <<session, offset, faults>>
     \/ /\ sess[s] = "open" /\ pc' = [pc EXCEPT ![t] = "put"]
        /\ offset' = [offset EXCEPT ![t] = ResumeAt(s)] /\ UNCHANGED <<session, record, faults>>
     \/ /\ (~Exists(s) /\ UNCHANGED faults) \/ Fault
        /\ pc' = [pc EXCEPT ![t] = "init"] /\ session' = [session EXCEPT ![t] = None]
        /\ UNCHANGED <<offset, record>>
  /\ UNCHANGED <<chosen, aborted, panelVars, stream, cancels, saved, uploads>>

\* A fresh id.
Unborn == CHOOSE s \in Sessions : sess[s] = "unborn"

\* initUpload: a new session, recorded in localStorage; or an error, which ends the upload.
InitUpload(t) ==
  /\ pc[t] = "init"
  /\ \/ \E s \in Sessions :
          /\ sess[s] = "unborn" /\ s = Unborn /\ sess' = [sess EXCEPT ![s] = "open"] /\ temp' = temp \union {s}
          /\ session' = [session EXCEPT ![t] = s] /\ record' = s
          /\ pc' = [pc EXCEPT ![t] = "put"] /\ UNCHANGED <<offset, aborted, faults>>
     \/ Fault /\ Settle(t) /\ UNCHANGED <<sess, temp, record>>
  /\ UNCHANGED <<chosen, received, block, stream, cancels, saved, uploads>>

Idle == CHOOSE p \in Streams : stream[p].at = "free"

\* streamUpload: the request is sent, to a session the manager knows; a request aborted
\* before it is sent raises no event, and the promise is never settled.
Put(t) ==
  /\ pc[t] = "put"
  /\ \/ t \in aborted /\ Goto(t, "hung") /\ UNCHANGED stream
     \/ t \notin aborted /\ ~Exists(session[t]) /\ Settle(t) /\ UNCHANGED stream
     \/ /\ t \notin aborted /\ Exists(session[t]) /\ Goto(t, "putting")
        /\ \E p \in Streams :
             /\ stream[p].at = "free" /\ p = Idle
             /\ stream' = [stream EXCEPT ![p] = [at |-> "waiting", session |-> session[t], pos |-> offset[t],
                                                version |-> chosen[t], tab |-> t]]
  /\ UNCHANGED <<record, chosen, panelVars, cancels, saved, uploads, faults>>

\* The connection breaks, or the user aborts it: the upload fails; the panel reads on.
Orphaned(t) == [p \in Streams |-> IF stream[p].tab = t THEN [stream[p] EXCEPT !.tab = None] ELSE stream[p]]

LoseConnection(t) ==
  /\ pc[t] = "putting" /\ Fault /\ Settle(t) /\ stream' = Orphaned(t)
  /\ UNCHANGED <<record, chosen, panelVars, cancels, saved, uploads>>

\* cancelCurrentUpload: abort, and a CancelUpload for the session that progress was
\* reported for; nobody waits for its answer.
Cancel(t) ==
  /\ pc[t] \in {"status", "init", "put", "putting", "save", "moving"} /\ t \notin aborted
  /\ PageOf[t].cancellable
  /\ cancels' = IF pc[t] \in {"status", "init"} THEN cancels ELSE cancels \union {session[t]}
  /\ IF pc[t] = "putting" THEN Settle(t) /\ stream' = Orphaned(t)
     ELSE aborted' = aborted \union {t} /\ UNCHANGED <<pc, session, offset, stream>>
  /\ UNCHANGED <<record, chosen, panelVars, saved, uploads, faults>>

\* saveUploadedFile, up to GetTempPath: only a completed session has a file to save.
Save(t) ==
  /\ pc[t] = "save"
  /\ IF sess[session[t]] = "completed" THEN Goto(t, "moving") ELSE Settle(t)
  /\ UNCHANGED <<record, chosen, panelVars, stream, cancels, saved, uploads, faults>>

\* The save is answered: the page is done, or (several files were picked) takes the next one,
\* under the same abort signal.
NextFile(t) ==
  \/ Settle(t) /\ UNCHANGED <<chosen, uploads>>
  \/ /\ PageOf[t].many /\ uploads < MaxUploads /\ uploads' = uploads + 1
     /\ \E v \in Versions : chosen' = [chosen EXCEPT ![t] = v]
     /\ session' = [session EXCEPT ![t] = record] /\ offset' = [offset EXCEPT ![t] = 0]
     /\ pc' = [pc EXCEPT ![t] = IF record = None THEN "init" ELSE "status"] /\ UNCHANGED aborted

SavedBy(t) == [tab |-> t, session |-> session[t], chosen |-> chosen[t], content |-> block[session[t]]]

\* Mutant: the file is copied, and the session kept for another try.
Move_Copies(t) ==
  /\ pc[t] = "moving" /\ session[t] \in temp /\ saved' = saved \union {SavedBy(t)} /\ NextFile(t)
  /\ UNCHANGED <<record, panelVars, stream, cancels, faults>>

\* Its rename (or copy) and CleanupSession.
Move(t) ==
  /\ pc[t] = "moving" /\ session[t] \in temp
  /\ saved' = saved \union {SavedBy(t)}
  /\ temp' = temp \ {session[t]} /\ sess' = [sess EXCEPT ![session[t]] = "gone"]
  /\ NextFile(t)
  /\ UNCHANGED <<record, received, block, stream, cancels, faults>>

\* Mutant: the session is forgotten and its file is left behind.
Drop_KeepsFile(s) == sess' = (IF Exists(s) THEN [sess EXCEPT ![s] = "gone"] ELSE sess) /\ temp' = temp

\* Cancel and cleanupSession: the session, its open file and its temporary file.
Drop(s) ==
  /\ sess' = IF Exists(s) THEN [sess EXCEPT ![s] = "gone"] ELSE sess
  /\ temp' = temp \ {s}

\* The save fails: the temporary file has gone meanwhile, or the panel refuses the file.
MoveFails(t) ==
  /\ pc[t] = "moving" /\ ((session[t] \notin temp /\ UNCHANGED faults) \/ Fault)
  /\ Settle(t)
  /\ IF PageOf[t].keeps THEN UNCHANGED <<sess, temp>> ELSE Drop(session[t])
  /\ UNCHANGED <<record, chosen, received, block, stream, cancels, saved, uploads>>

-----------------------------------------------------------------------------
(* The panel *)

\* WriteStream waits for the session's other streams; then the session must be open.
StreamBegins(p) ==
  /\ stream[p].at = "waiting"
  /\ ~\E q \in Streams : stream[q].at = "writing" /\ stream[q].session = stream[p].session
  /\ sess[stream[p].session] = "open"
  /\ stream' = [stream EXCEPT ![p].at = "writing"]
  /\ UNCHANGED <<record, tabVars, panelVars, cancels, saved, uploads, faults>>

\* One block: written at its place, then counted.
StreamWrites(p) ==
  LET s == stream[p].session  pos == stream[p].pos IN
  /\ stream[p].at = "writing" /\ pos < N /\ sess[s] = "open"
  /\ block' = [block EXCEPT ![s][pos + 1] = stream[p].version]
  /\ received' = [received EXCEPT ![s] = pos + 1]
  /\ stream' = [stream EXCEPT ![p].pos = pos + 1]
  /\ UNCHANGED <<record, tabVars, sess, temp, cancels, saved, uploads, faults>>

\* The end of the body: the session is completed, the tab forgets its record and goes on to save.
StreamEnds(p) ==
  LET s == stream[p].session IN
  /\ stream[p].at = "writing" /\ stream[p].pos = N
  /\ sess' = IF sess[s] = "open" THEN [sess EXCEPT ![s] = "completed"] ELSE sess
  /\ IF stream[p].tab = None THEN UNCHANGED <<tabVars, record>>
     ELSE Goto(stream[p].tab, "save") /\ record' = None /\ UNCHANGED chosen
  /\ stream' = [stream EXCEPT ![p] = Free]
  /\ UNCHANGED <<received, block, temp, cancels, saved, uploads, faults>>

\* Mutant: a stream that waited does not ask whether its session is still open.
StreamFails_NotWaiting(p) ==
  /\ stream[p].at = "writing" /\ (sess[stream[p].session] # "open" \/ stream[p].tab = None)
  /\ IF stream[p].tab = None THEN UNCHANGED tabVars ELSE Settle(stream[p].tab) /\ UNCHANGED chosen
  /\ stream' = [stream EXCEPT ![p] = Free]
  /\ UNCHANGED <<record, panelVars, cancels, saved, uploads, faults>>

\* A stream fails: its session was completed or closed meanwhile, or its client has gone.
StreamFails(p) ==
  /\ \/ stream[p].at = "waiting" /\ sess[stream[p].session] # "open"
        /\ ~\E q \in Streams : stream[q].at = "writing" /\ stream[q].session = stream[p].session
     \/ stream[p].at = "writing" /\ (sess[stream[p].session] # "open" \/ stream[p].tab = None)
  /\ IF stream[p].tab = None THEN UNCHANGED tabVars ELSE Settle(stream[p].tab) /\ UNCHANGED chosen
  /\ stream' = [stream EXCEPT ![p] = Free]
  /\ UNCHANGED <<record, panelVars, cancels, saved, uploads, faults>>

CancelUpload(s) ==
  /\ s \in cancels /\ cancels' = cancels \ {s} /\ Drop(s)
  /\ UNCHANGED <<record, tabVars, received, block, stream, saved, uploads, faults>>

\* A session outlives its time, or the panel restarts.
Expire(s) ==
  /\ Exists(s) /\ Fault /\ Drop(s)
  /\ UNCHANGED <<record, tabVars, received, block, stream, cancels, saved, uploads>>

\* The record is older than four hours.
RecordAges ==
  /\ record # None /\ Fault /\ record' = None
  /\ UNCHANGED <<tabVars, panelVars, stream, cancels, saved, uploads>>

-----------------------------------------------------------------------------
TabStep(t) ==
  Status(t) \/ InitUpload(t) \/ Put(t) \/ Save(t) \/ Move(t) \/ MoveFails(t)
StreamStep(p) == StreamBegins(p) \/ StreamWrites(p) \/ StreamEnds(p) \/ StreamFails(p)

UploadNext ==
  \/ \E t \in Tabs : Start(t) \/ LoseConnection(t) \/ Cancel(t) \/ TabStep(t)
  \/ \E p \in Streams : StreamStep(p)
  \/ \E s \in Sessions : CancelUpload(s) \/ Expire(s)
  \/ RecordAges

\* Calls are answered and the panel reads its requests to their end.
UploadFairness ==
  /\ \A t \in Tabs : WF_uploadVars(TabStep(t))
  /\ \A p \in Streams : WF_uploadVars(StreamStep(p))

UploadSpec == UploadInit /\ [][UploadNext]_uploadVars /\ UploadFairness

-----------------------------------------------------------------------------
UploadTypeOK ==
  /\ record \in Sessions \union {None}
  /\ pc \in [Tabs -> {"idle", "status", "init", "put", "putting", "save", "moving", "hung"}]
  /\ chosen \in [Tabs -> Versions] /\ session \in [Tabs -> Sessions \union {None}]
  /\ offset \in [Tabs -> Offsets] /\ aborted \subseteq Tabs
  /\ sess \in [Sessions -> {"unborn", "open", "completed", "gone"}]
  /\ received \in [Sessions -> Offsets] /\ block \in [Sessions -> Content] /\ temp \subseteq Sessions
  /\ stream \in [Streams -> Stream] /\ cancels \subseteq Sessions /\ saved \subseteq File
  /\ uploads \in Nat /\ faults \in Nat

Whole(content) == \A b \in Blocks : content[b] # None

\* A file the panel saves has no hole: every block was sent by some upload, whatever was
\* interrupted, resumed from an older offset, shared by two tabs or cancelled on the way.
SavedIsWhole == \A f \in saved : Whole(f.content)

\* Tabs that share a session save its file once.
SavedOnce == \A f, g \in saved : f.session = g.session => f = g

\* A temporary file belongs to a session that will be saved, cancelled or expire: none is
\* left behind.
NoFileLeftBehind == \A s \in temp : Exists(s)

\* What was received counts from the start of the file, so an upload that resumes there
\* leaves nothing out.
ReceivedIsWritten == \A s \in Sessions : \A b \in 1..received[s] : block[s][b] # None

\* An upload ends, saved or failed, unless the user cancelled it before its PUT was sent.
UploadEnds == \A t \in Tabs : pc[t] \notin {"idle", "hung"} ~> (pc[t] = "idle" \/ t \in aborted)

============================================================================
