--------------------------- MODULE ChunkedUploadProofs ---------------------------
(***************************************************************************)
(* Theorems about resumable uploads, for any number of tabs, sessions,     *)
(* streams, versions of a file and blocks.  The invariant UploadInv says   *)
(* which blocks of a session's file must have been written, given what the *)
(* tabs and the panel's streams still count on.                            *)
(***************************************************************************)
EXTENDS ChunkedUpload, TLAPS

\* The type of the state, in three parts.
TabTypes ==
  /\ pc \in [Tabs -> {"idle", "status", "init", "put", "putting", "save", "moving", "hung"}]
  /\ chosen \in [Tabs -> Versions] /\ session \in [Tabs -> Sessions \union {None}]
  /\ offset \in [Tabs -> Offsets] /\ aborted \subseteq Tabs
PanelTypes ==
  /\ sess \in [Sessions -> {"unborn", "open", "completed", "gone"}]
  /\ received \in [Sessions -> Offsets] /\ block \in [Sessions -> Content] /\ temp \subseteq Sessions
OtherTypes ==
  /\ record \in Sessions \union {None} /\ stream \in [Streams -> Stream]
  /\ cancels \subseteq Sessions /\ saved \subseteq File /\ uploads \in Nat /\ faults \in Nat

\* A tab that works with a session has one, a tab that has none yet starts at the beginning, and the
\* request of a tab is the only one it waits for.
TabsOK ==
  /\ \A t \in Tabs : pc[t] \in {"status", "put", "putting", "save", "moving", "hung"} => session[t] \in Sessions
  /\ \A t \in Tabs : pc[t] \in {"idle", "status", "init"} => offset[t] = 0
  /\ \A p \in Streams : stream[p].tab # None => pc[stream[p].tab] = "putting"
  /\ \A p, q \in Streams : stream[p].tab # None /\ stream[p].tab = stream[q].tab => p = q

\* The blocks of a session up to an offset are there.
Written(s, upTo) == \A b \in 1 .. upTo : block[s][b] # None

\* What is counted as received, what a tab or a stream goes on behind, and what is to be saved.
WrittenOK ==
  /\ \A s \in Sessions : Written(s, received[s])
  /\ \A t \in Tabs : session[t] \in Sessions => Written(session[t], offset[t])
  /\ \A p \in Streams : stream[p].at # "free" => Written(stream[p].session, stream[p].pos)
  /\ \A s \in Sessions : sess[s] = "completed" => Written(s, N)
  /\ \A t \in Tabs : pc[t] = "moving" => Written(session[t], N)

\* A session that was saved is gone, and so is its temporary file.
SavedOK == \A f \in saved : f.session \notin temp /\ sess[f.session] = "gone"

-----------------------------------------------------------------------------
(* Types *)

LEMMA UploadStarts ==
  UploadInit => UploadTypeOK /\ TabsOK /\ WrittenOK /\ SavedOK /\ SavedIsWhole /\ SavedOnce /\ NoFileLeftBehind
  <1> SUFFICES ASSUME UploadInit
               PROVE UploadTypeOK /\ TabsOK /\ WrittenOK /\ SavedOK /\ SavedIsWhole /\ SavedOnce /\ NoFileLeftBehind
    OBVIOUS
  <1>1. 0 \in Offsets /\ N \in Nat
    BY UploadAssumption DEF Offsets
  <1>2. [b \in Blocks |-> None] \in Content
    BY DEF Content
  <1>3. UploadTypeOK
    BY <1>1, <1>2 DEF UploadInit, UploadTypeOK, Stream
  <1>4. TabsOK /\ SavedOK /\ SavedIsWhole /\ SavedOnce /\ NoFileLeftBehind
    BY UploadAssumption DEF UploadInit, TabsOK, SavedOK, SavedIsWhole, SavedOnce, NoFileLeftBehind, Free
  <1>5. WrittenOK
    BY UploadAssumption DEF UploadInit, WrittenOK, Written, Free, None
  <1> QED
    BY <1>3, <1>4, <1>5

LEMMA TypeParts == UploadTypeOK <=> TabTypes /\ PanelTypes /\ OtherTypes
  BY DEF UploadTypeOK, TabTypes, PanelTypes, OtherTypes

LEMMA Settles ==
  ASSUME TabTypes, NEW t \in Tabs, Settle(t)
  PROVE  /\ pc' = [pc EXCEPT ![t] = "idle"] /\ session' = [session EXCEPT ![t] = None] /\ offset' = [offset EXCEPT ![t] = 0]
         /\ pc' \in [Tabs -> {"idle", "status", "init", "put", "putting", "save", "moving", "hung"}]
         /\ session' \in [Tabs -> Sessions \union {None}] /\ offset' \in [Tabs -> Offsets] /\ aborted' \subseteq Tabs
  BY UploadAssumption DEF Settle, TabTypes, Offsets

LEMMA ActiveStream ==
  ASSUME OtherTypes, NEW p \in Streams, stream[p].at # "free"
  PROVE  /\ stream[p] \in [at: {"waiting", "writing"}, session: Sessions, pos: Offsets, version: Versions,
                            tab: Tabs \union {None}]
         /\ stream[p].session \in Sessions /\ stream[p].pos \in Offsets /\ stream[p].version \in Versions
         /\ stream[p].tab \in Tabs \union {None}
  BY DEF OtherTypes, Stream, Free

LEMMA Orphans ==
  ASSUME OtherTypes, NEW t \in Tabs
  PROVE  Orphaned(t) \in [Streams -> Stream]
  <1>1. ASSUME NEW p \in Streams, stream[p].tab = t PROVE [stream[p] EXCEPT !.tab = None] \in Stream
    <2>1. stream[p].at # "free"
      BY <1>1, UploadAssumption DEF OtherTypes, Stream, Free
    <2> QED
      BY <2>1, ActiveStream DEF Stream
  <1> QED
    BY <1>1 DEF Orphaned, OtherTypes

LEMMA StepTabTypes == TabTypes /\ PanelTypes /\ OtherTypes /\ TabsOK /\ [UploadNext]_uploadVars => TabTypes'
  <1> SUFFICES ASSUME TabTypes /\ PanelTypes /\ OtherTypes /\ TabsOK, [UploadNext]_uploadVars PROVE TabTypes'
    OBVIOUS
  <1> USE UploadAssumption DEF tabVars, panelVars
  <1>1. ASSUME NEW t \in Tabs, Start(t) PROVE TabTypes'
    BY <1>1 DEF Start, TabTypes, OtherTypes
  <1>2. ASSUME NEW t \in Tabs, LoseConnection(t) PROVE TabTypes'
    BY <1>2, Settles DEF LoseConnection, TabTypes
  <1>3. ASSUME NEW t \in Tabs, Cancel(t) PROVE TabTypes'
    <2>1. CASE pc[t] = "putting"
      BY <1>3, <2>1, Settles DEF Cancel, TabTypes
    <2>2. CASE pc[t] # "putting"
      BY <1>3, <2>2 DEF Cancel, TabTypes
    <2> QED
      BY <2>1, <2>2
  <1>4. ASSUME NEW t \in Tabs, Status(t) PROVE TabTypes'
    BY <1>4 DEF Status, ResumeAt, Fault, Exists, TabTypes, PanelTypes, TabsOK
  <1>5. ASSUME NEW t \in Tabs, InitUpload(t) PROVE TabTypes'
    BY <1>5 DEF InitUpload, Fault, Settle, TabTypes, Offsets, TabsOK
  <1>6. ASSUME NEW t \in Tabs, Put(t) PROVE TabTypes'
    <2>1. CASE Settle(t)
      BY <1>6, <2>1, Settles DEF Put, TabTypes
    <2>2. CASE Goto(t, "hung") \/ Goto(t, "putting")
      BY <1>6, <2>2 DEF Put, Goto, TabTypes
    <2> QED
      BY <1>6, <2>1, <2>2 DEF Put
  <1>7. ASSUME NEW t \in Tabs, Save(t) PROVE TabTypes'
    <2>1. CASE Settle(t)
      BY <1>7, <2>1, Settles DEF Save, TabTypes
    <2>2. CASE Goto(t, "moving")
      BY <1>7, <2>2 DEF Save, Goto, TabTypes
    <2> QED
      BY <1>7, <2>1, <2>2 DEF Save
  <1>8. ASSUME NEW t \in Tabs, Move(t) PROVE TabTypes'
    <2>1. CASE Settle(t) /\ UNCHANGED <<chosen, uploads>>
      BY <2>1, Settles DEF TabTypes
    <2>2. CASE ~(Settle(t) /\ UNCHANGED <<chosen, uploads>>)
      BY <1>8, <2>2 DEF Move, NextFile, TabTypes, OtherTypes, Offsets
    <2> QED
      BY <2>1, <2>2
  <1>9. ASSUME NEW t \in Tabs, MoveFails(t) PROVE TabTypes'
    BY <1>9, Settles DEF MoveFails, TabTypes
  <1>10. ASSUME NEW p \in Streams, StreamBegins(p) PROVE TabTypes'
    BY <1>10 DEF StreamBegins, TabTypes
  <1>11. ASSUME NEW p \in Streams, StreamWrites(p) PROVE TabTypes'
    BY <1>11 DEF StreamWrites, TabTypes
  <1>12. ASSUME NEW p \in Streams, StreamEnds(p) PROVE TabTypes'
    <2>1. stream[p].tab \in Tabs \union {None}
      BY <1>12, ActiveStream DEF StreamEnds
    <2> QED
      BY <1>12, <2>1 DEF StreamEnds, Goto, TabTypes
  <1>13. ASSUME NEW p \in Streams, StreamFails(p) PROVE TabTypes'
    <2>1. stream[p].tab \in Tabs \union {None}
      BY <1>13, ActiveStream DEF StreamFails
    <2> QED
      BY <1>13, <2>1, Settles DEF StreamFails, TabTypes
  <1>14. ASSUME NEW s \in Sessions, CancelUpload(s) PROVE TabTypes'
    BY <1>14 DEF CancelUpload, Drop, Exists, TabTypes
  <1>15. ASSUME NEW s \in Sessions, Expire(s) PROVE TabTypes'
    BY <1>15 DEF Expire, Fault, Drop, Exists, TabTypes
  <1>16. CASE RecordAges
    BY <1>16 DEF RecordAges, TabTypes
  <1>17. CASE UNCHANGED uploadVars
    BY <1>17 DEF uploadVars, TabTypes
  <1> QED
    BY <1>1, <1>2, <1>3, <1>4, <1>5, <1>6, <1>7, <1>8, <1>9, <1>10, <1>11, <1>12, <1>13, <1>14, <1>15, <1>16, <1>17 DEF UploadNext, TabStep, StreamStep

LEMMA StepPanelTypes == TabTypes /\ PanelTypes /\ OtherTypes /\ TabsOK /\ [UploadNext]_uploadVars => PanelTypes'
  <1> SUFFICES ASSUME TabTypes /\ PanelTypes /\ OtherTypes /\ TabsOK, [UploadNext]_uploadVars PROVE PanelTypes'
    OBVIOUS
  <1> USE UploadAssumption DEF tabVars, panelVars
  <1>1. ASSUME NEW t \in Tabs, Start(t) PROVE PanelTypes'
    BY <1>1 DEF Start, PanelTypes
  <1>2. ASSUME NEW t \in Tabs, LoseConnection(t) PROVE PanelTypes'
    BY <1>2 DEF LoseConnection, Fault, Settle, Orphaned, PanelTypes
  <1>3. ASSUME NEW t \in Tabs, Cancel(t) PROVE PanelTypes'
    BY <1>3 DEF Cancel, Settle, Orphaned, PanelTypes
  <1>4. ASSUME NEW t \in Tabs, Status(t) PROVE PanelTypes'
    BY <1>4 DEF Status, ResumeAt, Fault, Exists, PanelTypes
  <1>5. ASSUME NEW t \in Tabs, InitUpload(t) PROVE PanelTypes'
    BY <1>5 DEF InitUpload, Fault, Settle, PanelTypes
  <1>6. ASSUME NEW t \in Tabs, Put(t) PROVE PanelTypes'
    BY <1>6 DEF Put, Goto, Settle, Exists, PanelTypes
  <1>7. ASSUME NEW t \in Tabs, Save(t) PROVE PanelTypes'
    BY <1>7 DEF Save, Goto, Settle, PanelTypes
  <1>8. ASSUME NEW t \in Tabs, Move(t) PROVE PanelTypes'
    BY <1>8 DEF Move, NextFile, Settle, SavedBy, PanelTypes
  <1>9. ASSUME NEW t \in Tabs, MoveFails(t) PROVE PanelTypes'
    <2>1. CASE PageOf[t].keeps
      BY <1>9, <2>1 DEF MoveFails, PanelTypes
    <2>2. CASE ~PageOf[t].keeps
      BY <1>9, <2>2 DEF MoveFails, Drop, Exists, PanelTypes
    <2> QED
      BY <2>1, <2>2
  <1>10. ASSUME NEW p \in Streams, StreamBegins(p) PROVE PanelTypes'
    BY <1>10 DEF StreamBegins, PanelTypes
  <1>11. ASSUME NEW p \in Streams, StreamWrites(p) PROVE PanelTypes'
    <2>1. /\ stream[p].session \in Sessions /\ stream[p].pos + 1 \in Blocks /\ stream[p].pos + 1 \in Offsets
          /\ stream[p].version \in Versions
      BY <1>11, ActiveStream, UploadAssumption DEF StreamWrites, Blocks, Offsets
    <2>2. [block[stream[p].session] EXCEPT ![stream[p].pos + 1] = stream[p].version] \in Content
      BY <2>1 DEF PanelTypes, Content
    <2> QED
      BY <1>11, <2>1, <2>2 DEF StreamWrites, PanelTypes
  <1>12. ASSUME NEW p \in Streams, StreamEnds(p) PROVE PanelTypes'
    BY <1>12 DEF StreamEnds, Goto, Free, PanelTypes
  <1>13. ASSUME NEW p \in Streams, StreamFails(p) PROVE PanelTypes'
    BY <1>13 DEF StreamFails, Settle, Free, PanelTypes
  <1>14. ASSUME NEW s \in Sessions, CancelUpload(s) PROVE PanelTypes'
    BY <1>14 DEF CancelUpload, Drop, Exists, PanelTypes
  <1>15. ASSUME NEW s \in Sessions, Expire(s) PROVE PanelTypes'
    BY <1>15 DEF Expire, Fault, Drop, Exists, PanelTypes
  <1>16. CASE RecordAges
    BY <1>16 DEF RecordAges, PanelTypes
  <1>17. CASE UNCHANGED uploadVars
    BY <1>17 DEF uploadVars, PanelTypes
  <1> QED
    BY <1>1, <1>2, <1>3, <1>4, <1>5, <1>6, <1>7, <1>8, <1>9, <1>10, <1>11, <1>12, <1>13, <1>14, <1>15, <1>16, <1>17 DEF UploadNext, TabStep, StreamStep

LEMMA StepOtherTypes == TabTypes /\ PanelTypes /\ OtherTypes /\ TabsOK /\ [UploadNext]_uploadVars => OtherTypes'
  <1> SUFFICES ASSUME TabTypes /\ PanelTypes /\ OtherTypes /\ TabsOK, [UploadNext]_uploadVars PROVE OtherTypes'
    OBVIOUS
  <1> USE UploadAssumption DEF tabVars, panelVars
  <1>1. ASSUME NEW t \in Tabs, Start(t) PROVE OtherTypes'
    BY <1>1 DEF Start, OtherTypes
  <1>2. ASSUME NEW t \in Tabs, LoseConnection(t) PROVE OtherTypes'
    BY <1>2, Orphans DEF LoseConnection, Fault, OtherTypes
  <1>3. ASSUME NEW t \in Tabs, Cancel(t) PROVE OtherTypes'
    <2>1. cancels' \subseteq Sessions
      BY <1>3 DEF Cancel, OtherTypes, TabsOK
    <2>2. stream' \in [Streams -> Stream]
      BY <1>3, Orphans DEF Cancel, OtherTypes
    <2> QED
      BY <1>3, <2>1, <2>2 DEF Cancel, OtherTypes
  <1>4. ASSUME NEW t \in Tabs, Status(t) PROVE OtherTypes'
    BY <1>4 DEF Status, ResumeAt, Fault, Exists, OtherTypes
  <1>5. ASSUME NEW t \in Tabs, InitUpload(t) PROVE OtherTypes'
    BY <1>5 DEF InitUpload, Fault, Settle, OtherTypes
  <1>6. ASSUME NEW t \in Tabs, Put(t) PROVE OtherTypes'
    <2>1. [at |-> "waiting", session |-> session[t], pos |-> offset[t], version |-> chosen[t], tab |-> t] \in Stream
      BY <1>6 DEF Put, TabTypes, TabsOK, Stream
    <2> QED
      BY <1>6, <2>1 DEF Put, OtherTypes
  <1>7. ASSUME NEW t \in Tabs, Save(t) PROVE OtherTypes'
    BY <1>7 DEF Save, Goto, Settle, OtherTypes
  <1>8. ASSUME NEW t \in Tabs, Move(t) PROVE OtherTypes'
    <2>1. SavedBy(t) \in File
      BY <1>8 DEF Move, SavedBy, File, TabTypes, PanelTypes, TabsOK
    <2> QED
      BY <1>8, <2>1 DEF Move, NextFile, OtherTypes
  <1>9. ASSUME NEW t \in Tabs, MoveFails(t) PROVE OtherTypes'
    BY <1>9 DEF MoveFails, Fault, Settle, Drop, Exists, OtherTypes
  <1>10. ASSUME NEW p \in Streams, StreamBegins(p) PROVE OtherTypes'
    <2>1. [stream[p] EXCEPT !.at = "writing"] \in Stream
      BY <1>10, ActiveStream DEF StreamBegins, Stream
    <2> QED
      BY <1>10, <2>1 DEF StreamBegins, OtherTypes
  <1>11. ASSUME NEW p \in Streams, StreamWrites(p) PROVE OtherTypes'
    <2>1. stream[p].pos + 1 \in Offsets
      BY <1>11, ActiveStream DEF StreamWrites, Offsets
    <2>2. [stream[p] EXCEPT !.pos = stream[p].pos + 1] \in Stream
      BY <1>11, <2>1, ActiveStream DEF StreamWrites, Stream
    <2> QED
      BY <1>11, <2>2 DEF StreamWrites, OtherTypes
  <1>12. ASSUME NEW p \in Streams, StreamEnds(p) PROVE OtherTypes'
    BY <1>12 DEF StreamEnds, OtherTypes, Stream
  <1>13. ASSUME NEW p \in Streams, StreamFails(p) PROVE OtherTypes'
    BY <1>13 DEF StreamFails, OtherTypes, Stream
  <1>14. ASSUME NEW s \in Sessions, CancelUpload(s) PROVE OtherTypes'
    BY <1>14 DEF CancelUpload, Drop, Exists, OtherTypes
  <1>15. ASSUME NEW s \in Sessions, Expire(s) PROVE OtherTypes'
    BY <1>15 DEF Expire, Fault, Drop, Exists, OtherTypes
  <1>16. CASE RecordAges
    BY <1>16 DEF RecordAges, Fault, OtherTypes
  <1>17. CASE UNCHANGED uploadVars
    BY <1>17 DEF uploadVars, OtherTypes
  <1> QED
    BY <1>1, <1>2, <1>3, <1>4, <1>5, <1>6, <1>7, <1>8, <1>9, <1>10, <1>11, <1>12, <1>13, <1>14, <1>15, <1>16, <1>17 DEF UploadNext, TabStep, StreamStep

-----------------------------------------------------------------------------
(* What a tab, its session and its request have to do with each other *)

LEMMA OneTab ==
  ASSUME TabTypes, OtherTypes, TabsOK, stream' = stream, NEW t \in Tabs, pc[t] # "putting",
         NEW where, where # "putting", pc' = [pc EXCEPT ![t] = where],
         \A u \in Tabs \ {t} : session'[u] = session[u] /\ offset'[u] = offset[u],
         where \in {"status", "put", "putting", "save", "moving", "hung"} => session'[t] \in Sessions,
         where \in {"idle", "status", "init"} => offset'[t] = 0
  PROVE  TabsOK'
  <1>1. \A u \in Tabs : pc'[u] = IF u = t THEN where ELSE pc[u]
    BY DEF TabTypes
  <1>2. \A p \in Streams : stream[p].tab # None => stream[p].tab \in Tabs
    BY DEF OtherTypes, Stream, Free
  <1> QED
    BY <1>1, <1>2 DEF TabsOK

LEMMA StepTabsOK == TabTypes /\ PanelTypes /\ OtherTypes /\ TabsOK /\ [UploadNext]_uploadVars => TabsOK'
  <1> SUFFICES ASSUME TabTypes /\ PanelTypes /\ OtherTypes /\ TabsOK, [UploadNext]_uploadVars PROVE TabsOK'
    OBVIOUS
  <1> USE UploadAssumption DEF tabVars, panelVars
  <1>1. ASSUME NEW t \in Tabs, Start(t) PROVE TabsOK'
    BY <1>1, Settles DEF Start, TabsOK, TabTypes, OtherTypes, Stream
  <1>2. ASSUME NEW t \in Tabs, LoseConnection(t) PROVE TabsOK'
    BY <1>2, Settles DEF LoseConnection, Fault, Settle, Orphaned, TabsOK, TabTypes, OtherTypes, Stream
  <1>3. ASSUME NEW t \in Tabs, Cancel(t) PROVE TabsOK'
    <2>1. CASE pc[t] = "putting"
      BY <1>3, <2>1, Settles DEF Cancel, Orphaned, TabsOK, TabTypes, OtherTypes, Stream, Free
    <2>2. CASE pc[t] # "putting"
      BY <1>3, <2>2 DEF Cancel, TabsOK
    <2> QED
      BY <2>1, <2>2
  <1>4. ASSUME NEW t \in Tabs, Status(t) PROVE TabsOK'
    <2>1. PICK where \in {"save", "put", "init"} :
           pc' = [pc EXCEPT ![t] = where] /\ (where # "init" => session'[t] = session[t])
      BY <1>4 DEF Status, TabTypes
    <2>2. session[t] \in Sessions /\ offset[t] = 0
      BY <1>4 DEF Status, TabsOK
    <2> QED
      BY <1>4, <2>1, <2>2, OneTab DEF Status, TabTypes
  <1>5. ASSUME NEW t \in Tabs, InitUpload(t) PROVE TabsOK'
    <2>1. CASE Settle(t)
      BY <1>5, <2>1, Settles, OneTab DEF InitUpload, TabTypes
    <2>2. CASE ~Settle(t)
      <3>1. pc' = [pc EXCEPT ![t] = "put"] /\ session'[t] \in Sessions
            /\ \A u \in Tabs \ {t} : session'[u] = session[u] /\ offset'[u] = offset[u]
        BY <1>5, <2>2 DEF InitUpload, TabTypes
      <3> QED
        BY <1>5, <3>1, OneTab DEF InitUpload
    <2> QED
      BY <2>1, <2>2
  <1>6. ASSUME NEW t \in Tabs, Put(t) PROVE TabsOK'
    <2>1. CASE Settle(t)
      BY <1>6, <2>1, Settles, OneTab DEF Put, Goto, TabTypes, OtherTypes
    <2>2. CASE Goto(t, "hung")
      <3>1. stream' = stream /\ pc[t] = "put"
        BY <1>6, <2>2 DEF Put, Goto, TabTypes
      <3> QED
        BY <2>2, <3>1, OneTab DEF Goto, TabsOK
    <2>3. CASE Goto(t, "putting")
      <3>1. PICK q \in Streams :
              /\ stream[q].at = "free"
              /\ stream' = [stream EXCEPT ![q] = [at |-> "waiting", session |-> session[t], pos |-> offset[t],
                                                 version |-> chosen[t], tab |-> t]]
        BY <1>6, <2>3 DEF Put, Goto, Settle, TabTypes
      <3>2. \A p \in Streams : stream[p].tab # None => stream[p].tab \in Tabs /\ stream[p].tab # t
        BY <1>6 DEF Put, OtherTypes, Stream, Free, TabsOK
      <3> QED
        BY <1>6, <2>3, <3>1, <3>2 DEF Put, Goto, TabTypes, OtherTypes, TabsOK
    <2> QED
      BY <1>6, <2>1, <2>2, <2>3 DEF Put
  <1>7. ASSUME NEW t \in Tabs, Save(t) PROVE TabsOK'
    <2>1. CASE Settle(t)
      BY <1>7, <2>1, Settles, OneTab DEF Save, TabTypes
    <2>2. CASE Goto(t, "moving")
      BY <1>7, <2>2, OneTab DEF Save, Goto, TabsOK
    <2> QED
      BY <1>7, <2>1, <2>2 DEF Save
  <1>8. ASSUME NEW t \in Tabs, Move(t) PROVE TabsOK'
    <2>1. CASE Settle(t)
      BY <1>8, <2>1, Settles, OneTab DEF Move, TabTypes
    <2>2. CASE ~Settle(t)
      <3>1. PICK where \in {"init", "status"} : pc' = [pc EXCEPT ![t] = where] /\ (where = "status" => record \in Sessions)
        BY <1>8, <2>2 DEF Move, NextFile, OtherTypes
      <3>2. session' = [session EXCEPT ![t] = record] /\ offset' = [offset EXCEPT ![t] = 0]
        BY <1>8, <2>2 DEF Move, NextFile
      <3>3. pc[t] # "putting" /\ stream' = stream
        BY <1>8 DEF Move
      <3>4. session'[t] = record /\ offset'[t] = 0 /\ \A u \in Tabs \ {t} : session'[u] = session[u] /\ offset'[u] = offset[u]
        BY <3>2 DEF TabTypes
      <3>5. CASE where = "init"
        BY <3>1, <3>3, <3>4, <3>5, OneTab
      <3>6. CASE where = "status"
        BY <3>1, <3>3, <3>4, <3>6, OneTab
      <3> QED
        BY <3>1, <3>5, <3>6
    <2> QED
      BY <2>1, <2>2
  <1>9. ASSUME NEW t \in Tabs, MoveFails(t) PROVE TabsOK'
    BY <1>9, Settles, OneTab DEF MoveFails, TabTypes
  <1>10. ASSUME NEW p \in Streams, StreamBegins(p) PROVE TabsOK'
    BY <1>10, Settles DEF StreamBegins, TabsOK, TabTypes, OtherTypes, Stream
  <1>11. ASSUME NEW p \in Streams, StreamWrites(p) PROVE TabsOK'
    BY <1>11, Settles DEF StreamWrites, TabsOK, TabTypes, OtherTypes, Stream
  <1>12. ASSUME NEW p \in Streams, StreamEnds(p) PROVE TabsOK'
    BY <1>12, Settles DEF StreamEnds, Goto, Free, TabsOK, TabTypes, OtherTypes, Stream
  <1>13. ASSUME NEW p \in Streams, StreamFails(p) PROVE TabsOK'
    BY <1>13, Settles DEF StreamFails, Settle, Free, TabsOK, TabTypes, OtherTypes, Stream
  <1>14. ASSUME NEW s \in Sessions, CancelUpload(s) PROVE TabsOK'
    BY <1>14, Settles DEF CancelUpload, Drop, Exists, TabsOK, TabTypes, OtherTypes, Stream
  <1>15. ASSUME NEW s \in Sessions, Expire(s) PROVE TabsOK'
    BY <1>15, Settles DEF Expire, Fault, Drop, Exists, TabsOK, TabTypes, OtherTypes, Stream
  <1>16. CASE RecordAges
    BY <1>16 DEF RecordAges, TabsOK
  <1>17. CASE UNCHANGED uploadVars
    BY <1>17 DEF uploadVars, TabsOK
  <1> QED
    BY <1>1, <1>2, <1>3, <1>4, <1>5, <1>6, <1>7, <1>8, <1>9, <1>10, <1>11, <1>12, <1>13, <1>14, <1>15, <1>16, <1>17 DEF UploadNext, TabStep, StreamStep

-----------------------------------------------------------------------------
(* The blocks of a session's file *)

\* A block that was written stays so.
LEMMA BlocksStay ==
  ASSUME TabTypes, PanelTypes, OtherTypes, TabsOK, [UploadNext]_uploadVars, NEW s \in Sessions, NEW b \in Blocks, block[s][b] # None
  PROVE  block'[s][b] # None
  <1>1. block' = block \/ \E p \in Streams : StreamWrites(p)
    BY DEF UploadNext, TabStep, StreamStep, Start, LoseConnection, Cancel, Status, InitUpload, Put, Save, Move, MoveFails,
           StreamBegins, StreamEnds, StreamFails, CancelUpload, Expire, RecordAges, panelVars, uploadVars
  <1>2. ASSUME NEW p \in Streams, StreamWrites(p) PROVE block'[s][b] # None
    <2>1. stream[p].version # None /\ block' = [block EXCEPT ![stream[p].session][stream[p].pos + 1] = stream[p].version]
      BY <1>2, ActiveStream, UploadAssumption DEF StreamWrites
    <2> QED
      BY <2>1 DEF PanelTypes, Content
  <1> QED
    BY <1>1, <1>2

LEMMA WrittenStays ==
  ASSUME TabTypes, PanelTypes, OtherTypes, TabsOK, [UploadNext]_uploadVars, NEW s \in Sessions, NEW u \in Offsets, Written(s, u)
  PROVE  Written(s, u)'
  <1> SUFFICES ASSUME NEW b \in 1 .. u PROVE block'[s][b] # None
    BY DEF Written
  <1>1. b \in Blocks /\ block[s][b] # None
    BY UploadAssumption DEF Blocks, Offsets, Written
  <1> QED
    BY <1>1, BlocksStay

\* How far a session, a tab or a stream has got changes only with the blocks that are written.
ReceivedMoves ==
  \A s \in Sessions :
    \/ received'[s] = received[s]
    \/ \E p \in Streams : StreamWrites(p) /\ s = stream[p].session /\ received'[s] = stream[p].pos + 1
OffsetsMove ==
  \A t \in Tabs :
    \/ session'[t] = session[t] /\ offset'[t] = offset[t]
    \/ session'[t] = session[t] /\ offset'[t] = received[session[t]]
    \/ offset'[t] = 0
    \/ session'[t] = None
StreamsMove ==
  \A p \in Streams :
    \/ stream'[p].at = "free"
    \/ stream[p].at # "free" /\ stream'[p].session = stream[p].session /\ stream'[p].pos = stream[p].pos
    \/ StreamWrites(p) /\ stream'[p].session = stream[p].session /\ stream'[p].pos = stream[p].pos + 1
    \/ \E t \in Tabs : session[t] \in Sessions /\ stream'[p].session = session[t] /\ stream'[p].pos = offset[t]
CompletionMoves ==
  \A s \in Sessions :
    sess'[s] = "completed" =>
      \/ sess[s] = "completed"
      \/ \E p \in Streams : stream[p].at = "writing" /\ stream[p].session = s /\ stream[p].pos = N
SavingMoves ==
  \A t \in Tabs : pc'[t] = "moving" =>
    /\ session[t] \in Sessions /\ session'[t] = session[t]
    /\ pc[t] = "moving" \/ sess[session[t]] = "completed"

LEMMA ReceivedMovesHold == TabTypes /\ PanelTypes /\ OtherTypes /\ TabsOK /\ [UploadNext]_uploadVars => ReceivedMoves
  <1> SUFFICES ASSUME TabTypes /\ PanelTypes /\ OtherTypes /\ TabsOK, [UploadNext]_uploadVars PROVE ReceivedMoves
    OBVIOUS
  <1> USE UploadAssumption DEF tabVars, panelVars, ReceivedMoves, PanelTypes
  <1>1. ASSUME NEW t \in Tabs, Start(t) PROVE ReceivedMoves
    BY <1>1 DEF Start
  <1>2. ASSUME NEW t \in Tabs, LoseConnection(t) PROVE ReceivedMoves
    BY <1>2, Settles DEF LoseConnection, Fault, Settle, Orphaned
  <1>3. ASSUME NEW t \in Tabs, Cancel(t) PROVE ReceivedMoves
    BY <1>3, Settles DEF Cancel, Settle, Orphaned
  <1>4. ASSUME NEW t \in Tabs, Status(t) PROVE ReceivedMoves
    BY <1>4 DEF Status, ResumeAt, Fault, Exists
  <1>5. ASSUME NEW t \in Tabs, InitUpload(t) PROVE ReceivedMoves
    BY <1>5, Settles DEF InitUpload, Fault, Settle
  <1>6. ASSUME NEW t \in Tabs, Put(t) PROVE ReceivedMoves
    BY <1>6, Settles DEF Put, Goto, Settle, Exists
  <1>7. ASSUME NEW t \in Tabs, Save(t) PROVE ReceivedMoves
    BY <1>7, Settles DEF Save, Goto, Settle
  <1>8. ASSUME NEW t \in Tabs, Move(t) PROVE ReceivedMoves
    BY <1>8, Settles DEF Move, NextFile, Settle, SavedBy
  <1>9. ASSUME NEW t \in Tabs, MoveFails(t) PROVE ReceivedMoves
    BY <1>9, Settles DEF MoveFails, Fault, Settle, Drop, Exists
  <1>10. ASSUME NEW p \in Streams, StreamBegins(p) PROVE ReceivedMoves
    BY <1>10 DEF StreamBegins
  <1>11. ASSUME NEW p \in Streams, StreamWrites(p) PROVE ReceivedMoves
    BY <1>11 DEF StreamWrites
  <1>12. ASSUME NEW p \in Streams, StreamEnds(p) PROVE ReceivedMoves
    BY <1>12 DEF StreamEnds, Goto, Free
  <1>13. ASSUME NEW p \in Streams, StreamFails(p) PROVE ReceivedMoves
    BY <1>13, Settles DEF StreamFails, Settle, Free
  <1>14. ASSUME NEW s \in Sessions, CancelUpload(s) PROVE ReceivedMoves
    BY <1>14 DEF CancelUpload, Drop, Exists
  <1>15. ASSUME NEW s \in Sessions, Expire(s) PROVE ReceivedMoves
    BY <1>15 DEF Expire, Fault, Drop, Exists
  <1>16. CASE RecordAges
    BY <1>16 DEF RecordAges, Fault
  <1>17. CASE UNCHANGED uploadVars
    BY <1>17 DEF uploadVars
  <1> QED
    BY <1>1, <1>2, <1>3, <1>4, <1>5, <1>6, <1>7, <1>8, <1>9, <1>10, <1>11, <1>12, <1>13, <1>14, <1>15, <1>16, <1>17 DEF UploadNext, TabStep, StreamStep

LEMMA OffsetsMoveHold == TabTypes /\ PanelTypes /\ OtherTypes /\ TabsOK /\ [UploadNext]_uploadVars => OffsetsMove
  <1> SUFFICES ASSUME TabTypes /\ PanelTypes /\ OtherTypes /\ TabsOK, [UploadNext]_uploadVars PROVE OffsetsMove
    OBVIOUS
  <1> USE UploadAssumption DEF tabVars, panelVars, OffsetsMove, TabTypes, TabsOK
  <1>1. ASSUME NEW t \in Tabs, Start(t) PROVE OffsetsMove
    BY <1>1 DEF Start
  <1>2. ASSUME NEW t \in Tabs, LoseConnection(t) PROVE OffsetsMove
    BY <1>2, Settles DEF LoseConnection, Fault, Settle, Orphaned
  <1>3. ASSUME NEW t \in Tabs, Cancel(t) PROVE OffsetsMove
    BY <1>3, Settles DEF Cancel, Settle, Orphaned
  <1>4. ASSUME NEW t \in Tabs, Status(t) PROVE OffsetsMove
    BY <1>4 DEF Status, ResumeAt, Fault, Exists
  <1>5. ASSUME NEW t \in Tabs, InitUpload(t) PROVE OffsetsMove
    BY <1>5, Settles DEF InitUpload, Fault, Settle
  <1>6. ASSUME NEW t \in Tabs, Put(t) PROVE OffsetsMove
    BY <1>6, Settles DEF Put, Goto, Settle, Exists
  <1>7. ASSUME NEW t \in Tabs, Save(t) PROVE OffsetsMove
    BY <1>7, Settles DEF Save, Goto, Settle
  <1>8. ASSUME NEW t \in Tabs, Move(t) PROVE OffsetsMove
    BY <1>8, Settles DEF Move, NextFile, Settle, SavedBy
  <1>9. ASSUME NEW t \in Tabs, MoveFails(t) PROVE OffsetsMove
    BY <1>9, Settles DEF MoveFails, Fault, Settle, Drop, Exists
  <1>10. ASSUME NEW p \in Streams, StreamBegins(p) PROVE OffsetsMove
    BY <1>10 DEF StreamBegins
  <1>11. ASSUME NEW p \in Streams, StreamWrites(p) PROVE OffsetsMove
    BY <1>11 DEF StreamWrites
  <1>12. ASSUME NEW p \in Streams, StreamEnds(p) PROVE OffsetsMove
    BY <1>12 DEF StreamEnds, Goto, Free
  <1>13. ASSUME NEW p \in Streams, StreamFails(p) PROVE OffsetsMove
    BY <1>13, Settles DEF StreamFails, Settle, Free
  <1>14. ASSUME NEW s \in Sessions, CancelUpload(s) PROVE OffsetsMove
    BY <1>14 DEF CancelUpload, Drop, Exists
  <1>15. ASSUME NEW s \in Sessions, Expire(s) PROVE OffsetsMove
    BY <1>15 DEF Expire, Fault, Drop, Exists
  <1>16. CASE RecordAges
    BY <1>16 DEF RecordAges, Fault
  <1>17. CASE UNCHANGED uploadVars
    BY <1>17 DEF uploadVars
  <1> QED
    BY <1>1, <1>2, <1>3, <1>4, <1>5, <1>6, <1>7, <1>8, <1>9, <1>10, <1>11, <1>12, <1>13, <1>14, <1>15, <1>16, <1>17 DEF UploadNext, TabStep, StreamStep

LEMMA StreamsMoveHold == TabTypes /\ PanelTypes /\ OtherTypes /\ TabsOK /\ [UploadNext]_uploadVars => StreamsMove
  <1> SUFFICES ASSUME TabTypes /\ PanelTypes /\ OtherTypes /\ TabsOK, [UploadNext]_uploadVars PROVE StreamsMove
    OBVIOUS
  <1> USE UploadAssumption DEF tabVars, panelVars, StreamsMove, OtherTypes, TabsOK
  <1>1. ASSUME NEW t \in Tabs, Start(t) PROVE StreamsMove
    BY <1>1 DEF Start
  <1>2. ASSUME NEW t \in Tabs, LoseConnection(t) PROVE StreamsMove
    BY <1>2, Settles DEF LoseConnection, Fault, Settle, Orphaned
  <1>3. ASSUME NEW t \in Tabs, Cancel(t) PROVE StreamsMove
    <2>1. CASE pc[t] = "putting"
      BY <1>3, <2>1 DEF Cancel, Orphaned, Stream, Free
    <2>2. CASE pc[t] # "putting"
      BY <1>3, <2>2 DEF Cancel
    <2> QED
      BY <2>1, <2>2
  <1>4. ASSUME NEW t \in Tabs, Status(t) PROVE StreamsMove
    BY <1>4 DEF Status, ResumeAt, Fault, Exists
  <1>5. ASSUME NEW t \in Tabs, InitUpload(t) PROVE StreamsMove
    BY <1>5, Settles DEF InitUpload, Fault, Settle
  <1>6. ASSUME NEW t \in Tabs, Put(t) PROVE StreamsMove
    BY <1>6, Settles DEF Put, Goto, Settle, Exists
  <1>7. ASSUME NEW t \in Tabs, Save(t) PROVE StreamsMove
    BY <1>7, Settles DEF Save, Goto, Settle
  <1>8. ASSUME NEW t \in Tabs, Move(t) PROVE StreamsMove
    BY <1>8, Settles DEF Move, NextFile, Settle, SavedBy
  <1>9. ASSUME NEW t \in Tabs, MoveFails(t) PROVE StreamsMove
    BY <1>9, Settles DEF MoveFails, Fault, Settle, Drop, Exists
  <1>10. ASSUME NEW p \in Streams, StreamBegins(p) PROVE StreamsMove
    BY <1>10 DEF StreamBegins
  <1>11. ASSUME NEW p \in Streams, StreamWrites(p) PROVE StreamsMove
    <2>1. stream' = [stream EXCEPT ![p] = [stream[p] EXCEPT !.pos = stream[p].pos + 1]]
      BY <1>11 DEF StreamWrites
    <2>2. stream'[p].session = stream[p].session /\ stream'[p].pos = stream[p].pos + 1
      BY <1>11, <2>1, ActiveStream DEF StreamWrites
    <2>3. \A q \in Streams \ {p} : stream'[q] = stream[q]
      BY <2>1
    <2>4. stream[p].at # "free"
      BY <1>11 DEF StreamWrites
    <2> QED
      BY <1>11, <2>2, <2>3, <2>4
  <1>12. ASSUME NEW p \in Streams, StreamEnds(p) PROVE StreamsMove
    BY <1>12 DEF StreamEnds, Goto, Free
  <1>13. ASSUME NEW p \in Streams, StreamFails(p) PROVE StreamsMove
    BY <1>13, Settles DEF StreamFails, Settle, Free
  <1>14. ASSUME NEW s \in Sessions, CancelUpload(s) PROVE StreamsMove
    BY <1>14 DEF CancelUpload, Drop, Exists
  <1>15. ASSUME NEW s \in Sessions, Expire(s) PROVE StreamsMove
    BY <1>15 DEF Expire, Fault, Drop, Exists
  <1>16. CASE RecordAges
    BY <1>16 DEF RecordAges, Fault
  <1>17. CASE UNCHANGED uploadVars
    BY <1>17 DEF uploadVars
  <1> QED
    BY <1>1, <1>2, <1>3, <1>4, <1>5, <1>6, <1>7, <1>8, <1>9, <1>10, <1>11, <1>12, <1>13, <1>14, <1>15, <1>16, <1>17 DEF UploadNext, TabStep, StreamStep

LEMMA CompletionMovesHold == TabTypes /\ PanelTypes /\ OtherTypes /\ TabsOK /\ [UploadNext]_uploadVars => CompletionMoves
  <1> SUFFICES ASSUME TabTypes /\ PanelTypes /\ OtherTypes /\ TabsOK, [UploadNext]_uploadVars PROVE CompletionMoves
    OBVIOUS
  <1> USE UploadAssumption DEF tabVars, panelVars, CompletionMoves, PanelTypes
  <1>1. ASSUME NEW t \in Tabs, Start(t) PROVE CompletionMoves
    BY <1>1 DEF Start
  <1>2. ASSUME NEW t \in Tabs, LoseConnection(t) PROVE CompletionMoves
    BY <1>2, Settles DEF LoseConnection, Fault, Settle, Orphaned
  <1>3. ASSUME NEW t \in Tabs, Cancel(t) PROVE CompletionMoves
    BY <1>3, Settles DEF Cancel, Settle, Orphaned
  <1>4. ASSUME NEW t \in Tabs, Status(t) PROVE CompletionMoves
    BY <1>4 DEF Status, ResumeAt, Fault, Exists
  <1>5. ASSUME NEW t \in Tabs, InitUpload(t) PROVE CompletionMoves
    BY <1>5, Settles DEF InitUpload, Fault, Settle
  <1>6. ASSUME NEW t \in Tabs, Put(t) PROVE CompletionMoves
    BY <1>6, Settles DEF Put, Goto, Settle, Exists
  <1>7. ASSUME NEW t \in Tabs, Save(t) PROVE CompletionMoves
    BY <1>7, Settles DEF Save, Goto, Settle
  <1>8. ASSUME NEW t \in Tabs, Move(t) PROVE CompletionMoves
    BY <1>8, Settles DEF Move, NextFile, Settle, SavedBy
  <1>9. ASSUME NEW t \in Tabs, MoveFails(t) PROVE CompletionMoves
    BY <1>9, Settles DEF MoveFails, Fault, Settle, Drop, Exists
  <1>10. ASSUME NEW p \in Streams, StreamBegins(p) PROVE CompletionMoves
    BY <1>10 DEF StreamBegins
  <1>11. ASSUME NEW p \in Streams, StreamWrites(p) PROVE CompletionMoves
    BY <1>11 DEF StreamWrites
  <1>12. ASSUME NEW p \in Streams, StreamEnds(p) PROVE CompletionMoves
    BY <1>12 DEF StreamEnds, Goto, Free
  <1>13. ASSUME NEW p \in Streams, StreamFails(p) PROVE CompletionMoves
    BY <1>13, Settles DEF StreamFails, Settle, Free
  <1>14. ASSUME NEW s \in Sessions, CancelUpload(s) PROVE CompletionMoves
    BY <1>14 DEF CancelUpload, Drop, Exists
  <1>15. ASSUME NEW s \in Sessions, Expire(s) PROVE CompletionMoves
    BY <1>15 DEF Expire, Fault, Drop, Exists
  <1>16. CASE RecordAges
    BY <1>16 DEF RecordAges, Fault
  <1>17. CASE UNCHANGED uploadVars
    BY <1>17 DEF uploadVars
  <1> QED
    BY <1>1, <1>2, <1>3, <1>4, <1>5, <1>6, <1>7, <1>8, <1>9, <1>10, <1>11, <1>12, <1>13, <1>14, <1>15, <1>16, <1>17 DEF UploadNext, TabStep, StreamStep

LEMMA SavingMovesHold == TabTypes /\ PanelTypes /\ OtherTypes /\ TabsOK /\ [UploadNext]_uploadVars => SavingMoves
  <1> SUFFICES ASSUME TabTypes /\ PanelTypes /\ OtherTypes /\ TabsOK, [UploadNext]_uploadVars PROVE SavingMoves
    OBVIOUS
  <1> USE UploadAssumption DEF tabVars, panelVars, SavingMoves, TabTypes, TabsOK
  <1>1. ASSUME NEW t \in Tabs, Start(t) PROVE SavingMoves
    BY <1>1 DEF Start
  <1>2. ASSUME NEW t \in Tabs, LoseConnection(t) PROVE SavingMoves
    BY <1>2, Settles DEF LoseConnection, Fault, Settle, Orphaned
  <1>3. ASSUME NEW t \in Tabs, Cancel(t) PROVE SavingMoves
    BY <1>3, Settles DEF Cancel, Settle, Orphaned
  <1>4. ASSUME NEW t \in Tabs, Status(t) PROVE SavingMoves
    BY <1>4 DEF Status, ResumeAt, Fault, Exists
  <1>5. ASSUME NEW t \in Tabs, InitUpload(t) PROVE SavingMoves
    BY <1>5, Settles DEF InitUpload, Fault, Settle
  <1>6. ASSUME NEW t \in Tabs, Put(t) PROVE SavingMoves
    BY <1>6, Settles DEF Put, Goto, Settle, Exists
  <1>7. ASSUME NEW t \in Tabs, Save(t) PROVE SavingMoves
    BY <1>7, Settles DEF Save, Goto, Settle
  <1>8. ASSUME NEW t \in Tabs, Move(t) PROVE SavingMoves
    BY <1>8, Settles DEF Move, NextFile, Settle, SavedBy
  <1>9. ASSUME NEW t \in Tabs, MoveFails(t) PROVE SavingMoves
    BY <1>9, Settles DEF MoveFails, Fault, Settle, Drop, Exists
  <1>10. ASSUME NEW p \in Streams, StreamBegins(p) PROVE SavingMoves
    BY <1>10 DEF StreamBegins
  <1>11. ASSUME NEW p \in Streams, StreamWrites(p) PROVE SavingMoves
    BY <1>11 DEF StreamWrites
  <1>12. ASSUME NEW p \in Streams, StreamEnds(p) PROVE SavingMoves
    BY <1>12 DEF StreamEnds, Goto, Free
  <1>13. ASSUME NEW p \in Streams, StreamFails(p) PROVE SavingMoves
    BY <1>13, Settles DEF StreamFails, Settle, Free
  <1>14. ASSUME NEW s \in Sessions, CancelUpload(s) PROVE SavingMoves
    BY <1>14 DEF CancelUpload, Drop, Exists
  <1>15. ASSUME NEW s \in Sessions, Expire(s) PROVE SavingMoves
    BY <1>15 DEF Expire, Fault, Drop, Exists
  <1>16. CASE RecordAges
    BY <1>16 DEF RecordAges, Fault
  <1>17. CASE UNCHANGED uploadVars
    BY <1>17 DEF uploadVars
  <1> QED
    BY <1>1, <1>2, <1>3, <1>4, <1>5, <1>6, <1>7, <1>8, <1>9, <1>10, <1>11, <1>12, <1>13, <1>14, <1>15, <1>16, <1>17 DEF UploadNext, TabStep, StreamStep

\* After a step of a stream its session's blocks are there up to the block it wrote.
LEMMA WriterAdvances ==
  ASSUME TabTypes, PanelTypes, OtherTypes, TabsOK, [UploadNext]_uploadVars, WrittenOK,
         NEW p \in Streams, StreamWrites(p)
  PROVE  \A b \in 1 .. stream[p].pos + 1 : block'[stream[p].session][b] # None
  <1> DEFINE s == stream[p].session
             pos == stream[p].pos
  <1>1. s \in Sessions /\ pos \in 0 .. N - 1 /\ stream[p].version # None /\ stream[p].at # "free"
    BY ActiveStream, UploadAssumption DEF StreamWrites, Offsets
  <1>2. Written(s, pos)
    BY <1>1 DEF WrittenOK
  <1>3. \A b \in 1 .. pos : block'[s][b] # None
    BY <1>1, <1>2, BlocksStay, UploadAssumption DEF Written, Blocks
  <1>4. block'[s][pos + 1] # None
    BY <1>1, UploadAssumption DEF StreamWrites, PanelTypes, Content, Blocks
  <1> QED
    BY <1>1, <1>3, <1>4 DEF Written

LEMMA StepWrittenOK == TabTypes /\ PanelTypes /\ OtherTypes /\ TabsOK /\ WrittenOK /\ [UploadNext]_uploadVars => WrittenOK'
  <1> SUFFICES ASSUME TabTypes /\ PanelTypes /\ OtherTypes /\ TabsOK, WrittenOK, [UploadNext]_uploadVars PROVE WrittenOK'
    OBVIOUS
  <1>0. TabTypes' /\ PanelTypes' /\ OtherTypes' /\ TabsOK' /\ N \in Offsets /\ 0 \in Offsets
    BY StepTabTypes, StepPanelTypes, StepOtherTypes, StepTabsOK, UploadAssumption DEF Offsets
  <1>1. ASSUME NEW s \in Sessions PROVE Written(s, received[s])'
    <2>1. received[s] \in Offsets /\ Written(s, received[s])
      BY DEF PanelTypes, WrittenOK
    <2>2. (\A b \in 1 .. received[s] : block'[s][b] # None)
      BY <2>1, WrittenStays DEF Written
    <2>3. CASE received'[s] = received[s]
      BY <2>2, <2>3 DEF Written
    <2>4. CASE \E p \in Streams : StreamWrites(p) /\ s = stream[p].session /\ received'[s] = stream[p].pos + 1
      BY <2>4, WriterAdvances DEF Written
    <2> QED
      BY <2>3, <2>4, ReceivedMovesHold DEF ReceivedMoves
  <1>2. ASSUME NEW t \in Tabs, session'[t] \in Sessions PROVE Written(session[t], offset[t])'
    <2>1. CASE session'[t] = session[t] /\ offset'[t] = offset[t]
      <3>1. offset[t] \in Offsets /\ Written(session[t], offset[t])
        BY <1>2, <2>1 DEF TabTypes, WrittenOK
      <3> QED
        BY <1>2, <2>1, <3>1, WrittenStays DEF Written
    <2>2. CASE session'[t] = session[t] /\ offset'[t] = received[session[t]]
      <3>1. received[session[t]] \in Offsets /\ Written(session[t], received[session[t]])
        BY <1>2, <2>2 DEF PanelTypes, WrittenOK
      <3> QED
        BY <1>2, <2>2, <3>1, WrittenStays DEF Written
    <2>3. CASE offset'[t] = 0
      BY <2>3 DEF Written
    <2>4. CASE session'[t] = None
      BY <1>2, <2>4, UploadAssumption
    <2> QED
      BY <2>1, <2>2, <2>3, <2>4, OffsetsMoveHold DEF OffsetsMove
  <1>3. ASSUME NEW p \in Streams, stream'[p].at # "free" PROVE Written(stream[p].session, stream[p].pos)'
    <2>1. CASE stream[p].at # "free" /\ stream'[p].session = stream[p].session /\ stream'[p].pos = stream[p].pos
      <3>1. stream[p].session \in Sessions /\ stream[p].pos \in Offsets /\ Written(stream[p].session, stream[p].pos)
        BY <2>1, ActiveStream DEF WrittenOK
      <3> QED
        BY <2>1, <3>1, WrittenStays DEF Written
    <2>2. CASE StreamWrites(p) /\ stream'[p].session = stream[p].session /\ stream'[p].pos = stream[p].pos + 1
      BY <2>2, WriterAdvances DEF Written
    <2>3. ASSUME NEW t \in Tabs, session[t] \in Sessions, stream'[p].session = session[t], stream'[p].pos = offset[t]
          PROVE  Written(stream[p].session, stream[p].pos)'
      <3>1. offset[t] \in Offsets /\ Written(session[t], offset[t])
        BY <2>3 DEF TabTypes, WrittenOK
      <3> QED
        BY <2>3, <3>1, WrittenStays DEF Written
    <2> QED
      BY <1>3, <2>1, <2>2, <2>3, StreamsMoveHold DEF StreamsMove
  <1>4. ASSUME NEW s \in Sessions, sess'[s] = "completed" PROVE Written(s, N)'
    <2>1. Written(s, N)
      <3>1. CASE sess[s] = "completed"
        BY <3>1 DEF WrittenOK
      <3>2. CASE \E p \in Streams : stream[p].at = "writing" /\ stream[p].session = s /\ stream[p].pos = N
        BY <3>2 DEF WrittenOK
      <3> QED
        BY <1>4, <3>1, <3>2, CompletionMovesHold DEF CompletionMoves
    <2> QED
      BY <1>0, <2>1, WrittenStays
  <1>5. ASSUME NEW t \in Tabs, pc'[t] = "moving" PROVE Written(session[t], N)'
    <2>1. /\ session[t] \in Sessions /\ session'[t] = session[t]
          /\ pc[t] = "moving" \/ sess[session[t]] = "completed"
      BY <1>5, SavingMovesHold DEF SavingMoves
    <2>2. Written(session[t], N)
      BY <2>1 DEF WrittenOK
    <2> QED
      BY <1>0, <2>1, <2>2, WrittenStays DEF Written
  <1> QED
    BY <1>1, <1>2, <1>3, <1>4, <1>5 DEF WrittenOK

-----------------------------------------------------------------------------
(* The files saved and the files left *)

\* Only a save adds to the saved files, and takes its session's temporary file and the session.
LEMMA SavedMoves ==
  ASSUME [UploadNext]_uploadVars
  PROVE  \/ saved' = saved
         \/ \E t \in Tabs : /\ pc[t] = "moving" /\ session[t] \in temp /\ saved' = saved \union {SavedBy(t)}
                            /\ temp' = temp \ {session[t]} /\ sess' = [sess EXCEPT ![session[t]] = "gone"]
  BY DEF UploadNext, TabStep, StreamStep, Start, LoseConnection, Cancel, Status, InitUpload, Put, Save, Move, MoveFails,
         StreamBegins, StreamWrites, StreamEnds, StreamFails, CancelUpload, Expire, RecordAges, uploadVars

\* A session that is gone stays so, and a session only gets a temporary file when it is born.
LEMMA GoneStays ==
  ASSUME PanelTypes, OtherTypes, [UploadNext]_uploadVars, NEW s \in Sessions, sess[s] = "gone", s \notin temp
  PROVE  sess'[s] = "gone" /\ s \notin temp'
  <1> USE DEF PanelTypes, tabVars, panelVars
  <1>1. CASE sess' = sess /\ temp' = temp
    BY <1>1
  <1>2. ASSUME NEW t \in Tabs, InitUpload(t) PROVE sess'[s] = "gone" /\ s \notin temp'
    BY <1>2 DEF InitUpload
  <1>3. ASSUME NEW t \in Tabs, Move(t) PROVE sess'[s] = "gone" /\ s \notin temp'
    BY <1>3 DEF Move
  <1>4. ASSUME NEW t \in Tabs, MoveFails(t) PROVE sess'[s] = "gone" /\ s \notin temp'
    BY <1>4 DEF MoveFails, Drop
  <1>5. ASSUME NEW p \in Streams, StreamEnds(p) PROVE sess'[s] = "gone" /\ s \notin temp'
    BY <1>5 DEF StreamEnds
  <1>6. ASSUME NEW u \in Sessions, CancelUpload(u) \/ Expire(u) PROVE sess'[s] = "gone" /\ s \notin temp'
    BY <1>6 DEF CancelUpload, Expire, Drop
  <1> QED
    BY <1>1, <1>2, <1>3, <1>4, <1>5, <1>6
       DEF UploadNext, TabStep, StreamStep, Start, LoseConnection, Cancel, Status, Put, Save,
           StreamBegins, StreamWrites, StreamFails, RecordAges, uploadVars

LEMMA StepSavedOK == PanelTypes /\ OtherTypes /\ SavedOK /\ [UploadNext]_uploadVars => SavedOK'
  <1> SUFFICES ASSUME PanelTypes, OtherTypes, SavedOK, [UploadNext]_uploadVars, NEW f \in saved'
               PROVE  f.session \notin temp' /\ sess'[f.session] = "gone"
    BY DEF SavedOK
  <1>1. CASE f \in saved
    <2>1. f.session \in Sessions /\ sess[f.session] = "gone" /\ f.session \notin temp
      BY <1>1 DEF SavedOK, OtherTypes, File
    <2> QED
      BY <2>1, GoneStays
  <1>2. CASE f \notin saved
    <2>1. PICK t \in Tabs : /\ session[t] \in temp /\ saved' = saved \union {SavedBy(t)}
                            /\ temp' = temp \ {session[t]} /\ sess' = [sess EXCEPT ![session[t]] = "gone"]
      BY <1>2, SavedMoves
    <2>2. f.session = session[t] /\ session[t] \in Sessions
      BY <1>2, <2>1 DEF SavedBy, PanelTypes
    <2> QED
      BY <2>1, <2>2 DEF PanelTypes
  <1> QED
    BY <1>1, <1>2

LEMMA StepSavedIsWhole == WrittenOK /\ SavedIsWhole /\ [UploadNext]_uploadVars => SavedIsWhole'
  <1> SUFFICES ASSUME WrittenOK, SavedIsWhole, [UploadNext]_uploadVars, NEW f \in saved' PROVE Whole(f.content)
    BY DEF SavedIsWhole, Whole
  <1>1. CASE f \in saved
    BY <1>1 DEF SavedIsWhole
  <1>2. CASE f \notin saved
    <2>1. PICK t \in Tabs : pc[t] = "moving" /\ saved' = saved \union {SavedBy(t)}
      BY <1>2, SavedMoves
    <2>2. f.content = block[session[t]] /\ Written(session[t], N)
      BY <1>2, <2>1 DEF SavedBy, WrittenOK
    <2> QED
      BY <2>2 DEF Whole, Written, Blocks
  <1> QED
    BY <1>1, <1>2

LEMMA StepSavedOnce == SavedOK /\ SavedOnce /\ [UploadNext]_uploadVars => SavedOnce'
  <1> SUFFICES ASSUME SavedOK, SavedOnce, [UploadNext]_uploadVars PROVE SavedOnce'
    OBVIOUS
  <1>1. CASE saved' = saved
    BY <1>1 DEF SavedOnce
  <1>2. ASSUME NEW t \in Tabs, session[t] \in temp, saved' = saved \union {SavedBy(t)} PROVE SavedOnce'
    <2>1. \A f \in saved : f.session # SavedBy(t).session
      BY <1>2 DEF SavedOK, SavedBy
    <2> QED
      BY <1>2, <2>1 DEF SavedOnce
  <1> QED
    BY <1>1, <1>2, SavedMoves

LEMMA StepNoFileLeftBehind ==
  TabTypes /\ PanelTypes /\ OtherTypes /\ TabsOK /\ NoFileLeftBehind /\ [UploadNext]_uploadVars => NoFileLeftBehind'
  <1> SUFFICES ASSUME TabTypes, PanelTypes, OtherTypes, TabsOK, NoFileLeftBehind, [UploadNext]_uploadVars PROVE NoFileLeftBehind'
    OBVIOUS
  <1> USE DEF PanelTypes, NoFileLeftBehind, Exists, tabVars, panelVars
  <1>1. CASE sess' = sess /\ temp' = temp
    BY <1>1
  <1>2. ASSUME NEW t \in Tabs, InitUpload(t) PROVE NoFileLeftBehind'
    BY <1>2 DEF InitUpload
  <1>3. ASSUME NEW t \in Tabs, Move(t) PROVE NoFileLeftBehind'
    BY <1>3 DEF Move
  <1>4. ASSUME NEW t \in Tabs, MoveFails(t) PROVE NoFileLeftBehind'
    BY <1>4 DEF MoveFails, Drop
  <1>5. ASSUME NEW p \in Streams, StreamEnds(p) PROVE NoFileLeftBehind'
    <2>1. stream[p].session \in Sessions
      BY <1>5, ActiveStream DEF StreamEnds
    <2> QED
      BY <1>5, <2>1 DEF StreamEnds
  <1>6. ASSUME NEW u \in Sessions, CancelUpload(u) \/ Expire(u) PROVE NoFileLeftBehind'
    BY <1>6 DEF CancelUpload, Expire, Drop
  <1> QED
    BY <1>1, <1>2, <1>3, <1>4, <1>5, <1>6
       DEF UploadNext, TabStep, StreamStep, Start, LoseConnection, Cancel, Status, Put, Save,
           StreamBegins, StreamWrites, StreamFails, RecordAges, uploadVars

-----------------------------------------------------------------------------
\* The inductive invariant.
UploadInv ==
  TabTypes /\ PanelTypes /\ OtherTypes /\ TabsOK /\ WrittenOK /\ SavedOK /\ SavedIsWhole /\ SavedOnce /\ NoFileLeftBehind

\* Resumable uploads are type-correct and keep UploadInv: in particular, wherever an upload resumes,
\* and whatever a stream the client has left goes on writing, the blocks before it are there.
THEOREM UploadIsTypeCorrect == UploadSpec => [](UploadTypeOK /\ UploadInv)
  <1>1. UploadInit => UploadInv
    BY UploadStarts, TypeParts DEF UploadInv
  <1>2. UploadInv /\ [UploadNext]_uploadVars => UploadInv'
    BY StepTabTypes, StepPanelTypes, StepOtherTypes, StepTabsOK, StepWrittenOK, StepSavedOK, StepSavedIsWhole,
       StepSavedOnce, StepNoFileLeftBehind DEF UploadInv
  <1>3. UploadInv => UploadTypeOK
    BY TypeParts DEF UploadInv
  <1> QED
    BY <1>1, <1>2, <1>3, PTL DEF UploadSpec

\* A file the panel saves (saveUploadedFile) has no hole.
THEOREM SavedFilesAreWhole == UploadSpec => []SavedIsWhole
  <1>1. UploadInv => SavedIsWhole
    BY DEF UploadInv
  <1> QED
    BY <1>1, UploadIsTypeCorrect, PTL

\* Tabs that share a session's record save its file once.
THEOREM SavedFilesAreSavedOnce == UploadSpec => []SavedOnce
  <1>1. UploadInv => SavedOnce
    BY DEF UploadInv
  <1> QED
    BY <1>1, UploadIsTypeCorrect, PTL

\* Every temporary file of the upload manager belongs to a session it still knows.
THEOREM TemporaryFilesAreOwned == UploadSpec => []NoFileLeftBehind
  <1>1. UploadInv => NoFileLeftBehind
    BY DEF UploadInv
  <1> QED
    BY <1>1, UploadIsTypeCorrect, PTL

=============================================================================
