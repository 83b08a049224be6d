----------------------- MODULE OperationJournalProofs -----------------------
(***************************************************************************)
(* Theorems about the lifecycle journal, for every set of servers, keys,   *)
(* callers and containers.  The inductive invariant JInv relates a row to  *)
(* the call that inserted it and to the lists of startup recovery.         *)
(***************************************************************************)
EXTENDS OperationJournal, TLAPS

\* The active flag is exactly a live phase, and one row of a server has it.
RowsOK ==
  /\ \A id \in Ids : row[id].active <=> row[id].phase \in Live
  /\ \A id, jd \in Ids :
       (ServerOf(id) = ServerOf(jd) /\ row[id].active /\ row[jd].active) => id = jd

\* A call in progress still finds its row in the phase it left it in, unless
\* the operator has released it; and no two calls work for one row.
OwnersOK ==
  /\ \A c \in Callers : caller[c].pc # "idle" => mode = "up"
  /\ \A c \in Callers : caller[c].pc \in Busy =>
       \/ row[caller[c].id].phase = "recovered"
       \/ caller[c].pc = "prepared" /\ row[caller[c].id].phase = "prepared"
       \/ caller[c].pc # "prepared" /\ row[caller[c].id].phase = "executing"
  /\ \A c, d \in Callers :
       (caller[c].pc \in Busy /\ caller[d].pc \in Busy /\ caller[c].id = caller[d].id) => c = d

\* The history of a row agrees with its phase and with the call that works on it.
HistoryOK ==
  /\ \A id \in Ids : row[id].phase = "prepared" => ran[id] = 0
  /\ \A id \in Ids : row[id].phase # "absent" => ran[id] <= 1
  /\ \A id \in Ids : row[id].phase = "complete" => worked[id]
  /\ \A c \in Callers : caller[c].pc = "finalize_nil" => worked[caller[c].id]
  /\ \A c \in Callers : (caller[c].pc = "answered" /\ caller[c].answer = "nil") =>
       worked[caller[c].id] /\ row[caller[c].id].phase # "absent"

\* The lists of recovery hold rows that exist and that no call works on; while
\* no write has failed they hold every orphan.
ListsOK ==
  /\ mode # "recovering" => scan = {}
  /\ mode \in {"down", "pruned"} => review = {}
  /\ \A id \in scan \union review :
       row[id].phase # "absent" /\ \A c \in Callers : ~Owns(c, id)
  /\ (faults = 0 /\ mode \in {"recovering", "up"}) =>
       \A id \in Ids : Orphan(id) => id \in scan \union review

JInv == JournalTypeOK /\ RowsOK /\ OwnersOK /\ HistoryOK /\ ListsOK

-----------------------------------------------------------------------------
USE DEF Live, Terminal, Phases, Busy

LEMMA NoRowType == NoRow \in Row
  BY JournalAssumption DEF NoRow, Row

LEMMA NoCallType == NoCall \in Caller
  <1>1. PICK s \in Servers, k \in Keys : <<s, k>> \in Ids
    BY JournalAssumption DEF Ids
  <1>2. (CHOOSE id \in Ids : TRUE) \in Ids
    BY <1>1
  <1> QED BY <1>2 DEF NoCall, Caller, Answers

\* Advanced changes one row, to a well-typed one.
LEMMA AdvancedType ==
  ASSUME JournalTypeOK, NEW id \in Ids, NEW to \in Phases
  PROVE  /\ Advanced(id, to) \in [Ids -> Row]
         /\ Advanced(id, to)[id].phase = to
         /\ Advanced(id, to)[id].active <=> to \notin Terminal
         /\ \A jd \in Ids : jd # id => Advanced(id, to)[jd] = row[jd]
  <1>1. row \in [Ids -> Row] /\ row[id] \in Row /\ (to \notin Terminal) \in BOOLEAN
    BY DEF JournalTypeOK
  <1> DEFINE new == [row[id] EXCEPT !.phase = to, !.active = (to \notin Terminal), !.old = FALSE]
  <1>2. new \in Row /\ new.phase = to /\ new.active = (to \notin Terminal)
    BY <1>1 DEF Row
  <1>3. Advanced(id, to) = [row EXCEPT ![id] = new]
    BY <1>1 DEF Advanced, Row
  <1> HIDE DEF new
  <1> QED BY <1>1, <1>2, <1>3

LEMMA ReplayType ==
  ASSUME JournalTypeOK, NEW id \in Ids, NEW cid \in Containers
  PROVE  /\ Replay(row[id], cid) \in Answers
         /\ Replay(row[id], cid) = "nil" => row[id].phase = "complete"
  BY DEF JournalTypeOK, Row, Replay, Answers

LEMMA InitJInv == JournalInit => JInv
  <1> SUFFICES ASSUME JournalInit PROVE JInv
    OBVIOUS
  <1> USE JournalAssumption DEF JournalInit
  <1>1. JournalTypeOK
    BY NoRowType, NoCallType DEF JournalTypeOK
  <1>2. RowsOK /\ HistoryOK
    BY DEF RowsOK, HistoryOK, NoRow, NoCall
  <1>3. OwnersOK /\ ListsOK
    BY DEF OwnersOK, ListsOK, NoRow, NoCall, Owns, Orphan
  <1> QED BY <1>1, <1>2, <1>3 DEF JInv

\* Type correctness, one step per action.
LEMMA TypeStep == JournalTypeOK /\ [JournalNext]_journalVars => JournalTypeOK'
  <1> SUFFICES ASSUME JournalTypeOK, [JournalNext]_journalVars PROVE JournalTypeOK'
    OBVIOUS
  <1> USE JournalAssumption
  <1>1. ASSUME NEW c \in Callers, NEW id \in Ids, NEW cid \in Containers, BeginReused(c, id, cid)
        PROVE  JournalTypeOK'
    BY <1>1, ReplayType DEF BeginReused, Answer, JournalTypeOK, Caller
  <1>2. ASSUME NEW c \in Callers, NEW id \in Ids, NEW cid \in Containers, BeginInserted(c, id, cid)
        PROVE  JournalTypeOK'
    BY <1>2 DEF BeginInserted, JournalTypeOK, Row, Caller, Answers
  <1>3. ASSUME NEW c \in Callers, NEW id \in Ids, BeginRefused(c, id)
        PROVE  JournalTypeOK'
    BY <1>3 DEF BeginRefused, Answer, Fault, JournalTypeOK, Caller, Answers
  <1>4. ASSUME NEW c \in Callers, Enter(c)
        PROVE  JournalTypeOK'
    <2> caller[c].id \in Ids
      BY DEF JournalTypeOK, Caller
    <2>1. row' \in [Ids -> Row]
      BY <1>4, AdvancedType DEF Enter
    <2>2. caller' \in [Callers -> Caller] /\ ran' \in [Ids -> Nat]
      BY <1>4 DEF Enter, JournalTypeOK, Caller
    <2> QED BY <1>4, <2>1, <2>2 DEF Enter, JournalTypeOK
  <1>5. ASSUME NEW c \in Callers, EnterFails(c)
        PROVE  JournalTypeOK'
    <2> caller[c].id \in Ids
      BY DEF JournalTypeOK, Caller
    <2> QED BY <1>5, AdvancedType DEF EnterFails, Answer, Fault, JournalTypeOK, Caller, Answers
  <1>6. ASSUME NEW c \in Callers, NEW ok \in BOOLEAN, Mutate(c, ok)
        PROVE  JournalTypeOK'
    BY <1>6 DEF Mutate, JournalTypeOK, Caller
  <1>7. ASSUME NEW c \in Callers, Finalize(c)
        PROVE  JournalTypeOK'
    <2> caller[c].id \in Ids
      BY DEF JournalTypeOK, Caller
    <2> QED BY <1>7, AdvancedType DEF Finalize, Answer, Fault, JournalTypeOK, Caller, Answers
  <1>8. ASSUME NEW c \in Callers, Return(c)
        PROVE  JournalTypeOK'
    BY <1>8, NoCallType DEF Return, JournalTypeOK
  <1>9. CASE Crash
    BY <1>9, NoCallType DEF Crash, JournalTypeOK
  <1>10. CASE Prune
    BY <1>10, NoRowType DEF Prune, Fault, JournalTypeOK
  <1>11. CASE ListActive
    BY <1>11 DEF ListActive, Fault, JournalTypeOK
  <1>12. CASE Serve
    BY <1>12 DEF Serve, JournalTypeOK
  <1>13. ASSUME NEW id \in Ids, RecoverOne(id)
         PROVE  JournalTypeOK'
    BY <1>13, AdvancedType DEF RecoverOne, Fault, JournalTypeOK
  <1>14. ASSUME NEW id \in Ids, RetryReview(id)
         PROVE  JournalTypeOK'
    BY <1>14, AdvancedType DEF RetryReview, JournalTypeOK
  <1>15. ASSUME NEW id \in Ids, Resolve(id)
         PROVE  JournalTypeOK'
    BY <1>15, AdvancedType DEF Resolve, JournalTypeOK
  <1>16. ASSUME NEW id \in Ids, Age(id)
         PROVE  JournalTypeOK'
    BY <1>16 DEF Age, JournalTypeOK, Row
  <1>17. ASSUME NEW s \in Servers, DaemonFlips(s)
         PROVE  JournalTypeOK'
    BY <1>17 DEF DaemonFlips, JournalTypeOK
  <1>18. CASE UNCHANGED journalVars
    BY <1>18 DEF journalVars, JournalTypeOK
  <1> QED
    BY <1>1, <1>2, <1>3, <1>4, <1>5, <1>6, <1>7, <1>8, <1>9, <1>10, <1>11, <1>12,
       <1>13, <1>14, <1>15, <1>16, <1>17, <1>18
       DEF JournalNext, CallerStep, Startup

\* The tables, the threads and the lists keep their declared shape.
THEOREM TypeCorrect == JournalSpec => []JournalTypeOK
  <1>1. JournalInit => JournalTypeOK
    BY InitJInv DEF JInv
  <1> QED BY <1>1, TypeStep, PTL DEF JournalSpec
-----------------------------------------------------------------------------
(* The invariant is inductive, one lemma per conjunct *)

\* The only ways a row changes: inserted, advanced, forgotten, aged, or not.
LEMMA RowChanges ==
  ASSUME JInv, JournalNext, NEW id \in Ids
  PROVE  \/ row'[id] = row[id]
         \/ /\ row[id].phase = "absent" /\ row'[id].phase = "prepared" /\ row'[id].active
            /\ \A jd \in Ids : ServerOf(jd) = ServerOf(id) => ~row[jd].active
            /\ \A jd \in Ids : jd # id => row'[jd] = row[jd]
         \/ row[id].active /\ row[id].phase = "prepared" /\ row'[id].phase = "executing" /\ row'[id].active
         \/ row[id].active /\ row'[id].phase \in Terminal /\ ~row'[id].active
         \/ ~row[id].active /\ row'[id].phase = "absent" /\ ~row'[id].active
         \/ row'[id].phase = row[id].phase /\ row'[id].active = row[id].active
  <1> USE DEF JInv
  <1>1. ASSUME NEW jd \in Ids, NEW to \in Phases, row[jd].active, row' = Advanced(jd, to),
               to \in Terminal \/ (to = "executing" /\ row[jd].phase = "prepared")
        PROVE  \/ row'[id] = row[id]
               \/ row[id].active /\ row[id].phase = "prepared" /\ row'[id].phase = "executing" /\ row'[id].active
               \/ row[id].active /\ row'[id].phase \in Terminal /\ ~row'[id].active
    <2>1. CASE id # jd
      BY <1>1, <2>1, AdvancedType
    <2>2. CASE id = jd
      <3>1. row'[id].phase = to /\ (row'[id].active <=> to \notin Terminal)
        BY <1>1, <2>2, AdvancedType
      <3> QED BY <1>1, <2>2, <3>1
    <2> QED BY <2>1, <2>2
  <1>2. ASSUME NEW c \in Callers, Enter(c) \/ EnterFails(c) \/ Finalize(c), row' # row
        PROVE  \/ row'[id] = row[id]
               \/ row[id].active /\ row[id].phase = "prepared" /\ row'[id].phase = "executing" /\ row'[id].active
               \/ row[id].active /\ row'[id].phase \in Terminal /\ ~row'[id].active
    <2>1. caller[c].id \in Ids
      BY DEF JournalTypeOK, Caller
    <2>2. PICK to \in {"executing", "complete", "failed"} :
            /\ row' = Advanced(caller[c].id, to)
            /\ row[caller[c].id].active
            /\ to \in Terminal \/ row[caller[c].id].phase = "prepared"
      <3>1. CASE Enter(c)
        BY <3>1 DEF Enter, CanAdvance
      <3>2. CASE EnterFails(c)
        BY <1>2, <3>2 DEF EnterFails, CanAdvance
      <3>3. CASE Finalize(c)
        BY <1>2, <3>3 DEF Finalize, CanAdvance
      <3> QED BY <1>2, <3>1, <3>2, <3>3
    <2>3. to \in Phases /\ (to \in Terminal \/ (to = "executing" /\ row[caller[c].id].phase = "prepared"))
      BY <2>2
    <2> QED BY <1>1, <2>1, <2>2, <2>3
  <1>3. ASSUME NEW jd \in Ids, RecoverOne(jd) \/ RetryReview(jd) \/ Resolve(jd), row' # row
        PROVE  \/ row'[id] = row[id]
               \/ row[id].active /\ row[id].phase = "prepared" /\ row'[id].phase = "executing" /\ row'[id].active
               \/ row[id].active /\ row'[id].phase \in Terminal /\ ~row'[id].active
    <2>1. row[jd].active /\ row' = Advanced(jd, "recovered")
      BY <1>3 DEF RecoverOne, RetryReview, Resolve
    <2>2. "recovered" \in Phases
      OBVIOUS
    <2> QED BY <1>1, <2>1, <2>2
  <1>4. ASSUME NEW c \in Callers, NEW jd \in Ids, NEW cid \in Containers, BeginInserted(c, jd, cid)
        PROVE  \/ row'[id] = row[id]
               \/ /\ row[id].phase = "absent" /\ row'[id].phase = "prepared" /\ row'[id].active
                  /\ \A ad \in Ids : ServerOf(ad) = ServerOf(id) => ~row[ad].active
                  /\ \A ad \in Ids : ad # id => row'[ad] = row[ad]
    BY <1>4 DEF BeginInserted, JournalTypeOK, Locked
  <1>5. ASSUME Prune
        PROVE  row'[id] = row[id] \/ (~row[id].active /\ row'[id].phase = "absent" /\ ~row'[id].active)
    BY <1>5 DEF Prune, NoRow, JournalTypeOK
  <1>6. ASSUME NEW jd \in Ids, Age(jd)
        PROVE  row'[id].phase = row[id].phase /\ row'[id].active = row[id].active
    BY <1>6 DEF Age, JournalTypeOK, Row
  <1>7. CASE row' = row
    BY <1>7
  <1> QED
    BY <1>2, <1>3, <1>4, <1>5, <1>6, <1>7
       DEF JournalNext, CallerStep, Startup, BeginReused, BeginRefused, Mutate, Return,
           Crash, ListActive, Serve, DaemonFlips

LEMMA RowsStep == JInv /\ [JournalNext]_journalVars => RowsOK'
  <1>1. ASSUME JInv, JournalNext PROVE RowsOK'
    <2>1. ASSUME NEW id \in Ids PROVE (row[id].active <=> row[id].phase \in Live)'
      BY <1>1, <2>1, RowChanges DEF JInv, RowsOK
    <2>2. ASSUME NEW id \in Ids, NEW jd \in Ids, ServerOf(id) = ServerOf(jd),
                 row'[id].active, row'[jd].active
          PROVE  id = jd
      <3>1. row[id].active \/ row[id].phase = "absent"
        BY <1>1, <2>2, RowChanges DEF JInv, RowsOK
      <3>2. row[jd].active \/ row[jd].phase = "absent"
        BY <1>1, <2>2, RowChanges DEF JInv, RowsOK
      <3>3. CASE row[id].active /\ row[jd].active
        BY <1>1, <2>2, <3>3 DEF JInv, RowsOK
      <3>4. CASE ~row[id].active
        BY <1>1, <2>2, <3>4, RowChanges DEF JInv, RowsOK
      <3>5. CASE ~row[jd].active
        BY <1>1, <2>2, <3>5, RowChanges DEF JInv, RowsOK
      <3> QED BY <3>3, <3>4, <3>5
    <2> QED BY <2>1, <2>2 DEF RowsOK
  <1>2. ASSUME JInv, UNCHANGED journalVars PROVE RowsOK'
    BY <1>2 DEF JInv, RowsOK, journalVars
  <1> QED BY <1>1, <1>2

LEMMA OwnersStep == JInv /\ [JournalNext]_journalVars => OwnersOK'
  <1> SUFFICES ASSUME JInv, [JournalNext]_journalVars PROVE OwnersOK'
    OBVIOUS
  <1> USE DEF JInv, OwnersOK
  <1>id. \A c \in Callers : caller[c].id \in Ids
    BY DEF JournalTypeOK, Caller
  <1>0. ASSUME NEW c \in Callers, NEW id \in Ids, NEW cid \in Containers, BeginReused(c, id, cid)
        PROVE  OwnersOK'
    BY <1>0 DEF BeginReused, Answer, JournalTypeOK
  <1>1. ASSUME NEW c \in Callers, NEW id \in Ids, BeginRefused(c, id)
        PROVE  OwnersOK'
    BY <1>1 DEF BeginRefused, Answer, JournalTypeOK
  <1>2. ASSUME NEW c \in Callers, NEW id \in Ids, NEW cid \in Containers, BeginInserted(c, id, cid)
        PROVE  OwnersOK'
    <2>1. \A d \in Callers : caller[d].pc \in Busy => caller[d].id # id
      BY <1>2 DEF BeginInserted
    <2>2. /\ caller'[c].pc = "prepared" /\ caller'[c].id = id
          /\ \A d \in Callers : d # c => caller'[d] = caller[d]
          /\ row'[id].phase = "prepared"
          /\ \A jd \in Ids : jd # id => row'[jd] = row[jd]
          /\ mode' = "up"
      BY <1>2 DEF BeginInserted, JournalTypeOK
    <2> QED BY <1>id, <2>1, <2>2
  <1>3. ASSUME NEW c \in Callers, Enter(c)
        PROVE  OwnersOK'
    <2>1. /\ caller[c].pc = "prepared" /\ caller'[c].pc = "executing" /\ caller'[c].id = caller[c].id
          /\ \A d \in Callers : d # c => caller'[d] = caller[d]
          /\ mode' = mode
      BY <1>3 DEF Enter, JournalTypeOK, Caller
    <2>2. /\ row'[caller[c].id].phase = "executing"
          /\ \A jd \in Ids : jd # caller[c].id => row'[jd] = row[jd]
      BY <1>3, <1>id, AdvancedType DEF Enter
    <2> QED BY <1>id, <2>1, <2>2
  <1>4. ASSUME NEW c \in Callers, EnterFails(c) \/ Finalize(c)
        PROVE  OwnersOK'
    <2>1. /\ caller[c].pc \in Busy /\ caller'[c].pc = "answered"
          /\ \A d \in Callers : d # c => caller'[d] = caller[d]
          /\ mode' = mode
      BY <1>4 DEF EnterFails, Finalize, Answer, JournalTypeOK, Caller
    <2>2. \A jd \in Ids : jd # caller[c].id => row'[jd] = row[jd]
      BY <1>4, <1>id, AdvancedType DEF EnterFails, Finalize
    <2> QED BY <1>id, <2>1, <2>2
  <1>5. ASSUME NEW c \in Callers, NEW ok \in BOOLEAN, Mutate(c, ok)
        PROVE  OwnersOK'
    <2>1. /\ caller[c].pc = "executing" /\ caller'[c].pc \in {"finalize_nil", "finalize_error"}
          /\ caller'[c].id = caller[c].id
          /\ \A d \in Callers : d # c => caller'[d] = caller[d]
          /\ mode' = mode /\ row' = row
      BY <1>5 DEF Mutate, JournalTypeOK, Caller
    <2> QED BY <1>id, <2>1
  <1>6. ASSUME NEW c \in Callers, Return(c)
        PROVE  OwnersOK'
    BY <1>6 DEF Return, NoCall, JournalTypeOK
  <1>7. CASE Crash
    BY <1>7 DEF Crash, NoCall
  <1>8. CASE Prune \/ ListActive \/ Serve
    <2>1. \A c \in Callers : caller'[c].pc = "idle"
      BY <1>8 DEF Prune, ListActive, Serve
    <2> QED BY <2>1
  <1>9. ASSUME NEW id \in Ids, RecoverOne(id) \/ RetryReview(id)
        PROVE  OwnersOK'
    <2>1. /\ \A c \in Callers : caller[c].pc \in Busy => caller[c].id # id
          /\ \A jd \in Ids : jd # id => row'[jd] = row[jd]
          /\ caller' = caller /\ mode' = mode
      BY <1>9, AdvancedType DEF RecoverOne, RetryReview, ListsOK, Owns
    <2> QED BY <1>id, <2>1
  <1>10. ASSUME NEW id \in Ids, Resolve(id)
         PROVE  OwnersOK'
    <2>1. /\ row'[id].phase = "recovered"
          /\ \A jd \in Ids : jd # id => row'[jd] = row[jd]
          /\ caller' = caller /\ mode' = mode
      BY <1>10, AdvancedType DEF Resolve
    <2> QED BY <1>id, <2>1
  <1>11. ASSUME NEW id \in Ids, Age(id)
         PROVE  OwnersOK'
    <2>1. /\ \A jd \in Ids : row'[jd].phase = row[jd].phase
          /\ caller' = caller /\ mode' = mode
      BY <1>11 DEF Age, JournalTypeOK, Row
    <2> QED BY <1>id, <2>1
  <1>12. CASE (\E s \in Servers : DaemonFlips(s)) \/ UNCHANGED journalVars
    BY <1>12 DEF DaemonFlips, journalVars
  <1> HIDE DEF JInv, OwnersOK
  <1> QED
    BY <1>0, <1>1, <1>2, <1>3, <1>4, <1>5, <1>6, <1>7, <1>8, <1>9, <1>10, <1>11, <1>12
       DEF JournalNext, CallerStep, Startup

LEMMA HistoryStep == JInv /\ [JournalNext]_journalVars => HistoryOK'
  <1> SUFFICES ASSUME JInv, [JournalNext]_journalVars PROVE HistoryOK'
    OBVIOUS
  <1> USE DEF JInv, HistoryOK
  <1>id. \A c \in Callers : caller[c].id \in Ids
    BY DEF JournalTypeOK, Caller
  <1>1. ASSUME NEW c \in Callers, NEW id \in Ids, NEW cid \in Containers, BeginReused(c, id, cid)
        PROVE  HistoryOK'
    <2>1. /\ caller'[c].pc = "answered" /\ caller'[c].id = id
          /\ caller'[c].answer = Replay(row[id], cid) /\ row[id].phase # "absent"
          /\ \A d \in Callers : d # c => caller'[d] = caller[d]
          /\ UNCHANGED <<row, ran, worked>>
      BY <1>1 DEF BeginReused, Answer, JournalTypeOK
    <2> QED BY <1>id, <2>1, ReplayType
  <1>2. ASSUME NEW c \in Callers, NEW id \in Ids, BeginRefused(c, id)
        PROVE  HistoryOK'
    BY <1>2 DEF BeginRefused, Answer, JournalTypeOK
  <1>3. ASSUME NEW c \in Callers, NEW id \in Ids, NEW cid \in Containers, BeginInserted(c, id, cid)
        PROVE  HistoryOK'
    <2>1. /\ caller'[c].pc = "prepared"
          /\ \A d \in Callers : d # c => caller'[d] = caller[d]
          /\ row[id].phase = "absent" /\ row'[id].phase = "prepared"
          /\ \A jd \in Ids : jd # id => row'[jd] = row[jd]
          /\ ran'[id] = 0 /\ \A jd \in Ids : jd # id => ran'[jd] = ran[jd]
          /\ \A jd \in Ids : jd # id => worked'[jd] = worked[jd]
      BY <1>3 DEF BeginInserted, JournalTypeOK
    <2>2. \A d \in Callers : caller[d].pc \in Busy => caller[d].id # id
      BY <2>1 DEF OwnersOK
    <2> QED BY <1>id, <2>1, <2>2
  <1>4. ASSUME NEW c \in Callers, Enter(c)
        PROVE  HistoryOK'
    <2> DEFINE own == caller[c].id
    <2>1. /\ caller'[c].pc = "executing"
          /\ \A d \in Callers : d # c => caller'[d] = caller[d]
          /\ ran'[own] = ran[own] + 1 /\ \A jd \in Ids : jd # own => ran'[jd] = ran[jd]
          /\ worked' = worked
      BY <1>4, <1>id DEF Enter, JournalTypeOK, Caller
    <2>2. /\ row[own].phase = "prepared" /\ row'[own].phase = "executing"
          /\ \A jd \in Ids : jd # own => row'[jd] = row[jd]
      BY <1>4, <1>id, AdvancedType DEF Enter, CanAdvance
    <2> HIDE DEF own
    <2> QED BY <1>id, <2>1, <2>2
  <1>5. ASSUME NEW c \in Callers, EnterFails(c)
        PROVE  HistoryOK'
    <2>1. /\ caller'[c].pc = "answered" /\ caller'[c].answer = "attempt_error"
          /\ \A d \in Callers : d # c => caller'[d] = caller[d]
          /\ UNCHANGED <<ran, worked>>
      BY <1>5 DEF EnterFails, Answer, JournalTypeOK
    <2>2. \/ row' = row
          \/ /\ row[caller[c].id].phase = "prepared" /\ row'[caller[c].id].phase = "failed"
             /\ \A jd \in Ids : jd # caller[c].id => row'[jd] = row[jd]
      BY <1>5, <1>id, AdvancedType DEF EnterFails, CanAdvance
    <2> QED BY <1>id, <2>1, <2>2
  <1>6. ASSUME NEW c \in Callers, NEW ok \in BOOLEAN, Mutate(c, ok)
        PROVE  HistoryOK'
    <2>1. /\ caller'[c].pc # "answered" /\ caller'[c].id = caller[c].id
          /\ caller'[c].pc = "finalize_nil" => ok
          /\ \A d \in Callers : d # c => caller'[d] = caller[d]
          /\ UNCHANGED <<row, ran>>
          /\ worked'[caller[c].id] = (worked[caller[c].id] \/ ok)
          /\ \A jd \in Ids : jd # caller[c].id => worked'[jd] = worked[jd]
      BY <1>6, <1>id DEF Mutate, JournalTypeOK, Caller
    <2> QED BY <1>id, <2>1
  <1>7. ASSUME NEW c \in Callers, Finalize(c)
        PROVE  HistoryOK'
    <2> DEFINE own == caller[c].id
    <2>1. /\ caller[c].id = own /\ caller'[c].pc = "answered" /\ caller'[c].id = own
          /\ caller'[c].answer = "nil" => caller[c].pc = "finalize_nil"
          /\ caller[c].pc \in {"finalize_nil", "finalize_error"}
          /\ \A d \in Callers : d # c => caller'[d] = caller[d]
          /\ UNCHANGED <<ran, worked>>
      BY <1>7 DEF Finalize, Answer, JournalTypeOK
    <2>2. \/ row' = row
          \/ /\ row[own].phase = "executing"
             /\ \/ caller[c].pc = "finalize_nil" /\ row'[own].phase = "complete"
                \/ row'[own].phase = "failed"
             /\ \A jd \in Ids : jd # own => row'[jd] = row[jd]
      BY <1>7, <1>id, AdvancedType DEF Finalize, CanAdvance
    <2>3. row[own].phase # "absent"
      BY <2>1 DEF OwnersOK
    <2> HIDE DEF own
    <2> QED BY <1>id, <2>1, <2>2, <2>3
  <1>8. ASSUME NEW c \in Callers, Return(c)
        PROVE  HistoryOK'
    BY <1>8 DEF Return, NoCall, JournalTypeOK
  <1>9. CASE Crash
    BY <1>9 DEF Crash, NoCall
  <1>10. CASE Prune
    <2>1. /\ \A c \in Callers : caller'[c].pc = "idle"
          /\ UNCHANGED <<ran, worked>>
          /\ \A id \in Ids : row'[id] = row[id] \/ row'[id].phase = "absent"
      BY <1>10 DEF Prune, OwnersOK, NoRow
    <2> QED BY <1>id, <2>1
  <1>11. CASE ListActive \/ Serve
    BY <1>11 DEF ListActive, Serve
  <1>12. ASSUME NEW id \in Ids, RecoverOne(id) \/ RetryReview(id) \/ Resolve(id)
         PROVE  HistoryOK'
    <2>1. /\ \/ row' = row
             \/ row[id].active /\ row'[id].phase = "recovered"
          /\ \A jd \in Ids : jd # id => row'[jd] = row[jd]
          /\ UNCHANGED <<caller, ran, worked>>
      BY <1>12, AdvancedType DEF RecoverOne, RetryReview, Resolve
    <2>2. row[id].active => row[id].phase # "absent"
      BY DEF RowsOK
    <2> QED BY <1>id, <2>1, <2>2
  <1>13. ASSUME NEW id \in Ids, Age(id)
         PROVE  HistoryOK'
    <2>1. /\ \A jd \in Ids : row'[jd].phase = row[jd].phase
          /\ UNCHANGED <<caller, ran, worked>>
      BY <1>13 DEF Age, JournalTypeOK, Row
    <2> QED BY <1>id, <2>1
  <1>14. CASE (\E s \in Servers : DaemonFlips(s)) \/ UNCHANGED journalVars
    BY <1>14 DEF DaemonFlips, journalVars
  <1> HIDE DEF JInv, HistoryOK
  <1> QED
    BY <1>1, <1>2, <1>3, <1>4, <1>5, <1>6, <1>7, <1>8, <1>9, <1>10, <1>11, <1>12, <1>13, <1>14
       DEF JournalNext, CallerStep, Startup

LEMMA ListsStep == JInv /\ [JournalNext]_journalVars => ListsOK'
  <1> SUFFICES ASSUME JInv, [JournalNext]_journalVars PROVE ListsOK'
    OBVIOUS
  <1> USE DEF JInv, ListsOK, Owns, Orphan
  <1>id. \A c \in Callers : caller[c].id \in Ids
    BY DEF JournalTypeOK, Caller
  <1>up. ASSUME NEW c \in Callers, CallerStep(c)
         PROVE  mode = "up" /\ UNCHANGED <<mode, scan, review, reachable>> /\ scan = {}
    BY <1>up DEF CallerStep, BeginReused, BeginRefused, BeginInserted, Enter, EnterFails,
         Mutate, Finalize, Return, OwnersOK
  <1>flt. faults = 0 \/ (faults # 0 /\ (faults' = faults \/ faults' = faults + 1 => faults' # 0))
    BY JournalAssumption DEF JournalTypeOK
  <1>1. ASSUME NEW c \in Callers, NEW id \in Ids, NEW cid \in Containers, BeginReused(c, id, cid)
        PROVE  ListsOK'
    <2>1. /\ caller[c].pc = "idle" /\ caller'[c].pc = "answered"
          /\ \A d \in Callers : d # c => caller'[d] = caller[d]
          /\ UNCHANGED <<row, mode, scan, review, faults>>
      BY <1>1 DEF BeginReused, Answer, JournalTypeOK
    <2> QED BY <1>id, <2>1
  <1>2. ASSUME NEW c \in Callers, NEW id \in Ids, BeginRefused(c, id)
        PROVE  ListsOK'
    <2>1. /\ caller[c].pc = "idle" /\ caller'[c].pc = "answered"
          /\ \A d \in Callers : d # c => caller'[d] = caller[d]
          /\ UNCHANGED <<row, mode, scan, review>>
          /\ faults' = faults \/ faults' = faults + 1
      BY <1>2 DEF BeginRefused, Fault, Answer, JournalTypeOK
    <2> QED BY <1>id, <1>flt, <2>1
  <1>3. ASSUME NEW c \in Callers, NEW id \in Ids, NEW cid \in Containers, BeginInserted(c, id, cid)
        PROVE  ListsOK'
    <2>1. /\ caller[c].pc = "idle" /\ caller'[c].pc = "prepared" /\ caller'[c].id = id
          /\ \A d \in Callers : d # c => caller'[d] = caller[d]
          /\ UNCHANGED <<mode, scan, review, faults>> /\ mode = "up"
          /\ row[id].phase = "absent"
          /\ \A jd \in Ids : jd # id => row'[jd] = row[jd]
      BY <1>3 DEF BeginInserted, JournalTypeOK
    <2>2. scan \subseteq Ids /\ review \subseteq Ids /\ id \notin scan \union review
      BY <2>1 DEF JournalTypeOK
    <2> QED BY <1>id, <2>1, <2>2
  <1>4. ASSUME NEW c \in Callers, Enter(c) \/ EnterFails(c) \/ Finalize(c)
        PROVE  ListsOK'
    <2> DEFINE own == caller[c].id
    <2>1. /\ caller[c].pc \in Busy
          /\ \A d \in Callers : d # c => caller'[d] = caller[d]
          /\ UNCHANGED <<mode, scan, review>> /\ mode = "up" /\ scan = {}
          /\ caller'[c].pc \in Busy => caller'[c].id = own
          /\ faults' = faults \/ faults' = faults + 1
      BY <1>4, <1>up DEF CallerStep, Enter, EnterFails, Finalize, Answer, Fault, JournalTypeOK, Caller
    <2>2. \A jd \in Ids : jd # own => row'[jd] = row[jd]
      BY <1>4, <1>id, AdvancedType DEF Enter, EnterFails, Finalize
    <2>3. /\ caller'[c].pc \in Busy \/ ~row'[own].active \/ faults' # 0
      <3>1. CASE Enter(c)
        BY <3>1 DEF Enter, JournalTypeOK, Caller
      <3>2. CASE EnterFails(c)
        <4>1. CASE faults' # 0
          BY <4>1
        <4>2. CASE row' = row /\ ~CanAdvance(own, "prepared")
          BY <1>id, <2>1, <3>2, <4>2 DEF EnterFails, CanAdvance, OwnersOK, RowsOK
        <4> QED BY <1>flt, <3>2, <4>1, <4>2 DEF EnterFails, Fault
      <3>3. CASE Finalize(c)
        <4>1. CASE faults' # 0
          BY <4>1
        <4>2. CASE CanAdvance(own, "executing") /\ \E to \in {"complete", "failed"} : row' = Advanced(own, to)
          BY <1>id, <4>2, AdvancedType
        <4>3. CASE row' = row /\ ~CanAdvance(own, "executing")
          BY <1>id, <2>1, <3>3, <4>3 DEF Finalize, CanAdvance, OwnersOK, RowsOK
        <4> QED BY <1>flt, <3>3, <4>1, <4>2, <4>3 DEF Finalize, Fault
      <3> QED BY <1>4, <3>1, <3>2, <3>3
    <2>4. own \in Ids /\ own \notin review /\ review \subseteq Ids
      BY <1>id, <2>1 DEF JournalTypeOK
    <2>5. \A jd \in scan' \union review' :
            row'[jd].phase # "absent" /\ \A d \in Callers : ~Owns(d, jd)'
      BY <2>1, <2>2, <2>4
    <2>6. ASSUME faults' = 0, NEW jd \in Ids, Orphan(jd)'
          PROVE  jd \in scan' \union review'
      <3>1. CASE jd = own
        BY <2>1, <2>3, <2>6, <3>1
      <3>2. CASE jd # own
        <4>1. faults = 0 /\ row[jd].active /\ \A d \in Callers : ~Owns(d, jd)
          BY <1>flt, <2>1, <2>2, <2>6, <3>2
        <4> QED BY <2>1, <4>1
      <3> QED BY <3>1, <3>2
    <2> QED BY <2>1, <2>5, <2>6
  <1>5. ASSUME NEW c \in Callers, NEW ok \in BOOLEAN, Mutate(c, ok)
        PROVE  ListsOK'
    <2>1. /\ caller[c].pc \in Busy /\ caller'[c].pc \in Busy /\ caller'[c].id = caller[c].id
          /\ \A d \in Callers : d # c => caller'[d] = caller[d]
          /\ UNCHANGED <<row, mode, scan, review, faults>>
      BY <1>5 DEF Mutate, JournalTypeOK, Caller
    <2> QED BY <1>id, <2>1
  <1>6. ASSUME NEW c \in Callers, Return(c)
        PROVE  ListsOK'
    <2>1. /\ caller[c].pc \notin Busy /\ caller'[c].pc \notin Busy
          /\ \A d \in Callers : d # c => caller'[d] = caller[d]
          /\ UNCHANGED <<row, mode, scan, review, faults>>
      BY <1>6 DEF Return, NoCall, JournalTypeOK
    <2> QED BY <1>id, <2>1
  <1>7. CASE Crash \/ Prune
    <2>1. mode' \in {"down", "pruned"} /\ scan' = {} /\ review' = {}
      BY <1>7 DEF Crash, Prune
    <2> QED BY <2>1
  <1>8. CASE ListActive
    <2>1. \A c \in Callers : caller'[c].pc = "idle"
      BY <1>8 DEF ListActive, OwnersOK
    <2>2. /\ mode' = "recovering" /\ row' = row
          /\ \/ scan' = {id \in Ids : row[id].active}
             \/ scan' = {} /\ faults' # 0
          /\ review' = {}
      BY <1>8, <1>flt DEF ListActive, Fault, JournalTypeOK
    <2>3. \A id \in Ids : row[id].active => row[id].phase # "absent"
      BY DEF RowsOK
    <2> QED BY <2>1, <2>2, <2>3
  <1>9. CASE Serve
    BY <1>9 DEF Serve
  <1>10. ASSUME NEW id \in Ids, RecoverOne(id) \/ RetryReview(id) \/ Resolve(id)
         PROVE  ListsOK'
    <2>1. /\ UNCHANGED <<caller, mode>>
          /\ \A jd \in Ids : jd # id => row'[jd] = row[jd]
          /\ row'[id] = row[id] \/ (row'[id].phase = "recovered" /\ ~row'[id].active)
          /\ faults' = faults \/ faults' = faults + 1
      BY <1>10, AdvancedType DEF RecoverOne, RetryReview, Resolve, Fault
    <2>2. /\ scan' \union review' \subseteq scan \union review
          /\ scan' \subseteq scan
          /\ mode \in {"down", "pruned"} => review' = review
          /\ \A jd \in (scan \union review) \ (scan' \union review') : jd = id /\ ~row'[id].active
      BY <1>10, <2>1, AdvancedType DEF RecoverOne, RetryReview, Resolve, JournalTypeOK
    <2>3. \A jd \in Ids : (row'[jd].active => row[jd].active)
                         /\ (row[jd].phase # "absent" => row'[jd].phase # "absent")
      BY <2>1
    <2>4. \A jd \in scan' \union review' :
            row'[jd].phase # "absent" /\ \A c \in Callers : ~Owns(c, jd)'
      BY <2>1, <2>2, <2>3 DEF JournalTypeOK
    <2>5. ASSUME faults' = 0, mode' \in {"recovering", "up"}, NEW jd \in Ids, Orphan(jd)'
          PROVE  jd \in scan' \union review'
      <3>1. faults = 0 /\ mode \in {"recovering", "up"} /\ Orphan(jd) /\ row'[jd].active
        BY <1>flt, <2>1, <2>3, <2>5
      <3> QED BY <2>2, <3>1
    <2> QED BY <2>1, <2>2, <2>4, <2>5
  <1>11. ASSUME NEW id \in Ids, Age(id)
         PROVE  ListsOK'
    <2>1. /\ \A jd \in Ids : row'[jd].phase = row[jd].phase /\ row'[jd].active = row[jd].active
          /\ UNCHANGED <<caller, mode, scan, review, faults>>
      BY <1>11 DEF Age, JournalTypeOK, Row
    <2> QED BY <2>1 DEF JournalTypeOK
  <1>12. CASE (\E s \in Servers : DaemonFlips(s)) \/ UNCHANGED journalVars
    BY <1>12 DEF DaemonFlips, journalVars
  <1> HIDE DEF JInv, ListsOK, Owns, Orphan
  <1> QED
    BY <1>1, <1>2, <1>3, <1>4, <1>5, <1>6, <1>7, <1>8, <1>9, <1>10, <1>11, <1>12
       DEF JournalNext, CallerStep, Startup

LEMMA InductiveJInv == JInv /\ [JournalNext]_journalVars => JInv'
  BY TypeStep, RowsStep, OwnersStep, HistoryStep, ListsStep DEF JInv

\* The strengthening behind every theorem below holds in every reachable state.
THEOREM InvariantJInv == JournalSpec => []JInv
  BY InitJInv, InductiveJInv, PTL DEF JournalSpec
-----------------------------------------------------------------------------
(* What the journal guarantees *)

\* Mutations of one server overlap only past an operator's release
\* (RunJournaled, journal.go:62).
THEOREM NoInterleavingHolds == JournalSpec => []NoInterleaving
  <1>1. JInv => NoInterleaving
    <2> SUFFICES ASSUME JInv, NEW c \in Callers, NEW d \in Callers, c # d,
                        caller[c].pc \in Busy, caller[d].pc \in Busy,
                        ServerOf(caller[c].id) = ServerOf(caller[d].id),
                        row[caller[c].id].phase # "recovered",
                        row[caller[d].id].phase # "recovered"
                 PROVE  FALSE
      BY DEF NoInterleaving
    <2>1. caller[c].id \in Ids /\ caller[d].id \in Ids
      BY DEF JInv, JournalTypeOK, Caller
    <2>2. row[caller[c].id].active /\ row[caller[d].id].active
      BY <2>1 DEF JInv, OwnersOK, RowsOK
    <2>3. caller[c].id = caller[d].id
      BY <2>1, <2>2 DEF JInv, RowsOK
    <2> QED BY <2>3 DEF JInv, OwnersOK
  <1> QED BY <1>1, InvariantJInv, PTL

\* One request key runs its mutation at most once (RunJournaled's replay switch).
THEOREM AtMostOnceHolds == JournalSpec => []AtMostOnce
  <1>1. JInv => AtMostOnce
    BY DEF JInv, HistoryOK, AtMostOnce
  <1> QED BY <1>1, InvariantJInv, PTL

\* A nil answer stands for a mutation that succeeded.
THEOREM NilMeansWorkedHolds == JournalSpec => []NilMeansWorked
  <1>1. JInv => NilMeansWorked
    BY DEF JInv, HistoryOK, NilMeansWorked
  <1> QED BY <1>1, InvariantJInv, PTL

\* Until a journal write fails, no lock is left without a call or a review.
THEOREM OrphansAreReviewedHolds == JournalSpec => []OrphansAreReviewed
  <1>1. JInv => OrphansAreReviewed
    BY DEF JInv, ListsOK, OrphansAreReviewed
  <1> QED BY <1>1, InvariantJInv, PTL

\* Recovery and review only ever hold rows that no running call works on.
THEOREM ReviewLeavesTheLiveAloneHolds == JournalSpec => []ReviewLeavesTheLiveAlone
  <1>1. JInv => ReviewLeavesTheLiveAlone
    BY DEF JInv, ListsOK, ReviewLeavesTheLiveAlone
  <1> QED BY <1>1, InvariantJInv, PTL

\* A lock is given up by its own call with the phase that is due, or as
\* recovered by a pass that can read the daemon or by the operator.
THEOREM LockGivenUpKnowinglyHolds == JournalSpec => LockGivenUpKnowingly
  <1> DEFINE Knowingly(id) ==
        (row[id].active /\ ~row'[id].active) =>
          \/ \E c \in Callers : GivesUp(c, id)
          \/ /\ row'[id].phase = "recovered"
             /\ reachable[ServerOf(id)] \/ UNCHANGED <<scan, review>>
  <1>1. ASSUME JInv, JournalNext, NEW id \in Ids PROVE Knowingly(id)
    <2> USE <1>1 DEF JInv
    <2>id. \A c \in Callers : caller[c].id \in Ids
      BY DEF JournalTypeOK, Caller
    <2>1. ASSUME NEW c \in Callers, Enter(c)
          PROVE  Knowingly(id)
      <3>1. row'[caller[c].id].active /\ \A jd \in Ids : jd # caller[c].id => row'[jd] = row[jd]
        BY <2>1, <2>id, AdvancedType DEF Enter
      <3> QED BY <3>1
    <2>2. ASSUME NEW c \in Callers, EnterFails(c), row' # row
          PROVE  Knowingly(id)
      <3>1. /\ caller[c].pc = "prepared" /\ row'[caller[c].id].phase = "failed"
            /\ \A jd \in Ids : jd # caller[c].id => row'[jd] = row[jd]
        BY <2>2, <2>id, AdvancedType DEF EnterFails
      <3> QED BY <3>1 DEF GivesUp, Owns
    <2>3. ASSUME NEW c \in Callers, Finalize(c), row' # row
          PROVE  Knowingly(id)
      <3>1. /\ \/ caller[c].pc = "finalize_nil" /\ row'[caller[c].id].phase = "complete"
               \/ caller[c].pc = "finalize_error" /\ row'[caller[c].id].phase = "failed"
            /\ \A jd \in Ids : jd # caller[c].id => row'[jd] = row[jd]
        BY <2>3, <2>id, AdvancedType DEF Finalize
      <3> QED BY <3>1 DEF GivesUp, Owns
    <2>4. ASSUME NEW jd \in Ids, RecoverOne(jd) \/ RetryReview(jd) \/ Resolve(jd), row' # row
          PROVE  Knowingly(id)
      <3>1. /\ row'[jd].phase = "recovered"
            /\ \A ad \in Ids : ad # jd => row'[ad] = row[ad]
            /\ reachable[ServerOf(jd)] \/ UNCHANGED <<scan, review>>
        BY <2>4, AdvancedType DEF RecoverOne, RetryReview, Resolve
      <3> QED BY <3>1
    <2>5. ASSUME NEW c \in Callers, NEW jd \in Ids, NEW cid \in Containers, BeginInserted(c, jd, cid)
          PROVE  Knowingly(id)
      <3>1. row'[jd].active /\ \A ad \in Ids : ad # jd => row'[ad] = row[ad]
        BY <2>5 DEF BeginInserted, JournalTypeOK
      <3> QED BY <3>1
    <2>6. CASE Prune
      BY <2>6 DEF Prune, JournalTypeOK
    <2>7. ASSUME NEW jd \in Ids, Age(jd)
          PROVE  Knowingly(id)
      BY <2>7 DEF Age, JournalTypeOK, Row
    <2>8. CASE row' = row
      BY <2>8
    <2> HIDE DEF Knowingly
    <2> QED
      BY <2>1, <2>2, <2>3, <2>4, <2>5, <2>6, <2>7, <2>8
         DEF JournalNext, CallerStep, Startup, BeginReused, BeginRefused, Mutate, Return,
             Crash, ListActive, Serve, DaemonFlips
  <1>2. JInv /\ [JournalNext]_journalVars =>
          [\A id \in Ids : Knowingly(id)]_journalVars
    BY <1>1
  <1> QED BY <1>2, InvariantJInv, PTL DEF JournalSpec, LockGivenUpKnowingly, Knowingly
-----------------------------------------------------------------------------
(* The journal implements LifecycleLock *)

LEMMA FateOf ==
  /\ \A id \in Ids : Fate[id] = CASE row[id].phase = "absent"    -> "new"
                               [] row[id].phase = "prepared"  -> "claimed"
                               [] row[id].phase = "executing" -> "started"
                               [] OTHER                       -> row[id].phase
  /\ Fate = [id \in Ids |-> Fate[id]]
  BY DEF Fate

\* A step that changes the phase of one row changes one fate.
LEMMA FateStep ==
  ASSUME NEW id \in Ids, \A jd \in Ids : jd # id => row'[jd] = row[jd]
  PROVE  Fate' = [Fate EXCEPT ![id] = Fate'[id]]
  BY DEF Fate

LEMMA DecideStep ==
  ASSUME JInv, NEW id \in Ids, NEW to \in Terminal, row[id].active, row' = Advanced(id, to),
         to = "complete" => row[id].phase = "executing" /\ worked[id],
         worked' = worked
  PROVE  Lock!Next
  <1>1. /\ row'[id].phase = to
        /\ \A jd \in Ids : jd # id => row'[jd] = row[jd]
    <2>1. to \in Phases
      OBVIOUS
    <2> QED BY <2>1, AdvancedType DEF JInv
  <1>2. Fate' = [Fate EXCEPT ![id] = to]
    <2>1. Fate'[id] = to
      BY <1>1 DEF Fate
    <2> QED BY <1>1, <2>1, FateStep
  <1>3. Fate[id] \in Lock!Open /\ (to = "complete" => Fate[id] = "started")
    BY DEF Fate, Lock!Open, JInv, RowsOK
  <1>4. Lock!Decide(id, to) /\ to \in Lock!Decided /\ id \in Lock!Ids
    BY <1>2, <1>3 DEF Lock!Decide, Lock!Decided, Lock!Ids, Ids
  <1> QED BY <1>4 DEF Lock!Next

LEMMA LockStep == JInv /\ [JournalNext]_journalVars => [Lock!Next]_(Lock!vars)
  <1> SUFFICES ASSUME JInv, JournalNext PROVE Lock!Next \/ (Fate' = Fate /\ worked' = worked)
    BY DEF journalVars, Lock!vars, Fate
  <1> USE DEF JInv
  <1>id. \A c \in Callers : caller[c].id \in Ids
    BY DEF JournalTypeOK, Caller
  <1>ids. Lock!Ids = Ids
    BY DEF Lock!Ids, Ids
  <1>1. ASSUME NEW c \in Callers, NEW id \in Ids, NEW cid \in Containers, BeginInserted(c, id, cid)
        PROVE  Lock!Next
    <2>1. /\ row[id].phase = "absent" /\ row'[id].phase = "prepared"
          /\ \A jd \in Ids : jd # id => row'[jd] = row[jd]
          /\ \A jd \in Ids : ServerOf(jd) = ServerOf(id) => row[jd].phase \notin Live
      BY <1>1 DEF BeginInserted, JournalTypeOK, Locked, RowsOK
    <2>2. Fate[id] = "new" /\ Fate' = [Fate EXCEPT ![id] = "claimed"]
      <3>1. Fate'[id] = "claimed"
        BY <2>1 DEF Fate
      <3> QED BY <2>1, <3>1, FateStep, FateOf
    <2>3. \A jd \in Ids : jd[1] = id[1] => Fate[jd] \notin Lock!Open
      BY <2>1 DEF Fate, ServerOf, Lock!Open, JournalTypeOK, Row
    <2>4. Lock!Claim(id)
      BY <1>1, <1>ids, <2>2, <2>3 DEF Lock!Claim, BeginInserted
    <2> QED BY <1>ids, <2>4 DEF Lock!Next
  <1>2. ASSUME NEW c \in Callers, Enter(c)
        PROVE  Lock!Next
    <2> DEFINE own == caller[c].id
    <2>1. /\ row[own].phase = "prepared" /\ row'[own].phase = "executing" /\ worked' = worked
          /\ \A jd \in Ids : jd # own => row'[jd] = row[jd]
      BY <1>2, <1>id, AdvancedType DEF Enter, CanAdvance
    <2>id. own \in Ids
      BY <1>id
    <2> HIDE DEF own
    <2>2. Fate[own] = "claimed" /\ Fate' = [Fate EXCEPT ![own] = "started"]
      <3>1. Fate'[own] = "started" /\ Fate[own] = "claimed"
        BY <2>id, <2>1 DEF Fate
      <3> QED BY <2>id, <2>1, <3>1, FateStep
    <2>3. Lock!Start(own)
      BY <2>1, <2>2 DEF Lock!Start
    <2> QED BY <1>ids, <2>id, <2>3 DEF Lock!Next
  <1>3. ASSUME NEW c \in Callers, EnterFails(c), row' # row
        PROVE  Lock!Next
    <2>1. row' = Advanced(caller[c].id, "failed") /\ row[caller[c].id].active /\ worked' = worked
      BY <1>3 DEF EnterFails, CanAdvance
    <2> QED BY <1>id, <2>1, DecideStep
  <1>4. ASSUME NEW c \in Callers, NEW ok \in BOOLEAN, Mutate(c, ok)
        PROVE  Lock!Next \/ (Fate' = Fate /\ worked' = worked)
    <2> DEFINE own == caller[c].id
    <2>1. /\ own \in Ids /\ row' = row
          /\ worked' = [worked EXCEPT ![own] = @ \/ ok]
          /\ row[own].phase \in {"executing", "recovered"}
      BY <1>4, <1>id DEF Mutate, OwnersOK
    <2> HIDE DEF own
    <2>2. Fate' = Fate /\ Fate[own] \in {"started", "recovered"}
      BY <2>1 DEF Fate
    <2>3. CASE ok
      <3>1. worked' = [worked EXCEPT ![own] = TRUE]
        BY <2>1, <2>3 DEF JournalTypeOK
      <3>2. Lock!Works(own)
        BY <2>2, <3>1 DEF Lock!Works
      <3> QED BY <1>ids, <2>1, <3>2 DEF Lock!Next
    <2>4. CASE ~ok
      <3>1. worked' = worked
        BY <2>1, <2>4 DEF JournalTypeOK
      <3> QED BY <2>2, <3>1
    <2> QED BY <2>3, <2>4
  <1>5. ASSUME NEW c \in Callers, Finalize(c), row' # row
        PROVE  Lock!Next
    <2>1. PICK to \in {"complete", "failed"} :
            /\ row' = Advanced(caller[c].id, to)
            /\ to = "complete" => caller[c].pc = "finalize_nil"
            /\ CanAdvance(caller[c].id, "executing") /\ worked' = worked
      BY <1>5 DEF Finalize
    <2>2. to = "complete" => worked[caller[c].id]
      BY <2>1 DEF HistoryOK
    <2> QED BY <1>id, <2>1, <2>2, DecideStep DEF CanAdvance
  <1>6. ASSUME NEW id \in Ids, RecoverOne(id) \/ RetryReview(id) \/ Resolve(id), row' # row
        PROVE  Lock!Next
    <2>1. row' = Advanced(id, "recovered") /\ row[id].active /\ worked' = worked
      BY <1>6 DEF RecoverOne, RetryReview, Resolve
    <2> QED BY <2>1, DecideStep
  <1>7. ASSUME Prune, row' # row
        PROVE  Lock!Next
    <2> DEFINE gone == {id \in Ids : ~row[id].active /\ row[id].old /\ row[id].phase # "absent"}
    <2>1. \A id \in Ids : row'[id] = IF ~row[id].active /\ row[id].old THEN NoRow ELSE row[id]
      BY <1>7 DEF Prune
    <2>2. \A id \in gone : Fate[id] \in Lock!Decided
      BY DEF Fate, Lock!Decided, JournalTypeOK, Row, RowsOK
    <2>3. ASSUME NEW id \in Ids
          PROVE  Fate'[id] = IF id \in gone THEN "new" ELSE Fate[id]
      <3>1. NoRow.phase = "absent"
        BY DEF NoRow
      <3>2. CASE ~row[id].active /\ row[id].old
        <4>1. row'[id].phase = "absent" /\ (row[id].phase = "absent" \/ id \in gone)
          BY <2>1, <3>1, <3>2
        <4> QED BY <4>1 DEF Fate
      <3>3. CASE ~(~row[id].active /\ row[id].old)
        <4>1. row'[id] = row[id] /\ id \notin gone
          BY <2>1, <3>3
        <4> QED BY <4>1 DEF Fate
      <3> QED BY <3>2, <3>3
    <2>4. Fate' = [id \in Ids |-> IF id \in gone THEN "new" ELSE Fate[id]]
      <3> HIDE DEF gone
      <3>1. Fate' = [id \in Ids |-> Fate'[id]]
        BY DEF Fate
      <3> QED BY <2>3, <3>1
    <2>5. gone \in SUBSET Lock!Ids
      BY <1>ids
    <2>6. Lock!Forget(gone)
      BY <1>7, <1>ids, <2>2, <2>4 DEF Lock!Forget, Prune
    <2> HIDE DEF gone
    <2> QED BY <2>5, <2>6 DEF Lock!Next
  <1>8. ASSUME NEW id \in Ids, Age(id)
        PROVE  Fate' = Fate /\ worked' = worked
    <2>1. \A jd \in Ids : row'[jd].phase = row[jd].phase
      BY <1>8 DEF Age, JournalTypeOK, Row
    <2> QED BY <1>8, <2>1 DEF Age, Fate
  <1>9. CASE row' = row /\ worked' = worked
    BY <1>9 DEF Fate
  <1> HIDE DEF JInv
  <1> QED
    BY <1>1, <1>2, <1>3, <1>4, <1>5, <1>6, <1>7, <1>8, <1>9
       DEF JournalNext, CallerStep, Startup, BeginReused, BeginRefused, EnterFails, Finalize,
           Return, Crash, Prune, ListActive, Serve, RecoverOne, RetryReview, Resolve, DaemonFlips

\* Every behaviour of the journal is one of the lock it promises
\* (knowledge/operations/lifecycle-journal.md).
THEOREM JournalImplementsLock == JournalSpec => LockSpec
  <1>1. JournalInit => Lock!Init
    BY DEF JournalInit, Lock!Init, Lock!Ids, Ids, Fate, NoRow
  <1> QED BY <1>1, LockStep, InvariantJInv, PTL DEF JournalSpec, LockSpec, Lock!Spec
=============================================================================
