------------------------- MODULE ServerPagesProofs -------------------------
(***************************************************************************)
(* Theorems about the server pages, for any servers, request keys, moves   *)
(* and failures: every remembered request key belongs to a call under way, *)
(* and the page of one server only ever turns to the server it is for.     *)
(***************************************************************************)
EXTENDS ServerPages, TLAPS

\* A call under way is about a server; the reload after a start is about the one it kept, and
\* a list names servers.
CallsAsk ==
  \A c \in Slots :
    /\ call[c].op \in {"get", "start", "delete", "reload"} => call[c].id \in Servers
    /\ call[c].op = "reload" => \E s \in Servers : call[c].got = {s}
    /\ call[c].op = "list" => call[c].got \subseteq Servers

\* The call r is the one that drew the key remembered for action a of server s.
Owns(r, s, a) ==
  /\ r.owns /\ r.key = inflight[s][a] /\ r.id = s
  /\ (r.op = a \/ (a = "start" /\ r.op = "reload"))

KeysHaveCalls ==
  \A s \in Servers, a \in Actions : inflight[s][a] # None => \E c \in Acts : Owns(call[c], s, a)

\* The inductive invariant.
PagesInv == PagesTypeOK /\ CallsAsk /\ KeysHaveCalls

-----------------------------------------------------------------------------
(* Calls *)

LEMMA FreeIsCall == Free \in Call /\ Free.op = "free" /\ Listing \in Call /\ Listing.op = "list" /\ Listing.got = {}
  BY DEF Free, Listing, Call, None

LEMMA GetIsCall ==
  ASSUME NEW s \in Servers, NEW v \in Nat
  PROVE  Get(s, v) \in Call /\ Get(s, v).op = "get" /\ Get(s, v).id = s
  BY DEF Get, Free, Call, None

LEMMA LeftKeeps ==
  ASSUME NEW r \in Call, NEW from \in Servers \union {None}
  PROVE  /\ Left(r, from) \in Call
         /\ Left(r, from).op = r.op /\ Left(r, from).id = r.id /\ Left(r, from).key = r.key
         /\ Left(r, from).owns = r.owns
         /\ r.op # "delete" => Left(r, from) = r
  BY DEF Left, Call

LEMMA AsksAServer ==
  ASSUME NEW r \in Call, NEW s \in Servers, r.op = "reload", r.got = {s}
  PROVE  Asks(r) = s
  BY DEF Asks

\* A step that puts calls without a key in slots that own none, and keeps what the other
\* calls are about, keeps every key owned.
LEMMA KeysKept ==
  ASSUME PagesInv, call' \in [Slots -> Call], UNCHANGED inflight,
         \A c \in Slots :
           \/ /\ call'[c].op = call[c].op /\ call'[c].id = call[c].id
              /\ call'[c].key = call[c].key /\ call'[c].owns = call[c].owns
           \/ call[c].op \in {"free", "list", "get"}
  PROVE  KeysHaveCalls'
  <1> SUFFICES ASSUME NEW s \in Servers, NEW a \in Actions, inflight[s][a] # None
               PROVE  \E c \in Acts : Owns(call[c], s, a)'
    BY DEF KeysHaveCalls
  <1>1. PICK c \in Acts : Owns(call[c], s, a)
    BY DEF PagesInv, KeysHaveCalls
  <1>2. c \in Slots /\ call[c].op \notin {"free", "list", "get"}
    BY <1>1 DEF Owns, Acts, Slots, Actions
  <1> QED
    BY <1>1, <1>2 DEF Owns

LEMMA CallTypes ==
  ASSUME PagesInv, NEW c \in Slots
  PROVE  /\ call[c] \in Call /\ call[c].id \in Servers \union {None} /\ call[c].visit \in Nat
         /\ call[c].key \in Keys \union {None} /\ call[c].got \subseteq Servers \union {None}
  <1>1. call[c] \in Call
    BY DEF PagesInv, PagesTypeOK
  <1> QED
    BY <1>1 DEF Call

\* One slot takes another call.
LEMMA SlotTakes ==
  ASSUME PagesInv, NEW c \in Slots, NEW r \in Call, call' = [call EXCEPT ![c] = r]
  PROVE  call' \in [Slots -> Call] /\ call'[c] = r /\ \A d \in Slots : d # c => call'[d] = call[d]
  BY DEF PagesInv, PagesTypeOK

-----------------------------------------------------------------------------
(* The panel and the lists *)

LEMMA HandleKeeps ==
  ASSUME PagesInv, NEW c \in Slots, Handle(c)
  PROVE  PagesInv'
  <1> DEFINE r == call[c]
  <1>1. r \in Call /\ r.op # "free" /\ call \in [Slots -> Call] /\ exists \subseteq Servers /\ faults \in Nat
    BY CallTypes DEF Handle, PagesInv, PagesTypeOK
  <1>2. PICK a \in {"ok", "failed"}, g \in SUBSET (Servers \union {None}) :
          /\ call' = [call EXCEPT ![c] = [r EXCEPT !.answer = a, !.got = g]]
          /\ r.op # "list" => g = r.got
          /\ r.op = "list" => g \in {r.got, exists}
    <2>1. ASSUME NEW a \in {"ok", "failed"}
          PROVE  [r EXCEPT !.answer = a] = [r EXCEPT !.answer = a, !.got = r.got]
      BY <1>1 DEF Call
    <2>2. CASE faults < MaxFaults /\ faults' = faults + 1 /\ call' = [call EXCEPT ![c].answer = "failed"]
      <3>1. call' = [call EXCEPT ![c] = [r EXCEPT !.answer = "failed", !.got = r.got]]
        BY <2>1, <2>2
      <3> QED
        BY <3>1, CallTypes
    <2>3. CASE call' = [call EXCEPT ![c].answer = IF r.op = "list" \/ Asks(r) \in exists THEN "ok" ELSE "failed",
                                    ![c].got = IF r.op = "list" THEN exists ELSE @]
      <3> DEFINE a == IF r.op = "list" \/ Asks(r) \in exists THEN "ok" ELSE "failed"
                 g == IF r.op = "list" THEN exists ELSE r.got
      <3>1. a \in {"ok", "failed"} /\ g \in SUBSET (Servers \union {None})
        BY <1>1, CallTypes
      <3>2. call' = [call EXCEPT ![c] = [r EXCEPT !.answer = a, !.got = g]]
        BY <2>3, <1>1 DEF Call
      <3> QED
        BY <3>1, <3>2
    <2> QED
      BY <2>2, <2>3 DEF Handle
  <1> DEFINE n == [r EXCEPT !.answer = a, !.got = g]
  <1>3. n \in Call /\ n.op = r.op /\ n.id = r.id /\ n.key = r.key /\ n.owns = r.owns /\ n.got = g
    BY <1>1 DEF Call
  <1>4. call' \in [Slots -> Call] /\ call'[c] = n /\ \A d \in Slots : d # c => call'[d] = call[d]
    BY <1>2, <1>3, SlotTakes
  <1>5. exists' \subseteq Servers /\ faults' \in Nat
    BY <1>1 DEF Handle
  <1>6. UNCHANGED <<store, pageVars, inflight, drawn, moves>>
    BY DEF Handle
  <1>7. PagesTypeOK'
    BY <1>4, <1>5, <1>6 DEF PagesTypeOK, PagesInv, pageVars
  <1>8. CallsAsk'
    BY <1>1, <1>2, <1>3, <1>4 DEF CallsAsk, PagesInv
  <1>9. KeysHaveCalls'
    <2>1. \A d \in Slots : call'[d].op = call[d].op /\ call'[d].id = call[d].id
                            /\ call'[d].key = call[d].key /\ call'[d].owns = call[d].owns
      BY <1>3, <1>4
    <2> QED
      BY <2>1, <1>4, <1>6, KeysKept
  <1> QED
    BY <1>7, <1>8, <1>9 DEF PagesInv

\* A slot without a key takes a call without one.
LEMMA KeylessKeeps ==
  ASSUME PagesInv, NEW c \in Slots, NEW r \in Call, call' = [call EXCEPT ![c] = r],
         call[c].op \in {"free", "list", "get"}, r.op \in {"free", "list", "get"}, r.op = "get" => r.id \in Servers,
         r.op = "list" => r.got \subseteq Servers,
         UNCHANGED inflight
  PROVE  call' \in [Slots -> Call] /\ CallsAsk' /\ KeysHaveCalls'
  <1>1. call' \in [Slots -> Call] /\ call'[c] = r /\ \A d \in Slots : d # c => call'[d] = call[d]
    BY SlotTakes
  <1>2. CallsAsk'
    BY <1>1 DEF CallsAsk, PagesInv
  <1>3. \A d \in Slots : \/ /\ call'[d].op = call[d].op /\ call'[d].id = call[d].id
                            /\ call'[d].key = call[d].key /\ call'[d].owns = call[d].owns
                         \/ call[d].op \in {"free", "list", "get"}
    BY <1>1
  <1>4. KeysHaveCalls'
    BY <1>1, <1>3, KeysKept
  <1> QED
    BY <1>1, <1>2, <1>4

LEMMA ListsKeep ==
  ASSUME PagesInv, (\E c \in Slots : ListArrives(c)) \/ PollList \/ Tick
  PROVE  PagesInv'
  <1>1. CASE \E c \in Slots : ListArrives(c)
    <2>1. PICK c \in Slots : ListArrives(c)
      BY <1>1
    <2>2. call' \in [Slots -> Call] /\ CallsAsk' /\ KeysHaveCalls'
      BY <2>1, FreeIsCall, KeylessKeeps DEF ListArrives
    <2>3. store' \subseteq Servers
      BY <2>1 DEF ListArrives, Listed, PagesInv, PagesTypeOK, CallsAsk
    <2>4. UNCHANGED <<exists, pageVars, inflight, drawn, bounds>>
      BY <2>1 DEF ListArrives
    <2> QED
      BY <2>2, <2>3, <2>4 DEF PagesInv, PagesTypeOK, pageVars, bounds
  <1>2. CASE PollList
    <2>1. "poll" \in Slots /\ call' = [call EXCEPT !["poll"] = Listing] /\ call["poll"].op = "free"
      BY <1>2, FreeIsCall DEF PollList, Slots
    <2>2. call' \in [Slots -> Call] /\ CallsAsk' /\ KeysHaveCalls'
      BY <1>2, <2>1, FreeIsCall, KeylessKeeps DEF PollList
    <2>3. UNCHANGED <<exists, store, pageVars, inflight, drawn, bounds>>
      BY <1>2 DEF PollList
    <2> QED
      BY <2>2, <2>3 DEF PagesInv, PagesTypeOK, pageVars, bounds
  <1>3. CASE Tick
    <2>1. PICK c \in Ticks : call[c] = Free /\ call' = [call EXCEPT ![c] = Get(at, visit)]
      BY <1>3 DEF Tick
    <2>2. c \in Slots /\ at \in Servers /\ visit \in Nat
      BY <1>3 DEF Tick, Ticks, Slots, PagesInv, PagesTypeOK
    <2>3. call' \in [Slots -> Call] /\ CallsAsk' /\ KeysHaveCalls'
      <3>1. call[c].op = "free" /\ Get(at, visit) \in Call /\ Get(at, visit).op = "get" /\ Get(at, visit).id \in Servers
        BY <2>1, <2>2, FreeIsCall, GetIsCall
      <3> QED
        BY <1>3, <2>1, <2>2, <3>1, KeylessKeeps DEF Tick
    <2>4. UNCHANGED <<exists, store, pageVars, inflight, drawn, bounds>>
      BY <1>3 DEF Tick
    <2> QED
      BY <2>3, <2>4 DEF PagesInv, PagesTypeOK, pageVars, bounds
  <1> QED
    BY <1>1, <1>2, <1>3

\* What an answered load does to the page and the store.
LEMMA LoadedTypes ==
  ASSUME PagesInv, NEW r \in Call, r.id \in Servers, Loaded(r)
  PROVE  /\ shown' \in Servers \union {None} /\ loading' \in BOOLEAN /\ loadError' \in BOOLEAN
         /\ store' \subseteq Servers
         /\ shown' # shown => shown' = at
  BY DEF PagesInv, PagesTypeOK, Loaded, FirstLoadFails, Current

LEMMA GetKeeps ==
  ASSUME PagesInv, NEW c \in Slots, GetArrives(c)
  PROVE  PagesInv'
  <1>1. call[c] \in Call /\ call[c].op = "get" /\ call[c].id \in Servers
    BY CallTypes DEF GetArrives, PagesInv, CallsAsk
  <1>2. call' \in [Slots -> Call] /\ CallsAsk' /\ KeysHaveCalls'
    BY <1>1, FreeIsCall, KeylessKeeps DEF GetArrives
  <1>3. shown' \in Servers \union {None} /\ loading' \in BOOLEAN /\ loadError' \in BOOLEAN /\ store' \subseteq Servers
    BY <1>1, LoadedTypes DEF GetArrives
  <1>4. UNCHANGED <<exists, at, visit, busy, inflight, drawn, bounds>>
    BY DEF GetArrives
  <1> QED
    BY <1>2, <1>3, <1>4 DEF PagesInv, PagesTypeOK, bounds

-----------------------------------------------------------------------------
(* Moving *)

\* The page that is made anew, with calls that own the keys there are.
LEMMA MountsKeeps ==
  ASSUME PagesInv, NEW where \in Servers \union {List, Home}, NEW calls \in [Slots -> Call], Mounts(where, calls),
         \A c \in Slots : calls[c] = call[c] \/ calls[c] = Free
  PROVE  /\ call' \in [Slots -> Call] /\ CallsAsk'
         /\ \A c \in Acts : call'[c] = Left(calls[c], shown)
         /\ at' = where /\ visit' \in Nat /\ shown' = None /\ loading' \in BOOLEAN /\ loadError' \in BOOLEAN /\ busy' \in BOOLEAN
  <1> DEFINE kept == [c \in Slots |-> Left(calls[c], shown)]
  <1>1. shown \in Servers \union {None} /\ visit \in Nat
    BY DEF PagesInv, PagesTypeOK
  <1>2. kept \in [Slots -> Call] /\ \A c \in Slots : kept[c] = Left(calls[c], shown)
    BY <1>1, LeftKeeps
  <1>3. PICK d \in Slots \ Acts, r \in Call :
          /\ call' = kept \/ call' = [kept EXCEPT ![d] = r]
          /\ (r.op = "get" /\ r.id \in Servers) \/ r = Listing
    <2>1. CASE where \in Servers
      <3>1. PICK c \in Ticks : call' = [kept EXCEPT ![c] = Get(where, visit + 1)]
        BY <2>1 DEF Mounts
      <3>2. c \in Slots \ Acts /\ visit + 1 \in Nat
        BY <1>1 DEF Slots, Ticks, Acts
      <3>3. Get(where, visit + 1) \in Call /\ Get(where, visit + 1).op = "get" /\ Get(where, visit + 1).id \in Servers
        BY <2>1, <3>2, GetIsCall
      <3> QED
        BY <3>1, <3>2, <3>3
    <2>2. CASE where \notin Servers
      <3>1. call' = kept \/ call' = [kept EXCEPT !["load"] = Listing]
        BY <2>2 DEF Mounts
      <3>2. "load" \in Slots \ Acts
        BY DEF Slots, Acts
      <3> QED
        BY <3>1, <3>2, FreeIsCall
    <2> QED
      BY <2>1, <2>2
  <1>4. call' \in [Slots -> Call] /\ \A c \in Slots : call'[c] = kept[c] \/ (c = d /\ call'[c] = r)
    BY <1>2, <1>3
  <1>5. CallsAsk'
    <2> SUFFICES ASSUME NEW c \in Slots
                 PROVE  /\ call'[c].op \in {"get", "start", "delete", "reload"} => call'[c].id \in Servers
                        /\ call'[c].op = "reload" => \E s \in Servers : call'[c].got = {s}
                        /\ call'[c].op = "list" => call'[c].got \subseteq Servers
      BY DEF CallsAsk
    <2>1. CASE call'[c] = r
      BY <1>3, <2>1, FreeIsCall
    <2>2. CASE call'[c] = kept[c]
      <3>1. CASE calls[c] = Free
        BY <1>1, <1>2, <2>2, <3>1, FreeIsCall, LeftKeeps
      <3>2. CASE calls[c] = call[c]
        <4>1. call[c] \in Call /\ call'[c] = Left(call[c], shown)
          BY <1>2, <2>2, <3>2, CallTypes
        <4>2. /\ call'[c].op = call[c].op /\ call'[c].id = call[c].id
              /\ call[c].op # "delete" => call'[c] = call[c]
          BY <1>1, <4>1, LeftKeeps
        <4> QED
          BY <4>2 DEF CallsAsk, PagesInv
      <3> QED
        BY <3>1, <3>2
    <2> QED
      BY <1>4, <2>1, <2>2
  <1>6. \A c \in Acts : c \in Slots /\ c # d
    BY <1>3 DEF Acts, Slots
  <1>7. \A c \in Acts : call'[c] = Left(calls[c], shown)
    BY <1>2, <1>4, <1>6
  <1>8. /\ at' = where /\ visit' \in Nat /\ shown' = None /\ loading' \in BOOLEAN /\ loadError' \in BOOLEAN
        /\ busy' \in BOOLEAN
    <2>1. visit' = visit + 1 /\ shown' = None /\ loading' = TRUE /\ loadError' = FALSE /\ busy' = FALSE /\ at' = where
      BY DEF Mounts
    <2>2. loading' \in BOOLEAN /\ loadError' \in BOOLEAN /\ busy' \in BOOLEAN
      BY <2>1, Zenon
    <2>3. visit' \in Nat
      BY <1>1, <2>1
    <2> QED
      BY <2>1, <2>2, <2>3, Zenon
  <1> QED
    BY <1>4, <1>5, <1>7, <1>8

LEMMA GotoKeeps ==
  ASSUME PagesInv, NEW where \in Servers \union {List, Home}, Goto(where)
  PROVE  PagesInv'
  <1>1. UNCHANGED <<exists, store, inflight, drawn, faults>> /\ moves' \in Nat
    BY DEF Goto, PagesInv, PagesTypeOK
  <1>2. CASE at \in Servers /\ where \in Servers /\ Switches(where)
    <2>1. PICK c \in Ticks : call[c] = Free /\ call' = [call EXCEPT ![c] = Get(where, visit)]
      BY <1>2 DEF Switches
    <2>2. c \in Slots /\ visit \in Nat
      BY DEF Ticks, Slots, PagesInv, PagesTypeOK
    <2>3. call[c].op = "free" /\ Get(where, visit) \in Call /\ Get(where, visit).op = "get" /\ Get(where, visit).id \in Servers
      BY <1>2, <2>1, <2>2, FreeIsCall, GetIsCall
    <2>4. call' \in [Slots -> Call] /\ CallsAsk' /\ KeysHaveCalls'
      BY <1>1, <2>1, <2>2, <2>3, KeylessKeeps
    <2> QED
      BY <1>1, <1>2, <2>4 DEF Switches, PagesInv, PagesTypeOK
  <1>3. CASE Mounts(where, call)
    <2>1. call \in [Slots -> Call]
      BY DEF PagesInv, PagesTypeOK
    <2>2. /\ call' \in [Slots -> Call] /\ CallsAsk'
          /\ \A c \in Acts : call'[c] = Left(call[c], shown)
          /\ at' = where /\ visit' \in Nat /\ shown' = None /\ loading' \in BOOLEAN /\ loadError' \in BOOLEAN /\ busy' \in BOOLEAN
      BY <1>3, <2>1, MountsKeeps
    <2>3. KeysHaveCalls'
      <3> SUFFICES ASSUME NEW s \in Servers, NEW a \in Actions, inflight[s][a] # None
                   PROVE  \E c \in Acts : Owns(call[c], s, a)'
        BY <1>1 DEF KeysHaveCalls
      <3>1. PICK c \in Acts : Owns(call[c], s, a)
        BY DEF PagesInv, KeysHaveCalls
      <3>2. call[c] \in Call /\ shown \in Servers \union {None}
        BY CallTypes DEF Acts, Slots, PagesInv, PagesTypeOK
      <3>3. call'[c].op = call[c].op /\ call'[c].id = call[c].id /\ call'[c].key = call[c].key /\ call'[c].owns = call[c].owns
        BY <2>2, <3>2, LeftKeeps
      <3> QED
        BY <1>1, <3>1, <3>3 DEF Owns
    <2> QED
      BY <1>1, <2>2, <2>3 DEF PagesInv, PagesTypeOK
  <1> QED
    BY <1>2, <1>3 DEF Goto

-----------------------------------------------------------------------------
(* Lifecycle calls *)

\* The call that Begin puts in the place of r.
Begun(r, a, s, page, v, k, o) == [r EXCEPT !.op = a, !.id = s, !.page = page, !.visit = v, !.key = k, !.owns = o]

LEMMA StartRecord ==
  ASSUME NEW r \in Call, NEW a \in {"start", "delete"}, NEW s \in Servers, NEW page \in {"list", "server"},
         NEW v \in Nat, NEW k \in Keys \union {None}, NEW o \in BOOLEAN
  PROVE  /\ Begun(r, a, s, page, v, k, o) \in Call /\ Begun(r, a, s, page, v, k, o).op = a
         /\ Begun(r, a, s, page, v, k, o).id = s /\ Begun(r, a, s, page, v, k, o).key = k
         /\ Begun(r, a, s, page, v, k, o).owns = o
  <1>1. ASSUME NEW q \in Call, NEW x \in {"start", "delete"}
        PROVE  [q EXCEPT !.op = x] \in Call /\ [q EXCEPT !.op = x].op = x
    BY DEF Call
  <1>2. ASSUME NEW q \in Call, NEW x \in Servers
        PROVE  [q EXCEPT !.id = x] \in Call /\ [q EXCEPT !.id = x].id = x /\ [q EXCEPT !.id = x].op = q.op
    BY DEF Call
  <1>3. ASSUME NEW q \in Call, NEW x \in {"list", "server"}
        PROVE  [q EXCEPT !.page = x] \in Call /\ [q EXCEPT !.page = x].op = q.op /\ [q EXCEPT !.page = x].id = q.id
    BY DEF Call
  <1>4. ASSUME NEW q \in Call, NEW x \in Nat
        PROVE  [q EXCEPT !.visit = x] \in Call /\ [q EXCEPT !.visit = x].op = q.op /\ [q EXCEPT !.visit = x].id = q.id
    BY DEF Call
  <1>5. ASSUME NEW q \in Call, NEW x \in Keys \union {None}
        PROVE  /\ [q EXCEPT !.key = x] \in Call /\ [q EXCEPT !.key = x].op = q.op /\ [q EXCEPT !.key = x].id = q.id
               /\ [q EXCEPT !.key = x].key = x
    BY DEF Call
  <1>6. ASSUME NEW q \in Call, NEW x \in BOOLEAN
        PROVE  /\ [q EXCEPT !.owns = x] \in Call /\ [q EXCEPT !.owns = x].op = q.op
               /\ [q EXCEPT !.owns = x].id = q.id /\ [q EXCEPT !.owns = x].key = q.key /\ [q EXCEPT !.owns = x].owns = x
    BY DEF Call
  <1> DEFINE m1 == [r EXCEPT !.op = a]
             m2 == [m1 EXCEPT !.id = s]
             m3 == [m2 EXCEPT !.page = page]
             m4 == [m3 EXCEPT !.visit = v]
             m5 == [m4 EXCEPT !.key = k]
             m6 == [m5 EXCEPT !.owns = o]
  <1>7. m1 \in Call /\ m1.op = a
    BY <1>1
  <1> HIDE DEF m1
  <1>8. m2 \in Call /\ m2.op = a /\ m2.id = s
    BY <1>2, <1>7
  <1> HIDE DEF m2
  <1>9. m3 \in Call /\ m3.op = a /\ m3.id = s
    BY <1>3, <1>8
  <1> HIDE DEF m3
  <1>10. m4 \in Call /\ m4.op = a /\ m4.id = s
    BY <1>4, <1>9
  <1> HIDE DEF m4
  <1>11. m5 \in Call /\ m5.op = a /\ m5.id = s /\ m5.key = k
    BY <1>5, <1>10
  <1> HIDE DEF m5
  <1>12. m6 \in Call /\ m6.op = a /\ m6.id = s /\ m6.key = k /\ m6.owns = o
    <2>1. /\ m6 \in Call /\ m6.op = m5.op /\ m6.id = m5.id /\ m6.key = m5.key /\ m6.owns = o
      BY <1>6, <1>11
    <2> QED
      BY <2>1, <1>11
  <1>13. m6 = Begun(r, a, s, page, v, k, o)
    BY DEF m1, m2, m3, m4, m5, Begun
  <1> QED
    BY <1>12, <1>13, Zenon

LEMMA BeginKeeps ==
  ASSUME PagesInv, NEW c \in Acts, NEW s \in Servers, NEW a \in Actions, NEW page \in {"list", "server"},
         Begin(c, s, a, page)
  PROVE  PagesInv'
  <1> DEFINE r == Begun(Free, a, s, page, visit, inflight'[s][a], inflight[s][a] = None)
  <1>1. /\ inflight \in [Servers -> [Actions -> Keys \union {None}]] /\ drawn \subseteq Keys /\ visit \in Nat
        /\ c \in Slots
    BY DEF PagesInv, PagesTypeOK, Acts, Slots
  <1>2. /\ inflight' \in [Servers -> [Actions -> Keys \union {None}]] /\ drawn' \subseteq Keys
        /\ \A t \in Servers, b \in Actions : inflight'[t][b] = inflight[t][b] \/ (t = s /\ b = a /\ inflight[s][a] = None)
    <2>1. CASE inflight[s][a] # None
      BY <1>1, <2>1 DEF Begin
    <2>2. CASE inflight[s][a] = None
      <3>1. Keys \ drawn # {} /\ drawn' = drawn \union {NewKey} /\ inflight' = [inflight EXCEPT ![s][a] = NewKey]
        BY <2>2 DEF Begin
      <3>2. NewKey \in Keys
        BY <3>1 DEF NewKey
      <3> QED
        BY <1>1, <2>2, <3>1, <3>2
    <2> QED
      BY <2>1, <2>2
  <1>3. r \in Call /\ r.op = a /\ r.id = s /\ r.key = inflight'[s][a] /\ r.owns = (inflight[s][a] = None)
    <2>1. inflight'[s][a] \in Keys \union {None} /\ (inflight[s][a] = None) \in BOOLEAN
      BY <1>2
    <2>3. a \in {"start", "delete"}
      BY DEF Actions
    <2>4. Free \in Call /\ visit \in Nat
      BY <1>1, FreeIsCall
    <2>5. PICK k \in Keys \union {None} : k = inflight'[s][a]
      BY <2>1
    <2>6. PICK o \in BOOLEAN : o = (inflight[s][a] = None)
      BY Zenon
    <2> DEFINE n == Begun(Free, a, s, page, visit, k, o)
    <2>7. n \in Call /\ n.op = a /\ n.id = s /\ n.key = k /\ n.owns = o
      BY <2>3, <2>4, StartRecord
    <2>8. r = n
      BY <2>5, <2>6, Zenon
    <2> QED
      BY <2>5, <2>6, <2>7, <2>8, Zenon
  <1>4. call' = [call EXCEPT ![c] = r] /\ call[c].op = "free"
    BY FreeIsCall DEF Begin, Begun
  <1>5. call' \in [Slots -> Call] /\ call'[c] = r /\ \A d \in Slots : d # c => call'[d] = call[d]
    BY <1>1, <1>3, <1>4, SlotTakes
  <1> HIDE DEF r
  <1>6. CallsAsk'
    BY <1>3, <1>5 DEF CallsAsk, PagesInv, Actions
  <1>7. KeysHaveCalls'
    <2> SUFFICES ASSUME NEW t \in Servers, NEW b \in Actions, inflight'[t][b] # None
                 PROVE  \E d \in Acts : Owns(call[d], t, b)'
      BY DEF KeysHaveCalls
    <2>1. CASE inflight[t][b] = None
      <3>1. t = s /\ b = a /\ inflight[s][a] = None
        BY <1>2, <2>1
      <3> QED
        BY <1>3, <1>5, <3>1 DEF Owns
    <2>2. CASE inflight[t][b] # None
      <3>1. PICK d \in Acts : Owns(call[d], t, b)
        BY <2>2 DEF PagesInv, KeysHaveCalls
      <3>2. call[d].op # "free" /\ d \in Slots
        BY <3>1 DEF Owns, Actions, Acts, Slots
      <3>3. call'[d] = call[d] /\ inflight'[t][b] = inflight[t][b]
        BY <1>2, <1>4, <1>5, <2>2, <3>2
      <3> QED
        BY <3>1, <3>3 DEF Owns
    <2> QED
      BY <2>1, <2>2
  <1>8. UNCHANGED <<exists, store, at, visit, shown, loading, loadError, bounds>> /\ busy' = TRUE
    BY DEF Begin
  <1> QED
    BY <1>2, <1>5, <1>6, <1>7, <1>8 DEF PagesInv, PagesTypeOK, bounds

\* The key that a finished call owns is forgotten, and no other.
LEMMA FinishedForgets ==
  ASSUME PagesInv, NEW c \in Slots, call[c].id \in Servers, NEW a \in Actions, Finished(call[c], a),
         call[c].op = a \/ (a = "start" /\ call[c].op = "reload")
  PROVE  /\ inflight' \in [Servers -> [Actions -> Keys \union {None}]]
         /\ \A t \in Servers, b \in Actions : inflight'[t][b] # None =>
              inflight'[t][b] = inflight[t][b] /\ \E d \in Acts : d # c /\ Owns(call[d], t, b)
  <1> DEFINE r == call[c]
  <1>1. inflight \in [Servers -> [Actions -> Keys \union {None}]]
    BY DEF PagesInv, PagesTypeOK
  <1>2. CASE r.owns /\ inflight[r.id][a] = r.key
    <2>1. inflight' = [inflight EXCEPT ![r.id][a] = None]
      BY <1>2 DEF Finished
    <2>2. /\ inflight' \in [Servers -> [Actions -> Keys \union {None}]]
          /\ \A t \in Servers, b \in Actions :
               inflight'[t][b] = IF t = r.id /\ b = a THEN None ELSE inflight[t][b]
      BY <1>1, <2>1
    <2>3. ASSUME NEW t \in Servers, NEW b \in Actions, inflight'[t][b] # None
          PROVE  inflight'[t][b] = inflight[t][b] /\ \E d \in Acts : d # c /\ Owns(call[d], t, b)
      <3>1. inflight'[t][b] = inflight[t][b] /\ ~(t = r.id /\ b = a)
        BY <2>2, <2>3
      <3>2. PICK d \in Acts : Owns(call[d], t, b)
        BY <2>3, <3>1 DEF PagesInv, KeysHaveCalls
      <3>3. d # c
        BY <3>1, <3>2 DEF Owns, Actions
      <3> QED
        BY <3>1, <3>2, <3>3
    <2> QED
      BY <2>2, <2>3
  <1>3. CASE ~(r.owns /\ inflight[r.id][a] = r.key)
    <2>1. inflight' = inflight
      BY <1>3 DEF Finished
    <2>2. ASSUME NEW t \in Servers, NEW b \in Actions, inflight[t][b] # None
          PROVE  \E d \in Acts : d # c /\ Owns(call[d], t, b)
      <3>1. PICK d \in Acts : Owns(call[d], t, b)
        BY <2>2 DEF PagesInv, KeysHaveCalls
      <3>2. d # c
        BY <1>3, <3>1 DEF Owns, Actions
      <3> QED
        BY <3>1, <3>2
    <2> QED
      BY <1>1, <2>1, <2>2
  <1> QED
    BY <1>2, <1>3

LEMMA StartKeeps ==
  ASSUME PagesInv, NEW c \in Slots, StartArrives(c)
  PROVE  PagesInv'
  <1> DEFINE r == call[c]
  <1>1. r \in Call /\ r.op = "start" /\ r.id \in Servers /\ call \in [Slots -> Call]
    BY CallTypes DEF StartArrives, PagesInv, CallsAsk, PagesTypeOK
  <1>2. UNCHANGED <<exists, store, at, visit, shown, loading, loadError, drawn, bounds>>
    BY DEF StartArrives
  <1>3. CASE r.page = "server" /\ at \in Servers
    <2> DEFINE n == [r EXCEPT !.op = "reload", !.answer = "none", !.got = {at}]
    <2>1. call' = [call EXCEPT ![c] = n] /\ UNCHANGED <<inflight, busy>>
      BY <1>1, <1>3 DEF StartArrives
    <2>2. n \in Call /\ n.op = "reload" /\ n.id = r.id /\ n.got = {at} /\ n.key = r.key /\ n.owns = r.owns
      BY <1>1, <1>3 DEF Call
    <2>3. call' \in [Slots -> Call] /\ call'[c] = n /\ \A d \in Slots : d # c => call'[d] = call[d]
      BY <2>1, <2>2, SlotTakes
    <2>4. CallsAsk'
      BY <1>1, <1>3, <2>2, <2>3 DEF CallsAsk, PagesInv
    <2>5. KeysHaveCalls'
      <3> SUFFICES ASSUME NEW t \in Servers, NEW b \in Actions, inflight[t][b] # None
                   PROVE  \E d \in Acts : Owns(call[d], t, b)'
        BY <2>1 DEF KeysHaveCalls
      <3>1. PICK d \in Acts : Owns(call[d], t, b)
        BY DEF PagesInv, KeysHaveCalls
      <3>2. d \in Slots
        BY DEF Acts, Slots
      <3>3. CASE d = c
        BY <1>1, <2>1, <2>2, <2>3, <3>1, <3>3 DEF Owns
      <3>4. CASE d # c
        BY <2>1, <2>3, <3>1, <3>2, <3>4 DEF Owns
      <3> QED
        BY <3>3, <3>4
    <2> QED
      BY <1>2, <2>1, <2>3, <2>4, <2>5 DEF PagesInv, PagesTypeOK, bounds
  <1>4. CASE ~(r.page = "server" /\ at \in Servers)
    <2>1. call' = [call EXCEPT ![c] = Free] /\ Finished(r, "start") /\ Released(r)
      BY <1>4 DEF StartArrives
    <2>2. call' \in [Slots -> Call] /\ call'[c] = Free /\ \A d \in Slots : d # c => call'[d] = call[d]
      BY <2>1, FreeIsCall, SlotTakes
    <2>3. /\ inflight' \in [Servers -> [Actions -> Keys \union {None}]]
          /\ \A t \in Servers, b \in Actions : inflight'[t][b] # None =>
               inflight'[t][b] = inflight[t][b] /\ \E d \in Acts : d # c /\ Owns(call[d], t, b)
      <3>1. "start" \in Actions
        BY DEF Actions
      <3> QED
        BY <1>1, <2>1, <3>1, FinishedForgets
    <2>4. CallsAsk'
      BY <2>2, FreeIsCall DEF CallsAsk, PagesInv
    <2>5. KeysHaveCalls'
      BY <2>2, <2>3 DEF KeysHaveCalls, Owns, Acts, Slots
    <2>6. busy' \in BOOLEAN
      BY <2>1 DEF Released
    <2> QED
      BY <1>2, <2>2, <2>3, <2>4, <2>5, <2>6 DEF PagesInv, PagesTypeOK, bounds
  <1> QED
    BY <1>3, <1>4

LEMMA ReloadKeeps ==
  ASSUME PagesInv, NEW c \in Slots, ReloadArrives(c)
  PROVE  PagesInv' /\ (shown' # shown => shown' = at)
  <1> DEFINE r == call[c]
             n == [r EXCEPT !.id = Asks(r)]
  <1>1. PICK s \in Servers : r \in Call /\ r.op = "reload" /\ r.id \in Servers /\ r.got = {s}
    BY CallTypes DEF ReloadArrives, PagesInv, CallsAsk
  <1>2. n \in Call /\ n.id \in Servers
    BY <1>1, AsksAServer DEF Call
  <1>3. /\ shown' \in Servers \union {None} /\ loading' \in BOOLEAN /\ loadError' \in BOOLEAN
        /\ store' \subseteq Servers /\ (shown' # shown => shown' = at)
    BY <1>2, LoadedTypes DEF ReloadArrives
  <1>4. call' = [call EXCEPT ![c] = Free] /\ Finished(r, "start") /\ Released(r)
        /\ UNCHANGED <<exists, at, visit, drawn, bounds>>
    BY DEF ReloadArrives
  <1>5. call' \in [Slots -> Call] /\ call'[c] = Free /\ \A d \in Slots : d # c => call'[d] = call[d]
    BY <1>4, FreeIsCall, SlotTakes
  <1>6. /\ inflight' \in [Servers -> [Actions -> Keys \union {None}]]
        /\ \A t \in Servers, b \in Actions : inflight'[t][b] # None =>
             inflight'[t][b] = inflight[t][b] /\ \E d \in Acts : d # c /\ Owns(call[d], t, b)
    <2>1. "start" \in Actions
      BY DEF Actions
    <2> QED
      BY <1>1, <1>4, <2>1, FinishedForgets
  <1>7. CallsAsk'
    BY <1>5, FreeIsCall DEF CallsAsk, PagesInv
  <1>8. KeysHaveCalls'
    BY <1>5, <1>6 DEF KeysHaveCalls, Owns, Acts, Slots
  <1>9. busy' \in BOOLEAN
    BY <1>4 DEF Released
  <1> QED
    BY <1>3, <1>4, <1>5, <1>6, <1>7, <1>8, <1>9 DEF PagesInv, PagesTypeOK, bounds

LEMMA DeleteKeeps ==
  ASSUME PagesInv, NEW c \in Slots, DeleteArrives(c)
  PROVE  PagesInv' /\ (shown' # shown => shown' = None)
  <1> DEFINE r == call[c]
             rest == [call EXCEPT ![c] = Free]
  <1>1. r \in Call /\ r.op = "delete" /\ r.id \in Servers /\ call \in [Slots -> Call]
    BY CallTypes DEF DeleteArrives, PagesInv, CallsAsk, PagesTypeOK
  <1>2. /\ inflight' \in [Servers -> [Actions -> Keys \union {None}]]
        /\ \A t \in Servers, b \in Actions : inflight'[t][b] # None =>
             inflight'[t][b] = inflight[t][b] /\ \E d \in Acts : d # c /\ Owns(call[d], t, b)
    <2>1. "delete" \in Actions /\ Finished(r, "delete")
      BY DEF Actions, DeleteArrives
    <2> QED
      BY <1>1, <2>1, FinishedForgets
  <1>3. store' \subseteq Servers /\ UNCHANGED <<exists, drawn, bounds>>
    BY DEF DeleteArrives, PagesInv, PagesTypeOK
  <1>4. /\ rest \in [Slots -> Call] /\ rest[c] = Free /\ \A d \in Slots : d # c => rest[d] = call[d]
    BY <1>1, FreeIsCall
  <1>5. /\ call' \in [Slots -> Call] /\ CallsAsk'
        /\ \A d \in Acts : d # c => /\ call'[d].op = call[d].op /\ call'[d].id = call[d].id
                                    /\ call'[d].key = call[d].key /\ call'[d].owns = call[d].owns
        /\ at' \in Servers \union {List, Home} /\ visit' \in Nat /\ shown' \in {shown, None}
        /\ loading' \in BOOLEAN /\ loadError' \in BOOLEAN /\ busy' \in BOOLEAN
    <2>1. CASE Mounts(List, rest)
      <3>1. \A d \in Slots : rest[d] = call[d] \/ rest[d] = Free
        BY <1>4
      <3>2. /\ call' \in [Slots -> Call] /\ CallsAsk'
            /\ \A d \in Acts : call'[d] = Left(rest[d], shown)
            /\ at' = List /\ visit' \in Nat /\ shown' = None /\ loading' \in BOOLEAN /\ loadError' \in BOOLEAN
            /\ busy' \in BOOLEAN
        BY <1>4, <2>1, <3>1, MountsKeeps
      <3>3. ASSUME NEW d \in Acts, d # c
            PROVE  /\ call'[d].op = call[d].op /\ call'[d].id = call[d].id
                   /\ call'[d].key = call[d].key /\ call'[d].owns = call[d].owns
        <4>1. d \in Slots /\ call[d] \in Call /\ shown \in Servers \union {None} /\ call'[d] = Left(call[d], shown)
          BY <1>1, <1>4, <3>2, <3>3 DEF Acts, Slots, PagesInv, PagesTypeOK
        <4> QED
          BY <4>1, LeftKeeps
      <3> QED
        BY <3>2, <3>3
    <2>2. CASE Released(r) /\ call' = rest /\ UNCHANGED <<at, visit, shown, loading, loadError>>
      <3>1. CallsAsk'
        BY <1>4, <2>2, FreeIsCall DEF CallsAsk, PagesInv
      <3>2. \A d \in Acts : d \in Slots
        BY DEF Acts, Slots
      <3> QED
        BY <1>4, <2>2, <3>1, <3>2 DEF Released, PagesInv, PagesTypeOK
    <2> QED
      BY <2>1, <2>2 DEF DeleteArrives
  <1>6. KeysHaveCalls'
    BY <1>2, <1>5 DEF KeysHaveCalls, Owns
  <1>7. PagesTypeOK'
    BY <1>2, <1>3, <1>5 DEF PagesInv, PagesTypeOK, bounds
  <1> QED
    BY <1>5, <1>6, <1>7 DEF PagesInv

-----------------------------------------------------------------------------
(* The theorems *)

LEMMA InitInv == PagesInit => PagesInv
  <1> SUFFICES ASSUME PagesInit PROVE PagesInv
    OBVIOUS
  <1>1. call \in [Slots -> Call] /\ \A c \in Slots : call[c] \in {Listing, Free}
    BY FreeIsCall DEF PagesInit
  <1>2. /\ exists \subseteq Servers /\ store \subseteq Servers /\ at \in Servers \union {List, Home}
        /\ visit \in Nat /\ shown \in Servers \union {None} /\ loading \in BOOLEAN /\ loadError \in BOOLEAN
        /\ busy \in BOOLEAN /\ moves \in Nat /\ faults \in Nat
    BY DEF PagesInit
  <1>3. inflight \in [Servers -> [Actions -> Keys \union {None}]] /\ drawn \subseteq Keys
    BY DEF PagesInit
  <1>4. CallsAsk
    BY <1>1, FreeIsCall DEF CallsAsk, Free
  <1>5. KeysHaveCalls
    BY DEF KeysHaveCalls, PagesInit
  <1> QED
    BY <1>1, <1>2, <1>3, <1>4, <1>5 DEF PagesInv, PagesTypeOK

\* A step from a state of the invariant keeps it, and turns the page only to its own server.
LEMMA NextInv ==
  ASSUME PagesInv, [PagesNext]_serverVars
  PROVE  PagesInv' /\ (shown' # shown => shown' \in {at', None})
  <1>1. CASE \E c \in Slots : Handle(c)
    BY <1>1, HandleKeeps DEF Handle, pageVars
  <1>2. CASE (\E c \in Slots : ListArrives(c)) \/ PollList \/ Tick
    BY <1>2, ListsKeep DEF ListArrives, PollList, Tick, pageVars
  <1>3. CASE \E c \in Slots : GetArrives(c)
    <2>1. PICK c \in Slots : GetArrives(c)
      BY <1>3
    <2>2. call[c] \in Call /\ call[c].id \in Servers /\ Loaded(call[c]) /\ at' = at
      BY <2>1, CallTypes DEF GetArrives, PagesInv, CallsAsk
    <2> QED
      BY <2>1, <2>2, GetKeeps, LoadedTypes
  <1>4. CASE \E c \in Slots : StartArrives(c)
    BY <1>4, StartKeeps DEF StartArrives
  <1>5. CASE \E c \in Slots : ReloadArrives(c)
    BY <1>5, ReloadKeeps DEF ReloadArrives
  <1>6. CASE \E c \in Slots : DeleteArrives(c)
    BY <1>6, DeleteKeeps
  <1>7. CASE \E where \in Servers \union {List, Home} : Goto(where)
    <2>1. PICK where \in Servers \union {List, Home} : Goto(where)
      BY <1>7
    <2>2. shown' = shown \/ shown' = None
      BY <2>1 DEF Goto, Switches, Mounts
    <2> QED
      BY <2>1, <2>2, GotoKeeps
  <1>8. CASE \E c \in Acts, a \in Actions : Act(c, a)
    <2>1. PICK c \in Acts, a \in Actions, s \in Servers, page \in {"list", "server"} : Begin(c, s, a, page)
      BY <1>8 DEF Act, PagesInv, PagesTypeOK
    <2>2. shown' = shown
      BY <2>1 DEF Begin
    <2> QED
      BY <2>1, <2>2, BeginKeeps
  <1>9. CASE UNCHANGED serverVars
    BY <1>9 DEF serverVars, pageVars, bounds, PagesInv, PagesTypeOK, CallsAsk, KeysHaveCalls, Owns
  <1> QED
    BY <1>1, <1>2, <1>3, <1>4, <1>5, <1>6, <1>7, <1>8, <1>9 DEF PagesNext, Arrive

\* The state of the pages keeps its type, calls are about servers, and keys have calls.
THEOREM PagesAreTypeCorrect == PagesSpec => []PagesInv
  <1>1. PagesInit => PagesInv
    BY InitInv
  <1>2. PagesInv /\ [PagesNext]_serverVars => PagesInv'
    BY NextInv
  <1> QED
    BY <1>1, <1>2, PTL DEF PagesSpec

\* A request key is remembered only while the call that drew it is under way (lifecycle-request.ts).
THEOREM KeysAreOwnedHolds == PagesSpec => []KeysAreOwned
  <1>1. PagesInv => KeysAreOwned
    BY DEF PagesInv, KeysHaveCalls, KeysAreOwned, Owns
  <1> QED
    BY <1>1, PagesAreTypeCorrect, PTL

\* The page of one server only turns to the server it is for ([id]/+page.svelte, loadServer).
THEOREM ShowsItsServerHolds == PagesSpec => ShowsItsServer
  <1>1. PagesInv /\ [PagesNext]_serverVars => [shown' # shown => shown' \in {at', None}]_serverVars
    BY NextInv
  <1> QED
    BY <1>1, PagesAreTypeCorrect, PTL DEF PagesSpec, ShowsItsServer

=============================================================================
