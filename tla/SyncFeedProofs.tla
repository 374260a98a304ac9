--------------------------- MODULE SyncFeedProofs ---------------------------
(***************************************************************************)
(* The sync feed and its inboxes, for any devices, page size, floor and    *)
(* bounds: nothing is skipped, cursors stay servable, and no wakeup is     *)
(* lost while there is a listener.                                         *)
(*                                                                         *)
(* A page is decided when it is read, and counts when it is saved, with    *)
(* commits, restarts and resets in between.  The invariant says what an    *)
(* open request still knows then: its boundary is committed and not        *)
(* passed, and all between the cursor and its position is on the page, was *)
(* emitted from it, or was out of reach.                                   *)
(***************************************************************************)
EXTENDS SyncFeed, FiniteSetTheorems, TLAPS

(* A leaf goes to Zenon unless it names another prover. *)
USE Zenon

Events(h) == (Floor + 1)..h
Cursors(h) == {NoFile} \cup [pos : Floor..h, upper : {0} \cup (Floor + 1)..h]
ReqType(h) ==
    [pc : {"none", "subscribed", "head", "waiting", "answer"}, reset : BOOLEAN,
     head : 0..h, upper : 0..h, pos : 0..h, more : BOOLEAN,
     events : SUBSET Events(h), hides : SUBSET Events(h)]
InboxType(h) ==
    [pc : {"new", "stopped", "anchor", "again", "poll", "page", "reset", "announce"},
     cursor : Cursors(h)]

HubOK ==
    /\ head \in Floor..Last
    /\ member \in BOOLEAN /\ listening \in BOOLEAN /\ pipe \in BOOLEAN
    /\ signal \subseteq Device /\ missed \subseteq Device
    /\ moves \in 0..MaxMoves /\ expiries \in 0..MaxExpiries /\ faults \in 0..MaxFaults

HistoryOK ==
    LET Sets == [Device -> SUBSET Events(head)] IN
    got \in Sets /\ hidden \in Sets /\ jumped \in Sets /\ expired \in Sets /\ told \in Sets

Shape ==
    /\ HubOK /\ HistoryOK
    /\ req \in [Device -> ReqType(head)]
    /\ inbox \in [Device -> InboxType(head)]
    /\ saved \in [Device -> Cursors(head)]

Seen(d) == got[d] \cup hidden[d] \cup jumped[d] \cup expired[d] \cup told[d]

----------------------------------------------------------------------------
(* What holds of one device: h is the head, q its request, b its inbox, s its cursor file, *)
(* g what it emitted, seen what is accounted for.                                          *)

Accounted(pos, seen) == \A n \in (Floor + 1)..pos : n \in seen

(* CursorsServable for one cursor. *)
Servable(h, c) == c.pos <= h /\ (c.upper # 0 => c.pos < c.upper /\ c.upper <= h)

(* A request belongs to an inbox that asked for it, and has no page before it read one. *)
OpenOK(q, b) ==
    /\ b.pc = "page" => q.pc = "answer"
    /\ q.pc # "none" =>
          /\ b.pc \in {"poll", "page", "anchor", "again", "reset"}
          /\ q.reset <=> b.pc \notin {"poll", "page"}
    /\ q.pc \in {"subscribed", "head"} => ~q.more /\ q.events = {} /\ q.hides = {}

AfterOf(q, b) == IF b.cursor = NoFile \/ q.reset THEN Floor ELSE b.cursor.pos

(* Once the head is read, the boundary is committed and not below the cursor. *)
HeadOK(q, b) ==
    q.pc \in {"head", "waiting", "answer"} =>
        /\ Floor <= q.head
        /\ ~q.reset => AfterOf(q, b) <= q.upper /\ q.upper <= q.head

(* Once the page is read, it accounts for all from the cursor to its position. *)
PageOK(q, b, g) ==
    q.pc \in {"waiting", "answer"} =>
        /\ q.reset => q.pc = "answer" /\ q.pos = q.head /\ ~q.more
        /\ ~q.reset => /\ AfterOf(q, b) <= q.pos /\ q.pos <= q.upper
                       /\ q.more => q.pos < q.upper
                       /\ \A n \in (AfterOf(q, b) + 1)..q.pos : n \in q.events \cup q.hides \cup g

DeviceOK(h, q, b, s, g, seen) ==
    /\ Accounted(s.pos, seen) /\ Accounted(b.cursor.pos, seen)
    /\ Servable(h, s) /\ Servable(h, b.cursor)
    /\ OpenOK(q, b) /\ HeadOK(q, b) /\ PageOK(q, b, g)

DeviceIs(d) == DeviceOK(head, req[d], inbox[d], saved[d], got[d], Seen(d))

(* A request that read a head the stream has passed will hear of it. *)
Notified(d) ==
    req[d].pc \in {"head", "waiting"} /\ req[d].head < head => d \in signal \/ pipe \/ d \in missed

IInv == Shape /\ \A d \in Device : DeviceIs(d) /\ Notified(d)

----------------------------------------------------------------------------
(* The operators *)

(* The cursor file that is missing is no cursor of the stream. *)
LEMMA NoFileIs == NoFile.pos = -1 /\ NoFile.upper = 0
BY SMT DEF NoFile, Cursor

LEMMA NoReqTyped ==
    ASSUME NEW h \in Nat
    PROVE  /\ NoReq \in ReqType(h)
           /\ NoReq.pc = "none" /\ NoReq.reset = FALSE /\ NoReq.more = FALSE
           /\ NoReq.events = {} /\ NoReq.hides = {}
<1>1. 0 \in 0..h
  BY SMT
<1> QED
  BY <1>1 DEF NoReq, ReqType

(* A longer stream is a larger type, and takes nothing back from a device. *)
LEMMA Grows ==
    ASSUME NEW h \in Nat, NEW k \in Nat, h <= k
    PROVE  /\ Events(h) \subseteq Events(k) /\ 0..h \subseteq 0..k
           /\ Cursors(h) \subseteq Cursors(k)
           /\ ReqType(h) \subseteq ReqType(k) /\ InboxType(h) \subseteq InboxType(k)
<1>1. 0..h \subseteq 0..k /\ Floor..h \subseteq Floor..k /\ (Floor + 1)..h \subseteq (Floor + 1)..k
  BY SyncAssumption, SMT
<1>2. Events(h) \subseteq Events(k)
  BY <1>1 DEF Events
<1>3. Cursors(h) \subseteq Cursors(k)
  BY <1>1 DEF Cursors
<1>4. ReqType(h) \subseteq ReqType(k)
  BY <1>1, <1>2 DEF ReqType
<1>5. InboxType(h) \subseteq InboxType(k)
  BY <1>3 DEF InboxType
<1> QED
  BY <1>1, <1>2, <1>3, <1>4, <1>5

(* Positions and boundaries of cursors are numbers. *)
LEMMA CursorTyped ==
    ASSUME NEW h \in Nat, NEW c \in Cursors(h)
    PROVE  /\ c.pos \in Int /\ c.upper \in Nat /\ c.pos <= h
           /\ c # NoFile => c.pos >= Floor
           /\ c = NoFile => c.pos = -1 /\ c.upper = 0
<1>1. CASE c = NoFile
  BY <1>1, NoFileIs, SMT
<1>2. CASE c # NoFile
  BY <1>2, SyncAssumption, SMT DEF Cursors
<1> QED
  BY <1>1, <1>2

LEMMA AfterTyped ==
    ASSUME NEW h \in Nat, Floor <= h, NEW q, NEW b \in InboxType(h)
    PROVE  AfterOf(q, b) \in Floor..h
<1>1. b.cursor \in Cursors(h)
  BY DEF InboxType
<1>2. CASE b.cursor = NoFile \/ q.reset
  BY <1>2, SyncAssumption, SMT DEF AfterOf
<1>3. CASE ~(b.cursor = NoFile \/ q.reset)
  <2>1. AfterOf(q, b) = b.cursor.pos /\ b.cursor # NoFile
    BY <1>3 DEF AfterOf
  <2>2. b.cursor.pos \in Int /\ b.cursor.pos <= h /\ b.cursor.pos >= Floor
    BY <1>1, <2>1, CursorTyped
  <2> QED
    BY <2>1, <2>2, SyncAssumption, SMT
<1> QED
  BY <1>2, <1>3

LEMMA DeviceGrows ==
    ASSUME NEW h \in Nat, NEW k \in Nat, h <= k, NEW q, NEW b \in InboxType(h), NEW s \in Cursors(h),
           NEW g, NEW seen, DeviceOK(h, q, b, s, g, seen)
    PROVE  DeviceOK(k, q, b, s, g, seen)
<1>1. ASSUME NEW c \in Cursors(h), Servable(h, c) PROVE Servable(k, c)
  <2>1. c.pos \in Int /\ c.upper \in Nat
    BY CursorTyped
  <2> QED
    BY <1>1, <2>1, SMT DEF Servable
<1>2. b.cursor \in Cursors(h)
  BY DEF InboxType
<1> QED
  BY <1>1, <1>2 DEF DeviceOK

(* Without an open request only the cursors matter. *)
LEMMA Closed ==
    ASSUME NEW h, NEW q, NEW b, NEW s, NEW g, NEW seen,
           q.pc = "none", b.pc # "page",
           Accounted(s.pos, seen), Accounted(b.cursor.pos, seen), Servable(h, s), Servable(h, b.cursor)
    PROVE  DeviceOK(h, q, b, s, g, seen)
<1>1. OpenOK(q, b)
  BY SMT DEF OpenOK
<1>2. HeadOK(q, b) /\ PageOK(q, b, g)
  BY SMT DEF HeadOK, PageOK
<1> QED
  BY <1>1, <1>2 DEF DeviceOK

(* No file promises nothing. *)
LEMMA NothingSaved ==
    ASSUME NEW h \in Nat, NEW seen
    PROVE  Accounted(NoFile.pos, seen) /\ Servable(h, NoFile)
BY NoFileIs, SyncAssumption, SMT DEF Accounted, Servable

----------------------------------------------------------------------------
(* Steps of the stream, the hub and the conversation *)

(* Nothing of a device changes and the stream does not get shorter. *)
LEMMA HubStep ==
    ASSUME IInv, HubOK', head <= head', UNCHANGED <<req, inbox, saved, emission>>,
           \A d \in Device : Notified(d)'
    PROVE  IInv'
<1>1. head \in Nat /\ head' \in Nat
  BY SyncAssumption, SMT DEF IInv, Shape, HubOK, Last
<1>2. Shape'
  <2>1. /\ Events(head) \subseteq Events(head') /\ Cursors(head) \subseteq Cursors(head')
        /\ ReqType(head) \subseteq ReqType(head') /\ InboxType(head) \subseteq InboxType(head')
    BY <1>1, Grows
  <2>2. HistoryOK'
    BY <2>1 DEF IInv, Shape, HistoryOK, emission
  <2> QED
    BY <2>1, <2>2 DEF IInv, Shape
<1>3. ASSUME NEW d \in Device PROVE DeviceIs(d)'
  <2>1. inbox[d] \in InboxType(head) /\ saved[d] \in Cursors(head)
    BY DEF IInv, Shape
  <2>2. DeviceOK(head, req[d], inbox[d], saved[d], got[d], Seen(d))
    BY DEF IInv, DeviceIs
  <2>3. DeviceOK(head', req[d], inbox[d], saved[d], got[d], Seen(d))
    BY <1>1, <2>1, <2>2, DeviceGrows
  <2> QED
    BY <2>3 DEF DeviceIs, Seen, emission
<1> QED
  BY <1>2, <1>3 DEF IInv

LEMMA CommitStep == IInv /\ Commit => IInv'
<1> SUFFICES ASSUME IInv, Commit PROVE IInv'
  OBVIOUS
<1>1. head \in Int /\ head' = head + 1 /\ head < Last /\ HubOK
  BY SyncAssumption, SMT DEF IInv, Shape, HubOK, Commit, Last
<1>2. head' \in Floor..Last
  BY <1>1, SyncAssumption, SMT DEF HubOK, Last
<1>3. HubOK'
  BY <1>1, <1>2 DEF HubOK, Commit, Subscribed
<1>4. UNCHANGED <<req, inbox, saved, emission>> /\ pipe' = listening
      /\ missed' = IF listening THEN missed ELSE missed \cup Subscribed
  BY DEF Commit
<1>5. ASSUME NEW d \in Device PROVE Notified(d)'
  <2>1. req[d].pc \in {"head", "waiting"} => d \in Subscribed
    BY DEF Subscribed
  <2> QED
    BY <1>4, <2>1 DEF Notified
<1>6. head <= head'
  BY <1>1, SMT
<1> QED
  BY <1>3, <1>4, <1>5, <1>6, HubStep

LEMMA PublishStep == IInv /\ Publish => IInv'
<1> SUFFICES ASSUME IInv, Publish PROVE IInv'
  OBVIOUS
<1>1. HubOK'
  BY DEF IInv, Shape, HubOK, Publish, Subscribed
<1>2. ASSUME NEW d \in Device PROVE Notified(d)'
  <2>1. req[d].pc \in {"head", "waiting"} => d \in Subscribed
    BY DEF Subscribed
  <2> QED
    BY <2>1 DEF Publish, Notified
<1>3. head <= head' /\ UNCHANGED <<req, inbox, saved, emission>>
  BY SyncAssumption, SMT DEF Publish, IInv, Shape, HubOK, Last
<1> QED
  BY <1>1, <1>2, <1>3, HubStep

LEMMA DisconnectStep == IInv /\ Disconnect => IInv'
<1> SUFFICES ASSUME IInv, Disconnect PROVE IInv'
  OBVIOUS
<1>1. faults' \in 0..MaxFaults
  BY SyncAssumption, SMT DEF IInv, Shape, HubOK, Disconnect
<1>2. HubOK'
  BY <1>1 DEF IInv, Shape, HubOK, Disconnect, Subscribed
<1>3. ASSUME NEW d \in Device PROVE Notified(d)'
  <2>1. req[d].pc \in {"head", "waiting"} => d \in Subscribed
    BY DEF Subscribed
  <2>2. Notified(d) /\ missed' = IF pipe THEN missed \cup Subscribed ELSE missed
    BY DEF IInv, Disconnect
  <2>3. req' = req /\ head' = head /\ signal' = signal
    BY DEF Disconnect
  <2>4. CASE pipe
    BY <2>1, <2>2, <2>3, <2>4 DEF Notified
  <2>5. CASE ~pipe
    BY <2>2, <2>3, <2>5 DEF Notified
  <2> QED
    BY <2>4, <2>5
<1>4. head <= head' /\ UNCHANGED <<req, inbox, saved, emission>>
  BY SyncAssumption, SMT DEF Disconnect, IInv, Shape, HubOK, Last
<1> QED
  BY <1>2, <1>3, <1>4, HubStep

LEMMA ConnectStep == IInv /\ (Connect \/ Move) => IInv'
<1> SUFFICES ASSUME IInv, Connect \/ Move PROVE IInv'
  OBVIOUS
<1>1. moves' \in 0..MaxMoves
  BY SyncAssumption, SMT DEF IInv, Shape, HubOK, Connect, Move
<1>2. HubOK'
  BY <1>1 DEF IInv, Shape, HubOK, Connect, Move
<1>3. ASSUME NEW d \in Device PROVE Notified(d)'
  <2>1. req' = req /\ head' = head /\ signal' = signal /\ pipe' = pipe /\ missed' = missed
    BY DEF Connect, Move
  <2> QED
    BY <2>1 DEF IInv, Notified
<1>4. head <= head'
  BY SyncAssumption, SMT DEF Connect, Move, IInv, Shape, HubOK, Last
<1>5. UNCHANGED <<req, inbox, saved, emission>>
  BY DEF Connect, Move
<1> QED
  BY <1>2, <1>3, <1>4, <1>5, HubStep

----------------------------------------------------------------------------
(* Steps of a device *)

(* What a step of device d leaves alone. *)
Frame(d) ==
    /\ UNCHANGED <<head, member, listening, pipe, moves>>
    /\ signal' \subseteq Device /\ missed' \subseteq Device
    /\ expiries' \in 0..MaxExpiries /\ faults' \in 0..MaxFaults
    /\ \A e \in Device \ {d} :
          /\ req'[e] = req[e] /\ inbox'[e] = inbox[e] /\ saved'[e] = saved[e] /\ got'[e] = got[e]
          /\ hidden'[e] = hidden[e] /\ jumped'[e] = jumped[e] /\ expired'[e] = expired[e]
          /\ told'[e] = told[e]
          /\ e \in signal' <=> e \in signal
          /\ e \in missed' <=> e \in missed

(* A step of one device preserves the invariant if it keeps what holds of that device. *)
LEMMA DeviceStep ==
    ASSUME IInv, NEW d \in Device, Frame(d), HistoryOK',
           req' \in [Device -> ReqType(head)], inbox' \in [Device -> InboxType(head)],
           saved' \in [Device -> Cursors(head)],
           DeviceOK(head, req'[d], inbox'[d], saved'[d], got'[d], Seen(d)'), Notified(d)'
    PROVE  IInv'
<1>1. Shape'
  BY DEF IInv, Shape, HubOK, Frame
<1>2. ASSUME NEW e \in Device \ {d} PROVE DeviceIs(e)' /\ Notified(e)'
  <2>1. DeviceIs(e) /\ Notified(e)
    BY DEF IInv
  <2>2. /\ req'[e] = req[e] /\ inbox'[e] = inbox[e] /\ saved'[e] = saved[e] /\ got'[e] = got[e]
        /\ head' = head /\ pipe' = pipe
        /\ e \in signal' <=> e \in signal
        /\ e \in missed' <=> e \in missed
    BY DEF Frame
  <2>3. Seen(e)' = Seen(e)
    BY DEF Frame, Seen
  <2> QED
    BY <2>1, <2>2, <2>3 DEF DeviceIs, Notified
<1>3. DeviceIs(d)'
  BY DEF DeviceIs, Frame
<1> QED
  BY <1>1, <1>2, <1>3 DEF IInv

(* What is known of a device before its step. *)
LEMMA Known ==
    ASSUME IInv, NEW d \in Device
    PROVE  /\ head \in Nat /\ Floor <= head /\ Floor \in Nat
           /\ req[d] \in ReqType(head) /\ inbox[d] \in InboxType(head) /\ saved[d] \in Cursors(head)
           /\ inbox[d].cursor \in Cursors(head)
           /\ DeviceOK(head, req[d], inbox[d], saved[d], got[d], Seen(d))
           /\ Notified(d)
           /\ AfterOf(req[d], inbox[d]) = After(d) /\ After(d) \in Floor..head
<1>1. head \in Nat /\ Floor <= head /\ Floor \in Nat
  BY SyncAssumption, SMT DEF IInv, Shape, HubOK, Last
<1>2. req[d] \in ReqType(head) /\ inbox[d] \in InboxType(head) /\ saved[d] \in Cursors(head)
  BY DEF IInv, Shape
<1>3. inbox[d].cursor \in Cursors(head)
  BY <1>2 DEF InboxType
<1>4. AfterOf(req[d], inbox[d]) = After(d)
  BY DEF AfterOf, After
<1>5. After(d) \in Floor..head
  BY <1>1, <1>2, <1>4, AfterTyped
<1> QED
  BY <1>1, <1>2, <1>3, <1>4, <1>5 DEF IInv, DeviceIs

(* A function with a new value for one device. *)
LEMMA Put ==
    ASSUME NEW T, NEW f \in [Device -> T], NEW d \in Device, NEW v \in T
    PROVE  /\ [f EXCEPT ![d] = v] \in [Device -> T]
           /\ [f EXCEPT ![d] = v][d] = v
           /\ \A e \in Device \ {d} : [f EXCEPT ![d] = v][e] = f[e]
BY SMT

(* A step that changes the request only. *)
LEMMA RequestStep ==
    ASSUME IInv, NEW d \in Device, NEW q \in ReqType(head), Asks(d, q),
           UNCHANGED <<hub, signal, inbox, saved, emission, missed, expiries, faults>>,
           OpenOK(q, inbox[d]), HeadOK(q, inbox[d]), PageOK(q, inbox[d], got[d]),
           q.pc \in {"head", "waiting"} => q.head = head \/ (req[d].pc = "head" /\ q.head = req[d].head)
    PROVE  IInv'
<1>1. /\ req' \in [Device -> ReqType(head)] /\ req'[d] = q
      /\ \A e \in Device \ {d} : req'[e] = req[e]
  BY Put DEF IInv, Shape, Asks
<1>2. Frame(d)
  BY <1>1 DEF IInv, Shape, HubOK, Frame, hub, emission
<1>3. HistoryOK' /\ inbox' \in [Device -> InboxType(head)] /\ saved' \in [Device -> Cursors(head)]
  BY DEF IInv, Shape, HistoryOK, hub, emission
<1>4. DeviceOK(head, req'[d], inbox'[d], saved'[d], got'[d], Seen(d)')
  BY <1>1, Known DEF DeviceOK, emission, Seen
<1>5. Notified(d)'
  <2>1. head \in Nat
    BY Known
  <2>2. ~(head < head)
    BY <2>1, SMT
  <2>3. /\ req'[d] = q /\ head' = head /\ signal' = signal /\ pipe' = pipe /\ missed' = missed
        /\ Notified(d)
    BY <1>1, Known DEF hub
  <2> QED
    BY <2>2, <2>3 DEF Notified
<1> QED
  BY <1>1, <1>2, <1>3, <1>4, <1>5, DeviceStep

(* sync_head: the boundary is committed and not below the cursor (InBounds, CursorsServable). *)
LEMMA ReadHeadStep ==
    ASSUME IInv, NEW d \in Device, ReadHead(d)
    PROVE  IInv'
<1> DEFINE q == [req[d] EXCEPT !.pc = "head", !.head = head, !.upper = Upper(d)]
           b == inbox[d]
<1>1. /\ head \in Nat /\ Floor <= head /\ Floor \in Nat /\ req[d] \in ReqType(head)
      /\ b.cursor \in Cursors(head) /\ OpenOK(req[d], b) /\ Servable(head, b.cursor)
      /\ AfterOf(req[d], b) = After(d) /\ After(d) \in Floor..head
  BY Known DEF DeviceOK
<1>2. req[d].pc = "subscribed" /\ InBounds(d) /\ Asks(d, q)
  BY DEF ReadHead
<1>3. b.cursor.upper \in Nat /\ b.cursor.pos \in Int /\ (b.cursor = NoFile => b.cursor.upper = 0)
  BY <1>1, CursorTyped
<1>4. Upper(d) \in 0..head /\ head \in 0..head
  BY <1>1, <1>2, <1>3, SMT DEF InBounds, Upper
<1>5. q \in ReqType(head)
  BY <1>1, <1>4 DEF ReqType
<1>6. /\ q.pc = "head" /\ q.head = head /\ q.upper = Upper(d) /\ q.reset = req[d].reset
      /\ q.more = req[d].more /\ q.events = req[d].events /\ q.hides = req[d].hides
  BY <1>1, SMT DEF ReqType
<1>7. ~req[d].reset => After(d) <= Upper(d)
  <2>1. CASE b.cursor.upper # 0 /\ ~req[d].reset
    <3>1. Upper(d) = b.cursor.upper /\ b.cursor # NoFile
      BY <1>3, <2>1 DEF Upper
    <3>2. After(d) = b.cursor.pos
      BY <2>1, <3>1 DEF After
    <3> QED
      BY <1>3, <2>1, <1>1, <3>1, <3>2, SMT DEF Servable
  <2>2. CASE ~(b.cursor.upper # 0 /\ ~req[d].reset)
    BY <1>1, <1>2, <2>2, SMT DEF Upper, InBounds
  <2> QED
    BY <2>1, <2>2
<1>8. AfterOf(q, b) = After(d)
  BY <1>6 DEF AfterOf, After
<1> HIDE DEF q
<1>9. HeadOK(q, b)
  BY <1>1, <1>4, <1>6, <1>7, <1>8, SMT DEF HeadOK
<1>10. OpenOK(q, b)
  BY <1>1, <1>2, <1>6, SMT DEF OpenOK
<1>11. PageOK(q, b, got[d])
  BY <1>6, SMT DEF PageOK
<1>12. UNCHANGED <<hub, signal, inbox, saved, emission, missed, expiries, faults>>
  BY DEF ReadHead
<1> QED
  BY <1>2, <1>5, <1>6, <1>9, <1>10, <1>11, <1>12, RequestStep

(* sync_events: a page is the next rows up to the boundary, and says whether it ended there. *)
LEMMA ScanIs ==
    ASSUME IInv, NEW d \in Device, req[d].pc = "head", ~req[d].reset
    PROVE  /\ Scan(d) \in ReqType(head)
           /\ Scan(d).pc = req[d].pc /\ Scan(d).reset = req[d].reset
           /\ Scan(d).head = req[d].head /\ Scan(d).upper = req[d].upper
           /\ After(d) <= Scan(d).pos /\ Scan(d).pos <= req[d].upper
           /\ Scan(d).more => Scan(d).pos < req[d].upper
           /\ \A n \in (After(d) + 1)..Scan(d).pos : n \in Scan(d).events \cup Scan(d).hides
<1> DEFINE rows == Rows(After(d), req[d].upper)
           page == {n \in rows : n <= After(d) + Limit}
           end == IF req[d].upper <= After(d) + Limit THEN req[d].upper ELSE After(d) + Limit
           evs == IF member THEN page ELSE {}
           hid == IF member THEN {} ELSE page
<1>1. /\ head \in Nat /\ Floor <= head /\ Floor \in Nat /\ req[d] \in ReqType(head)
      /\ After(d) \in Floor..head /\ HeadOK(req[d], inbox[d]) /\ AfterOf(req[d], inbox[d]) = After(d)
  BY Known DEF DeviceOK
<1>2. req[d].upper \in 0..head
  BY <1>1 DEF ReqType
<1>3. After(d) <= req[d].upper
  BY <1>1 DEF HeadOK
<1>4. rows = (After(d) + 1)..req[d].upper
  BY <1>1, <1>2, SMT DEF Rows
<1>5. page = (After(d) + 1)..end
  BY <1>1, <1>2, <1>3, <1>4, SyncAssumption, SMT
<1>6. end \in Int /\ After(d) <= end /\ end <= req[d].upper /\ end \in 0..head
  BY <1>1, <1>2, <1>3, SyncAssumption, SMT
<1>7. Cardinality(page) = end - After(d)
  <2>1. After(d) + 1 \in Int
    BY <1>1, SMT
  <2>2. Cardinality((After(d) + 1)..end) = IF After(d) + 1 > end THEN 0 ELSE end - (After(d) + 1) + 1
    BY <1>6, <2>1, FS_Interval
  <2>3. (IF After(d) + 1 > end THEN 0 ELSE end - (After(d) + 1) + 1) = end - After(d)
    <3> HIDE DEF end
    <3> QED
      BY <1>1, <1>6, SMT
  <2> QED
    BY <1>5, <2>2, <2>3
<1>8. After(d) + Cardinality(page) = end
  BY <1>1, <1>6, <1>7, SMT
<1>9. rows # page => end < req[d].upper
  BY <1>2, <1>4, <1>5, <1>6, SMT
<1>10. page \subseteq Events(head)
  BY <1>1, <1>5, <1>6, SMT DEF Events
<1>11. Scan(d) = [req[d] EXCEPT !.pos = end, !.more = (rows # page), !.events = evs, !.hides = hid]
  BY <1>8 DEF Scan
<1>12. evs \subseteq Events(head) /\ hid \subseteq Events(head) /\ evs \cup hid = page
  BY <1>10
<1> HIDE DEF rows, page, end, evs, hid
<1>13. Scan(d) \in ReqType(head)
  BY ZenonT(40), <1>1, <1>6, <1>11, <1>12 DEF ReqType
<1>14. /\ Scan(d).pc = req[d].pc /\ Scan(d).reset = req[d].reset /\ Scan(d).head = req[d].head
       /\ Scan(d).upper = req[d].upper /\ Scan(d).pos = end /\ Scan(d).more = (rows # page)
       /\ Scan(d).events = evs /\ Scan(d).hides = hid
  BY <1>1, <1>11 DEF ReqType
<1> QED
  BY <1>5, <1>6, <1>9, <1>12, <1>13, <1>14

LEMMA ReadStep ==
    ASSUME IInv, NEW d \in Device, Read(d)
    PROVE  IInv'
<1> DEFINE page == IF req[d].reset THEN [req[d] EXCEPT !.pos = req[d].head] ELSE Scan(d)
           next == IF page.events # {} \/ page.more \/ page.reset THEN "answer" ELSE "waiting"
           q == [page EXCEPT !.pc = next]
           b == inbox[d]
<1>1. /\ head \in Nat /\ req[d] \in ReqType(head) /\ OpenOK(req[d], b) /\ HeadOK(req[d], b)
      /\ AfterOf(req[d], b) = After(d)
  BY Known DEF DeviceOK
<1>2. req[d].pc = "head" /\ Asks(d, q)
  BY DEF Read
<1>3. /\ page \in ReqType(head)
      /\ page.reset = req[d].reset /\ page.head = req[d].head /\ page.upper = req[d].upper
      /\ req[d].reset => page.pos = req[d].head /\ ~page.more
      /\ ~req[d].reset =>
            /\ After(d) <= page.pos /\ page.pos <= page.upper
            /\ page.more => page.pos < page.upper
            /\ \A n \in (After(d) + 1)..page.pos : n \in page.events \cup page.hides
  <2>1. CASE req[d].reset
    <3>1. page = [req[d] EXCEPT !.pos = req[d].head]
      BY <2>1
    <3>2. page \in ReqType(head)
      BY <1>1, <3>1 DEF ReqType
    <3>3. /\ page.reset = req[d].reset /\ page.head = req[d].head /\ page.upper = req[d].upper
          /\ page.pos = req[d].head /\ page.more = req[d].more
      BY <1>1, <3>1 DEF ReqType
    <3>4. ~req[d].more
      BY <1>1, <1>2 DEF OpenOK
    <3> QED
      BY <2>1, <3>2, <3>3, <3>4
  <2>2. CASE ~req[d].reset
    BY <1>2, <2>2, ScanIs
  <2> QED
    BY <2>1, <2>2
<1> HIDE DEF page
<1>4. /\ q \in ReqType(head) /\ q.pc = next /\ q.reset = page.reset /\ q.head = page.head
      /\ q.upper = page.upper /\ q.pos = page.pos /\ q.more = page.more
      /\ q.events = page.events /\ q.hides = page.hides
  <2>1. next \in {"waiting", "answer"}
    OBVIOUS
  <2> HIDE DEF next
  <2> QED
    BY <1>3, <2>1 DEF ReqType
<1>5. (next = "waiting" \/ next = "answer") /\ (page.reset => next = "answer")
  OBVIOUS
<1> HIDE DEF q, next
<1>6. AfterOf(q, b) = After(d)
  BY <1>1, <1>3, <1>4 DEF AfterOf
<1>7. OpenOK(q, b)
  <2>1. b.pc # "page" /\ b.pc \in {"poll", "page", "anchor", "again", "reset"}
        /\ (req[d].reset <=> b.pc \notin {"poll", "page"})
    BY <1>1, <1>2, SMT DEF OpenOK
  <2>2. q.pc \notin {"subscribed", "head"}
    BY <1>4, <1>5, SMT
  <2> QED
    BY <1>3, <1>4, <2>1, <2>2 DEF OpenOK
<1>8. HeadOK(q, b)
  BY <1>1, <1>2, <1>3, <1>4, <1>6 DEF HeadOK
<1>9. PageOK(q, b, got[d])
  BY <1>3, <1>4, <1>5, <1>6 DEF PageOK
<1>10. UNCHANGED <<hub, signal, inbox, saved, emission, missed, expiries, faults>>
  BY DEF Read
<1> QED
  BY <1>2, <1>3, <1>4, <1>7, <1>8, <1>9, <1>10, RequestStep

(* At the deadline the page that was read becomes the answer; a lost request leaves the inbox *)
(* with its cursor.                                                                           *)
LEMMA DeadlineStep ==
    ASSUME IInv, NEW d \in Device, Deadline(d) \/ Lost(d)
    PROVE  IInv'
<1>1. /\ head \in Nat /\ req[d] \in ReqType(head) /\ OpenOK(req[d], inbox[d])
      /\ HeadOK(req[d], inbox[d]) /\ PageOK(req[d], inbox[d], got[d])
  BY Known DEF DeviceOK
<1>2. UNCHANGED <<hub, signal, inbox, saved, emission, missed, expiries, faults>>
  BY DEF Deadline, Lost
<1>3. CASE Deadline(d)
  <2> DEFINE q == [req[d] EXCEPT !.pc = "answer"]
  <2>1. req[d].pc = "waiting" /\ Asks(d, q)
    BY <1>3 DEF Deadline
  <2>2. /\ q \in ReqType(head) /\ q.pc = "answer" /\ q.reset = req[d].reset /\ q.head = req[d].head
        /\ q.upper = req[d].upper /\ q.pos = req[d].pos /\ q.more = req[d].more
        /\ q.events = req[d].events /\ q.hides = req[d].hides
    BY <1>1 DEF ReqType
  <2> HIDE DEF q
  <2>3. AfterOf(q, inbox[d]) = AfterOf(req[d], inbox[d])
    BY <2>2 DEF AfterOf
  <2>4. q.pc \notin {"subscribed", "head", "waiting"} /\ req[d].pc # "none"
    BY <2>1, <2>2, SMT
  <2>5. OpenOK(q, inbox[d])
    BY <1>1, <2>1, <2>2, <2>4 DEF OpenOK
  <2>6. HeadOK(q, inbox[d]) /\ PageOK(q, inbox[d], got[d])
    BY <1>1, <2>1, <2>2, <2>3 DEF HeadOK, PageOK
  <2> QED
    BY <1>2, <2>1, <2>2, <2>4, <2>5, <2>6, RequestStep
<1>4. CASE Lost(d)
  <2>1. inbox[d].pc = "poll" /\ Asks(d, NoReq)
    BY <1>4 DEF Lost
  <2>2. NoReq \in ReqType(head) /\ NoReq.pc = "none"
    BY <1>1, NoReqTyped
  <2>3. OpenOK(NoReq, inbox[d]) /\ NoReq.pc \notin {"head", "waiting"}
    BY <2>1, <2>2, SMT DEF OpenOK
  <2>4. HeadOK(NoReq, inbox[d]) /\ PageOK(NoReq, inbox[d], got[d])
    BY <2>2, SMT DEF HeadOK, PageOK
  <2> QED
    BY <1>2, <2>1, <2>2, <2>3, <2>4, RequestStep
<1> QED
  BY <1>3, <1>4

(* A request is opened, or starts over after its wakeup: it has a new receiver and read nothing yet. *)
LEMMA SubscribeStep ==
    ASSUME IInv, NEW d \in Device, Wake(d) \/ Request(d)
    PROVE  IInv'
<1> DEFINE r == IF Wake(d) THEN FALSE ELSE inbox[d].pc # "poll"
           q == [NoReq EXCEPT !.pc = "subscribed", !.reset = r]
<1>1. /\ head \in Nat /\ req[d] \in ReqType(head) /\ OpenOK(req[d], inbox[d])
      /\ PageOK(req[d], inbox[d], got[d])
      /\ DeviceOK(head, req[d], inbox[d], saved[d], got[d], Seen(d))
  BY Known DEF DeviceOK
<1>2. r \in BOOLEAN /\ Asks(d, q) /\ signal' = signal \ {d} /\ missed' = missed \ {d}
  BY DEF Wake, Request, Subscribe
<1>3. /\ inbox[d].pc \in {"poll", "anchor", "again", "reset"}
      /\ r <=> inbox[d].pc \notin {"poll", "page"}
  <2>1. CASE Wake(d)
    <3>1. req[d].pc = "waiting" /\ r = FALSE
      BY <2>1 DEF Wake
    <3>2. ~req[d].reset
      BY <1>1, <3>1, SMT DEF PageOK
    <3>3. /\ inbox[d].pc # "page" /\ inbox[d].pc \in {"poll", "page", "anchor", "again", "reset"}
          /\ inbox[d].pc \in {"poll", "page"}
      BY <1>1, <3>1, <3>2, SMT DEF OpenOK
    <3> HIDE DEF r
    <3> QED
      BY <3>1, <3>3
  <2>2. CASE ~Wake(d)
    <3>1. inbox[d].pc \in {"poll", "anchor", "again", "reset"} /\ r = (inbox[d].pc # "poll")
      BY <2>2 DEF Request
    <3>2. (inbox[d].pc # "poll") <=> inbox[d].pc \notin {"poll", "page"}
      BY <3>1, SMT
    <3> HIDE DEF r
    <3> QED
      BY <3>1, <3>2
  <2> QED
    BY <2>1, <2>2
<1> HIDE DEF r
<1>4. /\ q \in ReqType(head) /\ q.pc = "subscribed" /\ q.reset = r /\ ~q.more
      /\ q.events = {} /\ q.hides = {}
  <2>1. NoReq \in ReqType(head) /\ NoReq.more = FALSE /\ NoReq.events = {} /\ NoReq.hides = {}
    BY <1>1, NoReqTyped
  <2> QED
    BY <1>2, <2>1 DEF ReqType
<1> HIDE DEF q
<1>5. /\ req' \in [Device -> ReqType(head)] /\ req'[d] = q
      /\ \A e \in Device \ {d} : req'[e] = req[e]
  BY <1>2, <1>4, Put DEF IInv, Shape, Asks
<1>6. UNCHANGED <<hub, inbox, saved, emission, expiries, faults>>
  BY DEF Wake, Request
<1>7. Frame(d)
  BY <1>2, <1>5, <1>6 DEF IInv, Shape, HubOK, Frame, hub, emission
<1>8. HistoryOK' /\ inbox' \in [Device -> InboxType(head)] /\ saved' \in [Device -> Cursors(head)]
  BY <1>6 DEF IInv, Shape, HistoryOK, hub, emission
<1>9. OpenOK(q, inbox[d])
  <2>1. inbox[d].pc # "page" /\ inbox[d].pc \in {"poll", "page", "anchor", "again", "reset"}
    BY <1>3, SMT
  <2> QED
    BY <1>3, <1>4, <2>1 DEF OpenOK
<1>10. HeadOK(q, inbox[d]) /\ PageOK(q, inbox[d], got[d])
  BY <1>4, SMT DEF HeadOK, PageOK
<1>11. DeviceOK(head, req'[d], inbox'[d], saved'[d], got'[d], Seen(d)')
  BY <1>1, <1>5, <1>6, <1>9, <1>10 DEF DeviceOK, emission, Seen
<1>12. Notified(d)'
  <2>1. req'[d].pc \notin {"head", "waiting"}
    BY <1>4, <1>5, SMT
  <2> QED
    BY <2>1 DEF Notified
<1> QED
  BY <1>5, <1>7, <1>8, <1>11, <1>12, DeviceStep

LEMMA Keep ==
    ASSUME NEW T, NEW f \in [Device -> T], NEW d \in Device
    PROVE  f = [f EXCEPT ![d] = f[d]]
BY SMT

(* What a step may do to the histories of device d. *)
Records(d) ==
    /\ HistoryOK'
    /\ \A e \in Device \ {d} :
          /\ got'[e] = got[e] /\ hidden'[e] = hidden[e] /\ jumped'[e] = jumped[e]
          /\ expired'[e] = expired[e] /\ told'[e] = told[e]

LEMMA SameRecords ==
    ASSUME IInv, UNCHANGED <<head, emission>>, NEW d \in Device
    PROVE  Records(d) /\ Seen(d)' = Seen(d)
BY DEF IInv, Shape, HistoryOK, emission, Records, Seen

(* A step after which device d has no request open. *)
LEMMA ClosedStep ==
    ASSUME IInv, NEW d \in Device, NEW b \in InboxType(head), NEW s \in Cursors(head),
           Asks(d, NoReq) \/ (UNCHANGED req /\ req[d].pc = "none"), b.pc # "page",
           inbox' = [inbox EXCEPT ![d] = b], saved' = [saved EXCEPT ![d] = s],
           Records(d), UNCHANGED <<hub, signal, missed>>,
           expiries' \in 0..MaxExpiries, faults' \in 0..MaxFaults,
           Accounted(s.pos, Seen(d)'), Accounted(b.cursor.pos, Seen(d)'),
           Servable(head, s), Servable(head, b.cursor)
    PROVE  IInv'
<1>1. head \in Nat /\ req[d] \in ReqType(head) /\ NoReq \in ReqType(head) /\ NoReq.pc = "none"
  BY Known, NoReqTyped
<1>2. /\ req' \in [Device -> ReqType(head)] /\ req'[d].pc = "none"
      /\ \A e \in Device \ {d} : req'[e] = req[e]
  <2>1. CASE Asks(d, NoReq)
    BY <1>1, <2>1, Put DEF IInv, Shape, Asks
  <2>2. CASE UNCHANGED req /\ req[d].pc = "none"
    BY <2>2 DEF IInv, Shape
  <2> QED
    BY <2>1, <2>2
<1>3. /\ inbox' \in [Device -> InboxType(head)] /\ inbox'[d] = b
      /\ \A e \in Device \ {d} : inbox'[e] = inbox[e]
  BY Put DEF IInv, Shape
<1>4. /\ saved' \in [Device -> Cursors(head)] /\ saved'[d] = s
      /\ \A e \in Device \ {d} : saved'[e] = saved[e]
  BY Put DEF IInv, Shape
<1>5. Frame(d)
  BY ZenonT(40), <1>2, <1>3, <1>4 DEF IInv, Shape, HubOK, Frame, hub, Records
<1>6. DeviceOK(head, req'[d], inbox'[d], saved'[d], got'[d], Seen(d)')
  BY <1>2, <1>3, <1>4, Closed
<1>7. Notified(d)'
  <2>1. req'[d].pc \notin {"head", "waiting"}
    BY <1>2, SMT
  <2> QED
    BY <2>1 DEF Notified
<1> QED
  BY <1>2, <1>3, <1>4, <1>5, <1>6, <1>7, DeviceStep DEF Records

(* An inbox at rest, or between a reset and its announcement, has no request open. *)
LEMMA AtRest ==
    ASSUME IInv, NEW d \in Device, inbox[d].pc \in {"new", "stopped", "announce"}
    PROVE  req[d].pc = "none"
<1>1. OpenOK(req[d], inbox[d])
  BY Known DEF DeviceOK
<1> QED
  BY <1>1, SMT DEF OpenOK

(* An inbox starts from its cursor file, from the beginning, or from now. *)
LEMMA StartStep ==
    ASSUME IInv, NEW d \in Device, Start(d)
    PROVE  IInv'
<1>1. /\ head \in Nat /\ saved[d] \in Cursors(head) /\ NoFile \in Cursors(head)
      /\ Accounted(saved[d].pos, Seen(d)) /\ Servable(head, saved[d])
  BY Known DEF DeviceOK, Cursors
<1>2. PICK pc \in {"anchor", "again", "poll"}, c \in {NoFile, saved[d]} :
        inbox' = [inbox EXCEPT ![d] = [pc |-> pc, cursor |-> c]]
  BY DEF Start, Inbox
<1> DEFINE b == [pc |-> pc, cursor |-> c]
<1>3. b \in InboxType(head) /\ b.cursor = c
  BY <1>1 DEF InboxType
<1>4. b.pc # "page"
  BY SMT
<1>5. Accounted(c.pos, Seen(d)) /\ Servable(head, c)
  BY <1>1, NothingSaved
<1>6. UNCHANGED <<hub, signal, missed>> /\ UNCHANGED req /\ UNCHANGED <<head, emission>>
      /\ expiries' \in 0..MaxExpiries /\ faults' \in 0..MaxFaults
  BY DEF Start, hub, IInv, Shape, HubOK
<1>7. req[d].pc = "none"
  <2>1. inbox[d].pc \in {"new", "stopped", "announce"}
    BY DEF Start
  <2> QED
    BY <2>1, AtRest
<1>8. saved' = [saved EXCEPT ![d] = saved[d]]
  BY Keep DEF IInv, Shape, Start
<1>9. Records(d) /\ Seen(d)' = Seen(d)
  BY <1>6, SameRecords
<1> HIDE DEF b
<1> QED
  BY <1>1, <1>2, <1>3, <1>4, <1>5, <1>6, <1>7, <1>8, <1>9, ClosedStep DEF b

(* A refused cursor is kept until the anchor of the reset arrives. *)
LEMMA ResetRequiredStep ==
    ASSUME IInv, NEW d \in Device, ResetRequired(d)
    PROVE  IInv'
<1> DEFINE b == [pc |-> "reset", cursor |-> inbox[d].cursor]
<1>1. /\ saved[d] \in Cursors(head) /\ inbox[d].cursor \in Cursors(head)
      /\ Accounted(saved[d].pos, Seen(d)) /\ Servable(head, saved[d])
      /\ Accounted(inbox[d].cursor.pos, Seen(d)) /\ Servable(head, inbox[d].cursor)
  BY Known DEF DeviceOK
<1>2. b \in InboxType(head) /\ b.cursor = inbox[d].cursor
  BY <1>1 DEF InboxType
<1>3. b.pc # "page"
  BY SMT
<1>4. Asks(d, NoReq) /\ inbox' = [inbox EXCEPT ![d] = b]
  BY DEF ResetRequired, Inbox
<1>5. UNCHANGED <<hub, signal, missed>> /\ UNCHANGED <<head, emission>>
      /\ faults' \in 0..MaxFaults
  BY DEF ResetRequired, hub, IInv, Shape, HubOK
<1>6. expiries' \in 0..MaxExpiries
  BY SyncAssumption, SMT DEF ResetRequired, IInv, Shape, HubOK
<1>7. saved' = [saved EXCEPT ![d] = saved[d]]
  BY Keep DEF IInv, Shape, ResetRequired
<1>8. Records(d) /\ Seen(d)' = Seen(d)
  BY <1>5, SameRecords
<1> HIDE DEF b
<1> QED
  BY <1>1, <1>2, <1>3, <1>4, <1>5, <1>6, <1>7, <1>8, ClosedStep

(* Whatever the inbox was doing, its cursor file stays. *)
LEMMA StopStep ==
    ASSUME IInv, NEW d \in Device, Stop(d)
    PROVE  IInv'
<1> DEFINE pc == IF inbox[d].pc = "anchor" THEN "new" ELSE "stopped"
           b == [pc |-> pc, cursor |-> NoFile]
<1>1. /\ head \in Nat /\ saved[d] \in Cursors(head) /\ NoFile \in Cursors(head)
      /\ Accounted(saved[d].pos, Seen(d)) /\ Servable(head, saved[d])
  BY Known DEF DeviceOK, Cursors
<1>2. b \in InboxType(head) /\ b.cursor = NoFile
  BY <1>1 DEF InboxType
<1>3. b.pc # "page"
  BY SMT
<1>4. Asks(d, NoReq) /\ inbox' = [inbox EXCEPT ![d] = b]
  BY DEF Stop, Inbox
<1>5. UNCHANGED <<hub, signal, missed>> /\ UNCHANGED <<head, emission>>
      /\ expiries' \in 0..MaxExpiries
  BY DEF Stop, hub, IInv, Shape, HubOK
<1>6. faults' \in 0..MaxFaults
  BY SyncAssumption, SMT DEF Stop, IInv, Shape, HubOK
<1>7. saved' = [saved EXCEPT ![d] = saved[d]]
  BY Keep DEF IInv, Shape, Stop
<1>8. Records(d) /\ Seen(d)' = Seen(d)
  BY <1>5, SameRecords
<1>9. Accounted(NoFile.pos, Seen(d)) /\ Servable(head, NoFile)
  BY <1>1, NothingSaved
<1> HIDE DEF b
<1> QED
  BY <1>1, <1>2, <1>3, <1>4, <1>5, <1>6, <1>7, <1>8, <1>9, ClosedStep

(* The cursor of an answer: at its position, with its boundary while more remains. *)
LEMMA NextCursorOK ==
    ASSUME IInv, NEW d \in Device, req[d].pc = "answer"
    PROVE  /\ NextCursor(req[d]) \in Cursors(head) /\ NextCursor(req[d]).pos = req[d].pos
           /\ Servable(head, NextCursor(req[d]))
           /\ req[d].pos \in Floor..head
<1> DEFINE q == req[d]
           c == NextCursor(q)
<1>1. /\ head \in Nat /\ Floor \in Nat /\ q \in ReqType(head)
      /\ HeadOK(q, inbox[d]) /\ PageOK(q, inbox[d], got[d])
      /\ AfterOf(q, inbox[d]) \in Floor..head
  BY Known DEF DeviceOK
<1>2. q.pos \in 0..head /\ q.upper \in 0..head /\ q.head \in 0..head
  BY <1>1 DEF ReqType
<1>3. c.pos = q.pos /\ c.upper = IF q.more THEN q.upper ELSE 0
  BY DEF NextCursor, Cursor
<1>4. Floor <= q.pos /\ (q.more => q.pos < q.upper)
  BY <1>1, <1>2, SMT DEF HeadOK, PageOK
<1>5. q.pos \in Floor..head
  BY <1>1, <1>2, <1>4, SMT
<1>6. c.upper \in {0} \cup (Floor + 1)..head
  BY <1>1, <1>2, <1>3, <1>4, SMT
<1>7. c \in Cursors(head)
  <2>1. c = [pos |-> c.pos, upper |-> c.upper]
    BY DEF NextCursor, Cursor
  <2> HIDE DEF c
  <2> QED
    BY <1>3, <1>5, <1>6, <2>1 DEF Cursors
<1>8. Servable(head, c)
  <2> HIDE DEF c, q
  <2> QED
    BY <1>1, <1>2, <1>3, <1>4, SMT DEF Servable
<1> QED
  BY <1>3, <1>5, <1>7, <1>8

(* The rows an anchor passes are those up to it that were not emitted or out of reach. *)
LEMMA PassedAre ==
    ASSUME IInv, NEW d \in Device, req[d].pc = "answer"
    PROVE  /\ Passed(d) \subseteq Events(head)
           /\ \A n \in (Floor + 1)..req[d].pos : n \in got[d] \cup hidden[d] \cup Passed(d)
<1>1. head \in Nat /\ Floor \in Nat /\ req[d].pos \in Floor..head
  BY Known, NextCursorOK
<1>2. Rows(Floor, req[d].pos) = (Floor + 1)..req[d].pos
  BY <1>1, SMT DEF Rows
<1>3. (Floor + 1)..req[d].pos \subseteq Events(head)
  BY <1>1, SMT DEF Events
<1> QED
  BY <1>2, <1>3 DEF Passed

(* Starting from now accounts for all it passes: the start line says so, or the restart did it. *)
LEMMA AnchoredStep ==
    ASSUME IInv, NEW d \in Device, Anchored(d)
    PROVE  IInv'
<1> DEFINE c == NextCursor(req[d])
           b == [pc |-> "poll", cursor |-> c]
           E == Events(head)
<1>1. req[d].pc = "answer" /\ inbox[d].pc \in {"anchor", "again"}
  BY DEF Anchored
<1>2. c \in Cursors(head) /\ c.pos = req[d].pos /\ Servable(head, c)
  BY <1>1, NextCursorOK
<1>3. /\ saved[d] \in Cursors(head)
      /\ Accounted(saved[d].pos, Seen(d)) /\ Servable(head, saved[d])
  BY Known DEF DeviceOK
<1>4. /\ Passed(d) \subseteq E
      /\ \A n \in (Floor + 1)..req[d].pos : n \in got[d] \cup hidden[d] \cup Passed(d)
  BY <1>1, PassedAre
<1>5. b \in InboxType(head) /\ b.cursor = c
  BY <1>2 DEF InboxType
<1>6. b.pc # "page"
  BY SMT
<1>7. Asks(d, NoReq) /\ inbox' = [inbox EXCEPT ![d] = b]
  BY DEF Anchored, Inbox
<1>8. /\ UNCHANGED <<hub, signal, missed>> /\ head' = head
      /\ got' = got /\ hidden' = hidden /\ expired' = expired
      /\ expiries' \in 0..MaxExpiries /\ faults' \in 0..MaxFaults
  BY DEF Anchored, hub, IInv, Shape, HubOK
<1>9. saved' = [saved EXCEPT ![d] = saved[d]]
  BY Keep DEF IInv, Shape, Anchored
<1> HIDE DEF b, c, E
<1>10. /\ told \in [Device -> SUBSET E] /\ jumped \in [Device -> SUBSET E]
       /\ got \in [Device -> SUBSET E] /\ hidden \in [Device -> SUBSET E]
       /\ expired \in [Device -> SUBSET E]
  BY DEF IInv, Shape, HistoryOK, E
<1>11. CASE inbox[d].pc = "anchor"
  <2>1. told' = Add(told, d, Passed(d)) /\ jumped' = jumped
    BY <1>11, SMT DEF Anchored
  <2>2. /\ told' \in [Device -> SUBSET E] /\ told'[d] = told[d] \cup Passed(d)
        /\ \A e \in Device \ {d} : told'[e] = told[e]
    BY <1>4, <1>10, <2>1, SMT DEF Add
  <2>3. Records(d)
    BY <1>8, <1>10, <2>1, <2>2 DEF Records, HistoryOK, E
  <2>4. Seen(d)' = Seen(d) \cup Passed(d)
    BY <1>8, <2>1, <2>2 DEF Seen
  <2>5. Accounted(saved[d].pos, Seen(d)') /\ Accounted(c.pos, Seen(d)')
    BY <1>2, <1>3, <1>4, <2>4 DEF Accounted, Seen
  <2> QED
    BY <1>2, <1>3, <1>5, <1>6, <1>7, <1>8, <1>9, <2>3, <2>5, ClosedStep
<1>12. CASE inbox[d].pc # "anchor"
  <2>1. told' = told /\ jumped' = Add(jumped, d, Passed(d) \ told[d])
    BY <1>1, <1>12 DEF Anchored
  <2>2. /\ jumped' \in [Device -> SUBSET E] /\ jumped'[d] = jumped[d] \cup (Passed(d) \ told[d])
        /\ \A e \in Device \ {d} : jumped'[e] = jumped[e]
    <3>1. Passed(d) \ told[d] \in SUBSET E
      BY <1>4
    <3> QED
      BY <1>10, <2>1, <3>1, SMT DEF Add
  <2>3. Records(d)
    BY <1>8, <1>10, <2>1, <2>2 DEF Records, HistoryOK, E
  <2>4. Seen(d)' = Seen(d) \cup Passed(d)
    BY <1>8, <2>1, <2>2 DEF Seen
  <2>5. Accounted(saved[d].pos, Seen(d)') /\ Accounted(c.pos, Seen(d)')
    BY <1>2, <1>3, <1>4, <2>4 DEF Accounted, Seen
  <2> QED
    BY <1>2, <1>3, <1>5, <1>6, <1>7, <1>8, <1>9, <2>3, <2>5, ClosedStep
<1> QED
  BY <1>11, <1>12

(* The anchor of a reset is saved: what it passed expired. *)
LEMMA ResetStep ==
    ASSUME IInv, NEW d \in Device, Reset(d)
    PROVE  IInv'
<1> DEFINE c == NextCursor(req[d])
           b == [pc |-> "announce", cursor |-> c]
           E == Events(head)
<1>1. req[d].pc = "answer"
  BY DEF Reset
<1>2. c \in Cursors(head) /\ c.pos = req[d].pos /\ Servable(head, c)
  BY <1>1, NextCursorOK
<1>3. /\ Passed(d) \subseteq E
      /\ \A n \in (Floor + 1)..req[d].pos : n \in got[d] \cup hidden[d] \cup Passed(d)
  BY <1>1, PassedAre
<1>4. b \in InboxType(head) /\ b.cursor = c
  BY <1>2 DEF InboxType
<1>5. b.pc # "page"
  BY SMT
<1>6. /\ Asks(d, NoReq) /\ inbox' = [inbox EXCEPT ![d] = b] /\ saved' = [saved EXCEPT ![d] = c]
      /\ expired' = Add(expired, d, Passed(d))
  BY DEF Reset, Inbox
<1>7. /\ UNCHANGED <<hub, signal, missed>> /\ head' = head
      /\ got' = got /\ hidden' = hidden /\ jumped' = jumped /\ told' = told
      /\ expiries' \in 0..MaxExpiries /\ faults' \in 0..MaxFaults
  BY DEF Reset, hub, IInv, Shape, HubOK
<1> HIDE DEF b, c, E
<1>8. /\ told \in [Device -> SUBSET E] /\ jumped \in [Device -> SUBSET E]
      /\ got \in [Device -> SUBSET E] /\ hidden \in [Device -> SUBSET E]
      /\ expired \in [Device -> SUBSET E]
  BY DEF IInv, Shape, HistoryOK, E
<1>9. /\ expired' \in [Device -> SUBSET E] /\ expired'[d] = expired[d] \cup Passed(d)
      /\ \A e \in Device \ {d} : expired'[e] = expired[e]
  BY <1>3, <1>6, <1>8, SMT DEF Add
<1>10. Records(d)
  BY <1>7, <1>8, <1>9 DEF Records, HistoryOK, E
<1>11. Accounted(c.pos, Seen(d)')
  BY <1>2, <1>3, <1>7, <1>9 DEF Accounted, Seen
<1> QED
  BY <1>2, <1>4, <1>5, <1>6, <1>7, <1>10, <1>11, ClosedStep

LEMMA AnnounceStep ==
    ASSUME IInv, NEW d \in Device, Announce(d)
    PROVE  IInv'
<1> DEFINE b == [pc |-> "poll", cursor |-> inbox[d].cursor]
           E == Events(head)
<1>1. /\ saved[d] \in Cursors(head) /\ inbox[d].cursor \in Cursors(head)
      /\ Accounted(saved[d].pos, Seen(d)) /\ Servable(head, saved[d])
      /\ Accounted(inbox[d].cursor.pos, Seen(d)) /\ Servable(head, inbox[d].cursor)
  BY Known DEF DeviceOK
<1>2. b \in InboxType(head) /\ b.cursor = inbox[d].cursor
  BY <1>1 DEF InboxType
<1>3. b.pc # "page"
  BY SMT
<1>4. /\ inbox' = [inbox EXCEPT ![d] = b] /\ UNCHANGED req /\ told' = Add(told, d, expired[d])
  BY DEF Announce, Inbox
<1>5. req[d].pc = "none"
  <2>1. inbox[d].pc \in {"new", "stopped", "announce"}
    BY DEF Announce
  <2> QED
    BY <2>1, AtRest
<1>6. /\ UNCHANGED <<hub, signal, missed>> /\ head' = head
      /\ got' = got /\ hidden' = hidden /\ jumped' = jumped /\ expired' = expired
      /\ expiries' \in 0..MaxExpiries /\ faults' \in 0..MaxFaults
  BY DEF Announce, hub, IInv, Shape, HubOK
<1>7. saved' = [saved EXCEPT ![d] = saved[d]]
  BY Keep DEF IInv, Shape, Announce
<1> HIDE DEF b, E
<1>8. /\ told \in [Device -> SUBSET E] /\ jumped \in [Device -> SUBSET E]
      /\ got \in [Device -> SUBSET E] /\ hidden \in [Device -> SUBSET E]
      /\ expired \in [Device -> SUBSET E]
  BY DEF IInv, Shape, HistoryOK, E
<1>9. /\ told' \in [Device -> SUBSET E] /\ told'[d] = told[d] \cup expired[d]
      /\ \A e \in Device \ {d} : told'[e] = told[e]
  <2>1. expired[d] \in SUBSET E
    BY <1>8
  <2> QED
    BY <1>4, <1>8, <2>1, SMT DEF Add
<1>10. Records(d)
  BY <1>6, <1>8, <1>9 DEF Records, HistoryOK, E
<1>11. Seen(d)' = Seen(d)
  BY <1>6, <1>9 DEF Seen
<1> QED
  BY <1>1, <1>2, <1>3, <1>4, <1>5, <1>6, <1>7, <1>10, <1>11, ClosedStep

(* The page is saved after its events: up to it everything was emitted or out of reach. *)
LEMMA SaveStep ==
    ASSUME IInv, NEW d \in Device, Save(d)
    PROVE  IInv'
<1> DEFINE c == NextCursor(req[d])
           b == [pc |-> "poll", cursor |-> c]
           E == Events(head)
<1>1. /\ head \in Nat /\ Floor \in Nat /\ req[d] \in ReqType(head)
      /\ inbox[d].cursor \in Cursors(head)
      /\ Accounted(inbox[d].cursor.pos, Seen(d))
      /\ OpenOK(req[d], inbox[d]) /\ PageOK(req[d], inbox[d], got[d])
      /\ AfterOf(req[d], inbox[d]) = After(d) /\ After(d) \in Floor..head
  BY Known DEF DeviceOK
<1>2. inbox[d].pc = "page" /\ req[d].events = {}
  BY DEF Save
<1>3. req[d].pc = "answer" /\ ~req[d].reset
  BY <1>1, <1>2, SMT DEF OpenOK
<1>4. c \in Cursors(head) /\ c.pos = req[d].pos /\ Servable(head, c) /\ req[d].pos \in Floor..head
  BY <1>3, NextCursorOK
<1>5. b \in InboxType(head) /\ b.cursor = c
  BY <1>4 DEF InboxType
<1>6. b.pc # "page"
  BY SMT
<1>7. /\ Asks(d, NoReq) /\ inbox' = [inbox EXCEPT ![d] = b] /\ saved' = [saved EXCEPT ![d] = c]
      /\ hidden' = Add(hidden, d, req[d].hides)
  BY DEF Save, Inbox
<1>8. /\ UNCHANGED <<hub, signal, missed>> /\ head' = head
      /\ got' = got /\ expired' = expired /\ jumped' = jumped /\ told' = told
      /\ expiries' \in 0..MaxExpiries /\ faults' \in 0..MaxFaults
  BY DEF Save, hub, IInv, Shape, HubOK
<1> HIDE DEF b, c, E
<1>9. /\ told \in [Device -> SUBSET E] /\ jumped \in [Device -> SUBSET E]
      /\ got \in [Device -> SUBSET E] /\ hidden \in [Device -> SUBSET E]
      /\ expired \in [Device -> SUBSET E]
  BY DEF IInv, Shape, HistoryOK, E
<1>10. /\ hidden' \in [Device -> SUBSET E] /\ hidden'[d] = hidden[d] \cup req[d].hides
       /\ \A e \in Device \ {d} : hidden'[e] = hidden[e]
  <2>1. req[d].hides \in SUBSET E
    BY <1>1 DEF ReqType, E
  <2> QED
    BY <1>7, <1>9, <2>1, SMT DEF Add
<1>11. Records(d)
  BY <1>8, <1>9, <1>10 DEF Records, HistoryOK, E
<1>12. Seen(d)' = Seen(d) \cup req[d].hides
  BY <1>8, <1>10 DEF Seen
<1>13. \A n \in (After(d) + 1)..req[d].pos : n \in req[d].hides \cup got[d]
  BY <1>1, <1>2, <1>3 DEF PageOK
<1>14. ASSUME NEW n \in (Floor + 1)..After(d) PROVE n \in Seen(d)
  <2>1. CASE inbox[d].cursor = NoFile \/ req[d].reset
    BY <1>1, <2>1, SMT DEF After
  <2>2. CASE ~(inbox[d].cursor = NoFile \/ req[d].reset)
    BY <1>1, <2>2 DEF After, Accounted
  <2> QED
    BY <2>1, <2>2
<1>15. Accounted(c.pos, Seen(d)')
  <2> SUFFICES ASSUME NEW n \in (Floor + 1)..req[d].pos PROVE n \in Seen(d)'
    BY <1>4 DEF Accounted
  <2>1. n \in (Floor + 1)..After(d) \/ n \in (After(d) + 1)..req[d].pos
    BY <1>1, <1>4, SMT
  <2> QED
    BY <1>12, <1>13, <1>14, <2>1 DEF Seen
<1> QED
  BY <1>4, <1>5, <1>6, <1>7, <1>8, <1>11, <1>15, ClosedStep

(* A page arrives: the inbox turns to it. *)
LEMMA ReceiveStep ==
    ASSUME IInv, NEW d \in Device, Receive(d)
    PROVE  IInv'
<1> DEFINE b == [pc |-> "page", cursor |-> inbox[d].cursor]
<1>1. /\ inbox[d].cursor \in Cursors(head)
      /\ DeviceOK(head, req[d], inbox[d], saved[d], got[d], Seen(d))
      /\ OpenOK(req[d], inbox[d]) /\ HeadOK(req[d], inbox[d]) /\ PageOK(req[d], inbox[d], got[d])
  BY Known DEF DeviceOK
<1>2. req[d].pc = "answer" /\ inbox[d].pc = "poll" /\ inbox' = [inbox EXCEPT ![d] = b]
  BY DEF Receive, Inbox
<1>3. b \in InboxType(head) /\ b.pc = "page" /\ b.cursor = inbox[d].cursor
  BY <1>1 DEF InboxType
<1> HIDE DEF b
<1>4. /\ inbox' \in [Device -> InboxType(head)] /\ inbox'[d] = b
      /\ \A e \in Device \ {d} : inbox'[e] = inbox[e]
  BY <1>2, <1>3, Put DEF IInv, Shape
<1>5. UNCHANGED <<hub, signal, req, saved, emission, missed, expiries, faults>>
  BY DEF Receive
<1>6. Frame(d)
  BY <1>4, <1>5 DEF IInv, Shape, HubOK, Frame, hub, emission
<1>7. HistoryOK' /\ req' \in [Device -> ReqType(head)] /\ saved' \in [Device -> Cursors(head)]
  BY <1>5 DEF IInv, Shape, HistoryOK, hub, emission
<1>8. AfterOf(req[d], b) = AfterOf(req[d], inbox[d])
  BY <1>3 DEF AfterOf
<1>9. OpenOK(req[d], b)
  BY <1>1, <1>2, <1>3, SMT DEF OpenOK
<1>10. HeadOK(req[d], b) /\ PageOK(req[d], b, got[d])
  BY <1>1, <1>8 DEF HeadOK, PageOK
<1>11. DeviceOK(head, req'[d], inbox'[d], saved'[d], got'[d], Seen(d)')
  BY <1>1, <1>3, <1>4, <1>5, <1>9, <1>10 DEF DeviceOK, emission, Seen
<1>12. Notified(d)'
  <2>1. req'[d].pc \notin {"head", "waiting"}
    BY <1>2, <1>5, SMT
  <2> QED
    BY <2>1 DEF Notified
<1> QED
  BY <1>4, <1>6, <1>7, <1>11, <1>12, DeviceStep

(* An event leaves the page for the consumer. *)
LEMMA EmitStep ==
    ASSUME IInv, NEW d \in Device, Emit(d)
    PROVE  IInv'
<1> DEFINE E == Events(head)
<1>1. PICK n \in req[d].events :
        /\ got' = Add(got, d, {n})
        /\ Asks(d, [req[d] EXCEPT !.events = req[d].events \ {n}])
  <2>1. req[d] \in ReqType(head)
    BY Known
  <2> QED
    BY <2>1 DEF Emit, ReqType
<1> DEFINE q == [req[d] EXCEPT !.events = req[d].events \ {n}]
<1>2. /\ req[d] \in ReqType(head)
      /\ DeviceOK(head, req[d], inbox[d], saved[d], got[d], Seen(d))
      /\ OpenOK(req[d], inbox[d]) /\ HeadOK(req[d], inbox[d]) /\ PageOK(req[d], inbox[d], got[d])
  BY Known DEF DeviceOK
<1>3. req[d].pc = "answer" /\ inbox[d].pc = "page"
  BY <1>2 DEF Emit, OpenOK
<1>4. req[d].events \in SUBSET E
  BY <1>2 DEF ReqType
<1>5. /\ q \in ReqType(head) /\ q.pc = req[d].pc /\ q.reset = req[d].reset /\ q.head = req[d].head
      /\ q.upper = req[d].upper /\ q.pos = req[d].pos /\ q.more = req[d].more
      /\ q.hides = req[d].hides /\ q.events = req[d].events \ {n}
  <2>1. req[d].events \ {n} \in SUBSET E
    BY <1>4
  <2> QED
    BY <1>2, <2>1 DEF ReqType
<1>6. UNCHANGED <<hub, signal, inbox, saved, hidden, jumped, expired, told, missed, expiries, faults>>
  BY DEF Emit
<1> HIDE DEF q, E
<1>7. /\ req' \in [Device -> ReqType(head)] /\ req'[d] = q
      /\ \A e \in Device \ {d} : req'[e] = req[e]
  BY <1>1, <1>5, Put DEF IInv, Shape, Asks, q
<1>8. /\ told \in [Device -> SUBSET E] /\ jumped \in [Device -> SUBSET E]
      /\ got \in [Device -> SUBSET E] /\ hidden \in [Device -> SUBSET E]
      /\ expired \in [Device -> SUBSET E]
  BY DEF IInv, Shape, HistoryOK, E
<1>9. /\ got' \in [Device -> SUBSET E] /\ got'[d] = got[d] \cup {n}
      /\ \A e \in Device \ {d} : got'[e] = got[e]
  <2>1. {n} \in SUBSET E
    BY <1>4
  <2> QED
    BY <1>1, <1>8, <2>1, SMT DEF Add
<1>10. Frame(d)
  BY <1>6, <1>7, <1>9 DEF IInv, Shape, HubOK, Frame, hub
<1>11. HistoryOK'
  BY <1>6, <1>8, <1>9 DEF HistoryOK, hub, E
<1>12. inbox' \in [Device -> InboxType(head)] /\ saved' \in [Device -> Cursors(head)]
  BY <1>6 DEF IInv, Shape
<1>13. AfterOf(q, inbox[d]) = AfterOf(req[d], inbox[d])
  BY <1>5 DEF AfterOf
<1>14. OpenOK(q, inbox[d])
  <2>1. q.pc \notin {"subscribed", "head"}
    BY <1>3, <1>5, SMT
  <2> QED
    BY <1>2, <1>5, <2>1 DEF OpenOK
<1>15. HeadOK(q, inbox[d])
  BY <1>2, <1>5, <1>13 DEF HeadOK
<1>16. PageOK(q, inbox[d], got'[d])
  <2>1. \A m : m \in req[d].events \cup req[d].hides \cup got[d]
               => m \in q.events \cup q.hides \cup got'[d]
    BY <1>5, <1>9
  <2> QED
    BY <1>2, <1>5, <1>13, <2>1 DEF PageOK
<1>17. Seen(d) \subseteq Seen(d)'
  BY <1>6, <1>9 DEF Seen
<1>18. DeviceOK(head, req'[d], inbox'[d], saved'[d], got'[d], Seen(d)')
  <2>1. Accounted(saved[d].pos, Seen(d)') /\ Accounted(inbox[d].cursor.pos, Seen(d)')
    BY <1>2, <1>17 DEF DeviceOK, Accounted
  <2>2. inbox'[d] = inbox[d] /\ saved'[d] = saved[d]
    BY <1>6
  <2> QED
    BY <1>2, <1>7, <1>14, <1>15, <1>16, <2>1, <2>2 DEF DeviceOK
<1>19. Notified(d)'
  <2>1. req'[d].pc \notin {"head", "waiting"}
    BY <1>3, <1>5, <1>7, SMT
  <2> QED
    BY <2>1 DEF Notified
<1> QED
  BY <1>7, <1>10, <1>11, <1>12, <1>18, <1>19, DeviceStep

----------------------------------------------------------------------------
(* The invariant and the theorems *)

LEMMA Initially == Init => IInv
<1> SUFFICES ASSUME Init PROVE IInv
  OBVIOUS
<1>1. head \in Nat /\ Floor \in Nat /\ head = Floor
  BY SyncAssumption DEF Init
<1>2. NoReq \in ReqType(head) /\ NoReq.pc = "none"
  BY <1>1, NoReqTyped
<1>3. NoFile \in Cursors(head)
  BY DEF Cursors
<1> DEFINE b == [pc |-> "new", cursor |-> NoFile]
<1>4. b \in InboxType(head) /\ b.cursor = NoFile
  BY <1>3 DEF InboxType
<1>5. b.pc # "page"
  BY SMT
<1>6. HubOK
  <2>1. head \in Floor..Last /\ moves \in 0..MaxMoves /\ expiries \in 0..MaxExpiries /\ faults \in 0..MaxFaults
    BY SyncAssumption, SMT DEF Init, Last
  <2> QED
    BY <2>1 DEF Init, HubOK
<1>7. HistoryOK
  BY DEF Init, HistoryOK
<1>8. Shape
  BY <1>2, <1>3, <1>4, <1>6, <1>7 DEF Init, Shape
<1>9. ASSUME NEW d \in Device PROVE DeviceIs(d) /\ Notified(d)
  <2>1. req[d] = NoReq /\ inbox[d] = b /\ saved[d] = NoFile
    BY DEF Init
  <2> HIDE DEF b
  <2>2. Accounted(NoFile.pos, Seen(d)) /\ Servable(head, NoFile)
    BY <1>1, NothingSaved
  <2>3. DeviceIs(d)
    BY <1>2, <1>4, <1>5, <2>1, <2>2, Closed DEF DeviceIs
  <2>4. req[d].pc \notin {"head", "waiting"}
    BY <1>2, <2>1, SMT
  <2> QED
    BY <2>3, <2>4 DEF Notified
<1> QED
  BY <1>8, <1>9 DEF IInv

LEMMA Preserved == IInv /\ [Next]_vars => IInv'
<1> SUFFICES ASSUME IInv, [Next]_vars PROVE IInv'
  OBVIOUS
<1>1. CASE Commit \/ Publish \/ Disconnect \/ Connect \/ Move
  BY <1>1, CommitStep, PublishStep, DisconnectStep, ConnectStep
<1>2. ASSUME NEW d \in Device, Serve(d) PROVE IInv'
  BY <1>2, ReadHeadStep, ReadStep, SubscribeStep, DeadlineStep DEF Serve
<1>3. ASSUME NEW d \in Device, Consume(d) PROVE IInv'
  BY <1>3, AnchoredStep, ResetStep, ReceiveStep DEF Consume
<1>4. ASSUME NEW d \in Device, Proceed(d) PROVE IInv'
  BY <1>4, StartStep, SubscribeStep, AnnounceStep, EmitStep, SaveStep DEF Proceed
<1>5. ASSUME NEW d \in Device, ResetRequired(d) \/ Lost(d) \/ Stop(d) PROVE IInv'
  BY <1>5, ResetRequiredStep, DeadlineStep, StopStep
<1>6. CASE UNCHANGED vars
  <2>1. UNCHANGED <<req, inbox, saved, emission>> /\ head' = head /\ signal' = signal /\ pipe' = pipe
        /\ missed' = missed
    BY <1>6 DEF vars, hub
  <2>2. HubOK'
    BY <1>6 DEF vars, hub, IInv, Shape, HubOK
  <2>3. \A d \in Device : Notified(d)'
    BY <2>1 DEF IInv, Notified
  <2>4. head <= head'
    BY <2>1, SyncAssumption, SMT DEF IInv, Shape, HubOK, Last
  <2> QED
    BY <2>1, <2>2, <2>3, <2>4, HubStep
<1> QED
  BY <1>1, <1>2, <1>3, <1>4, <1>5, <1>6 DEF Next

LEMMA Implied == IInv => TypeOK /\ NothingSkipped /\ CursorsServable /\ NoLostWakeup
<1> SUFFICES ASSUME IInv PROVE TypeOK /\ NothingSkipped /\ CursorsServable /\ NoLostWakeup
  OBVIOUS
<1>1. TypeOK
  <2>1. ASSUME NEW d \in Device
        PROVE  /\ req[d] \in ReqType(head) /\ inbox[d] \in InboxType(head)
               /\ saved[d] \in Cursors(head)
               /\ (got[d] \cup hidden[d] \cup jumped[d] \cup expired[d] \cup told[d]) \subseteq Events(head)
    BY DEF IInv, Shape, HistoryOK
  <2> QED
    BY <2>1 DEF IInv, Shape, HubOK, TypeOK, ReqType, InboxType, Cursors, Events
<1>2. NothingSkipped
  BY DEF IInv, DeviceIs, DeviceOK, Accounted, Seen, NothingSkipped
<1>3. CursorsServable
  BY DEF IInv, DeviceIs, DeviceOK, Servable, CursorsServable
<1>4. NoLostWakeup
  BY DEF IInv, Notified, NoLostWakeup
<1> QED
  BY <1>1, <1>2, <1>3, <1>4

(* Positions stay between the floor and the head, and everything else keeps its type. *)
THEOREM FeedTypeCorrect == Spec => []TypeOK
BY Initially, Preserved, Implied, PTL DEF Spec

(* The cursor file never runs ahead of the consumer, for any number of devices, page size,     *)
(* commits, lost answers, expired cursors, restarts and changes of participation (inbox.rs     *)
(* emits before it saves, sync_events advances row by row).                                    *)
THEOREM NeverSkips == Spec => []NothingSkipped
BY Initially, Preserved, Implied, PTL DEF Spec

(* Every cursor, in memory or in the file, is one the service accepts: the boundary it carries *)
(* is committed and not passed yet (page).                                                     *)
THEOREM AlwaysServable == Spec => []CursorsServable
BY Initially, Preserved, Implied, PTL DEF Spec

(* A request that waits although the stream has passed what it read has its wakeup coming,     *)
(* unless there was no listener (events subscribes before it reads).                           *)
THEOREM WakeupsArrive == Spec => []NoLostWakeup
BY Initially, Preserved, Implied, PTL DEF Spec
=============================================================================
