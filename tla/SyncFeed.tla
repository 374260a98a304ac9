------------------------------ MODULE SyncFeed ------------------------------
(***************************************************************************)
(* GET /api/v1/sync and the inbox that reads it: how the devices of one    *)
(* account follow its delivery stream.  A request reads the committed      *)
(* head, scans one bounded page above its cursor and, when there is        *)
(* nothing to say, waits for a wakeup that PostgreSQL's NOTIFY feeds       *)
(* through the process's SyncHub.  The inbox emits a page event by event   *)
(* and then saves the cursor.  Answers get lost, the listener disconnects, *)
(* cursors expire, the inbox stops and is started again, the account       *)
(* leaves its conversation and comes back.                                 *)
(*                                                                         *)
(* The stream is gapless (Messaging's StreamsContiguous), so its rows are  *)
(* the sequences Floor + 1 .. head, all of one conversation.               *)
(***************************************************************************)
EXTENDS Integers, FiniteSets

CONSTANTS
    Device,
    Floor,          \* sync_floor: sequences up to here predate the stream
    Limit,          \* page size (limit, 1 to 100 in the code)
    FirstStart,     \* where an inbox is first told to start: "now" or "beginning"
    MaxEvents,      \* bound: events committed
    MaxMoves,       \* bound: how often the account leaves or rejoins
    MaxExpiries,    \* bound: expired cursors
    MaxFaults       \* bound: lost listeners and stopped inboxes

ASSUME SyncAssumption ==
    /\ Floor \in Nat /\ Limit \in Nat \ {0} /\ FirstStart \in {"now", "beginning"}
    /\ MaxEvents \in Nat /\ MaxMoves \in Nat /\ MaxExpiries \in Nat /\ MaxFaults \in Nat

VARIABLES
    head,       \* next_sequence - 1 of the committed stream
    member,     \* the account takes part in the conversation now
    listening,  \* SyncHub::run has a live LISTEN
    pipe,       \* a notification it has not read yet
    signal,     \* devices whose receiver holds a wakeup
    req,        \* req[d]: the request device d has open
    inbox,      \* inbox[d]: where its inbox stands and the cursor it holds in memory
    saved,      \* saved[d]: the cursor file of d
    got,        \* got[d]: the events it emitted
    hidden,     \* history: events a saved page passed over because d had no access
    jumped,     \* history: events a restart from "now" passed over
    expired,    \* history: events the reset after an expired cursor passed over
    told,       \* history: events the consumer was told may be missing
    missed,     \* history: devices subscribed when a notification was lost
    moves, expiries, faults

emission == <<got, hidden, jumped, expired, told>>
hub      == <<head, member, listening, pipe, moves>>
vars == <<hub, signal, req, inbox, saved, emission, missed, expiries, faults>>

Last == Floor + MaxEvents
Rows(lo, hi) == {n \in (Floor + 1)..head : lo < n /\ n <= hi}

(* A cursor: a position and, while it pages through a fixed boundary, that boundary.  *)
(* No cursor asks for everything above the floor; a missing file has position -1.     *)
Cursor(pos, upper) == [pos |-> pos, upper |-> upper]
NoFile == Cursor(-1, 0)

NoReq == [pc |-> "none", reset |-> FALSE, head |-> 0, upper |-> 0, pos |-> 0,
          more |-> FALSE, events |-> {}, hides |-> {}]

Init ==
    /\ head = Floor
    /\ member = TRUE
    /\ listening = FALSE
    /\ pipe = FALSE
    /\ signal = {} /\ missed = {}
    /\ req = [d \in Device |-> NoReq]
    /\ inbox = [d \in Device |-> [pc |-> "new", cursor |-> NoFile]]
    /\ saved = [d \in Device |-> NoFile]
    /\ got = [d \in Device |-> {}] /\ hidden = got /\ jumped = got /\ expired = got /\ told = got
    /\ moves = 0 /\ expiries = 0 /\ faults = 0

Asks(d, fields) == req' = [req EXCEPT ![d] = fields]
Inbox(d, pc, cursor) == inbox' = [inbox EXCEPT ![d] = [pc |-> pc, cursor |-> cursor]]
Add(set, d, events) == [set EXCEPT ![d] = @ \cup events]

SubscribedLate == {d \in Device : req[d].pc = "waiting"}

(* Devices with a subscribed receiver. *)
Subscribed == {d \in Device : req[d].pc \in {"subscribed", "head", "waiting"}}

----------------------------------------------------------------------------
(* The stream and its wakeups *)

(* A delivery commits with its pg_notify, which is lost without a listener. *)
Commit ==
    /\ head < Last
    /\ head' = head + 1
    /\ pipe' = listening
    /\ missed' = IF listening THEN missed ELSE missed \cup Subscribed
    /\ UNCHANGED <<member, listening, moves, signal, req, inbox, saved, emission, expiries, faults>>

(* SyncHub::run reads the notification and publishes it to every receiver; one that    *)
(* overflows reports Lagged, which wakes its request as well.                          *)
Publish ==
    /\ pipe
    /\ pipe' = FALSE
    /\ signal' = signal \cup Subscribed
    /\ UNCHANGED <<head, member, listening, moves, req, inbox, saved, emission, missed, expiries, faults>>

(* The listener connection breaks, with what it had not read yet ... *)
Disconnect ==
    /\ listening
    /\ faults < MaxFaults
    /\ faults' = faults + 1
    /\ listening' = FALSE
    /\ pipe' = FALSE
    /\ missed' = IF pipe THEN missed \cup Subscribed ELSE missed
    /\ UNCHANGED <<head, member, moves, signal, req, inbox, saved, emission, expiries>>

(* ... and is opened, at the start or after the pause. *)
Connect ==
    /\ ~listening
    /\ listening' = TRUE
    /\ UNCHANGED <<head, member, pipe, moves, signal, req, inbox, saved, emission, missed, expiries, faults>>

(* The account leaves the conversation, or joins it again. *)
Move ==
    /\ moves < MaxMoves
    /\ moves' = moves + 1
    /\ member' = ~member
    /\ UNCHANGED <<head, listening, pipe, signal, req, inbox, saved, emission, missed, expiries, faults>>

----------------------------------------------------------------------------
(* One request: events and page of api/sync.rs over sync_head and sync_events *)

(* The loop subscribes before it reads. *)
Subscribe(d, reset) ==
    /\ Asks(d, [NoReq EXCEPT !.pc = "subscribed", !.reset = reset])
    /\ signal' = signal \ {d}
    /\ missed' = missed \ {d}

(* A request without a cursor starts at the floor; without a boundary, it takes the head. *)
After(d) == IF inbox[d].cursor = NoFile \/ req[d].reset THEN Floor ELSE inbox[d].cursor.pos
Upper(d) == IF inbox[d].cursor.upper # 0 /\ ~req[d].reset THEN inbox[d].cursor.upper ELSE head
InBounds(d) == After(d) <= head /\ Upper(d) <= head /\ After(d) >= Floor

(* sync_head and the bounds checks of page. *)
ReadHead(d) ==
    /\ req[d].pc = "subscribed"
    /\ InBounds(d)
    /\ Asks(d, [req[d] EXCEPT !.pc = "head", !.head = head, !.upper = Upper(d)])
    /\ UNCHANGED <<hub, signal, inbox, saved, emission, missed, expiries, faults>>

ScanByLimit(d) ==
    LET rows == Rows(After(d), req[d].upper)
        page == {n \in rows : n <= After(d) + Limit}
    IN  [req[d] EXCEPT !.pos = After(d) + Limit, !.more = (rows # page),
                       !.events = IF member THEN page ELSE {}, !.hides = IF member THEN {} ELSE page]

(* sync_events: at most Limit rows up to the boundary, and whether there are more; the   *)
(* position passes over the rows the account has no access to now.                       *)
Scan(d) ==
    LET rows == Rows(After(d), req[d].upper)
        page == {n \in rows : n <= After(d) + Limit}
    IN  [req[d] EXCEPT !.pos = After(d) + Cardinality(page), !.more = (rows # page),
                       !.events = IF member THEN page ELSE {}, !.hides = IF member THEN {} ELSE page]

(* A page that says something, or a reset, is answered; else the request waits. *)
Read(d) ==
    LET page == IF req[d].reset THEN [req[d] EXCEPT !.pos = req[d].head] ELSE Scan(d) IN
    /\ req[d].pc = "head"
    /\ Asks(d, [page EXCEPT !.pc =
                  IF page.events # {} \/ page.more \/ page.reset THEN "answer" ELSE "waiting"])
    /\ UNCHANGED <<hub, signal, inbox, saved, emission, missed, expiries, faults>>

(* wait_for: woken, the loop starts over; *)
Wake(d) ==
    /\ req[d].pc = "waiting"
    /\ d \in signal
    /\ Subscribe(d, FALSE)
    /\ UNCHANGED <<hub, inbox, saved, emission, expiries, faults>>

DeadlineWoken(d) ==
    /\ req[d].pc = "waiting" /\ d \in signal
    /\ Asks(d, [req[d] EXCEPT !.pc = "answer"])
    /\ UNCHANGED <<hub, signal, inbox, saved, emission, missed, expiries, faults>>

(* at the deadline, the page read before is the answer. *)
Deadline(d) ==
    /\ req[d].pc = "waiting"
    /\ Asks(d, [req[d] EXCEPT !.pc = "answer"])
    /\ UNCHANGED <<hub, signal, inbox, saved, emission, missed, expiries, faults>>

NextCursorBounded(page) == Cursor(page.pos, page.upper)

(* The boundary stays in the cursor while more of its snapshot remains. *)
NextCursor(page) == Cursor(page.pos, IF page.more THEN page.upper ELSE 0)

(* decode_cursor refuses a cursor whose day is over, and page one out of bounds: the      *)
(* inbox is told to reset.                                                                *)
ResetRequired(d) ==
    /\ req[d].pc = "subscribed" /\ ~req[d].reset
    /\ inbox[d].cursor # NoFile
    /\ InBounds(d) => expiries < MaxExpiries
    /\ expiries' = IF InBounds(d) THEN expiries + 1 ELSE expiries
    /\ Inbox(d, "reset", inbox[d].cursor)
    /\ Asks(d, NoReq)
    /\ UNCHANGED <<hub, signal, saved, emission, missed, faults>>

----------------------------------------------------------------------------
(* The inbox (inbox.rs) *)

(* It starts where it is told to, later from the cursor file or, without one, from now. *)
Start(d) ==
    LET now == IF inbox[d].pc = "new" THEN FirstStart = "now" ELSE saved[d] = NoFile IN
    /\ inbox[d].pc \in {"new", "stopped"}
    /\ IF now THEN Inbox(d, IF inbox[d].pc = "new" THEN "anchor" ELSE "again", NoFile)
              ELSE Inbox(d, "poll", saved[d])
    /\ UNCHANGED <<hub, signal, req, saved, emission, missed, expiries, faults>>

(* It asks for a page, or for the anchor of a reset. *)
Request(d) ==
    /\ req[d].pc = "none"
    /\ inbox[d].pc \in {"poll", "anchor", "again", "reset"}
    /\ Subscribe(d, inbox[d].pc # "poll")
    /\ UNCHANGED <<hub, inbox, saved, emission, expiries, faults>>

Passed(d) == Rows(Floor, req[d].pos) \ (got[d] \cup hidden[d])

(* The anchor to start from now arrives; the start line says so. *)
Anchored(d) ==
    /\ req[d].pc = "answer" /\ inbox[d].pc \in {"anchor", "again"}
    /\ Inbox(d, "poll", NextCursor(req[d]))
    /\ told' = IF inbox[d].pc = "anchor" THEN Add(told, d, Passed(d)) ELSE told
    /\ jumped' = IF inbox[d].pc = "again" THEN Add(jumped, d, Passed(d) \ told[d]) ELSE jumped
    /\ Asks(d, NoReq)
    /\ UNCHANGED <<hub, signal, saved, got, hidden, expired, missed, expiries, faults>>

(* The anchor of a reset arrives and is saved; the reset line follows. *)
Reset(d) ==
    /\ req[d].pc = "answer" /\ inbox[d].pc = "reset"
    /\ Inbox(d, "announce", NextCursor(req[d]))
    /\ saved' = [saved EXCEPT ![d] = NextCursor(req[d])]
    /\ expired' = Add(expired, d, Passed(d))
    /\ Asks(d, NoReq)
    /\ UNCHANGED <<hub, signal, got, hidden, jumped, told, missed, expiries, faults>>

Announce(d) ==
    /\ inbox[d].pc = "announce"
    /\ Inbox(d, "poll", inbox[d].cursor)
    /\ told' = Add(told, d, expired[d])
    /\ UNCHANGED <<hub, signal, req, saved, got, hidden, jumped, expired, missed, expiries, faults>>

ReceiveAndSave(d) ==
    /\ req[d].pc = "answer" /\ inbox[d].pc = "poll"
    /\ Inbox(d, "page", inbox[d].cursor)
    /\ saved' = [saved EXCEPT ![d] = NextCursor(req[d])]
    /\ UNCHANGED <<hub, signal, req, emission, missed, expiries, faults>>

(* A page arrives ... *)
Receive(d) ==
    /\ req[d].pc = "answer" /\ inbox[d].pc = "poll"
    /\ Inbox(d, "page", inbox[d].cursor)
    /\ UNCHANGED <<hub, signal, req, saved, emission, missed, expiries, faults>>

(* ... its events are emitted in order ... *)
Emit(d) ==
    /\ inbox[d].pc = "page"
    /\ \E n \in req[d].events :
          /\ \A m \in req[d].events : n <= m
          /\ got' = Add(got, d, {n})
          /\ Asks(d, [req[d] EXCEPT !.events = @ \ {n}])
    /\ UNCHANGED <<hub, signal, inbox, saved, hidden, jumped, expired, told, missed, expiries, faults>>

(* ... and the cursor is saved after them. *)
Save(d) ==
    /\ inbox[d].pc = "page" /\ req[d].events = {}
    /\ Inbox(d, "poll", NextCursor(req[d]))
    /\ saved' = [saved EXCEPT ![d] = NextCursor(req[d])]
    /\ hidden' = Add(hidden, d, req[d].hides)
    /\ Asks(d, NoReq)
    /\ UNCHANGED <<hub, signal, got, jumped, expired, told, missed, expiries, faults>>

(* A request fails in passing: the inbox asks again with the cursor it has. *)
Lost(d) ==
    /\ req[d].pc # "none" /\ inbox[d].pc = "poll"
    /\ Asks(d, NoReq)
    /\ UNCHANGED <<hub, signal, inbox, saved, emission, missed, expiries, faults>>

(* The inbox ends at any point: an error it does not retry, or the process is stopped.    *)
(* Before the first start line nothing has been promised: it is as new.                   *)
Stop(d) ==
    /\ inbox[d].pc \notin {"new", "stopped"}
    /\ faults < MaxFaults
    /\ faults' = faults + 1
    /\ Inbox(d, IF inbox[d].pc = "anchor" THEN "new" ELSE "stopped", NoFile)
    /\ Asks(d, NoReq)
    /\ UNCHANGED <<hub, signal, saved, emission, missed, expiries>>

Serve(d) == ReadHead(d) \/ Read(d) \/ Wake(d) \/ Deadline(d)
Consume(d) == Anchored(d) \/ Reset(d) \/ Receive(d)
Proceed(d) == Start(d) \/ Request(d) \/ Announce(d) \/ Emit(d) \/ Save(d)

Next ==
    \/ Commit \/ Publish \/ Disconnect \/ Connect \/ Move
    \/ \E d \in Device : Serve(d) \/ ResetRequired(d) \/ Consume(d) \/ Proceed(d) \/ Lost(d) \/ Stop(d)

Spec == Init /\ [][Next]_vars

(* A watching inbox goes on, and is started again when it ends.  Requests fail in passing *)
(* only: one that is made again and again gets through each of its stages some time.      *)
FairSpec ==
    /\ Spec
    /\ \A d \in Device :
          /\ WF_vars(Proceed(d))
          /\ SF_vars(ReadHead(d)) /\ SF_vars(Read(d)) /\ SF_vars(Deadline(d)) /\ SF_vars(Consume(d))

----------------------------------------------------------------------------
(* Properties *)

(* Positions stay between the floor and the head; cursors, pages and inboxes keep their  *)
(* types (SyncCursor, SyncScan, SavedCursor).                                            *)
TypeOK ==
    LET Events == (Floor + 1)..head
        Cursors == {NoFile} \cup [pos : Floor..head, upper : {0} \cup (Floor + 1)..head] IN
    /\ head \in Floor..Last
    /\ member \in BOOLEAN /\ listening \in BOOLEAN /\ pipe \in BOOLEAN
    /\ signal \subseteq Device /\ missed \subseteq Device
    /\ \A d \in Device :
          /\ req[d].pc \in {"none", "subscribed", "head", "waiting", "answer"}
          /\ req[d].reset \in BOOLEAN /\ req[d].more \in BOOLEAN
          /\ req[d].head \in 0..head /\ req[d].upper \in 0..head /\ req[d].pos \in 0..head
          /\ req[d].events \subseteq Events /\ req[d].hides \subseteq Events
          /\ inbox[d].pc \in {"new", "stopped", "anchor", "again", "poll", "page", "reset", "announce"}
          /\ inbox[d].cursor \in Cursors /\ saved[d] \in Cursors
          /\ (got[d] \cup hidden[d] \cup jumped[d] \cup expired[d] \cup told[d]) \subseteq Events
    /\ moves \in 0..MaxMoves /\ expiries \in 0..MaxExpiries /\ faults \in 0..MaxFaults

(* The cursor file never runs ahead of the consumer: every event up to it was emitted,    *)
(* unless it was out of the account's reach when its page was read or an anchor (a start  *)
(* from now, a reset) passed it; across lost answers, pages of one boundary and restarts  *)
(* (the inbox emits before it saves, sync_events advances row by row).                    *)
NothingSkipped ==
    \A d \in Device : \A n \in (Floor + 1)..saved[d].pos :
        n \in got[d] \cup hidden[d] \cup jumped[d] \cup expired[d] \cup told[d]

(* A cursor that pages through a fixed boundary has not passed it, and the boundary is    *)
(* committed: the service never asks for a reset but for an expired cursor (page).        *)
CursorsServable ==
    \A d \in Device : \A c \in {saved[d], inbox[d].cursor} :
        /\ c.pos <= head
        /\ c.upper # 0 => c.pos < c.upper /\ c.upper <= head

(* "Subscribe before reading, so an event committed in between still wakes us": a request *)
(* that waits while the stream is already past what it read has its wakeup, or the hub    *)
(* still has to publish it, unless there was no listener to get the notification.         *)
NoLostWakeup ==
    \A d \in Device :
        req[d].pc = "waiting" /\ req[d].head < head => d \in signal \/ pipe \/ d \in missed

(* Every event reaches every inbox that keeps running, lost notifications, lost answers   *)
(* and restarts notwithstanding, with the exceptions of NothingSkipped.                   *)
EventsArrive ==
    \A d \in Device, n \in (Floor + 1)..Last :
        (head >= n) ~> (n \in got[d] \cup hidden[d] \cup jumped[d] \cup expired[d] \cup told[d])

(* "keeps its cursor per profile (saved after every page) so a restarted watcher resumes  *)
(* where it stopped": no restart passes over events that arrived since the first start.   *)
RestartResumes == \A d \in Device : jumped[d] = {}

(* "{"type":"reset",...} when the service asks for a fresh start": whoever reads on after *)
(* a reset has been told which events may be missing.                                     *)
ResetAnnounced == \A d \in Device : inbox[d].pc = "poll" => expired[d] \subseteq told[d]
=============================================================================
