----------------------------- MODULE Messaging -----------------------------
(***************************************************************************)
(* Message acceptance in the DM store: sending, editing, tombstoning and   *)
(* acknowledging messages, as the PostgreSQL transactions they are.        *)
(*                                                                         *)
(* A transaction runs in a slot of Tx, one action per statement that waits *)
(* for a row lock or whose outcome another transaction can change.  What   *)
(* it writes stays in tx[t] until Commit (READ COMMITTED: nobody else sees *)
(* it) and is dropped by Abort; row locks are kept in tx[t].holds until    *)
(* then.  Every locking statement re-reads the committed row, as           *)
(* PostgreSQL does after a lock wait.                                      *)
(***************************************************************************)
EXTENDS Integers, FiniteSets

CONSTANTS
    Account,        \* accounts, as numbers: the store fans out in account order
    Silicon,        \* the accounts that are Silicons; the others are Carbons
    Custodian,      \* [Account -> Account \cup {0}], 0 for none
    Conversation,
    Direct,         \* the conversations that are not groups
    Participants,   \* [Conversation -> SUBSET Account]: who takes part at first
    Key,            \* idempotency keys
    Body, NoBody,   \* message content, compared by its digest
    Gif, NoGif,
    GifOf,          \* [Body -> Gif \cup {NoGif}]: the GIF a content carries
    Device,
    Request,        \* the requests clients make, and repeat
    NoRequest,
    NoMessage,
    Tx,             \* concurrent database transactions
    MaxMessages,    \* bound: messages per conversation
    MaxAttempts,    \* bound: how often one request is made
    MaxDraft,       \* bound: draft versions saved by clients
    GifLimit        \* entries of a recent-GIF list (20 in the code)

Sends    == {"send"}
Revisals == {"edit", "delete"}
Receipts == {"delivered", "read"}

MsgId  == Conversation \X (1..MaxMessages)
Status == {"sent", "delivered", "read"}

Row == [sender : Account, key : Key, body : Body, status : Status,
        edits : Nat, deleted : BOOLEAN]

Event == [seq : Nat, msg : MsgId, kind : {"message", "delivered", "read"}, rev : Nat]

ASSUME ConstantsAssumption ==
    /\ Account \subseteq Nat \ {0}
    /\ Silicon \subseteq Account
    /\ Custodian \in [Account -> Account \cup {0}]
    /\ Direct \subseteq Conversation
    /\ Participants \in [Conversation -> SUBSET Account]
    /\ GifOf \in [Body -> Gif \cup {NoGif}]
    /\ NoBody \notin Body
    /\ NoMessage \notin Row
    /\ MaxMessages \in Nat /\ MaxAttempts \in Nat /\ MaxDraft \in Nat /\ GifLimit \in Nat

ASSUME RequestAssumption ==
    /\ NoRequest \notin Request
    /\ Request \subseteq
         [op : Sends \cup Revisals \cup Receipts, actor : Account, conv : Conversation,
          seq : 0..MaxMessages, reply : 0..MaxMessages, key : Key,
          body : Body \cup {NoBody}, device : Device]
    /\ \A r \in Request :
         /\ (r.op \in Sends) <=> (r.seq = 0)
         /\ (r.op \in {"send", "edit"}) <=> (r.body \in Body)

VARIABLES
    joined,     \* joined[c]: accepted members (groups), participants (direct)
    deleted,    \* accounts with status 'deleted'
    message,    \* message[<<c, n>>]: the messages table joined with message_history
    nextSeq,    \* conversations.next_message_sequence
    stream,     \* stream[a]: the actor_deliveries rows of account a
    next,       \* actor_delivery_streams.next_sequence
    idem,       \* completed idempotency_records
    receipts,   \* message_receipts
    draft,      \* draft[c][a]: the drafts row (body # NoBody) and its version counter
    recent,     \* recent[a]: the recent_gifs rows
    tx,         \* the running transactions
    clock,      \* transaction_timestamp() of the next BEGIN
    attempts,   \* attempts[r]: how often request r was made
    answers,    \* 2xx answers that reached a client
    refused,    \* requests answered with the "durable data invariant" error
    since       \* history: since[c][a] is the first sequence accepted after a joined c

vars == <<joined, deleted, message, nextSeq, stream, next, idem, receipts,
          draft, recent, tx, clock, attempts, answers, refused, since>>

----------------------------------------------------------------------------
(* Row locks *)

Org         == <<"org">>             \* the '@accounts' row of organization_snapshots
Conv(c)     == <<"conv", c>>         \* conversations
Msg(m)      == <<"msg", m>>          \* messages
Stream(a)   == <<"stream", a>>       \* actor_delivery_streams
Draft(c, a) == <<"draft", c, a>>     \* drafts
Gifs(a)     == <<"gifs", a>>         \* recent_gifs
Idem(r)     == <<"idem", r.actor, r.op, r.key>>   \* idempotency_records

Unlocked(lock) == \A t \in Tx : lock \notin tx[t].holds

Idle == [pc |-> "idle", req |-> NoRequest, as |-> "none", at |-> 0, holds |-> {},
         seq |-> 0, rev |-> 0, status |-> "sent", todo |-> {}, out |-> {},
         clear |-> FALSE]

(* effective_conversation_participants: deleted accounts take part in nothing. *)
Effective(c) == joined[c] \ deleted

Target(r) == <<r.conv, r.seq>>

MsgOfRequested(t) == Target(tx[t].req)

(* The message transaction t is about: the one it inserts, or the one it names. *)
MsgOf(t)  == IF tx[t].req.op \in Sends
             THEN <<tx[t].req.conv, tx[t].seq>> ELSE Target(tx[t].req)

(* The idempotency record of (account, operation, key), and what its hash covers. *)
Records(r) == {i \in idem : i.actor = r.actor /\ i.op = r.op /\ i.key = r.key}
Hash(r)    == <<r.conv, r.seq, r.reply, r.body>>

tables == <<message, nextSeq, stream, next, idem, receipts, draft, recent>>
people == <<joined, deleted, since>>
client == <<clock, attempts, answers, refused>>

----------------------------------------------------------------------------
(* The aggregate status trigger (advance_message_aggregate_status). *)

(* Who counts: the accounts the first delivery of the message went to. *)
Recipients(m) ==
    {a \in Account : \E e \in stream[a] : e.msg = m /\ e.kind = "message" /\ e.rev = 1}
      \ {message[m].sender}

HasReceipt(rs, m, a, statuses) ==
    \E x \in rs : x.msg = m /\ x.actor = a /\ x.status \in statuses

Aggregate(rs, m) ==
    LET all(statuses) == /\ Recipients(m) # {}
                         /\ \A a \in Recipients(m) : HasReceipt(rs, m, a, statuses)
    IN  IF all({"read"}) THEN "read"
        ELSE IF all({"delivered", "read"}) /\ message[m].status = "sent" THEN "delivered"
        ELSE message[m].status

(* The receipt row of one device: 'read' is sticky. *)
Upsert(rs, r) ==
    LET row(s) == [msg |-> Target(r), actor |-> r.actor, device |-> r.device, status |-> s]
    IN  IF row("read") \in rs THEN rs
        ELSE (rs \ {row("delivered")}) \cup {row(r.op)}

----------------------------------------------------------------------------
(* The recent-GIF list (update_recent_gif_in and its trigger). *)

(* recent_gifs_usage_order: a repeated GIF may not be used before it was first used. *)
UsageOrdered(a, g, at) == \A x \in recent[a] : x.gif = g => x.first <= at

Keep(rows) == {x \in rows : Cardinality({y \in rows : y.last > x.last}) < GifLimit}

Used(a, g, at) ==
    LET old == {x \in recent[a] : x.gif = g}
        row == IF old = {} THEN {[gif |-> g, first |-> at, last |-> at]}
               ELSE {[x EXCEPT !.last = at] : x \in old}
    IN  Keep((recent[a] \ old) \cup row)

TracksGif(r) == r.actor \notin Silicon /\ GifOf[r.body] # NoGif

----------------------------------------------------------------------------
(* The row locks the next statement of transaction t takes. *)
At(t, pc, locks) == IF tx[t].pc = pc THEN locks ELSE {}

(* The account whose stream the next delivery goes to, and the rows the end of a send *)
(* changes.                                                                           *)
NextStream(t) == {Stream(a) : a \in {x \in tx[t].todo : \A y \in tx[t].todo : x <= y}}

FinishLocks(t) ==
    LET r == tx[t].req IN
    (IF draft[r.conv][r.actor].body = r.body THEN {Draft(r.conv, r.actor)} ELSE {})
      \cup (IF TracksGif(r) /\ ~(recent[r.actor] \subseteq Used(r.actor, GifOf[r.body], tx[t].at))
            THEN {Gifs(r.actor)} ELSE {})

StatementLocks(t) ==
    LET r == tx[t].req IN
    At(t, "lock", {Msg(Target(r))}) \cup At(t, "refresh", {Org}) \cup At(t, "claim", {Idem(r)})
      \cup At(t, "insert", {Conv(r.conv)}) \cup At(t, "revise", {Conv(r.conv)})
      \cup At(t, "enqueue", NextStream(t)) \cup At(t, "finish", FinishLocks(t))

(* The foreign key of a reply locks the message it answers at step pc. *)
ReplyLock(t, pc) ==
    At(t, pc, IF tx[t].req.reply # 0 THEN {Msg(<<tx[t].req.conv, tx[t].req.reply>>)} ELSE {})

WantsReplyLast(t) == StatementLocks(t) \cup ReplyLock(t, "finish")

WantsNoStream(t) ==
    (IF tx[t].pc = "enqueue" THEN {} ELSE StatementLocks(t)) \cup ReplyLock(t, "reply")

Wants(t) == StatementLocks(t) \cup ReplyLock(t, "reply")

Granted(t)     == \A u \in Tx \ {t} : Wants(t) \cap tx[u].holds = {}
WaitsFor(t, u) == t # u /\ Wants(t) \cap tx[u].holds # {}

(* The statement gets its locks and the transaction goes on. *)
Run(t, fields) == tx' = [tx EXCEPT ![t] = [fields EXCEPT !.holds = @ \cup Wants(t)]]
End(t)         == tx' = [tx EXCEPT ![t] = Idle]

----------------------------------------------------------------------------
Init ==
    /\ joined = Participants
    /\ deleted = {}
    /\ message = [m \in MsgId |-> NoMessage]
    /\ nextSeq = [c \in Conversation |-> 1]
    /\ stream = [a \in Account |-> {}]
    /\ next = [a \in Account |-> 1]
    /\ idem = {}
    /\ receipts = {}
    /\ draft = [c \in Conversation |-> [a \in Account |-> [version |-> 0, body |-> NoBody]]]
    /\ recent = [a \in Account |-> {}]
    /\ tx = [t \in Tx |-> Idle]
    /\ clock = 1
    /\ attempts = [r \in Request |-> 0]
    /\ answers = {}
    /\ refused = {}
    /\ since = [c \in Conversation |-> [a \in Account |-> 1]]

----------------------------------------------------------------------------
(* Starting a request *)

(* require_current: a direct conversation with a deleted account is closed. *)
Current(c) == c \in Direct => joined[c] \cap deleted = {}

(* conversation_access: a participant, else the custodian of a Silicon participant. *)
AccessOf(r) ==
    IF r.actor \in Effective(r.conv) THEN "participant"
    ELSE IF \E s \in Effective(r.conv) \cap Silicon : Custodian[s] = r.actor
         THEN "custodian" ELSE "none"

(* A client makes (or repeats) request r; the handler checks access and opens the *)
(* transaction.  Only a tombstone may be asked for by a custodian.                *)
Begin(t, r) ==
    /\ tx[t].pc = "idle"
    /\ attempts[r] < MaxAttempts
    /\ r.op \in Sends => Current(r.conv)
    /\ AccessOf(r) = "participant" \/ (r.op = "delete" /\ AccessOf(r) = "custodian")
    /\ tx' = [tx EXCEPT ![t] = [Idle EXCEPT
                !.pc = IF r.op \in Sends THEN "refresh" ELSE "lock",
                !.req = r, !.as = AccessOf(r), !.at = clock]]
    /\ clock' = clock + 1
    /\ attempts' = [attempts EXCEPT ![r] = @ + 1]
    /\ UNCHANGED <<tables, people, answers, refused>>

(* Who may do it: the sender edits and tombstones, a custodian tombstones for its  *)
(* Silicon, and nobody acknowledges their own message.                             *)
MayTouch(t) ==
    LET r == tx[t].req
        m == Target(r)
    IN  /\ message[m] # NoMessage
        /\ IF r.op \in Receipts THEN message[m].sender # r.actor
           ELSE IF tx[t].as = "participant" THEN message[m].sender = r.actor
           ELSE message[m].sender \in Silicon /\ Custodian[message[m].sender] = r.actor

LockMessageUnlocked(t) ==
    /\ tx[t].pc = "lock"
    /\ tx' = [tx EXCEPT ![t] = IF MayTouch(t)
               THEN [tx[t] EXCEPT !.pc =
                      IF tx[t].req.op \in Receipts THEN "receipt" ELSE "refresh"]
               ELSE Idle]
    /\ UNCHANGED <<tables, people, client>>

(* SELECT ... FROM messages ... FOR UPDATE of an edit, a tombstone or a receipt. *)
LockMessage(t) ==
    /\ tx[t].pc = "lock"
    /\ Granted(t)
    /\ IF MayTouch(t)
       THEN Run(t, [tx[t] EXCEPT !.pc =
                      IF tx[t].req.op \in Receipts THEN "receipt" ELSE "refresh"])
       ELSE End(t)
    /\ UNCHANGED <<tables, people, client>>

(* refresh_directory_in: the upsert of the '@accounts' row keeps that row locked until *)
(* the transaction ends, so sends and revisions take turns.                            *)
Refresh(t) ==
    /\ tx[t].pc = "refresh"
    /\ Granted(t)
    /\ Run(t, [tx[t] EXCEPT !.pc = "claim"])
    /\ UNCHANGED <<tables, people, client>>

----------------------------------------------------------------------------
(* idempotency.rs: claim *)

(* No record yet: this transaction owns the mutation. *)
Claim(t) ==
    /\ tx[t].pc = "claim"
    /\ Granted(t)
    /\ Records(tx[t].req) = {}
    /\ Run(t, [tx[t] EXCEPT !.pc = IF tx[t].req.op \in Sends THEN "insert" ELSE "revise"])
    /\ UNCHANGED <<tables, people, client>>

(* A record with the same hash: answer its message again.  The answer may be lost. *)
Replay(t) ==
    /\ tx[t].pc = "claim"
    /\ Granted(t)
    /\ \E i \in Records(tx[t].req) :
         /\ i.hash = Hash(tx[t].req)
         /\ answers' \in {answers, answers \cup
              {[actor |-> i.actor, op |-> i.op, key |-> i.key, msg |-> i.msg]}}
    /\ End(t)
    /\ UNCHANGED <<tables, people, clock, attempts, refused>>

(* A record with another hash: conflict. *)
KeyConflict(t) ==
    /\ tx[t].pc = "claim"
    /\ Granted(t)
    /\ \E i \in Records(tx[t].req) : i.hash # Hash(tx[t].req)
    /\ End(t)
    /\ UNCHANGED <<tables, people, client>>

----------------------------------------------------------------------------
(* Writing *)

InsertFromSequence(t) ==
    /\ tx[t].pc = "insert"
    /\ Granted(t)
    /\ nextSeq[tx[t].req.conv] <= MaxMessages
    /\ Run(t, [tx[t] EXCEPT !.pc = "reply", !.seq = nextSeq[tx[t].req.conv], !.rev = 1])
    /\ nextSeq' = [nextSeq EXCEPT ![tx[t].req.conv] = @ + 1]
    /\ UNCHANGED <<message, stream, next, idem, receipts, draft, recent, people, client>>

(* insert_message_in: the sequence trigger locks the conversation row and takes its *)
(* next sequence.                                                                   *)
Insert(t) ==
    /\ tx[t].pc = "insert"
    /\ Granted(t)
    /\ nextSeq[tx[t].req.conv] <= MaxMessages
    /\ Run(t, [tx[t] EXCEPT !.pc = "reply", !.seq = nextSeq[tx[t].req.conv], !.rev = 1])
    /\ UNCHANGED <<tables, people, client>>

ReplySkipsSender(t) ==
    LET r == tx[t].req IN
    /\ tx[t].pc = "reply"
    /\ Granted(t)
    /\ IF r.reply # 0 /\ message[<<r.conv, r.reply>>] = NoMessage
       THEN End(t)
       ELSE Run(t, [tx[t] EXCEPT !.pc = "enqueue", !.todo = Effective(r.conv) \ {r.actor}])
    /\ UNCHANGED <<tables, people, client>>

ReplyAwaits(t) ==
    LET r == tx[t].req IN
    /\ tx[t].pc = "reply"
    /\ Granted(t)
    /\ r.reply # 0 => message[<<r.conv, r.reply>>] # NoMessage
    /\ Run(t, [tx[t] EXCEPT !.pc = "enqueue", !.todo = Effective(r.conv)])
    /\ UNCHANGED <<tables, people, client>>

(* The reply reference must exist; then enqueue_message_deliveries_in reads who takes part. *)
Reply(t) ==
    LET r == tx[t].req IN
    /\ tx[t].pc = "reply"
    /\ Granted(t)
    /\ IF r.reply # 0 /\ message[<<r.conv, r.reply>>] = NoMessage
       THEN End(t)
       ELSE Run(t, [tx[t] EXCEPT !.pc = "enqueue", !.todo = Effective(r.conv)])
    /\ UNCHANGED <<tables, people, client>>

(* The fan-outs of m so far, and the one before the first. *)
Revisions(m) ==
    {0} \cup UNION {{e.rev : e \in {d \in stream[a] : d.msg = m /\ d.kind = "message"}} : a \in Account}

ReviseDeleted(t) ==
    LET m == Target(tx[t].req) IN
    /\ tx[t].pc = "revise"
    /\ Granted(t)
    /\ \E n \in Revisions(m) :
         /\ \A k \in Revisions(m) : k <= n
         /\ Run(t, [tx[t] EXCEPT !.pc = "enqueue", !.rev = n + 1,
                                 !.todo = Effective(tx[t].req.conv)])
    /\ UNCHANGED <<tables, people, client>>

(* revise_message after the claim: a deleted message is a conflict; otherwise the next *)
(* revision goes to everyone who takes part now.                                       *)
Revise(t) ==
    LET m == Target(tx[t].req) IN
    /\ tx[t].pc = "revise"
    /\ \/ message[m].deleted /\ End(t)
       \/ /\ ~message[m].deleted
          /\ Granted(t)
          /\ \E n \in Revisions(m) :
               /\ \A k \in Revisions(m) : k <= n
               /\ Run(t, [tx[t] EXCEPT !.pc = "enqueue", !.rev = n + 1,
                                       !.todo = Effective(tx[t].req.conv)])
    /\ UNCHANGED <<tables, people, client>>

ReceiptToReader(t) ==
    LET m == Target(tx[t].req)
        new == Aggregate(Upsert(receipts, tx[t].req), m)
    IN
    /\ tx[t].pc = "receipt"
    /\ Run(t, [tx[t] EXCEPT !.status = new,
                   !.pc = IF new # message[m].status THEN "enqueue" ELSE "commit",
                   !.todo = IF new # message[m].status THEN {tx[t].req.actor} ELSE {}])
    /\ UNCHANGED <<tables, people, client>>

(* record_receipt: upsert the device's row; when the trigger advanced the aggregate *)
(* the sender is owed a message_status delivery.                                    *)
Receipt(t) ==
    LET m == Target(tx[t].req)
        new == Aggregate(Upsert(receipts, tx[t].req), m)
    IN
    /\ tx[t].pc = "receipt"
    /\ Run(t, [tx[t] EXCEPT !.status = new,
                   !.pc = IF new # message[m].status THEN "enqueue" ELSE "commit",
                   !.todo = IF new # message[m].status THEN {message[m].sender} ELSE {}])
    /\ UNCHANGED <<tables, people, client>>

(* What transaction t delivers. *)
EventOf(t, seq) ==
    [seq |-> seq, msg |-> MsgOf(t), rev |-> tx[t].rev,
     kind |-> IF tx[t].req.op \in Receipts THEN tx[t].status ELSE "message"]

(* One INSERT INTO actor_deliveries, for the next target in account order: with the   *)
(* target's stream row locked, an event the stream already has consumes no sequence.  *)
Enqueue(t) ==
    /\ tx[t].pc = "enqueue"
    /\ Granted(t)
    /\ \E a \in tx[t].todo :
         /\ \A b \in tx[t].todo : a <= b
         /\ Run(t, [tx[t] EXCEPT !.todo = @ \ {a},
                !.out = IF \E e \in stream[a] : e = EventOf(t, e.seq) THEN @
                        ELSE @ \cup {[to |-> a, seq |-> next[a]]}])
    /\ UNCHANGED <<tables, people, client>>

(* All targets served: a send goes on to the GIF list and the draft. *)
Enqueued(t) ==
    /\ tx[t].pc = "enqueue"
    /\ tx[t].todo = {}
    /\ Run(t, [tx[t] EXCEPT !.pc = IF tx[t].req.op \in Sends THEN "finish" ELSE "commit"])
    /\ UNCHANGED <<tables, people, client>>

FinishClearsAnyDraft(t) ==
    LET r == tx[t].req IN
    /\ tx[t].pc = "finish"
    /\ Run(t, [tx[t] EXCEPT !.pc = "commit",
                   !.clear = (draft[r.conv][r.actor].body # NoBody)])
    /\ UNCHANGED <<tables, people, client>>

(* The sender's recent GIFs, then the draft: it is cleared only when the committed row *)
(* carries exactly the sent content, and stays locked from here.                       *)
Finish(t) ==
    LET r == tx[t].req IN
    /\ tx[t].pc = "finish"
    /\ Granted(t)
    /\ IF TracksGif(r) /\ ~UsageOrdered(r.actor, GifOf[r.body], tx[t].at)
       THEN /\ End(t)
            /\ refused' = refused \cup {r}
       ELSE /\ Run(t, [tx[t] EXCEPT !.pc = "commit",
                          !.clear = (draft[r.conv][r.actor].body = r.body)])
            /\ UNCHANGED refused
    /\ UNCHANGED <<tables, people, clock, attempts, answers>>

----------------------------------------------------------------------------
(* Commit and rollback *)

(* The deferred constraints: a new message is enqueued to everyone else who takes part, *)
(* a revision to everyone.                                                              *)
OutboxComplete(t) ==
    LET r == tx[t].req
        exempt == IF r.op \in Sends THEN {r.actor} ELSE {}
    IN  r.op \in Sends \cup Revisals =>
            \A a \in Effective(r.conv) \ exempt : \E o \in tx[t].out : o.to = a

Deliver(t) ==
    /\ stream' = [a \in Account |-> stream[a] \cup
            {EventOf(t, o.seq) : o \in {x \in tx[t].out : x.to = a}}]
    /\ next' = [a \in Account |->
            IF \E o \in tx[t].out : o.to = a THEN next[a] + 1 ELSE next[a]]

Clear(d) == [version |-> d.version + 1, body |-> NoBody]

(* The answer reaches the client, or is lost with the connection. *)
Answer(t) ==
    answers' \in {answers, answers \cup
        {[actor |-> tx[t].req.actor, op |-> tx[t].req.op, key |-> tx[t].req.key,
          msg |-> MsgOf(t)]}}

CompleteForgotten(t) == idem' = idem

Complete(t) ==
    idem' = idem \cup {[actor |-> tx[t].req.actor, op |-> tx[t].req.op,
                        key |-> tx[t].req.key, hash |-> Hash(tx[t].req), msg |-> MsgOf(t)]}

CommitSend(t) ==
    LET r == tx[t].req IN
    /\ tx[t].pc = "commit" /\ r.op \in Sends
    /\ OutboxComplete(t)
    /\ message' = [message EXCEPT ![MsgOf(t)] =
            [sender |-> r.actor, key |-> r.key, body |-> r.body, status |-> "sent",
             edits |-> 0, deleted |-> FALSE]]
    /\ nextSeq' = [nextSeq EXCEPT ![r.conv] = tx[t].seq + 1]
    /\ Deliver(t)
    /\ Complete(t)
    /\ draft' = IF tx[t].clear
                THEN [draft EXCEPT ![r.conv][r.actor] = Clear(@)] ELSE draft
    /\ recent' = IF TracksGif(r)
                 THEN [recent EXCEPT ![r.actor] = Used(r.actor, GifOf[r.body], tx[t].at)]
                 ELSE recent
    /\ Answer(t)
    /\ End(t)
    /\ UNCHANGED <<receipts, people, clock, attempts, refused>>

(* message_history: an edit replaces the content and keeps what it replaced as history. *)
Revised(row, r) ==
    IF r.op = "edit" THEN [row EXCEPT !.body = r.body, !.edits = row.edits + 1]
    ELSE [row EXCEPT !.deleted = TRUE]

CommitRevision(t) ==
    LET r == tx[t].req IN
    /\ tx[t].pc = "commit" /\ r.op \in Revisals
    /\ OutboxComplete(t)
    /\ message' = [message EXCEPT ![Target(r)] = Revised(message[Target(r)], r)]
    /\ Deliver(t)
    /\ Complete(t)
    /\ Answer(t)
    /\ End(t)
    /\ UNCHANGED <<nextSeq, receipts, draft, recent, people, clock, attempts, refused>>

CommitReceipt(t) ==
    LET r == tx[t].req IN
    /\ tx[t].pc = "commit" /\ r.op \in Receipts
    /\ message' = [message EXCEPT ![Target(r)] = [@ EXCEPT !.status = tx[t].status]]
    /\ receipts' = Upsert(receipts, r)
    /\ Deliver(t)
    /\ End(t)
    /\ UNCHANGED <<nextSeq, idem, draft, recent, people, client>>

(* The connection or the process gives the transaction up at any point. *)
Abort(t) ==
    /\ tx[t].pc # "idle"
    /\ End(t)
    /\ UNCHANGED <<tables, people, client>>

(* Transactions that wait for one another in a circle. *)
Cycle(S) ==
    /\ S # {}
    /\ \A t \in S : \E u \in S : WaitsFor(t, u)
    /\ \A u \in S : \E t \in S : WaitsFor(t, u)

(* PostgreSQL's deadlock detector rolls one of them back. *)
DeadlockVictim(t) ==
    /\ \E S \in SUBSET Tx : t \in S /\ Cycle(S)
    /\ End(t)
    /\ UNCHANGED <<tables, people, client>>

----------------------------------------------------------------------------
(* What happens around message acceptance *)

JoinUnlocked(c, a) ==
    /\ c \notin Direct /\ a \notin joined[c] /\ a \notin deleted
    /\ joined' = [joined EXCEPT ![c] = @ \cup {a}]
    /\ since' = [since EXCEPT ![c][a] = nextSeq[c]]
    /\ UNCHANGED <<deleted, tables, tx, client>>

(* An account joins a group: respond_to_invitation, or an invitation that is accepted *)
(* at once, holding the conversation row.                                             *)
Join(c, a) ==
    /\ c \notin Direct /\ a \notin joined[c] /\ a \notin deleted
    /\ Unlocked(Conv(c))
    /\ joined' = [joined EXCEPT ![c] = @ \cup {a}]
    /\ since' = [since EXCEPT ![c][a] = nextSeq[c]]
    /\ UNCHANGED <<deleted, tables, tx, client>>

(* A member leaves or is removed, under the same lock; never the last one, as the last    *)
(* owner stays (require_an_owner).                                                        *)
Leave(c, a) ==
    /\ c \notin Direct /\ a \in Effective(c) /\ Effective(c) # {a}
    /\ Unlocked(Conv(c))
    /\ joined' = [joined EXCEPT ![c] = @ \ {a}]
    /\ UNCHANGED <<deleted, since, tables, tx, client>>

(* delete_account: no conversation lock; the account's drafts and recent GIFs go. *)
DeleteAccount(a) ==
    /\ a \notin deleted
    /\ Unlocked(Gifs(a)) /\ \A c \in Conversation : Unlocked(Draft(c, a))
    /\ deleted' = deleted \cup {a}
    /\ joined' = [c \in Conversation |-> IF c \in Direct THEN joined[c] ELSE joined[c] \ {a}]
    /\ draft' = [c \in Conversation |-> [draft[c] EXCEPT ![a] =
                    IF @.body = NoBody THEN @ ELSE Clear(@)]]
    /\ recent' = [recent EXCEPT ![a] = {}]
    /\ UNCHANGED <<since, message, nextSeq, stream, next, idem, receipts, tx, client>>

SetDraft(c, a, d) ==
    /\ a \in Effective(c)
    /\ Unlocked(Draft(c, a))
    /\ draft' = [draft EXCEPT ![c][a] = d]
    /\ UNCHANGED <<message, nextSeq, stream, next, idem, receipts, recent, people, tx, client>>

(* put_draft with the version the client last saw: only the current version (0 when *)
(* there is no draft) is replaced.                                                  *)
PutDraft(c, a, expected, b) ==
    LET d == draft[c][a] IN
    /\ d.version < MaxDraft
    /\ expected = (IF d.body = NoBody THEN 0 ELSE d.version)
    /\ SetDraft(c, a, [version |-> d.version + 1, body |-> b])

DeleteDraft(c, a) ==
    /\ draft[c][a].body # NoBody
    /\ SetDraft(c, a, Clear(draft[c][a]))

----------------------------------------------------------------------------
Step(t) ==
    \/ LockMessage(t) \/ Refresh(t) \/ Claim(t) \/ Replay(t) \/ KeyConflict(t)
    \/ Insert(t) \/ Reply(t) \/ Revise(t) \/ Receipt(t)
    \/ Enqueue(t) \/ Enqueued(t) \/ Finish(t)
    \/ CommitSend(t) \/ CommitRevision(t) \/ CommitReceipt(t)
    \/ DeadlockVictim(t)

Next ==
    \/ \E t \in Tx : (\E r \in Request : Begin(t, r)) \/ Step(t) \/ Abort(t)
    \/ \E c \in Conversation, a \in Account :
         \/ Join(c, a) \/ Leave(c, a) \/ DeleteDraft(c, a)
         \/ \E v \in 0..MaxDraft, b \in Body : PutDraft(c, a, v, b)
    \/ \E a \in Account : DeleteAccount(a)

Spec == Init /\ [][Next]_vars

(* A transaction whose next statement can run runs it: PostgreSQL wakes the waiters of a *)
(* released row lock and resolves deadlocks.  Nothing obliges a client to ask again.     *)
FairSpec == Spec /\ \A t \in Tx : WF_vars(Step(t))

----------------------------------------------------------------------------
(* Properties *)

Lock ==
    {Org} \cup {Conv(c) : c \in Conversation} \cup {Msg(m) : m \in Conversation \X (0..MaxMessages)}
      \cup {Stream(a) : a \in Account} \cup {Gifs(a) : a \in Account}
      \cup {Idem(r) : r \in Request}
      \cup {Draft(d[1], d[2]) : d \in Conversation \X Account}

TxState ==
    [pc : {"idle", "lock", "refresh", "claim", "insert", "reply", "revise", "receipt",
           "enqueue", "finish", "commit"},
     req : Request \cup {NoRequest}, as : {"none", "participant", "custodian"}, at : Nat,
     holds : SUBSET Lock, seq : 0..MaxMessages, rev : Nat, status : Status,
     todo : SUBSET Account, out : SUBSET [to : Account, seq : Nat], clear : BOOLEAN]

Answered == [actor : Account, op : Sends \cup Revisals, key : Key, msg : MsgId]

(* Every variable of the store keeps its type; an answered or recorded request names a *)
(* message id, a running transaction a request (send_message, revise_message,          *)
(* record_receipt).                                                                    *)
TypeOK ==
    /\ joined \in [Conversation -> SUBSET Account]
    /\ deleted \subseteq Account
    /\ message \in [MsgId -> Row \cup {NoMessage}]
    /\ nextSeq \in [Conversation -> 1..(MaxMessages + 1)]
    /\ stream \in [Account -> SUBSET Event]
    /\ next \in [Account -> Nat \ {0}]
    /\ \A i \in idem : /\ i.actor \in Account /\ i.op \in Sends \cup Revisals
                       /\ i.key \in Key /\ i.msg \in MsgId
    /\ receipts \subseteq [msg : MsgId, actor : Account, device : Device, status : Receipts]
    /\ draft \in [Conversation -> [Account -> [version : Nat, body : Body \cup {NoBody}]]]
    /\ recent \in [Account -> SUBSET [gif : Gif, first : Nat, last : Nat]]
    /\ tx \in [Tx -> TxState]
    /\ \A t \in Tx : tx[t].pc # "idle" => tx[t].req \in Request
    /\ clock \in Nat
    /\ attempts \in [Request -> 0..MaxAttempts]
    /\ answers \subseteq Answered
    /\ refused \subseteq Request
    /\ since \in [Conversation -> [Account -> 1..(MaxMessages + 1)]]

(* Each account's delivery stream is gapless: its committed events carry exactly the   *)
(* sequences 1 .. next - 1, one each, whatever transactions overlapped or rolled back   *)
(* (assign_actor_delivery_sequence).  /api/v1/sync answers "history expired" otherwise. *)
StreamsContiguous ==
    \A a \in Account :
        /\ \A e \in stream[a] : e.seq \in 1..(next[a] - 1)
        /\ \A n \in 1..(next[a] - 1) : \E e \in stream[a] : e.seq = n
        /\ \A e, f \in stream[a] : e.seq = f.seq => e = f

(* Message codes are dense: sequence n of a conversation exists exactly when it is below *)
(* next_message_sequence; a rolled-back send leaves no hole (assign_message_sequence).    *)
ConversationsContiguous ==
    \A c \in Conversation, n \in 1..MaxMessages :
        message[<<c, n>>] # NoMessage <=> n < nextSeq[c]

(* A request repeated with its idempotency key, by overlapping or later attempts, creates *)
(* one message, and every answer any attempt returned names that same stored message      *)
(* (idempotency.rs claim/complete inside send_message and revise_message).                 *)
ExactlyOnce ==
    /\ \A m, n \in MsgId :
         /\ message[m] # NoMessage /\ message[n] # NoMessage
         /\ message[m].sender = message[n].sender /\ message[m].key = message[n].key
         => m = n
    /\ \A x, y \in answers :
         (x.actor = y.actor /\ x.op = y.op /\ x.key = y.key) => x.msg = y.msg
    /\ \A x \in answers : message[x.msg] # NoMessage

(* Whoever takes part in a conversation, and already did when message n was accepted, has *)
(* the first delivery of n in their stream: joining, leaving and account deletion cannot  *)
(* race the fan-out (enqueue_message_deliveries_in against lock_group).                   *)
NoMissedMessage ==
    \A c \in Conversation, n \in 1..MaxMessages :
        message[<<c, n>>] # NoMessage =>
            \A a \in Effective(c) : since[c][a] <= n =>
                \E e \in stream[a] : e.msg = <<c, n>> /\ e.kind = "message" /\ e.rev = 1

(* The deferred outbox constraints never refuse a commit: participation read by the       *)
(* fan-out is still complete when the constraint reads it again                            *)
(* (assert_message_outbox_complete, enforce_history_outbox).                               *)
OutboxNeverRefuses ==
    \A t \in Tx : tx[t].pc = "commit" => OutboxComplete(t)

(* Somebody who has taken part since message m was accepted got its first delivery. *)
ReachedFirst(m) ==
    \E a \in Account : /\ since[m[1]][a] <= m[2]
                       /\ \E e \in stream[a] : e.msg = m /\ e.kind = "message" /\ e.rev = 1

(* Decision D-009: a message is globally delivered (read) exactly when each account its   *)
(* first fan-out reached, the sender excluded, has a delivered-or-read (read) receipt on   *)
(* some device, in whatever order the devices acknowledged                                 *)
(* (advance_message_aggregate_status).  The exception: when everybody left while it was    *)
(* being sent, a later edit is its first fan-out, and old receipts then count only at the  *)
(* next one.                                                                               *)
AggregateExact ==
    \A m \in MsgId : message[m] # NoMessage =>
        LET all(statuses) == /\ Recipients(m) # {}
                             /\ \A a \in Recipients(m) : HasReceipt(receipts, m, a, statuses)
        IN  /\ message[m].status = "read" => all({"read"})
            /\ message[m].status # "sent" => all({"delivered", "read"})
            /\ ReachedFirst(m) =>
                 /\ all({"read"}) => message[m].status = "read"
                 /\ all({"delivered", "read"}) => message[m].status # "sent"

(* The sender's stream tells the status story: the current aggregate status was announced, *)
(* nothing that did not happen was, and "delivered" never follows "read"                    *)
(* (record_receipt_without_payload, enqueue_message_status_delivery_in).                    *)
StatusAnnounced ==
    \A m \in MsgId : message[m] # NoMessage =>
        LET told(k) == {e \in stream[message[m].sender] : e.msg = m /\ e.kind = k}
        IN  /\ message[m].status # "sent" => told(message[m].status) # {}
            /\ message[m].status # "read" => told("read") = {}
            /\ message[m].status = "sent" => told("delivered") = {}
            /\ \A d \in told("delivered"), r \in told("read") : d.seq < r.seq

(* A tombstone is final: whatever edits and tombstones were in flight, a deleted message   *)
(* is never edited or resurrected, and no content changes without a new revision in every   *)
(* present participant's stream (revise_message, guard_message_history).                    *)
TombstoneFinal ==
    [][\A m \in MsgId : message[m] # NoMessage =>
         /\ message'[m] # NoMessage
         /\ message[m].deleted =>
              message'[m].deleted /\ message'[m].body = message[m].body
                /\ message'[m].edits = message[m].edits
         /\ (message'[m].deleted # message[m].deleted \/ message'[m].edits # message[m].edits) =>
              \A a \in Effective(m[1]) : next'[a] = next[a] + 1]_vars

(* Decision D-011: a saved draft disappears only because its owner deleted it, its owner's *)
(* account went, or a send of exactly its content was accepted; and every change takes the *)
(* next version, so a token is never reused (send_message, put_draft, delete_draft).       *)
DraftGuarded ==
    [][\A c \in Conversation, a \in Account : draft'[c][a] # draft[c][a] =>
         /\ draft'[c][a].version = draft[c][a].version + 1
         /\ draft'[c][a].body = NoBody =>
              \/ DeleteDraft(c, a) \/ DeleteAccount(a)
              \/ \E n \in 1..MaxMessages :
                   /\ message[<<c, n>>] = NoMessage /\ message'[<<c, n>>] # NoMessage
                   /\ message'[<<c, n>>].sender = a
                   /\ message'[<<c, n>>].body = draft[c][a].body]_vars

(* Only a revision can be part of a deadlock: it locks the message before the directory     *)
(* row, a reply the other way round.  Sends and receipts among themselves never wait in a   *)
(* circle (the lock order of send_message, revise_message and record_receipt).              *)
DeadlocksNeedRevision ==
    \A S \in SUBSET Tx : Cycle(S) => \E t \in S : tx[t].req.op \in Revisals

(* Every accepted connection gets its transaction finished, committed or rolled back, also  *)
(* when transactions wait for one another (PostgreSQL lock queues and deadlock detection).  *)
EveryTransactionEnds == \A t \in Tx : (tx[t].pc # "idle") ~> (tx[t].pc = "idle")

(* send_message documents its refusals: invalid content, sender mismatch, no access and a   *)
(* conflicting key.  No well-formed send is refused for the order in which transactions     *)
(* got their locks.                                                                         *)
ValidSendsAccepted == refused = {}

=============================================================================
