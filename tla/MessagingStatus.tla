-------------------------- MODULE MessagingStatus --------------------------
(***************************************************************************)
(* The aggregate status of Messaging is exact, for every set of accounts,  *)
(* devices, requests and concurrent transactions (decision D-009).         *)
(*                                                                         *)
(* A receipt computes the status when it is recorded and stores it when it *)
(* commits.  StatusOK says why the two agree: what it computed is still    *)
(* what the committed receipts and deliveries give, because its message is *)
(* locked; and a revision that becomes the first delivery of a message     *)
(* reaches only accounts that joined after the message was accepted.       *)
(***************************************************************************)
EXTENDS MessagingFanout

(* A leaf goes to Zenon unless it names another prover; the ones that need
   arithmetic, tuples or EXCEPT name SMT. *)
USE Zenon

----------------------------------------------------------------------------
(* The inductive invariant *)

(* The accounts that have the first delivery of message m in the streams s, and whether   *)
(* one of them has taken part, by si, since m was accepted.                                *)
Firsts(s, m) ==
    {a \in Account : \E e \in s[a] : e.msg = m /\ e.kind = "message" /\ e.rev = 1}

InTime(si, s, m) == \E a \in Firsts(s, m) : si[m[1]][a] <= m[2]

(* Everybody of R, somebody at least, has acknowledged message m in the receipts rs. *)
All(R, rs, m, statuses) == R # {} /\ \A a \in R : HasReceipt(rs, m, a, statuses)

(* A status of message m is the right one for its recipients R and the receipts rs. *)
Exact(m, status, R, rs, intime) ==
    /\ status = "read" => All(R, rs, m, {"read"})
    /\ status # "sent" => All(R, rs, m, {"delivered", "read"})
    /\ intime => /\ All(R, rs, m, {"read"}) => status = "read"
                 /\ All(R, rs, m, {"delivered", "read"}) => status # "sent"

(* The status the trigger gives message m, whose status was another. *)
Trigger(m, status, R, rs) ==
    IF All(R, rs, m, {"read"}) THEN "read"
    ELSE IF All(R, rs, m, {"delivered", "read"}) /\ status = "sent" THEN "delivered"
    ELSE status

(* A receipt is about to store the status that the committed receipts rs give with its    *)
(* own; a revision that is a first delivery goes only to accounts that joined later.       *)
StatusOK(x, msgs, s, rs, si) ==
    LET m == Target(x.req) IN
    x.pc \in Sending =>
        /\ x.req.op \in Receipts =>
             x.status = Trigger(m, msgs[m].status, Firsts(s, m) \ {msgs[m].sender}, Upsert(rs, x.req))
        /\ x.req.op \in Revisals /\ x.rev = 1 =>
             \A a \in Reached(x) : ~(si[x.req.conv][a] <= x.req.seq)

(* Receipts are about stored messages. *)
ReceiptsStored == \A x \in receipts : message[x.msg] # NoMessage

SInv ==
    /\ AggregateExact
    /\ ReceiptsStored
    /\ \A t \in Tx : StatusOK(tx[t], message, stream, receipts, since)

----------------------------------------------------------------------------
(* The same with the tables as arguments *)

(* AggregateExact before and after a step. *)
LEMMA ExactIs ==
    /\ AggregateExact <=> \A m \in MsgId : message[m] # NoMessage =>
         Exact(m, message[m].status, Firsts(stream, m) \ {message[m].sender}, receipts,
               InTime(since, stream, m))
    /\ AggregateExact' <=> \A m \in MsgId : message'[m] # NoMessage =>
         Exact(m, message'[m].status, Firsts(stream', m) \ {message'[m].sender}, receipts',
               InTime(since', stream', m))
<1>1. ASSUME NEW m \in MsgId
      PROVE  /\ Recipients(m) = Firsts(stream, m) \ {message[m].sender}
             /\ Recipients(m)' = Firsts(stream', m) \ {message'[m].sender}
             /\ ReachedFirst(m) <=> InTime(since, stream, m)
             /\ ReachedFirst(m)' <=> InTime(since', stream', m)
  BY DEF Recipients, Firsts, ReachedFirst, InTime
<1> QED
  BY ZenonT(40), <1>1 DEF AggregateExact, Exact, All

(* The status trigger. *)
LEMMA TriggerIs ==
    ASSUME NEW rs, NEW m
    PROVE  Aggregate(rs, m) = Trigger(m, message[m].status, Firsts(stream, m) \ {message[m].sender}, rs)
<1>1. Recipients(m) = Firsts(stream, m) \ {message[m].sender}
  BY DEF Recipients, Firsts
<1> QED
  BY <1>1 DEF Aggregate, Trigger, All

(* A receipt loses no acknowledgement. *)
LEMMA UpsertKeeps ==
    ASSUME NEW rs, NEW r, r.op \in Receipts, NEW m, NEW a,
           NEW statuses \in {{"read"}, {"delivered", "read"}}, HasReceipt(rs, m, a, statuses)
    PROVE  HasReceipt(Upsert(rs, r), m, a, statuses)
<1> DEFINE row(s) == [msg |-> Target(r), actor |-> r.actor, device |-> r.device, status |-> s]
<1>1. PICK x \in rs : x.msg = m /\ x.actor = a /\ x.status \in statuses
  BY DEF HasReceipt
<1>2. CASE x \in Upsert(rs, r)
  BY <1>1, <1>2 DEF HasReceipt
<1>3. CASE x \notin Upsert(rs, r)
  <2>1. x = row("delivered") /\ row(r.op) \in Upsert(rs, r)
    BY <1>3 DEF Upsert
  <2>2. \A s : row(s).status = s /\ row(s).msg = Target(r) /\ row(s).actor = r.actor
    OBVIOUS
  <2> HIDE DEF row
  <2>3. x.status = "delivered"
    BY <2>1, <2>2
  <2>4. statuses = {"delivered", "read"}
    BY <1>1, <2>3, SMT
  <2>5. row(r.op).status \in statuses
    BY <2>2, <2>4 DEF Receipts
  <2>6. row(r.op).msg = m /\ row(r.op).actor = a
    BY <1>1, <2>1, <2>2
  <2> DEFINE w == row(r.op)
  <2>7. w \in Upsert(rs, r) /\ w.msg = m /\ w.actor = a /\ w.status \in statuses
    BY <2>1, <2>5, <2>6
  <2> HIDE DEF w
  <2> QED
    BY <2>7 DEF HasReceipt
<1> QED
  BY <1>2, <1>3

(* What the trigger stores with a receipt is right when the old status was: this is where  *)
(* a receipt advances the aggregate status (advance_message_aggregate_status).             *)
LEMMA TriggerExact ==
    ASSUME NEW rs, NEW r, r.op \in Receipts, NEW m, NEW R, NEW status, NEW intime,
           Exact(m, status, R, rs, intime)
    PROVE  Exact(m, Trigger(m, status, R, Upsert(rs, r)), R, Upsert(rs, r), intime)
<1> DEFINE us == Upsert(rs, r)
           new == Trigger(m, status, R, us)
           both == {"delivered", "read"}
<1>1. All(R, rs, m, {"read"}) => All(R, us, m, {"read"})
  BY UpsertKeeps DEF All
<1>2. All(R, rs, m, both) => All(R, us, m, both)
  BY UpsertKeeps DEF All
<1>3. All(R, us, m, {"read"}) => All(R, us, m, both)
  BY DEF All, HasReceipt
<1>4. "delivered" # "read" /\ "read" # "sent" /\ "delivered" # "sent"
  BY SMT
<1> HIDE DEF us, both
<1>5. CASE All(R, us, m, {"read"})
  <2>1. new = "read"
    BY <1>5 DEF Trigger
  <2> QED
    BY <1>3, <1>4, <1>5, <2>1 DEF Exact, us, both
<1>6. CASE ~All(R, us, m, {"read"}) /\ All(R, us, m, both) /\ status = "sent"
  <2>1. new = "delivered"
    BY <1>6 DEF Trigger, both
  <2> QED
    BY <1>4, <1>6, <2>1 DEF Exact, us, both
<1>7. CASE ~All(R, us, m, {"read"}) /\ ~(All(R, us, m, both) /\ status = "sent")
  <2>1. new = status
    BY <1>7 DEF Trigger, both
  <2>2. status # "read" /\ (status # "sent" => All(R, us, m, both))
    BY <1>1, <1>2, <1>7 DEF Exact, both
  <2> QED
    BY <1>7, <2>1, <2>2 DEF Exact, us, both
<1> QED
  BY <1>5, <1>6, <1>7

(* Receipts of other messages do not matter. *)
LEMMA OtherReceipts ==
    ASSUME NEW rs, NEW us, NEW m, \A x : x.msg = m => (x \in rs <=> x \in us)
    PROVE  /\ \A a, statuses : HasReceipt(rs, m, a, statuses) <=> HasReceipt(us, m, a, statuses)
           /\ \A R, statuses : All(R, rs, m, statuses) <=> All(R, us, m, statuses)
           /\ \A R, status : Trigger(m, status, R, rs) = Trigger(m, status, R, us)
           /\ \A R, status, intime : Exact(m, status, R, rs, intime) <=> Exact(m, status, R, us, intime)
<1>1. \A a, statuses : HasReceipt(rs, m, a, statuses) <=> HasReceipt(us, m, a, statuses)
  BY DEF HasReceipt
<1>2. \A R, statuses : All(R, rs, m, statuses) <=> All(R, us, m, statuses)
  BY <1>1 DEF All
<1> QED
  BY ZenonT(40), <1>1, <1>2 DEF Trigger, Exact

(* A receipt of message Target(r) adds nothing to another one. *)
LEMMA UpsertOther ==
    ASSUME NEW rs, NEW r, NEW m, m # Target(r)
    PROVE  \A x : x.msg = m => (x \in rs <=> x \in Upsert(rs, r))
<1> DEFINE row(s) == [msg |-> Target(r), actor |-> r.actor, device |-> r.device, status |-> s]
<1>1. \A s : row(s).msg = Target(r)
  OBVIOUS
<1>2. Upsert(rs, r) = IF row("read") \in rs THEN rs ELSE (rs \ {row("delivered")}) \cup {row(r.op)}
  BY DEF Upsert
<1> HIDE DEF row
<1> QED
  BY <1>1, <1>2

(* Two sets of receipts that agree on a message still do with one more receipt of it. *)
LEMMA UpsertSame ==
    ASSUME NEW rs, NEW us, NEW r, \A x : x.msg = Target(r) => (x \in rs <=> x \in us)
    PROVE  \A x : x.msg = Target(r) => (x \in Upsert(rs, r) <=> x \in Upsert(us, r))
<1> DEFINE row(s) == [msg |-> Target(r), actor |-> r.actor, device |-> r.device, status |-> s]
<1>1. \A s : row(s).msg = Target(r)
  OBVIOUS
<1>2. /\ Upsert(rs, r) = IF row("read") \in rs THEN rs ELSE (rs \ {row("delivered")}) \cup {row(r.op)}
      /\ Upsert(us, r) = IF row("read") \in us THEN us ELSE (us \ {row("delivered")}) \cup {row(r.op)}
  BY DEF Upsert
<1> HIDE DEF row
<1> QED
  BY <1>1, <1>2

----------------------------------------------------------------------------
(* Statements before the commit *)

(* A statement that only moves transaction t to x. *)
LEMMA StatusMove ==
    ASSUME IInv, SInv, NEW t \in Tx, NEW x, tx' = [tx EXCEPT ![t] = x],
           UNCHANGED <<message, stream, receipts, since>>,
           StatusOK(x, message, stream, receipts, since)
    PROVE  SInv'
<1>1. AggregateExact'
  <2>1. \A m \in MsgId : message[m] # NoMessage =>
          Exact(m, message[m].status, Firsts(stream, m) \ {message[m].sender}, receipts,
                InTime(since, stream, m))
    BY ExactIs DEF SInv
  <2> QED
    BY <2>1, ExactIs
<1>2. ASSUME NEW u \in Tx PROVE StatusOK(tx'[u], message, stream, receipts, since)
  <2>1. tx'[u] = IF u = t THEN x ELSE tx[u]
    BY DEF IInv, TypeOK
  <2> QED
    BY <2>1 DEF SInv
<1>3. ReceiptsStored'
  BY DEF SInv, ReceiptsStored
<1> QED
  BY <1>1, <1>2, <1>3 DEF SInv

(* A request that ends stores nothing. *)
LEMMA StatusEnd ==
    ASSUME IInv, SInv, NEW t \in Tx, End(t), UNCHANGED <<message, stream, receipts, since>>
    PROVE  SInv'
<1>1. Idle.pc = "idle"
  BY DEF Idle
<1>2. Idle.pc \notin Sending
  BY <1>1, SMT DEF Sending
<1>3. StatusOK(Idle, message, stream, receipts, since)
  BY <1>2 DEF StatusOK
<1> QED
  BY <1>3, StatusMove DEF End

(* A statement of a transaction.  When a revision is the first delivery of its message,    *)
(* nobody who takes part has had one, so all of them came later.                           *)
LEMMA StatusStatement ==
    ASSUME IInv, FInv, SInv, NEW t \in Tx, NEW x, tx' = [tx EXCEPT ![t] = x], Moved(t, x),
           IInv',
           UNCHANGED <<message, stream, receipts, since>>
    PROVE  SInv'
<1> DEFINE m == Target(x.req)
<1> SUFFICES ASSUME x.pc \in Sending PROVE StatusOK(x, message, stream, receipts, since)
  BY StatusMove DEF StatusOK
<1>1. CASE /\ tx[t].pc \in Sending
           /\ x.rev = tx[t].rev /\ x.status = tx[t].status /\ Reached(x) \subseteq Reached(tx[t])
  <2>1. StatusOK(tx[t], message, stream, receipts, since) /\ x.req = tx[t].req
    BY DEF SInv, Moved
  <2> QED
    BY <1>1, <2>1 DEF StatusOK
<1>2. CASE x.req.op \in Sends
  <2>1. x.req.op \notin Revisals /\ x.req.op \notin Receipts
    BY <1>2, SMT DEF Sends, Revisals, Receipts
  <2> QED
    BY <2>1 DEF StatusOK
<1>3. ASSUME x.req.op \in Revisals, Reached(x) = Effective(x.req.conv),
             NEW n \in Revisions(m), \A k \in Revisions(m) : k <= n, x.rev = n + 1
      PROVE  StatusOK(x, message, stream, receipts, since)
  <2>1. x.req.op \notin Sends /\ x.req.op \notin Receipts
    BY <1>3, SMT DEF Sends, Revisals, Receipts
  <2>2. x.req \in Request /\ message[m] # NoMessage
    <3>1. tx'[t] = x
      BY DEF IInv, TypeOK
    <3>2. x.pc # "idle" /\ x.pc # "lock"
      BY SMT DEF Sending
    <3>3. TxOK(tx[t])'
      BY DEF IInv
    <3>4. tx'[t].req \in Request /\ message'[Target(tx'[t].req)] # NoMessage
      BY <2>1, <3>1, <3>2, <3>3 DEF TxOK, TargetOK
    <3> QED
      BY <3>1, <3>4
  <2>3. m = <<x.req.conv, x.req.seq>> /\ x.req.conv \in Conversation /\ x.req.seq \in 1..MaxMessages
    BY SMT, <2>1, <2>2, RequestAssumption DEF Target
  <2>4. ASSUME x.rev = 1, NEW a \in Reached(x), since[x.req.conv][a] <= x.req.seq PROVE FALSE
    <3>1. a \in Effective(x.req.conv) /\ a \in Account
      BY <1>3, <2>3, <2>4, EffectiveTyped
    <3>2. PICK e \in stream[a] : e.msg = m /\ e.kind = "message" /\ e.rev = 1
      <4> DEFINE c == x.req.conv
                 i == x.req.seq
      <4>1. /\ c \in Conversation /\ i \in 1..MaxMessages /\ message[<<c, i>>] # NoMessage
            /\ a \in Effective(c) /\ since[c][a] <= i
        BY <2>2, <2>3, <2>4, <3>1
      <4> HIDE DEF c, i
      <4>2. \E e \in stream[a] : e.msg = <<c, i>> /\ e.kind = "message" /\ e.rev = 1
        BY <4>1 DEF FInv, NoMissedMessage
      <4> QED
        BY <2>3, <4>2 DEF c, i
    <3>3. 1 \in Revisions(m)
      <4> HIDE DEF m
      <4>1. 1 \in {d.rev : d \in {f \in stream[a] : f.msg = m /\ f.kind = "message"}}
        BY <3>2
      <4> QED
        BY <3>1, <4>1 DEF Revisions
    <3>4. n \in Nat
      BY RevisionsTyped
    <3> QED
      BY <1>3, <2>4, <3>3, <3>4, SMT
  <2> QED
    BY <2>1, <2>4 DEF StatusOK
<1>4. CASE x.req.op \in Receipts /\ x.status = Aggregate(Upsert(receipts, x.req), m)
  <2>1. x.req.op \notin Revisals
    BY <1>4, SMT DEF Revisals, Receipts
  <2>2. x.status = Trigger(m, message[m].status, Firsts(stream, m) \ {message[m].sender}, Upsert(receipts, x.req))
    BY <1>4, TriggerIs
  <2> QED
    BY <2>1, <2>2 DEF StatusOK
<1> QED
  BY <1>1, <1>2, <1>3, <1>4 DEF Moved

----------------------------------------------------------------------------
(* Commits *)

(* A commit that is not the first delivery of message m leaves who had it alone. *)
LEMMA FirstsSame ==
    ASSUME IInv, FInv, NEW t \in Tx, tx[t].pc = "commit", Deliver(t), NEW m,
           m # MsgOf(t) \/ tx[t].req.op \in Receipts \/ tx[t].rev # 1
    PROVE  Firsts(stream', m) = Firsts(stream, m)
<1>1. ASSUME NEW a \in Account, NEW e \in stream'[a], e.msg = m, e.kind = "message", e.rev = 1
      PROVE  e \in stream[a]
  <2> SUFFICES ASSUME e \notin stream[a] PROVE FALSE
    OBVIOUS
  <2>1. \A f \in stream'[a] \ stream[a] :
          /\ f.msg = MsgOf(t) /\ f.rev = tx[t].rev
          /\ f.kind = IF tx[t].req.op \in Receipts THEN tx[t].status ELSE "message"
    BY ZenonT(40), Delivered
  <2>2. tx[t].status # "message"
    <3>1. tx[t].status \in Status
      BY FanKnown DEF TxState
    <3> QED
      BY <3>1, SMT DEF Status
  <2> QED
    BY <1>1, <2>1, <2>2
<1>2. \A a \in Account : stream[a] \subseteq stream'[a]
  BY Delivered
<1> QED
  BY <1>1, <1>2 DEF Firsts

(* A commit disturbs what no other transaction has computed. *)
LEMMA StatusOthers ==
    ASSUME IInv, FInv, SInv, NEW t \in Tx, tx[t].pc = "commit", Deliver(t), End(t), UNCHANGED since,
           \A m \in MsgId : m # MsgOf(t) => message'[m] = message[m],
           \A x : x.msg # MsgOf(t) => (x \in receipts <=> x \in receipts'),
           NEW u \in Tx
    PROVE  StatusOK(tx'[u], message', stream', receipts', since')
<1> DEFINE y == tx[u]
           m == Target(y.req)
<1>1. tx'[u] = IF u = t THEN Idle ELSE y
  BY DEF End, IInv, TypeOK
<1>2. CASE u = t \/ y.pc \notin Sending
  <2>1. Idle.pc = "idle"
    BY DEF Idle
  <2>2. Idle.pc \notin Sending
    BY <2>1, SMT DEF Sending
  <2>3. tx'[u].pc \notin Sending
    BY <1>1, <1>2, <2>2
  <2> QED
    BY <2>3 DEF StatusOK
<1>3. CASE u # t /\ y.pc \in Sending /\ y.req.op \in Receipts
  <2>1. y.pc \notin {"idle", "lock"} /\ y.req.op \notin Sends /\ y.req.op \notin Revisals
    BY <1>3, SMT DEF Sending, Sends, Revisals, Receipts
  <2>2. m # MsgOf(t) /\ m \in MsgId
    BY <1>3, <2>1, Apart
  <2>3. message'[m] = message[m] /\ Firsts(stream', m) = Firsts(stream, m)
    BY <2>2, FirstsSame
  <2>4. \A x : x.msg = m => (x \in Upsert(receipts, y.req) <=> x \in Upsert(receipts', y.req))
    BY ZenonT(40), <2>2, UpsertSame
  <2>5. \A R, status : Trigger(m, status, R, Upsert(receipts, y.req)) = Trigger(m, status, R, Upsert(receipts', y.req))
    BY <2>4, OtherReceipts
  <2>6. y.status = Trigger(m, message[m].status, Firsts(stream, m) \ {message[m].sender}, Upsert(receipts, y.req))
    BY <1>3 DEF SInv, StatusOK
  <2> DEFINE R == Firsts(stream, m) \ {message[m].sender}
  <2>a. Trigger(m, message[m].status, R, Upsert(receipts, y.req))
          = Trigger(m, message[m].status, R, Upsert(receipts', y.req))
    BY <2>5
  <2>b. R = Firsts(stream', m) \ {message'[m].sender} /\ message'[m].status = message[m].status
    BY <2>3
  <2>7. y.status = Trigger(m, message'[m].status, Firsts(stream', m) \ {message'[m].sender},
                           Upsert(receipts', y.req))
    BY <2>6, <2>a, <2>b
  <2>8. StatusOK(y, message', stream', receipts', since')
    BY <2>1, <2>7 DEF StatusOK
  <2> QED
    BY <1>1, <1>3, <2>8
<1>4. CASE u # t /\ y.pc \in Sending /\ y.req.op \notin Receipts
  <2>1. StatusOK(y, message, stream, receipts, since)
    BY DEF SInv
  <2>2. StatusOK(y, message', stream', receipts', since')
    BY <1>4, <2>1 DEF StatusOK
  <2> QED
    BY <1>1, <1>4, <2>2
<1> QED
  BY <1>2, <1>3, <1>4

(* So a commit is right when its own message is. *)
LEMMA StatusCommit ==
    ASSUME IInv, FInv, SInv, NEW t \in Tx, tx[t].pc = "commit", Deliver(t), End(t), UNCHANGED since,
           \A m \in MsgId : m # MsgOf(t) => message'[m] = message[m],
           \A x : x.msg # MsgOf(t) => (x \in receipts <=> x \in receipts'),
           MsgOf(t) \in MsgId, message'[MsgOf(t)] # NoMessage,
           Exact(MsgOf(t), message'[MsgOf(t)].status,
                 Firsts(stream', MsgOf(t)) \ {message'[MsgOf(t)].sender}, receipts',
                 InTime(since', stream', MsgOf(t))),
           receipts' \subseteq [msg : MsgId, actor : Account, device : Device, status : Receipts]
    PROVE  SInv'
<1>1. ASSUME NEW m \in MsgId, m # MsgOf(t), message'[m] # NoMessage
      PROVE  Exact(m, message'[m].status, Firsts(stream', m) \ {message'[m].sender}, receipts',
                   InTime(since', stream', m))
  <2>1. message'[m] = message[m] /\ Firsts(stream', m) = Firsts(stream, m)
    BY <1>1, FirstsSame
  <2>2. InTime(since', stream', m) <=> InTime(since, stream, m)
    BY <2>1 DEF InTime
  <2>3. Exact(m, message[m].status, Firsts(stream, m) \ {message[m].sender}, receipts,
              InTime(since, stream, m))
    BY <1>1, <2>1, ExactIs DEF SInv
  <2>4. \A x : x.msg = m => (x \in receipts <=> x \in receipts')
    BY <1>1
  <2>5. \A R, status, intime : Exact(m, status, R, receipts, intime) <=> Exact(m, status, R, receipts', intime)
    BY <2>4, OtherReceipts
  <2> QED
    BY <2>1, <2>2, <2>3, <2>5 DEF Exact
<1>2. AggregateExact'
  BY <1>1, ExactIs
<1>3. ASSUME NEW x \in receipts' PROVE message'[x.msg] # NoMessage
  <2>1. x.msg \in MsgId
    BY <1>3
  <2>2. CASE x.msg # MsgOf(t)
    BY <1>3, <2>1, <2>2 DEF SInv, ReceiptsStored
  <2> QED
    BY <2>2
<1>4. ReceiptsStored'
  BY <1>3 DEF ReceiptsStored
<1>5. \A u \in Tx : StatusOK(tx'[u], message', stream', receipts', since')
  BY StatusOthers
<1> QED
  BY <1>2, <1>4, <1>5 DEF SInv

(* A new message has no receipts yet. *)
LEMMA StatusSend ==
    ASSUME IInv, FInv, SInv, NEW t \in Tx, CommitSend(t)
    PROVE  SInv'
<1> DEFINE r == tx[t].req
           m == MsgOf(t)
           row == [sender |-> r.actor, key |-> r.key, body |-> r.body, status |-> "sent",
                   edits |-> 0, deleted |-> FALSE]
<1>1. /\ tx[t].pc = "commit" /\ r.op \in Sends
      /\ Deliver(t) /\ End(t) /\ UNCHANGED since /\ message' = [message EXCEPT ![m] = row]
      /\ receipts' = receipts
  BY DEF CommitSend, people
<1>2. TxOK(tx[t]) /\ r \in Request /\ r.actor \in Account /\ r.conv \in Conversation
  BY <1>1, FanKnown, RequestAssumption
<1>3. IInv'
  BY CommitSendStep
<1>4. m = <<r.conv, tx[t].seq>> /\ m \in MsgId /\ tx[t].seq = nextSeq[r.conv] /\ tx[t].seq \in 1..MaxMessages
  BY <1>1, <1>2 DEF MsgOf, TxOK, TargetOK, Writing, MsgId
<1>5. message[m] = NoMessage
  <2>1. ~(tx[t].seq < nextSeq[r.conv])
    BY <1>4, SMT
  <2> QED
    BY <1>2, <1>4, <2>1 DEF IInv, ConversationsContiguous
<1>6. row.status = "sent"
  OBVIOUS
<1>7. row # NoMessage
  <2>1. r.key \in Key /\ r.body \in Body
    BY <1>1, <1>2, RequestAssumption DEF Sends
  <2>2. row \in Row
    BY <1>2, <2>1 DEF Row, Status
  <2> HIDE DEF row
  <2> QED
    BY <2>2, ConstantsAssumption
<1> HIDE DEF row, m
<1>8. \A k \in MsgId : message'[k] = IF k = m THEN row ELSE message[k]
  BY <1>1, <1>4 DEF IInv, TypeOK
<1>9. \A a, statuses : ~HasReceipt(receipts, m, a, statuses)
  BY <1>5 DEF SInv, ReceiptsStored, HasReceipt
<1>10. \A R, statuses : ~All(R, receipts, m, statuses)
  BY <1>9 DEF All
<1>11. ASSUME NEW R, NEW intime PROVE Exact(m, "sent", R, receipts, intime)
  <2>1. "sent" # "read"
    BY SMT
  <2> QED
    BY <1>10, <2>1 DEF Exact
<1>12. message'[m].status = "sent" /\ message'[m] # NoMessage
  BY <1>4, <1>6, <1>7, <1>8
<1>13. Exact(m, message'[m].status, Firsts(stream', m) \ {message'[m].sender}, receipts',
             InTime(since', stream', m))
  BY <1>1, <1>11, <1>12
<1>14. receipts' \subseteq [msg : MsgId, actor : Account, device : Device, status : Receipts]
  BY <1>3 DEF IInv, TypeOK
<1>15. \A k \in MsgId : k # m => message'[k] = message[k]
  BY <1>8
<1> QED
  BY <1>1, <1>4, <1>12, <1>13, <1>14, <1>15, StatusCommit DEF m

(* A message stays stored. *)
LEMMA StaysStored ==
    ASSUME IInv, IInv', UNCHANGED nextSeq, NEW m \in MsgId, message[m] # NoMessage
    PROVE  message'[m] # NoMessage
<1>1. PICK c \in Conversation, n \in 1..MaxMessages : m = <<c, n>>
  BY SMT DEF MsgId
<1>2. n < nextSeq[c]
  BY <1>1 DEF IInv, ConversationsContiguous
<1>3. n < nextSeq'[c]
  BY <1>2
<1>4. ConversationsContiguous'
  BY DEF IInv
<1> QED
  BY <1>1, <1>3, <1>4 DEF ConversationsContiguous

(* A revision: when it is the first delivery, the status is still "sent" and nobody it      *)
(* reaches was there in time; otherwise the recipients stay.                                *)
LEMMA StatusRevision ==
    ASSUME IInv, FInv, SInv, NEW t \in Tx, CommitRevision(t)
    PROVE  SInv'
<1> DEFINE r == tx[t].req
           m == Target(r)
           old == message[m]
           row == Revised(old, r)
<1>1. /\ tx[t].pc = "commit" /\ r.op \in Revisals /\ r.op \notin Receipts /\ r.op \notin Sends
      /\ Deliver(t) /\ End(t) /\ UNCHANGED since /\ message' = [message EXCEPT ![m] = row]
      /\ receipts' = receipts
  <2>1. r.op \in Revisals => r.op \notin Receipts /\ r.op \notin Sends
    BY SMT DEF Sends, Receipts, Revisals
  <2> QED
    BY <2>1 DEF CommitRevision, people
<1>2. TxOK(tx[t]) /\ r \in Request /\ FanOK(tx[t]) /\ "commit" \in Sending
  BY <1>1, FanKnown DEF Sending
<1>3. IInv'
  BY CommitRevisionStep
<1>4. m = MsgOf(t) /\ m \in MsgId /\ old # NoMessage /\ old \in Row
  <2>1. MsgOf(t) = m /\ old # NoMessage
    BY <1>1, <1>2 DEF MsgOf, TxOK, TargetOK
  <2>2. m \in MsgId
    BY SMT, <1>1, <1>2, RequestAssumption DEF Target, MsgId
  <2> QED
    BY <2>1, <2>2 DEF IInv, TypeOK
<1>5. row.status = old.status /\ row.sender = old.sender
  <2> HIDE DEF old
  <2> QED
    BY <1>4 DEF Revised, Row
<1>6. message'[m] = row /\ \A k \in MsgId : k # m => message'[k] = message[k]
  <2> HIDE DEF row, m
  <2> QED
    BY <1>1, <1>4 DEF IInv, TypeOK
<1>7. message'[m] # NoMessage /\ receipts' \subseteq [msg : MsgId, actor : Account, device : Device, status : Receipts]
  <2>1. nextSeq' = nextSeq
    BY DEF CommitRevision
  <2> QED
    BY <1>3, <1>4, <2>1, StaysStored DEF IInv, TypeOK
<1>8. Exact(m, old.status, Firsts(stream, m) \ {old.sender}, receipts, InTime(since, stream, m))
  BY <1>4, ExactIs DEF SInv
<1>9. CASE tx[t].rev # 1
  <2>1. Firsts(stream', m) = Firsts(stream, m)
    BY <1>1, <1>9, FirstsSame
  <2>2. InTime(since', stream', m) <=> InTime(since, stream, m)
    BY <1>1, <2>1 DEF InTime
  <2>3. Exact(m, message'[m].status, Firsts(stream', m) \ {message'[m].sender}, receipts',
              InTime(since', stream', m))
    BY <1>1, <1>5, <1>6, <1>8, <2>1, <2>2 DEF Exact
  <2> HIDE DEF m, old
  <2> QED
    BY <1>1, <1>4, <1>6, <1>7, <2>3, StatusCommit
<1>10. CASE tx[t].rev = 1
  <2>1. ASSUME NEW a \in Account, NEW e \in stream[a], e.msg = m, e.kind = "message" PROVE e.rev # 1
    <3>1. e.rev < 1
      BY <1>1, <1>2, <1>10, <2>1 DEF FanOK, RevOK
    <3> QED
      BY <3>1, SMT
  <2>2. Firsts(stream, m) = {}
    BY <2>1 DEF Firsts
  <2>3. old.status = "sent"
    BY <1>8, <2>2 DEF Exact, All
  <2>4. ASSUME NEW a \in Firsts(stream', m), since[m[1]][a] <= m[2] PROVE FALSE
    <3>1. PICK e \in stream'[a] : e.msg = m /\ e.kind = "message" /\ e.rev = 1
      BY <2>4 DEF Firsts
    <3>2. a \in Account
      BY <2>4 DEF Firsts
    <3>3. e \notin stream[a]
      BY <2>1, <3>1, <3>2
    <3>4. \A f \in stream'[a] \ stream[a] : a \in Reached(tx[t])
      BY <1>1, <3>2, Delivered
    <3>5. a \in Reached(tx[t])
      BY <3>1, <3>3, <3>4
    <3>6. m[1] = r.conv /\ m[2] = r.seq
      BY SMT DEF Target
    <3>7. ~(since[r.conv][a] <= r.seq)
      BY <1>1, <1>2, <1>10, <3>5 DEF SInv, StatusOK
    <3> QED
      BY <2>4, <3>6, <3>7
  <2>5. ~InTime(since', stream', m)
    BY <1>1, <2>4 DEF InTime
  <2>6. "sent" # "read"
    BY SMT
  <2>7. Exact(m, message'[m].status, Firsts(stream', m) \ {message'[m].sender}, receipts',
              InTime(since', stream', m))
    BY <1>5, <1>6, <2>3, <2>5, <2>6 DEF Exact
  <2> HIDE DEF m, old
  <2> QED
    BY <1>1, <1>4, <1>6, <1>7, <2>7, StatusCommit
<1> QED
  BY <1>9, <1>10

(* A receipt stores what the trigger gives, with the receipt itself. *)
LEMMA StatusReceipt ==
    ASSUME IInv, FInv, SInv, NEW t \in Tx, CommitReceipt(t)
    PROVE  SInv'
<1> DEFINE r == tx[t].req
           m == Target(r)
           old == message[m]
           new == tx[t].status
           row == [old EXCEPT !.status = new]
           R == Firsts(stream, m) \ {old.sender}
<1>1. /\ tx[t].pc = "commit" /\ r.op \in Receipts /\ r.op \notin Sends
      /\ Deliver(t) /\ End(t) /\ UNCHANGED since /\ message' = [message EXCEPT ![m] = row]
      /\ receipts' = Upsert(receipts, r)
  <2>1. r.op \in Receipts => r.op \notin Sends
    BY SMT DEF Sends, Receipts
  <2> QED
    BY <2>1 DEF CommitReceipt, people
<1>2. TxOK(tx[t]) /\ r \in Request /\ tx[t] \in TxState /\ "commit" \in Sending
  BY <1>1, FanKnown DEF Sending
<1>3. IInv'
  BY CommitReceiptStep
<1>4. m = MsgOf(t) /\ m \in MsgId /\ old # NoMessage /\ old \in Row /\ new \in Status
  <2>1. MsgOf(t) = m /\ old # NoMessage
    BY <1>1, <1>2 DEF MsgOf, TxOK, TargetOK
  <2>2. m \in MsgId
    BY SMT, <1>1, <1>2, RequestAssumption DEF Target, MsgId
  <2>3. new \in Status
    BY <1>2 DEF TxState
  <2> QED
    BY <2>1, <2>2, <2>3 DEF IInv, TypeOK
<1>5. row.status = new /\ row.sender = old.sender
  <2> HIDE DEF old, new
  <2> QED
    BY <1>4 DEF Row
<1>6. message'[m] = row /\ \A k \in MsgId : k # m => message'[k] = message[k]
  <2> HIDE DEF row, m
  <2> QED
    BY <1>1, <1>4 DEF IInv, TypeOK
<1>7. message'[m] # NoMessage /\ receipts' \subseteq [msg : MsgId, actor : Account, device : Device, status : Receipts]
  <2>1. nextSeq' = nextSeq
    BY DEF CommitReceipt
  <2> QED
    BY <1>3, <1>4, <2>1, StaysStored DEF IInv, TypeOK
<1>8. Exact(m, old.status, R, receipts, InTime(since, stream, m))
  BY <1>4, ExactIs DEF SInv
<1>9. new = Trigger(m, old.status, R, Upsert(receipts, r))
  BY <1>1, <1>2 DEF SInv, StatusOK
<1>10. Exact(m, new, R, Upsert(receipts, r), InTime(since, stream, m))
  BY <1>1, <1>8, <1>9, TriggerExact
<1>11. Firsts(stream', m) = Firsts(stream, m)
  BY <1>1, FirstsSame
<1>12. InTime(since', stream', m) <=> InTime(since, stream, m)
  BY <1>1, <1>11 DEF InTime
<1>13. Exact(m, message'[m].status, Firsts(stream', m) \ {message'[m].sender}, receipts',
             InTime(since', stream', m))
  BY <1>1, <1>5, <1>6, <1>10, <1>11, <1>12 DEF Exact
<1>14. \A x : x.msg # m => (x \in receipts <=> x \in receipts')
  BY <1>1, UpsertOther
<1> HIDE DEF m, old
<1> QED
  BY <1>1, <1>4, <1>6, <1>7, <1>13, <1>14, StatusCommit

----------------------------------------------------------------------------
(* Everything else, and the theorem *)

(* An account that joins counts from the next message on. *)
LEMMA StatusJoin ==
    ASSUME IInv, SInv, NEW c \in Conversation, NEW a \in Account, Join(c, a)
    PROVE  SInv'
<1>1. UNCHANGED <<message, stream, receipts, tx>> /\ since' = [since EXCEPT ![c][a] = nextSeq[c]]
  BY DEF Join, tables
<1>2. ASSUME NEW k \in Conversation, NEW b \in Account
      PROVE  since'[k][b] = IF k = c /\ b = a THEN nextSeq[c] ELSE since[k][b]
  <2>1. since \in [Conversation -> [Account -> 1..(MaxMessages + 1)]]
    BY DEF IInv, TypeOK
  <2> QED
    BY <1>1, <2>1, SMT
<1>3. ASSUME NEW k \in Conversation, NEW n \in 1..MaxMessages, NEW b \in Account,
             message[<<k, n>>] # NoMessage, since'[k][b] <= n
      PROVE  since[k][b] <= n
  <2>1. n < nextSeq[k]
    BY <1>3 DEF IInv, ConversationsContiguous
  <2>2. nextSeq[k] \in Nat
    BY SMT DEF IInv, TypeOK
  <2>3. ~(nextSeq[k] <= n)
    BY <2>1, <2>2, SMT
  <2> QED
    BY <1>2, <1>3, <2>3
<1>4. ASSUME NEW m \in MsgId, message[m] # NoMessage, InTime(since', stream, m)
      PROVE  InTime(since, stream, m)
  <2>1. PICK k \in Conversation, n \in 1..MaxMessages : m = <<k, n>>
    BY SMT DEF MsgId
  <2>2. m[1] = k /\ m[2] = n
    BY <2>1, SMT
  <2>3. PICK b \in Firsts(stream, m) : since'[k][b] <= n
    BY <1>4, <2>2 DEF InTime
  <2>4. since[k][b] <= n
    BY <1>3, <1>4, <2>1, <2>3 DEF Firsts
  <2> QED
    BY <2>2, <2>3, <2>4 DEF InTime
<1>5. AggregateExact'
  <2>1. ASSUME NEW m \in MsgId, message[m] # NoMessage
        PROVE  Exact(m, message[m].status, Firsts(stream, m) \ {message[m].sender}, receipts,
                     InTime(since', stream, m))
    <3>1. Exact(m, message[m].status, Firsts(stream, m) \ {message[m].sender}, receipts,
                InTime(since, stream, m))
      BY <2>1, ExactIs DEF SInv
    <3> QED
      BY <1>4, <2>1, <3>1 DEF Exact
  <2> QED
    BY <1>1, <2>1, ExactIs
<1>6. ReceiptsStored'
  BY <1>1 DEF SInv, ReceiptsStored
<1>7. ASSUME NEW t \in Tx PROVE StatusOK(tx[t], message, stream, receipts, since')
  <2>1. StatusOK(tx[t], message, stream, receipts, since)
    BY DEF SInv
  <2>2. ASSUME tx[t].pc \in Sending, tx[t].req.op \in Revisals, NEW b \in Reached(tx[t]),
               since'[tx[t].req.conv][b] <= tx[t].req.seq
        PROVE  since[tx[t].req.conv][b] <= tx[t].req.seq
    <3>1. tx[t].pc # "idle" /\ tx[t].pc # "lock" /\ tx[t].req.op \notin Sends
      BY <2>2, SMT DEF Sending, Revisals, Sends
    <3>2. tx[t] \in TxState /\ tx[t].req \in Request /\ TxOK(tx[t])
      BY <3>1, TxTyped DEF IInv
    <3>3. message[Target(tx[t].req)] # NoMessage
      BY <3>1, <3>2 DEF TxOK, TargetOK
    <3>4. /\ tx[t].req.conv \in Conversation /\ tx[t].req.seq \in 1..MaxMessages
          /\ Target(tx[t].req) = <<tx[t].req.conv, tx[t].req.seq>>
      BY SMT, <3>1, <3>2, RequestAssumption DEF Target
    <3>5. b \in Account
      <4>1. tx[t].todo \in SUBSET Account /\ \A o \in tx[t].out : o.to \in Account
        BY <3>2 DEF TxState
      <4> QED
        BY <2>2, <4>1 DEF Reached
    <3> DEFINE k == tx[t].req.conv
               n == tx[t].req.seq
    <3>6. /\ k \in Conversation /\ n \in 1..MaxMessages /\ message[<<k, n>>] # NoMessage
          /\ since'[k][b] <= n
      BY <2>2, <3>3, <3>4
    <3> HIDE DEF k, n
    <3>7. since[k][b] <= n
      BY <1>3, <3>5, <3>6
    <3> QED
      BY <3>7 DEF k, n
  <2> QED
    BY <2>1, <2>2 DEF StatusOK
<1> QED
  BY <1>1, <1>5, <1>6, <1>7 DEF SInv

(* Every step of the store preserves the invariant. *)
LEMMA StatusNext == IInv /\ FInv /\ SInv /\ [Next]_vars => SInv'
<1> SUFFICES ASSUME IInv, FInv, SInv, [Next]_vars PROVE SInv'
  OBVIOUS
<1>1. ASSUME NEW t \in Tx, NEW r \in Request, Begin(t, r) PROVE SInv'
  <2> DEFINE x == [Idle EXCEPT !.pc = IF r.op \in Sends THEN "refresh" ELSE "lock",
                               !.req = r, !.as = AccessOf(r), !.at = clock]
  <2>1. x.pc = IF r.op \in Sends THEN "refresh" ELSE "lock"
    BY DEF Idle
  <2>2. tx' = [tx EXCEPT ![t] = x] /\ UNCHANGED <<message, stream, receipts, since>>
    BY <1>1 DEF Begin, tables, people
  <2> HIDE DEF x
  <2>3. x.pc \notin Sending
    BY <2>1, SMT DEF Sending
  <2>4. StatusOK(x, message, stream, receipts, since)
    BY <2>3 DEF StatusOK
  <2> QED
    BY <2>2, <2>4, StatusMove
<1>2. ASSUME NEW t \in Tx, Step(t) PROVE SInv'
  <2>1. CASE CommitSend(t)
    BY <2>1, StatusSend
  <2>2. CASE CommitRevision(t)
    BY <2>2, StatusRevision
  <2>3. CASE CommitReceipt(t)
    BY <2>3, StatusReceipt
  <2>4. CASE ~(CommitSend(t) \/ CommitRevision(t) \/ CommitReceipt(t))
    <3>1. /\ UNCHANGED <<message, stream, receipts, since>>
          /\ End(t) \/ \E x : tx' = [tx EXCEPT ![t] = x] /\ Moved(t, x)
      BY <1>2, <2>4, StatementMoves DEF tables, people
    <3>2. CASE End(t)
      BY <3>1, <3>2, StatusEnd
    <3>3. ASSUME NEW x, tx' = [tx EXCEPT ![t] = x], Moved(t, x) PROVE SInv'
      <4>1. IInv'
        BY NextOK
      <4> QED
        BY <3>1, <3>3, <4>1, StatusStatement
    <3> QED
      BY <3>1, <3>2, <3>3
  <2> QED
    BY <2>1, <2>2, <2>3, <2>4
<1>3. ASSUME NEW t \in Tx, Abort(t) PROVE SInv'
  BY <1>3, StatusEnd DEF Abort, tables, people
<1>4. ASSUME UNCHANGED <<message, stream, receipts, since, tx>> PROVE SInv'
  <2>1. AggregateExact'
    <3>1. \A m \in MsgId : message[m] # NoMessage =>
            Exact(m, message[m].status, Firsts(stream, m) \ {message[m].sender}, receipts,
                  InTime(since, stream, m))
      BY ExactIs DEF SInv
    <3> QED
      BY <1>4, <3>1, ExactIs
  <2> QED
    BY <1>4, <2>1 DEF SInv, ReceiptsStored
<1>5. ASSUME NEW c \in Conversation, NEW a \in Account,
             \/ Join(c, a) \/ Leave(c, a) \/ DeleteDraft(c, a)
             \/ \E v \in 0..MaxDraft, b \in Body : PutDraft(c, a, v, b)
      PROVE  SInv'
  <2>1. CASE Join(c, a)
    BY <2>1, StatusJoin
  <2>2. CASE ~Join(c, a)
    <3>1. UNCHANGED <<message, stream, receipts, since, tx>>
      BY <1>5, <2>2 DEF Leave, DeleteDraft, PutDraft, SetDraft, tables, people
    <3> QED
      BY <1>4, <3>1
  <2> QED
    BY <2>1, <2>2
<1>6. ASSUME NEW a \in Account, DeleteAccount(a) PROVE SInv'
  BY <1>4, <1>6 DEF DeleteAccount
<1>7. CASE UNCHANGED vars
  BY <1>4, <1>7 DEF vars
<1> QED
  BY <1>1, <1>2, <1>3, <1>5, <1>6, <1>7 DEF Next

(* A message is globally delivered, or read, exactly when every account its first fan-out  *)
(* reached has acknowledged it on some device, whatever transactions of receipts, edits     *)
(* and memberships overlap; the exception is the one AggregateExact names (decision D-009,  *)
(* advance_message_aggregate_status).                                                       *)
THEOREM StatusIsExact == Spec => []AggregateExact
<1>1. Init => SInv
  <2> SUFFICES ASSUME Init PROVE SInv
    OBVIOUS
  <2>1. /\ \A t \in Tx : tx[t].pc = "idle"
        /\ \A m \in MsgId : message[m] = NoMessage
        /\ receipts = {}
    BY DEF Init, Idle
  <2>2. "idle" \notin Sending
    BY SMT DEF Sending
  <2>3. AggregateExact
    BY <2>1, ExactIs
  <2> QED
    BY <2>1, <2>2, <2>3 DEF SInv, ReceiptsStored, StatusOK
<1>2. SInv => AggregateExact
  BY DEF SInv
<1> QED
  BY <1>1, <1>2, FanInvariance, StatusNext, PTL DEF Spec
=============================================================================
