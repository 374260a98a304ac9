-------------------------- MODULE MessagingFanout --------------------------
(***************************************************************************)
(* What the row locks guarantee the readers of Messaging, for every set of *)
(* accounts, conversations, requests and concurrent transactions: nobody   *)
(* misses a message, the deferred outbox constraints refuse nothing, the   *)
(* sender is told the status story, and a tombstone is final.              *)
(*                                                                         *)
(* Each of them compares what a transaction read with the store at its     *)
(* commit.  FanOK says why the two still agree: whoever takes part now is  *)
(* among those the fan-out has served or will serve, a revision is newer   *)
(* than every event of its message and finds it alive, and a receipt       *)
(* announces the one advance that its message's lock keeps possible.       *)
(***************************************************************************)
EXTENDS MessagingProofs

(* A leaf goes to Zenon unless it names another prover; the ones that need
   arithmetic, tuples or EXCEPT name SMT. *)
USE Zenon

----------------------------------------------------------------------------
(* The inductive invariant *)

Sending == {"enqueue", "finish", "commit"}

(* The accounts that are, or will be, in the fan-out of a transaction. *)
Reached(x) == x.todo \cup {o.to : o \in x.out}

(* The rows a transaction keeps: its message from the first statement on, and its          *)
(* conversation from the moment it reads who takes part.                                   *)
LocksOK(x) ==
    /\ x.req.op \notin Sends /\ x.pc # "lock" => Msg(Target(x.req)) \in x.holds
    /\ x.req.op \notin Receipts /\ x.pc \in Sending => Conv(x.req.conv) \in x.holds

(* The fan-out of a send or a revision covers E, who takes part now; nobody is left over    *)
(* at its end.                                                                              *)
CoverOK(x, E) ==
    /\ x.req.op \notin Receipts /\ x.pc \in Sending => E \subseteq Reached(x)
    /\ x.pc \in {"finish", "commit"} => x.todo = {}

(* A revision is newer than every event of its message in the streams s. *)
RevOK(x, s) ==
    /\ x.req.op \in Sends /\ x.pc \in Sending \cup {"reply"} => x.rev = 1
    /\ x.req.op \in Receipts => x.rev = 0
    /\ x.req.op \in Revisals /\ x.pc \in Sending =>
         \A a \in Account : \A e \in s[a] :
            e.msg = Target(x.req) /\ e.kind = "message" => e.rev < x.rev

(* A revision finds its message alive, and a receipt advances its status, or leaves it and  *)
(* tells nobody.                                                                            *)
Advances(old, new) ==
    \/ old = "sent" /\ new \in {"delivered", "read"}
    \/ old = "delivered" /\ new = "read"

AliveOK(x, row) == x.req.op \in Revisals /\ x.pc \in Sending => ~row.deleted

AdvanceOK(x, row) ==
    x.req.op \in Receipts /\ x.pc \in Sending =>
        \/ x.status = row.status /\ Reached(x) = {}
        \/ Advances(row.status, x.status) /\ Reached(x) = {row.sender}

FanOK(x) ==
    x.pc # "idle" =>
        /\ LocksOK(x) /\ CoverOK(x, Effective(x.req.conv)) /\ RevOK(x, stream)
        /\ AliveOK(x, message[Target(x.req)]) /\ AdvanceOK(x, message[Target(x.req)])

(* Events are about stored messages. *)
EventsStored == \A a \in Account : \A e \in stream[a] : message[e.msg] # NoMessage

(* The status story of message m with this row, in the stream s of its sender. *)
Told(s, m, k) == {e \in s : e.msg = m /\ e.kind = k}

StoryOK(m, status, s) ==
    /\ status # "sent" => Told(s, m, status) # {}
    /\ status # "read" => Told(s, m, "read") = {}
    /\ status = "sent" => Told(s, m, "delivered") = {}
    /\ \A d \in Told(s, m, "delivered"), r \in Told(s, m, "read") : d.seq < r.seq

Stories ==
    \A m \in MsgId : message[m] # NoMessage =>
        StoryOK(m, message[m].status, stream[message[m].sender])

FInv ==
    /\ \A t \in Tx : FanOK(tx[t])
    /\ EventsStored
    /\ NoMissedMessage
    /\ Stories

----------------------------------------------------------------------------
(* Statements before the commit *)

(* Nothing has been decided before the fan-out but the locks and the first revision. *)
LEMMA FanEarly ==
    ASSUME NEW x, x.pc \notin Sending,
           x.req.op \notin Sends /\ x.pc # "lock" => Msg(Target(x.req)) \in x.holds,
           x.req.op \in Receipts => x.rev = 0,
           x.req.op \in Sends /\ x.pc = "reply" => x.rev = 1
    PROVE  FanOK(x)
<1>1. x.pc \notin {"finish", "commit"}
  BY DEF Sending
<1>2. x.pc \in Sending \cup {"reply"} => x.pc = "reply"
  OBVIOUS
<1> QED
  BY <1>1, <1>2 DEF FanOK, LocksOK, CoverOK, RevOK, AliveOK, AdvanceOK

(* A statement that only moves transaction t to x. *)
LEMMA FanMove ==
    ASSUME IInv, FInv, NEW t \in Tx, NEW x, tx' = [tx EXCEPT ![t] = x], FanOK(x),
           UNCHANGED <<tables, people>>
    PROVE  FInv'
<1>0. /\ message' = message /\ stream' = stream /\ since' = since
      /\ \A k : Effective(k)' = Effective(k)
  BY DEF tables, people, Effective
<1>1. ASSUME NEW u \in Tx PROVE FanOK(tx[u])'
  <2>1. tx'[u] = IF u = t THEN x ELSE tx[u]
    BY DEF IInv, TypeOK
  <2>2. FanOK(tx'[u])
    BY <2>1 DEF FInv
  <2> QED
    BY <1>0, <2>2 DEF FanOK, AliveOK, RevOK, CoverOK, AdvanceOK, LocksOK
<1>2. EventsStored'
  BY <1>0 DEF FInv, EventsStored
<1>3. NoMissedMessage'
  BY <1>0 DEF FInv, NoMissedMessage
<1>4. Stories'
  BY <1>0 DEF FInv, Stories
<1> QED
  BY <1>1, <1>2, <1>3, <1>4 DEF FInv

(* A request that ends leaves nothing to cover. *)
LEMMA FanEnd ==
    ASSUME IInv, FInv, NEW t \in Tx, End(t), UNCHANGED <<tables, people>>
    PROVE  FInv'
<1>1. FanOK(Idle)
  BY DEF FanOK, Idle
<1> QED
  BY <1>1, FanMove DEF End

(* A running transaction with what is known of it. *)
LEMMA FanKnown ==
    ASSUME IInv, FInv, NEW t \in Tx, tx[t].pc # "idle"
    PROVE  /\ tx[t] \in TxState /\ Wants(t) \in SUBSET Lock /\ tx[t].req \in Request
           /\ TxOK(tx[t]) /\ FanOK(tx[t])
BY TxTyped DEF IInv, FInv

(* A new request holds nothing and has decided nothing. *)
LEMMA FanBegin ==
    ASSUME IInv, FInv, NEW t \in Tx, NEW r \in Request, Begin(t, r)
    PROVE  FInv'
<1> DEFINE x == [Idle EXCEPT !.pc = IF r.op \in Sends THEN "refresh" ELSE "lock",
                             !.req = r, !.as = AccessOf(r), !.at = clock]
<1>1. x.pc = (IF r.op \in Sends THEN "refresh" ELSE "lock") /\ x.req = r /\ x.rev = 0
  BY DEF Idle
<1>2. tx' = [tx EXCEPT ![t] = x] /\ UNCHANGED <<tables, people>>
  BY DEF Begin
<1> HIDE DEF x
<1>3. FanOK(x)
  <2>1. x.pc \notin Sending /\ x.pc # "reply" /\ (r.op \notin Sends => x.pc = "lock")
    BY <1>1 DEF Sending
  <2> QED
    BY <1>1, <2>1, FanEarly
<1> QED
  BY <1>2, <1>3, FanMove

(* The first statement of a revision or a receipt takes the row of its message. *)
LEMMA FanLock ==
    ASSUME IInv, FInv, NEW t \in Tx, LockMessage(t)
    PROVE  FInv'
<1> DEFINE p == IF tx[t].req.op \in Receipts THEN "receipt" ELSE "refresh"
           f == [tx[t] EXCEPT !.pc = p]
           x == [f EXCEPT !.holds = @ \cup Wants(t)]
<1>1. UNCHANGED <<tables, people>> /\ tx[t].pc = "lock"
  BY DEF LockMessage
<1>2. CASE ~MayTouch(t)
  BY <1>1, <1>2, FanEnd DEF LockMessage
<1>3. CASE MayTouch(t)
  <2>1. tx[t] \in TxState /\ Wants(t) \in SUBSET Lock /\ TxOK(tx[t]) /\ FanOK(tx[t])
    BY <1>1, FanKnown
  <2>2. /\ x.pc = p /\ x.req = tx[t].req /\ x.rev = tx[t].rev
        /\ x.holds = tx[t].holds \cup Wants(t)
    BY <2>1 DEF TxState
  <2>3. tx' = [tx EXCEPT ![t] = x]
    BY <1>3 DEF LockMessage, Run
  <2>4. Msg(Target(tx[t].req)) \in Wants(t)
    BY <1>1 DEF Wants, StatementLocks, At
  <2>5. x.pc \notin Sending /\ x.pc # "reply"
    BY <2>2, SMT DEF Sending
  <2> HIDE DEF x, p
  <2>6. FanOK(x)
    BY <1>1, <2>1, <2>2, <2>4, <2>5, FanEarly DEF FanOK, RevOK
  <2> QED
    BY <1>1, <2>3, <2>6, FanMove
<1> QED
  BY <1>2, <1>3

(* The refresh, the claim and the insert keep the message's lock. *)
LEMMA FanClaim ==
    ASSUME IInv, FInv, NEW t \in Tx, Refresh(t) \/ Claim(t) \/ Insert(t)
    PROVE  FInv'
<1>1. /\ UNCHANGED <<tables, people>> /\ tx[t].pc \in {"refresh", "claim", "insert"}
  BY DEF Refresh, Claim, Insert
<1>2. tx[t] \in TxState /\ Wants(t) \in SUBSET Lock /\ TxOK(tx[t]) /\ FanOK(tx[t])
  <2>1. tx[t].pc # "idle"
    BY <1>1, SMT
  <2> QED
    BY <2>1, FanKnown
<1> DEFINE n == nextSeq[tx[t].req.conv]
           p == IF tx[t].req.op \in Sends THEN "insert" ELSE "revise"
           y(f) == [f EXCEPT !.holds = @ \cup Wants(t)]
           f1 == [tx[t] EXCEPT !.pc = "claim"]
           f2 == [tx[t] EXCEPT !.pc = p]
           f3 == [tx[t] EXCEPT !.pc = "reply", !.seq = n, !.rev = 1]
<1>3. \E x : /\ tx' = [tx EXCEPT ![t] = x] /\ x.req = tx[t].req
             /\ x.holds = tx[t].holds \cup Wants(t)
             /\ \/ x.pc \in {"claim", "insert", "revise"} /\ x.rev = tx[t].rev
                \/ x.pc = "reply" /\ x.rev = 1 /\ tx[t].pc = "insert"
  <2>1. CASE Refresh(t)
    <3>1. /\ y(f1).pc = "claim" /\ y(f1).rev = tx[t].rev /\ y(f1).req = tx[t].req
          /\ y(f1).holds = tx[t].holds \cup Wants(t)
      BY <1>2 DEF TxState
    <3>2. tx' = [tx EXCEPT ![t] = y(f1)]
      BY <2>1 DEF Refresh, Run
    <3> HIDE DEF y, f1
    <3> QED
      BY <3>1, <3>2
  <2>2. CASE Claim(t)
    <3>1. /\ y(f2).pc \in {"insert", "revise"} /\ y(f2).rev = tx[t].rev /\ y(f2).req = tx[t].req
          /\ y(f2).holds = tx[t].holds \cup Wants(t)
      BY <1>2 DEF TxState
    <3>2. tx' = [tx EXCEPT ![t] = y(f2)]
      BY <2>2 DEF Claim, Run
    <3> HIDE DEF y, f2
    <3> QED
      BY <3>1, <3>2
  <2>3. CASE Insert(t)
    <3>1. /\ y(f3).pc = "reply" /\ y(f3).rev = 1 /\ y(f3).req = tx[t].req
          /\ y(f3).holds = tx[t].holds \cup Wants(t)
      <4> HIDE DEF n
      <4> QED
        BY <1>2 DEF TxState
    <3>2. tx' = [tx EXCEPT ![t] = y(f3)] /\ tx[t].pc = "insert"
      BY <2>3 DEF Insert, Run
    <3> HIDE DEF y, f3
    <3> QED
      BY <3>1, <3>2
  <2> QED
    BY <2>1, <2>2, <2>3
<1>4. PICK x : /\ tx' = [tx EXCEPT ![t] = x] /\ x.req = tx[t].req
               /\ x.holds = tx[t].holds \cup Wants(t)
               /\ \/ x.pc \in {"claim", "insert", "revise"} /\ x.rev = tx[t].rev
                  \/ x.pc = "reply" /\ x.rev = 1 /\ tx[t].pc = "insert"
  BY <1>3
<1>5. tx[t].pc # "idle" /\ tx[t].pc # "lock" /\ x.pc \notin Sending
  BY <1>1, <1>4, SMT DEF Sending
<1>6. x.req.op \notin Sends /\ x.pc # "lock" => Msg(Target(x.req)) \in x.holds
  BY <1>2, <1>4, <1>5 DEF FanOK, LocksOK
<1>7. x.req.op \in Receipts => x.rev = 0
  <2>1. tx[t].pc = "insert" => tx[t].req.op \in Sends
    BY <1>2, <1>5 DEF TxOK, PhaseOK
  <2>2. tx[t].req.op \in Receipts => tx[t].rev = 0
    BY <1>2, <1>5 DEF FanOK, RevOK
  <2>3. tx[t].req.op \in Sends => tx[t].req.op \notin Receipts
    BY SMT DEF Sends, Receipts
  <2> QED
    BY <1>4, <2>1, <2>2, <2>3
<1>8. x.pc = "reply" => x.rev = 1
  BY <1>4, SMT
<1>9. FanOK(x)
  BY <1>5, <1>6, <1>7, <1>8, FanEarly
<1> QED
  BY <1>1, <1>4, <1>9, FanMove

(* The fan-out of a send starts with everyone who takes part. *)
LEMMA FanReply ==
    ASSUME IInv, FInv, NEW t \in Tx, Reply(t)
    PROVE  FInv'
<1> DEFINE r == tx[t].req
           E == Effective(r.conv)
           f == [tx[t] EXCEPT !.pc = "enqueue", !.todo = E]
           x == [f EXCEPT !.holds = @ \cup Wants(t)]
<1>1. UNCHANGED <<tables, people>> /\ tx[t].pc = "reply"
  BY DEF Reply
<1>2. CASE End(t)
  BY <1>1, <1>2, FanEnd
<1>3. CASE Run(t, f)
  <2>1. tx[t] \in TxState /\ Wants(t) \in SUBSET Lock /\ TxOK(tx[t]) /\ FanOK(tx[t])
    BY <1>1, FanKnown
  <2>2. /\ x.pc = "enqueue" /\ x.req = r /\ x.rev = tx[t].rev /\ x.todo = E
        /\ x.holds = tx[t].holds \cup Wants(t)
    <3> HIDE DEF E
    <3> QED
      BY <2>1 DEF TxState
  <2>3. r.op \in Sends /\ Conv(r.conv) \in tx[t].holds /\ tx[t].rev = 1
    BY <1>1, <2>1 DEF TxOK, PhaseOK, TargetOK, Writing, FanOK, RevOK
  <2>4. r.op \notin Receipts /\ r.op \notin Revisals
    BY <2>3, SMT DEF Sends, Receipts, Revisals
  <2>5. tx' = [tx EXCEPT ![t] = x]
    BY <1>3 DEF Run
  <2> HIDE DEF x, f, E
  <2>6. x.pc \notin {"finish", "commit"} /\ E \subseteq Reached(x)
    BY <2>2 DEF Reached
  <2>7. FanOK(x)
    BY <2>2, <2>3, <2>4, <2>6 DEF FanOK, LocksOK, CoverOK, RevOK, AliveOK, AdvanceOK, E
  <2> QED
    BY <1>1, <2>5, <2>7, FanMove
<1> QED
  BY <1>2, <1>3 DEF Reply

(* A revision is newer than all before it, and its message is alive. *)
LEMMA FanRevise ==
    ASSUME IInv, FInv, NEW t \in Tx, Revise(t)
    PROVE  FInv'
<1> DEFINE r == tx[t].req
           E == Effective(r.conv)
           f(n) == [tx[t] EXCEPT !.pc = "enqueue", !.rev = n + 1, !.todo = E]
           x(n) == [f(n) EXCEPT !.holds = @ \cup Wants(t)]
<1>1. UNCHANGED <<tables, people>> /\ tx[t].pc = "revise"
  BY DEF Revise
<1>2. CASE End(t)
  BY <1>1, <1>2, FanEnd
<1>3. ASSUME NEW n \in Revisions(Target(r)), \A k \in Revisions(Target(r)) : k <= n,
             Run(t, f(n)), ~message[Target(r)].deleted
      PROVE  FInv'
  <2>1. tx[t] \in TxState /\ Wants(t) \in SUBSET Lock /\ TxOK(tx[t]) /\ FanOK(tx[t]) /\ n \in Nat
    BY <1>1, <1>3, FanKnown, RevisionsTyped
  <2> DEFINE v == n + 1
  <2>2. /\ x(n).pc = "enqueue" /\ x(n).req = r /\ x(n).rev = v /\ x(n).todo = E
        /\ x(n).holds = tx[t].holds \cup Wants(t)
    <3> HIDE DEF E, v
    <3>1. x(n) = [[tx[t] EXCEPT !.pc = "enqueue", !.rev = v, !.todo = E] EXCEPT !.holds = @ \cup Wants(t)]
      BY DEF v
    <3> QED
      BY <2>1, <3>1 DEF TxState
  <2>3. /\ r.op \in Revisals /\ Conv(r.conv) \in Wants(t) /\ Msg(Target(r)) \in tx[t].holds
    <3>1. r.op \in Revisals
      BY <1>1, <2>1 DEF TxOK, PhaseOK
    <3>2. r.op \notin Sends
      BY <3>1, SMT DEF Sends, Revisals
    <3> QED
      BY <1>1, <2>1, <3>1, <3>2 DEF FanOK, LocksOK, Wants, StatementLocks, At
  <2>4. r.op \notin Receipts /\ r.op \notin Sends
    BY <2>3, SMT DEF Sends, Receipts, Revisals
  <2>5. tx' = [tx EXCEPT ![t] = x(n)]
    BY <1>3 DEF Run
  <2>6. \A a \in Account : \A e \in stream[a] :
           e.msg = Target(r) /\ e.kind = "message" => e.rev < v
    <3> SUFFICES ASSUME NEW a \in Account, NEW e \in stream[a],
                        e.msg = Target(r), e.kind = "message"
                 PROVE  e.rev < v
      OBVIOUS
    <3>1. e.rev \in Revisions(Target(r))
      <4> DEFINE S(b) == {d.rev : d \in {k \in stream[b] : k.msg = Target(r) /\ k.kind = "message"}}
      <4>1. e.rev \in S(a)
        OBVIOUS
      <4>2. Revisions(Target(r)) = {0} \cup UNION {S(b) : b \in Account}
        BY DEF Revisions
      <4> HIDE DEF S
      <4> QED
        BY <4>1, <4>2
    <3>2. e.rev <= n /\ e.rev \in Nat
      BY <1>3, <3>1, RevisionsTyped
    <3> QED
      BY <2>1, <3>2, SMT
  <2> DEFINE z == x(n)
  <2>7. tx' = [tx EXCEPT ![t] = z]
    BY <2>5
  <2>8. /\ z.pc = "enqueue" /\ z.req = r /\ z.rev = v /\ z.todo = E
        /\ z.holds = tx[t].holds \cup Wants(t)
    BY <2>2
  <2> HIDE DEF z, E, v
  <2>9. z.pc \notin {"finish", "commit"} /\ E \subseteq Reached(z)
    BY <2>8 DEF Reached
  <2>10. FanOK(z)
    BY <1>3, <2>3, <2>4, <2>6, <2>8, <2>9 DEF FanOK, LocksOK, CoverOK, RevOK, AliveOK, AdvanceOK, E
  <2> QED
    BY <1>1, <2>7, <2>10, FanMove
<1> QED
  BY <1>2, <1>3 DEF Revise

(* A receipt advances the status, or tells nobody. *)
LEMMA FanReceipt ==
    ASSUME IInv, FInv, NEW t \in Tx, Receipt(t)
    PROVE  FInv'
<1> DEFINE r == tx[t].req
           m == Target(r)
           new == Aggregate(Upsert(receipts, r), m)
           p == IF new # message[m].status THEN "enqueue" ELSE "commit"
           D == IF new # message[m].status THEN {message[m].sender} ELSE {}
           f == [tx[t] EXCEPT !.status = new, !.pc = p, !.todo = D]
           x == [f EXCEPT !.holds = @ \cup Wants(t)]
<1>1. UNCHANGED <<tables, people>> /\ tx[t].pc = "receipt" /\ tx' = [tx EXCEPT ![t] = x]
  BY DEF Receipt, Run
<1>2. tx[t] \in TxState /\ Wants(t) \in SUBSET Lock /\ r \in Request /\ TxOK(tx[t]) /\ FanOK(tx[t])
  BY <1>1, FanKnown
<1>3. r.op \in Receipts /\ r.op \notin Sends /\ r.op \notin Revisals /\ tx[t].out = {}
      /\ message[m] # NoMessage
  <2>1. r.op \in Receipts /\ tx[t].out = {}
    BY <1>1, <1>2 DEF TxOK, PhaseOK, OutOK
  <2>2. r.op \notin Sends /\ r.op \notin Revisals
    BY <2>1, SMT DEF Sends, Receipts, Revisals
  <2> QED
    BY <1>1, <1>2, <2>1, <2>2 DEF TxOK, TargetOK
<1>4. m \in MsgId
  BY SMT, <1>2, <1>3, RequestAssumption DEF Target, MsgId, Sends, Receipts
<1>5. new = message[m].status \/ Advances(message[m].status, new)
  <2>1. message[m].status \in Status
    BY <1>3, <1>4 DEF IInv, TypeOK, Row
  <2> QED
    BY <2>1 DEF Aggregate, Advances, Status
<1>6. p \in {"enqueue", "commit"} /\ (new # message[m].status => p = "enqueue")
      /\ (new = message[m].status => D = {}) /\ (new # message[m].status => D = {message[m].sender})
  OBVIOUS
<1>7. /\ x.pc = p /\ x.req = r /\ x.out = tx[t].out /\ x.todo = D /\ x.rev = tx[t].rev
      /\ x.status = new /\ x.holds = tx[t].holds \cup Wants(t)
  <2> HIDE DEF p, D, new
  <2> QED
    BY <1>2 DEF TxState
<1>8. tx[t].rev = 0 /\ Msg(m) \in tx[t].holds
  BY <1>1, <1>2, <1>3 DEF FanOK, RevOK, LocksOK
<1> HIDE DEF x, f, p, D, new, m
<1>9. Reached(x) = D
  BY <1>3, <1>7 DEF Reached
<1>10. p = "commit" => D = {}
  <2>1. p = "commit" => p # "enqueue"
    BY SMT
  <2> QED
    BY <1>6, <2>1
<1>11. p # "finish"
  BY <1>6, SMT
<1>12. FanOK(x)
  BY <1>3, <1>5, <1>6, <1>7, <1>8, <1>9, <1>10, <1>11
  DEF FanOK, LocksOK, CoverOK, RevOK, AliveOK, AdvanceOK, m
<1> QED
  BY <1>1, <1>12, FanMove

(* No stream has the event a fan-out is about to deliver. *)
LEMMA NotYetTold ==
    ASSUME IInv, FInv, NEW t \in Tx, tx[t].pc = "enqueue", NEW a \in tx[t].todo,
           NEW e \in stream[a], e = EventOf(t, e.seq)
    PROVE  FALSE
<1> DEFINE r == tx[t].req
           m == Target(r)
<1>1. tx[t] \in TxState /\ r \in Request /\ TxOK(tx[t]) /\ FanOK(tx[t])
  BY FanKnown
<1>2. a \in Account
  BY <1>1 DEF TxState
<1>3. /\ e.msg = MsgOf(t) /\ e.rev = tx[t].rev
      /\ e.kind = IF r.op \in Receipts THEN tx[t].status ELSE "message"
  <2> DEFINE s == e.seq
  <2>1. e = EventOf(t, s)
    OBVIOUS
  <2> HIDE DEF s
  <2> QED
    BY <2>1 DEF EventOf
<1>4. message[e.msg] # NoMessage
  BY <1>2 DEF FInv, EventsStored
<1>5. CASE r.op \in Sends
  <2>1. e.msg = <<r.conv, tx[t].seq>> /\ tx[t].seq \in 1..MaxMessages /\ tx[t].seq = nextSeq[r.conv]
    BY <1>1, <1>3, <1>5 DEF MsgOf, TxOK, TargetOK, Writing
  <2>2. r.conv \in Conversation
    BY <1>1, RequestAssumption
  <2>3. ~(tx[t].seq < nextSeq[r.conv])
    BY <2>1, SMT
  <2> QED
    BY <1>4, <2>1, <2>2, <2>3 DEF IInv, ConversationsContiguous
<1>6. CASE r.op \in Revisals
  <2>1. r.op \notin Sends /\ r.op \notin Receipts
    BY <1>6, SMT DEF Sends, Revisals, Receipts
  <2>2. e.msg = m /\ e.kind = "message" /\ e.rev = tx[t].rev
    BY <1>3, <2>1 DEF MsgOf
  <2>3. e.rev < tx[t].rev
    BY <1>1, <1>2, <1>6, <2>2 DEF FanOK, RevOK, Sending
  <2>4. tx[t].rev \in Nat
    BY <1>1 DEF TxState
  <2> QED
    BY <2>2, <2>3, <2>4, SMT
<1>7. CASE r.op \in Receipts
  <2>1. r.op \notin Sends
    BY <1>7, SMT DEF Sends, Receipts
  <2>2. e.msg = m /\ e.kind = tx[t].status
    BY <1>3, <1>7, <2>1 DEF MsgOf
  <2>3. a \in Reached(tx[t])
    BY DEF Reached
  <2>4. Advances(message[m].status, tx[t].status) /\ a = message[m].sender
    BY <1>1, <1>7, <2>3 DEF FanOK, AdvanceOK, Sending
  <2>5. m \in MsgId
    BY SMT, <1>1, <1>7, RequestAssumption DEF Target, MsgId, Sends, Receipts
  <2>6. StoryOK(m, message[m].status, stream[a])
    BY <1>4, <2>2, <2>4, <2>5 DEF FInv, Stories
  <2>7. e \in Told(stream[a], m, tx[t].status)
    BY <2>2 DEF Told
  <2>8. \/ tx[t].status = "read" /\ message[m].status # "read"
        \/ tx[t].status = "delivered" /\ message[m].status = "sent"
    BY <2>4 DEF Advances
  <2>9. Told(stream[a], m, tx[t].status) = {}
    BY <2>6, <2>8 DEF StoryOK
  <2> QED
    BY <2>7, <2>9
<1> QED
  BY <1>1, <1>5, <1>6, <1>7, RequestAssumption

(* Whoever is served moves from what is to do to what is out. *)
LEMMA FanEnqueue ==
    ASSUME IInv, FInv, NEW t \in Tx, Enqueue(t)
    PROVE  FInv'
<1>1. UNCHANGED <<tables, people>> /\ tx[t].pc = "enqueue"
  BY DEF Enqueue
<1>2. tx[t] \in TxState /\ Wants(t) \in SUBSET Lock /\ TxOK(tx[t]) /\ FanOK(tx[t])
  BY <1>1, FanKnown
<1> DEFINE O(a) == IF \E e \in stream[a] : e = EventOf(t, e.seq) THEN tx[t].out
                   ELSE tx[t].out \cup {[to |-> a, seq |-> next[a]]}
           f(a) == [tx[t] EXCEPT !.todo = @ \ {a}, !.out = O(a)]
<1>3. PICK a \in tx[t].todo : Run(t, f(a))
  BY DEF Enqueue
<1> DEFINE Q == O(a)
           T == tx[t].todo \ {a}
           x == [[tx[t] EXCEPT !.todo = T, !.out = Q] EXCEPT !.holds = @ \cup Wants(t)]
<1>4. Q = tx[t].out \cup {[to |-> a, seq |-> next[a]]}
  BY <1>1, NotYetTold
<1>5. tx' = [tx EXCEPT ![t] = x]
  BY <1>3 DEF Run
<1>6. /\ x.pc = "enqueue" /\ x.req = tx[t].req /\ x.rev = tx[t].rev /\ x.todo = T /\ x.out = Q
      /\ x.status = tx[t].status /\ x.holds = tx[t].holds \cup Wants(t)
  <2> HIDE DEF Q, T
  <2> QED
    BY <1>1, <1>2 DEF TxState
<1> HIDE DEF x, O, Q, T
<1>7. Reached(x) = Reached(tx[t])
  <2> DEFINE w == [to |-> a, seq |-> next[a]]
  <2>0. w.to = a /\ Q = tx[t].out \cup {w}
    BY <1>4
  <2> HIDE DEF w
  <2>1. {o.to : o \in Q} = {o.to : o \in tx[t].out} \cup {a}
    BY <2>0
  <2> QED
    BY <1>6, <2>1, SMT DEF Reached, T
<1>8. x.pc \notin {"finish", "commit"} /\ tx[t].pc \in Sending
  BY <1>1, <1>6 DEF Sending
<1>9. LocksOK(x) /\ RevOK(x, stream)
  BY <1>1, <1>2, <1>6, <1>8 DEF FanOK, LocksOK, RevOK
<1>10. CoverOK(x, Effective(x.req.conv)) /\ AliveOK(x, message[Target(x.req)])
  BY <1>1, <1>2, <1>6, <1>7, <1>8 DEF FanOK, CoverOK, AliveOK
<1>11. AdvanceOK(x, message[Target(x.req)])
  BY <1>1, <1>2, <1>6, <1>7, <1>8 DEF FanOK, AdvanceOK
<1>12. FanOK(x)
  BY <1>9, <1>10, <1>11 DEF FanOK
<1> QED
  BY <1>1, <1>5, <1>12, FanMove

(* The end of the fan-out and of the send change only the statement. *)
LEMMA FanFinish ==
    ASSUME IInv, FInv, NEW t \in Tx, Enqueued(t) \/ Finish(t)
    PROVE  FInv'
<1>1. UNCHANGED <<tables, people>> /\ tx[t].pc \in {"enqueue", "finish"}
  BY DEF Enqueued, Finish
<1>2. tx[t] \in TxState /\ Wants(t) \in SUBSET Lock /\ TxOK(tx[t]) /\ FanOK(tx[t])
  <2>1. tx[t].pc # "idle"
    BY <1>1, SMT
  <2> QED
    BY <2>1, FanKnown
<1>3. CASE End(t)
  BY <1>1, <1>3, FanEnd
<1>4. ASSUME ~End(t) PROVE FInv'
  <2> DEFINE r == tx[t].req
             p == IF r.op \in Sends THEN "finish" ELSE "commit"
             c == (draft[r.conv][r.actor].body = r.body)
             x1 == [[tx[t] EXCEPT !.pc = p] EXCEPT !.holds = @ \cup Wants(t)]
             x2 == [[tx[t] EXCEPT !.pc = "commit", !.clear = c] EXCEPT !.holds = @ \cup Wants(t)]
  <2>1. \E x : /\ tx' = [tx EXCEPT ![t] = x] /\ x.pc \in {"finish", "commit"}
               /\ x.req = r /\ x.rev = tx[t].rev /\ x.out = tx[t].out /\ x.todo = tx[t].todo
               /\ x.status = tx[t].status /\ x.holds = tx[t].holds \cup Wants(t)
    <3>1. CASE Enqueued(t)
      <4>1. /\ x1.pc \in {"finish", "commit"}
            /\ x1.req = r /\ x1.rev = tx[t].rev /\ x1.out = tx[t].out /\ x1.todo = tx[t].todo
            /\ x1.status = tx[t].status /\ x1.holds = tx[t].holds \cup Wants(t)
        BY <1>2 DEF TxState
      <4>2. tx' = [tx EXCEPT ![t] = x1]
        BY <3>1 DEF Enqueued, Run
      <4> HIDE DEF x1
      <4> QED
        BY <4>1, <4>2
    <3>2. CASE Finish(t)
      <4>1. /\ x2.pc \in {"finish", "commit"}
            /\ x2.req = r /\ x2.rev = tx[t].rev /\ x2.out = tx[t].out /\ x2.todo = tx[t].todo
            /\ x2.status = tx[t].status /\ x2.holds = tx[t].holds \cup Wants(t)
        <5> HIDE DEF c
        <5> QED
          BY <1>2 DEF TxState
      <4>2. tx' = [tx EXCEPT ![t] = x2]
        BY <1>4, <3>2 DEF Finish, Run
      <4> HIDE DEF x2
      <4> QED
        BY <4>1, <4>2
    <3> QED
      BY <3>1, <3>2
  <2>2. PICK x : /\ tx' = [tx EXCEPT ![t] = x] /\ x.pc \in {"finish", "commit"}
                 /\ x.req = r /\ x.rev = tx[t].rev /\ x.out = tx[t].out /\ x.todo = tx[t].todo
                 /\ x.status = tx[t].status /\ x.holds = tx[t].holds \cup Wants(t)
    BY <2>1
  <2>3. tx[t].todo = {}
    <3>1. CASE Enqueued(t)
      BY <3>1 DEF Enqueued
    <3>2. CASE Finish(t)
      BY <1>2, <3>2 DEF Finish, FanOK, CoverOK
    <3> QED
      BY <3>1, <3>2
  <2>4. /\ x.pc \in Sending /\ tx[t].pc \in Sending
        /\ tx[t].pc # "idle" /\ tx[t].pc # "lock" /\ Reached(x) = Reached(tx[t])
    BY <1>1, <2>2, SMT DEF Sending, Reached
  <2>5. LocksOK(x) /\ RevOK(x, stream)
    BY <1>2, <2>2, <2>4 DEF FanOK, LocksOK, RevOK
  <2>6. CoverOK(x, Effective(x.req.conv)) /\ AliveOK(x, message[Target(x.req)])
    BY <1>2, <2>2, <2>3, <2>4 DEF FanOK, CoverOK, AliveOK
  <2>7. AdvanceOK(x, message[Target(x.req)])
    BY <1>2, <2>2, <2>4 DEF FanOK, AdvanceOK
  <2>8. FanOK(x)
    BY <2>5, <2>6, <2>7 DEF FanOK
  <2> QED
    BY <1>1, <2>2, <2>8, FanMove
<1> QED
  BY <1>3, <1>4

----------------------------------------------------------------------------
(* Commits *)

(* What a commit adds to the streams: events of its own message, at their ends. *)
LEMMA Delivered ==
    ASSUME IInv, FInv, NEW t \in Tx, tx[t].pc = "commit", Deliver(t), NEW a \in Account
    PROVE  /\ stream[a] \subseteq stream'[a]
           /\ \A e \in stream'[a] \ stream[a] :
                /\ a \in Reached(tx[t]) /\ e.msg = MsgOf(t) /\ e.rev = tx[t].rev
                /\ e.kind = IF tx[t].req.op \in Receipts THEN tx[t].status ELSE "message"
                /\ \A f \in stream[a] : f.seq < e.seq
           /\ a \in Reached(tx[t]) => next'[a] = next[a] + 1 /\
                \E e \in stream'[a] :
                  /\ e.msg = MsgOf(t) /\ e.rev = tx[t].rev
                  /\ e.kind = IF tx[t].req.op \in Receipts THEN tx[t].status ELSE "message"
<1>1. tx[t] \in TxState /\ TxOK(tx[t]) /\ FanOK(tx[t])
  BY FanKnown
<1>2. \A o \in tx[t].out : o.to \in Account /\ o.seq = next[o.to]
  BY <1>1 DEF TxOK, OutOK, TxState
<1>3. tx[t].todo = {}
  BY <1>1 DEF FanOK, CoverOK
<1>4. stream'[a] = stream[a] \cup {EventOf(t, o.seq) : o \in {x \in tx[t].out : x.to = a}}
  BY DEF Deliver
<1>5. ASSUME NEW n
      PROVE  /\ EventOf(t, n).seq = n /\ EventOf(t, n).msg = MsgOf(t) /\ EventOf(t, n).rev = tx[t].rev
             /\ EventOf(t, n).kind = IF tx[t].req.op \in Receipts THEN tx[t].status ELSE "message"
  BY DEF EventOf
<1>6. ASSUME NEW e \in stream'[a] \ stream[a]
      PROVE  a \in Reached(tx[t]) /\ e = EventOf(t, next[a])
  <2>1. PICK o \in tx[t].out : o.to = a /\ e = EventOf(t, o.seq)
    BY <1>4, <1>6
  <2> QED
    BY <1>2, <2>1 DEF Reached
<1>7. \A f \in stream[a] : f.seq < next[a]
  <2>1. \A f \in stream[a] : f.seq \in 1..(next[a] - 1)
    BY DEF IInv, StreamsContiguous
  <2>2. next[a] \in Nat
    BY DEF IInv, TypeOK
  <2> QED
    BY <2>1, <2>2, SMT
<1>8. ASSUME a \in Reached(tx[t])
      PROVE  next'[a] = next[a] + 1 /\ EventOf(t, next[a]) \in stream'[a]
  <2>1. PICK o \in tx[t].out : o.to = a
    BY <1>3, <1>8 DEF Reached
  <2>2. EventOf(t, o.seq) \in stream'[a] /\ o.seq = next[a]
    BY <1>2, <1>4, <2>1
  <2> QED
    BY <2>1, <2>2 DEF Deliver
<1>9. stream[a] \subseteq stream'[a]
  BY <1>4
<1>10. ASSUME NEW e \in stream'[a] \ stream[a]
       PROVE  /\ a \in Reached(tx[t]) /\ e.msg = MsgOf(t) /\ e.rev = tx[t].rev
              /\ e.kind = IF tx[t].req.op \in Receipts THEN tx[t].status ELSE "message"
              /\ \A f \in stream[a] : f.seq < e.seq
  BY ZenonT(40), <1>5, <1>6, <1>7, <1>10
<1>11. a \in Reached(tx[t]) => next'[a] = next[a] + 1 /\
         \E e \in stream'[a] :
           /\ e.msg = MsgOf(t) /\ e.rev = tx[t].rev
           /\ e.kind = IF tx[t].req.op \in Receipts THEN tx[t].status ELSE "message"
  BY <1>5, <1>8
<1> QED
  BY <1>9, <1>10, <1>11

(* The message of a commit is nobody else's: the others that name a message hold its row. *)
LEMMA Apart ==
    ASSUME IInv, FInv, NEW t \in Tx, tx[t].pc = "commit", NEW u \in Tx \ {t},
           tx[u].pc \notin {"idle", "lock"}, tx[u].req.op \notin Sends
    PROVE  Target(tx[u].req) # MsgOf(t) /\ Target(tx[u].req) \in MsgId
           /\ message[Target(tx[u].req)] # NoMessage
<1> DEFINE m == Target(tx[u].req)
<1>1. /\ TxOK(tx[t]) /\ FanOK(tx[t]) /\ tx[t].req \in Request
      /\ TxOK(tx[u]) /\ FanOK(tx[u]) /\ tx[u].req \in Request
  BY FanKnown
<1>2. Msg(m) \in tx[u].holds /\ message[m] # NoMessage
  BY <1>1 DEF TxOK, TargetOK, FanOK, LocksOK
<1>3. m \in MsgId
  BY SMT, <1>1, RequestAssumption DEF Target, MsgId
<1>4. CASE tx[t].req.op \in Sends
  <2>1. /\ MsgOf(t) = <<tx[t].req.conv, tx[t].seq>> /\ tx[t].seq \in 1..MaxMessages
        /\ tx[t].seq = nextSeq[tx[t].req.conv]
    BY <1>1, <1>4 DEF MsgOf, TxOK, TargetOK, Writing
  <2>2. tx[t].req.conv \in Conversation
    BY <1>1, RequestAssumption
  <2>3. ~(tx[t].seq < nextSeq[tx[t].req.conv])
    BY <2>1, SMT
  <2>4. message[MsgOf(t)] = NoMessage
    BY <2>1, <2>2, <2>3 DEF IInv, ConversationsContiguous
  <2> QED
    BY <1>2, <1>3, <2>4
<1>5. CASE tx[t].req.op \notin Sends
  <2>1. MsgOf(t) = Target(tx[t].req) /\ Msg(Target(tx[t].req)) \in tx[t].holds
    BY <1>1, <1>5 DEF MsgOf, FanOK, LocksOK
  <2>2. Msg(m) \notin tx[t].holds
    BY <1>2 DEF IInv, Exclusive
  <2> QED
    BY <1>2, <1>3, <2>1, <2>2
<1> QED
  BY <1>4, <1>5

(* So a commit disturbs no other transaction's view. *)
LEMMA FanOthers ==
    ASSUME IInv, FInv, NEW t \in Tx, tx[t].pc = "commit", Deliver(t), End(t), UNCHANGED people,
           \A m \in MsgId : m # MsgOf(t) => message'[m] = message[m],
           NEW u \in Tx
    PROVE  FanOK(tx[u])'
<1> DEFINE x == tx[u]
           m == Target(x.req)
<1>1. tx'[u] = IF u = t THEN Idle ELSE x
  BY DEF End, IInv, TypeOK
<1>2. CASE u = t \/ x.pc = "idle"
  <2>1. Idle.pc = "idle"
    BY DEF Idle
  <2>2. tx'[u].pc = "idle"
    BY <1>1, <1>2, <2>1
  <2> QED
    BY <2>2 DEF FanOK
<1>3. CASE u # t /\ x.pc # "idle"
  <2>1. tx'[u] = x /\ x.req \in Request /\ FanOK(x)
    BY <1>1, <1>3, FanKnown
  <2>2. \A k : Effective(k)' = Effective(k)
    BY DEF Effective, people
  <2>3. LocksOK(x) /\ CoverOK(x, Effective(x.req.conv)') /\ RevOK(x, stream)
        /\ AliveOK(x, message[m]) /\ AdvanceOK(x, message[m])
    BY <1>3, <2>1, <2>2 DEF FanOK
  <2>4. CASE x.pc \in Sending /\ x.req.op \notin Sends
    <3>1. x.pc \notin {"idle", "lock"}
      BY <2>4, SMT DEF Sending
    <3>2. m # MsgOf(t) /\ m \in MsgId
      BY <1>3, <2>4, <3>1, Apart
    <3>3. message'[m] = message[m]
      BY <3>2
    <3>4. RevOK(x, stream')
      <4> SUFFICES ASSUME x.req.op \in Revisals, NEW a \in Account, NEW e \in stream'[a],
                          e.msg = m, e.kind = "message"
                   PROVE  e.rev < x.rev
        BY <2>3 DEF RevOK
      <4>1. \A f \in stream'[a] \ stream[a] : f.msg = MsgOf(t)
        BY Delivered
      <4>2. e \in stream[a]
        BY <3>2, <4>1
      <4> QED
        BY <2>3, <2>4, <4>2 DEF RevOK
    <3> QED
      BY <1>3, <2>1, <2>3, <3>3, <3>4 DEF FanOK
  <2>5. CASE ~(x.pc \in Sending /\ x.req.op \notin Sends)
    <3>1. x.req.op \in Sends => x.req.op \notin Revisals /\ x.req.op \notin Receipts
      BY SMT DEF Sends, Revisals, Receipts
    <3>2. RevOK(x, stream')
      BY <2>3, <2>5, <3>1 DEF RevOK
    <3>3. AliveOK(x, message'[m]) /\ AdvanceOK(x, message'[m])
      BY <2>5, <3>1 DEF AliveOK, AdvanceOK
    <3> QED
      BY <1>3, <2>1, <2>3, <3>2, <3>3 DEF FanOK
  <2> QED
    BY <2>4, <2>5
<1> QED
  BY <1>2, <1>3

(* Events stay about stored messages, and nobody misses one, when messages are not lost. *)
LEMMA FanStored ==
    ASSUME IInv, FInv, NEW t \in Tx, tx[t].pc = "commit", Deliver(t),
           \A m \in MsgId : message[m] # NoMessage => message'[m] # NoMessage,
           message'[MsgOf(t)] # NoMessage
    PROVE  EventsStored'
<1> SUFFICES ASSUME NEW a \in Account, NEW e \in stream'[a] PROVE message'[e.msg] # NoMessage
  BY DEF EventsStored
<1>1. CASE e \in stream[a]
  <2>1. e \in Event /\ message[e.msg] # NoMessage
    BY <1>1 DEF FInv, EventsStored, IInv, TypeOK
  <2>2. e.msg \in MsgId
    BY <2>1 DEF Event
  <2> QED
    BY <2>1, <2>2
<1>2. CASE e \notin stream[a]
  <2>1. e.msg = MsgOf(t)
    BY <1>2, Delivered
  <2> QED
    BY <2>1
<1> QED
  BY <1>1, <1>2

(* Nobody misses the message of a commit: its fan-out reached whoever takes part now. *)
LEMMA FanNotMissed ==
    ASSUME IInv, FInv, NEW t \in Tx, tx[t].pc = "commit", Deliver(t), UNCHANGED people,
           \A m \in MsgId : message'[m] # NoMessage => message[m] # NoMessage \/
              (m = MsgOf(t) /\ tx[t].req.op \in Sends)
    PROVE  NoMissedMessage'
<1> SUFFICES ASSUME NEW c \in Conversation, NEW n \in 1..MaxMessages,
                    message'[<<c, n>>] # NoMessage, NEW a \in Effective(c), since[c][a] <= n
             PROVE  \E e \in stream'[a] : e.msg = <<c, n>> /\ e.kind = "message" /\ e.rev = 1
  BY ZenonT(40) DEF NoMissedMessage, Effective, people
<1>1. <<c, n>> \in MsgId /\ a \in Account
  BY EffectiveTyped DEF MsgId
<1>2. CASE message[<<c, n>>] # NoMessage
  <2>1. PICK e \in stream[a] : e.msg = <<c, n>> /\ e.kind = "message" /\ e.rev = 1
    BY <1>2 DEF FInv, NoMissedMessage
  <2>2. e \in stream'[a]
    BY <1>1, Delivered
  <2> QED
    BY <2>1, <2>2
<1>3. CASE message[<<c, n>>] = NoMessage
  <2>1. <<c, n>> = MsgOf(t) /\ tx[t].req.op \in Sends
    BY <1>1, <1>3
  <2>2. FanOK(tx[t])
    BY FanKnown
  <2>3. c = tx[t].req.conv
    BY <2>1, SMT DEF MsgOf
  <2>4. tx[t].req.op \notin Receipts
    BY <2>1, SMT DEF Sends, Receipts
  <2>5. a \in Reached(tx[t]) /\ tx[t].rev = 1
    BY <2>1, <2>2, <2>3, <2>4 DEF FanOK, CoverOK, RevOK, Sending
  <2>6. PICK e \in stream'[a] :
          /\ e.msg = MsgOf(t) /\ e.rev = tx[t].rev
          /\ e.kind = IF tx[t].req.op \in Receipts THEN tx[t].status ELSE "message"
    BY <1>1, <2>5, Delivered
  <2> QED
    BY <2>1, <2>4, <2>5, <2>6
<1> QED
  BY <1>2, <1>3

(* A fan-out of content adds nothing to the status story of message m. *)
LEMMA SameStory ==
    ASSUME IInv, FInv, NEW t \in Tx, tx[t].pc = "commit", Deliver(t), NEW m \in MsgId,
           NEW a \in Account, tx[t].req.op \notin Receipts \/ m # MsgOf(t),
           NEW k \in {"delivered", "read"}
    PROVE  Told(stream'[a], m, k) = Told(stream[a], m, k)
<1>1. k # "message"
  BY SMT
<1>2. ASSUME NEW e \in stream'[a], e.msg = m, e.kind = k PROVE e \in stream[a]
  BY <1>1, <1>2, Delivered
<1>3. stream[a] \subseteq stream'[a]
  BY Delivered
<1> QED
  BY <1>2, <1>3 DEF Told

(* So the story of a message whose status and sender stay is still the right one. *)
LEMMA SameStoryOK ==
    ASSUME IInv, FInv, NEW t \in Tx, tx[t].pc = "commit", Deliver(t), NEW m \in MsgId,
           message[m] # NoMessage, tx[t].req.op \notin Receipts \/ m # MsgOf(t),
           message'[m].status = message[m].status, message'[m].sender = message[m].sender
    PROVE  StoryOK(m, message'[m].status, stream'[message'[m].sender])
<1> DEFINE a == message[m].sender
           s == message[m].status
<1>1. a \in Account /\ s \in Status
  BY DEF IInv, TypeOK, Row
<1>2. StoryOK(m, s, stream[a])
  BY DEF FInv, Stories
<1>3. /\ Told(stream'[a], m, "delivered") = Told(stream[a], m, "delivered")
      /\ Told(stream'[a], m, "read") = Told(stream[a], m, "read")
  BY <1>1, SameStory
<1>4. s # "sent" => Told(stream'[a], m, s) = Told(stream[a], m, s)
  BY <1>1, <1>3 DEF Status
<1>5. StoryOK(m, s, stream'[a])
  BY <1>2, <1>3, <1>4 DEF StoryOK
<1> QED
  BY <1>5

(* The commit of a send: the message is new, so its story is empty. *)
LEMMA FanSend ==
    ASSUME IInv, FInv, NEW t \in Tx, CommitSend(t)
    PROVE  FInv'
<1> DEFINE r == tx[t].req
           m == MsgOf(t)
           row == [sender |-> r.actor, key |-> r.key, body |-> r.body, status |-> "sent",
                   edits |-> 0, deleted |-> FALSE]
<1>1. /\ tx[t].pc = "commit" /\ r.op \in Sends /\ r.op \notin Receipts
      /\ Deliver(t) /\ End(t) /\ UNCHANGED people /\ message' = [message EXCEPT ![m] = row]
  <2>1. r.op \in Sends => r.op \notin Receipts
    BY SMT DEF Sends, Receipts
  <2> QED
    BY <2>1 DEF CommitSend
<1>2. TxOK(tx[t]) /\ r \in Request /\ r.actor \in Account /\ r.conv \in Conversation
  BY <1>1, FanKnown, RequestAssumption
<1>3. IInv'
  BY CommitSendStep
<1>4. m = <<r.conv, tx[t].seq>> /\ m \in MsgId /\ tx[t].seq = nextSeq[r.conv] /\ tx[t].seq \in 1..MaxMessages
  BY <1>1, <1>2 DEF MsgOf, TxOK, TargetOK, Writing, MsgId
<1>5. message[m] = NoMessage
  <2>1. ~(tx[t].seq < nextSeq[r.conv])
    BY <1>4, SMT
  <2> QED
    BY <1>2, <1>4, <2>1 DEF IInv, ConversationsContiguous
<1>6. row.status = "sent" /\ row.sender = r.actor
  OBVIOUS
<1>7. row # NoMessage
  <2>1. r.key \in Key /\ r.body \in Body
    BY <1>1, <1>2, RequestAssumption DEF Sends
  <2>2. row \in Row
    BY <1>2, <2>1 DEF Row, Status
  <2> HIDE DEF row
  <2> QED
    BY <2>2, ConstantsAssumption
<1> HIDE DEF row, m
<1>8. \A k \in MsgId : message'[k] = IF k = m THEN row ELSE message[k]
  BY <1>1, <1>4 DEF IInv, TypeOK
<1>9. EventsStored'
  <2>1. message'[MsgOf(t)] # NoMessage
    BY <1>4, <1>7, <1>8 DEF m
  <2>2. \A k \in MsgId : message[k] # NoMessage => message'[k] # NoMessage
    BY <1>7, <1>8
  <2> QED
    BY <1>1, <2>1, <2>2, FanStored
<1>10. NoMissedMessage'
  <2>1. \A k \in MsgId : message'[k] # NoMessage => message[k] # NoMessage \/
          (k = MsgOf(t) /\ tx[t].req.op \in Sends)
    BY <1>1, <1>8 DEF m
  <2> QED
    BY <1>1, <2>1, FanNotMissed
<1>11. ASSUME NEW k \in MsgId, message'[k] # NoMessage
       PROVE  StoryOK(k, message'[k].status, stream'[message'[k].sender])
  <2>1. CASE k = m
    <3>1. message'[k].status = "sent" /\ message'[k].sender = r.actor
      BY <1>4, <1>6, <1>8, <2>1
    <3>2. ASSUME NEW e \in stream[r.actor] PROVE e.msg # k
      <4>1. message[e.msg] # NoMessage
        BY <1>2, <3>2 DEF FInv, EventsStored
      <4> QED
        BY <1>5, <2>1, <4>1
    <3>3. /\ Told(stream'[r.actor], k, "delivered") = {} /\ Told(stream'[r.actor], k, "read") = {}
      <4>1. /\ Told(stream[r.actor], k, "delivered") = {} /\ Told(stream[r.actor], k, "read") = {}
        BY <3>2 DEF Told
      <4> QED
        BY <1>1, <1>2, <4>1, SameStory
    <3> QED
      BY <3>1, <3>3 DEF StoryOK
  <2>2. CASE k # m
    <3>1. message'[k] = message[k]
      BY <1>8, <2>2
    <3> QED
      BY <1>1, <1>11, <3>1, SameStoryOK
  <2> QED
    BY <2>1, <2>2
<1>12. Stories'
  BY <1>11 DEF Stories
<1>13. \A u \in Tx : FanOK(tx[u])'
  <2>1. \A k \in MsgId : k # MsgOf(t) => message'[k] = message[k]
    BY <1>8 DEF m
  <2> QED
    BY <1>1, <2>1, FanOthers
<1> QED
  BY <1>9, <1>10, <1>12, <1>13 DEF FInv

(* What the commit of a revision or a receipt does to its message and to no other. *)
LEMMA FanRevision ==
    ASSUME IInv, FInv, NEW t \in Tx, CommitRevision(t)
    PROVE  FInv'
<1> DEFINE r == tx[t].req
           m == Target(r)
           row == Revised(message[m], r)
<1>1. /\ tx[t].pc = "commit" /\ r.op \in Revisals /\ r.op \notin Receipts /\ r.op \notin Sends
      /\ Deliver(t) /\ End(t) /\ UNCHANGED people /\ message' = [message EXCEPT ![m] = row]
  <2>1. r.op \in Revisals => r.op \notin Receipts /\ r.op \notin Sends
    BY SMT DEF Sends, Receipts, Revisals
  <2> QED
    BY <2>1 DEF CommitRevision
<1>2. TxOK(tx[t]) /\ r \in Request
  BY <1>1, FanKnown
<1>3. MsgOf(t) = m /\ m \in MsgId /\ message[m] # NoMessage /\ message[m] \in Row
  <2>1. MsgOf(t) = m /\ message[m] # NoMessage
    BY <1>1, <1>2 DEF MsgOf, TxOK, TargetOK
  <2>2. m \in MsgId
    BY SMT, <1>1, <1>2, RequestAssumption DEF Target, MsgId
  <2> QED
    BY <2>1, <2>2 DEF IInv, TypeOK
<1>4. row.status = message[m].status /\ row.sender = message[m].sender
  <2> DEFINE y == message[m]
             b == r.body
             n == y.edits + 1
  <2>1. y \in Row
    BY <1>3
  <2>2. row = (IF r.op = "edit" THEN [y EXCEPT !.body = b, !.edits = n] ELSE [y EXCEPT !.deleted = TRUE])
    BY DEF Revised
  <2> HIDE DEF y, b, n, row
  <2>3. row.status = y.status /\ row.sender = y.sender
    BY <2>1, <2>2 DEF Row
  <2> QED
    BY <2>3 DEF y
<1> HIDE DEF row, m
<1>5. \A k \in MsgId : message'[k] = IF k = m THEN row ELSE message[k]
  BY <1>1, <1>3 DEF IInv, TypeOK
<1>6. row # NoMessage
  <2>1. IInv'
    BY CommitRevisionStep
  <2> DEFINE rec == [actor |-> r.actor, op |-> r.op, key |-> r.key, hash |-> Hash(r), msg |-> MsgOf(t)]
  <2>2. rec \in idem'
    BY DEF CommitRevision, Complete
  <2>3. rec.msg = m
    BY <1>3
  <2>4. \A i \in idem' : message'[i.msg] # NoMessage
    BY <2>1 DEF IInv, RecordsOK
  <2> HIDE DEF rec
  <2>5. message'[m] # NoMessage
    BY <2>2, <2>3, <2>4
  <2> QED
    BY <1>3, <1>5, <2>5
<1>7. EventsStored'
  <2>1. message'[MsgOf(t)] # NoMessage /\ \A k \in MsgId : message[k] # NoMessage => message'[k] # NoMessage
    BY <1>3, <1>5, <1>6
  <2> QED
    BY <1>1, <2>1, FanStored
<1>8. NoMissedMessage'
  <2>1. \A k \in MsgId : message'[k] # NoMessage => message[k] # NoMessage
    BY <1>3, <1>5
  <2> QED
    BY <1>1, <2>1, FanNotMissed
<1>9. ASSUME NEW k \in MsgId, message'[k] # NoMessage
      PROVE  StoryOK(k, message'[k].status, stream'[message'[k].sender])
  <2>1. message[k] # NoMessage /\ message'[k].status = message[k].status /\ message'[k].sender = message[k].sender
    BY <1>3, <1>4, <1>5, <1>9
  <2> QED
    BY <1>1, <2>1, SameStoryOK
<1>10. Stories'
  BY <1>9 DEF Stories
<1>11. \A u \in Tx : FanOK(tx[u])'
  <2>1. \A k \in MsgId : k # MsgOf(t) => message'[k] = message[k]
    BY <1>3, <1>5
  <2> QED
    BY <1>1, <2>1, FanOthers
<1> QED
  BY <1>7, <1>8, <1>10, <1>11 DEF FInv

(* The commit of a receipt announces the advance, after every earlier announcement. *)
LEMMA FanReceiptCommit ==
    ASSUME IInv, FInv, NEW t \in Tx, CommitReceipt(t)
    PROVE  FInv'
<1> DEFINE r == tx[t].req
           m == Target(r)
           old == message[m]
           new == tx[t].status
           row == [old EXCEPT !.status = new]
<1>1. /\ tx[t].pc = "commit" /\ r.op \in Receipts /\ r.op \notin Sends
      /\ Deliver(t) /\ End(t) /\ UNCHANGED people /\ message' = [message EXCEPT ![m] = row]
  <2>1. r.op \in Receipts => r.op \notin Sends
    BY SMT DEF Sends, Receipts
  <2> QED
    BY <2>1 DEF CommitReceipt, client
<1>2. TxOK(tx[t]) /\ r \in Request /\ tx[t] \in TxState /\ FanOK(tx[t])
  BY <1>1, FanKnown
<1>3. MsgOf(t) = m /\ m \in MsgId /\ old # NoMessage /\ old \in Row /\ new \in Status
  <2>1. MsgOf(t) = m /\ old # NoMessage
    BY <1>1, <1>2 DEF MsgOf, TxOK, TargetOK
  <2>2. m \in MsgId
    BY SMT, <1>1, <1>2, RequestAssumption DEF Target, MsgId
  <2>3. new \in Status
    BY <1>2 DEF TxState
  <2> QED
    BY <2>1, <2>2, <2>3 DEF IInv, TypeOK
<1>4. row \in Row /\ row.status = new /\ row.sender = old.sender
  <2> HIDE DEF old, new
  <2> QED
    BY <1>3 DEF Row
<1>5. row # NoMessage /\ old.sender \in Account
  <2> HIDE DEF row, old
  <2> QED
    BY <1>3, <1>4, ConstantsAssumption DEF Row
<1>6. \/ new = old.status /\ Reached(tx[t]) = {}
      \/ Advances(old.status, new) /\ Reached(tx[t]) = {old.sender}
  BY <1>1, <1>2 DEF FanOK, AdvanceOK, Sending
<1> HIDE DEF row, m
<1>7. \A k \in MsgId : message'[k] = IF k = m THEN row ELSE message[k]
  BY <1>1, <1>3 DEF IInv, TypeOK
<1>8. EventsStored'
  <2>1. message'[MsgOf(t)] # NoMessage /\ \A k \in MsgId : message[k] # NoMessage => message'[k] # NoMessage
    BY <1>3, <1>5, <1>7
  <2> QED
    BY <1>1, <2>1, FanStored
<1>9. NoMissedMessage'
  <2>1. \A k \in MsgId : message'[k] # NoMessage => message[k] # NoMessage
    BY <1>3, <1>7
  <2> QED
    BY <1>1, <2>1, FanNotMissed
<1>10. StoryOK(m, new, stream'[old.sender])
  <2> DEFINE a == old.sender
             s == stream[a]
             z == stream'[a]
  <2>1. StoryOK(m, old.status, s)
    BY <1>3 DEF FInv, Stories
  <2>2. CASE new = old.status /\ Reached(tx[t]) = {}
    <3>1. z = s
      BY ZenonT(40), <1>1, <1>5, <2>2, Delivered
    <3> QED
      BY <2>1, <2>2, <3>1
  <2>3. CASE Advances(old.status, new) /\ Reached(tx[t]) = {a}
    <3>1. /\ s \subseteq z
          /\ \A e \in z \ s : e.msg = m /\ e.kind = new /\ \A f \in s : f.seq < e.seq
          /\ \E e \in z : e.msg = m /\ e.kind = new
      <4>1. a \in Account /\ a \in Reached(tx[t])
        BY <1>5, <2>3
      <4>2. s \subseteq z
        BY <1>1, <4>1, Delivered
      <4>3. \A e \in z \ s : e.msg = m /\ e.kind = new /\ \A f \in s : f.seq < e.seq
        <5> HIDE DEF a
        <5>1. \A e \in stream'[a] \ stream[a] :
                /\ e.msg = MsgOf(t)
                /\ e.kind = IF tx[t].req.op \in Receipts THEN tx[t].status ELSE "message"
                /\ \A f \in stream[a] : f.seq < e.seq
          BY ZenonT(40), <1>1, <4>1, Delivered
        <5> QED
          BY <1>1, <1>3, <5>1
      <4>4. \E e \in z : e.msg = m /\ e.kind = new
        BY ZenonT(40), <1>1, <1>3, <4>1, Delivered
      <4> QED
        BY <4>2, <4>3, <4>4
    <3>2. new \in {"delivered", "read"} /\ new # "sent"
      BY <2>3, SMT DEF Advances
    <3>3. Told(z, m, new) # {}
      BY <3>1 DEF Told
    <3>4. Told(s, m, "read") = {}
      <4>1. old.status # "read"
        BY <2>3, SMT DEF Advances
      <4> QED
        BY <2>1, <4>1 DEF StoryOK
    <3>5. CASE new = "read"
      <4>1. "read" # "sent" /\ "read" # "delivered"
        BY SMT
      <4>2. Told(z, m, "delivered") = Told(s, m, "delivered")
        BY <3>1, <3>5, <4>1 DEF Told
      <4>3. \A q \in Told(z, m, "read") : q \in z \ s
        BY <3>4 DEF Told
      <4>4. \A d \in Told(z, m, "delivered"), q \in Told(z, m, "read") : d.seq < q.seq
        BY <3>1, <4>2, <4>3 DEF Told
      <4> QED
        BY <3>3, <3>5, <4>1, <4>4 DEF StoryOK
    <3>6. CASE new = "delivered"
      <4>1. "delivered" # "sent" /\ "read" # "delivered"
        BY SMT
      <4>2. Told(z, m, "read") = {}
        BY <3>1, <3>4, <3>6, <4>1 DEF Told
      <4> QED
        BY <3>3, <3>6, <4>1, <4>2 DEF StoryOK
    <3> QED
      BY <3>2, <3>5, <3>6
  <2> QED
    BY <1>6, <2>2, <2>3
<1>11. ASSUME NEW k \in MsgId, message'[k] # NoMessage
       PROVE  StoryOK(k, message'[k].status, stream'[message'[k].sender])
  <2>1. CASE k = m
    BY <1>3, <1>4, <1>7, <1>10, <2>1
  <2>2. CASE k # m
    <3>1. message'[k] = message[k]
      BY <1>7, <2>2
    <3> QED
      BY <1>1, <1>3, <1>11, <2>2, <3>1, SameStoryOK
  <2> QED
    BY <2>1, <2>2
<1>12. Stories'
  BY <1>11 DEF Stories
<1>13. \A u \in Tx : FanOK(tx[u])'
  <2>1. \A k \in MsgId : k # MsgOf(t) => message'[k] = message[k]
    BY <1>3, <1>7
  <2> QED
    BY <1>1, <2>1, FanOthers
<1> QED
  BY <1>8, <1>9, <1>12, <1>13 DEF FInv

----------------------------------------------------------------------------
(* What happens around message acceptance *)

(* A change of who takes part, with the tables of messages left alone. *)
LEMMA FanPeople ==
    ASSUME IInv, FInv, UNCHANGED <<message, stream, tx>>,
           \A c \in Conversation : \A a \in Effective(c)' :
              \/ a \in Effective(c) /\ since'[c][a] = since[c][a]
              \/ Unlocked(Conv(c)) /\ since'[c][a] = nextSeq[c]
    PROVE  FInv'
<1>1. EventsStored' /\ Stories'
  BY DEF FInv, EventsStored, Stories
<1>2. NoMissedMessage'
  <2> SUFFICES ASSUME NEW c \in Conversation, NEW n \in 1..MaxMessages, message'[<<c, n>>] # NoMessage,
                      NEW a \in Effective(c)', since'[c][a] <= n
               PROVE  \E e \in stream'[a] : e.msg = <<c, n>> /\ e.kind = "message" /\ e.rev = 1
    BY DEF NoMissedMessage
  <2>1. message[<<c, n>>] # NoMessage
    OBVIOUS
  <2>2. n < nextSeq[c] /\ n \in Nat /\ nextSeq[c] \in Nat
    <3>1. n < nextSeq[c] /\ nextSeq[c] \in 1..(MaxMessages + 1)
      BY <2>1 DEF IInv, ConversationsContiguous, TypeOK
    <3> QED
      BY <3>1, ConstantsAssumption, SMT
  <2>3. since'[c][a] # nextSeq[c]
    BY <2>2, SMT
  <2>4. a \in Effective(c) /\ since'[c][a] = since[c][a]
    BY <2>3
  <2>5. \E e \in stream[a] : e.msg = <<c, n>> /\ e.kind = "message" /\ e.rev = 1
    BY <2>1, <2>4 DEF FInv, NoMissedMessage
  <2> QED
    BY <2>5
<1>3. ASSUME NEW t \in Tx PROVE FanOK(tx[t])'
  <2> DEFINE x == tx[t]
             c == x.req.conv
  <2>1. CASE x.pc = "idle"
    BY <2>1 DEF FanOK
  <2>2. CASE x.pc # "idle"
    <3>1. x.req \in Request /\ FanOK(x) /\ c \in Conversation
      BY <2>2, FanKnown, RequestAssumption
    <3>2. CoverOK(x, Effective(c)')
      <4>1. CASE x.req.op \notin Receipts /\ x.pc \in Sending
        <5>1. ~Unlocked(Conv(c))
          BY <2>2, <3>1, <4>1 DEF FanOK, LocksOK, Unlocked
        <5>2. Effective(c)' \subseteq Effective(c)
          BY <3>1, <5>1
        <5> QED
          BY <2>2, <3>1, <5>2 DEF FanOK, CoverOK
      <4>2. CASE ~(x.req.op \notin Receipts /\ x.pc \in Sending)
        BY <2>2, <3>1, <4>2 DEF FanOK, CoverOK
      <4> QED
        BY <4>1, <4>2
    <3>3. LocksOK(x) /\ RevOK(x, stream) /\ AliveOK(x, message[Target(x.req)])
          /\ AdvanceOK(x, message[Target(x.req)])
      BY <2>2, <3>1 DEF FanOK
    <3> QED
      BY <3>2, <3>3 DEF FanOK
  <2> QED
    BY <2>1, <2>2
<1> QED
  BY <1>1, <1>2, <1>3 DEF FInv

(* Joining takes the conversation's lock; leaving only takes somebody away. *)
LEMMA FanAround ==
    ASSUME IInv, FInv, NEW c0 \in Conversation, NEW a0 \in Account,
           \/ Join(c0, a0) \/ Leave(c0, a0) \/ DeleteDraft(c0, a0)
           \/ \E v \in 0..MaxDraft, b \in Body : PutDraft(c0, a0, v, b)
    PROVE  FInv'
<1>1. joined \in [Conversation -> SUBSET Account] /\ since \in [Conversation -> [Account -> 1..(MaxMessages + 1)]]
  BY DEF IInv, TypeOK
<1>2. CASE Join(c0, a0)
  <2>1. /\ UNCHANGED <<message, stream, tx, deleted>> /\ Unlocked(Conv(c0))
        /\ joined' = [joined EXCEPT ![c0] = @ \cup {a0}]
        /\ since' = [since EXCEPT ![c0][a0] = nextSeq[c0]]
    BY <1>2 DEF Join, tables
  <2>2. ASSUME NEW c \in Conversation, NEW a \in Account
        PROVE  since'[c][a] = IF c = c0 /\ a = a0 THEN nextSeq[c0] ELSE since[c][a]
    BY <1>1, <2>1, SMT
  <2>3. ASSUME NEW c \in Conversation, NEW a \in Effective(c)'
        PROVE  \/ a \in Effective(c) /\ since'[c][a] = since[c][a]
               \/ Unlocked(Conv(c)) /\ since'[c][a] = nextSeq[c]
    <3>1. a \in joined'[c] /\ a \notin deleted
      BY <2>1, <2>3 DEF Effective
    <3>2. joined'[c] = IF c = c0 THEN joined[c] \cup {a0} ELSE joined[c]
      BY <1>1, <2>1
    <3>3. a \in Account
      BY <1>1, <3>1, <3>2
    <3>4. CASE c = c0 /\ a = a0
      BY ZenonT(40), <2>1, <2>2, <3>3, <3>4
    <3>5. CASE ~(c = c0 /\ a = a0)
      BY ZenonT(40), <2>2, <3>1, <3>2, <3>3, <3>5 DEF Effective
    <3> QED
      BY <3>4, <3>5
  <2> QED
    BY <2>1, <2>3, FanPeople
<1>3. CASE ~Join(c0, a0)
  <2>1. /\ UNCHANGED <<message, stream, tx, since>>
        /\ \A c \in Conversation : Effective(c)' \subseteq Effective(c)
    <3>1. CASE Leave(c0, a0)
      <4>1. UNCHANGED <<message, stream, tx, since, deleted>> /\ joined' = [joined EXCEPT ![c0] = @ \ {a0}]
        BY <3>1 DEF Leave, tables
      <4>2. \A c \in Conversation : joined'[c] = IF c = c0 THEN joined[c] \ {a0} ELSE joined[c]
        BY <1>1, <4>1
      <4>3. \A c \in Conversation : joined'[c] \subseteq joined[c]
        BY <4>2
      <4>4. \A c \in Conversation : Effective(c)' \subseteq Effective(c)
        BY <4>1, <4>3 DEF Effective
      <4> QED
        BY <4>1, <4>4
    <3>3. ASSUME NEW d, SetDraft(c0, a0, d)
          PROVE  /\ UNCHANGED <<message, stream, tx, since>>
                 /\ \A c \in Conversation : Effective(c)' \subseteq Effective(c)
      BY <3>3 DEF SetDraft, people, Effective
    <3>4. CASE DeleteDraft(c0, a0)
      BY <3>3, <3>4 DEF DeleteDraft
    <3>5. ASSUME NEW v \in 0..MaxDraft, NEW b \in Body, PutDraft(c0, a0, v, b)
          PROVE  /\ UNCHANGED <<message, stream, tx, since>>
                 /\ \A c \in Conversation : Effective(c)' \subseteq Effective(c)
      BY <3>3, <3>5 DEF PutDraft
    <3> QED
      BY <1>3, <3>1, <3>4, <3>5
  <2> QED
    BY <2>1, FanPeople
<1> QED
  BY <1>2, <1>3

(* A deleted account takes part in nothing, and takes nobody's message with it. *)
LEMMA FanDelete ==
    ASSUME IInv, FInv, NEW a0 \in Account, DeleteAccount(a0)
    PROVE  FInv'
<1>1. /\ UNCHANGED <<message, stream, tx, since>> /\ deleted' = deleted \cup {a0}
      /\ \A c \in Conversation : joined'[c] = IF c \in Direct THEN joined[c] ELSE joined[c] \ {a0}
  BY DEF DeleteAccount
<1>2. \A c \in Conversation : Effective(c)' \subseteq Effective(c)
  BY <1>1 DEF Effective
<1> QED
  BY <1>1, <1>2, FanPeople

----------------------------------------------------------------------------
(* What a statement does to its transaction *)

(* A statement of transaction t leaves it at x: before the fan-out, in the fan-out with    *)
(* the same content, or at its beginning with what it has just read.                       *)
Moved(t, x) ==
    /\ x.req = tx[t].req
    /\ \/ x.pc \notin Sending
       \/ /\ tx[t].pc \in Sending
          /\ x.rev = tx[t].rev /\ x.status = tx[t].status /\ Reached(x) \subseteq Reached(tx[t])
       \/ x.req.op \in Sends
       \/ /\ x.req.op \in Revisals
          /\ \E n \in Revisions(Target(x.req)) :
               (\A k \in Revisions(Target(x.req)) : k <= n) /\ x.rev = n + 1
          /\ Reached(x) = Effective(x.req.conv)
       \/ /\ x.req.op \in Receipts
          /\ x.status = Aggregate(Upsert(receipts, x.req), Target(x.req))

(* The statements before the fan-out. *)
LEMMA EarlyMoves ==
    ASSUME IInv, FInv, NEW t \in Tx, LockMessage(t) \/ Refresh(t) \/ Claim(t) \/ Insert(t), ~End(t)
    PROVE  \E x : tx' = [tx EXCEPT ![t] = x] /\ Moved(t, x)
<1> DEFINE n == nextSeq[tx[t].req.conv]
           p1 == IF tx[t].req.op \in Receipts THEN "receipt" ELSE "refresh"
           p2 == IF tx[t].req.op \in Sends THEN "insert" ELSE "revise"
           x(p) == [[tx[t] EXCEPT !.pc = p] EXCEPT !.holds = @ \cup Wants(t)]
           y == [[tx[t] EXCEPT !.pc = "reply", !.seq = n, !.rev = 1] EXCEPT !.holds = @ \cup Wants(t)]
<1>1. tx[t].pc # "idle"
  BY DEF LockMessage, Refresh, Claim, Insert
<1>2. tx[t] \in TxState
  BY <1>1, FanKnown
<1>3. {"receipt", "refresh", "claim", "insert", "revise", "reply"} \cap Sending = {}
  BY SMT DEF Sending
<1>4. ASSUME NEW p \in {"receipt", "refresh", "claim", "insert", "revise"},
             tx' = [tx EXCEPT ![t] = x(p)]
      PROVE  \E z : tx' = [tx EXCEPT ![t] = z] /\ Moved(t, z)
  <2>1. x(p).req = tx[t].req /\ x(p).pc = p
    BY <1>2 DEF TxState
  <2>2. Moved(t, x(p))
    BY <1>3, <1>4, <2>1 DEF Moved
  <2> QED
    BY <1>4, <2>2
<1>5. CASE LockMessage(t)
  <2>1. tx' = [tx EXCEPT ![t] = x(p1)]
    BY <1>5 DEF LockMessage, Run
  <2> QED
    BY <1>4, <2>1
<1>6. CASE Refresh(t)
  <2>1. tx' = [tx EXCEPT ![t] = x("claim")]
    BY <1>6 DEF Refresh, Run
  <2> QED
    BY <1>4, <2>1
<1>7. CASE Claim(t)
  <2>1. tx' = [tx EXCEPT ![t] = x(p2)]
    BY <1>7 DEF Claim, Run
  <2> QED
    BY <1>4, <2>1
<1>8. CASE Insert(t)
  <2>1. tx' = [tx EXCEPT ![t] = y]
    BY <1>8 DEF Insert, Run
  <2>2. y.req = tx[t].req /\ y.pc = "reply"
    <3> HIDE DEF n
    <3> QED
      BY <1>2 DEF TxState
  <2> HIDE DEF y
  <2>3. Moved(t, y)
    BY <1>3, <2>2 DEF Moved
  <2> QED
    BY <2>1, <2>3
<1> QED
  BY <1>5, <1>6, <1>7, <1>8

(* The statements that decide what is delivered. *)
LEMMA DecidingMoves ==
    ASSUME IInv, FInv, NEW t \in Tx, Reply(t) \/ Revise(t) \/ Receipt(t), ~End(t)
    PROVE  \E x : tx' = [tx EXCEPT ![t] = x] /\ Moved(t, x)
<1> DEFINE r == tx[t].req
           m == Target(r)
           E == Effective(r.conv)
           new == Aggregate(Upsert(receipts, r), m)
           p == IF new # message[m].status THEN "enqueue" ELSE "commit"
           D == IF new # message[m].status THEN {message[m].sender} ELSE {}
           x1 == [[tx[t] EXCEPT !.pc = "enqueue", !.todo = E] EXCEPT !.holds = @ \cup Wants(t)]
           x2(v) == [[tx[t] EXCEPT !.pc = "enqueue", !.rev = v, !.todo = E] EXCEPT !.holds = @ \cup Wants(t)]
           x3 == [[tx[t] EXCEPT !.status = new, !.pc = p, !.todo = D] EXCEPT !.holds = @ \cup Wants(t)]
<1>1. tx[t].pc \in {"reply", "revise", "receipt"}
  BY DEF Reply, Revise, Receipt
<1>2. tx[t].pc # "idle" /\ tx[t].pc \notin {"enqueue", "finish", "commit"}
  BY <1>1, SMT
<1>3. tx[t] \in TxState /\ TxOK(tx[t])
  BY <1>2, FanKnown
<1>4. CASE Reply(t)
  <2>1. tx' = [tx EXCEPT ![t] = x1]
    BY <1>4 DEF Reply, Run
  <2>2. x1.req = r
    <3> HIDE DEF E
    <3> QED
      BY <1>3 DEF TxState
  <2>3. r.op \in Sends
    BY <1>2, <1>3, <1>4 DEF Reply, TxOK, PhaseOK
  <2> HIDE DEF x1
  <2>4. Moved(t, x1)
    BY <2>2, <2>3 DEF Moved
  <2> QED
    BY <2>1, <2>4
<1>5. CASE Revise(t)
  <2>1. PICK n \in Revisions(m) : (\A k \in Revisions(m) : k <= n) /\ tx' = [tx EXCEPT ![t] = x2(n + 1)]
    BY <1>5 DEF Revise, Run
  <2> DEFINE v == n + 1
             x == x2(v)
  <2>2. tx' = [tx EXCEPT ![t] = x]
    BY <2>1
  <2>3. x.req = r /\ x.rev = v /\ x.todo = E /\ x.out = tx[t].out
    <3> HIDE DEF E, v
    <3> QED
      BY <1>3 DEF TxState
  <2>4. r.op \in Revisals /\ tx[t].out = {}
    BY <1>2, <1>3, <1>5 DEF Revise, TxOK, PhaseOK, OutOK
  <2> HIDE DEF x
  <2>5. Reached(x) = E
    BY <2>3, <2>4 DEF Reached
  <2>6. Moved(t, x)
    BY <2>1, <2>3, <2>4, <2>5 DEF Moved
  <2> QED
    BY <2>2, <2>6
<1>6. CASE Receipt(t)
  <2>1. tx' = [tx EXCEPT ![t] = x3]
    BY <1>6 DEF Receipt, Run
  <2>2. x3.req = r /\ x3.status = new
    <3> HIDE DEF new, p, D
    <3> QED
      BY <1>3 DEF TxState
  <2>3. r.op \in Receipts
    BY <1>2, <1>3, <1>6 DEF Receipt, TxOK, PhaseOK
  <2> HIDE DEF x3
  <2>4. Moved(t, x3)
    BY <2>2, <2>3 DEF Moved
  <2> QED
    BY <2>1, <2>4
<1> QED
  BY <1>4, <1>5, <1>6

(* The fan-out and what follows it. *)
LEMMA SendingMoves ==
    ASSUME IInv, FInv, NEW t \in Tx, Enqueue(t) \/ Enqueued(t) \/ Finish(t), ~End(t)
    PROVE  \E x : tx' = [tx EXCEPT ![t] = x] /\ Moved(t, x)
<1> DEFINE r == tx[t].req
           p == IF r.op \in Sends THEN "finish" ELSE "commit"
           c == (draft[r.conv][r.actor].body = r.body)
           x2 == [[tx[t] EXCEPT !.pc = p] EXCEPT !.holds = @ \cup Wants(t)]
           x3 == [[tx[t] EXCEPT !.pc = "commit", !.clear = c] EXCEPT !.holds = @ \cup Wants(t)]
<1>1. tx[t].pc # "idle" /\ tx[t].pc \in Sending
  BY DEF Enqueue, Enqueued, Finish, Sending
<1>2. tx[t] \in TxState
  BY <1>1, FanKnown
<1>3. CASE Enqueue(t)
  <2> DEFINE O(a) == IF \E e \in stream[a] : e = EventOf(t, e.seq) THEN tx[t].out
                     ELSE tx[t].out \cup {[to |-> a, seq |-> next[a]]}
  <2>1. PICK a \in tx[t].todo : Run(t, [tx[t] EXCEPT !.todo = @ \ {a}, !.out = O(a)])
    BY <1>3 DEF Enqueue
  <2> DEFINE Q == O(a)
             T == tx[t].todo \ {a}
             x == [[tx[t] EXCEPT !.todo = T, !.out = Q] EXCEPT !.holds = @ \cup Wants(t)]
  <2>2. tx' = [tx EXCEPT ![t] = x]
    BY <2>1 DEF Run
  <2>3. x.req = r /\ x.rev = tx[t].rev /\ x.status = tx[t].status /\ x.todo = T /\ x.out = Q
    <3> HIDE DEF Q, T
    <3> QED
      BY <1>2 DEF TxState
  <2>4. \A o \in Q : o \in tx[t].out \/ o.to = a
    <3> DEFINE d == [to |-> a, seq |-> next[a]]
    <3>1. d.to = a /\ (Q = tx[t].out \/ Q = tx[t].out \cup {d})
      OBVIOUS
    <3> HIDE DEF d, Q
    <3> QED
      BY <3>1
  <2> HIDE DEF x, Q
  <2>5. Reached(x) \subseteq Reached(tx[t])
    BY <2>3, <2>4 DEF Reached
  <2>6. Moved(t, x)
    BY <1>1, <2>3, <2>5 DEF Moved
  <2> QED
    BY <2>2, <2>6
<1>4. CASE Enqueued(t)
  <2>1. tx' = [tx EXCEPT ![t] = x2]
    BY <1>4 DEF Enqueued, Run
  <2>2. x2.req = r /\ x2.rev = tx[t].rev /\ x2.status = tx[t].status /\ x2.todo = tx[t].todo
        /\ x2.out = tx[t].out
    BY <1>2 DEF TxState
  <2> HIDE DEF x2
  <2>3. Moved(t, x2)
    BY <1>1, <2>2 DEF Moved, Reached
  <2> QED
    BY <2>1, <2>3
<1>5. CASE Finish(t)
  <2>1. tx' = [tx EXCEPT ![t] = x3]
    BY <1>5 DEF Finish, Run
  <2>2. x3.req = r /\ x3.rev = tx[t].rev /\ x3.status = tx[t].status /\ x3.todo = tx[t].todo
        /\ x3.out = tx[t].out
    <3> HIDE DEF c
    <3> QED
      BY <1>2 DEF TxState
  <2> HIDE DEF x3
  <2>3. Moved(t, x3)
    BY <1>1, <2>2 DEF Moved, Reached
  <2> QED
    BY <2>1, <2>3
<1> QED
  BY <1>3, <1>4, <1>5

(* So a statement of a transaction ends it or moves it, and no statement before the commit *)
(* changes what the others see.                                                            *)
LEMMA StatementMoves ==
    ASSUME IInv, FInv, NEW t \in Tx, Step(t),
           ~(CommitSend(t) \/ CommitRevision(t) \/ CommitReceipt(t))
    PROVE  /\ UNCHANGED <<tables, people>>
           /\ End(t) \/ \E x : tx' = [tx EXCEPT ![t] = x] /\ Moved(t, x)
<1>1. CASE LockMessage(t) \/ Refresh(t) \/ Claim(t) \/ Insert(t)
  <2>1. UNCHANGED <<tables, people>>
    BY <1>1 DEF LockMessage, Refresh, Claim, Insert
  <2> QED
    BY <1>1, <2>1, EarlyMoves
<1>2. CASE Reply(t) \/ Revise(t) \/ Receipt(t)
  <2>1. UNCHANGED <<tables, people>>
    BY <1>2 DEF Reply, Revise, Receipt
  <2> QED
    BY <1>2, <2>1, DecidingMoves
<1>3. CASE Enqueue(t) \/ Enqueued(t) \/ Finish(t)
  <2>1. UNCHANGED <<tables, people>>
    BY <1>3 DEF Enqueue, Enqueued, Finish
  <2> QED
    BY <1>3, <2>1, SendingMoves
<1>4. CASE Replay(t) \/ KeyConflict(t) \/ DeadlockVictim(t)
  BY <1>4 DEF Replay, KeyConflict, DeadlockVictim
<1> QED
  BY <1>1, <1>2, <1>3, <1>4 DEF Step

----------------------------------------------------------------------------
(* The theorems *)

(* The empty store satisfies the invariant. *)
LEMMA FanInit == Init => FInv
<1> SUFFICES ASSUME Init PROVE FInv
  OBVIOUS
<1>1. /\ \A t \in Tx : tx[t].pc = "idle"
      /\ \A m \in MsgId : message[m] = NoMessage
      /\ \A a \in Account : stream[a] = {}
  BY DEF Init, Idle
<1>2. \A c \in Conversation, n \in 1..MaxMessages : <<c, n>> \in MsgId
  BY DEF MsgId
<1>3. NoMissedMessage
  BY <1>1, <1>2 DEF NoMissedMessage
<1>4. (\A t \in Tx : FanOK(tx[t])) /\ EventsStored /\ Stories
  BY <1>1 DEF FanOK, EventsStored, Stories
<1> QED
  BY <1>3, <1>4 DEF FInv

(* Every step of the store preserves it. *)
LEMMA FanNext == IInv /\ FInv /\ [Next]_vars => FInv'
<1> SUFFICES ASSUME IInv, FInv, [Next]_vars PROVE FInv'
  OBVIOUS
<1>1. ASSUME NEW t \in Tx, NEW r \in Request, Begin(t, r) PROVE FInv'
  BY <1>1, FanBegin
<1>2. ASSUME NEW t \in Tx, Step(t) PROVE FInv'
  <2>1. CASE LockMessage(t)
    BY <2>1, FanLock
  <2>2. CASE Refresh(t) \/ Claim(t) \/ Insert(t)
    BY <2>2, FanClaim
  <2>3. CASE Replay(t) \/ KeyConflict(t) \/ DeadlockVictim(t)
    BY <2>3, FanEnd DEF Replay, KeyConflict, DeadlockVictim
  <2>4. CASE Reply(t)
    BY <2>4, FanReply
  <2>5. CASE Revise(t)
    BY <2>5, FanRevise
  <2>6. CASE Receipt(t)
    BY <2>6, FanReceipt
  <2>7. CASE Enqueue(t)
    BY <2>7, FanEnqueue
  <2>8. CASE Enqueued(t) \/ Finish(t)
    BY <2>8, FanFinish
  <2>9. CASE CommitSend(t)
    BY <2>9, FanSend
  <2>10. CASE CommitRevision(t)
    BY <2>10, FanRevision
  <2>11. CASE CommitReceipt(t)
    BY <2>11, FanReceiptCommit
  <2> QED
    BY <1>2, <2>1, <2>2, <2>3, <2>4, <2>5, <2>6, <2>7, <2>8, <2>9, <2>10, <2>11 DEF Step
<1>3. ASSUME NEW t \in Tx, Abort(t) PROVE FInv'
  BY <1>3, FanEnd DEF Abort
<1>4. ASSUME NEW c \in Conversation, NEW a \in Account,
             \/ Join(c, a) \/ Leave(c, a) \/ DeleteDraft(c, a)
             \/ \E v \in 0..MaxDraft, b \in Body : PutDraft(c, a, v, b)
      PROVE  FInv'
  BY <1>4, FanAround
<1>5. ASSUME NEW a \in Account, DeleteAccount(a) PROVE FInv'
  BY <1>5, FanDelete
<1>6. CASE UNCHANGED vars
  <2>1. UNCHANGED <<message, stream, tx>> /\ UNCHANGED since /\ \A c : Effective(c)' = Effective(c)
    BY <1>6 DEF vars, Effective
  <2> QED
    BY <2>1, FanPeople
<1> QED
  BY <1>1, <1>2, <1>3, <1>4, <1>5, <1>6 DEF Next

(* The two inductive invariants hold always. *)
LEMMA FanInvariance == Spec => [](IInv /\ FInv)
BY Invariance, FanInit, FanNext, PTL DEF Spec

(* Whoever takes part in a conversation, and already did when a message was accepted, has *)
(* its first delivery: joining, leaving and account deletion cannot race the fan-out      *)
(* (enqueue_message_deliveries_in against lock_group).                                    *)
THEOREM NobodyMisses == Spec => []NoMissedMessage
<1>1. FInv => NoMissedMessage
  BY DEF FInv
<1> QED
  BY <1>1, FanInvariance, PTL

(* The deferred outbox constraints never refuse a commit: everyone who takes part at the  *)
(* commit is among the fan-out's targets (assert_message_outbox_complete,                 *)
(* enforce_history_outbox).                                                               *)
THEOREM OutboxAlwaysComplete == Spec => []OutboxNeverRefuses
<1>1. IInv /\ FInv => OutboxNeverRefuses
  <2> SUFFICES ASSUME IInv, FInv, NEW t \in Tx, tx[t].pc = "commit",
                      tx[t].req.op \in Sends \cup Revisals, NEW a \in Effective(tx[t].req.conv)
               PROVE  \E o \in tx[t].out : o.to = a
    BY DEF OutboxNeverRefuses, OutboxComplete
  <2>1. FanOK(tx[t])
    BY FanKnown
  <2>2. tx[t].req.op \notin Receipts /\ tx[t].pc \in Sending
    BY SMT DEF Sends, Revisals, Receipts, Sending
  <2> QED
    BY <2>1, <2>2 DEF FanOK, CoverOK, Reached
<1> QED
  BY <1>1, FanInvariance, PTL

(* The sender's stream tells the status story of every message: its current status was    *)
(* announced, nothing that did not happen was, and "delivered" never follows "read"       *)
(* (record_receipt_without_payload, enqueue_message_status_delivery_in).                  *)
THEOREM StatusStoryTold == Spec => []StatusAnnounced
<1>1. FInv => StatusAnnounced
  BY DEF FInv, Stories, StoryOK, Told, StatusAnnounced
<1> QED
  BY <1>1, FanInvariance, PTL

(* What TombstoneFinal allows a step to do to message m. *)
Kept(m) ==
    message[m] # NoMessage =>
        /\ message'[m] # NoMessage
        /\ message[m].deleted =>
             message'[m].deleted /\ message'[m].body = message[m].body
               /\ message'[m].edits = message[m].edits
        /\ (message'[m].deleted # message[m].deleted \/ message'[m].edits # message[m].edits) =>
             \A a \in Effective(m[1]) : next'[a] = next[a] + 1

(* A revision finds its message alive and reaches everyone who takes part. *)
LEMMA RevisionKeeps ==
    ASSUME IInv, FInv, NEW t \in Tx, CommitRevision(t), NEW m \in MsgId
    PROVE  Kept(m)
<1> DEFINE r == tx[t].req
<1>1. /\ tx[t].pc = "commit" /\ r.op \in Revisals /\ r.op \notin Receipts /\ Deliver(t)
      /\ message' = [message EXCEPT ![Target(r)] = Revised(message[Target(r)], r)]
  <2>1. r.op \in Revisals => r.op \notin Receipts
    BY SMT DEF Receipts, Revisals
  <2> QED
    BY <2>1 DEF CommitRevision
<1>2. r \in Request /\ FanOK(tx[t]) /\ TxOK(tx[t])
  BY <1>1, FanKnown
<1>3. FInv' /\ IInv' /\ message'[Target(r)] # NoMessage
  <2>1. IInv' /\ FInv'
    BY CommitRevisionStep, FanRevision
  <2> DEFINE rec == [actor |-> r.actor, op |-> r.op, key |-> r.key, hash |-> Hash(r), msg |-> MsgOf(t)]
  <2>2. rec \in idem'
    BY DEF CommitRevision, Complete
  <2>3. rec.msg = Target(r)
    <3>1. r.op \notin Sends
      BY <1>1, SMT DEF Sends, Revisals
    <3> QED
      BY <3>1 DEF MsgOf
  <2>4. \A i \in idem' : message'[i.msg] # NoMessage
    BY <2>1 DEF IInv, RecordsOK
  <2> HIDE DEF rec
  <2> QED
    BY <2>1, <2>2, <2>3, <2>4
<1>4. CASE m = Target(r)
  <2>1. ~message[m].deleted
    BY <1>1, <1>2, <1>4 DEF FanOK, AliveOK, Sending
  <2>2. m[1] = r.conv
    BY <1>4, SMT DEF Target
  <2>3. ASSUME NEW a \in Effective(r.conv) PROVE next'[a] = next[a] + 1
    <3>1. a \in Reached(tx[t]) /\ a \in Account
      BY <1>1, <1>2, <2>3, EffectiveTyped, RequestAssumption DEF FanOK, CoverOK, Sending
    <3> QED
      BY <1>1, <3>1, Delivered
  <2> QED
    BY <1>3, <1>4, <2>1, <2>2, <2>3 DEF Kept
<1>5. CASE m # Target(r)
  <2>1. message'[m] = message[m]
    BY <1>1, <1>5 DEF IInv, TypeOK
  <2> QED
    BY <2>1 DEF Kept
<1> QED
  BY <1>4, <1>5

(* A receipt moves nothing but the status, and a send inserts a new message. *)
LEMMA OthersKeep ==
    ASSUME IInv, FInv, NEW t \in Tx, CommitSend(t) \/ CommitReceipt(t), NEW m \in MsgId
    PROVE  Kept(m)
<1> DEFINE r == tx[t].req
<1>1. tx[t].pc = "commit"
  BY DEF CommitSend, CommitReceipt
<1>2. TxOK(tx[t]) /\ r \in Request /\ tx[t] \in TxState /\ r.conv \in Conversation
  BY <1>1, FanKnown, RequestAssumption
<1>3. CASE CommitSend(t)
  <2> DEFINE row == [sender |-> r.actor, key |-> r.key, body |-> r.body, status |-> "sent",
                     edits |-> 0, deleted |-> FALSE]
  <2>1. r.op \in Sends /\ message' = [message EXCEPT ![MsgOf(t)] = row]
    BY <1>3 DEF CommitSend
  <2>2. MsgOf(t) = <<r.conv, tx[t].seq>> /\ tx[t].seq = nextSeq[r.conv] /\ tx[t].seq \in 1..MaxMessages
    BY <1>1, <1>2, <2>1 DEF MsgOf, TxOK, TargetOK, Writing
  <2>3. ~(tx[t].seq < nextSeq[r.conv])
    BY <2>2, SMT
  <2>4. message[MsgOf(t)] = NoMessage
    BY <1>2, <2>2, <2>3 DEF IInv, ConversationsContiguous
  <2> HIDE DEF row
  <2>5. m # MsgOf(t) => message'[m] = message[m]
    BY <2>1 DEF IInv, TypeOK
  <2> QED
    BY <2>4, <2>5 DEF Kept
<1>4. CASE CommitReceipt(t)
  <2> DEFINE old == message[Target(r)]
             new == tx[t].status
             row == [old EXCEPT !.status = new]
  <2>1. message' = [message EXCEPT ![Target(r)] = row] /\ r.op \in Receipts
    BY <1>4 DEF CommitReceipt
  <2>2. old # NoMessage
    <3>1. r.op \notin Sends
      BY <2>1, SMT DEF Sends, Receipts
    <3> QED
      BY <1>1, <1>2, <3>1 DEF TxOK, TargetOK
  <2>3. CASE m = Target(r)
    <3>1. old \in Row /\ new \in Status /\ message'[m] = row
      <4> HIDE DEF row
      <4> QED
        BY <1>2, <2>1, <2>2, <2>3 DEF IInv, TypeOK, TxState
    <3>2. row \in Row /\ row.deleted = old.deleted /\ row.body = old.body /\ row.edits = old.edits
      <4> HIDE DEF old, new
      <4> QED
        BY <3>1 DEF Row
    <3> HIDE DEF row
    <3> QED
      BY <2>3, <3>1, <3>2, ConstantsAssumption DEF Kept
  <2>4. CASE m # Target(r)
    <3> HIDE DEF row
    <3>1. message'[m] = message[m]
      BY <2>1, <2>4 DEF IInv, TypeOK
    <3> QED
      BY <3>1 DEF Kept
  <2> QED
    BY <2>3, <2>4
<1> QED
  BY <1>3, <1>4

(* A tombstone is final, and no content changes without a new revision in the stream of   *)
(* every present participant, whatever edits and tombstones were in flight                *)
(* (revise_message, guard_message_history).                                               *)
THEOREM TombstonesFinal == Spec => TombstoneFinal
<1>1. ASSUME IInv, FInv, [Next]_vars, NEW m \in MsgId PROVE Kept(m)
  <2>1. ASSUME UNCHANGED message PROVE Kept(m)
    BY <2>1 DEF Kept
  <2>2. ASSUME NEW t \in Tx, Step(t) PROVE Kept(m)
    <3>1. CASE CommitRevision(t)
      BY <1>1, <3>1, RevisionKeeps
    <3>2. CASE CommitSend(t) \/ CommitReceipt(t)
      BY <1>1, <3>2, OthersKeep
    <3>3. CASE ~(CommitRevision(t) \/ CommitSend(t) \/ CommitReceipt(t))
      <4>1. UNCHANGED message
        BY <2>2, <3>3 DEF Step, LockMessage, Refresh, Claim, Replay, KeyConflict, Insert, Reply,
           Revise, Receipt, Enqueue, Enqueued, Finish, DeadlockVictim, tables
      <4> QED
        BY <2>1, <4>1
    <3> QED
      BY <3>1, <3>2, <3>3
  <2>3. ASSUME NEW t \in Tx, (\E r \in Request : Begin(t, r)) \/ Abort(t) PROVE Kept(m)
    BY <2>1, <2>3 DEF Begin, Abort, tables
  <2>4. ASSUME NEW c \in Conversation, NEW a \in Account,
               \/ Join(c, a) \/ Leave(c, a) \/ DeleteDraft(c, a)
               \/ \E v \in 0..MaxDraft, b \in Body : PutDraft(c, a, v, b)
        PROVE  Kept(m)
    <3>1. UNCHANGED message
      BY <2>4 DEF Join, Leave, DeleteDraft, PutDraft, SetDraft, tables
    <3> QED
      BY <2>1, <3>1
  <2>5. ASSUME NEW a \in Account, DeleteAccount(a) PROVE Kept(m)
    BY <2>1, <2>5 DEF DeleteAccount
  <2>6. CASE UNCHANGED vars
    BY <2>1, <2>6 DEF vars
  <2> QED
    BY <1>1, <2>2, <2>3, <2>4, <2>5, <2>6 DEF Next
<1> DEFINE AllKept == \A m \in MsgId : Kept(m)
<1>2. IInv /\ FInv /\ [Next]_vars => AllKept
  BY <1>1
<1>3. [][AllKept]_vars => TombstoneFinal
  BY DEF Kept, TombstoneFinal
<1> HIDE DEF AllKept
<1> QED
  BY <1>2, <1>3, FanInvariance, PTL DEF Spec
=============================================================================
