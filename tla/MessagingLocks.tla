--------------------------- MODULE MessagingLocks ---------------------------
(***************************************************************************)
(* What the order of the row locks gives Messaging, for every set of       *)
(* accounts, requests and concurrent transactions: only a revision can be  *)
(* part of a deadlock, and a draft goes only for its own content.          *)
(*                                                                         *)
(* HoldsOK lists what a send or a receipt can hold while it waits; a draft *)
(* that a send is going to clear stays locked with the sent content        *)
(* (DraftOK).                                                              *)
(***************************************************************************)
EXTENDS MessagingProofs

(* A leaf goes to Zenon unless it names another prover; the ones that need
   arithmetic, tuples or EXCEPT name SMT. *)
USE Zenon

----------------------------------------------------------------------------
(* The inductive invariant *)

(* A send holds nothing before the directory row and keeps that to its end; it locks no    *)
(* stream before its reply reference.  A receipt that waits for a stream holds its message *)
(* and nothing else.                                                                       *)
HoldsOK(x) ==
    /\ x.pc = "lock" \/ (x.pc = "refresh" /\ x.req.op \in Sends) => x.holds = {}
    /\ x.pc \notin {"idle", "refresh"} /\ x.req.op \in Sends => Org \in x.holds
    /\ x.pc \in {"claim", "insert", "reply"} /\ x.req.op \in Sends =>
         \A a \in Account : Stream(a) \notin x.holds
    /\ x.req.op \in Receipts /\ (x.pc = "receipt" \/ x.todo # {}) =>
         x.holds \subseteq {Msg(Target(x.req))}
    /\ x.req.op \in Receipts => \A a, b \in x.todo : a = b

(* The draft a send is about to clear is locked and carries what it sends. *)
DraftOK(x, d) ==
    x.pc = "commit" /\ x.req.op \in Sends /\ x.clear =>
        /\ Draft(x.req.conv, x.req.actor) \in x.holds
        /\ d[x.req.conv][x.req.actor].body = x.req.body

LInv == \A t \in Tx : tx[t].pc # "idle" => HoldsOK(tx[t]) /\ DraftOK(tx[t], draft)

----------------------------------------------------------------------------
(* Facts about single definitions *)

(* The rows the next statement locks, by statement (StatementLocks, ReplyLock). *)
LEMMA WantsAt ==
    ASSUME NEW t \in Tx
    PROVE  /\ tx[t].pc = "lock" => Wants(t) = {Msg(Target(tx[t].req))}
           /\ tx[t].pc = "refresh" => Wants(t) = {Org}
           /\ tx[t].pc = "claim" => Wants(t) = {Idem(tx[t].req)}
           /\ tx[t].pc = "insert" => Wants(t) = {Conv(tx[t].req.conv)}
           /\ tx[t].pc \in {"idle", "receipt", "commit"} => Wants(t) = {}
           /\ tx[t].pc = "enqueue" => Wants(t) = NextStream(t)
           /\ tx[t].pc = "finish" => Wants(t) = FinishLocks(t)
BY SMT DEF Wants, StatementLocks, ReplyLock, At

(* Rows of different tables are different locks. *)
LEMMA LocksDiffer ==
    ASSUME NEW a, NEW m, NEW c, NEW r, NEW d
    PROVE  /\ Stream(a) # Org /\ Stream(a) # Idem(r) /\ Stream(a) # Conv(c) /\ Stream(a) # Msg(m)
           /\ Draft(c, d) # Msg(m) /\ Gifs(a) # Msg(m)
<1>1. Stream(a)[1] = "stream" /\ Org[1] = "org" /\ Idem(r)[1] = "idem" /\ Conv(c)[1] = "conv"
      /\ Msg(m)[1] = "msg" /\ Draft(c, d)[1] = "draft" /\ Gifs(a)[1] = "gifs"
  BY SMT DEF Stream, Org, Idem, Conv, Msg, Draft, Gifs
<1> QED
  BY <1>1, SMT

(* Different drafts are different locks. *)
LEMMA DraftsDiffer ==
    ASSUME NEW c, NEW a, NEW d, NEW b, Draft(c, a) = Draft(d, b)
    PROVE  c = d /\ a = b
BY SMT DEF Draft

(* A running transaction with what is known of it. *)
LEMMA LocksKnown ==
    ASSUME IInv, LInv, NEW t \in Tx, tx[t].pc # "idle"
    PROVE  /\ tx[t] \in TxState /\ Wants(t) \in SUBSET Lock /\ tx[t].req \in Request
           /\ TxOK(tx[t]) /\ HoldsOK(tx[t]) /\ DraftOK(tx[t], draft)
BY TxTyped DEF IInv, LInv

(* A statement that only moves transaction t to x. *)
LEMMA LocksMove ==
    ASSUME IInv, LInv, NEW t \in Tx, NEW x, tx' = [tx EXCEPT ![t] = x], UNCHANGED draft,
           x.pc # "idle" => HoldsOK(x) /\ DraftOK(x, draft)
    PROVE  LInv'
<1> SUFFICES ASSUME NEW u \in Tx, tx'[u].pc # "idle"
             PROVE  HoldsOK(tx'[u]) /\ DraftOK(tx'[u], draft')
  BY DEF LInv
<1>1. tx'[u] = IF u = t THEN x ELSE tx[u]
  BY DEF IInv, TypeOK
<1> QED
  BY <1>1 DEF LInv

(* A request that ends holds nothing. *)
LEMMA LocksEnd ==
    ASSUME IInv, LInv, NEW t \in Tx, End(t), UNCHANGED draft
    PROVE  LInv'
<1>1. Idle.pc = "idle"
  BY DEF Idle
<1> QED
  BY <1>1, LocksMove DEF End

----------------------------------------------------------------------------
(* Statements before the commit *)

(* Before its commit a send has nothing to clear. *)
LEMMA NotCommitting ==
    ASSUME NEW x, x.pc # "commit" \/ x.req.op \notin Sends
    PROVE  DraftOK(x, draft)
BY DEF DraftOK

(* A new request holds nothing. *)
LEMMA LocksBegin ==
    ASSUME IInv, LInv, NEW t \in Tx, NEW r \in Request, Begin(t, r)
    PROVE  LInv'
<1> DEFINE x == [Idle EXCEPT !.pc = IF r.op \in Sends THEN "refresh" ELSE "lock",
                             !.req = r, !.as = AccessOf(r), !.at = clock]
<1>1. x.pc = (IF r.op \in Sends THEN "refresh" ELSE "lock") /\ x.req = r /\ x.holds = {} /\ x.todo = {}
  BY DEF Idle
<1>2. tx' = [tx EXCEPT ![t] = x] /\ UNCHANGED draft
  BY DEF Begin, tables
<1> HIDE DEF x
<1>3. /\ x.pc \notin {"claim", "insert", "reply", "commit"}
      /\ r.op \in Sends => x.pc = "refresh"
  BY <1>1, SMT
<1>4. HoldsOK(x) /\ DraftOK(x, draft)
  BY <1>1, <1>3, NotCommitting DEF HoldsOK
<1> QED
  BY <1>2, <1>4, LocksMove

(* The first statement of a receipt takes its message and nothing else. *)
LEMMA LocksLock ==
    ASSUME IInv, LInv, NEW t \in Tx, LockMessage(t)
    PROVE  LInv'
<1> DEFINE p == IF tx[t].req.op \in Receipts THEN "receipt" ELSE "refresh"
           x == [[tx[t] EXCEPT !.pc = p] EXCEPT !.holds = @ \cup Wants(t)]
<1>1. UNCHANGED draft /\ tx[t].pc = "lock"
  BY DEF LockMessage, tables
<1>2. CASE ~MayTouch(t)
  BY <1>1, <1>2, LocksEnd DEF LockMessage
<1>3. CASE MayTouch(t)
  <2>1. tx[t] \in TxState /\ Wants(t) \in SUBSET Lock /\ TxOK(tx[t]) /\ HoldsOK(tx[t])
    BY <1>1, LocksKnown
  <2>2. /\ x.pc = p /\ x.req = tx[t].req /\ x.todo = tx[t].todo
        /\ x.holds = tx[t].holds \cup Wants(t)
    BY <2>1 DEF TxState
  <2>3. tx' = [tx EXCEPT ![t] = x]
    BY <1>3 DEF LockMessage, Run
  <2>4. tx[t].holds = {} /\ Wants(t) = {Msg(Target(tx[t].req))}
    BY <1>1, <2>1, WantsAt DEF HoldsOK
  <2>5. x.pc \notin {"lock", "claim", "insert", "reply", "commit"} /\ tx[t].req.op \notin Sends
    <3>1. tx[t].req.op \in Revisals \cup Receipts
      BY <1>1, <2>1 DEF TxOK, PhaseOK
    <3> QED
      BY <2>2, <3>1, SMT DEF Revisals, Receipts, Sends
  <2> HIDE DEF x, p
  <2>6. HoldsOK(x) /\ DraftOK(x, draft)
    BY <2>1, <2>2, <2>4, <2>5, NotCommitting DEF HoldsOK
  <2> QED
    BY <1>1, <2>3, <2>6, LocksMove
<1> QED
  BY <1>2, <1>3

(* The directory row, the key and the conversation come before every stream. *)
LEMMA LocksClaim ==
    ASSUME IInv, LInv, NEW t \in Tx, Refresh(t) \/ Claim(t) \/ Insert(t)
    PROVE  LInv'
<1>1. /\ UNCHANGED draft /\ tx[t].pc \in {"refresh", "claim", "insert"}
  BY DEF Refresh, Claim, Insert, tables
<1>2. tx[t] \in TxState /\ Wants(t) \in SUBSET Lock /\ TxOK(tx[t]) /\ HoldsOK(tx[t])
  <2>1. tx[t].pc # "idle"
    BY <1>1, SMT
  <2> QED
    BY <2>1, LocksKnown
<1> DEFINE n == nextSeq[tx[t].req.conv]
           p == IF tx[t].req.op \in Sends THEN "insert" ELSE "revise"
           x1 == [[tx[t] EXCEPT !.pc = "claim"] EXCEPT !.holds = @ \cup Wants(t)]
           x2 == [[tx[t] EXCEPT !.pc = p] EXCEPT !.holds = @ \cup Wants(t)]
           x3 == [[tx[t] EXCEPT !.pc = "reply", !.seq = n, !.rev = 1] EXCEPT !.holds = @ \cup Wants(t)]
<1>3. \E x : /\ tx' = [tx EXCEPT ![t] = x] /\ x.req = tx[t].req
             /\ x.holds = tx[t].holds \cup Wants(t) /\ x.pc \in {"claim", "insert", "revise", "reply"}
  <2>1. CASE Refresh(t)
    <3>1. x1.pc = "claim" /\ x1.req = tx[t].req /\ x1.holds = tx[t].holds \cup Wants(t)
      BY <1>2 DEF TxState
    <3>2. tx' = [tx EXCEPT ![t] = x1]
      BY <2>1 DEF Refresh, Run
    <3> HIDE DEF x1
    <3> QED
      BY <3>1, <3>2
  <2>2. CASE Claim(t)
    <3>1. x2.pc \in {"insert", "revise"} /\ x2.req = tx[t].req /\ x2.holds = tx[t].holds \cup Wants(t)
      BY <1>2 DEF TxState
    <3>2. tx' = [tx EXCEPT ![t] = x2]
      BY <2>2 DEF Claim, Run
    <3> HIDE DEF x2
    <3> QED
      BY <3>1, <3>2
  <2>3. CASE Insert(t)
    <3>1. x3.pc = "reply" /\ x3.req = tx[t].req /\ x3.holds = tx[t].holds \cup Wants(t)
      <4> HIDE DEF n
      <4> QED
        BY <1>2 DEF TxState
    <3>2. tx' = [tx EXCEPT ![t] = x3]
      BY <2>3 DEF Insert, Run
    <3> HIDE DEF x3
    <3> QED
      BY <3>1, <3>2
  <2> QED
    BY <2>1, <2>2, <2>3
<1>4. PICK x : /\ tx' = [tx EXCEPT ![t] = x] /\ x.req = tx[t].req
               /\ x.holds = tx[t].holds \cup Wants(t) /\ x.pc \in {"claim", "insert", "revise", "reply"}
  BY <1>3
<1>5. tx[t].pc # "idle" /\ x.pc \notin {"idle", "lock", "refresh", "receipt", "commit"}
      /\ x.req.op \notin Receipts
  <2>1. tx[t].pc # "idle" /\ x.pc \notin {"idle", "lock", "refresh", "receipt", "commit"}
    BY <1>1, <1>4, SMT
  <2>2. tx[t].req.op \in Sends \cup Revisals
    BY <1>1, <1>2, <2>1 DEF TxOK, PhaseOK
  <2> QED
    BY <1>4, <2>1, <2>2, SMT DEF Sends, Revisals, Receipts
<1>6. ASSUME x.req.op \in Sends
      PROVE  Org \in x.holds /\ \A a \in Account : Stream(a) \notin x.holds
  <2>1. Wants(t) = {Org} \/ Wants(t) = {Idem(tx[t].req)} \/ Wants(t) = {Conv(tx[t].req.conv)}
    BY <1>1, WantsAt
  <2>2. ASSUME NEW a \in Account PROVE Stream(a) \notin Wants(t)
    <3> DEFINE r == tx[t].req
               c == r.conv
    <3> HIDE DEF r, c
    <3>1. Stream(a) # Org /\ Stream(a) # Idem(r) /\ Stream(a) # Conv(c)
      BY LocksDiffer
    <3> QED
      BY <2>1, <3>1 DEF r, c
  <2>3. CASE tx[t].pc = "refresh"
    BY <1>2, <1>4, <1>6, <2>2, <2>3, WantsAt DEF HoldsOK
  <2>4. CASE tx[t].pc \in {"claim", "insert"}
    <3>1. tx[t].pc \notin {"idle", "refresh"}
      BY <2>4, SMT
    <3> QED
      BY <1>2, <1>4, <1>6, <2>2, <2>4, <3>1 DEF HoldsOK
  <2> QED
    BY <1>1, <2>3, <2>4
<1>7. HoldsOK(x) /\ DraftOK(x, draft)
  BY <1>5, <1>6, NotCommitting DEF HoldsOK
<1> QED
  BY <1>1, <1>4, <1>7, LocksMove

(* The fan-out of a send or a revision takes its first streams after everything else. *)
LEMMA LocksReply ==
    ASSUME IInv, LInv, NEW t \in Tx, Reply(t) \/ Revise(t)
    PROVE  LInv'
<1> DEFINE r == tx[t].req
           E == Effective(r.conv)
           x1 == [[tx[t] EXCEPT !.pc = "enqueue", !.todo = E] EXCEPT !.holds = @ \cup Wants(t)]
           x2(v) == [[tx[t] EXCEPT !.pc = "enqueue", !.rev = v, !.todo = E] EXCEPT !.holds = @ \cup Wants(t)]
<1>1. UNCHANGED draft /\ tx[t].pc \in {"reply", "revise"}
  BY DEF Reply, Revise, tables
<1>2. tx[t] \in TxState /\ Wants(t) \in SUBSET Lock /\ TxOK(tx[t]) /\ HoldsOK(tx[t])
      /\ tx[t].pc \notin {"idle", "refresh"}
  <2>1. tx[t].pc \notin {"idle", "refresh"}
    BY <1>1, SMT
  <2> QED
    BY <2>1, LocksKnown
<1>3. CASE End(t)
  BY <1>1, <1>3, LocksEnd
<1>4. CASE ~End(t)
  <2>1. \E x : /\ tx' = [tx EXCEPT ![t] = x] /\ x.req = r /\ x.pc = "enqueue"
               /\ x.holds = tx[t].holds \cup Wants(t)
    <3>1. CASE Reply(t)
      <4>1. x1.req = r /\ x1.pc = "enqueue" /\ x1.holds = tx[t].holds \cup Wants(t)
        <5> HIDE DEF E
        <5> QED
          BY <1>2 DEF TxState
      <4>2. tx' = [tx EXCEPT ![t] = x1]
        BY <1>4, <3>1 DEF Reply, Run
      <4> HIDE DEF x1
      <4> QED
        BY <4>1, <4>2
    <3>2. CASE Revise(t)
      <4>1. PICK n : tx' = [tx EXCEPT ![t] = x2(n + 1)]
        BY <1>4, <3>2 DEF Revise, Run
      <4> DEFINE v == n + 1
      <4>2. tx' = [tx EXCEPT ![t] = x2(v)]
        BY <4>1
      <4>3. x2(v).req = r /\ x2(v).pc = "enqueue" /\ x2(v).holds = tx[t].holds \cup Wants(t)
        <5> HIDE DEF E, v
        <5> QED
          BY <1>2 DEF TxState
      <4> HIDE DEF x2
      <4> QED
        BY <4>2, <4>3
    <3> QED
      BY <3>1, <3>2
  <2>2. PICK x : /\ tx' = [tx EXCEPT ![t] = x] /\ x.req = r /\ x.pc = "enqueue"
                 /\ x.holds = tx[t].holds \cup Wants(t)
    BY <2>1
  <2>3. r.op \notin Receipts
    <3>1. r.op \in Sends \cup Revisals
      BY <1>1, <1>2 DEF TxOK, PhaseOK
    <3> QED
      BY <3>1, SMT DEF Sends, Revisals, Receipts
  <2>4. x.pc \notin {"lock", "refresh", "claim", "insert", "reply", "receipt", "commit"}
    BY <2>2, SMT
  <2>5. HoldsOK(x) /\ DraftOK(x, draft)
    BY <1>2, <2>2, <2>3, <2>4, NotCommitting DEF HoldsOK
  <2> QED
    BY <1>1, <2>2, <2>5, LocksMove
<1> QED
  BY <1>3, <1>4

(* A receipt has at most its sender's stream left to take. *)
LEMMA LocksReceipt ==
    ASSUME IInv, LInv, NEW t \in Tx, Receipt(t)
    PROVE  LInv'
<1> DEFINE r == tx[t].req
           m == Target(r)
           new == Aggregate(Upsert(receipts, r), m)
           p == IF new # message[m].status THEN "enqueue" ELSE "commit"
           D == IF new # message[m].status THEN {message[m].sender} ELSE {}
           x == [[tx[t] EXCEPT !.status = new, !.pc = p, !.todo = D] EXCEPT !.holds = @ \cup Wants(t)]
<1>1. UNCHANGED draft /\ tx[t].pc = "receipt" /\ tx' = [tx EXCEPT ![t] = x]
  BY DEF Receipt, Run, tables
<1>2. tx[t] \in TxState /\ Wants(t) \in SUBSET Lock /\ TxOK(tx[t]) /\ HoldsOK(tx[t])
  BY <1>1, LocksKnown
<1>3. r.op \in Receipts /\ r.op \notin Sends /\ Wants(t) = {}
  <2>1. r.op \in Receipts
    BY <1>1, <1>2 DEF TxOK, PhaseOK
  <2> QED
    BY <1>1, <2>1, WantsAt, SMT DEF Sends, Receipts
<1>4. (\A a, b \in D : a = b) /\ p \in {"enqueue", "commit"}
  OBVIOUS
<1>5. x.pc = p /\ x.req = r /\ x.todo = D /\ x.holds = tx[t].holds \cup Wants(t)
  <2> HIDE DEF p, D, new
  <2> QED
    BY <1>2 DEF TxState
<1> HIDE DEF x, p, D, new, m
<1>6. x.pc \notin {"lock", "refresh"}
  BY <1>4, <1>5, SMT
<1>7. HoldsOK(x) /\ DraftOK(x, draft)
  BY <1>1, <1>2, <1>3, <1>4, <1>5, <1>6, NotCommitting DEF HoldsOK
<1> QED
  BY <1>1, <1>7, LocksMove

(* A receipt that has its stream waits for nothing more. *)
LEMMA LocksEnqueue ==
    ASSUME IInv, LInv, NEW t \in Tx, Enqueue(t)
    PROVE  LInv'
<1>1. UNCHANGED draft /\ tx[t].pc = "enqueue"
  BY DEF Enqueue, tables
<1>2. tx[t] \in TxState /\ Wants(t) \in SUBSET Lock /\ TxOK(tx[t]) /\ HoldsOK(tx[t])
  BY <1>1, LocksKnown
<1> DEFINE O(a) == IF \E e \in stream[a] : e = EventOf(t, e.seq) THEN tx[t].out
                   ELSE tx[t].out \cup {[to |-> a, seq |-> next[a]]}
<1>3. PICK a \in tx[t].todo : Run(t, [tx[t] EXCEPT !.todo = @ \ {a}, !.out = O(a)])
  BY DEF Enqueue
<1> DEFINE Q == O(a)
           T == tx[t].todo \ {a}
           x == [[tx[t] EXCEPT !.todo = T, !.out = Q] EXCEPT !.holds = @ \cup Wants(t)]
<1>4. tx' = [tx EXCEPT ![t] = x]
  BY <1>3 DEF Run
<1>5. x.pc = "enqueue" /\ x.req = tx[t].req /\ x.todo = T /\ x.holds = tx[t].holds \cup Wants(t)
  <2> HIDE DEF Q, T
  <2> QED
    BY <1>1, <1>2 DEF TxState
<1> HIDE DEF x, O, Q
<1>6. x.pc \notin {"lock", "refresh", "claim", "insert", "reply", "receipt", "commit"}
      /\ tx[t].pc \notin {"idle", "refresh"}
  BY <1>1, <1>5, SMT
<1>7. tx[t].req.op \in Receipts => T = {}
  BY <1>2, <1>3 DEF HoldsOK
<1> HIDE DEF T
<1>8. HoldsOK(x) /\ DraftOK(x, draft)
  BY <1>2, <1>5, <1>6, <1>7, NotCommitting DEF HoldsOK
<1> QED
  BY <1>1, <1>4, <1>8, LocksMove

(* A send keeps the draft it is going to clear. *)
LEMMA LocksFinish ==
    ASSUME IInv, LInv, NEW t \in Tx, Enqueued(t) \/ Finish(t)
    PROVE  LInv'
<1> DEFINE r == tx[t].req
           p == IF r.op \in Sends THEN "finish" ELSE "commit"
           c == (draft[r.conv][r.actor].body = r.body)
           x1 == [[tx[t] EXCEPT !.pc = p] EXCEPT !.holds = @ \cup Wants(t)]
           x2 == [[tx[t] EXCEPT !.pc = "commit", !.clear = c] EXCEPT !.holds = @ \cup Wants(t)]
<1>1. UNCHANGED draft /\ tx[t].pc \in {"enqueue", "finish"}
  BY DEF Enqueued, Finish, tables
<1>2. tx[t].pc \notin {"idle", "refresh"}
  BY <1>1, SMT
<1>3. tx[t] \in TxState /\ Wants(t) \in SUBSET Lock /\ TxOK(tx[t]) /\ HoldsOK(tx[t])
  BY <1>2, LocksKnown
<1>4. CASE End(t)
  BY <1>1, <1>4, LocksEnd
<1>5. CASE Enqueued(t)
  <2>1. x1.pc = p /\ x1.req = r /\ x1.todo = tx[t].todo /\ x1.holds = tx[t].holds \cup Wants(t)
    BY <1>3 DEF TxState
  <2>2. tx' = [tx EXCEPT ![t] = x1] /\ tx[t].todo = {}
    BY <1>5 DEF Enqueued, Run
  <2>3. /\ x1.pc \notin {"lock", "refresh", "claim", "insert", "reply", "receipt"}
        /\ x1.pc # "commit" \/ r.op \notin Sends
    BY <2>1, SMT
  <2> HIDE DEF x1, p
  <2>4. HoldsOK(x1) /\ DraftOK(x1, draft)
    BY <1>2, <1>3, <2>1, <2>2, <2>3, NotCommitting DEF HoldsOK
  <2> QED
    BY <1>1, <2>2, <2>4, LocksMove
<1>6. CASE Finish(t) /\ ~End(t)
  <2>1. x2.pc = "commit" /\ x2.req = r /\ x2.todo = tx[t].todo /\ x2.clear = c
        /\ x2.holds = tx[t].holds \cup Wants(t)
    <3> HIDE DEF c
    <3> QED
      BY <1>3 DEF TxState
  <2>2. tx' = [tx EXCEPT ![t] = x2] /\ tx[t].pc = "finish"
    BY <1>6 DEF Finish, Run
  <2>3. x2.pc \notin {"lock", "refresh", "claim", "insert", "reply", "receipt"}
    BY <2>1, SMT
  <2>4. r.op \in Sends /\ r.op \notin Receipts
    <3>1. r.op \in Sends
      BY <1>3, <2>2 DEF TxOK, PhaseOK
    <3> QED
      BY <3>1, SMT DEF Sends, Receipts
  <2>5. c => Draft(r.conv, r.actor) \in Wants(t)
    BY ZenonT(40), <2>2, WantsAt DEF FinishLocks
  <2> HIDE DEF x2
  <2>6. HoldsOK(x2)
    BY <1>2, <1>3, <2>1, <2>3, <2>4 DEF HoldsOK
  <2>7. DraftOK(x2, draft)
    BY <2>1, <2>5 DEF DraftOK
  <2> QED
    BY <1>1, <2>2, <2>6, <2>7, LocksMove
<1> QED
  BY <1>4, <1>5, <1>6

----------------------------------------------------------------------------
(* Commits and drafts *)

(* A step that leaves the running transactions and the drafts they have locked alone. *)
LEMMA LocksDrafts ==
    ASSUME IInv, LInv,
           \A u \in Tx : tx'[u].pc # "idle" =>
              /\ tx'[u] = tx[u]
              /\ \A c \in Conversation, a \in Account :
                   Draft(c, a) \in tx[u].holds => draft'[c][a] = draft[c][a]
    PROVE  LInv'
<1> SUFFICES ASSUME NEW u \in Tx, tx'[u].pc # "idle"
             PROVE  HoldsOK(tx'[u]) /\ DraftOK(tx'[u], draft')
  BY DEF LInv
<1> DEFINE x == tx[u]
<1>1. tx'[u] = x /\ x.pc # "idle"
  OBVIOUS
<1>2. HoldsOK(x) /\ DraftOK(x, draft) /\ x.req \in Request
  BY <1>1, LocksKnown
<1>3. x.req.conv \in Conversation /\ x.req.actor \in Account
  BY <1>2, RequestAssumption
<1>4. Draft(x.req.conv, x.req.actor) \in x.holds =>
        draft'[x.req.conv][x.req.actor] = draft[x.req.conv][x.req.actor]
  BY <1>1, <1>3
<1> QED
  BY ZenonT(40), <1>1, <1>2, <1>4 DEF DraftOK

(* What a send does to the drafts: it clears its own draft or none. *)
LEMMA SendClears ==
    ASSUME IInv, LInv, NEW t \in Tx, CommitSend(t), NEW c \in Conversation, NEW a \in Account
    PROVE  draft'[c][a] =
             IF tx[t].clear /\ c = tx[t].req.conv /\ a = tx[t].req.actor
             THEN Clear(draft[c][a]) ELSE draft[c][a]
<1> DEFINE r == tx[t].req
<1>1. draft' = IF tx[t].clear THEN [draft EXCEPT ![r.conv][r.actor] = Clear(@)] ELSE draft
  BY DEF CommitSend
<1>2. draft \in [Conversation -> [Account -> [version : Nat, body : Body \cup {NoBody}]]]
  BY DEF IInv, TypeOK
<1>3. r.conv \in Conversation /\ r.actor \in Account
  <2>1. tx[t].pc # "idle"
    BY DEF CommitSend
  <2> QED
    BY <2>1, LocksKnown, RequestAssumption
<1> HIDE DEF r
<1>4. CASE tx[t].clear
  <2> DEFINE R == [Account -> [version : Nat, body : Body \cup {NoBody}]]
  <2>1. draft' = [draft EXCEPT ![r.conv] = [draft[r.conv] EXCEPT ![r.actor] = Clear(draft[r.conv][r.actor])]]
    BY <1>1, <1>4
  <2>2. draft'[c] = IF c = r.conv THEN [draft[r.conv] EXCEPT ![r.actor] = Clear(draft[r.conv][r.actor])]
                    ELSE draft[c]
    BY <1>2, <2>1
  <2>3. draft[r.conv] \in R
    BY <1>2, <1>3
  <2>4. [draft[r.conv] EXCEPT ![r.actor] = Clear(draft[r.conv][r.actor])][a] =
          IF a = r.actor THEN Clear(draft[r.conv][r.actor]) ELSE draft[r.conv][a]
    BY <2>3
  <2> QED
    BY <1>4, <2>2, <2>4 DEF r
<1> QED
  BY <1>1, <1>4

(* Every commit ends its transaction, and no other send has locked the draft it clears. *)
LEMMA LocksCommit ==
    ASSUME IInv, LInv, NEW t \in Tx, CommitSend(t) \/ CommitRevision(t) \/ CommitReceipt(t)
    PROVE  LInv'
<1> SUFFICES ASSUME NEW u \in Tx, tx'[u].pc # "idle"
             PROVE  /\ tx'[u] = tx[u]
                    /\ \A c \in Conversation, a \in Account :
                         Draft(c, a) \in tx[u].holds => draft'[c][a] = draft[c][a]
  BY LocksDrafts
<1>1. tx'[u] = tx[u] /\ u # t
  <2>1. tx'[u] = IF u = t THEN Idle ELSE tx[u]
    BY DEF CommitSend, CommitRevision, CommitReceipt, End, IInv, TypeOK
  <2>2. Idle.pc = "idle"
    BY DEF Idle
  <2> QED
    BY <2>1, <2>2
<1>2. ASSUME NEW c \in Conversation, NEW a \in Account, Draft(c, a) \in tx[u].holds
      PROVE  draft'[c][a] = draft[c][a]
  <2>1. CASE CommitSend(t)
    <3>1. tx[t].pc = "commit" /\ tx[t].req.op \in Sends
      BY <2>1 DEF CommitSend
    <3>2. DraftOK(tx[t], draft)
      BY <3>1, LocksKnown
    <3>3. tx[t].clear => Draft(tx[t].req.conv, tx[t].req.actor) \in tx[t].holds
      BY <3>1, <3>2 DEF DraftOK
    <3>4. tx[t].holds \cap tx[u].holds = {}
      BY <1>1 DEF IInv, Exclusive
    <3>5. ~(tx[t].clear /\ c = tx[t].req.conv /\ a = tx[t].req.actor)
      BY <1>2, <3>3, <3>4
    <3>6. draft'[c][a] =
            IF tx[t].clear /\ c = tx[t].req.conv /\ a = tx[t].req.actor
            THEN Clear(draft[c][a]) ELSE draft[c][a]
      BY <2>1, SendClears, SMT
    <3> QED
      BY <3>5, <3>6
  <2>2. CASE CommitRevision(t) \/ CommitReceipt(t)
    BY <2>2 DEF CommitRevision, CommitReceipt
  <2> QED
    BY <2>1, <2>2
<1> QED
  BY <1>1, <1>2

(* What a client does to the drafts: it replaces the one it names. *)
LEMMA SetDraftSets ==
    ASSUME IInv, NEW c0 \in Conversation, NEW a0 \in Account, NEW d, SetDraft(c0, a0, d),
           NEW c \in Conversation, NEW a \in Account
    PROVE  draft'[c][a] = IF c = c0 /\ a = a0 THEN d ELSE draft[c][a]
<1>1. draft \in [Conversation -> [Account -> [version : Nat, body : Body \cup {NoBody}]]]
  BY DEF IInv, TypeOK
<1>2. draft' = [draft EXCEPT ![c0] = [draft[c0] EXCEPT ![a0] = d]]
  BY DEF SetDraft
<1>3. draft'[c] = IF c = c0 THEN [draft[c0] EXCEPT ![a0] = d] ELSE draft[c]
  BY <1>1, <1>2
<1>4. draft[c0] \in [Account -> [version : Nat, body : Body \cup {NoBody}]]
  BY <1>1
<1>5. [draft[c0] EXCEPT ![a0] = d][a] = IF a = a0 THEN d ELSE draft[c0][a]
  BY <1>4
<1> QED
  BY <1>3, <1>5

(* What happens around message acceptance leaves locked drafts alone. *)
LEMMA LocksAround ==
    ASSUME IInv, LInv, NEW c0 \in Conversation, NEW a0 \in Account,
           \/ Join(c0, a0) \/ Leave(c0, a0) \/ DeleteDraft(c0, a0)
           \/ \E v \in 0..MaxDraft, b \in Body : PutDraft(c0, a0, v, b)
    PROVE  LInv'
<1>1. CASE Join(c0, a0) \/ Leave(c0, a0)
  <2>1. tx' = tx /\ draft' = draft
    BY <1>1 DEF Join, Leave, tables
  <2> QED
    BY <2>1, LocksDrafts
<1>2. ASSUME NEW d, SetDraft(c0, a0, d) PROVE LInv'
  <2>1. tx' = tx /\ \A u \in Tx : Draft(c0, a0) \notin tx[u].holds
    BY <1>2 DEF SetDraft, Unlocked
  <2>2. ASSUME NEW u \in Tx, NEW c \in Conversation, NEW a \in Account, Draft(c, a) \in tx[u].holds
        PROVE  draft'[c][a] = draft[c][a]
    <3>1. ~(c = c0 /\ a = a0)
      BY <2>1, <2>2
    <3>2. draft'[c][a] = IF c = c0 /\ a = a0 THEN d ELSE draft[c][a]
      BY <1>2, SetDraftSets, SMT
    <3> QED
      BY <3>1, <3>2
  <2> QED
    BY <2>1, <2>2, LocksDrafts
<1>3. CASE DeleteDraft(c0, a0)
  BY <1>2, <1>3 DEF DeleteDraft
<1>4. ASSUME NEW v \in 0..MaxDraft, NEW b \in Body, PutDraft(c0, a0, v, b) PROVE LInv'
  BY <1>2, <1>4 DEF PutDraft
<1> QED
  BY <1>1, <1>3, <1>4

(* What the deletion of an account does to the drafts. *)
LEMMA DeletionClears ==
    ASSUME IInv, NEW a0 \in Account, DeleteAccount(a0), NEW c \in Conversation, NEW a \in Account
    PROVE  draft'[c][a] = IF a = a0 /\ draft[c][a].body # NoBody THEN Clear(draft[c][a]) ELSE draft[c][a]
<1> DEFINE D == IF draft[c][a0].body = NoBody THEN draft[c][a0] ELSE Clear(draft[c][a0])
<1>1. draft'[c] = [draft[c] EXCEPT ![a0] = D]
  BY DEF DeleteAccount
<1>2. draft[c] \in [Account -> [version : Nat, body : Body \cup {NoBody}]]
  BY DEF IInv, TypeOK
<1>3. draft'[c][a] = IF a = a0 THEN D ELSE draft[c][a]
  <2> HIDE DEF D
  <2> QED
    BY <1>1, <1>2
<1> QED
  BY <1>3

LEMMA LocksDelete ==
    ASSUME IInv, LInv, NEW a0 \in Account, DeleteAccount(a0)
    PROVE  LInv'
<1>1. tx' = tx /\ \A u \in Tx, c \in Conversation : Draft(c, a0) \notin tx[u].holds
  BY DEF DeleteAccount, Unlocked
<1>2. ASSUME NEW u \in Tx, NEW c \in Conversation, NEW a \in Account, Draft(c, a) \in tx[u].holds
      PROVE  draft'[c][a] = draft[c][a]
  <2>1. a # a0
    BY <1>1, <1>2
  <2> QED
    BY <2>1, DeletionClears
<1> QED
  BY <1>1, <1>2, LocksDrafts

----------------------------------------------------------------------------
(* The theorems *)

(* Every step of the store preserves the invariant. *)
LEMMA LocksNext == IInv /\ LInv /\ [Next]_vars => LInv'
<1> SUFFICES ASSUME IInv, LInv, [Next]_vars PROVE LInv'
  OBVIOUS
<1>1. ASSUME NEW t \in Tx, NEW r \in Request, Begin(t, r) PROVE LInv'
  BY <1>1, LocksBegin
<1>2. ASSUME NEW t \in Tx, Step(t) PROVE LInv'
  <2>1. CASE LockMessage(t)
    BY <2>1, LocksLock
  <2>2. CASE Refresh(t) \/ Claim(t) \/ Insert(t)
    BY <2>2, LocksClaim
  <2>3. CASE Replay(t) \/ KeyConflict(t) \/ DeadlockVictim(t)
    BY <2>3, LocksEnd DEF Replay, KeyConflict, DeadlockVictim, tables
  <2>4. CASE Reply(t) \/ Revise(t)
    BY <2>4, LocksReply
  <2>5. CASE Receipt(t)
    BY <2>5, LocksReceipt
  <2>6. CASE Enqueue(t)
    BY <2>6, LocksEnqueue
  <2>7. CASE Enqueued(t) \/ Finish(t)
    BY <2>7, LocksFinish
  <2>8. CASE CommitSend(t) \/ CommitRevision(t) \/ CommitReceipt(t)
    BY <2>8, LocksCommit
  <2> QED
    BY <1>2, <2>1, <2>2, <2>3, <2>4, <2>5, <2>6, <2>7, <2>8 DEF Step
<1>3. ASSUME NEW t \in Tx, Abort(t) PROVE LInv'
  BY <1>3, LocksEnd DEF Abort, tables
<1>4. ASSUME NEW c \in Conversation, NEW a \in Account,
             \/ Join(c, a) \/ Leave(c, a) \/ DeleteDraft(c, a)
             \/ \E v \in 0..MaxDraft, b \in Body : PutDraft(c, a, v, b)
      PROVE  LInv'
  BY <1>4, LocksAround
<1>5. ASSUME NEW a \in Account, DeleteAccount(a) PROVE LInv'
  BY <1>5, LocksDelete
<1>6. CASE UNCHANGED vars
  <2>1. tx' = tx /\ draft' = draft
    BY <1>6 DEF vars
  <2> QED
    BY <2>1, LocksDrafts
<1> QED
  BY <1>1, <1>2, <1>3, <1>4, <1>5, <1>6 DEF Next

(* Both invariants hold always. *)
LEMMA LocksInvariance == Spec => [](IInv /\ LInv)
<1>1. Init => LInv
  <2>1. ASSUME Init, NEW t \in Tx PROVE tx[t].pc = "idle"
    BY <2>1, SMT DEF Init, Idle
  <2> QED
    BY <2>1 DEF LInv
<1> QED
  BY <1>1, Invariance, LocksNext, PTL DEF Spec

(* A statement of a receipt that waits for a lock holder and is waited for is at a stream. *)
LEMMA ReceiptWaits ==
    ASSUME IInv, LInv, NEW t \in Tx, tx[t].req.op \in Receipts, Wants(t) # {}, tx[t].holds # {}
    PROVE  /\ tx[t].holds \subseteq {Msg(Target(tx[t].req))}
           /\ \A l \in Wants(t) : \E a \in Account : l = Stream(a)
<1>1. tx[t].pc # "idle"
  BY WantsAt
<1>2. tx[t] \in TxState /\ TxOK(tx[t]) /\ HoldsOK(tx[t])
  BY <1>1, LocksKnown
<1>3. tx[t].req.op \notin Sends \cup Revisals
  BY SMT DEF Sends, Revisals, Receipts
<1>4. tx[t].pc = "enqueue"
  <2>1. tx[t].pc \notin {"lock", "receipt", "commit"}
    BY <1>2, WantsAt DEF HoldsOK
  <2>2. tx[t].pc \notin {"insert", "reply", "finish", "revise", "refresh", "claim"}
    BY <1>1, <1>2, <1>3 DEF TxOK, PhaseOK
  <2>3. tx[t].pc \in {"idle", "lock", "refresh", "claim", "insert", "reply", "revise", "receipt",
                      "enqueue", "finish", "commit"}
    BY <1>2 DEF TxState
  <2> QED
    BY <1>1, <2>1, <2>2, <2>3
<1>5. Wants(t) = {Stream(a) : a \in {x \in tx[t].todo : \A y \in tx[t].todo : x <= y}}
  BY <1>4, WantsAt DEF NextStream
<1>6. tx[t].todo # {} /\ tx[t].todo \subseteq Account
  BY <1>2, <1>5 DEF TxState
<1> QED
  BY <1>2, <1>5, <1>6 DEF HoldsOK

(* A send that holds a stream waits for streams, its draft or its recent GIFs only. *)
LEMMA SendWaits ==
    ASSUME IInv, LInv, NEW t \in Tx, tx[t].req.op \in Sends, tx[t].pc # "idle",
           NEW a \in Account, Stream(a) \in tx[t].holds, NEW m
    PROVE  Msg(m) \notin Wants(t)
<1>1. tx[t] \in TxState /\ TxOK(tx[t]) /\ HoldsOK(tx[t])
  BY LocksKnown
<1>2. tx[t].req.op \notin Receipts \cup Revisals
  BY SMT DEF Sends, Revisals, Receipts
<1>3. tx[t].pc \notin {"lock", "refresh", "claim", "insert", "reply", "revise", "receipt"}
  <2>1. tx[t].pc \notin {"lock", "refresh", "claim", "insert", "reply"}
    BY <1>1 DEF HoldsOK
  <2>2. tx[t].pc \notin {"revise", "receipt"}
    BY <1>1, <1>2 DEF TxOK, PhaseOK
  <2> QED
    BY <2>1, <2>2
<1>4. tx[t].pc \in {"enqueue", "finish", "commit"}
  BY <1>1, <1>3 DEF TxState
<1>5. CASE tx[t].pc = "enqueue"
  <2>1. Wants(t) = {Stream(b) : b \in {x \in tx[t].todo : \A y \in tx[t].todo : x <= y}}
    BY <1>5, WantsAt DEF NextStream
  <2>2. \A b : Stream(b) # Msg(m)
    BY LocksDiffer
  <2> QED
    BY <2>1, <2>2
<1>6. CASE tx[t].pc = "finish"
  <2>1. Wants(t) \subseteq {Draft(tx[t].req.conv, tx[t].req.actor), Gifs(tx[t].req.actor)}
    BY ZenonT(40), <1>6, WantsAt DEF FinishLocks
  <2> QED
    BY <2>1, LocksDiffer
<1>7. CASE tx[t].pc = "commit"
  BY <1>7, WantsAt
<1> QED
  BY <1>4, <1>5, <1>6, <1>7

(* Sends wait in the order directory row, key, conversation, replied-to message, streams,  *)
(* draft, recent GIFs, and receipts in the order message, stream: no set of sends and      *)
(* receipts waits in a circle, so PostgreSQL never has to break one up.  A revision locks  *)
(* its message before the directory row and can be part of a circle.                       *)
THEOREM OnlyRevisionsDeadlock == Spec => []DeadlocksNeedRevision
<1>1. IInv /\ LInv => DeadlocksNeedRevision
  <2> SUFFICES ASSUME IInv, LInv, NEW S \in SUBSET Tx, Cycle(S),
                      \A t \in S : tx[t].req.op \notin Revisals
               PROVE  FALSE
    BY DEF DeadlocksNeedRevision
  <2>1. /\ S # {}
        /\ \A t \in S : \E u \in S : WaitsFor(t, u)
        /\ \A u \in S : \E t \in S : WaitsFor(t, u)
    BY DEF Cycle
  <2>2. \A t \in S : Wants(t) # {} /\ tx[t].holds # {} /\ tx[t].pc # "idle"
    <3>1. \A t \in S : Wants(t) # {} /\ tx[t].holds # {}
      BY <2>1 DEF WaitsFor
    <3> QED
      BY <3>1, WantsAt
  <2>3. \A t \in S : tx[t].req.op \in Sends \cup Receipts
    BY ZenonT(40), <2>2, LocksKnown, RequestAssumption
  <2>4. \A t, u \in S : t # u /\ tx[t].req.op \in Sends => tx[u].req.op \in Receipts
    <3>1. ASSUME NEW t \in S, tx[t].req.op \in Sends PROVE Org \in tx[t].holds
      BY <2>2, <3>1, LocksKnown DEF HoldsOK
    <3>2. \A t, u \in S : t # u => tx[t].holds \cap tx[u].holds = {}
      BY DEF IInv, Exclusive
    <3> QED
      BY <2>3, <3>1, <3>2
  <2>5. ASSUME NEW t \in S, NEW u \in S, tx[t].req.op \in Receipts, WaitsFor(t, u)
        PROVE  tx[u].req.op \in Sends /\ \E a \in Account : Stream(a) \in tx[u].holds
    <3>1. PICK l \in Wants(t) : l \in tx[u].holds
      BY <2>5 DEF WaitsFor
    <3>2. PICK a \in Account : l = Stream(a)
      BY <2>2, <2>5, <3>1, ReceiptWaits
    <3>3. tx[u].req.op \notin Receipts
      <4>1. Stream(a) # Msg(Target(tx[u].req))
        BY LocksDiffer
      <4> QED
        BY <2>2, <3>1, <3>2, <4>1, ReceiptWaits
    <3> QED
      BY <2>3, <3>1, <3>2, <3>3
  <2>6. PICK h \in S : tx[h].req.op \in Sends
    BY <2>1, <2>3, <2>5
  <2>7. PICK r \in S : WaitsFor(h, r)
    BY <2>1
  <2>8. r # h /\ tx[r].req.op \in Receipts
    BY <2>4, <2>6, <2>7 DEF WaitsFor
  <2>9. PICK q \in S : WaitsFor(r, q)
    BY <2>1
  <2>10. q = h
    <3>1. tx[q].req.op \in Sends /\ tx[q].req.op \notin Receipts
      BY <2>5, <2>8, <2>9, SMT DEF Sends, Receipts
    <3> QED
      BY <2>4, <2>6, <3>1
  <2>11. PICK a \in Account : Stream(a) \in tx[h].holds
    BY <2>5, <2>8, <2>9, <2>10
  <2>12. Msg(Target(tx[r].req)) \in Wants(h)
    BY <2>2, <2>7, <2>8, ReceiptWaits DEF WaitsFor
  <2> QED
    BY <2>2, <2>6, <2>11, <2>12, SendWaits
<1> QED
  BY <1>1, LocksInvariance, PTL

----------------------------------------------------------------------------
(* Drafts *)

(* What one step may do to the draft of account a in conversation c. *)
Guarded(c, a) ==
    draft'[c][a] # draft[c][a] =>
         /\ draft'[c][a].version = draft[c][a].version + 1
         /\ draft'[c][a].body = NoBody =>
              \/ DeleteDraft(c, a) \/ DeleteAccount(a)
              \/ \E n \in 1..MaxMessages :
                   /\ message[<<c, n>>] = NoMessage /\ message'[<<c, n>>] # NoMessage
                   /\ message'[<<c, n>>].sender = a
                   /\ message'[<<c, n>>].body = draft[c][a].body

(* A cleared draft is empty and one version on. *)
LEMMA Cleared ==
    ASSUME NEW d
    PROVE  Clear(d).version = d.version + 1 /\ Clear(d).body = NoBody
BY DEF Clear

(* A send clears the draft of its sender when the draft is what it sent. *)
LEMMA SendGuards ==
    ASSUME IInv, LInv, NEW t \in Tx, CommitSend(t), NEW c \in Conversation, NEW a \in Account
    PROVE  Guarded(c, a)
<1> DEFINE r == tx[t].req
           row == [sender |-> r.actor, key |-> r.key, body |-> r.body, status |-> "sent",
                   edits |-> 0, deleted |-> FALSE]
           n == tx[t].seq
<1>1. tx[t].pc = "commit" /\ r.op \in Sends /\ message' = [message EXCEPT ![MsgOf(t)] = row]
  BY DEF CommitSend
<1>2. TxOK(tx[t]) /\ r \in Request /\ DraftOK(tx[t], draft)
  BY <1>1, LocksKnown
<1>3. r.conv \in Conversation /\ r.actor \in Account /\ r.key \in Key /\ r.body \in Body
  <2>1. r.op = "send"
    BY <1>1 DEF Sends
  <2> QED
    BY <1>2, <2>1, RequestAssumption
<1>4. MsgOf(t) = <<r.conv, n>> /\ n = nextSeq[r.conv] /\ n \in 1..MaxMessages
  BY <1>1, <1>2 DEF MsgOf, TxOK, TargetOK, Writing
<1>5. draft'[c][a] = IF tx[t].clear /\ c = r.conv /\ a = r.actor
                     THEN Clear(draft[c][a]) ELSE draft[c][a]
  <2> HIDE DEF row, n
  <2> QED
    BY SendClears, SMT
<1>6. row \in Row /\ row.sender = r.actor /\ row.body = r.body
  <2>1. "sent" \in Status /\ 0 \in Nat /\ FALSE \in BOOLEAN
    BY SMT DEF Status
  <2> QED
    BY <1>3, <2>1 DEF Row
<1>7. <<r.conv, n>> \in MsgId
  BY <1>3, <1>4, SMT DEF MsgId
<1>8. message'[<<r.conv, n>>] = row
  <2> HIDE DEF row
  <2> QED
    BY <1>1, <1>4, <1>7 DEF IInv, TypeOK
<1>9. message[<<r.conv, n>>] = NoMessage
  <2>1. ~(n < nextSeq[r.conv])
    BY <1>4, SMT
  <2> QED
    BY <1>3, <1>4, <2>1 DEF IInv, ConversationsContiguous
<1>10. row # NoMessage
  BY <1>6, ConstantsAssumption
<1>11. CASE tx[t].clear /\ c = r.conv /\ a = r.actor
  <2>1. draft[c][a].body = r.body
    BY <1>1, <1>2, <1>11 DEF DraftOK
  <2>2. draft'[c][a].version = draft[c][a].version + 1
    BY <1>5, <1>11, Cleared
  <2> HIDE DEF row
  <2> QED
    BY <1>4, <1>6, <1>8, <1>9, <1>10, <1>11, <2>1, <2>2 DEF Guarded
<1>12. CASE ~(tx[t].clear /\ c = r.conv /\ a = r.actor)
  <2>1. draft'[c][a] = draft[c][a]
    BY <1>5, <1>12
  <2> QED
    BY <2>1 DEF Guarded
<1> QED
  BY <1>11, <1>12

(* A client replaces or deletes the draft of the version it saw. *)
LEMMA ClientGuards ==
    ASSUME IInv, NEW c0 \in Conversation, NEW a0 \in Account,
           DeleteDraft(c0, a0) \/ \E v \in 0..MaxDraft, b \in Body : PutDraft(c0, a0, v, b),
           NEW c \in Conversation, NEW a \in Account
    PROVE  Guarded(c, a)
<1>1. CASE DeleteDraft(c0, a0)
  <2> DEFINE d == Clear(draft[c0][a0])
  <2>1. SetDraft(c0, a0, d)
    BY <1>1 DEF DeleteDraft
  <2>2. d.version = draft[c0][a0].version + 1
    BY Cleared
  <2> HIDE DEF d
  <2>3. draft'[c][a] = IF c = c0 /\ a = a0 THEN d ELSE draft[c][a]
    BY <2>1, SetDraftSets, SMT
  <2> QED
    BY <1>1, <2>2, <2>3 DEF Guarded
<1>2. ASSUME NEW v \in 0..MaxDraft, NEW b \in Body, PutDraft(c0, a0, v, b) PROVE Guarded(c, a)
  <2> DEFINE d == [version |-> draft[c0][a0].version + 1, body |-> b]
  <2>1. SetDraft(c0, a0, d)
    BY <1>2 DEF PutDraft
  <2>2. d.version = draft[c0][a0].version + 1 /\ d.body # NoBody
    BY <1>2, ConstantsAssumption
  <2> HIDE DEF d
  <2>3. draft'[c][a] = IF c = c0 /\ a = a0 THEN d ELSE draft[c][a]
    BY <2>1, SetDraftSets, SMT
  <2> QED
    BY <2>2, <2>3 DEF Guarded
<1> QED
  BY <1>1, <1>2

(* The deletion of an account clears its own drafts. *)
LEMMA DeletionGuards ==
    ASSUME IInv, NEW a0 \in Account, DeleteAccount(a0), NEW c \in Conversation, NEW a \in Account
    PROVE  Guarded(c, a)
<1>1. draft'[c][a] = IF a = a0 /\ draft[c][a].body # NoBody THEN Clear(draft[c][a]) ELSE draft[c][a]
  BY DeletionClears
<1> QED
  BY <1>1, Cleared DEF Guarded

(* A draft changes by one version at a time and disappears only when its owner or the      *)
(* deletion of the account removes it or the very content it held becomes a message of its *)
(* owner, also when the draft is saved while the send is in flight (put_draft,             *)
(* consume_matching_draft_in).                                                             *)
THEOREM DraftsGuarded == Spec => DraftGuarded
<1>1. ASSUME IInv, LInv, [Next]_vars, NEW c \in Conversation, NEW a \in Account PROVE Guarded(c, a)
  <2>1. ASSUME UNCHANGED draft PROVE Guarded(c, a)
    BY <2>1 DEF Guarded
  <2>2. ASSUME NEW t \in Tx, Step(t) PROVE Guarded(c, a)
    <3>1. CASE CommitSend(t)
      BY <1>1, <3>1, SendGuards
    <3>2. CASE ~CommitSend(t)
      <4>1. UNCHANGED draft
        BY <2>2, <3>2 DEF Step, LockMessage, Refresh, Claim, Replay, KeyConflict, Insert, Reply,
           Revise, Receipt, Enqueue, Enqueued, Finish, DeadlockVictim, CommitRevision,
           CommitReceipt, tables
      <4> QED
        BY <2>1, <4>1
    <3> QED
      BY <3>1, <3>2
  <2>3. ASSUME NEW t \in Tx, (\E r \in Request : Begin(t, r)) \/ Abort(t) PROVE Guarded(c, a)
    BY <2>1, <2>3 DEF Begin, Abort, tables
  <2>4. ASSUME NEW c0 \in Conversation, NEW a0 \in Account, Join(c0, a0) \/ Leave(c0, a0)
        PROVE  Guarded(c, a)
    BY <2>1, <2>4 DEF Join, Leave, tables
  <2>5. ASSUME NEW c0 \in Conversation, NEW a0 \in Account,
               DeleteDraft(c0, a0) \/ \E v \in 0..MaxDraft, b \in Body : PutDraft(c0, a0, v, b)
        PROVE  Guarded(c, a)
    BY <1>1, <2>5, ClientGuards
  <2>6. ASSUME NEW a0 \in Account, DeleteAccount(a0) PROVE Guarded(c, a)
    BY <1>1, <2>6, DeletionGuards
  <2>7. CASE UNCHANGED vars
    BY <2>1, <2>7 DEF vars
  <2> QED
    BY <1>1, <2>2, <2>3, <2>4, <2>5, <2>6, <2>7 DEF Next
<1> DEFINE AllGuarded == \A c \in Conversation, a \in Account : Guarded(c, a)
<1>2. IInv /\ LInv /\ [Next]_vars => AllGuarded
  BY <1>1
<1>3. [][AllGuarded]_vars => DraftGuarded
  BY DEF Guarded, DraftGuarded
<1> HIDE DEF AllGuarded
<1> QED
  BY <1>2, <1>3, LocksInvariance, PTL DEF Spec
=============================================================================
