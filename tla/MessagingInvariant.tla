------------------------ MODULE MessagingInvariant -------------------------
(***************************************************************************)
(* The inductive invariant of Messaging, and why every statement before a  *)
(* commit preserves it.                                                    *)
(*                                                                         *)
(* Neither the gapless sequences nor exactly-once acceptance is inductive  *)
(* alone.  What carries them is the lock discipline: a transaction that    *)
(* has chosen a sequence or claimed a key still holds the row lock that    *)
(* makes the choice good at commit (TxOK), and no two transactions hold    *)
(* the same row (Exclusive).                                               *)
(***************************************************************************)
EXTENDS Messaging, TLAPS

(* A leaf goes to Zenon unless it names another prover; the ones that need
   arithmetic, tuples or EXCEPT name SMT. *)
USE Zenon

----------------------------------------------------------------------------
(* The inductive invariant *)

Writing == {"reply", "enqueue", "finish", "commit"}

(* The operations a transaction at each statement can be about. *)
PhaseOK(x) ==
    /\ x.pc \in {"insert", "reply", "finish"} => x.req.op \in Sends
    /\ x.pc = "revise" => x.req.op \in Revisals
    /\ x.pc = "receipt" => x.req.op \in Receipts
    /\ x.pc = "lock" => x.req.op \in Revisals \cup Receipts
    /\ x.pc \in {"refresh", "claim"} => x.req.op \in Sends \cup Revisals

(* A revision or receipt past its first lock has found its message; a send that has a     *)
(* sequence still holds the conversation it took it from.                                 *)
TargetOK(x) ==
    /\ x.req.op \notin Sends /\ x.pc # "lock" => message[Target(x.req)] # NoMessage
    /\ x.req.op \in Sends /\ x.pc \in Writing =>
         /\ x.seq \in 1..MaxMessages
         /\ x.seq = nextSeq[x.req.conv]
         /\ Conv(x.req.conv) \in x.holds

(* A delivery about to be committed has its stream locked and the stream's next sequence. *)
OutOK(x) ==
    /\ \A o \in x.out : Stream(o.to) \in x.holds /\ o.seq = next[o.to]
    /\ x.out # {} => x.pc \in {"enqueue", "finish", "commit"}
    /\ x.req.op \in Receipts /\ (x.out # {} \/ x.todo # {}) => x.status \in Receipts

(* Past the claim, the key is locked and nobody has completed it. *)
ClaimOK(x) ==
    x.req.op \notin Receipts /\ x.pc \in Writing \cup {"insert", "revise"} =>
        Idem(x.req) \in x.holds /\ Records(x.req) = {}

TxOK(x) ==
    /\ x.pc = "idle" => x = Idle
    /\ x.pc # "idle" =>
         x.req \in Request /\ PhaseOK(x) /\ TargetOK(x) /\ OutOK(x) /\ ClaimOK(x)

Exclusive == \A t, u \in Tx : t # u => tx[t].holds \cap tx[u].holds = {}

(* Records are unique per key and name stored messages; every message and every answer    *)
(* has its record.                                                                        *)
RecordsOK ==
    /\ \A i, j \in idem : i.actor = j.actor /\ i.op = j.op /\ i.key = j.key => i = j
    /\ \A i \in idem : message[i.msg] # NoMessage
    /\ \A m \in MsgId : message[m] # NoMessage =>
         \E i \in idem : /\ i.actor = message[m].sender /\ i.op = "send"
                         /\ i.key = message[m].key /\ i.msg = m
    /\ \A x \in answers :
         \E i \in idem : i.actor = x.actor /\ i.op = x.op /\ i.key = x.key /\ i.msg = x.msg

IInv ==
    /\ TypeOK
    /\ \A t \in Tx : TxOK(tx[t])
    /\ Exclusive
    /\ StreamsContiguous
    /\ ConversationsContiguous
    /\ RecordsOK

----------------------------------------------------------------------------
(* Facts about single definitions *)

(* The statements of a running transaction lock rows that exist (StatementLocks and the   *)
(* reply's foreign key).                                                                  *)
LEMMA WantsTyped ==
    ASSUME TypeOK, NEW t \in Tx, tx[t].pc # "idle"
    PROVE  Wants(t) \subseteq Lock
<1> DEFINE r == tx[t].req
<1>1. /\ r \in Request /\ r.conv \in Conversation /\ r.actor \in Account
      /\ r.seq \in 0..MaxMessages /\ r.reply \in 0..MaxMessages
  BY RequestAssumption DEF TypeOK
<1>2. tx[t].todo \subseteq Account
  BY DEF TypeOK, TxState
<1>3. ReplyLock(t, "reply") \subseteq Lock
  BY <1>1 DEF ReplyLock, At, Lock
<1>4. NextStream(t) \subseteq Lock
  BY <1>2 DEF NextStream, Lock
<1>5. FinishLocks(t) \subseteq Lock
  <2>1. Draft(r.conv, r.actor) \in Lock
    <3>1. <<r.conv, r.actor>> \in Conversation \X Account
      BY <1>1
    <3> QED
      BY SMT, <3>1 DEF Lock, Draft
  <2>2. Gifs(r.actor) \in Lock
    BY <1>1 DEF Lock
  <2> QED
    BY <2>1, <2>2 DEF FinishLocks
<1>6. {Msg(Target(r)), Org, Idem(r), Conv(r.conv)} \subseteq Lock
  BY <1>1 DEF Lock, Target
<1>7. StatementLocks(t) \subseteq Lock
  BY <1>4, <1>5, <1>6 DEF StatementLocks, At
<1> QED
  BY <1>3, <1>7 DEF Wants

(* A running transaction is well typed and about a request. *)
LEMMA TxTyped ==
    ASSUME IInv, NEW t \in Tx, tx[t].pc # "idle"
    PROVE  tx[t] \in TxState /\ Wants(t) \in SUBSET Lock /\ tx[t].req \in Request
BY WantsTyped DEF IInv, TypeOK

(* The message of a transaction that writes exists or is the next one (MsgOf). *)
LEMMA MsgOfTyped ==
    ASSUME TypeOK, NEW t \in Tx, TxOK(tx[t]), tx[t].pc \in {"enqueue", "commit"}
    PROVE  MsgOf(t) \in MsgId
BY SMT, RequestAssumption DEF TypeOK, TxOK, TargetOK, MsgOf, Target, MsgId, Writing

----------------------------------------------------------------------------
(* Steps that commit nothing *)

(* What clients have been told. *)
ClientOK ==
    /\ clock \in Nat
    /\ attempts \in [Request -> 0..MaxAttempts]
    /\ answers \subseteq Answered
    /\ refused \subseteq Request
    /\ \A x \in answers :
         \E i \in idem : i.actor = x.actor /\ i.op = x.op /\ i.key = x.key /\ i.msg = x.msg

(* What clients were told stays right when it and the records stay. *)
LEMMA ClientUnchanged ==
    ASSUME IInv, UNCHANGED <<client, idem>>
    PROVE  ClientOK'
BY DEF IInv, TypeOK, RecordsOK, ClientOK, client

(* A step that only moves transaction t to state x keeps the invariant, if x is in order  *)
(* and takes no lock of another transaction.                                              *)
LEMMA MoveTx ==
    ASSUME IInv, NEW t \in Tx, NEW x \in TxState,
           tx' = [tx EXCEPT ![t] = x],
           TxOK(x), x.pc # "idle" => x.req \in Request,
           \A u \in Tx \ {t} : x.holds \cap tx[u].holds = {},
           UNCHANGED <<tables, people>>, ClientOK'
    PROVE  IInv'
<1> USE DEF tables, people
<1>1. TypeOK'
  BY DEF IInv, TypeOK, ClientOK
<1>2. ASSUME NEW u \in Tx PROVE TxOK(tx[u])'
  <2>1. tx'[u] = IF u = t THEN x ELSE tx[u]
    BY DEF IInv, TypeOK
  <2>2. TxOK(tx'[u])
    BY <2>1 DEF IInv
  <2> QED
    BY <2>2 DEF TxOK, PhaseOK, TargetOK, OutOK, ClaimOK, Records
<1>3. Exclusive'
  BY DEF IInv, TypeOK, Exclusive
<1>4. StreamsContiguous'
  BY DEF IInv, StreamsContiguous
<1>5. ConversationsContiguous'
  BY DEF IInv, ConversationsContiguous
<1>6. RecordsOK'
  BY SMT DEF IInv, RecordsOK, ClientOK
<1> QED
  BY <1>1, <1>2, <1>3, <1>4, <1>5, <1>6 DEF IInv

(* Ending a transaction releases its locks and drops what it wrote. *)
LEMMA EndTx ==
    ASSUME IInv, NEW t \in Tx, End(t), UNCHANGED <<tables, people>>, ClientOK'
    PROVE  IInv'
<1>1. Idle \in TxState
  BY SMT, ConstantsAssumption DEF Idle, TxState, Status
<1>2. TxOK(Idle) /\ Idle.pc = "idle" /\ Idle.holds = {}
  BY DEF TxOK, Idle
<1> QED
  BY <1>1, <1>2, MoveTx DEF End

(* A statement that got its locks moves t to x with them. *)
LEMMA RunTx ==
    ASSUME IInv, NEW t \in Tx, tx[t].pc # "idle", Granted(t),
           NEW f \in TxState, f.pc # "idle", f.req = tx[t].req, f.holds = tx[t].holds,
           Run(t, f), TxOK([f EXCEPT !.holds = @ \cup Wants(t)]),
           UNCHANGED <<tables, people>>, ClientOK'
    PROVE  IInv'
<1> DEFINE x == [f EXCEPT !.holds = @ \cup Wants(t)]
<1>1. Wants(t) \subseteq Lock
  BY WantsTyped DEF IInv
<1>2. x \in TxState /\ x.holds = tx[t].holds \cup Wants(t) /\ x.req = tx[t].req
  BY <1>1 DEF TxState
<1>3. \A u \in Tx \ {t} : x.holds \cap tx[u].holds = {}
  BY <1>2 DEF Granted, IInv, Exclusive
<1>4. x.req \in Request
  BY <1>2 DEF IInv, TypeOK
<1> QED
  BY <1>2, <1>3, <1>4, MoveTx DEF Run

----------------------------------------------------------------------------
(* Each statement before the commit *)

(* BEGIN starts a well-formed transaction that holds nothing. *)
LEMMA BeginStep ==
    ASSUME IInv, NEW t \in Tx, NEW r \in Request, Begin(t, r)
    PROVE  IInv'
<1> DEFINE x == [Idle EXCEPT !.pc = IF r.op \in Sends THEN "refresh" ELSE "lock",
                             !.req = r, !.as = AccessOf(r), !.at = clock]
<1>1. AccessOf(r) \in {"none", "participant", "custodian"}
  BY DEF AccessOf
<1>2. x \in TxState /\ x.pc \in {"refresh", "lock"} /\ x.req = r /\ x.holds = {} /\ x.out = {} /\ x.todo = {}
  <2>1. clock \in Nat
    BY DEF IInv, TypeOK
  <2>2. Idle \in TxState /\ Idle.holds = {} /\ Idle.out = {} /\ Idle.todo = {}
    BY SMT, ConstantsAssumption DEF Idle, TxState, Status
  <2> QED
    BY ZenonT(40), <1>1, <2>1, <2>2 DEF TxState
<1>3. x.pc = IF r.op \in Sends THEN "refresh" ELSE "lock"
  BY DEF Idle
<1>4. r.op \in Sends \cup Revisals \cup Receipts
  BY RequestAssumption
<1>5. TxOK(x)
  BY SMT, <1>2, <1>3, <1>4 DEF TxOK, PhaseOK, TargetOK, OutOK, ClaimOK, Writing, Sends, Revisals, Receipts
<1>6. ClientOK'
  BY SMT, ConstantsAssumption DEF Begin, IInv, TypeOK, RecordsOK, ClientOK, tables
<1>7. tx' = [tx EXCEPT ![t] = x] /\ UNCHANGED <<tables, people>>
  BY DEF Begin
<1> HIDE DEF x
<1> QED
  BY <1>2, <1>5, <1>6, <1>7, MoveTx

(* FOR UPDATE finds the message, or the request ends. *)
LEMMA LockMessageStep ==
    ASSUME IInv, NEW t \in Tx, LockMessage(t)
    PROVE  IInv'
<1> DEFINE f == [tx[t] EXCEPT !.pc = IF tx[t].req.op \in Receipts THEN "receipt" ELSE "refresh"]
           x == [f EXCEPT !.holds = @ \cup Wants(t)]
<1>1. UNCHANGED <<tables, people>> /\ ClientOK'
  BY ClientUnchanged DEF LockMessage, tables
<1>2. CASE ~MayTouch(t)
  BY <1>1, <1>2, EndTx DEF LockMessage
<1>3. CASE MayTouch(t)
  <2>1. /\ f \in TxState /\ f.pc \in {"receipt", "refresh"} /\ f.req = tx[t].req
        /\ f.holds = tx[t].holds /\ f.out = tx[t].out
        /\ x.pc = f.pc /\ x.req = f.req /\ x.out = f.out /\ x.todo = tx[t].todo
        /\ x.status = tx[t].status /\ x.holds = tx[t].holds \cup Wants(t)
    <3>1. tx[t] \in TxState /\ Wants(t) \in SUBSET Lock
      BY TxTyped DEF LockMessage
    <3> QED
      BY <3>1 DEF TxState
  <2>2. TxOK(tx[t]) /\ tx[t].pc = "lock"
    BY DEF IInv, LockMessage
  <2>3. message[Target(tx[t].req)] # NoMessage
    BY <1>3 DEF MayTouch
  <2>4. f.pc = IF tx[t].req.op \in Receipts THEN "receipt" ELSE "refresh"
    BY TxTyped DEF LockMessage, TxState
  <2>5. TxOK(x)
    BY SMT, <2>1, <2>2, <2>3, <2>4 DEF TxOK, PhaseOK, TargetOK, OutOK, ClaimOK, Writing, Sends, Revisals, Receipts
  <2>6. Granted(t) /\ Run(t, f)
    BY <1>3 DEF LockMessage
  <2> HIDE DEF f
  <2> QED
    BY <1>1, <2>1, <2>2, <2>5, <2>6, RunTx
<1> QED
  BY <1>2, <1>3

(* The directory refresh only takes the organization row. *)
LEMMA RefreshStep ==
    ASSUME IInv, NEW t \in Tx, Refresh(t)
    PROVE  IInv'
<1> DEFINE f == [tx[t] EXCEPT !.pc = "claim"]
           x == [f EXCEPT !.holds = @ \cup Wants(t)]
<1>1. UNCHANGED <<tables, people>> /\ ClientOK'
  BY ClientUnchanged DEF Refresh, tables
<1>2. /\ f \in TxState /\ f.pc = "claim" /\ f.req = tx[t].req /\ f.holds = tx[t].holds
      /\ x.pc = "claim" /\ x.req = tx[t].req /\ x.out = tx[t].out /\ x.todo = tx[t].todo
      /\ x.status = tx[t].status /\ x.holds = tx[t].holds \cup Wants(t)
  <2>1. tx[t] \in TxState /\ Wants(t) \in SUBSET Lock
    BY TxTyped DEF Refresh
  <2> QED
    BY <2>1 DEF TxState
<1>3. TxOK(tx[t]) /\ tx[t].pc = "refresh" /\ Granted(t) /\ Run(t, f)
  BY DEF IInv, Refresh
<1>4. TxOK(x)
  BY <1>2, <1>3 DEF TxOK, PhaseOK, TargetOK, OutOK, ClaimOK, Writing
<1> HIDE DEF f
<1> QED
  BY <1>1, <1>2, <1>3, <1>4, RunTx

(* A claim locks a key that has no record. *)
LEMMA ClaimStep ==
    ASSUME IInv, NEW t \in Tx, Claim(t)
    PROVE  IInv'
<1> DEFINE f == [tx[t] EXCEPT !.pc = IF tx[t].req.op \in Sends THEN "insert" ELSE "revise"]
           x == [f EXCEPT !.holds = @ \cup Wants(t)]
<1>1. UNCHANGED <<tables, people>> /\ ClientOK'
  BY ClientUnchanged DEF Claim, tables
<1>2. /\ f \in TxState /\ f.pc \in {"insert", "revise"} /\ f.req = tx[t].req /\ f.holds = tx[t].holds
      /\ x.pc = f.pc /\ x.req = tx[t].req /\ x.out = tx[t].out /\ x.todo = tx[t].todo
      /\ x.status = tx[t].status /\ x.holds = tx[t].holds \cup Wants(t)
  <2>1. tx[t] \in TxState /\ Wants(t) \in SUBSET Lock
    BY TxTyped DEF Claim
  <2> QED
    BY <2>1 DEF TxState
<1>3. TxOK(tx[t]) /\ tx[t].pc = "claim" /\ Granted(t) /\ Run(t, f)
  BY DEF IInv, Claim
<1>4. f.pc = IF tx[t].req.op \in Sends THEN "insert" ELSE "revise"
  BY TxTyped DEF Claim, TxState
<1>5. Idem(tx[t].req) \in Wants(t) /\ Records(tx[t].req) = {}
  BY <1>3 DEF Claim, Wants, StatementLocks, At
<1>6. TxOK(x)
  BY SMT, <1>2, <1>3, <1>4, <1>5 DEF TxOK, PhaseOK, TargetOK, OutOK, ClaimOK, Writing, Sends, Revisals, Receipts
<1> HIDE DEF f
<1> QED
  BY <1>1, <1>2, <1>3, <1>6, RunTx

(* A replayed answer names the message of the record it replays. *)
LEMMA ReplayStep ==
    ASSUME IInv, NEW t \in Tx, Replay(t)
    PROVE  IInv'
<1>1. UNCHANGED <<tables, people>> /\ End(t)
  BY DEF Replay
<1>2. PICK i \in Records(tx[t].req) :
        answers' \in {answers, answers \cup
          {[actor |-> i.actor, op |-> i.op, key |-> i.key, msg |-> i.msg]}}
  BY DEF Replay
<1>3. i \in idem /\ [actor |-> i.actor, op |-> i.op, key |-> i.key, msg |-> i.msg] \in Answered
  BY DEF Records, IInv, TypeOK, Answered
<1>4. /\ UNCHANGED <<clock, attempts, refused, idem>>
      /\ ClientOK
  BY DEF Replay, IInv, TypeOK, RecordsOK, ClientOK, tables
<1>5. ClientOK'
  BY SMT, <1>2, <1>3, <1>4 DEF ClientOK
<1> QED
  BY <1>1, <1>5, EndTx

(* A conflicting key, a rollback and a deadlock victim leave nothing behind. *)
LEMMA KeyConflictStep ==
    ASSUME IInv, NEW t \in Tx, KeyConflict(t) \/ Abort(t) \/ DeadlockVictim(t)
    PROVE  IInv'
<1>1. UNCHANGED <<tables, people, client>> /\ End(t)
  BY DEF KeyConflict, Abort, DeadlockVictim
<1> QED
  BY <1>1, ClientUnchanged, EndTx DEF tables

(* The new sequence is the conversation's next, and its row stays locked. *)
LEMMA InsertStep ==
    ASSUME IInv, NEW t \in Tx, Insert(t)
    PROVE  IInv'
<1> DEFINE n == nextSeq[tx[t].req.conv]
           f == [tx[t] EXCEPT !.pc = "reply", !.seq = n, !.rev = 1]
           x == [f EXCEPT !.holds = @ \cup Wants(t)]
<1>1. UNCHANGED <<tables, people>> /\ ClientOK'
  BY ClientUnchanged DEF Insert, tables
<1>2. TxOK(tx[t]) /\ tx[t].pc = "insert" /\ Granted(t) /\ Run(t, f)
  BY DEF IInv, Insert
<1>3. n \in 1..MaxMessages
  <2>1. tx[t].req.conv \in Conversation
    BY <1>2, TxTyped, RequestAssumption
  <2>2. nextSeq[tx[t].req.conv] \in 1..(MaxMessages + 1)
    BY <2>1 DEF IInv, TypeOK
  <2> QED
    BY SMT, <2>2, ConstantsAssumption DEF Insert
<1>4. /\ f \in TxState /\ f.pc = "reply" /\ f.req = tx[t].req /\ f.holds = tx[t].holds
      /\ x.pc = "reply" /\ x.req = tx[t].req /\ x.out = tx[t].out /\ x.todo = tx[t].todo
      /\ x.status = tx[t].status /\ x.holds = tx[t].holds \cup Wants(t) /\ x.seq = n
  <2>1. tx[t] \in TxState /\ Wants(t) \in SUBSET Lock
    BY TxTyped DEF Insert
  <2>2. n \in 0..MaxMessages
    BY SMT, <1>3, ConstantsAssumption
  <2> HIDE DEF n
  <2> QED
    BY <2>1, <2>2 DEF TxState
<1>5. Conv(tx[t].req.conv) \in Wants(t)
  BY <1>2 DEF Wants, StatementLocks, At
<1>6. TxOK(x)
  BY <1>2, <1>3, <1>4, <1>5 DEF TxOK, PhaseOK, TargetOK, OutOK, ClaimOK, Writing, Sends, Receipts
<1> HIDE DEF f
<1> QED
  BY <1>1, <1>2, <1>4, <1>6, RunTx

(* Participants are accounts. *)
LEMMA EffectiveTyped ==
    ASSUME IInv, NEW c \in Conversation
    PROVE  Effective(c) \in SUBSET Account
BY DEF IInv, TypeOK, Effective

(* A reply to nothing ends the request; otherwise the fan-out starts. *)
LEMMA ReplyStep ==
    ASSUME IInv, NEW t \in Tx, Reply(t)
    PROVE  IInv'
<1> DEFINE r == tx[t].req
           E == Effective(r.conv)
           f == [tx[t] EXCEPT !.pc = "enqueue", !.todo = E]
           x == [f EXCEPT !.holds = @ \cup Wants(t)]
<1>1. UNCHANGED <<tables, people>> /\ ClientOK'
  BY ClientUnchanged DEF Reply, tables
<1>2. TxOK(tx[t]) /\ tx[t].pc = "reply" /\ Granted(t)
  BY DEF IInv, Reply
<1>3. CASE End(t)
  BY <1>1, <1>3, EndTx
<1>4. CASE Run(t, f)
  <2>1. tx[t] \in TxState /\ Wants(t) \in SUBSET Lock /\ E \in SUBSET Account
    BY <1>2, TxTyped, RequestAssumption, EffectiveTyped
  <2>2. /\ f \in TxState /\ f.pc = "enqueue" /\ f.req = r /\ f.holds = tx[t].holds
        /\ x.pc = "enqueue" /\ x.req = r /\ x.out = tx[t].out /\ x.todo = E
        /\ x.status = tx[t].status /\ x.holds = tx[t].holds \cup Wants(t) /\ x.seq = tx[t].seq
    <3> HIDE DEF E
    <3> QED
      BY <2>1 DEF TxState
  <2>3. TxOK(x)
    BY <1>2, <2>2 DEF TxOK, PhaseOK, TargetOK, OutOK, ClaimOK, Writing, Sends, Receipts
  <2> HIDE DEF f
  <2> QED
    BY <1>1, <1>2, <1>4, <2>2, <2>3, RunTx
<1> QED
  BY <1>3, <1>4 DEF Reply

(* Revisions are numbers. *)
LEMMA RevisionsTyped ==
    ASSUME IInv, NEW m, NEW n \in Revisions(m)
    PROVE  n \in Nat
BY SMT DEF IInv, TypeOK, Event, Revisions

(* A revision of a tombstone ends; otherwise the fan-out starts. *)
LEMMA ReviseStep ==
    ASSUME IInv, NEW t \in Tx, Revise(t)
    PROVE  IInv'
<1> DEFINE r == tx[t].req
           E == Effective(r.conv)
           f(n) == [tx[t] EXCEPT !.pc = "enqueue", !.rev = n + 1, !.todo = E]
           x(n) == [f(n) EXCEPT !.holds = @ \cup Wants(t)]
<1>1. UNCHANGED <<tables, people>> /\ ClientOK'
  BY ClientUnchanged DEF Revise, tables
<1>2. TxOK(tx[t]) /\ tx[t].pc = "revise"
  BY DEF IInv, Revise
<1>3. CASE End(t)
  BY <1>1, <1>3, EndTx
<1>4. ASSUME NEW n \in Revisions(Target(r)), Granted(t), Run(t, f(n)) PROVE IInv'
  <2>1. tx[t] \in TxState /\ Wants(t) \in SUBSET Lock /\ E \in SUBSET Account /\ n + 1 \in Nat
    BY SMT, <1>2, TxTyped, RequestAssumption, EffectiveTyped, RevisionsTyped
  <2>2. /\ f(n) \in TxState /\ f(n).pc = "enqueue" /\ f(n).req = r /\ f(n).holds = tx[t].holds
        /\ x(n).pc = "enqueue" /\ x(n).req = r /\ x(n).out = tx[t].out /\ x(n).todo = E
        /\ x(n).status = tx[t].status /\ x(n).holds = tx[t].holds \cup Wants(t)
    <3> HIDE DEF E
    <3> QED
      BY <2>1 DEF TxState
  <2>3. TxOK(x(n))
    BY <1>2, <2>2 DEF TxOK, PhaseOK, TargetOK, OutOK, ClaimOK, Writing, Sends, Revisals, Receipts
  <2> HIDE DEF f
  <2> QED
    BY <1>1, <1>2, <1>4, <2>2, <2>3, RunTx
<1> QED
  BY <1>3, <1>4 DEF Revise

(* A new aggregate status is one that receipts can bring about. *)
LEMMA AggregateTyped ==
    ASSUME IInv, NEW rs, NEW m \in MsgId, message[m] # NoMessage
    PROVE  /\ Aggregate(rs, m) \in Status
           /\ Aggregate(rs, m) # message[m].status => Aggregate(rs, m) \in Receipts
           /\ message[m].sender \in Account
<1>1. message[m] \in Row
  BY DEF IInv, TypeOK
<1> QED
  BY <1>1 DEF Aggregate, Row, Status, Receipts

(* A receipt announces an advance, and nothing else. *)
LEMMA ReceiptStep ==
    ASSUME IInv, NEW t \in Tx, Receipt(t)
    PROVE  IInv'
<1> DEFINE r == tx[t].req
           m == Target(r)
           new == Aggregate(Upsert(receipts, r), m)
           p == IF new # message[m].status THEN "enqueue" ELSE "commit"
           D == IF new # message[m].status THEN {message[m].sender} ELSE {}
           f == [tx[t] EXCEPT !.status = new, !.pc = p, !.todo = D]
           x == [f EXCEPT !.holds = @ \cup Wants(t)]
<1>1. UNCHANGED <<tables, people>> /\ ClientOK'
  BY ClientUnchanged DEF Receipt, tables
<1>2. TxOK(tx[t]) /\ tx[t].pc = "receipt" /\ Run(t, f)
  BY DEF IInv, Receipt
<1>3. Wants(t) = {} /\ Granted(t)
  BY <1>2 DEF Granted, Wants, StatementLocks, ReplyLock, At
<1>4. r \in Request /\ r.op \in Receipts /\ message[m] # NoMessage
  BY <1>2 DEF TxOK, PhaseOK, TargetOK, Sends, Receipts
<1>5. m \in MsgId
  BY SMT, <1>4, RequestAssumption DEF Target, MsgId, Sends, Receipts
<1>6. /\ new \in Status /\ D \in SUBSET Account /\ p \in {"enqueue", "commit"}
      /\ D # {} => new \in Receipts
  BY <1>4, <1>5, AggregateTyped
<1>7. tx[t].out = {}
  BY <1>2 DEF TxOK, OutOK
<1>8. tx[t] \in TxState /\ Wants(t) \in SUBSET Lock
  BY <1>2, TxTyped
<1>9. /\ f \in TxState /\ f.pc = p /\ f.req = r /\ f.holds = tx[t].holds
      /\ x.pc = p /\ x.req = r /\ x.out = tx[t].out /\ x.todo = D
      /\ x.status = new /\ x.holds = tx[t].holds \cup Wants(t)
  <2> HIDE DEF p, D, new
  <2> QED
    BY <1>6, <1>8 DEF TxState
<1>10. TxOK(x)
  <2> HIDE DEF p, D, new, x, m
  <2> QED
    BY <1>2, <1>4, <1>6, <1>7, <1>9 DEF TxOK, PhaseOK, TargetOK, OutOK, ClaimOK, Writing, Sends, Receipts
<1> HIDE DEF f
<1> QED
  BY <1>1, <1>2, <1>3, <1>6, <1>9, <1>10, RunTx

(* The next delivery takes the next sequence of a stream that is locked from here on. *)
LEMMA EnqueueStep ==
    ASSUME IInv, NEW t \in Tx, Enqueue(t)
    PROVE  IInv'
<1>1. UNCHANGED <<tables, people>> /\ ClientOK'
  BY ClientUnchanged DEF Enqueue, tables
<1>2. TxOK(tx[t]) /\ tx[t].pc = "enqueue" /\ Granted(t)
  BY DEF IInv, Enqueue
<1> DEFINE O(a) == IF \E e \in stream[a] : e = EventOf(t, e.seq) THEN tx[t].out
                   ELSE tx[t].out \cup {[to |-> a, seq |-> next[a]]}
           f(a) == [tx[t] EXCEPT !.todo = @ \ {a}, !.out = O(a)]
           x(a) == [f(a) EXCEPT !.holds = @ \cup Wants(t)]
<1>3. PICK a \in tx[t].todo : (\A b \in tx[t].todo : a <= b) /\ Run(t, f(a))
  BY DEF Enqueue
<1>4. tx[t] \in TxState /\ Wants(t) \in SUBSET Lock
  BY <1>2, TxTyped
<1>5. a \in Account /\ next[a] \in Nat /\ Stream(a) \in Wants(t)
  <2>1. a \in Account
    BY <1>4 DEF TxState
  <2>2. Stream(a) \in NextStream(t)
    BY <1>3 DEF NextStream
  <2> QED
    BY <1>2, <2>1, <2>2 DEF IInv, TypeOK, Wants, StatementLocks, At
<1>6. O(a) \in SUBSET [to : Account, seq : Nat]
  BY SMT, <1>4, <1>5 DEF TxState
<1>7. \A o \in O(a) : o \in tx[t].out \/ (o.to = a /\ o.seq = next[a])
  BY SMT
<1>8. /\ f(a) \in TxState /\ f(a).pc = "enqueue" /\ f(a).req = tx[t].req /\ f(a).holds = tx[t].holds
      /\ x(a).pc = "enqueue" /\ x(a).req = tx[t].req /\ x(a).out = O(a) /\ x(a).seq = tx[t].seq
      /\ x(a).status = tx[t].status /\ x(a).holds = tx[t].holds \cup Wants(t)
  <2> HIDE DEF O
  <2> QED
    BY <1>2, <1>4, <1>6 DEF TxState
<1>9. tx[t].req.op \in Receipts => tx[t].status \in Receipts
  BY <1>2, <1>3 DEF TxOK, OutOK
<1>10. TxOK(x(a))
  <2> HIDE DEF O, x
  <2> QED
    BY SMT, <1>2, <1>5, <1>7, <1>8, <1>9 DEF TxOK, PhaseOK, TargetOK, OutOK, ClaimOK, Writing
<1> HIDE DEF f
<1> QED
  BY <1>1, <1>2, <1>3, <1>8, <1>10, RunTx

(* The end of the fan-out changes only the statement. *)
LEMMA EnqueuedStep ==
    ASSUME IInv, NEW t \in Tx, Enqueued(t)
    PROVE  IInv'
<1> DEFINE p == IF tx[t].req.op \in Sends THEN "finish" ELSE "commit"
           f == [tx[t] EXCEPT !.pc = p]
           x == [f EXCEPT !.holds = @ \cup Wants(t)]
<1>1. UNCHANGED <<tables, people>> /\ ClientOK'
  BY ClientUnchanged DEF Enqueued, tables
<1>2. TxOK(tx[t]) /\ tx[t].pc = "enqueue" /\ tx[t].todo = {} /\ Run(t, f)
  BY DEF IInv, Enqueued
<1>3. Wants(t) = {} /\ Granted(t)
  BY <1>2 DEF Granted, Wants, StatementLocks, ReplyLock, At, NextStream
<1>4. /\ f \in TxState /\ f.pc = p /\ f.req = tx[t].req /\ f.holds = tx[t].holds
      /\ x.pc = p /\ x.req = tx[t].req /\ x.out = tx[t].out /\ x.todo = {} /\ x.seq = tx[t].seq
      /\ x.status = tx[t].status /\ x.holds = tx[t].holds \cup Wants(t)
  <2>1. tx[t] \in TxState /\ Wants(t) \in SUBSET Lock
    BY <1>2, TxTyped
  <2> QED
    BY <1>2, <2>1 DEF TxState
<1>5. TxOK(x)
  <2> HIDE DEF x
  <2> QED
    BY <1>2, <1>4 DEF TxOK, PhaseOK, TargetOK, OutOK, ClaimOK, Writing
<1> HIDE DEF f
<1> QED
  BY <1>1, <1>2, <1>3, <1>4, <1>5, RunTx

(* The end of a send locks the rows it will change, or is refused. *)
LEMMA FinishStep ==
    ASSUME IInv, NEW t \in Tx, Finish(t)
    PROVE  IInv'
<1> DEFINE r == tx[t].req
           c == (draft[r.conv][r.actor].body = r.body)
           f == [tx[t] EXCEPT !.pc = "commit", !.clear = c]
           x == [f EXCEPT !.holds = @ \cup Wants(t)]
<1>1. UNCHANGED <<tables, people>>
  BY DEF Finish
<1>2. TxOK(tx[t]) /\ tx[t].pc = "finish" /\ Granted(t)
  BY DEF IInv, Finish
<1>3. r \in Request
  BY <1>2, TxTyped
<1>4. ClientOK'
  BY SMT, <1>1, <1>3 DEF Finish, IInv, TypeOK, RecordsOK, ClientOK, tables
<1>5. CASE End(t)
  BY <1>1, <1>4, <1>5, EndTx
<1>6. CASE Run(t, f)
  <2>1. tx[t] \in TxState /\ Wants(t) \in SUBSET Lock
    BY <1>2, TxTyped
  <2>2. /\ f \in TxState /\ f.pc = "commit" /\ f.req = r /\ f.holds = tx[t].holds
        /\ x.pc = "commit" /\ x.req = r /\ x.out = tx[t].out /\ x.todo = tx[t].todo
        /\ x.status = tx[t].status /\ x.holds = tx[t].holds \cup Wants(t) /\ x.seq = tx[t].seq
    BY <2>1 DEF TxState
  <2>3. TxOK(x)
    <3> HIDE DEF x
    <3> QED
      BY <1>2, <2>2 DEF TxOK, PhaseOK, TargetOK, OutOK, ClaimOK, Writing, Sends, Receipts
  <2> HIDE DEF f
  <2> QED
    BY <1>1, <1>2, <1>4, <1>6, <2>2, <2>3, RunTx
<1> QED
  BY <1>5, <1>6 DEF Finish
=============================================================================
