------------------------ MODULE MessagingFeedProofs ------------------------
(***************************************************************************)
(* Messaging implements MessageFeed, for every set of accounts,            *)
(* conversations, requests and concurrent transactions: each commit is one *)
(* abstract step and every other step leaves the logs and feeds alone.     *)
(*                                                                         *)
(* MessagingFanout says what a commit finds.  NumbersOK adds how the       *)
(* revision numbers of the deliveries come about, which MessageFeed shows  *)
(* its readers.                                                            *)
(***************************************************************************)
EXTENDS MessagingFanout, MessagingRefinement, Sequences

(* A leaf goes to Zenon unless it names another prover; the ones that need
   arithmetic, tuples or EXCEPT name SMT. *)
USE Zenon

----------------------------------------------------------------------------
(* The inductive invariant *)

(* The revision a transaction is about to deliver is the first one, or follows one that   *)
(* was delivered.                                                                          *)
NumberOK(x, s) ==
    x.pc \in Sending /\ x.req.op \in Revisals =>
        x.rev = 1 \/ \E a \in Account : \E e \in s[a] : x.rev = e.rev + 1

(* Announcements of a status are not revisions. *)
NumbersOK ==
    /\ \A t \in Tx : NumberOK(tx[t], stream)
    /\ \A a \in Account : \A e \in stream[a] : e.kind # "message" => e.rev = 0

----------------------------------------------------------------------------
(* Sequences *)

(* A function on 1..n is a sequence of length n, and one that goes on for one more element *)
(* is that sequence with the element appended.                                             *)
LEMMA Grows ==
    ASSUME NEW S, NEW n \in Nat, NEW s \in [1..n -> S], NEW e \in S, NEW u \in [1..(n + 1) -> S],
           \A i \in 1..n : u[i] = s[i], u[n + 1] = e
    PROVE  s \in Seq(S) /\ Len(s) = n /\ u = Append(s, e)
<1>1. s \in Seq(S) /\ Len(s) = n
  BY SMT
<1>2. u \in Seq(S) /\ Len(u) = n + 1
  BY SMT
<1>3. /\ Append(s, e) \in Seq(S) /\ Len(Append(s, e)) = n + 1
      /\ \A i \in 1..n : Append(s, e)[i] = s[i]
      /\ Append(s, e)[n + 1] = e
  BY <1>1, SMT
<1>4. \A i \in 1..(n + 1) : u[i] = Append(s, e)[i]
  BY <1>3, SMT
<1> QED
  BY <1>2, <1>3, <1>4, SMT

----------------------------------------------------------------------------
(* Revision numbers *)

(* A statement that only moves transaction t to x. *)
LEMMA NumbersMove ==
    ASSUME IInv, NumbersOK, NEW t \in Tx, NEW x, tx' = [tx EXCEPT ![t] = x], UNCHANGED stream,
           NumberOK(x, stream)
    PROVE  NumbersOK'
<1>1. ASSUME NEW u \in Tx PROVE NumberOK(tx'[u], stream)
  <2>1. tx'[u] = IF u = t THEN x ELSE tx[u]
    BY DEF IInv, TypeOK
  <2> QED
    BY <2>1 DEF NumbersOK
<1> QED
  BY <1>1 DEF NumbersOK

(* A request that ends delivers nothing. *)
LEMMA NumbersEnd ==
    ASSUME IInv, NumbersOK, NEW t \in Tx, End(t), UNCHANGED stream
    PROVE  NumbersOK'
<1>1. NumberOK(Idle, stream)
  <2>1. Idle.pc = "idle"
    BY DEF Idle
  <2>2. Idle.pc \notin Sending
    BY <2>1, SMT DEF Sending
  <2> QED
    BY <2>2 DEF NumberOK
<1> QED
  BY <1>1, NumbersMove DEF End

(* A statement of a transaction: a revision follows the newest one that was delivered. *)
LEMMA NumbersStatement ==
    ASSUME IInv, FInv, NumbersOK, NEW t \in Tx, NEW x, tx' = [tx EXCEPT ![t] = x], Moved(t, x),
           UNCHANGED stream
    PROVE  NumbersOK'
<1> SUFFICES ASSUME x.pc \in Sending, x.req.op \in Revisals
             PROVE  x.rev = 1 \/ \E a \in Account : \E e \in stream[a] : x.rev = e.rev + 1
  BY NumbersMove DEF NumberOK
<1>1. x.req.op \notin Sends /\ x.req.op \notin Receipts
  BY SMT DEF Sends, Revisals, Receipts
<1>2. CASE tx[t].pc \in Sending /\ x.rev = tx[t].rev
  BY <1>2 DEF NumbersOK, NumberOK, Moved
<1>3. ASSUME NEW n \in Revisions(Target(x.req)), x.rev = n + 1
      PROVE  x.rev = 1 \/ \E a \in Account : \E e \in stream[a] : x.rev = e.rev + 1
  <2>1. n = 0 \/ \E a \in Account : \E e \in stream[a] : n = e.rev
    BY <1>3 DEF Revisions
  <2>2. n = 0 => x.rev = 1
    BY <1>3, SMT
  <2> QED
    BY <1>3, <2>1, <2>2
<1> QED
  BY <1>1, <1>2, <1>3 DEF Moved

(* A commit: announcements carry no revision number. *)
LEMMA NumbersCommit ==
    ASSUME IInv, FInv, NumbersOK, NEW t \in Tx, tx[t].pc = "commit", Deliver(t), End(t)
    PROVE  NumbersOK'
<1>1. ASSUME NEW u \in Tx PROVE NumberOK(tx'[u], stream')
  <2>1. tx'[u] = IF u = t THEN Idle ELSE tx[u]
    BY DEF End, IInv, TypeOK
  <2>2. CASE u = t
    <3>1. tx'[u].pc = Idle.pc /\ Idle.pc = "idle"
      BY <2>1, <2>2 DEF Idle
    <3>2. tx'[u].pc \notin Sending
      BY <3>1, SMT DEF Sending
    <3> QED
      BY <3>2 DEF NumberOK
  <2>3. CASE u # t
    <3>1. \A a \in Account : stream[a] \subseteq stream'[a]
      BY Delivered
    <3>2. NumberOK(tx[u], stream)
      BY DEF NumbersOK
    <3>3. NumberOK(tx[u], stream')
      BY <3>1, <3>2 DEF NumberOK
    <3> QED
      BY <2>1, <2>3, <3>3
  <2> QED
    BY <2>2, <2>3
<1>2. ASSUME NEW a \in Account, NEW e \in stream'[a], e.kind # "message" PROVE e.rev = 0
  <2>1. CASE e \in stream[a]
    BY <1>2, <2>1 DEF NumbersOK
  <2>2. CASE e \notin stream[a]
    <3>0. \A f \in stream'[a] \ stream[a] :
            f.rev = tx[t].rev /\ f.kind = IF tx[t].req.op \in Receipts THEN tx[t].status ELSE "message"
      BY ZenonT(40), Delivered
    <3>1. e.rev = tx[t].rev /\ e.kind = IF tx[t].req.op \in Receipts THEN tx[t].status ELSE "message"
      BY <2>2, <3>0
    <3>2. tx[t].req.op \in Receipts
      BY <1>2, <3>1
    <3>3. FanOK(tx[t])
      BY FanKnown
    <3> QED
      BY <3>1, <3>2, <3>3 DEF FanOK, RevOK
  <2> QED
    BY <2>1, <2>2
<1> QED
  BY <1>1, <1>2 DEF NumbersOK

(* Every step of the store preserves the revision numbers. *)
LEMMA NumbersNext == IInv /\ FInv /\ NumbersOK /\ [Next]_vars => NumbersOK'
<1> SUFFICES ASSUME IInv, FInv, NumbersOK, [Next]_vars PROVE NumbersOK'
  OBVIOUS
<1>1. ASSUME NEW t \in Tx, NEW r \in Request, Begin(t, r) PROVE NumbersOK'
  <2> DEFINE x == [Idle EXCEPT !.pc = IF r.op \in Sends THEN "refresh" ELSE "lock",
                               !.req = r, !.as = AccessOf(r), !.at = clock]
  <2>1. x.pc = IF r.op \in Sends THEN "refresh" ELSE "lock"
    BY DEF Idle
  <2>2. tx' = [tx EXCEPT ![t] = x] /\ UNCHANGED stream
    BY <1>1 DEF Begin, tables
  <2> HIDE DEF x
  <2>3. x.pc \notin Sending
    BY <2>1, SMT DEF Sending
  <2> QED
    BY <2>2, <2>3, NumbersMove DEF NumberOK
<1>2. ASSUME NEW t \in Tx, Step(t) PROVE NumbersOK'
  <2>1. CASE CommitSend(t) \/ CommitRevision(t) \/ CommitReceipt(t)
    <3>1. tx[t].pc = "commit" /\ Deliver(t) /\ End(t)
      BY <2>1 DEF CommitSend, CommitRevision, CommitReceipt
    <3> QED
      BY <3>1, NumbersCommit
  <2>2. CASE ~(CommitSend(t) \/ CommitRevision(t) \/ CommitReceipt(t))
    <3>1. /\ UNCHANGED stream
          /\ End(t) \/ \E x : tx' = [tx EXCEPT ![t] = x] /\ Moved(t, x)
      BY <1>2, <2>2, StatementMoves DEF tables
    <3>2. CASE End(t)
      BY <3>1, <3>2, NumbersEnd
    <3>3. ASSUME NEW x, tx' = [tx EXCEPT ![t] = x], Moved(t, x) PROVE NumbersOK'
      BY <3>1, <3>3, NumbersStatement
    <3> QED
      BY <3>1, <3>2, <3>3
  <2> QED
    BY <2>1, <2>2
<1>3. ASSUME NEW t \in Tx, Abort(t) PROVE NumbersOK'
  BY <1>3, NumbersEnd DEF Abort, tables
<1>4. ASSUME UNCHANGED <<tx, stream>> PROVE NumbersOK'
  BY <1>4 DEF NumbersOK
<1>5. ASSUME NEW c \in Conversation, NEW a \in Account,
             \/ Join(c, a) \/ Leave(c, a) \/ DeleteDraft(c, a)
             \/ \E v \in 0..MaxDraft, b \in Body : PutDraft(c, a, v, b)
      PROVE  NumbersOK'
  <2>1. UNCHANGED <<tx, stream>>
    BY <1>5 DEF Join, Leave, DeleteDraft, PutDraft, SetDraft, tables
  <2> QED
    BY <1>4, <2>1
<1>6. ASSUME NEW a \in Account, DeleteAccount(a) PROVE NumbersOK'
  BY <1>4, <1>6 DEF DeleteAccount
<1>7. CASE UNCHANGED vars
  BY <1>4, <1>7 DEF vars
<1> QED
  BY <1>1, <1>2, <1>3, <1>5, <1>6, <1>7 DEF Next

(* The invariants hold always. *)
LEMMA NumbersInvariance == Spec => [](IInv /\ FInv /\ NumbersOK)
<1>1. Init => NumbersOK
  <2>1. ASSUME Init, NEW t \in Tx PROVE tx[t].pc \notin Sending
    <3>1. tx[t].pc = "idle"
      BY <2>1, SMT DEF Init, Idle
    <3> QED
      BY <3>1, SMT DEF Sending
  <2>2. ASSUME Init, NEW a \in Account PROVE stream[a] = {}
    BY <2>2, SMT DEF Init
  <2> QED
    BY <2>1, <2>2 DEF NumbersOK, NumberOK
<1> QED
  BY <1>1, FanInvariance, NumbersNext, PTL DEF Spec

----------------------------------------------------------------------------
(* What the mapping shows *)

(* What a reader sees of a delivery, and a stream s with the next sequence n as a feed. *)
Seen(e)      == [msg |-> e.msg, kind |-> e.kind, rev |-> e.rev]
Shown        == [msg : MsgId, kind : {"message", "delivered", "read"}, rev : Nat]
Gapless(s, n) ==
    /\ \A e \in s : e.seq \in 1..(n - 1)
    /\ \A i \in 1..(n - 1) : \E e \in s : e.seq = i
    /\ \A e, f \in s : e.seq = f.seq => e = f
FeedOf(s, n) == [i \in 1..(n - 1) |->
    LET e == CHOOSE e \in s : e.seq = i IN [msg |-> e.msg, kind |-> e.kind, rev |-> e.rev]]

(* A gapless stream is a sequence of its deliveries. *)
LEMMA FeedIs ==
    ASSUME NEW s \in SUBSET Event, NEW n \in Nat \ {0}, Gapless(s, n)
    PROVE  /\ FeedOf(s, n) \in [1..(n - 1) -> Shown]
           /\ \A e \in s : FeedOf(s, n)[e.seq] = Seen(e)
           /\ \A i \in 1..(n - 1) : \E e \in s : e.seq = i /\ FeedOf(s, n)[i] = Seen(e)
<1>1. \A e \in s : Seen(e) \in Shown
  BY SMT DEF Event, Seen, Shown
<1>2. ASSUME NEW e \in s PROVE FeedOf(s, n)[e.seq] = Seen(e)
  <2>1. e.seq \in 1..(n - 1)
    BY DEF Gapless
  <2> DEFINE d == CHOOSE d \in s : d.seq = e.seq
  <2>2. d \in s /\ d.seq = e.seq
    BY <1>2
  <2>3. d = e
    BY <2>2 DEF Gapless
  <2>4. FeedOf(s, n)[e.seq] = Seen(d)
    BY <2>1 DEF FeedOf, Seen
  <2> QED
    BY <2>3, <2>4
<1>3. ASSUME NEW i \in 1..(n - 1) PROVE \E e \in s : e.seq = i /\ FeedOf(s, n)[i] = Seen(e)
  <2>1. PICK e \in s : e.seq = i
    BY <1>3 DEF Gapless
  <2> QED
    BY <1>2, <2>1
<1>4. FeedOf(s, n) \in [1..(n - 1) -> Shown]
  <2>1. DOMAIN FeedOf(s, n) = 1..(n - 1) /\ FeedOf(s, n) = [i \in 1..(n - 1) |-> FeedOf(s, n)[i]]
    BY DEF FeedOf
  <2>2. \A i \in 1..(n - 1) : FeedOf(s, n)[i] \in Shown
    BY <1>1, <1>3
  <2> QED
    BY <2>1, <2>2
<1> QED
  BY <1>2, <1>3, <1>4

(* The feeds of the mapping, before and after a step. *)
LEMMA FeedsAre ==
    ASSUME NEW a \in Account
    PROVE  /\ Feeds[a] = FeedOf(stream[a], next[a])
           /\ Feeds'[a] = FeedOf(stream'[a], next'[a])
<1>1. Feeds[a] = FeedOf(stream[a], next[a])
  BY DEF Feeds, FeedOf, Nth
<1>2. Feeds'[a] = FeedOf(stream'[a], next'[a])
  BY DEF Feeds, FeedOf, Nth
<1> QED
  BY <1>1, <1>2

(* The events an account is told are the ones of its stream. *)
LEMMA ToldIs ==
    ASSUME IInv, NEW a \in Account
    PROVE  /\ Feeds[a] \in [1..(next[a] - 1) -> Shown] /\ next[a] - 1 \in Nat
           /\ \A x \in Feed!Told(a) : \E e \in stream[a] : x = Seen(e)
           /\ \A e \in stream[a] : Seen(e) \in Feed!Told(a)
<1>1. stream[a] \in SUBSET Event /\ next[a] \in Nat \ {0} /\ Gapless(stream[a], next[a])
  BY DEF IInv, TypeOK, StreamsContiguous, Gapless
<1>2. next[a] - 1 \in Nat
  BY <1>1, SMT
<1>3. /\ Feeds[a] \in [1..(next[a] - 1) -> Shown]
      /\ \A e \in stream[a] : Feeds[a][e.seq] = Seen(e)
      /\ \A i \in 1..(next[a] - 1) : \E e \in stream[a] : e.seq = i /\ Feeds[a][i] = Seen(e)
  <2> DEFINE s == stream[a]
             n == next[a]
  <2>1. Feeds[a] = FeedOf(s, n)
    BY FeedsAre
  <2> HIDE DEF s, n
  <2>2. /\ FeedOf(s, n) \in [1..(n - 1) -> Shown]
        /\ \A e \in s : FeedOf(s, n)[e.seq] = Seen(e)
        /\ \A i \in 1..(n - 1) : \E e \in s : e.seq = i /\ FeedOf(s, n)[i] = Seen(e)
    BY <1>1, FeedIs DEF s, n
  <2> QED
    BY <2>1, <2>2 DEF s, n
<1>4. Len(Feeds[a]) = next[a] - 1
  BY <1>2, <1>3, SMT
<1>5. Feed!Told(a) = {Feeds[a][i] : i \in 1..(next[a] - 1)}
  BY <1>4 DEF Feed!Told
<1>6. ASSUME NEW x \in Feed!Told(a) PROVE \E e \in stream[a] : x = Seen(e)
  <2>1. PICK i \in 1..(next[a] - 1) : x = Feeds[a][i]
    BY <1>5, <1>6
  <2> QED
    BY <1>3, <2>1
<1>7. ASSUME NEW e \in stream[a] PROVE Seen(e) \in Feed!Told(a)
  <2>1. e.seq \in 1..(next[a] - 1) /\ Feeds[a][e.seq] = Seen(e)
    BY <1>1, <1>3 DEF Gapless
  <2> QED
    BY <1>5, <2>1
<1> QED
  BY <1>2, <1>3, <1>6, <1>7

(* What a transaction tells, to whom it tells it (Deliver, EventOf). *)
EventSeen(t) ==
    [msg |-> MsgOf(t), kind |-> IF tx[t].req.op \in Receipts THEN tx[t].status ELSE "message",
     rev |-> tx[t].rev]

(* One more delivery is one more element of the feed. *)
LEMMA FeedGrows ==
    ASSUME NEW s \in SUBSET Event, NEW n \in Nat \ {0}, Gapless(s, n),
           NEW u \in SUBSET Event, Gapless(u, n + 1), s \subseteq u, NEW e \in u, e.seq = n
    PROVE  FeedOf(u, n + 1) = Append(FeedOf(s, n), Seen(e))
<1> DEFINE k == n - 1
           f == FeedOf(s, n)
           g == FeedOf(u, n + 1)
<1>1. k \in Nat /\ n + 1 \in Nat \ {0} /\ (n + 1) - 1 = k + 1 /\ k + 1 = n
  BY SMT
<1>2. /\ f \in [1..k -> Shown]
      /\ \A d \in s : f[d.seq] = Seen(d)
      /\ \A i \in 1..k : \E d \in s : d.seq = i /\ f[i] = Seen(d)
  BY FeedIs
<1>3. /\ g \in [1..((n + 1) - 1) -> Shown]
      /\ \A d \in u : g[d.seq] = Seen(d)
  <2> DEFINE m == n + 1
  <2>1. m \in Nat \ {0} /\ Gapless(u, m)
    BY <1>1
  <2> HIDE DEF m
  <2>2. FeedOf(u, m) \in [1..(m - 1) -> Shown] /\ \A d \in u : FeedOf(u, m)[d.seq] = Seen(d)
    BY <2>1, FeedIs
  <2> QED
    BY <2>2 DEF m
<1> HIDE DEF f, g, k
<1>4. ASSUME NEW i \in 1..k PROVE g[i] = f[i]
  <2>1. PICK d \in s : d.seq = i /\ f[i] = Seen(d)
    BY <1>2
  <2> QED
    BY <1>3, <2>1
<1>5. g[k + 1] = Seen(e) /\ g \in [1..(k + 1) -> Shown]
  BY <1>1, <1>3
<1>6. Seen(e) \in Shown
  BY SMT DEF Event, Seen, Shown
<1> DEFINE z == Seen(e)
<1>7. z \in Shown /\ g[k + 1] = z
  BY <1>5, <1>6
<1> HIDE DEF z
<1>8. g = Append(f, z)
  BY <1>1, <1>2, <1>4, <1>5, <1>7, Grows, SMT
<1> QED
  BY <1>8 DEF f, g, z

(* A commit tells its event to everyone in its fan-out and to nobody else. *)
LEMMA FeedsGrow ==
    ASSUME IInv, FInv, NEW t \in Tx, tx[t].pc = "commit", Deliver(t)
    PROVE  Feeds' = [a \in Account |-> IF a \in Reached(tx[t])
                                       THEN Append(Feeds[a], EventSeen(t)) ELSE Feeds[a]]
<1>1. tx[t] \in TxState /\ TxOK(tx[t]) /\ FanOK(tx[t])
  BY FanKnown
<1>2. tx[t].todo = {} /\ \A o \in tx[t].out : o.seq = next[o.to]
  BY <1>1 DEF FanOK, CoverOK, TxOK, OutOK
<1>3. /\ stream' \in [Account -> SUBSET Event] /\ next' \in [Account -> Nat \ {0}]
      /\ StreamsContiguous'
  BY DeliverStep
<1>4. ASSUME NEW a \in Account
      PROVE  /\ stream[a] \in SUBSET Event /\ next[a] \in Nat \ {0} /\ Gapless(stream[a], next[a])
             /\ stream'[a] \in SUBSET Event /\ Gapless(stream'[a], next'[a])
  <2>1. Gapless(stream'[a], next'[a])
    BY <1>3 DEF StreamsContiguous, Gapless
  <2> QED
    BY <1>3, <2>1 DEF IInv, TypeOK, StreamsContiguous, Gapless
<1>5. ASSUME NEW a \in Account, a \in Reached(tx[t])
      PROVE  Feeds'[a] = Append(Feeds[a], EventSeen(t))
  <2>1. PICK o \in tx[t].out : o.to = a
    BY <1>2, <1>5 DEF Reached
  <2> DEFINE e == EventOf(t, o.seq)
             n == next[a]
             s == stream[a]
             u == stream'[a]
  <2>2. u = s \cup {EventOf(t, x.seq) : x \in {y \in tx[t].out : y.to = a}} /\ next'[a] = n + 1
    BY <2>1 DEF Deliver
  <2>3. e \in u /\ s \subseteq u
    <3> HIDE DEF e
    <3>1. e \in {EventOf(t, x.seq) : x \in {y \in tx[t].out : y.to = a}}
      BY <2>1 DEF e
    <3> QED
      BY <2>2, <3>1
  <2>4. e.seq = n /\ Seen(e) = EventSeen(t)
    <3>1. o.seq = n
      BY <1>2, <2>1
    <3> QED
      BY <3>1 DEF EventOf, Seen, EventSeen
  <2>5. Feeds[a] = FeedOf(s, n) /\ Feeds'[a] = FeedOf(u, n + 1)
    BY <2>2, FeedsAre
  <2>6. s \in SUBSET Event /\ n \in Nat \ {0} /\ Gapless(s, n) /\ u \in SUBSET Event /\ Gapless(u, n + 1)
    BY <1>4, <2>2
  <2> HIDE DEF e, n, s, u
  <2>7. FeedOf(u, n + 1) = Append(FeedOf(s, n), Seen(e))
    BY ZenonT(40), <2>3, <2>4, <2>6, FeedGrows
  <2> QED
    BY <2>4, <2>5, <2>7
<1>6. ASSUME NEW a \in Account, a \notin Reached(tx[t])
      PROVE  Feeds'[a] = Feeds[a]
  <2>1. \A o \in tx[t].out : o.to # a
    BY <1>6 DEF Reached
  <2>2. stream'[a] = stream[a] /\ next'[a] = next[a]
    BY <2>1 DEF Deliver
  <2> QED
    BY <2>2, FeedsAre
<1>7. Feeds' = [a \in Account |-> Feeds'[a]]
  BY DEF Feeds
<1> QED
  BY <1>5, <1>6, <1>7

(* What a reader sees of a message in its conversation's log. *)
EntryOf(row) == [sender |-> row.sender, key |-> row.key]
Entries      == [sender : Account, key : Key]

(* The log of a conversation is the sequence of its messages. *)
LEMMA LogIs ==
    ASSUME IInv, NEW c \in Conversation
    PROVE  /\ nextSeq[c] - 1 \in Nat /\ Log[c] \in [1..(nextSeq[c] - 1) -> Entries]
           /\ Len(Log[c]) = nextSeq[c] - 1
           /\ \A n \in 1..(nextSeq[c] - 1) :
                <<c, n>> \in MsgId /\ message[<<c, n>>] # NoMessage
                  /\ Log[c][n] = EntryOf(message[<<c, n>>])
<1>1. nextSeq[c] \in 1..(MaxMessages + 1) /\ MaxMessages \in Nat
  BY ConstantsAssumption DEF IInv, TypeOK
<1>2. nextSeq[c] - 1 \in Nat
  BY <1>1, SMT
<1>3. ASSUME NEW n \in 1..(nextSeq[c] - 1)
      PROVE  /\ <<c, n>> \in MsgId /\ message[<<c, n>>] # NoMessage
             /\ Log[c][n] = EntryOf(message[<<c, n>>]) /\ EntryOf(message[<<c, n>>]) \in Entries
  <2>1. n \in 1..MaxMessages /\ n < nextSeq[c]
    BY <1>1, SMT
  <2>2. <<c, n>> \in MsgId /\ message[<<c, n>>] # NoMessage
    BY <2>1 DEF MsgId, IInv, ConversationsContiguous
  <2>3. message[<<c, n>>] \in Row
    BY <2>2 DEF IInv, TypeOK
  <2>4. EntryOf(message[<<c, n>>]) \in Entries
    BY <2>3 DEF Row, EntryOf, Entries
  <2> QED
    BY <2>2, <2>4 DEF Log, EntryOf
<1>4. Log[c] \in [1..(nextSeq[c] - 1) -> Entries]
  <2>1. Log[c] = [n \in 1..(nextSeq[c] - 1) |-> Log[c][n]]
    BY DEF Log
  <2> QED
    BY <1>3, <2>1
<1>5. Len(Log[c]) = nextSeq[c] - 1
  BY <1>2, <1>4, SMT
<1> QED
  BY <1>2, <1>3, <1>4, <1>5

(* The accepted messages are the stored ones. *)
LEMMA AcceptedIs ==
    ASSUME IInv, NEW m
    PROVE  /\ (m \in Feed!Accepted) <=> (m \in MsgId /\ message[m] # NoMessage)
           /\ m \in Feed!Accepted => Feed!Entry(m) = EntryOf(message[m])
<1>1. ASSUME m \in Feed!Accepted
      PROVE  m \in MsgId /\ message[m] # NoMessage /\ Feed!Entry(m) = EntryOf(message[m])
  <2>1. PICK c \in Conversation : m \in {<<c, n>> : n \in 1..Len(Log[c])}
    BY <1>1 DEF Feed!Accepted
  <2>2. PICK n \in 1..(nextSeq[c] - 1) : m = <<c, n>>
    BY <2>1, LogIs
  <2>3. m[1] = c /\ m[2] = n
    BY <2>2, SMT
  <2> QED
    BY <2>2, <2>3, LogIs DEF Feed!Entry
<1>2. ASSUME m \in MsgId, message[m] # NoMessage PROVE m \in Feed!Accepted
  <2>1. PICK c \in Conversation, n \in 1..MaxMessages : m = <<c, n>>
    BY <1>2, SMT DEF MsgId
  <2>2. n < nextSeq[c] /\ nextSeq[c] \in 1..(MaxMessages + 1) /\ MaxMessages \in Nat
    BY <1>2, <2>1, ConstantsAssumption DEF IInv, TypeOK, ConversationsContiguous
  <2>3. n \in 1..(nextSeq[c] - 1)
    BY <2>2, SMT
  <2>4. Len(Log[c]) = nextSeq[c] - 1
    BY LogIs
  <2> DEFINE S(d) == {<<d, k>> : k \in 1..Len(Log[d])}
  <2>5. m \in S(c)
    BY <2>1, <2>3, <2>4
  <2>6. Feed!Accepted = UNION {S(d) : d \in Conversation}
    BY DEF Feed!Accepted
  <2> HIDE DEF S
  <2> QED
    BY <2>5, <2>6
<1> QED
  BY <1>1, <1>2

(* A step that inserts no message and changes no sender or key leaves the logs alone. *)
LEMMA LogSame ==
    ASSUME IInv, nextSeq' = nextSeq,
           \A m \in MsgId : message[m] # NoMessage =>
              message'[m].sender = message[m].sender /\ message'[m].key = message[m].key
    PROVE  Log' = Log
<1>1. ASSUME NEW c \in Conversation, NEW n \in 1..(nextSeq[c] - 1)
      PROVE  message'[<<c, n>>].sender = message[<<c, n>>].sender
             /\ message'[<<c, n>>].key = message[<<c, n>>].key
  BY LogIs
<1>2. ASSUME NEW c \in Conversation PROVE Log'[c] = Log[c]
  <2>1. Log'[c] = [n \in 1..(nextSeq[c] - 1) |->
                     [sender |-> message'[<<c, n>>].sender, key |-> message'[<<c, n>>].key]]
    BY DEF Log
  <2>2. Log[c] = [n \in 1..(nextSeq[c] - 1) |->
                     [sender |-> message[<<c, n>>].sender, key |-> message[<<c, n>>].key]]
    BY DEF Log
  <2> QED
    BY <1>1, <2>1, <2>2
<1>3. Log' = [c \in Conversation |-> Log'[c]] /\ Log = [c \in Conversation |-> Log[c]]
  BY DEF Log
<1> QED
  BY <1>2, <1>3

(* The revisions of the streams are numbers. *)
LEMMA RevTyped ==
    ASSUME IInv, NEW a \in Account, NEW e \in stream[a]
    PROVE  e.rev \in Nat
<1>1. e \in Event
  BY DEF IInv, TypeOK
<1> QED
  BY <1>1 DEF Event

(* Whatever an account is told is an event of its stream. *)
LEMMA ToldOnly ==
    ASSUME IInv, NEW a \in Account, NEW x \in Feed!Told(a)
    PROVE  \E e \in stream[a] : e.msg = x.msg /\ e.kind = x.kind /\ e.rev = x.rev
<1>1. PICK e \in stream[a] : x = Seen(e)
  BY ToldIs
<1>2. Seen(e).msg = e.msg /\ Seen(e).kind = e.kind /\ Seen(e).rev = e.rev
  BY DEF Seen
<1> QED
  BY <1>1, <1>2

(* A commit tells its event, if nobody in its fan-out was told it before. *)
LEMMA CommitTells ==
    ASSUME IInv, FInv, NEW t \in Tx, tx[t].pc = "commit", Deliver(t),
           \A a \in Reached(tx[t]) : \A e \in stream[a] :
              ~(/\ e.msg = MsgOf(t) /\ e.rev = tx[t].rev
                /\ e.kind = IF tx[t].req.op \in Receipts THEN tx[t].status ELSE "message")
    PROVE  Feed!Tell(Reached(tx[t]), EventSeen(t)) /\ Reached(tx[t]) \in SUBSET Account
<1>1. Reached(tx[t]) \in SUBSET Account
  <2>1. tx[t] \in TxState
    BY FanKnown
  <2>2. tx[t].todo \subseteq Account /\ \A o \in tx[t].out : o.to \in Account
    BY <2>1, SMT DEF TxState
  <2> QED
    BY <2>2 DEF Reached
<1>2. ASSUME NEW a \in Reached(tx[t]), EventSeen(t) \in Feed!Told(a) PROVE FALSE
  <2>1. PICK e \in stream[a] :
           e.msg = EventSeen(t).msg /\ e.kind = EventSeen(t).kind /\ e.rev = EventSeen(t).rev
    BY <1>1, <1>2, ToldOnly
  <2>2. /\ EventSeen(t).msg = MsgOf(t) /\ EventSeen(t).rev = tx[t].rev
        /\ EventSeen(t).kind = IF tx[t].req.op \in Receipts THEN tx[t].status ELSE "message"
    BY DEF EventSeen
  <2> QED
    BY <2>1, <2>2
<1> QED
  BY <1>1, <1>2, FeedsGrow DEF Feed!Tell

----------------------------------------------------------------------------
(* Each commit is one step of MessageFeed *)

(* A send appends its message to the log of its conversation. *)
LEMMA SendLogs ==
    ASSUME IInv, NEW t \in Tx, CommitSend(t)
    PROVE  Log' = [Log EXCEPT ![tx[t].req.conv] =
                     Append(@, [sender |-> tx[t].req.actor, key |-> tx[t].req.key])]
<1> DEFINE r == tx[t].req
           c == r.conv
           n == tx[t].seq
           row == [sender |-> r.actor, key |-> r.key, body |-> r.body, status |-> "sent",
                   edits |-> 0, deleted |-> FALSE]
           e == [sender |-> r.actor, key |-> r.key]
<1>1. tx[t].pc = "commit" /\ r.op \in Sends /\ message' = [message EXCEPT ![MsgOf(t)] = row]
      /\ nextSeq' = [nextSeq EXCEPT ![c] = n + 1]
  BY DEF CommitSend
<1>2. TxOK(tx[t]) /\ r \in Request
  BY <1>1, TxTyped DEF IInv
<1>3. c \in Conversation /\ r.actor \in Account /\ r.key \in Key
  BY <1>2, RequestAssumption
<1>4. MsgOf(t) = <<c, n>> /\ n = nextSeq[c] /\ n \in 1..MaxMessages
  BY <1>1, <1>2 DEF MsgOf, TxOK, TargetOK, Writing
<1>5. row.sender = r.actor /\ row.key = r.key
  OBVIOUS
<1>6. <<c, n>> \in MsgId
  BY <1>3, <1>4, SMT DEF MsgId
<1>7. message' = [message EXCEPT ![<<c, n>>] = row] /\ message \in [MsgId -> Row \cup {NoMessage}]
      /\ nextSeq' = [nextSeq EXCEPT ![c] = n + 1] /\ nextSeq \in [Conversation -> 1..(MaxMessages + 1)]
  BY <1>1, <1>4 DEF IInv, TypeOK
<1> HIDE DEF row, n, c
<1>8. message'[<<c, n>>] = row /\ \A m \in MsgId : m # <<c, n>> => message'[m] = message[m]
  BY <1>6, <1>7
<1>9. nextSeq'[c] = n + 1 /\ \A d \in Conversation : d # c => nextSeq'[d] = nextSeq[d]
  BY <1>3, <1>7
<1>10. ASSUME NEW d \in Conversation, NEW i \in 1..(nextSeq[d] - 1)
       PROVE  message'[<<d, i>>] = message[<<d, i>>]
  <2>1. d = c => i # n
    BY <1>3, <1>4, <1>7, <1>10, SMT
  <2>2. <<d, i>> # <<c, n>>
    BY <2>1, SMT
  <2> QED
    BY <1>8, <2>2, LogIs
<1>11. ASSUME NEW d \in Conversation, d # c PROVE Log'[d] = Log[d]
  <2>1. Log'[d] = [i \in 1..(nextSeq[d] - 1) |->
                     [sender |-> message'[<<d, i>>].sender, key |-> message'[<<d, i>>].key]]
    BY <1>9, <1>11 DEF Log
  <2>2. Log[d] = [i \in 1..(nextSeq[d] - 1) |->
                     [sender |-> message[<<d, i>>].sender, key |-> message[<<d, i>>].key]]
    BY DEF Log
  <2> QED
    BY ZenonT(40), <1>10, <2>1, <2>2
<1>12. Log'[c] = Append(Log[c], e)
  <2> DEFINE k == n - 1
             u == Log'[c]
             s == Log[c]
  <2>1. k \in Nat /\ k + 1 = n /\ (n + 1) - 1 = n
    BY <1>4, <1>7, <1>3, SMT
  <2>2. s \in [1..k -> Entries] /\ \A i \in 1..k : s[i] = EntryOf(message[<<c, i>>])
    BY <1>3, <1>4, LogIs
  <2>3. u = [i \in 1..n |-> [sender |-> message'[<<c, i>>].sender, key |-> message'[<<c, i>>].key]]
    BY <1>3, <1>9, <2>1 DEF Log
  <2>4. u = [i \in 1..n |-> EntryOf(message'[<<c, i>>])]
    BY <2>3 DEF EntryOf
  <2>5. e \in Entries
    BY <1>3 DEF Entries
  <2>6. EntryOf(row) = e
    BY <1>5 DEF EntryOf
  <2> HIDE DEF u, s, e, k
  <2>7. n \in 1..n /\ \A i \in 1..k : i \in 1..n
    BY <2>1, SMT
  <2>8. u[n] = e /\ \A i \in 1..k : u[i] = s[i]
    <3>1. u[n] = e
      BY <1>8, <2>4, <2>6, <2>7
    <3>2. ASSUME NEW i \in 1..k PROVE u[i] = s[i]
      <4>1. i \in 1..(nextSeq[c] - 1)
        BY <1>4 DEF k
      <4>2. message'[<<c, i>>] = message[<<c, i>>]
        BY <1>3, <1>10, <4>1
      <4>3. u[i] = EntryOf(message'[<<c, i>>])
        BY <2>4, <2>7
      <4> QED
        BY <2>2, <4>2, <4>3
    <3> QED
      BY <3>1, <3>2
  <2>9. u \in [1..(k + 1) -> Entries]
    <3>1. \A i \in 1..n : i \in 1..k \/ i = n
      BY <2>1, SMT
    <3>2. \A i \in 1..n : u[i] \in Entries
      BY <2>2, <2>5, <2>8, <3>1
    <3>3. u = [i \in 1..n |-> u[i]]
      BY <2>4
    <3> QED
      BY <2>1, <3>2, <3>3
  <2>10. u = Append(s, e)
    BY <2>1, <2>2, <2>5, <2>8, <2>9, Grows, SMT
  <2> QED
    BY <2>10 DEF u, s
<1>13. Log' = [d \in Conversation |-> Log'[d]] /\ Log = [d \in Conversation |-> Log[d]]
  BY DEF Log
<1>14. Log' = [Log EXCEPT ![c] = Append(Log[c], e)]
  <2> HIDE DEF e
  <2> QED
    BY <1>3, <1>11, <1>12, <1>13
<1> QED
  BY <1>14 DEF c

(* A committed send is the acceptance of one message with its first fan-out. *)
LEMMA SendAccepts ==
    ASSUME IInv, FInv, NEW t \in Tx, CommitSend(t)
    PROVE  \E c \in Conversation, s \in Account, k \in Key, to \in SUBSET Account :
             Feed!Accept(c, s, k, to)
<1> DEFINE r == tx[t].req
           c == r.conv
           n == tx[t].seq
           row == [sender |-> r.actor, key |-> r.key, body |-> r.body, status |-> "sent",
                   edits |-> 0, deleted |-> FALSE]
           to == Reached(tx[t])
           e == [msg |-> <<c, Len(Log[c]) + 1>>, kind |-> "message", rev |-> 1]
<1>1. tx[t].pc = "commit" /\ r.op \in Sends /\ message' = [message EXCEPT ![MsgOf(t)] = row]
      /\ Deliver(t)
  BY DEF CommitSend
<1>2. TxOK(tx[t]) /\ r \in Request /\ FanOK(tx[t])
  BY <1>1, FanKnown
<1>3. c \in Conversation /\ r.actor \in Account /\ r.key \in Key /\ r.op = "send"
  BY <1>1, <1>2, RequestAssumption DEF Sends
<1>4. MsgOf(t) = <<c, n>> /\ n = nextSeq[c] /\ n \in 1..MaxMessages
  BY <1>1, <1>2 DEF MsgOf, TxOK, TargetOK, Writing
<1>5. <<c, n>> \in MsgId /\ message[<<c, n>>] = NoMessage
  <2>1. ~(n < nextSeq[c])
    BY <1>4, SMT
  <2>2. <<c, n>> \in MsgId
    BY <1>3, <1>4, SMT DEF MsgId
  <2> QED
    BY <1>3, <1>4, <2>1, <2>2 DEF IInv, ConversationsContiguous
<1>6. tx[t].rev = 1 /\ r.op \notin Receipts
  <2>1. "commit" \in Sending \cup {"reply"} /\ r.op \notin Receipts
    BY <1>3, SMT DEF Sending, Receipts
  <2> QED
    BY <1>1, <1>2, <2>1 DEF FanOK, RevOK
<1>7. EventSeen(t) = e
  <2>1. Len(Log[c]) = nextSeq[c] - 1
    BY <1>3, LogIs
  <2>2. Len(Log[c]) + 1 = n
    BY <1>4, <2>1, SMT
  <2> QED
    BY <1>4, <1>6, <2>2 DEF EventSeen
<1>8. Feed!Tell(to, e) /\ to \in SUBSET Account
  <2>1. ASSUME NEW a \in to, NEW d \in stream[a] PROVE d.msg # MsgOf(t)
    <3>1. a \in Account
      <4>1. tx[t] \in TxState
        BY <1>1, FanKnown
      <4>2. tx[t].todo \subseteq Account /\ \A o \in tx[t].out : o.to \in Account
        BY <4>1, SMT DEF TxState
      <4> QED
        BY <2>1, <4>2 DEF Reached
    <3> QED
      BY <1>4, <1>5, <3>1 DEF FInv, EventsStored
  <2>2. Feed!Tell(to, EventSeen(t)) /\ to \in SUBSET Account
    BY <1>1, <2>1, CommitTells
  <2> QED
    BY <1>7, <2>2
<1>9. \A m \in Feed!Accepted : ~(Feed!Entry(m).sender = r.actor /\ Feed!Entry(m).key = r.key)
  <2> SUFFICES ASSUME NEW m \in Feed!Accepted,
                      Feed!Entry(m).sender = r.actor, Feed!Entry(m).key = r.key
               PROVE  FALSE
    OBVIOUS
  <2>1. m \in MsgId /\ message[m] # NoMessage /\ Feed!Entry(m) = EntryOf(message[m])
    BY AcceptedIs
  <2> DEFINE old == message[m]
  <2>2. EntryOf(old).sender = old.sender /\ EntryOf(old).key = old.key
    BY DEF EntryOf
  <2>3. PICK i \in idem : i.actor = old.sender /\ i.op = "send" /\ i.key = old.key
    BY <2>1 DEF IInv, RecordsOK
  <2>4. Records(r) = {}
    BY <1>1, <1>2, <1>6 DEF TxOK, ClaimOK, Writing
  <2>5. i.actor = r.actor /\ i.op = r.op /\ i.key = r.key
    <3> HIDE DEF old, r
    <3> QED
      BY <1>3, <2>1, <2>2, <2>3 DEF old
  <2> QED
    BY <2>4, <2>5 DEF Records
<1>10. Tomb' = Tomb
  <2>1. row.deleted = FALSE
    OBVIOUS
  <2> HIDE DEF row
  <2>2. message'[<<c, n>>] = row /\ \A m \in MsgId : m # <<c, n>> => message'[m] = message[m]
    BY <1>1, <1>4, <1>5 DEF IInv, TypeOK
  <2>3. \A m \in MsgId : (message'[m] # NoMessage /\ message'[m].deleted)
                            <=> (message[m] # NoMessage /\ message[m].deleted)
    BY <1>5, <2>1, <2>2
  <2> QED
    BY <2>3 DEF Tomb
<1>11. Feed!Accept(c, r.actor, r.key, to)
  BY <1>8, <1>9, <1>10, SendLogs DEF Feed!Accept
<1> QED
  BY <1>3, <1>8, <1>11

(* An edit or a tombstone keeps the sender and the key; only a tombstone deletes. *)
LEMMA RevisedIs ==
    ASSUME NEW y \in Row, NEW r, r.op = "edit" => r.body \in Body
    PROVE  /\ Revised(y, r) \in Row
           /\ Revised(y, r).sender = y.sender /\ Revised(y, r).key = y.key
           /\ Revised(y, r).deleted = IF r.op = "edit" THEN y.deleted ELSE TRUE
<1>1. CASE r.op = "edit"
  <2> DEFINE b == r.body
             n == y.edits + 1
             row == [y EXCEPT !.body = b, !.edits = n]
  <2>1. b \in Body /\ n \in Nat /\ Revised(y, r) = row
    <3>1. y.edits \in Nat
      BY DEF Row
    <3>2. n \in Nat
      BY <3>1, SMT
    <3> QED
      BY <1>1, <3>2 DEF Revised
  <2>2. row \in Row /\ row.sender = y.sender /\ row.key = y.key /\ row.deleted = y.deleted
    <3> HIDE DEF b, n
    <3> QED
      BY <2>1 DEF Row
  <2> HIDE DEF row
  <2> QED
    BY <1>1, <2>1, <2>2
<1>2. CASE r.op # "edit"
  <2> DEFINE row == [y EXCEPT !.deleted = TRUE]
  <2>1. Revised(y, r) = row
    BY <1>2 DEF Revised
  <2>2. row \in Row /\ row.sender = y.sender /\ row.key = y.key /\ row.deleted = TRUE
    BY DEF Row
  <2> HIDE DEF row
  <2> QED
    BY <1>2, <2>1, <2>2
<1> QED
  BY <1>1, <1>2

(* A committed edit or tombstone is the next revision of a message that is alive. *)
LEMMA RevisionRevises ==
    ASSUME IInv, FInv, NumbersOK, NEW t \in Tx, CommitRevision(t)
    PROVE  \E m \in Feed!Accepted : \E rev \in Feed!Later, to \in SUBSET Account :
             Feed!Revise(m, rev, to)
<1> DEFINE r == tx[t].req
           m == Target(r)
           v == tx[t].rev
           old == message[m]
           row == Revised(old, r)
           to == Reached(tx[t])
           e == [msg |-> m, kind |-> "message", rev |-> v]
<1>1. tx[t].pc = "commit" /\ r.op \in Revisals /\ message' = [message EXCEPT ![m] = row]
      /\ Deliver(t) /\ nextSeq' = nextSeq
  BY DEF CommitRevision
<1>2. TxOK(tx[t]) /\ r \in Request /\ FanOK(tx[t]) /\ tx[t] \in TxState
  BY <1>1, FanKnown
<1>3. r.op \notin Sends /\ r.op \notin Receipts /\ "commit" \in Sending
  BY <1>1, SMT DEF Sends, Revisals, Receipts, Sending
<1>4. m \in MsgId /\ old # NoMessage /\ MsgOf(t) = m
  <2>1. m \in MsgId
    BY SMT, <1>2, <1>3, RequestAssumption DEF Target, MsgId
  <2> QED
    BY <1>1, <1>2, <1>3, <2>1 DEF TxOK, TargetOK, MsgOf
<1>5. old \in Row /\ ~old.deleted
  BY <1>1, <1>2, <1>3, <1>4 DEF IInv, TypeOK, FanOK, AliveOK
<1>6. /\ row # NoMessage /\ row.sender = old.sender /\ row.key = old.key
      /\ row.deleted = IF r.op = "edit" THEN old.deleted ELSE TRUE
  <2>1. r.op = "edit" => r.body \in Body
    BY <1>2, RequestAssumption
  <2> HIDE DEF r, old
  <2>2. /\ Revised(old, r) \in Row
        /\ Revised(old, r).sender = old.sender /\ Revised(old, r).key = old.key
        /\ Revised(old, r).deleted = IF r.op = "edit" THEN old.deleted ELSE TRUE
    BY <1>5, <2>1, RevisedIs
  <2> QED
    BY <2>2, ConstantsAssumption
<1>7. \A k \in MsgId : message'[k] = IF k = m THEN row ELSE message[k]
  <2> HIDE DEF row, m
  <2> QED
    BY <1>1 DEF IInv, TypeOK
<1>8. Log' = Log
  <2> HIDE DEF row
  <2>1. ASSUME NEW k \in MsgId
        PROVE  message'[k].sender = message[k].sender /\ message'[k].key = message[k].key
    BY <1>6, <1>7
  <2> QED
    BY <1>1, <2>1, LogSame
<1>9. m \in Feed!Accepted /\ m \notin Tomb
  BY <1>4, <1>5, AcceptedIs DEF Tomb
<1>10. Tomb' \in {Tomb, Tomb \cup {m}}
  <2> HIDE DEF row
  <2>1. CASE r.op = "edit"
    <3>1. \A k \in MsgId : (message'[k] # NoMessage /\ message'[k].deleted)
                              <=> (message[k] # NoMessage /\ message[k].deleted)
      BY <1>4, <1>6, <1>7, <2>1
    <3> QED
      BY <3>1 DEF Tomb
  <2>2. CASE r.op # "edit"
    <3>1. \A k \in MsgId : (message'[k] # NoMessage /\ message'[k].deleted)
                              <=> (k = m \/ (message[k] # NoMessage /\ message[k].deleted))
      BY <1>4, <1>6, <1>7, <2>2
    <3>2. Tomb' = Tomb \cup {m}
      BY <1>4, <3>1 DEF Tomb
    <3> QED
      BY <3>2
  <2> QED
    BY <2>1, <2>2
<1>11. \A a \in Account : \A d \in stream[a] : d.msg = m => d.rev < v
  <2> SUFFICES ASSUME NEW a \in Account, NEW d \in stream[a], d.msg = m PROVE d.rev < v
    OBVIOUS
  <2>1. CASE d.kind = "message"
    BY <1>1, <1>2, <1>3, <2>1 DEF FanOK, RevOK
  <2>2. CASE d.kind # "message"
    <3>1. d.rev = 0 /\ v \in Nat
      BY <1>2, <2>2 DEF NumbersOK, TxState
    <3>2. v = 1 \/ \E b \in Account : \E f \in stream[b] : v = f.rev + 1
      BY <1>1, <1>3 DEF NumbersOK, NumberOK
    <3>3. \A b \in Account : \A f \in stream[b] : f.rev \in Nat
      BY RevTyped
    <3> QED
      BY <3>1, <3>2, <3>3, SMT
  <2> QED
    BY <2>1, <2>2
<1>12. ASSUME NEW a \in Account, NEW x \in Feed!Told(a), x.msg = m PROVE x.rev < v
  <2>1. PICK d \in stream[a] : d.msg = x.msg /\ d.kind = x.kind /\ d.rev = x.rev
    BY ToldOnly
  <2> QED
    BY <1>11, <1>12, <2>1
<1>13. v \in Feed!Later
  <2>1. v = 1 \/ \E b \in Account : \E f \in stream[b] : v = f.rev + 1
    BY <1>1, <1>3 DEF NumbersOK, NumberOK
  <2>2. ASSUME NEW b \in Account, NEW f \in stream[b], v = f.rev + 1 PROVE v \in Feed!Later
    <3>1. Seen(f) \in Feed!Told(b) /\ Seen(f).rev = f.rev
      BY ToldIs DEF Seen
    <3>2. Seen(f) \in UNION {Feed!Told(a) : a \in Account}
      BY <3>1
    <3> QED
      BY <2>2, <3>1, <3>2 DEF Feed!Later
  <2> QED
    BY <2>1, <2>2 DEF Feed!Later
<1>14. Feed!Tell(to, e) /\ to \in SUBSET Account
  <2>1. ASSUME NEW a \in to, NEW d \in stream[a] PROVE ~(d.msg = MsgOf(t) /\ d.rev = v)
    <3>1. tx[t].todo \subseteq Account /\ \A o \in tx[t].out : o.to \in Account
      BY <1>2, SMT DEF TxState
    <3>2. a \in Account
      BY <2>1, <3>1 DEF Reached
    <3>3. d.rev \in Nat /\ (d.msg = m => d.rev < v)
      BY <1>11, <3>2, RevTyped
    <3> QED
      BY <1>4, <3>3, SMT
  <2>2. Feed!Tell(to, EventSeen(t)) /\ to \in SUBSET Account
    BY <1>1, <2>1, CommitTells
  <2>3. EventSeen(t) = e
    BY <1>3, <1>4 DEF EventSeen
  <2> QED
    BY <2>2, <2>3
<1>15. Feed!Revise(m, v, to)
  BY <1>8, <1>9, <1>10, <1>12, <1>14 DEF Feed!Revise
<1> QED
  BY <1>9, <1>13, <1>14, <1>15

(* A committed receipt announces the advance of a status to the sender, or nothing. *)
LEMMA ReceiptAnnounces ==
    ASSUME IInv, FInv, NEW t \in Tx, CommitReceipt(t)
    PROVE  \/ UNCHANGED <<Log, Tomb, Feeds>>
           \/ \E m \in Feed!Accepted : \E status \in {"delivered", "read"} : Feed!Announce(m, status)
<1> DEFINE r == tx[t].req
           m == Target(r)
           new == tx[t].status
           old == message[m]
           row == [old EXCEPT !.status = new]
           to == Reached(tx[t])
           e == [msg |-> m, kind |-> new, rev |-> 0]
<1>1. tx[t].pc = "commit" /\ r.op \in Receipts /\ message' = [message EXCEPT ![m] = row]
      /\ Deliver(t) /\ nextSeq' = nextSeq
  BY DEF CommitReceipt
<1>2. TxOK(tx[t]) /\ r \in Request /\ FanOK(tx[t]) /\ tx[t] \in TxState
  BY <1>1, FanKnown
<1>3. r.op \notin Sends /\ r.op \notin Revisals /\ "commit" \in Sending
  BY <1>1, SMT DEF Sends, Revisals, Receipts, Sending
<1>4. m \in MsgId /\ old # NoMessage /\ MsgOf(t) = m
  <2>1. m \in MsgId
    BY SMT, <1>2, <1>3, RequestAssumption DEF Target, MsgId
  <2> QED
    BY <1>1, <1>2, <1>3, <2>1 DEF TxOK, TargetOK, MsgOf
<1>5. old \in Row /\ new \in Status /\ old.sender \in Account
  <2>1. old \in Row /\ new \in Status
    BY <1>2, <1>4 DEF IInv, TypeOK, TxState
  <2> HIDE DEF old
  <2> QED
    BY <2>1 DEF Row
<1>6. /\ row # NoMessage /\ row.sender = old.sender /\ row.key = old.key /\ row.deleted = old.deleted
  <2> HIDE DEF old, new
  <2>1. row \in Row /\ row.sender = old.sender /\ row.key = old.key /\ row.deleted = old.deleted
    BY <1>5 DEF Row
  <2> QED
    BY <2>1, ConstantsAssumption
<1>7. \A k \in MsgId : message'[k] = IF k = m THEN row ELSE message[k]
  <2> HIDE DEF row, m
  <2> QED
    BY <1>1 DEF IInv, TypeOK
<1>8. Log' = Log /\ Tomb' = Tomb
  <2> HIDE DEF row
  <2>1. ASSUME NEW k \in MsgId
        PROVE  message'[k].sender = message[k].sender /\ message'[k].key = message[k].key
    BY <1>6, <1>7
  <2>2. \A k \in MsgId : (message'[k] # NoMessage /\ message'[k].deleted)
                            <=> (message[k] # NoMessage /\ message[k].deleted)
    BY <1>4, <1>6, <1>7
  <2>3. Tomb' = Tomb
    BY <2>2 DEF Tomb
  <2> QED
    BY <1>1, <2>1, <2>3, LogSame
<1>9. (new = old.status /\ to = {}) \/ (Advances(old.status, new) /\ to = {old.sender})
  BY <1>1, <1>2, <1>3 DEF FanOK, AdvanceOK
<1>10. CASE to = {}
  <2>1. Feeds' = [a \in Account |-> IF a \in to THEN Append(Feeds[a], EventSeen(t)) ELSE Feeds[a]]
    BY <1>1, FeedsGrow
  <2>2. Feeds = [a \in Account |-> Feeds[a]]
    BY DEF Feeds
  <2>3. Feeds' = Feeds
    BY <1>10, <2>1, <2>2
  <2> QED
    BY <1>8, <2>3
<1>11. CASE Advances(old.status, new) /\ to = {old.sender}
  <2>1. \/ new = "read" /\ old.status # "read"
        \/ new = "delivered" /\ old.status = "sent"
    BY <1>11, SMT DEF Advances
  <2>2. StoryOK(m, old.status, stream[old.sender])
    BY <1>4 DEF FInv, Stories
  <2>3. Told(stream[old.sender], m, new) = {} /\ Told(stream[old.sender], m, "read") = {}
    <3>1. old.status # "read"
      BY <2>1, SMT
    <3> QED
      BY <2>1, <2>2, <3>1 DEF StoryOK
  <2>4. ASSUME NEW d \in stream[old.sender], d.msg = m PROVE d.kind # new /\ d.kind # "read"
    BY <2>3, <2>4 DEF Told
  <2>5. tx[t].rev = 0
    BY <1>1, <1>2 DEF FanOK, RevOK
  <2>6. Feed!Tell(to, e)
    <3>1. Feed!Tell(to, EventSeen(t))
      BY <1>1, <1>4, <1>11, <2>4, CommitTells
    <3>2. EventSeen(t) = e
      BY <1>1, <1>4, <2>5 DEF EventSeen
    <3> QED
      BY <3>1, <3>2
  <2>7. m \in Feed!Accepted /\ Feed!Entry(m).sender = old.sender
    <3>1. m \in Feed!Accepted /\ Feed!Entry(m) = EntryOf(old)
      BY <1>4, AcceptedIs
    <3>2. EntryOf(old).sender = old.sender
      BY DEF EntryOf
    <3> QED
      BY <3>1, <3>2
  <2>8. ASSUME NEW x \in Feed!Told(old.sender) PROVE ~(x.msg = m /\ x.kind = "read")
    <3>1. PICK d \in stream[old.sender] : d.msg = x.msg /\ d.kind = x.kind /\ d.rev = x.rev
      BY <1>5, ToldOnly
    <3> QED
      BY <2>4, <3>1
  <2>9. Feed!Announce(m, new)
    BY <1>8, <1>11, <2>6, <2>7, <2>8 DEF Feed!Announce
  <2> QED
    BY <2>1, <2>7, <2>9
<1> QED
  BY <1>9, <1>10, <1>11

----------------------------------------------------------------------------
(* The theorem *)

(* The empty store is the empty log and the empty feeds. *)
LEMMA FeedInit == Init => Feed!Init
<1> SUFFICES ASSUME Init PROVE Feed!Init
  OBVIOUS
<1>1. 1 - 1 = 0 /\ 1..0 = {}
  BY SMT
<1>2. ASSUME NEW c \in Conversation PROVE Log[c] = <<>>
  <2>1. nextSeq[c] = 1
    BY DEF Init
  <2>2. Log[c] = [n \in 1..0 |-> [sender |-> message[<<c, n>>].sender, key |-> message[<<c, n>>].key]]
    BY <1>1, <2>1 DEF Log
  <2> QED
    BY <2>2, SMT
<1>3. ASSUME NEW a \in Account PROVE Feeds[a] = <<>>
  <2>1. next[a] = 1
    BY DEF Init
  <2>2. Feeds[a] = FeedOf(stream[a], 1)
    BY <2>1, FeedsAre
  <2>3. Feeds[a] = [i \in 1..0 |-> FeedOf(stream[a], 1)[i]]
    BY <1>1, <2>2 DEF FeedOf
  <2> QED
    BY <2>3, SMT
<1>4. Tomb = {}
  BY DEF Init, Tomb
<1>5. Log = [c \in Conversation |-> Log[c]] /\ Feeds = [a \in Account |-> Feeds[a]]
  BY DEF Log, Feeds
<1> QED
  BY <1>2, <1>3, <1>4, <1>5 DEF Feed!Init

(* Every step of the store is a step of MessageFeed or leaves the logs and feeds alone. *)
LEMMA FeedNext == IInv /\ FInv /\ NumbersOK /\ [Next]_vars => [Feed!Next]_(Feed!vars)
<1> SUFFICES ASSUME IInv, FInv, NumbersOK, [Next]_vars PROVE Feed!Next \/ UNCHANGED <<Log, Tomb, Feeds>>
  BY DEF Feed!vars
<1>1. ASSUME UNCHANGED <<message, nextSeq, stream, next>> PROVE UNCHANGED <<Log, Tomb, Feeds>>
  BY <1>1 DEF Log, Tomb, Feeds, Nth
<1>2. ASSUME NEW t \in Tx, Step(t) PROVE Feed!Next \/ UNCHANGED <<Log, Tomb, Feeds>>
  <2>1. CASE CommitSend(t)
    BY <2>1, SendAccepts DEF Feed!Next
  <2>2. CASE CommitRevision(t)
    BY <2>2, RevisionRevises DEF Feed!Next
  <2>3. CASE CommitReceipt(t)
    BY <2>3, ReceiptAnnounces DEF Feed!Next
  <2>4. CASE ~(CommitSend(t) \/ CommitRevision(t) \/ CommitReceipt(t))
    <3>1. UNCHANGED <<message, nextSeq, stream, next>>
      BY <1>2, <2>4, StatementMoves DEF tables
    <3> QED
      BY <1>1, <3>1
  <2> QED
    BY <2>1, <2>2, <2>3, <2>4
<1>3. ASSUME NEW t \in Tx, (\E r \in Request : Begin(t, r)) \/ Abort(t)
      PROVE  UNCHANGED <<Log, Tomb, Feeds>>
  <2>1. UNCHANGED <<message, nextSeq, stream, next>>
    BY <1>3 DEF Begin, Abort, tables
  <2> QED
    BY <1>1, <2>1
<1>4. ASSUME NEW c \in Conversation, NEW a \in Account,
             \/ Join(c, a) \/ Leave(c, a) \/ DeleteDraft(c, a)
             \/ \E v \in 0..MaxDraft, b \in Body : PutDraft(c, a, v, b)
      PROVE  UNCHANGED <<Log, Tomb, Feeds>>
  <2>1. UNCHANGED <<message, nextSeq, stream, next>>
    BY <1>4 DEF Join, Leave, DeleteDraft, PutDraft, SetDraft, tables
  <2> QED
    BY <1>1, <2>1
<1>5. ASSUME NEW a \in Account, DeleteAccount(a) PROVE UNCHANGED <<Log, Tomb, Feeds>>
  BY <1>1, <1>5 DEF DeleteAccount
<1>6. CASE UNCHANGED vars
  BY <1>1, <1>6 DEF vars
<1> QED
  BY <1>2, <1>3, <1>4, <1>5, <1>6 DEF Next

(* Sending, revising and acknowledging behave like atomic appends: whatever transactions  *)
(* overlap, are retried or roll back, each commit adds one message or one event, with all *)
(* its deliveries, at the end of the feeds (send_message, revise_message, record_receipt).*)
THEOREM ImplementsFeed == Spec => FeedSpec
BY FeedInit, FeedNext, NumbersInvariance, PTL DEF Spec, FeedSpec, Feed!Spec
=============================================================================
