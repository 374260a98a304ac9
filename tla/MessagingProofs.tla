-------------------------- MODULE MessagingProofs --------------------------
(***************************************************************************)
(* Messaging is correct for every set of accounts, conversations, requests *)
(* and concurrent transactions: its types, the gapless streams and         *)
(* conversations, and exactly-once acceptance.  Commits publish what their *)
(* locks reserved, so they invalidate no other choice; with the steps of   *)
(* MessagingInvariant that makes the invariant inductive.                  *)
(***************************************************************************)
EXTENDS MessagingInvariant

(* A leaf goes to Zenon unless it names another prover; the ones that need
   arithmetic, tuples or EXCEPT name SMT. *)
USE Zenon

----------------------------------------------------------------------------
(* Commits *)

(* The deliveries of a commit continue each stream they go to, and leave alone every      *)
(* stream another transaction has a delivery for (Deliver).                               *)
LEMMA DeliverStep ==
    ASSUME IInv, NEW t \in Tx, tx[t].pc = "commit", Deliver(t)
    PROVE  /\ stream' \in [Account -> SUBSET Event]
           /\ next' \in [Account -> Nat \ {0}]
           /\ StreamsContiguous'
           /\ \A u \in Tx \ {t} : \A o \in tx[u].out : next'[o.to] = next[o.to]
<1>1. tx[t] \in TxState /\ TxOK(tx[t])
  BY TxTyped DEF IInv
<1>2. \A o \in tx[t].out : /\ o.to \in Account /\ o.seq = next[o.to] /\ o.seq \in Nat
                           /\ Stream(o.to) \in tx[t].holds
  BY <1>1 DEF TxOK, OutOK, TxState
<1>3. \A o \in tx[t].out : EventOf(t, o.seq) \in Event /\ EventOf(t, o.seq).seq = o.seq
  <2>1. MsgOf(t) \in MsgId
    BY <1>1, MsgOfTyped DEF IInv
  <2>2. tx[t].rev \in Nat
    BY <1>1 DEF TxState
  <2>3. tx[t].out # {} /\ tx[t].req.op \in Receipts => tx[t].status \in Receipts
    BY <1>1 DEF TxOK, OutOK
  <2> QED
    BY <1>2, <2>1, <2>2, <2>3 DEF EventOf, Event, Receipts
<1>4. stream \in [Account -> SUBSET Event] /\ next \in [Account -> Nat \ {0}] /\ StreamsContiguous
  BY DEF IInv, TypeOK
<1>5. stream' \in [Account -> SUBSET Event]
  BY SMT, <1>3, <1>4 DEF Deliver
<1>6. next' \in [Account -> Nat \ {0}]
  BY SMT, <1>4 DEF Deliver
<1>7. StreamsContiguous'
  <2> SUFFICES ASSUME NEW a \in Account
               PROVE  /\ \A e \in stream'[a] : e.seq \in 1..(next'[a] - 1)
                      /\ \A n \in 1..(next'[a] - 1) : \E e \in stream'[a] : e.seq = n
                      /\ \A e, f \in stream'[a] : e.seq = f.seq => e = f
    BY DEF StreamsContiguous
  <2>1. CASE \A o \in tx[t].out : o.to # a
    <3>1. stream'[a] = stream[a] /\ next'[a] = next[a]
      BY <1>4, <2>1 DEF Deliver
    <3> QED
      BY SMT, <1>4, <3>1 DEF StreamsContiguous
  <2>2. CASE \E o \in tx[t].out : o.to = a
    <3> DEFINE new == EventOf(t, next[a])
    <3>1. stream'[a] = stream[a] \cup {new}
      BY <1>2, <2>2 DEF Deliver
    <3>2. next'[a] = next[a] + 1 /\ new.seq = next[a] /\ next[a] \in Nat \ {0}
      BY <1>2, <1>3, <1>4, <2>2 DEF Deliver
    <3>3. /\ \A e \in stream[a] : e.seq \in 1..(next[a] - 1)
          /\ \A n \in 1..(next[a] - 1) : \E e \in stream[a] : e.seq = n
          /\ \A e, f \in stream[a] : e.seq = f.seq => e = f
      BY <1>4 DEF StreamsContiguous
    <3> HIDE DEF new
    <3>4. \A e \in stream[a] : e.seq # next[a]
      BY SMT, <3>2, <3>3
    <3>5. \A e \in stream'[a] : e.seq \in 1..next[a]
      BY SMT, <3>1, <3>2, <3>3
    <3>6. \A n \in 1..next[a] : \E e \in stream'[a] : e.seq = n
      BY SMT, <3>1, <3>2, <3>3
    <3>7. \A e, f \in stream'[a] : e.seq = f.seq => e = f
      BY <3>1, <3>2, <3>3, <3>4
    <3> QED
      BY SMT, <3>2, <3>5, <3>6, <3>7
  <2> QED
    BY <2>1, <2>2
<1>8. ASSUME NEW u \in Tx \ {t}, NEW o \in tx[u].out PROVE next'[o.to] = next[o.to]
  <2>1. tx[u] \in TxState /\ TxOK(tx[u])
    BY DEF IInv, TypeOK
  <2>2. Stream(o.to) \in tx[u].holds /\ o.to \in Account
    BY SMT, <2>1 DEF TxOK, OutOK, TxState, Idle
  <2>3. Stream(o.to) \notin tx[t].holds
    BY <2>2 DEF IInv, Exclusive
  <2>4. \A v \in tx[t].out : v.to # o.to
    BY <1>2, <2>3
  <2> QED
    BY <2>2, <2>4 DEF Deliver
<1> QED
  BY <1>5, <1>6, <1>7, <1>8

(* What a commit may not disturb of another transaction. *)
LEMMA OthersOK ==
    ASSUME IInv, NEW t \in Tx, NEW u \in Tx \ {t}, End(t),
           \A m \in MsgId : message[m] # NoMessage => message'[m] # NoMessage,
           \A o \in tx[u].out : next'[o.to] = next[o.to],
           \A c \in Conversation : Conv(c) \in tx[u].holds => nextSeq'[c] = nextSeq[c],
           \A i \in idem' : i \in idem \/ <<"idem", i.actor, i.op, i.key>> \in tx[t].holds
    PROVE  TxOK(tx[u])'
<1> DEFINE x == tx[u]
<1>1. tx'[u] = x /\ TxOK(x) /\ (x.pc # "idle" => x.req \in Request)
  BY DEF End, IInv, TypeOK
<1>2. CASE x.pc = "idle"
  BY <1>1, <1>2 DEF TxOK
<1>3. CASE x.pc # "idle"
  <2>1. x.req \in Request /\ PhaseOK(x) /\ TargetOK(x) /\ OutOK(x) /\ ClaimOK(x)
    BY <1>1, <1>3 DEF TxOK
  <2>2. TargetOK(tx[u])'
    <3>1. x.req.op \notin Sends => Target(x.req) \in MsgId
      BY SMT, <2>1, RequestAssumption DEF Target, MsgId
    <3>2. x.req.conv \in Conversation
      BY <2>1, RequestAssumption
    <3> QED
      BY <1>1, <2>1, <3>1, <3>2 DEF TargetOK
  <2>3. OutOK(tx[u])'
    BY <1>1, <2>1 DEF OutOK
  <2>4. ClaimOK(tx[u])'
    <3> SUFFICES ASSUME Idem(x.req) \in x.holds, Records(x.req) = {},
                        NEW i \in idem', i.actor = x.req.actor, i.op = x.req.op, i.key = x.req.key
                 PROVE  FALSE
      BY SMT, <1>1, <2>1 DEF ClaimOK, Records
    <3>1. i \notin idem
      BY DEF Records
    <3>2. Idem(x.req) \in tx[t].holds
      BY <3>1 DEF Idem
    <3> QED
      BY <3>2 DEF IInv, Exclusive
  <2>5. PhaseOK(tx[u])'
    BY <1>1, <2>1 DEF PhaseOK
  <2> QED
    BY <1>1, <2>1, <2>2, <2>3, <2>4, <2>5 DEF TxOK
<1> QED
  BY <1>2, <1>3

(* The transaction that ends is out of everybody's way. *)
LEMMA EndedTx ==
    ASSUME IInv, NEW t \in Tx, End(t)
    PROVE  /\ tx' \in [Tx -> TxState]
           /\ \A u \in Tx : tx'[u].pc # "idle" => tx'[u].req \in Request
           /\ TxOK(tx[t])'
           /\ Exclusive'
<1>1. Idle \in TxState /\ Idle.pc = "idle" /\ Idle.holds = {}
  BY SMT, ConstantsAssumption DEF Idle, TxState, Status
<1>2. tx' = [tx EXCEPT ![t] = Idle] /\ tx \in [Tx -> TxState]
  BY DEF End, IInv, TypeOK
<1>3. \A u \in Tx : tx'[u] = IF u = t THEN Idle ELSE tx[u]
  BY <1>2
<1>4. tx' \in [Tx -> TxState]
  BY <1>1, <1>2
<1>5. \A u \in Tx : tx'[u].pc # "idle" => tx'[u].req \in Request
  BY <1>1, <1>3 DEF IInv, TypeOK
<1>6. TxOK(tx[t])'
  BY <1>1, <1>3 DEF TxOK, Idle
<1>7. Exclusive'
  BY <1>1, <1>3 DEF IInv, Exclusive
<1> QED
  BY <1>4, <1>5, <1>6, <1>7

(* The recent-GIF list keeps rows of its type (Used). *)
LEMMA UsedTyped ==
    ASSUME IInv, NEW a \in Account, NEW g \in Gif, NEW at \in Nat
    PROVE  Used(a, g, at) \in SUBSET [gif : Gif, first : Nat, last : Nat]
<1> DEFINE R == [gif : Gif, first : Nat, last : Nat]
           old == {x \in recent[a] : x.gif = g}
           row == IF old = {} THEN {[gif |-> g, first |-> at, last |-> at]}
                  ELSE {[x EXCEPT !.last = at] : x \in old}
<1>1. recent[a] \in SUBSET R
  BY DEF IInv, TypeOK
<1>2. row \in SUBSET R
  BY SMT, <1>1
<1> HIDE DEF row, R, old
<1>3. Keep((recent[a] \ old) \cup row) \in SUBSET R
  BY <1>1, <1>2 DEF Keep
<1> QED
  BY <1>3 DEF Used, R, old, row

(* A completed key is new, and what it names exists (Complete, Answer). *)
LEMMA CompleteStep ==
    ASSUME IInv, NEW t \in Tx, tx[t].pc = "commit", tx[t].req.op \notin Receipts,
           Complete(t), Answer(t),
           \A m \in MsgId : message[m] # NoMessage =>
             message'[m] # NoMessage /\ message'[m].sender = message[m].sender
               /\ message'[m].key = message[m].key,
           \A m \in MsgId : message'[m] # NoMessage =>
             \/ message[m] # NoMessage
             \/ /\ m = MsgOf(t) /\ tx[t].req.op = "send"
                /\ message'[m].sender = tx[t].req.actor /\ message'[m].key = tx[t].req.key,
           message'[MsgOf(t)] # NoMessage
    PROVE  /\ RecordsOK'
           /\ answers' \in SUBSET Answered
           /\ \A i \in idem' : /\ i.actor \in Account /\ i.op \in Sends \cup Revisals
                               /\ i.key \in Key /\ i.msg \in MsgId
           /\ \A i \in idem' : i \in idem \/ <<"idem", i.actor, i.op, i.key>> \in tx[t].holds
<1> DEFINE r == tx[t].req
           rec == [actor |-> r.actor, op |-> r.op, key |-> r.key, hash |-> Hash(r), msg |-> MsgOf(t)]
           ans == [actor |-> r.actor, op |-> r.op, key |-> r.key, msg |-> MsgOf(t)]
<1>1. r \in Request /\ TxOK(tx[t]) /\ RecordsOK /\ MsgOf(t) \in MsgId
  BY TxTyped, MsgOfTyped DEF IInv
<1>2. r.actor \in Account /\ r.key \in Key /\ r.op \in Sends \cup Revisals
  BY <1>1, RequestAssumption
<1>3. Idem(r) \in tx[t].holds /\ Records(r) = {}
  BY <1>1 DEF TxOK, ClaimOK, Writing
<1>4. idem' = idem \cup {rec} /\ answers' \in {answers, answers \cup {ans}}
  BY DEF Complete, Answer
<1>5. /\ rec.actor = r.actor /\ rec.op = r.op /\ rec.key = r.key /\ rec.msg = MsgOf(t)
      /\ ans.actor = r.actor /\ ans.op = r.op /\ ans.key = r.key /\ ans.msg = MsgOf(t)
      /\ ans \in Answered
  BY <1>1, <1>2 DEF Answered
<1> HIDE DEF rec, ans
<1>6. \A i \in idem : ~(i.actor = r.actor /\ i.op = r.op /\ i.key = r.key)
  BY <1>3 DEF Records
<1>7. \A i, j \in idem' : i.actor = j.actor /\ i.op = j.op /\ i.key = j.key => i = j
  BY SMT, <1>1, <1>4, <1>5, <1>6 DEF RecordsOK
<1>8. \A i \in idem' : /\ i.actor \in Account /\ i.op \in Sends \cup Revisals
                       /\ i.key \in Key /\ i.msg \in MsgId
  BY <1>1, <1>2, <1>4, <1>5 DEF IInv, TypeOK
<1>9. \A i \in idem' : message'[i.msg] # NoMessage
  BY ZenonT(40), <1>1, <1>4, <1>5, <1>8 DEF RecordsOK
<1>10. \A m \in MsgId : message'[m] # NoMessage =>
         \E i \in idem' : /\ i.actor = message'[m].sender /\ i.op = "send"
                          /\ i.key = message'[m].key /\ i.msg = m
  BY SMT, <1>1, <1>4, <1>5 DEF RecordsOK
<1>11. \A x \in answers' :
         \E i \in idem' : i.actor = x.actor /\ i.op = x.op /\ i.key = x.key /\ i.msg = x.msg
  BY SMT, <1>1, <1>4, <1>5 DEF RecordsOK
<1>12. RecordsOK'
  BY <1>7, <1>9, <1>10, <1>11 DEF RecordsOK
<1>13. answers' \in SUBSET Answered
  BY SMT, <1>4, <1>5 DEF IInv, TypeOK
<1>14. \A i \in idem' : i \in idem \/ <<"idem", i.actor, i.op, i.key>> \in tx[t].holds
  BY <1>3, <1>4, <1>5 DEF Idem
<1> QED
  BY <1>8, <1>12, <1>13, <1>14

(* Replacing one entry of a table keyed by conversation and account keeps its type. *)
LEMMA EntryTyped ==
    ASSUME NEW S, NEW d \in [Conversation -> [Account -> S]],
           NEW c \in Conversation, NEW a \in Account, NEW v \in S
    PROVE  [d EXCEPT ![c][a] = v] \in [Conversation -> [Account -> S]]
OBVIOUS

(* A committed send stores one message at the sequence it locked. *)
LEMMA CommitSendStep ==
    ASSUME IInv, NEW t \in Tx, CommitSend(t)
    PROVE  IInv'
<1> DEFINE r == tx[t].req
           m == MsgOf(t)
           row == [sender |-> r.actor, key |-> r.key, body |-> r.body, status |-> "sent",
                   edits |-> 0, deleted |-> FALSE]
<1>1. /\ tx[t].pc = "commit" /\ r \in Request /\ r.op = "send" /\ TxOK(tx[t])
      /\ tx[t] \in TxState
  BY TxTyped DEF CommitSend, Sends, IInv
<1>2. /\ r.actor \in Account /\ r.key \in Key /\ r.conv \in Conversation /\ r.body \in Body
  BY <1>1, RequestAssumption
<1>3. /\ tx[t].seq \in 1..MaxMessages /\ tx[t].seq = nextSeq[r.conv]
      /\ Conv(r.conv) \in tx[t].holds /\ m = <<r.conv, tx[t].seq>> /\ m \in MsgId
  BY <1>1, <1>2 DEF TxOK, TargetOK, Writing, Sends, MsgOf, MsgId
<1>4. row \in Row /\ row # NoMessage /\ row.sender = r.actor /\ row.key = r.key
  <2>1. row \in Row /\ row.sender = r.actor /\ row.key = r.key
    BY <1>2 DEF Row, Status
  <2> HIDE DEF row
  <2> QED
    BY <2>1, ConstantsAssumption
<1>5. message \in [MsgId -> Row \cup {NoMessage}] /\ message' = [message EXCEPT ![m] = row]
  BY DEF IInv, TypeOK, CommitSend
<1> HIDE DEF row
<1>6. message' \in [MsgId -> Row \cup {NoMessage}]
      /\ \A k \in MsgId : message'[k] = IF k = m THEN row ELSE message[k]
  BY <1>3, <1>4, <1>5
<1>7. message[m] = NoMessage
  <2>1. ~(tx[t].seq < nextSeq[r.conv])
    BY SMT, <1>3, ConstantsAssumption
  <2> QED
    BY <1>2, <1>3, <2>1 DEF IInv, ConversationsContiguous
<1>8. /\ stream' \in [Account -> SUBSET Event] /\ next' \in [Account -> Nat \ {0}]
      /\ StreamsContiguous'
      /\ \A u \in Tx \ {t} : \A o \in tx[u].out : next'[o.to] = next[o.to]
  BY <1>1, DeliverStep DEF CommitSend
<1>9. /\ RecordsOK' /\ answers' \in SUBSET Answered
      /\ \A i \in idem' : /\ i.actor \in Account /\ i.op \in Sends \cup Revisals
                          /\ i.key \in Key /\ i.msg \in MsgId
      /\ \A i \in idem' : i \in idem \/ <<"idem", i.actor, i.op, i.key>> \in tx[t].holds
  <2>1. Complete(t) /\ Answer(t) /\ r.op \notin Receipts
    BY <1>1 DEF CommitSend, Receipts
  <2> HIDE DEF m
  <2>2. m = MsgOf(t)
    BY DEF m
  <2> QED
    BY <1>1, <1>3, <1>4, <1>6, <1>7, <2>1, <2>2, CompleteStep
<1>10. /\ nextSeq' = [nextSeq EXCEPT ![r.conv] = tx[t].seq + 1]
       /\ nextSeq \in [Conversation -> 1..(MaxMessages + 1)]
  BY DEF CommitSend, IInv, TypeOK
<1>11. /\ nextSeq' \in [Conversation -> 1..(MaxMessages + 1)]
       /\ \A c \in Conversation : nextSeq'[c] = IF c = r.conv THEN tx[t].seq + 1 ELSE nextSeq[c]
  <2>1. tx[t].seq + 1 \in 1..(MaxMessages + 1)
    BY SMT, <1>3, ConstantsAssumption
  <2> QED
    BY <1>2, <1>10, <2>1
<1>12. ConversationsContiguous'
  <2> SUFFICES ASSUME NEW c \in Conversation, NEW n \in 1..MaxMessages
               PROVE  message'[<<c, n>>] # NoMessage <=> n < nextSeq'[c]
    BY DEF ConversationsContiguous
  <2>1. <<c, n>> \in MsgId /\ (message[<<c, n>>] # NoMessage <=> n < nextSeq[c])
    BY DEF MsgId, IInv, ConversationsContiguous
  <2>2. nextSeq[c] \in Nat /\ n \in Nat
    BY SMT, <1>10, ConstantsAssumption
  <2>3. CASE c = r.conv /\ n = tx[t].seq
    BY SMT, <1>3, <1>4, <1>6, <1>11, <2>1, <2>2, <2>3
  <2>4. CASE c = r.conv /\ n # tx[t].seq
    BY SMT, <1>3, <1>6, <1>11, <2>1, <2>2, <2>4
  <2>5. CASE c # r.conv
    BY SMT, <1>3, <1>6, <1>11, <2>1, <2>5
  <2> QED
    BY <2>3, <2>4, <2>5
<1>13. ASSUME NEW u \in Tx \ {t} PROVE TxOK(tx[u])'
  <2>1. \A c \in Conversation : Conv(c) \in tx[u].holds => c # r.conv
    BY <1>3 DEF IInv, Exclusive
  <2>2. \A c \in Conversation : Conv(c) \in tx[u].holds => nextSeq'[c] = nextSeq[c]
    BY <1>11, <2>1
  <2>3. \A k \in MsgId : message[k] # NoMessage => message'[k] # NoMessage
    BY <1>4, <1>6
  <2>4. End(t)
    BY DEF CommitSend
  <2> QED
    BY <1>8, <1>9, <2>2, <2>3, <2>4, OthersOK
<1>14. draft' \in [Conversation -> [Account -> [version : Nat, body : Body \cup {NoBody}]]]
  <2> DEFINE S == [version : Nat, body : Body \cup {NoBody}]
             d == Clear(draft[r.conv][r.actor])
  <2>1. draft \in [Conversation -> [Account -> S]]
    BY DEF IInv, TypeOK
  <2>2. d \in S
    BY SMT, <1>2, <2>1 DEF Clear
  <2>3. draft' = [draft EXCEPT ![r.conv][r.actor] = d] \/ draft' = draft
    BY DEF CommitSend
  <2> HIDE DEF S, d
  <2>4. [draft EXCEPT ![r.conv][r.actor] = d] \in [Conversation -> [Account -> S]]
    BY <1>2, <2>1, <2>2, EntryTyped
  <2> QED
    BY <2>1, <2>3, <2>4 DEF S
<1>15. recent' \in [Account -> SUBSET [gif : Gif, first : Nat, last : Nat]]
  <2>1. recent \in [Account -> SUBSET [gif : Gif, first : Nat, last : Nat]] /\ tx[t].at \in Nat
    BY <1>1 DEF IInv, TypeOK, TxState
  <2>2. CASE ~TracksGif(r)
    BY <2>1, <2>2 DEF CommitSend
  <2>3. CASE TracksGif(r)
    <3>1. GifOf[r.body] \in Gif
      BY <1>2, <2>3, ConstantsAssumption DEF TracksGif
    <3>2. Used(r.actor, GifOf[r.body], tx[t].at) \in SUBSET [gif : Gif, first : Nat, last : Nat]
      BY <1>2, <2>1, <3>1, UsedTyped
    <3> QED
      BY <1>2, <2>1, <2>3, <3>2 DEF CommitSend
  <2> QED
    BY <2>2, <2>3
<1>16. /\ UNCHANGED <<receipts, joined, deleted, since, clock, attempts, refused>>
       /\ End(t)
  BY DEF CommitSend, people
<1>17. TypeOK'
  BY <1>6, <1>8, <1>9, <1>11, <1>14, <1>15, <1>16, EndedTx DEF IInv, TypeOK
<1> QED
  BY <1>8, <1>9, <1>12, <1>13, <1>16, <1>17, EndedTx DEF IInv

(* Revisions and receipts change one stored message and no sequence. *)
LEMMA TouchedMessage ==
    ASSUME IInv, NEW t \in Tx, tx[t].pc = "commit", tx[t].req.op \notin Sends,
           NEW row \in Row, row.sender = message[Target(tx[t].req)].sender,
           row.key = message[Target(tx[t].req)].key,
           message' = [message EXCEPT ![Target(tx[t].req)] = row]
    PROVE  /\ Target(tx[t].req) \in MsgId /\ message[Target(tx[t].req)] # NoMessage
           /\ message' \in [MsgId -> Row \cup {NoMessage}]
           /\ \A k \in MsgId : message'[k] # NoMessage <=> message[k] # NoMessage
           /\ \A k \in MsgId : message[k] # NoMessage =>
                message'[k].sender = message[k].sender /\ message'[k].key = message[k].key
<1> DEFINE m == Target(tx[t].req)
<1>1. m \in MsgId /\ message[m] # NoMessage
  <2>1. tx[t].req \in Request /\ TxOK(tx[t])
    BY TxTyped DEF IInv
  <2> QED
    BY SMT, <2>1, RequestAssumption DEF TxOK, TargetOK, Target, MsgId, Writing
<1>2. row # NoMessage
  BY ConstantsAssumption
<1>3. message \in [MsgId -> Row \cup {NoMessage}]
  BY DEF IInv, TypeOK
<1> HIDE DEF m
<1>4. message' = [message EXCEPT ![m] = row]
  BY DEF m
<1>5. \A k \in MsgId : message'[k] = IF k = m THEN row ELSE message[k]
  BY <1>1, <1>3, <1>4
<1>6. message' \in [MsgId -> Row \cup {NoMessage}]
  BY <1>1, <1>3, <1>4
<1> QED
  BY <1>1, <1>2, <1>5, <1>6 DEF m

(* A committed revision changes content, deletion mark or history of one message. *)
LEMMA CommitRevisionStep ==
    ASSUME IInv, NEW t \in Tx, CommitRevision(t)
    PROVE  IInv'
<1> DEFINE r == tx[t].req
           m == Target(r)
           row == Revised(message[m], r)
<1>1. /\ tx[t].pc = "commit" /\ r \in Request /\ r.op \in Revisals /\ TxOK(tx[t])
  BY TxTyped DEF CommitRevision, IInv
<1>2. r.op \notin Sends /\ r.op \notin Receipts /\ MsgOf(t) = m
      /\ (r.op = "edit" => r.body \in Body)
  BY <1>1, RequestAssumption DEF Sends, Revisals, Receipts, MsgOf
<1>3. m \in MsgId /\ message[m] # NoMessage /\ message[m] \in Row
  BY SMT, <1>1, <1>2, RequestAssumption DEF TxOK, TargetOK, Target, MsgId, IInv, TypeOK
<1>4. row \in Row /\ row.sender = message[m].sender /\ row.key = message[m].key
  <2> DEFINE x == message[m]
  <2>1. x \in Row
    BY <1>3
  <2> HIDE DEF m, x
  <2>2. CASE r.op = "edit"
    <3>1. row = [x EXCEPT !.body = r.body, !.edits = x.edits + 1]
      BY <2>2 DEF x, Revised
    <3> DEFINE b == r.body
               n == x.edits + 1
    <3>2. b \in Body /\ n \in Nat
      BY SMT, <1>2, <2>1, <2>2 DEF Row
    <3>3. row = [x EXCEPT !.body = b, !.edits = n]
      BY <3>1
    <3> HIDE DEF row, b, n
    <3>4. row \in Row /\ row.sender = x.sender /\ row.key = x.key
      BY <2>1, <3>2, <3>3 DEF Row
    <3> QED
      BY <3>4 DEF x
  <2>3. CASE r.op # "edit"
    <3>1. row = [x EXCEPT !.deleted = TRUE]
      BY <2>3 DEF x, Revised
    <3> HIDE DEF row
    <3> QED
      BY <2>1, <3>1 DEF Row, x
  <2> QED
    BY <2>2, <2>3
<1>5. message' = [message EXCEPT ![m] = row]
  BY DEF CommitRevision
<1> HIDE DEF row
<1>6. /\ message' \in [MsgId -> Row \cup {NoMessage}]
      /\ \A k \in MsgId : message'[k] # NoMessage <=> message[k] # NoMessage
      /\ \A k \in MsgId : message[k] # NoMessage =>
           message'[k].sender = message[k].sender /\ message'[k].key = message[k].key
  BY <1>1, <1>2, <1>4, <1>5, TouchedMessage
<1>7. /\ stream' \in [Account -> SUBSET Event] /\ next' \in [Account -> Nat \ {0}]
      /\ StreamsContiguous'
      /\ \A u \in Tx \ {t} : \A o \in tx[u].out : next'[o.to] = next[o.to]
  BY <1>1, DeliverStep DEF CommitRevision
<1>8. /\ RecordsOK' /\ answers' \in SUBSET Answered
      /\ \A i \in idem' : /\ i.actor \in Account /\ i.op \in Sends \cup Revisals
                          /\ i.key \in Key /\ i.msg \in MsgId
      /\ \A i \in idem' : i \in idem \/ <<"idem", i.actor, i.op, i.key>> \in tx[t].holds
  <2>1. Complete(t) /\ Answer(t)
    BY DEF CommitRevision
  <2> HIDE DEF m
  <2> QED
    BY <1>1, <1>2, <1>3, <1>6, <2>1, CompleteStep
<1>9. /\ UNCHANGED <<nextSeq, receipts, draft, recent, joined, deleted, since, clock, attempts, refused>>
      /\ End(t)
  BY DEF CommitRevision, people
<1>10. ASSUME NEW u \in Tx \ {t} PROVE TxOK(tx[u])'
  BY <1>6, <1>7, <1>8, <1>9, OthersOK
<1>11. ConversationsContiguous'
  BY <1>6, <1>9 DEF IInv, ConversationsContiguous, MsgId
<1>12. TypeOK'
  BY <1>6, <1>7, <1>8, <1>9, EndedTx DEF IInv, TypeOK
<1> QED
  BY <1>7, <1>8, <1>9, <1>10, <1>11, <1>12, EndedTx DEF IInv

(* A committed receipt changes one status and one receipt row. *)
LEMMA CommitReceiptStep ==
    ASSUME IInv, NEW t \in Tx, CommitReceipt(t)
    PROVE  IInv'
<1> DEFINE r == tx[t].req
           m == Target(r)
           row == [message[m] EXCEPT !.status = tx[t].status]
           R == [msg : MsgId, actor : Account, device : Device, status : Receipts]
<1>1. /\ tx[t].pc = "commit" /\ r \in Request /\ r.op \in Receipts /\ TxOK(tx[t])
      /\ tx[t].status \in Status
  BY TxTyped DEF CommitReceipt, IInv, TxState
<1>2. r.op \notin Sends /\ r.actor \in Account /\ r.device \in Device
  BY <1>1, RequestAssumption DEF Sends, Receipts
<1>3. m \in MsgId /\ message[m] # NoMessage /\ message[m] \in Row
  BY SMT, <1>1, <1>2, RequestAssumption DEF TxOK, TargetOK, Target, MsgId, IInv, TypeOK
<1>4. row \in Row /\ row.sender = message[m].sender /\ row.key = message[m].key
  BY <1>1, <1>3 DEF Row
<1>5. message' = [message EXCEPT ![m] = row]
  BY <1>3 DEF CommitReceipt, IInv, TypeOK
<1> HIDE DEF row
<1>6. /\ message' \in [MsgId -> Row \cup {NoMessage}]
      /\ \A k \in MsgId : message'[k] # NoMessage <=> message[k] # NoMessage
      /\ \A k \in MsgId : message[k] # NoMessage =>
           message'[k].sender = message[k].sender /\ message'[k].key = message[k].key
  BY <1>1, <1>2, <1>4, <1>5, TouchedMessage
<1>7. /\ stream' \in [Account -> SUBSET Event] /\ next' \in [Account -> Nat \ {0}]
      /\ StreamsContiguous'
      /\ \A u \in Tx \ {t} : \A o \in tx[u].out : next'[o.to] = next[o.to]
  BY <1>1, DeliverStep DEF CommitReceipt
<1>8. receipts' \in SUBSET R
  <2>1. receipts \in SUBSET R /\ receipts' = Upsert(receipts, r)
    BY DEF IInv, TypeOK, CommitReceipt
  <2>2. [msg |-> m, actor |-> r.actor, device |-> r.device, status |-> r.op] \in R
    BY <1>1, <1>2, <1>3
  <2> QED
    BY <2>1, <2>2 DEF Upsert
<1>9. /\ UNCHANGED <<nextSeq, idem, draft, recent, joined, deleted, since,
                     clock, attempts, answers, refused>>
      /\ End(t)
  BY DEF CommitReceipt, people, client
<1>10. ASSUME NEW u \in Tx \ {t} PROVE TxOK(tx[u])'
  BY <1>6, <1>7, <1>9, OthersOK
<1>11. ConversationsContiguous'
  BY <1>6, <1>9 DEF IInv, ConversationsContiguous, MsgId
<1>12. RecordsOK'
  <2>1. RecordsOK /\ \A i \in idem : i.msg \in MsgId
    BY DEF IInv, TypeOK
  <2> QED
    BY SMT, <1>6, <1>9, <2>1 DEF RecordsOK
<1>13. TypeOK'
  BY <1>6, <1>7, <1>8, <1>9, EndedTx DEF IInv, TypeOK
<1> QED
  BY <1>7, <1>9, <1>10, <1>11, <1>12, <1>13, EndedTx DEF IInv

----------------------------------------------------------------------------
(* What happens around message acceptance *)

(* Joining, leaving, account deletion and drafts touch neither transactions nor messages. *)
LEMMA PeopleStep ==
    ASSUME IInv,
           UNCHANGED <<message, nextSeq, stream, next, idem, receipts, tx, client>>,
           joined' \in [Conversation -> SUBSET Account], deleted' \in SUBSET Account,
           since' \in [Conversation -> [Account -> 1..(MaxMessages + 1)]],
           draft' \in [Conversation -> [Account -> [version : Nat, body : Body \cup {NoBody}]]],
           recent' \in [Account -> SUBSET [gif : Gif, first : Nat, last : Nat]]
    PROVE  IInv'
<1> USE DEF client
<1>1. TypeOK'
  BY DEF IInv, TypeOK
<1>2. ASSUME NEW u \in Tx PROVE TxOK(tx[u])'
  <2>1. TxOK(tx[u])
    BY DEF IInv
  <2> QED
    BY ZenonT(40), <2>1 DEF TxOK, PhaseOK, TargetOK, OutOK, ClaimOK, Records
<1>3. Exclusive' /\ StreamsContiguous'
  BY DEF IInv, Exclusive, StreamsContiguous
<1>4. ConversationsContiguous'
  BY DEF IInv, ConversationsContiguous
<1>5. RecordsOK'
  BY DEF IInv, RecordsOK
<1> QED
  BY <1>1, <1>2, <1>3, <1>4, <1>5 DEF IInv

(* delete_account clears the account's drafts and recent GIFs and its group memberships. *)
LEMMA DeleteAccountStep ==
    ASSUME IInv, NEW a \in Account, DeleteAccount(a)
    PROVE  IInv'
<1> DEFINE S == [version : Nat, body : Body \cup {NoBody}]
<1>0. /\ joined \in [Conversation -> SUBSET Account] /\ deleted \in SUBSET Account
      /\ since \in [Conversation -> [Account -> 1..(MaxMessages + 1)]]
      /\ draft \in [Conversation -> [Account -> S]]
      /\ recent \in [Account -> SUBSET [gif : Gif, first : Nat, last : Nat]]
  BY DEF IInv, TypeOK
<1>1. /\ UNCHANGED <<message, nextSeq, stream, next, idem, receipts, tx, client, since>>
      /\ deleted' = deleted \cup {a}
      /\ joined' = [k \in Conversation |-> IF k \in Direct THEN joined[k] ELSE joined[k] \ {a}]
      /\ draft' = [k \in Conversation |-> [draft[k] EXCEPT ![a] =
                     IF draft[k][a].body = NoBody THEN draft[k][a] ELSE Clear(draft[k][a])]]
      /\ recent' = [recent EXCEPT ![a] = {}]
  BY <1>0 DEF DeleteAccount
<1>2. ASSUME NEW k \in Conversation
      PROVE  (IF draft[k][a].body = NoBody THEN draft[k][a] ELSE Clear(draft[k][a])) \in S
  BY SMT, <1>0 DEF Clear
<1>3. draft' \in [Conversation -> [Account -> S]]
  <2> HIDE DEF S
  <2> QED
    BY <1>0, <1>1, <1>2
<1> QED
  BY <1>0, <1>1, <1>3, PeopleStep

(* Joining, leaving and the draft operations keep the types. *)
LEMMA AroundStep ==
    ASSUME IInv, NEW c \in Conversation, NEW a \in Account,
           \/ Join(c, a) \/ Leave(c, a) \/ DeleteDraft(c, a)
           \/ \E v \in 0..MaxDraft, b \in Body : PutDraft(c, a, v, b)
    PROVE  IInv'
<1> DEFINE S == [version : Nat, body : Body \cup {NoBody}]
           N == 1..(MaxMessages + 1)
<1>1. /\ joined \in [Conversation -> SUBSET Account] /\ deleted \in SUBSET Account
      /\ since \in [Conversation -> [Account -> N]]
      /\ draft \in [Conversation -> [Account -> S]]
      /\ recent \in [Account -> SUBSET [gif : Gif, first : Nat, last : Nat]]
      /\ nextSeq[c] \in N
  BY DEF IInv, TypeOK
<1>2. CASE Join(c, a)
  <2>1. /\ UNCHANGED <<message, nextSeq, stream, next, idem, receipts, tx, client,
                       deleted, draft, recent>>
        /\ joined' = [joined EXCEPT ![c] = @ \cup {a}]
        /\ since' = [since EXCEPT ![c][a] = nextSeq[c]]
    BY <1>2 DEF Join, tables
  <2>2. since' \in [Conversation -> [Account -> N]]
    <3> HIDE DEF N
    <3> QED
      BY SMT, <1>1, <2>1, EntryTyped
  <2> QED
    BY SMT, <1>1, <2>1, <2>2, PeopleStep
<1>3. CASE Leave(c, a)
  <2>1. /\ UNCHANGED <<message, nextSeq, stream, next, idem, receipts, tx, client,
                       deleted, since, draft, recent>>
        /\ joined' = [joined EXCEPT ![c] = @ \ {a}]
    BY <1>3 DEF Leave, tables
  <2> QED
    BY <1>1, <2>1, PeopleStep
<1>5. ASSUME NEW d \in S, SetDraft(c, a, d) PROVE IInv'
  <2>1. /\ UNCHANGED <<message, nextSeq, stream, next, idem, receipts, tx, client,
                       joined, deleted, since, recent>>
        /\ draft' = [draft EXCEPT ![c][a] = d]
    BY <1>5 DEF SetDraft, people
  <2>2. draft' \in [Conversation -> [Account -> S]]
    <3> HIDE DEF S
    <3> QED
      BY <1>1, <1>5, <2>1, EntryTyped
  <2> QED
    BY <1>1, <2>1, <2>2, PeopleStep
<1>6. CASE DeleteDraft(c, a)
  <2>1. Clear(draft[c][a]) \in S
    BY SMT, <1>1 DEF Clear
  <2> QED
    BY <1>5, <1>6, <2>1 DEF DeleteDraft
<1>7. ASSUME NEW v \in 0..MaxDraft, NEW b \in Body, PutDraft(c, a, v, b) PROVE IInv'
  <2>1. [version |-> draft[c][a].version + 1, body |-> b] \in S
    BY SMT, <1>1
  <2> QED
    BY <1>5, <1>7, <2>1 DEF PutDraft
<1> QED
  BY <1>2, <1>3, <1>6, <1>7

----------------------------------------------------------------------------
(* The theorems *)

(* The empty store satisfies the inductive invariant. *)
LEMMA InitOK == Init => IInv
<1> SUFFICES ASSUME Init PROVE IInv
  OBVIOUS
<1>1. Idle \in TxState
  BY SMT, ConstantsAssumption DEF Idle, TxState, Status
<1>2. tx = [t \in Tx |-> Idle] /\ Idle.pc = "idle" /\ Idle.holds = {}
  BY DEF Init, Idle
<1>3. TypeOK
  <2> HIDE DEF Init
  <2>1. /\ message \in [MsgId -> Row \cup {NoMessage}] /\ joined \in [Conversation -> SUBSET Account]
        /\ deleted \subseteq Account /\ recent \in [Account -> SUBSET [gif : Gif, first : Nat, last : Nat]]
        /\ stream \in [Account -> SUBSET Event] /\ next \in [Account -> Nat \ {0}]
        /\ nextSeq \in [Conversation -> 1..(MaxMessages + 1)]
        /\ since \in [Conversation -> [Account -> 1..(MaxMessages + 1)]]
        /\ clock \in Nat /\ attempts \in [Request -> 0..MaxAttempts]
        /\ idem = {} /\ receipts = {} /\ answers = {} /\ refused = {}
    BY SMT, ConstantsAssumption DEF Init
  <2>2. draft \in [Conversation -> [Account -> [version : Nat, body : Body \cup {NoBody}]]]
    BY DEF Init
  <2>3. tx \in [Tx -> TxState] /\ \A t \in Tx : tx[t].pc = "idle"
    BY <1>1, <1>2
  <2> QED
    BY <2>1, <2>2, <2>3 DEF TypeOK
<1>4. \A t \in Tx : TxOK(tx[t])
  BY <1>2 DEF TxOK
<1>5. Exclusive
  BY <1>2 DEF Exclusive
<1>6. StreamsContiguous
  BY SMT DEF Init, StreamsContiguous
<1>7. ConversationsContiguous
  BY SMT, ConstantsAssumption DEF Init, ConversationsContiguous, MsgId
<1>8. RecordsOK
  BY DEF Init, RecordsOK
<1> QED
  BY <1>3, <1>4, <1>5, <1>6, <1>7, <1>8 DEF IInv

(* Every step of the store preserves it. *)
LEMMA NextOK == IInv /\ [Next]_vars => IInv'
<1> SUFFICES ASSUME IInv, [Next]_vars PROVE IInv'
  OBVIOUS
<1>1. ASSUME NEW t \in Tx, NEW r \in Request, Begin(t, r) PROVE IInv'
  BY <1>1, BeginStep
<1>2. ASSUME NEW t \in Tx, Step(t) PROVE IInv'
  <2>1. CASE LockMessage(t)
    BY <2>1, LockMessageStep
  <2>2. CASE Refresh(t)
    BY <2>2, RefreshStep
  <2>3. CASE Claim(t)
    BY <2>3, ClaimStep
  <2>4. CASE Replay(t)
    BY <2>4, ReplayStep
  <2>5. CASE KeyConflict(t) \/ DeadlockVictim(t)
    BY <2>5, KeyConflictStep
  <2>6. CASE Insert(t)
    BY <2>6, InsertStep
  <2>7. CASE Reply(t)
    BY <2>7, ReplyStep
  <2>8. CASE Revise(t)
    BY <2>8, ReviseStep
  <2>9. CASE Receipt(t)
    BY <2>9, ReceiptStep
  <2>10. CASE Enqueue(t)
    BY <2>10, EnqueueStep
  <2>11. CASE Enqueued(t)
    BY <2>11, EnqueuedStep
  <2>12. CASE Finish(t)
    BY <2>12, FinishStep
  <2>13. CASE CommitSend(t)
    BY <2>13, CommitSendStep
  <2>14. CASE CommitRevision(t)
    BY <2>14, CommitRevisionStep
  <2>15. CASE CommitReceipt(t)
    BY <2>15, CommitReceiptStep
  <2> QED
    BY <1>2, <2>1, <2>2, <2>3, <2>4, <2>5, <2>6, <2>7, <2>8, <2>9, <2>10, <2>11, <2>12,
       <2>13, <2>14, <2>15 DEF Step
<1>3. ASSUME NEW t \in Tx, Abort(t) PROVE IInv'
  BY <1>3, KeyConflictStep
<1>4. ASSUME NEW c \in Conversation, NEW a \in Account,
             \/ Join(c, a) \/ Leave(c, a) \/ DeleteDraft(c, a)
             \/ \E v \in 0..MaxDraft, b \in Body : PutDraft(c, a, v, b)
      PROVE  IInv'
  BY <1>4, AroundStep
<1>5. ASSUME NEW a \in Account, DeleteAccount(a) PROVE IInv'
  BY <1>5, DeleteAccountStep
<1>6. CASE UNCHANGED vars
  <2>1. /\ UNCHANGED <<message, nextSeq, stream, next, idem, receipts, tx, client>>
        /\ UNCHANGED <<joined, deleted, since, draft, recent>>
    BY <1>6 DEF vars, client
  <2> QED
    BY <2>1, PeopleStep DEF IInv, TypeOK
<1> QED
  BY <1>1, <1>2, <1>3, <1>4, <1>5, <1>6 DEF Next

(* The inductive invariant holds always. *)
LEMMA Invariance == Spec => []IInv
BY InitOK, NextOK, PTL DEF Spec

(* The store keeps its types: in particular every recorded or answered request names a    *)
(* message id, and a running transaction its request (send_message, revise_message,       *)
(* record_receipt).                                                                       *)
THEOREM TypeCorrect == Spec => []TypeOK
<1>1. IInv => TypeOK
  BY DEF IInv
<1> QED
  BY <1>1, Invariance, PTL

(* However many transactions overlap, abort or deadlock, every account's delivery stream  *)
(* is gapless and names each sequence once (assign_actor_delivery_sequence).              *)
THEOREM StreamsGapless == Spec => []StreamsContiguous
<1>1. IInv => StreamsContiguous
  BY DEF IInv
<1> QED
  BY <1>1, Invariance, PTL

(* The message sequences of every conversation are dense (assign_message_sequence).       *)
THEOREM ConversationsGapless == Spec => []ConversationsContiguous
<1>1. IInv => ConversationsContiguous
  BY DEF IInv
<1> QED
  BY <1>1, Invariance, PTL

(* A request repeated under its idempotency key is accepted once, and all its answers     *)
(* name the one stored message (claim and complete).                                      *)
THEOREM AcceptedOnce == Spec => []ExactlyOnce
<1>1. IInv => ExactlyOnce
  BY SMT DEF IInv, RecordsOK, ExactlyOnce
<1> QED
  BY <1>1, Invariance, PTL

=============================================================================
