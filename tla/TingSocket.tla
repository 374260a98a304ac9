----------------------------- MODULE TingSocket -----------------------------
(***************************************************************************)
(* The publisher's socket to Ting: callers hand one attempt at a time to a *)
(* driver over a channel of capacity one, the driver reuses a connection   *)
(* for request after request, and callers give up at their deadlines.      *)
(***************************************************************************)
EXTENDS Integers, Sequences, FiniteSets, SequencesExt

CONSTANTS Caller,
          Key,          \* event keys
          MaxAttempts,  \* bound: attempts
          MaxProofs,    \* bound: proofs issued
          MaxStrays     \* bound: frames Ting repeats unasked

VARIABLES caller,       \* TingSocket::send and ProofTingPublisher::publish
          proof,        \* ProofTingPublisher.proof
          expired,      \* proofs Ting no longer takes
          channel,      \* mpsc::channel(1)
          driver,       \* run
          sent,         \* frames on the connection, to Ting
          received,     \* and from it
          abandoned,    \* frames written to connections that were discarded since
          attempts,     \* attempts begun: their ids are numbers
          issued,       \* proofs issued
          strays,
          answers       \* what Ting has answered to which attempt (ghost)

vars == <<caller, proof, expired, channel, driver, sent, received, abandoned, attempts, issued,
          strays, answers>>

NoProof == 0
Idle == [pc |-> "idle", id |-> 0]
Connecting == [pc |-> "connecting"]
Ready == [pc |-> "ready"]

Init ==
  /\ caller = [c \in Caller |-> Idle]
  /\ proof = NoProof /\ expired = {}
  /\ channel = << >>
  /\ driver = Connecting
  /\ sent = << >> /\ received = << >> /\ abandoned = {}
  /\ attempts = 0 /\ issued = 0 /\ strays = 0
  /\ answers = {}
-----------------------------------------------------------------------------
(* Callers *)

(* publish: authority() reuses the cached proof or issues one, and the attempt is prepared. *)
Publish(c, k) ==
  /\ caller[c] = Idle /\ attempts < MaxAttempts
  /\ \/ proof # NoProof /\ UNCHANGED <<proof, issued>>
     \/ proof = NoProof /\ issued < MaxProofs /\ issued' = issued + 1 /\ proof' = issued + 1
  /\ attempts' = attempts + 1
  /\ caller' = [caller EXCEPT ![c] =
       [pc |-> "sending", id |-> attempts + 1, key |-> k, proof |-> proof']]
  /\ UNCHANGED <<expired, channel, driver, sent, received, abandoned, strays, answers>>

(* The channel has room for one request. *)
Enqueue(c) ==
  /\ caller[c].pc = "sending" /\ channel = << >>
  /\ channel' = <<[by |-> c, id |-> caller[c].id, key |-> caller[c].key, proof |-> caller[c].proof]>>
  /\ caller' = [caller EXCEPT ![c].pc = "waiting"]
  /\ UNCHANGED <<proof, expired, driver, sent, received, abandoned, attempts, issued, strays,
                 answers>>

(* The deadline passes, or the worker drops the publish future. *)
GiveUp(c) ==
  /\ caller[c].pc \in {"sending", "waiting"}
  /\ caller' = [caller EXCEPT ![c] = Idle]
  /\ UNCHANGED <<proof, expired, channel, driver, sent, received, abandoned, attempts, issued,
                 strays, answers>>

Cancelled(r) == caller[r.by].pc # "waiting" \/ caller[r.by].id # r.id

(* The reply of the driver, unless nobody waits for it any more. *)
Replied(r, outcome) ==
  IF Cancelled(r) THEN caller
  ELSE [caller EXCEPT ![r.by].pc = outcome]

(* publish returns; a refused proof is forgotten. *)
Return(c) ==
  /\ caller[c].pc \in {"accepted", "rejected", "failed"}
  /\ caller' = [caller EXCEPT ![c] = Idle]
  /\ proof' = IF caller[c].pc = "rejected" THEN NoProof ELSE proof
  /\ UNCHANGED <<expired, channel, driver, sent, received, abandoned, attempts, issued, strays,
                 answers>>
-----------------------------------------------------------------------------
(* The driver *)

(* Frames already written may still reach Ting; its answers to them are gone. *)
Discard ==
  /\ driver' = Connecting
  /\ abandoned' = abandoned \cup Range(sent)
  /\ sent' = << >> /\ received' = << >>

(* connect *)
Connect ==
  /\ driver = Connecting
  /\ driver' = Ready
  /\ UNCHANGED <<caller, proof, expired, channel, sent, received, abandoned, attempts, issued,
                 strays, answers>>

(* A request that was cancelled meanwhile is skipped; another one is written. *)
Receive ==
  LET r == Head(channel)
  IN /\ driver = Ready /\ channel # << >>
     /\ channel' = << >>
     /\ IF Cancelled(r)
          THEN UNCHANGED <<driver, sent>>
          ELSE /\ driver' = [pc |-> "sending", request |-> r]
               /\ sent' = Append(sent, [id |-> r.id, key |-> r.key, proof |-> r.proof])
     /\ UNCHANGED <<caller, proof, expired, received, abandoned, attempts, issued, strays, answers>>

AnyAnswer(r, f) == TRUE

(* send_one, acceptance: the answer names the request, an acceptance also its key. *)
Answers(r, f) == f.id = r.id /\ (f.op = "accepted" => f.key = r.key)

ReadAnswer ==
  LET f == Head(received).answer
      r == driver.request
  IN /\ driver.pc = "sending" /\ received # << >>
     /\ IF Answers(r, f)
          THEN /\ caller' = Replied(r, f.op)
               /\ driver' = Ready /\ received' = Tail(received)
               /\ UNCHANGED <<sent, abandoned>>
          ELSE caller' = Replied(r, "failed") /\ Discard
     /\ UNCHANGED <<proof, expired, channel, attempts, issued, strays, answers>>

(* A partial write or a late acceptance is uncertain: the connection is discarded. *)
CancelRequest ==
  /\ driver.pc = "sending"
  /\ Cancelled(driver.request)
  /\ Discard
  /\ UNCHANGED <<caller, proof, expired, channel, attempts, issued, strays, answers>>

(* A frame while no request is in progress; a waiting request is served first. *)
Unsolicited ==
  /\ driver = Ready /\ channel = << >> /\ received # << >>
  /\ Discard
  /\ UNCHANGED <<caller, proof, expired, channel, attempts, issued, strays, answers>>

(* The connection breaks, or the driver's own deadline passes. *)
Break ==
  /\ driver # Connecting
  /\ caller' = IF driver.pc = "sending" THEN Replied(driver.request, "failed") ELSE caller
  /\ Discard
  /\ UNCHANGED <<proof, expired, channel, attempts, issued, strays, answers>>
-----------------------------------------------------------------------------
(* Ting *)

Answer(f) == [id |-> f.id, key |-> f.key, op |-> IF f.proof \in expired THEN "rejected" ELSE "accepted"]

Handle ==
  LET a == Answer(Head(sent))
  IN /\ sent # << >>
     /\ answers' = answers \cup {a}
     /\ sent' = Tail(sent)
     /\ received' = Append(received, [answer |-> a, stray |-> FALSE])
     /\ UNCHANGED <<caller, proof, expired, channel, driver, abandoned, attempts, issued, strays>>

(* A frame of a discarded connection is handled after all. *)
HandleLate(f) ==
  /\ f \in abandoned
  /\ answers' = answers \cup {Answer(f)}
  /\ abandoned' = abandoned \ {f}
  /\ UNCHANGED <<caller, proof, expired, channel, driver, sent, received, attempts, issued, strays>>

(* Ting repeats an answer it has given before. *)
Stray(a) ==
  /\ driver # Connecting /\ strays < MaxStrays
  /\ strays' = strays + 1
  /\ received' = Append(received, [answer |-> a, stray |-> TRUE])
  /\ UNCHANGED <<caller, proof, expired, channel, driver, sent, abandoned, attempts, issued, answers>>

ProofExpires(p) ==
  /\ expired' = expired \cup {p}
  /\ UNCHANGED <<caller, proof, channel, driver, sent, received, abandoned, attempts, issued,
                 strays, answers>>

Next ==
  \/ \E c \in Caller : \E k \in Key : Publish(c, k)
  \/ \E c \in Caller : Enqueue(c) \/ GiveUp(c) \/ Return(c)
  \/ Connect \/ Receive \/ ReadAnswer \/ CancelRequest \/ Unsolicited \/ Break
  \/ Handle \/ \E f \in abandoned : HandleLate(f)
  \/ \E a \in answers : Stray(a)
  \/ \E p \in 1 .. issued : ProofExpires(p)

Spec == Init /\ [][Next]_vars
-----------------------------------------------------------------------------
TypeOK ==
  /\ Len(channel) <= 1
  /\ proof \in 0 .. issued
  /\ driver.pc \in {"connecting", "ready", "sending"}
  /\ driver = Connecting => sent = << >> /\ received = << >>

(* What a caller is told of its attempt is what Ting answered to it: never an acceptance of a key *)
(* Ting has not taken, nor the refusal of another attempt ("must not be mistaken for acceptance"). *)
OutcomesAreOwn ==
  \A c \in Caller :
    caller[c].pc \in {"accepted", "rejected"} =>
      [id |-> caller[c].id, key |-> caller[c].key, op |-> caller[c].pc] \in answers

(* Between two requests nothing of an earlier one is on the connection: a late answer has no      *)
(* connection to arrive on ("A partial write or late acceptance is uncertain. Discard this        *)
(* connection").                                                                                  *)
CleanBetweenRequests ==
  driver = Ready => sent = << >> /\ \A i \in DOMAIN received : received[i].stray

(* Timeouts, cancelled requests and late answers on the shared connection never give a caller   *)
(* the outcome of another attempt (ting_publisher.rs).                                          *)
SocketSafe == OutcomesAreOwn /\ CleanBetweenRequests
=============================================================================
