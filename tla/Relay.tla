------------------------------- MODULE Relay -------------------------------
(***************************************************************************)
(* The relay's durable outbox for one profile of one DM home: commands     *)
(* queued in SQLite by the relay or directly by the dm command, the        *)
(* scheduler that starts them lane by lane, the attempts against the DM    *)
(* service over a network that loses and delays them, crashes and restarts *)
(* of the relay, and the sign-ins and sign-outs that change, meanwhile, as *)
(* whom a queued command is sent.                                          *)
(*                                                                         *)
(* An account stands for an account at a DM service.  Times are abstracted *)
(* to what they are compared for: whether a row's next attempt is due, and *)
(* whether the service still remembers an idempotency key.  Which tokens a *)
(* profile holds is the subject of SignIn; here it has usable ones or not. *)
(***************************************************************************)
EXTENDS Integers, Sequences, FiniteSets, SequencesExt

CONSTANTS
    Request,        \* request ids
    Op,             \* [Request -> [kind, conversation, size]]: what each one asks
    Account,
    Owner,          \* the account the profile was set up for
    OldRequests,    \* sequence: queued by a release before Silicon Accounts
    Workers,        \* WORKERS: attempts running at once
    Budget,         \* the payload permits they share
    MaxAttempts,    \* bound: where a row's attempt count saturates
    Limits          \* bounds: [requests, crashes, signIns], one of which limits a behaviour

(* Operation::is_mutation, and the mutations that carry an idempotency key. *)
Keyed == {"create_group", "update_group", "invite_group_members", "remove_group_members",
          "add_group_owners", "remove_group_owners", "create_conversation",
          "send_message", "edit_message", "delete_message", "create_bundle"}

IsMutation(kind) ==
    kind \in Keyed \cup {"accept_invitation", "decline_invitation", "leave_group", "allow",
                         "disallow", "receipt", "put_draft", "delete_draft", "set_presence"}

(* transient_request *)
Transient(kind) == kind = "set_presence"

Barrier == ""

InConversation == {"list_messages", "get_message", "send_message", "edit_message",
                   "delete_message", "receipt", "get_draft", "put_draft", "delete_draft",
                   "create_bundle", "get_bundle"}

(* lane: conversations do not wait for each other; the empty lane waits for everything. *)
Lane(r) == IF Op[r].kind \in InConversation THEN Op[r].conversation
           ELSE IF Op[r].kind = "set_presence" THEN "presence"
           ELSE Barrier

(* What the constants are. *)
RelayAssumption ==
    /\ \A r \in Request : Op[r].size \in 1 .. Budget
    /\ \A i \in DOMAIN OldRequests : OldRequests[i] \in Request
    /\ Owner \in Account
    /\ Workers \in Nat \ {0} /\ Budget \in Nat \ {0} /\ MaxAttempts \in Nat \ {0}

VARIABLES
    outbox,     \* the outbox table, in rowid order
    up,         \* whether a relay serves this home
    life,       \* how many relays have attached it
    task,       \* task[r]: the attempt in progress
    profile,    \* the stored profile: who it is, signed in or not, from before Silicon Accounts
    signIn,     \* the dm login in progress
    signIns,    \* sign-ins and sign-outs so far
    limit,      \* the bounds of this behaviour
    cli,        \* cli[r]: the dm command that submits r
    late,       \* attempts given up on that may still reach the service
    applied,    \* the changes the service made, in order
    keys,       \* the idempotency keys it remembers
    sentAs      \* history: [id, account] of every attempt

vars == <<outbox, up, life, task, profile, signIn, signIns, limit, cli, late, applied,
          keys, sentAs>>

Rows == DOMAIN outbox

Row(r) == CHOOSE i \in Rows : outbox[i].id = r

Queued(r) == \E i \in Rows : outbox[i].id = r

Waiting(r) == \E i \in Rows : outbox[i].id = r /\ outbox[i].state = "pending"

Pending == {i \in Rows : outbox[i].state = "pending"}

NoTask == [pc |-> "none", account |-> "", attempt |-> 0]

NoSignIn == [pc |-> "idle", account |-> "", pending |-> 0]

(* A row as INSERT leaves it; by, window, old and life record how it got there. *)
NewRow(r) ==
    [id |-> r, lane |-> Lane(r), state |-> "pending", attempts |-> 0, due |-> TRUE,
     by |-> profile.account, window |-> signIn.pc # "idle", old |-> profile.legacy,
     life |-> IF Transient(Op[r].kind) THEN life ELSE 0]

(* Rows of an older release have the lane column's default. *)
OldRow(r) ==
    [id |-> r, lane |-> Barrier, state |-> "pending", attempts |-> 0, due |-> TRUE,
     by |-> Owner, window |-> FALSE, old |-> TRUE, life |-> 0]

Init ==
    /\ \E legacy \in {TRUE, FALSE} :
         /\ profile = [account |-> Owner, signedIn |-> ~legacy, legacy |-> legacy]
         /\ outbox = IF legacy THEN [i \in DOMAIN OldRequests |-> OldRow(OldRequests[i])]
                     ELSE <<>>
    /\ up = FALSE
    /\ life = 0
    /\ task = [r \in Request |-> NoTask]
    /\ signIn = NoSignIn
    /\ signIns = 0
    /\ limit \in Limits
    /\ cli = [r \in Request |-> IF Queued(r) THEN "acknowledged" ELSE "new"]
    /\ late = {}
    /\ applied = <<>>
    /\ keys = {}
    /\ sentAs = {}

service == <<late, applied, keys, sentAs>>
identity == <<profile, signIn, signIns, limit>>

----------------------------------------------------------------------------
(* Submitting *)

(* Queue::enqueue: an id already there is left alone. *)
Enqueue(r) == IF Queued(r) THEN outbox ELSE Append(outbox, NewRow(r))

(* The relay's submit handler; its acknowledgement may come after the 500 ms of the *)
(* command, which does not know then whether the request was queued.                *)
SubmitToRelay(r) ==
    /\ r \in limit.requests
    /\ cli[r] = "new"
    /\ up /\ profile.signedIn
    /\ outbox' = Enqueue(r)
    /\ \E outcome \in {"acknowledged", "unknown"} : cli' = [cli EXCEPT ![r] = outcome]
    /\ UNCHANGED <<up, life, task, identity, service>>

(* submit_or_queue otherwise: no relay answers in time, or it refuses; the request is *)
(* written to the queue on disk.                                                      *)
QueueDirectly(r) ==
    /\ r \in limit.requests
    /\ cli[r] \in {"new", "unknown"}
    /\ outbox' = Enqueue(r)
    /\ cli' = [cli EXCEPT ![r] = "acknowledged"]
    /\ UNCHANGED <<up, life, task, identity, service>>

----------------------------------------------------------------------------
(* Scheduling *)

(* The NOT EXISTS of request_candidates: what an earlier pending row holds back. *)
Blocks(i, j) ==
    /\ i < j /\ i \in Pending
    /\ \/ outbox[i].lane = outbox[j].lane
       \/ outbox[i].lane = Barrier
       \/ outbox[j].lane = Barrier /\ outbox[i].attempts = 0

(* request_candidates, in rowid order *)
Candidates ==
    LET C == {j \in Pending : outbox[j].due /\ ~\E i \in Rows : Blocks(i, j)}
    IN SetToSortSeq(C, LAMBDA i, j : i < j)

Running == {r \in Request : task[r].pc # "none"}

SizeOf(R) == FoldFunctionOnSet(+, 0, [r \in Request |-> Op[r].size], R)

FitsBelow(R, r) == SizeOf(R) + Op[r].size < Budget

(* try_acquire_many of the payload's permits *)
Fits(R, r) == SizeOf(R) + Op[r].size <= Budget

(* One candidate of schedule's loop: its lane is running, no worker is free (which ends *)
(* the loop), no permits are left for its payload, or it is started.                    *)
Consider(state, i) ==
    LET r == outbox[i].id IN
    IF state.full \/ \E q \in Running : outbox[Row(q)].lane = outbox[i].lane THEN state
    ELSE IF Cardinality(Running \cup state.start) >= Workers THEN [state EXCEPT !.full = TRUE]
    ELSE IF ~Fits(Running \cup state.start, r) THEN state
    ELSE [state EXCEPT !.start = @ \cup {r}]

Started == FoldLeft(Consider, [full |-> FALSE, start |-> {}], Candidates).start

(* outbox and schedule *)
Schedule ==
    /\ up
    /\ Started # {}
    /\ task' = [r \in Request |-> IF r \in Started THEN [NoTask EXCEPT !.pc = "token"] ELSE task[r]]
    /\ UNCHANGED <<outbox, up, life, identity, cli, service>>

(* A row's backoff elapses. *)
BackoffElapses(i) ==
    /\ i \in Pending /\ ~outbox[i].due
    /\ outbox' = [outbox EXCEPT ![i].due = TRUE]
    /\ UNCHANGED <<up, life, task, identity, cli, service>>

----------------------------------------------------------------------------
(* execute_request: the answers that change nothing at the service are recorded in the *)
(* step that gets them, since a crash in between is one before the attempt.            *)

(* Error::retryable *)
Retryable(answer) == answer \in {"transport", "unavailable"}

(* Which answers leave the request pending: retry instead of finish. *)
Retried(kind, answer) ==
    /\ ~Transient(kind)
    /\ \/ IsMutation(kind) /\ (Retryable(answer) \/ answer = "unauthenticated")
       \/ answer = "unauthorized"


(* Queue::retry and Queue::finish, which do not look at the row's state *)
Retry(row) == [row EXCEPT !.attempts = IF @ < MaxAttempts THEN @ + 1 ELSE @, !.due = FALSE]

Finish(row, answer) == [row EXCEPT !.state = IF answer = "ok" THEN "completed" ELSE "failed"]

Record(r, answer) ==
    LET row == outbox[Row(r)]
        new == IF Retried(Op[r].kind, answer) THEN Retry(row) ELSE Finish(row, answer)
    IN /\ outbox' = [outbox EXCEPT ![Row(r)] = new]
       /\ task' = [task EXCEPT ![r] = NoTask]

(* The request leaves with the sign-in the profile has now. *)
Send(r) ==
    /\ task[r].pc = "token"
    /\ profile.signedIn
    /\ task' = [task EXCEPT ![r] = [pc |-> "waiting", account |-> profile.account, attempt |-> 1]]
    /\ sentAs' = sentAs \cup {[id |-> r, account |-> profile.account]}
    /\ UNCHANGED <<outbox, up, life, identity, cli, late, applied, keys>>

(* There is none, or Silicon Accounts does not answer twice when it must be refreshed. *)
MissToken(r) ==
    /\ task[r].pc = "token"
    /\ Record(r, "unauthenticated")
    /\ UNCHANGED <<up, life, identity, cli, service>>

Applied(r) == {p \in DOMAIN applied : applied[p].id = r}

(* What the service does with an accepted request: a known key changes nothing; a change *)
(* that needs no key may be made again, of which only the first time is kept here.       *)
Apply(r, a) ==
    IF Op[r].kind \in Keyed /\ r \notin keys
      THEN /\ applied' = Append(applied, [id |-> r, account |-> a])
           /\ keys' = keys \cup {r}
      ELSE /\ applied' = IF IsMutation(Op[r].kind) /\ Applied(r) = {}
                           THEN Append(applied, [id |-> r, account |-> a]) ELSE applied
           /\ UNCHANGED keys

(* A change without a key that names a version is refused when repeated. *)
Repeated(r) == Op[r].kind = "put_draft" /\ Applied(r) # {}

Succeed(r) ==
    /\ task[r].pc = "waiting"
    /\ ~Repeated(r)
    /\ Apply(r, task[r].account)
    /\ task' = [task EXCEPT ![r].pc = "answered"]
    /\ UNCHANGED <<outbox, up, life, identity, cli, late, sentAs>>

(* "refused" is a final error, "unavailable" a 408, 429 or 5xx, "unauthorized" a 401. *)
Refuse(r, answer) ==
    /\ task[r].pc = "waiting"
    /\ Record(r, answer)
    /\ UNCHANGED <<up, life, identity, cli, service>>

(* A transport failure is tried once more at once; the request may still be under way. *)
LoseAttempt(r) ==
    /\ task[r].pc = "waiting"
    /\ late' = late \cup {[id |-> r, account |-> task[r].account]}
    /\ IF task[r].attempt = 1
         THEN /\ task' = [task EXCEPT ![r].attempt = 2]
              /\ UNCHANGED outbox
         ELSE Record(r, "transport")
    /\ UNCHANGED <<up, life, identity, cli, applied, keys, sentAs>>

ArriveLate(c) ==
    /\ c \in late
    /\ late' = late \ {c}
    /\ IF Repeated(c.id) THEN UNCHANGED <<applied, keys>> ELSE Apply(c.id, c.account)
    /\ UNCHANGED <<outbox, up, life, task, identity, cli, sentAs>>

(* The success is recorded; an outcome SQLite cannot store is dropped. *)
Conclude(r) ==
    /\ task[r].pc = "answered"
    /\ Record(r, "ok")
    /\ UNCHANGED <<up, life, identity, cli, service>>

DropOutcome(r) ==
    /\ task[r].pc = "answered"
    /\ task' = [task EXCEPT ![r] = NoTask]
    /\ UNCHANGED <<outbox, up, life, identity, cli, service>>

(* The service forgets keys after their retention; the queue is assumed to settle first. *)
ForgetKeys ==
    LET settled == {r \in keys : /\ ~Waiting(r) /\ task[r].pc = "none"
                                 /\ ~\E c \in late : c.id = r}
    IN /\ settled # {}
       /\ keys' = keys \ settled
       /\ UNCHANGED <<outbox, up, life, task, identity, cli, late, applied, sentAs>>

----------------------------------------------------------------------------
(* The relay process *)

(* The relay stops or is killed: its attempts end where they are. *)
Crash ==
    /\ up /\ life <= limit.crashes
    /\ up' = FALSE
    /\ late' = late \cup {[id |-> r, account |-> task[r].account] :
                            r \in {q \in Request : task[q].pc = "waiting"}}
    /\ task' = [r \in Request |-> NoTask]
    /\ UNCHANGED <<outbox, life, identity, cli, applied, keys, sentAs>>

(* expire_transient_commands *)
Expired(rows) == [i \in DOMAIN rows |->
    IF rows[i].state = "pending" /\ Transient(Op[rows[i].id].kind)
      THEN [rows[i] EXCEPT !.state = "failed"] ELSE rows[i]]

(* attach_home *)
Attach ==
    /\ ~up
    /\ up' = TRUE
    /\ life' = life + 1
    /\ outbox' = Expired(outbox)
    /\ UNCHANGED <<task, identity, cli, service>>

----------------------------------------------------------------------------
(* save_sign_in and logout, one at a time under the profile lock *)

BeginSignIn(a) ==
    /\ signIn.pc = "idle" /\ signIns < limit.signIns
    /\ signIn' = [pc |-> "counted", account |-> a, pending |-> Cardinality(Pending)]
    /\ signIns' = signIns + 1
    /\ UNCHANGED <<outbox, up, life, task, profile, limit, cli, service>>

(* profile_in_use *)
InUse == signIn.pending > 0 /\ ~profile.legacy /\ profile.account # signIn.account

StoreSignIn ==
    /\ signIn.pc = "counted"
    /\ IF InUse
         THEN /\ signIn' = NoSignIn
              /\ UNCHANGED profile
         ELSE /\ profile' = [account |-> signIn.account, signedIn |-> TRUE, legacy |-> FALSE]
              /\ signIn' = IF profile.legacy /\ profile.account # signIn.account
                             THEN [signIn EXCEPT !.pc = "stored"] ELSE NoSignIn
    /\ UNCHANGED <<outbox, up, life, task, signIns, limit, cli, service>>

(* fail_pending: the old sign-in had another id *)
FailPending ==
    /\ signIn.pc = "stored"
    /\ outbox' = [i \in Rows |->
                    IF i \in Pending THEN [outbox[i] EXCEPT !.state = "failed"] ELSE outbox[i]]
    /\ signIn' = NoSignIn
    /\ UNCHANGED <<up, life, task, profile, signIns, limit, cli, service>>

(* dm login ends early. *)
AbandonSignIn ==
    /\ signIn.pc # "idle"
    /\ signIn' = NoSignIn
    /\ UNCHANGED <<outbox, up, life, task, profile, signIns, limit, cli, service>>

(* dm logout, or a refresh that finds the sign-in ended: who it was is kept. *)
SignOut ==
    /\ signIn.pc = "idle" /\ signIns < limit.signIns
    /\ profile.signedIn
    /\ profile' = [profile EXCEPT !.signedIn = FALSE]
    /\ signIns' = signIns + 1
    /\ UNCHANGED <<outbox, up, life, task, signIn, limit, cli, service>>

----------------------------------------------------------------------------

Attempt(r) ==
    \/ Send(r) \/ MissToken(r) \/ Succeed(r) \/ LoseAttempt(r) \/ Conclude(r) \/ DropOutcome(r)
    \/ \E answer \in {"refused", "unavailable", "unauthorized"} : Refuse(r, answer)

Next ==
    \/ \E r \in Request : SubmitToRelay(r) \/ QueueDirectly(r) \/ Attempt(r)
    \/ Schedule \/ ForgetKeys
    \/ \E i \in Rows : BackoffElapses(i)
    \/ \E c \in late : ArriveLate(c)
    \/ Crash \/ Attach
    \/ \E a \in Account : BeginSignIn(a)
    \/ StoreSignIn \/ FailPending \/ AbandonSignIn \/ SignOut

Spec == Init /\ [][Next]_vars

(* The outbox task keeps running, a stopped relay is started again by the next command, *)
(* and of the attempts at one request some find the service and are recorded.           *)
Fairness ==
    /\ WF_vars(Attach) /\ WF_vars(Schedule)
    /\ WF_vars(\E i \in Rows : BackoffElapses(i))
    /\ \A r \in Request :
         /\ WF_vars(QueueDirectly(r)) /\ WF_vars(Attempt(r))
         /\ SF_vars(Send(r)) /\ SF_vars(Succeed(r)) /\ SF_vars(Conclude(r))

----------------------------------------------------------------------------
(* Properties *)

(* Every variable has its type; request_id is a key of the outbox, and an attempt runs     *)
(* only for a queued request while the relay serves the home.                              *)
TypeOK ==
    /\ \A i, j \in Rows : outbox[i].id = outbox[j].id => i = j
    /\ \A i \in Rows :
         /\ outbox[i].id \in Request
         /\ outbox[i].lane = Lane(outbox[i].id) \/ outbox[i].old
         /\ outbox[i].state \in {"pending", "completed", "failed"}
         /\ outbox[i].attempts \in 0 .. MaxAttempts
         /\ outbox[i].by \in Account
    /\ up \in BOOLEAN /\ life \in 0 .. limit.crashes + 1
    /\ \A r \in Running : Queued(r) /\ up
    /\ profile.account \in Account
    /\ late \subseteq sentAs /\ sentAs \subseteq [id : Request, account : Account]
    /\ keys \subseteq {applied[i].id : i \in DOMAIN applied}

(* Requests about one conversation reach the service in the order they were queued, and   *)
(* nothing passes an earlier request of the empty lane: through backoff, restarts, late    *)
(* attempts and dropped outcomes, a change is made only once every earlier request that    *)
(* holds it back is settled, and after the change of each such request that completed.     *)
QueueOrder ==
    \A i, j \in Rows :
      /\ i < j
      /\ outbox[i].lane \in {outbox[j].lane, Barrier}
      /\ Applied(outbox[j].id) # {}
      => /\ outbox[i].state # "pending"
         /\ outbox[i].state = "completed" /\ IsMutation(Op[outbox[i].id].kind) =>
              \A q \in Applied(outbox[j].id) : \E p \in Applied(outbox[i].id) : p < q

(* A queued change that carries an idempotency key is made once, whatever is repeated by   *)
(* retries, crashes between the answer and its record, lost answers and late attempts.     *)
AppliedOnce ==
    \A r \in Request : Op[r].kind \in Keyed => Cardinality(Applied(r)) <= 1

(* dm is told that a change completed only when the service has made it. *)
CompletedMeansApplied ==
    \A i \in Rows : outbox[i].state = "completed" /\ IsMutation(Op[outbox[i].id].kind)
                       => Applied(outbox[i].id) # {}

(* A settled request is never tried again and a completed one stays completed; a failure    *)
(* recorded by a sign-in may only give way to the success of the attempt then under way.    *)
Settles ==
    \A i \in Rows :
      /\ outbox[i].state = "completed" => outbox'[i].state = "completed"
      /\ outbox[i].state = "failed" /\ outbox'[i].state # "failed" =>
           /\ outbox'[i].state = "completed"
           /\ task[outbox[i].id].pc = "answered"

(* An activity describes the present moment: one queued before a relay attached the home   *)
(* is never sent by that relay (retry_or_finish, expire_transient_commands).               *)
ActivityNotReplayed ==
    \A r \in Running : Transient(Op[r].kind) => outbox[Row(r)].life = life

(* A request queued while no sign-in is being saved, by a profile that has had a Silicon    *)
(* Accounts sign-in, is only ever sent as the account that queued it.                       *)
CountedSentAsOwner ==
    \A s \in sentAs :
      LET row == outbox[Row(s.id)] IN s.account # row.by => row.window \/ row.old

(* Every acknowledged request is settled in the end, or its profile is signed out. *)
QueueDrains ==
    \A r \in Request :
      (cli[r] = "acknowledged") ~> (~Waiting(r) \/ ~profile.signedIn)

QueueSound ==
  /\ QueueOrder
  /\ AppliedOnce
  /\ CompletedMeansApplied
  /\ ActivityNotReplayed
  /\ CountedSentAsOwner

=============================================================================
