---------------------------- MODULE TingHandoff ----------------------------
(***************************************************************************)
(* The durable hand-off of DM events to Ting, the notification service:    *)
(* the ting_handoffs table, the worker processes that lease its rows, send *)
(* them and record the outcome, and what happens to a row meanwhile: the   *)
(* lease expires, the worker crashes, the answer is lost, the recipient    *)
(* leaves the conversation or its account is deleted.                      *)
(*                                                                         *)
(* A lease id is only ever compared for equality, a worker remembers one   *)
(* claim at a time and forgets it when it crashes, so a worker's name      *)
(* stands for the id of its latest lease.  Times are abstracted to what    *)
(* the code compares them for: whether a lease is live, an attempt due.    *)
(***************************************************************************)
EXTENDS Integers, FiniteSets

CONSTANTS
    Handoff,        \* the rows, by delivery_id, which is also Ting's idempotency key
    Account,
    TargetOf,       \* [Handoff -> Account]: the recipient
    Legacy,         \* rows that cannot be sent: prepared before the cutover, or no account
    Worker,
    Publisher,      \* the workers configured with DM_TING_URL
    NoWorker,
    MaxAttempts,    \* where attempt_count saturates (2^63 - 1 in the code)
    MaxRenames,     \* bound: how often a recipient changes its public id
    MaxCrashes      \* bound: worker crashes

(* What the constants are. *)
ASSUME HandoffAssumption ==
    /\ Handoff # {} /\ TargetOf \in [Handoff -> Account]
    /\ Legacy \subseteq Handoff
    /\ Publisher \subseteq Worker
    /\ NoWorker \notin Worker
    /\ MaxAttempts \in Nat /\ MaxRenames \in Nat /\ MaxCrashes \in Nat

VARIABLES
    row,        \* row[h]: the ting_handoffs row
    worker,     \* worker[w]: what the process remembers of its claim
    present,    \* rows whose recipient takes part in the conversation now
    deleted,    \* deleted accounts
    publicId,   \* publicId[a]: accounts.current_id, as a version
    ting,       \* what Ting stored: [key, body]
    sent,       \* history: every request Ting was ever sent
    crashes,
    failed      \* history: workers whose run() returned an error

vars == <<row, worker, present, deleted, publicId, ting, sent, crashes, failed>>

NoBody == -1

(* state: "absent" before its message commits, then "pending", "accepted" or "discarded". *)
NewRow == [state |-> "absent", lease |-> NoWorker, live |-> FALSE, due |-> FALSE,
           attempts |-> 0, body |-> NoBody]

NoClaim == [pc |-> "idle", h |-> CHOOSE h \in Handoff : TRUE, body |-> NoBody]

Init ==
    /\ row = [h \in Handoff |-> NewRow]
    /\ worker = [w \in Worker |-> NoClaim]
    /\ present = Handoff
    /\ deleted = {}
    /\ publicId = [a \in Account |-> 0]
    /\ ting = {}
    /\ sent = {}
    /\ crashes = 0
    /\ failed = {}

around == <<present, deleted, publicId, crashes>>

(* enqueue_ting_handoff: the delivery's commit inserts its row, due at once. *)
Enqueue(h) ==
    /\ row[h].state = "absent"
    /\ h \in present
    /\ row' = [row EXCEPT ![h] = [@ EXCEPT !.state = "pending", !.due = TRUE]]
    /\ UNCHANGED <<worker, around, ting, sent, failed>>

----------------------------------------------------------------------------
(* The worker (TingDeliveryWorker::process_once) *)

LiveLease(h) == row[h].lease # NoWorker /\ row[h].live

EligibleUnleased == {h \in Handoff : row[h].state = "pending" /\ row[h].due
                                     /\ row[h].lease = NoWorker /\ h \in present}

(* The rows claim_ting_deliveries may take. *)
Eligible == {h \in Handoff : row[h].state = "pending" /\ row[h].due /\ ~LiveLease(h) /\ h \in present}

Discarded(rows, D) == [h \in Handoff |->
    IF h \in D THEN [rows[h] EXCEPT !.state = "discarded"] ELSE rows[h]]

(* prepared_body: the bytes of the first claim, which name the recipient's public id. *)
PreparedBody(h) ==
    IF row[h].body # NoBody THEN row[h].body ELSE publicId[TargetOf[h]]

(* claim_ting_deliveries: rows that cannot be sent are discarded on the way (D) to the  *)
(* first one that can, which is leased with its request body stored.                    *)
Claim(w, h, D) ==
    /\ w \in Publisher
    /\ worker[w].pc = "idle"
    /\ h \in Eligible \ Legacy
    /\ D \subseteq Eligible \cap Legacy
    /\ row' = [Discarded(row, D) EXCEPT ![h] =
                 [@ EXCEPT !.lease = w, !.live = TRUE, !.body = PreparedBody(h)]]
    /\ worker' = [worker EXCEPT ![w] = [pc |-> "claimed", h |-> h, body |-> PreparedBody(h)]]
    /\ UNCHANGED <<around, ting, sent, failed>>

(* The same call when none can be sent. *)
ClaimNothing(w) ==
    /\ w \in Publisher
    /\ worker[w].pc = "idle"
    /\ Eligible # {} /\ Eligible \subseteq Legacy
    /\ row' = Discarded(row, Eligible)
    /\ UNCHANGED <<worker, around, ting, sent, failed>>

(* discard_ting_handoffs: a worker without Ting marks the unleased rows. *)
DiscardAll(w) ==
    LET D == {h \in Handoff : row[h].state = "pending" /\ ~LiveLease(h)} IN
    /\ w \in Worker \ Publisher
    /\ D # {}
    /\ row' = Discarded(row, D)
    /\ UNCHANGED <<worker, around, ting, sent, failed>>

Owns(w) == LET h == worker[w].h IN row[h].lease = w /\ row[h].live

(* ting_delivery_authorized, right before sending; a passed deadline counts as a timeout. *)
Authorize(w) ==
    LET h == worker[w].h
        ok == Owns(w) /\ h \in present /\ row[h].state = "pending"
    IN
    /\ worker[w].pc = "claimed"
    /\ worker' \in {[worker EXCEPT ![w] = [@ EXCEPT !.pc = next]] :
                      next \in IF ok THEN {"sending", "refused"} ELSE {"refused"}}
    /\ UNCHANGED <<row, around, ting, sent, failed>>

(* Ting stores one request per key and confirms it. *)
Stored(h, body) == IF \E x \in ting : x.key = h THEN ting ELSE ting \cup {[key |-> h, body |-> body]}

Publish(w) ==
    LET h == worker[w].h IN
    /\ worker[w].pc = "sending"
    /\ sent' = sent \cup {[key |-> h, body |-> worker[w].body]}
    /\ ting' = Stored(h, worker[w].body)
    /\ worker' = [worker EXCEPT ![w] = [@ EXCEPT !.pc = "confirmed"]]
    /\ UNCHANGED <<row, around, failed>>

(* It refuses, or the answer does not come in time whether or not it was stored. *)
PublishFails(w) ==
    LET h == worker[w].h IN
    /\ worker[w].pc = "sending"
    /\ sent' = sent \cup {[key |-> h, body |-> worker[w].body]}
    /\ ting' \in {ting, Stored(h, worker[w].body)}
    /\ worker' = [worker EXCEPT ![w] = [@ EXCEPT !.pc = "refused"]]
    /\ UNCHANGED <<row, around, failed>>

Unleased(r) == [r EXCEPT !.lease = NoWorker, !.live = FALSE]

AcceptAnyState(w) ==
    LET h == worker[w].h IN
    /\ worker[w].pc = "confirmed"
    /\ row' = IF Owns(w)
              THEN [row EXCEPT ![h] = [Unleased(@) EXCEPT !.state = "accepted"]] ELSE row
    /\ worker' = [worker EXCEPT ![w] = NoClaim]
    /\ UNCHANGED <<around, ting, sent, failed>>

(* accept_ting_delivery: with the lease still live the row is accepted, but the CHECK of *)
(* a discarded row fails the statement, which is not a Conflict: run() returns the error. *)
(* A lost lease changes nothing.                                                          *)
Accept(w) ==
    LET h == worker[w].h IN
    /\ worker[w].pc = "confirmed"
    /\ IF Owns(w) /\ row[h].state = "discarded"
       THEN /\ failed' = failed \cup {w}
            /\ UNCHANGED row
       ELSE /\ row' = IF Owns(w) /\ row[h].state = "pending"
                      THEN [row EXCEPT ![h] = [Unleased(@) EXCEPT !.state = "accepted"]] ELSE row
            /\ UNCHANGED failed
    /\ worker' = [worker EXCEPT ![w] = NoClaim]
    /\ UNCHANGED <<around, ting, sent>>

RetryOverflow(w) ==
    LET h == worker[w].h IN
    /\ worker[w].pc = "refused"
    /\ row' = IF Owns(w) /\ row[h].state # "accepted"
              THEN [row EXCEPT ![h] = [Unleased(@) EXCEPT !.due = FALSE, !.attempts = row[h].attempts + 1]]
              ELSE row
    /\ worker' = [worker EXCEPT ![w] = NoClaim]
    /\ UNCHANGED <<around, ting, sent, failed>>

(* Due again later (retry_delay), with the lease given back. *)
Postponed(r) == [Unleased(r) EXCEPT !.due = FALSE,
    !.attempts = IF r.attempts < MaxAttempts THEN r.attempts + 1 ELSE r.attempts]

(* retry_ting_delivery *)
Retry(w) ==
    LET h == worker[w].h IN
    /\ worker[w].pc = "refused"
    /\ row' = IF Owns(w) /\ row[h].state # "accepted"
              THEN [row EXCEPT ![h] = Postponed(@)] ELSE row
    /\ worker' = [worker EXCEPT ![w] = NoClaim]
    /\ UNCHANGED <<around, ting, sent, failed>>

----------------------------------------------------------------------------
(* Meanwhile *)

(* lease_expires_at, next_attempt_at pass. *)
LeaseExpires(h) ==
    /\ row[h].live
    /\ row' = [row EXCEPT ![h] = [@ EXCEPT !.live = FALSE]]
    /\ UNCHANGED <<worker, around, ting, sent, failed>>

AttemptDue(h) ==
    /\ row[h].state = "pending" /\ ~row[h].due
    /\ row' = [row EXCEPT ![h] = [@ EXCEPT !.due = TRUE]]
    /\ UNCHANGED <<worker, around, ting, sent, failed>>

(* The process stops at any point; what it remembered is gone. *)
Crash(w) ==
    /\ worker[w].pc # "idle"
    /\ crashes < MaxCrashes
    /\ crashes' = crashes + 1
    /\ worker' = [worker EXCEPT ![w] = NoClaim]
    /\ UNCHANGED <<row, present, deleted, publicId, ting, sent, failed>>

(* The recipient leaves the conversation, or joins it again. *)
Leave(h) ==
    /\ h \in present
    /\ present' = present \ {h}
    /\ UNCHANGED <<row, worker, deleted, publicId, crashes, ting, sent, failed>>

Rejoin(h) ==
    /\ h \notin present /\ TargetOf[h] \notin deleted
    /\ present' = present \cup {h}
    /\ UNCHANGED <<row, worker, deleted, publicId, crashes, ting, sent, failed>>

Rename(a) ==
    /\ publicId[a] < MaxRenames
    /\ publicId' = [publicId EXCEPT ![a] = @ + 1]
    /\ UNCHANGED <<row, worker, present, deleted, crashes, ting, sent, failed>>

(* delete_account discards every row not accepted yet, leased or not. *)
DeleteAccount(a) ==
    LET mine == {h \in Handoff : TargetOf[h] = a} IN
    /\ a \notin deleted
    /\ deleted' = deleted \cup {a}
    /\ present' = present \ mine
    /\ row' = Discarded(row, {h \in mine : row[h].state = "pending"})
    /\ UNCHANGED <<worker, publicId, crashes, ting, sent, failed>>

Work(w) ==
    \/ \E h \in Handoff, D \in SUBSET Legacy : Claim(w, h, D)
    \/ ClaimNothing(w) \/ DiscardAll(w)
    \/ Authorize(w) \/ Publish(w) \/ PublishFails(w) \/ Accept(w) \/ Retry(w)

Time(h) == LeaseExpires(h) \/ AttemptDue(h)

Next ==
    \/ \E w \in Worker : Work(w) \/ Crash(w)
    \/ \E h \in Handoff : Enqueue(h) \/ Time(h) \/ Leave(h) \/ Rejoin(h)
    \/ \E a \in Account : Rename(a) \/ DeleteAccount(a)

Spec == Init /\ [][Next]_vars

Delivers(w, h) == Publish(w) /\ Owns(w) /\ worker[w].h = h

GoesOut(w, h) == Authorize(w) /\ worker[w].h = h /\ worker'[w].pc = "sending"

Takes(w, h) == \E D \in SUBSET Legacy : Claim(w, h, D)

Confirms(w, h) == Accept(w) /\ Owns(w) /\ worker[w].h = h

(* Workers poll (run()'s interval), leases expire and attempts come due with the clock.  *)
(* A row that keeps being eligible is taken (they are served by next_attempt_at), the    *)
(* recheck and Ting's answer keep the deadline 500 ms before the lease ends, and that    *)
(* reserve suffices to record the answer: each now and then, if tried again and again.   *)
Fairness ==
    /\ \A w \in Worker : WF_vars(Work(w))
    /\ \A h \in Handoff : WF_vars(LeaseExpires(h)) /\ WF_vars(AttemptDue(h))
    /\ \A h \in Handoff :
         /\ SF_vars(\E w \in Worker : Takes(w, h)) /\ SF_vars(\E w \in Worker : GoesOut(w, h))
         /\ SF_vars(\E w \in Worker : Delivers(w, h)) /\ SF_vars(\E w \in Worker : Confirms(w, h))

----------------------------------------------------------------------------
(* Properties *)

Body == {NoBody} \cup (0..MaxRenames)

(* Rows, claims and Ting's store keep their types; the retry counter saturates      *)
(* (retry_ting_delivery).                                                           *)
TypeOK ==
    /\ row \in [Handoff -> [state : {"absent", "pending", "accepted", "discarded"},
                             lease : Worker \cup {NoWorker}, live : BOOLEAN, due : BOOLEAN,
                             attempts : 0..MaxAttempts, body : Body]]
    /\ worker \in [Worker -> [pc : {"idle", "claimed", "sending", "confirmed", "refused"},
                               h : Handoff, body : Body]]
    /\ present \subseteq Handoff
    /\ deleted \subseteq Account
    /\ publicId \in [Account -> 0..MaxRenames]
    /\ ting \subseteq sent
    /\ sent \subseteq [key : Handoff, body : 0..MaxRenames]
    /\ crashes \in 0..MaxCrashes
    /\ failed \subseteq Worker

(* Every attempt, by whichever worker and after whatever crash, expired lease or change  *)
(* of the recipient's id, sends the bytes of the first one, so Ting's idempotency by key *)
(* never meets a different body (prepared_body, guard_ting_handoff).                     *)
SameKeySameBody == \A x, y \in sent : x.key = y.key => x.body = y.body

(* A row is accepted only after Ting stored its request: an uncertain answer never counts *)
(* as acceptance (process_once, accept_ting_delivery).                                    *)
AcceptedMeansStored ==
    \A h \in Handoff : row[h].state = "accepted" =>
        \E x \in ting : x.key = h /\ x.body = row[h].body

(* Acceptance and discard are final: an accepted row never changes again, a discarded one *)
(* is never accepted or pending again, whatever workers still hold a claim on it          *)
(* (guard_ting_handoff, ting_handoffs_discarded_not_accepted).                            *)
KeepsSettled ==
    \A h \in Handoff :
        /\ row[h].state = "accepted" => row'[h] = row[h]
        /\ row[h].state = "discarded" => row'[h].state = "discarded"

(* A handoff is never stranded: while its recipient keeps taking part it ends accepted or *)
(* discarded, despite crashes between lease and outcome, lost answers and refusals        *)
(* (claim_ting_deliveries takes rows with expired leases).                                *)
EveryHandoffSettles ==
    \A h \in Handoff :
        (row[h].state = "pending") ~> (row[h].state # "pending" \/ h \notin present)

(* process_once: "lost leases are harmless and are recovered by the next owner"; run()    *)
(* returns only storage and configuration failures.  So no sequence of claims, expiries    *)
(* and account deletions ends a worker.                                                   *)
WorkersSurvive == failed = {}

HandoffConsistent == SameKeySameBody /\ AcceptedMeansStored

(* Crashing, expiring and racing workers send one body per key, record as accepted only what    *)
(* Ting stored, and never reopen a settled row (claim_ting_deliveries, process_once,            *)
(* guard_ting_handoff).                                                                         *)
HandoffSafe == []HandoffConsistent /\ [][KeepsSettled]_vars
=============================================================================
