---------------------------- MODULE TingEnrolment ----------------------------
(***************************************************************************)
(* Enrolling one account with Ting: its requests start an enrolment in the *)
(* background, a handoff Ting refuses starts a re-enrolment with the stored *)
(* proof refresh token, in several DM processes that may stop at any time. *)
(***************************************************************************)
EXTENDS Naturals

CONSTANTS Enroller,    \* background enrolments
          Reenroller,  \* background re-enrolments
          NoOne,
          Proof,       \* names of proofs, one more than tasks and stored tokens together
          Limits       \* bounds: [tasks, faults], one of which limits a behaviour; faults are
                       \* stops of DM, failures of Accounts and Ting, and forgettings

VARIABLES row,       \* ting_automatic_enrollments: none, attempted (long ago or not), enrolled
          grant,     \* ting_proof_grants: the stored refresh token
          revoked,   \* Accounts: proofs revoked
          known,     \* Ting: whether the account is a recipient
          lock,      \* the re-enrolment's advisory lock
          task,      \* the background tasks
          limit,     \* the bounds of this behaviour
          faults,    \* so far (bound)
          lost,      \* a task stopped between a refresh and storing its token (ghost)
          reused     \* a used refresh token was presented (ghost)

vars == <<row, grant, revoked, known, lock, task, limit, faults, lost, reused>>

Task == Enroller \cup Reenroller
NoToken == [proof |-> NoOne, last |-> FALSE]
Ready == [pc |-> "ready", token |-> NoToken]

Init ==
  /\ row = "none" /\ grant = NoToken /\ revoked = {}
  /\ known = FALSE /\ lock = NoOne
  /\ task = [t \in Task |-> Ready]
  /\ limit \in Limits
  /\ faults = 0 /\ lost = FALSE /\ reused = FALSE

Go(t, pc) == task' = [task EXCEPT ![t].pc = pc]
Finished(t) == task' = [task EXCEPT ![t] = Ready]

Fault == faults < limit.faults /\ faults' = faults + 1
-----------------------------------------------------------------------------
(* enrol, started by a request of the account *)

(* reserve_ting_enrolment: not enrolled, and no attempt in the last ten minutes. *)
Reserve(e) ==
  /\ e \in limit.tasks /\ task[e].pc = "ready"
  /\ row \in {"none", "stale"}
  /\ row' = "attempted"
  /\ Go(e, "issue")
  /\ UNCHANGED <<limit, grant, revoked, known, lock, faults, lost, reused>>

(* The ten minutes pass. *)
AttemptAges ==
  /\ row = "attempted"
  /\ row' = "stale"
  /\ UNCHANGED <<limit, grant, revoked, known, lock, task, faults, lost, reused>>

(* The refresh token is stored before the recipient is registered with it. *)
AfterIssue == "save"

(* A proof no task and no stored token is of any more: its name is used again. *)
Unheld == Proof \ ({task[t].token.proof : t \in Task} \cup {grant.proof})

(* Accounts issues a proof with its first refresh token. *)
Issue(e) ==
  /\ task[e].pc = "issue"
  /\ LET p == CHOOSE q \in Unheld : TRUE IN
       /\ task' = [task EXCEPT ![e] = [pc |-> AfterIssue, token |-> [proof |-> p, last |-> TRUE]]]
       /\ revoked' = revoked \ {p}
  /\ UNCHANGED <<limit, row, grant, known, lock, faults, lost, reused>>

(* finish_ting_enrolment with an error *)
Unenrolled == IF row = "none" THEN "none" ELSE IF row = "stale" THEN "stale" ELSE "attempted"

IssueFails(e) ==
  /\ task[e].pc = "issue"
  /\ Fault
  /\ row' = Unenrolled
  /\ Finished(e)
  /\ UNCHANGED <<limit, grant, revoked, known, lock, lost, reused>>

(* save_ting_proof_grant *)
Save(t) ==
  /\ task[t].pc = "save"
  /\ grant' = task[t].token
  /\ task' = [task EXCEPT ![t] = [pc |-> "subscribe", token |-> NoToken]]
  /\ UNCHANGED <<limit, row, revoked, known, lock, faults, lost, reused>>

(* POST /v1/subscriptions *)
Subscribe(t) ==
  /\ task[t].pc = "subscribe"
  /\ known' = TRUE
  /\ Go(t, "subscribed")
  /\ UNCHANGED <<limit, row, grant, revoked, lock, faults, lost, reused>>

(* Refused, or the answer is lost after Ting registered the recipient. *)
SubscribeFails(t) ==
  /\ task[t].pc = "subscribe"
  /\ Fault
  /\ known' \in {known, TRUE}
  /\ Go(t, "refused")
  /\ UNCHANGED <<limit, row, grant, revoked, lock, lost, reused>>

(* finish_ting_enrolment updates the row there is. *)
Finish(e) ==
  /\ e \in Enroller
  /\ \/ task[e].pc = "subscribed" /\ row' = IF row = "none" THEN row ELSE "enrolled"
     \/ task[e].pc = "refused" /\ row' = Unenrolled
  /\ Finished(e)
  /\ UNCHANGED <<limit, grant, revoked, known, lock, faults, lost, reused>>
-----------------------------------------------------------------------------
(* reenrol, started when Ting refuses a handoff: recipient_not_registered *)

LockAnyway(r) == TRUE

(* pg_try_advisory_lock; a second caller returns at once. *)
Locked(r) == lock = NoOne

Reenrol(r) ==
  /\ r \in limit.tasks /\ task[r].pc = "ready"
  /\ ~known
  /\ Locked(r)
  /\ lock' = r
  /\ Go(r, "read")
  /\ UNCHANGED <<limit, row, grant, revoked, known, faults, lost, reused>>

ForgetsNothing(r, forget) ==
  /\ UNCHANGED row
  /\ lock' = IF lock = r THEN NoOne ELSE lock
  /\ Finished(r)

(* The result is out: forget the enrolment if there is nothing to show for it, and unlock. *)
EndsWith(r, forget) ==
  /\ row' = IF forget THEN "none" ELSE row
  /\ lock' = IF lock = r THEN NoOne ELSE lock
  /\ Finished(r)

ReadGrant(r) ==
  /\ task[r].pc = "read"
  /\ IF grant = NoToken
       THEN EndsWith(r, TRUE)
       ELSE task' = [task EXCEPT ![r] = [pc |-> "refresh", token |-> grant]]
            /\ UNCHANGED <<row, lock>>
  /\ UNCHANGED <<limit, grant, revoked, known, faults, lost, reused>>

(* A copy of the token just presented is a used one. *)
Used(token, p) == IF token.proof = p THEN [token EXCEPT !.last = FALSE] ELSE token

(* refresh_proof: the token works once, presenting a used one revokes the proof. *)
RefreshProof(r) ==
  LET k == task[r].token IN
  /\ task[r].pc = "refresh"
  /\ IF k.last /\ k.proof \notin revoked
       THEN /\ grant' = Used(grant, k.proof)
            /\ task' = [t \in Task |->
                 IF t = r THEN [pc |-> "save", token |-> k]
                 ELSE [task[t] EXCEPT !.token = Used(task[t].token, k.proof)]]
            /\ UNCHANGED <<row, lock, revoked, reused>>
       ELSE /\ revoked' = revoked \cup {k.proof}
            /\ reused' = (reused \/ k.proof \notin revoked)
            /\ EndsWith(r, TRUE)
            /\ UNCHANGED grant
  /\ UNCHANGED <<limit, known, faults, lost>>

(* Accounts is unreachable, or answered and the answer is lost. *)
RefreshFails(r) ==
  LET k == task[r].token IN
  /\ task[r].pc = "refresh"
  /\ Fault
  /\ EndsWith(r, TRUE)
  /\ \/ UNCHANGED <<grant, lost>>
     \/ /\ k.last /\ k.proof \notin revoked
        /\ grant' = Used(grant, k.proof)
        /\ lost' = TRUE
  /\ UNCHANGED <<limit, revoked, known, reused>>

(* A refused recipient's enrolment is forgotten: its next request enrols it. *)
FinishReenrol(r) ==
  /\ r \in Reenroller
  /\ task[r].pc \in {"subscribed", "refused"}
  /\ EndsWith(r, task[r].pc = "refused")
  /\ UNCHANGED <<limit, grant, revoked, known, faults, lost, reused>>
-----------------------------------------------------------------------------
(* A DM process stops; its session's lock goes with it. *)
Crash(t) ==
  /\ task[t] # Ready
  /\ Fault
  /\ Finished(t)
  /\ lock' = IF lock = t THEN NoOne ELSE lock
  /\ lost' = (lost \/ (t \in Reenroller /\ task[t].pc = "save"))
  /\ UNCHANGED <<limit, row, grant, revoked, known, reused>>

TingForgets ==
  /\ known /\ Fault
  /\ known' = FALSE
  /\ UNCHANGED <<limit, row, grant, revoked, lock, task, lost, reused>>

Enrols(e) ==
  \/ Reserve(e) \/ Issue(e) \/ IssueFails(e) \/ Finish(e)

Reenrols(r) ==
  \/ Reenrol(r) \/ ReadGrant(r) \/ RefreshProof(r) \/ RefreshFails(r) \/ FinishReenrol(r)

Next ==
  \/ \E e \in Enroller : Enrols(e)
  \/ \E r \in Reenroller : Reenrols(r)
  \/ \E t \in Task : Save(t) \/ Subscribe(t) \/ SubscribeFails(t) \/ Crash(t)
  \/ AttemptAges \/ TingForgets

Spec == Init /\ [][Next]_vars

(* Tokio runs every task; the account keeps sending requests; the worker retries a pending *)
(* handoff until Ting takes it.                                                            *)
Fairness ==
  /\ WF_vars(\E e \in Enroller : Reserve(e))
  /\ WF_vars(\E r \in Reenroller : Reenrol(r))
  /\ WF_vars(AttemptAges)
  /\ \A e \in Enroller : WF_vars(Issue(e)) /\ WF_vars(Finish(e))
  /\ \A r \in Reenroller : WF_vars(ReadGrant(r) \/ RefreshProof(r) \/ FinishReenrol(r))
  /\ \A t \in Task : WF_vars(Save(t) \/ Subscribe(t))
-----------------------------------------------------------------------------
TypeOK ==
  /\ row \in {"none", "attempted", "stale", "enrolled"}
  /\ revoked \subseteq Proof /\ Unheld # {}
  /\ lock \in Reenroller \cup {NoOne}
  /\ \A t \in Task : task[t].pc \in {"ready", "issue", "save", "subscribe", "subscribed", "refused",
                                     "read", "refresh"}
  /\ grant.proof \in Proof \cup {NoOne}

(* A used proof refresh token, which would revoke the proof, is presented only after an answer  *)
(* with its successor was lost or its holder stopped before storing it: one re-enrolment runs   *)
(* at a time across all processes (reenrol).                                                    *)
ReusedOnlyAfterLoss == reused => lost

(* An account DM counts as enrolled has a stored proof to re-enrol it with when Ting forgets    *)
(* it, wherever a process stopped (enrol stores the token before it registers the recipient).   *)
EnrolledHasProof == row = "enrolled" => grant # NoToken

(* Whatever failed, an account Ting does not know is registered in the end, by a re-enrolment   *)
(* or by a later request of its own (reenrol, forget_ting_enrolment, reserve_ting_enrolment).   *)
RegisteredInTheEnd == ~known ~> known

=============================================================================
