----------------------------- MODULE MCProgress -----------------------------
(***************************************************************************)
(* What happens in the end: handoffs are settled, accounts registered with *)
(* Ting, queued requests sent. The modules share no state, so one run      *)
(* checks them side by side: `part` says which of them moves, and the      *)
(* others rest where they have nothing left to do.                         *)
(***************************************************************************)
EXTENDS TingHandoff

CONSTANTS alice, e1, e2, r1, r2, proofs, NoOne, s1

VARIABLES part,
          enrolment, grant, revoked, known, lock, task, plan, faults, lost, reused,  \* TingEnrolment
          outbox, up, life, attempt, profile, signIn, signIns, limit, cli, late,
          applied, keys, sentAs                                                    \* Relay

enrolmentVars == <<enrolment, grant, revoked, known, lock, task, plan, faults, lost, reused>>
relayVars == <<outbox, up, life, attempt, profile, signIn, signIns, limit, cli, late, applied, keys,
               sentAs>>
-----------------------------------------------------------------------------
MCTargetOf == [h \in Handoff |-> alice]

Enrollers == {e1, e2}
Reenrollers == {r1, r2}
(* Two overlapping enrolments with a re-enrolment, or one with two; each through faults. *)
Plans == {[tasks |-> {e1, e2, r1}, faults |-> 1], [tasks |-> {e1, r1, r2}, faults |-> 2]}

E == INSTANCE TingEnrolment WITH
  Enroller <- Enrollers, Reenroller <- Reenrollers, Proof <- proofs, Limits <- Plans,
  row <- enrolment, limit <- plan

Requests == {s1}
(* As large as all permits together. *)
Ops == [r \in Requests |-> [kind |-> "send_message", conversation |-> "c1", size |-> 2]]
Ada == {"ada"}
Nothing == << >>
Limit == {[requests |-> Requests, crashes |-> 1, signIns |-> 0]}

R == INSTANCE Relay WITH
  Request <- Requests, Op <- Ops, Account <- Ada, Owner <- "ada", OldRequests <- Nothing,
  Workers <- 2, Budget <- 2, MaxAttempts <- 1, Limits <- Limit,
  task <- attempt
-----------------------------------------------------------------------------
Enrolled ==
  /\ enrolment = "enrolled" /\ known = TRUE
  /\ grant \in [proof : {CHOOSE p \in proofs : TRUE}, last : {TRUE}] /\ revoked = {}
  /\ lock = NoOne /\ task = [t \in E!Task |-> E!Ready]
  /\ plan = [tasks |-> {}, faults |-> 0] /\ faults = 0 /\ lost = FALSE /\ reused = FALSE

Drained ==
  /\ outbox = <<[id |-> s1, lane |-> "c1", state |-> "completed", attempts |-> 0, due |-> TRUE,
                 by |-> "ada", window |-> FALSE, old |-> FALSE, life |-> 0]>>
  /\ up = TRUE /\ life = 1 /\ attempt = [r \in Requests |-> R!NoTask]
  /\ profile = [account |-> "ada", signedIn |-> TRUE, legacy |-> FALSE]
  /\ signIn = R!NoSignIn /\ signIns = 0 /\ limit \in Limit
  /\ cli = [r \in Requests |-> "acknowledged"]
  /\ late = {} /\ applied = <<[id |-> s1, account |-> "ada"]>> /\ keys = {s1} /\ sentAs = {}

MCInit ==
  /\ part \in {"handoff", "enrolment", "relay"}
  /\ Init
  /\ IF part = "enrolment" THEN E!Init ELSE Enrolled
  /\ IF part = "relay" THEN R!Init ELSE Drained

MCNext ==
  /\ part' = part
  /\ \/ part = "handoff" /\ Next /\ UNCHANGED <<enrolmentVars, relayVars>>
     \/ part = "enrolment" /\ E!Next /\ UNCHANGED <<vars, relayVars>>
     \/ part = "relay" /\ R!Next /\ UNCHANGED <<vars, enrolmentVars>>

MCSpec ==
  /\ MCInit /\ [][MCNext]_<<part, vars, enrolmentVars, relayVars>>
  /\ Fairness /\ E!Fairness /\ R!Fairness
-----------------------------------------------------------------------------
(* The state of each module keeps its types; the retry counter of a handoff stays at its limit. *)
TypesOK == TypeOK /\ E!TypeOK /\ R!TypeOK


(* An account that keeps sending requests is registered with Ting in the end (TingEnrolment). *)
RegisteredInTheEnd == E!RegisteredInTheEnd

(* Every acknowledged request is settled in the end, or its profile is signed out (Relay). *)
QueueDrains == R!QueueDrains
=============================================================================
