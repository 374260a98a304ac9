------------------------- MODULE TingHandoffProofs -------------------------
(***************************************************************************)
(* The hand-off to Ting is correct for any rows, workers, crashes and      *)
(* changes of public ids: every attempt sends the bytes of the first one,  *)
(* acceptance is true, and both outcomes are final.                        *)
(*                                                                         *)
(* None of this is inductive: what a worker sends or records was decided   *)
(* when it claimed the row, while others may have claimed it since.  IInv  *)
(* says what survives in between: the row still has the body the worker    *)
(* remembers, and a confirmed request is stored at Ting.                   *)
(***************************************************************************)
EXTENDS TingHandoff, TLAPS

(* A leaf goes to Zenon unless it names another prover. *)
USE Zenon

(* A request that was sent, and one a worker has in mind, has the row's prepared body. *)
BodiesAgree ==
    /\ \A x \in sent : row[x.key].body = x.body
    /\ \A w \in Worker : worker[w].pc # "idle" =>
          worker[w].body # NoBody /\ row[worker[w].h].body = worker[w].body

(* Ting confirms what it stored. *)
ConfirmedMeansStored ==
    \A w \in Worker : worker[w].pc = "confirmed" => \E x \in ting : x.key = worker[w].h

(* Acceptance gives the lease back. *)
AcceptedIsUnleased == \A h \in Handoff : row[h].state = "accepted" => ~row[h].live

IInv ==
    TypeOK /\ BodiesAgree /\ ConfirmedMeansStored /\ AcceptedIsUnleased /\ AcceptedMeansStored

RowType == [state : {"absent", "pending", "accepted", "discarded"},
            lease : Worker \cup {NoWorker}, live : BOOLEAN, due : BOOLEAN,
            attempts : 0..MaxAttempts, body : Body]

ClaimType == [pc : {"idle", "claimed", "sending", "confirmed", "refused"},
              h : Handoff, body : Body]

SurroundingsOK ==
    /\ present \subseteq Handoff /\ deleted \subseteq Account
    /\ publicId \in [Account -> 0..MaxRenames]
    /\ crashes \in 0..MaxCrashes /\ failed \subseteq Worker

(* A step that prepares no body and accepts nothing, as far as this row can tell. *)
Calm(r, new) ==
    /\ new.body = r.body
    /\ "accepted" \in {r.state, new.state} => new = r
    /\ r.state = "discarded" => new.state = "discarded"

(* A step that gives this worker no claim and no confirmation. *)
Goes(c, new) ==
    \/ new = c
    \/ new.pc = "idle"
    \/ c.pc # "idle" /\ new.pc # "confirmed" /\ new.h = c.h /\ new.body = c.body

----------------------------------------------------------------------------
(* The operators *)

(* A worker without a claim remembers nothing (NoClaim). *)
LEMMA NoClaimTyped == NoClaim \in ClaimType /\ NoClaim.pc = "idle"
<1>1. (CHOOSE h \in Handoff : TRUE) \in Handoff
  BY HandoffAssumption
<1> QED
  BY SMT, <1>1 DEF NoClaim, ClaimType, Body

(* TypeOK in terms of the types of rows and claims. *)
LEMMA Types ==
    TypeOK <=> /\ row \in [Handoff -> RowType] /\ worker \in [Worker -> ClaimType]
               /\ SurroundingsOK
               /\ ting \subseteq sent /\ sent \subseteq [key : Handoff, body : 0..MaxRenames]
BY DEF TypeOK, RowType, ClaimType, SurroundingsOK

(* Marking rows that are not accepted as discarded is a calm step for every row           *)
(* (claim_ting_deliveries, discard_ting_handoffs, delete_account).                        *)
LEMMA DiscardedRows ==
    ASSUME row \in [Handoff -> RowType], NEW D \in SUBSET Handoff,
           \A h \in D : row[h].state = "pending"
    PROVE  /\ Discarded(row, D) \in [Handoff -> RowType]
           /\ \A h \in Handoff : Calm(row[h], Discarded(row, D)[h])
           /\ \A h \in Handoff \ D : Discarded(row, D)[h] = row[h]
BY SMT DEF Discarded, RowType, Calm

(* One row changes, calmly. *)
LEMMA OneRow ==
    ASSUME row \in [Handoff -> RowType], NEW h \in Handoff, NEW new \in RowType,
           Calm(row[h], new), row' = [row EXCEPT ![h] = new]
    PROVE  row' \in [Handoff -> RowType] /\ \A g \in Handoff : Calm(row[g], row'[g])
<1>1. ASSUME NEW g \in Handoff PROVE Calm(row[g], row'[g])
  <2>1. row'[g] = IF g = h THEN new ELSE row[g]
    BY SMT
  <2>2. CASE g = h
    BY <2>1, <2>2
  <2>3. CASE g # h
    BY <2>1, <2>3 DEF Calm
  <2> QED
    BY <2>2, <2>3
<1> QED
  BY <1>1, SMT

(* Nothing changes for a row, or for a worker. *)
LEMMA SameRows == (UNCHANGED row) => \A h \in Handoff : Calm(row[h], row'[h])
BY DEF Calm

LEMMA SameWorkers == (UNCHANGED worker) => \A w \in Worker : Goes(worker[w], worker'[w])
BY DEF Goes

(* A worker forgets its claim. *)
LEMMA Forgets ==
    ASSUME worker \in [Worker -> ClaimType], NEW w \in Worker,
           worker' = [worker EXCEPT ![w] = NoClaim]
    PROVE  worker' \in [Worker -> ClaimType] /\ \A v \in Worker : Goes(worker[v], worker'[v])
<1>1. ASSUME NEW v \in Worker PROVE Goes(worker[v], worker'[v])
  <2>1. worker'[v] = IF v = w THEN NoClaim ELSE worker[v]
    BY SMT
  <2> QED
    BY <2>1, NoClaimTyped DEF Goes
<1> QED
  BY <1>1, NoClaimTyped, SMT

----------------------------------------------------------------------------
(* Steps that send nothing, prepare no body, accept nothing and give no worker a new claim *)
(* or a confirmation preserve the invariant and reopen nothing.                            *)
LEMMA Quiet ==
    ASSUME IInv, SurroundingsOK', sent' = sent, ting' = ting,
           row' \in [Handoff -> RowType], \A h \in Handoff : Calm(row[h], row'[h]),
           worker' \in [Worker -> ClaimType], \A w \in Worker : Goes(worker[w], worker'[w])
    PROVE  IInv' /\ KeepsSettled
<1>0. /\ row \in [Handoff -> RowType] /\ worker \in [Worker -> ClaimType]
      /\ ting \subseteq sent /\ sent \subseteq [key : Handoff, body : 0..MaxRenames]
  BY Types DEF IInv
<1>1. TypeOK'
  BY <1>0 DEF TypeOK, RowType, ClaimType, SurroundingsOK
<1>2. BodiesAgree'
  <2>1. ASSUME NEW x \in sent PROVE row'[x.key].body = x.body
    <3>1. x.key \in Handoff
      BY <1>0, SMT
    <3> QED
      BY <3>1 DEF IInv, BodiesAgree, Calm
  <2>2. ASSUME NEW w \in Worker, worker'[w].pc # "idle"
        PROVE  worker'[w].body # NoBody /\ row'[worker'[w].h].body = worker'[w].body
    <3>1. /\ worker[w].pc # "idle"
          /\ worker'[w].h = worker[w].h /\ worker'[w].body = worker[w].body
      BY <2>2, SMT DEF Goes
    <3>2. worker[w].h \in Handoff
      BY <1>0, SMT DEF ClaimType
    <3> QED
      BY ZenonT(40), <3>1, <3>2 DEF IInv, BodiesAgree, Calm
  <2> QED
    BY <2>1, <2>2 DEF BodiesAgree
<1>3. ConfirmedMeansStored'
  <2> SUFFICES ASSUME NEW w \in Worker, worker'[w].pc = "confirmed"
               PROVE  \E x \in ting : x.key = worker'[w].h
    BY DEF ConfirmedMeansStored
  <2>1. worker'[w] = worker[w]
    BY SMT DEF Goes
  <2> QED
    BY <2>1 DEF IInv, ConfirmedMeansStored
<1>4. ASSUME NEW h \in Handoff, row'[h].state = "accepted"
      PROVE  row'[h] = row[h] /\ row[h].state = "accepted"
  BY <1>4, SMT DEF Calm
<1>5. AcceptedIsUnleased'
  BY <1>4 DEF IInv, AcceptedIsUnleased
<1>6. AcceptedMeansStored'
  <2> SUFFICES ASSUME NEW h \in Handoff, row'[h].state = "accepted"
               PROVE  \E x \in ting' : x.key = h /\ x.body = row'[h].body
    BY DEF AcceptedMeansStored
  <2>1. PICK x \in ting : x.key = h /\ x.body = row[h].body
    BY <1>4 DEF IInv, AcceptedMeansStored
  <2> QED
    BY <2>1, <1>4
<1>7. KeepsSettled
  BY DEF KeepsSettled, Calm
<1> QED
  BY <1>1, <1>2, <1>3, <1>5, <1>6, <1>7 DEF IInv

----------------------------------------------------------------------------
(* The worker *)

(* What is sent is what the row has prepared, for this worker and for all others (prepared_body). *)
LEMMA PreparedOnce ==
    ASSUME IInv, NEW h \in Handoff
    PROVE  /\ PreparedBody(h) \in Body /\ PreparedBody(h) # NoBody
           /\ row[h].body # NoBody => PreparedBody(h) = row[h].body
<1>1. row[h].body \in Body /\ publicId[TargetOf[h]] \in 0..MaxRenames
  BY HandoffAssumption, SMT DEF IInv, TypeOK
<1> QED
  BY <1>1, SMT DEF PreparedBody, Body, NoBody

(* A claim leaves the bodies of all requests sent and claims held as they are             *)
(* (claim_ting_deliveries).                                                               *)
LEMMA ClaimStep ==
    ASSUME IInv, NEW w \in Worker, NEW h \in Handoff, NEW D \in SUBSET Legacy, Claim(w, h, D)
    PROVE  IInv' /\ KeepsSettled
<1> DEFINE new == [row[h] EXCEPT !.lease = w, !.live = TRUE, !.body = PreparedBody(h)]
           claim == [pc |-> "claimed", h |-> h, body |-> PreparedBody(h)]
<1>0. /\ row \in [Handoff -> RowType] /\ worker \in [Worker -> ClaimType] /\ SurroundingsOK
      /\ ting \subseteq sent /\ sent \subseteq [key : Handoff, body : 0..MaxRenames]
  BY Types DEF IInv
<1>1. /\ PreparedBody(h) \in Body /\ PreparedBody(h) # NoBody
      /\ row[h].body # NoBody => PreparedBody(h) = row[h].body
  BY PreparedOnce
<1>2. /\ D \in SUBSET Handoff /\ h \notin D
      /\ row[h].state = "pending" /\ \A g \in D : row[g].state = "pending"
  BY HandoffAssumption DEF Claim, Eligible
<1>3. /\ Discarded(row, D) \in [Handoff -> RowType] /\ Discarded(row, D)[h] = row[h]
      /\ \A g \in Handoff : Calm(row[g], Discarded(row, D)[g])
  BY <1>0, <1>2, DiscardedRows
<1>4. row' = [Discarded(row, D) EXCEPT ![h] = new]
  BY <1>3, SMT DEF Claim
<1>5. /\ new \in RowType /\ new.state = "pending" /\ new.body = PreparedBody(h)
  <2>1. row[h] \in RowType
    BY <1>0
  <2>2. new \in RowType
    BY <1>1, <2>1 DEF RowType
  <2>3. new.state = row[h].state /\ new.body = PreparedBody(h)
    BY <2>1, SMT DEF RowType
  <2> QED
    BY <1>2, <2>2, <2>3
<1>6. worker' = [worker EXCEPT ![w] = claim]
  BY DEF Claim
<1>7. claim \in ClaimType /\ claim.pc = "claimed" /\ claim.h = h /\ claim.body = PreparedBody(h)
  BY <1>1, SMT DEF ClaimType
<1>8. sent' = sent /\ ting' = ting /\ UNCHANGED <<around, failed>>
  BY DEF Claim
<1> HIDE DEF new, claim
<1>9. /\ row' \in [Handoff -> RowType] /\ row'[h] = new
      /\ \A g \in Handoff \ {h} : Calm(row[g], row'[g])
  BY <1>3, <1>4, <1>5, SMT
<1>10. /\ worker' \in [Worker -> ClaimType] /\ worker'[w] = claim
       /\ \A v \in Worker \ {w} : worker'[v] = worker[v]
  BY <1>0, <1>6, <1>7, SMT
<1>11. TypeOK'
  BY <1>0, <1>8, <1>9, <1>10 DEF TypeOK, RowType, ClaimType, SurroundingsOK, around
<1>12. ASSUME NEW g \in Handoff, row[g].body # NoBody PROVE row'[g].body = row[g].body
  <2>1. CASE g = h
    BY <1>1, <1>5, <1>9, <1>12, <2>1
  <2>2. CASE g # h
    BY <1>9, <2>2 DEF Calm
  <2> QED
    BY <2>1, <2>2
<1>13. BodiesAgree'
  <2>1. ASSUME NEW x \in sent PROVE row'[x.key].body = x.body
    <3>1. x.key \in Handoff /\ x.body # NoBody
      BY <1>0, HandoffAssumption, SMT DEF NoBody
    <3>2. row[x.key].body = x.body
      BY DEF IInv, BodiesAgree
    <3> QED
      BY <1>12, <3>1, <3>2
  <2>2. ASSUME NEW v \in Worker, worker'[v].pc # "idle"
        PROVE  worker'[v].body # NoBody /\ row'[worker'[v].h].body = worker'[v].body
    <3>1. CASE v = w
      BY <1>1, <1>5, <1>7, <1>9, <1>10, <3>1
    <3>2. CASE v # w
      <4>1. worker'[v] = worker[v]
        BY <1>10, <3>2
      <4>2. worker[v].h \in Handoff
        BY <1>0, SMT DEF ClaimType
      <4>3. worker[v].body # NoBody /\ row[worker[v].h].body = worker[v].body
        BY <2>2, <4>1 DEF IInv, BodiesAgree
      <4> QED
        BY <1>12, <4>1, <4>2, <4>3
    <3> QED
      BY <3>1, <3>2
  <2> QED
    BY <1>8, <2>1, <2>2 DEF BodiesAgree
<1>14. ConfirmedMeansStored'
  <2> SUFFICES ASSUME NEW v \in Worker, worker'[v].pc = "confirmed"
               PROVE  \E x \in ting : x.key = worker'[v].h
    BY <1>8 DEF ConfirmedMeansStored
  <2>1. v # w
    BY <1>7, <1>10, SMT
  <2>2. worker'[v] = worker[v]
    BY <1>10, <2>1
  <2> QED
    BY <2>2 DEF IInv, ConfirmedMeansStored
<1>15. ASSUME NEW g \in Handoff, row'[g].state = "accepted"
       PROVE  row'[g] = row[g] /\ row[g].state = "accepted"
  <2>1. g # h
    BY <1>5, <1>9, <1>15, SMT
  <2> QED
    BY <1>9, <1>15, <2>1, SMT DEF Calm
<1>16. AcceptedIsUnleased'
  BY <1>15 DEF IInv, AcceptedIsUnleased
<1>17. AcceptedMeansStored'
  <2> SUFFICES ASSUME NEW g \in Handoff, row'[g].state = "accepted"
               PROVE  \E x \in ting : x.key = g /\ x.body = row'[g].body
    BY <1>8 DEF AcceptedMeansStored
  <2> QED
    BY ZenonT(40), <1>15 DEF IInv, AcceptedMeansStored
<1>18. KeepsSettled
  <2> SUFFICES ASSUME NEW g \in Handoff
               PROVE  /\ row[g].state = "accepted" => row'[g] = row[g]
                      /\ row[g].state = "discarded" => row'[g].state = "discarded"
    BY DEF KeepsSettled
  <2>1. CASE g = h
    BY <1>2, <2>1, SMT
  <2>2. CASE g # h
    BY <1>9, <2>2 DEF Calm
  <2> QED
    BY <2>1, <2>2
<1> QED
  BY <1>11, <1>13, <1>14, <1>16, <1>17, <1>18 DEF IInv

(* A request leaves for Ting with the row's body; what Ting stored stays stored (process_once). *)
LEMMA SendStep ==
    ASSUME IInv, NEW w \in Worker, Publish(w) \/ PublishFails(w)
    PROVE  IInv' /\ KeepsSettled
<1> DEFINE h == worker[w].h
           b == worker[w].body
           request == [key |-> h, body |-> b]
           end == IF Publish(w) THEN "confirmed" ELSE "refused"
<1>0. /\ row \in [Handoff -> RowType] /\ worker \in [Worker -> ClaimType] /\ SurroundingsOK
      /\ ting \subseteq sent /\ sent \subseteq [key : Handoff, body : 0..MaxRenames]
  BY Types DEF IInv
<1>1. worker[w].pc = "sending" /\ sent' = sent \cup {request}
  BY DEF Publish, PublishFails
<1>2. row' = row /\ UNCHANGED <<around, failed>>
  BY DEF Publish, PublishFails
<1>3. ting \subseteq ting' /\ ting' \subseteq ting \cup {request}
  BY DEF Publish, PublishFails, Stored
<1>4. h \in Handoff /\ b \in Body /\ b # NoBody /\ row[h].body = b
  <2>1. h \in Handoff /\ b \in Body
    BY <1>0, SMT DEF ClaimType
  <2>2. worker[w].pc # "idle"
    BY <1>1, SMT
  <2> QED
    BY <2>1, <2>2 DEF IInv, BodiesAgree
<1>5. request \in [key : Handoff, body : 0..MaxRenames] /\ request.key = h /\ request.body = b
  BY <1>4, HandoffAssumption, SMT DEF Body, NoBody
<1>6. worker' = [worker EXCEPT ![w] = [worker[w] EXCEPT !.pc = end]]
  BY <1>0, SMT DEF Publish, PublishFails
<1>7. end \in {"confirmed", "refused"} /\ (end = "confirmed" => Publish(w))
  BY DEF end
<1>8. Publish(w) => \E x \in ting' : x.key = h
  BY <1>5 DEF Publish, Stored
<1> HIDE DEF h, b, request, end
<1>9. /\ worker' \in [Worker -> ClaimType]
      /\ \A v \in Worker : /\ worker'[v].h = worker[v].h /\ worker'[v].body = worker[v].body
                           /\ v # w => worker'[v] = worker[v]
      /\ worker'[w].pc = end
  BY <1>0, <1>6, <1>7, SMT DEF ClaimType
<1>10. TypeOK'
  BY <1>0, <1>1, <1>2, <1>3, <1>5, <1>9 DEF TypeOK, RowType, ClaimType, SurroundingsOK, around
<1>11. BodiesAgree'
  <2>1. ASSUME NEW x \in sent' PROVE row[x.key].body = x.body
    BY <1>1, <1>4, <1>5, <2>1 DEF IInv, BodiesAgree
  <2>2. ASSUME NEW v \in Worker, worker'[v].pc # "idle"
        PROVE  worker'[v].body # NoBody /\ row[worker'[v].h].body = worker'[v].body
    <3>1. worker[v].pc # "idle"
      <4>1. CASE v = w
        BY <1>1, <4>1, SMT
      <4>2. CASE v # w
        BY <1>9, <2>2, <4>2
      <4> QED
        BY <4>1, <4>2
    <3> QED
      BY <1>9, <3>1 DEF IInv, BodiesAgree
  <2> QED
    BY <1>2, <2>1, <2>2 DEF BodiesAgree
<1>12. ConfirmedMeansStored'
  <2> SUFFICES ASSUME NEW v \in Worker, worker'[v].pc = "confirmed"
               PROVE  \E x \in ting' : x.key = worker'[v].h
    BY DEF ConfirmedMeansStored
  <2>1. CASE v = w
    BY <1>7, <1>8, <1>9, <2>1 DEF h
  <2>2. CASE v # w
    BY <1>3, <1>9, <2>2 DEF IInv, ConfirmedMeansStored
  <2> QED
    BY <2>1, <2>2
<1>13. AcceptedIsUnleased' /\ KeepsSettled
  BY <1>2 DEF IInv, AcceptedIsUnleased, KeepsSettled
<1>14. AcceptedMeansStored'
  BY <1>2, <1>3 DEF IInv, AcceptedMeansStored
<1> QED
  BY <1>10, <1>11, <1>12, <1>13, <1>14 DEF IInv

(* Acceptance is recorded of a row that Ting has, under the lease it was sent with             *)
(* (accept_ting_delivery).                                                                     *)
LEMMA AcceptStep ==
    ASSUME IInv, NEW w \in Worker, Accept(w)
    PROVE  IInv' /\ KeepsSettled
<1> DEFINE h == worker[w].h
           new == [Unleased(row[h]) EXCEPT !.state = "accepted"]
<1>0. /\ row \in [Handoff -> RowType] /\ worker \in [Worker -> ClaimType] /\ SurroundingsOK
      /\ ting \subseteq sent /\ sent \subseteq [key : Handoff, body : 0..MaxRenames]
  BY Types DEF IInv
<1>1. worker[w].pc = "confirmed" /\ worker' = [worker EXCEPT ![w] = NoClaim]
  BY DEF Accept
<1>2. sent' = sent /\ ting' = ting
  BY DEF Accept
<1>3. SurroundingsOK'
  BY <1>0 DEF Accept, SurroundingsOK, around
<1>4. worker' \in [Worker -> ClaimType] /\ \A v \in Worker : Goes(worker[v], worker'[v])
  BY <1>0, <1>1, Forgets
<1>5. CASE row' = row
  BY <1>0, <1>2, <1>3, <1>4, <1>5, SameRows, Quiet
<1>6. CASE row' # row
  <2>1. h \in Handoff /\ row[h] \in RowType
    BY <1>0, SMT DEF ClaimType
  <2>2. row[h].state = "pending" /\ row' = [row EXCEPT ![h] = new]
    BY <1>6 DEF Accept
  <2>3. new \in RowType
    BY <2>1 DEF RowType, Unleased
  <2>4. new.state = "accepted" /\ ~new.live /\ new.body = row[h].body
    BY <2>1, SMT DEF RowType, Unleased
  <2> HIDE DEF new
  <2>5. row' \in [Handoff -> RowType] /\ row'[h] = new /\ \A g \in Handoff \ {h} : row'[g] = row[g]
    BY <1>0, <2>1, <2>2, <2>3, SMT
  <2>6. TypeOK'
    BY <1>0, <1>2, <1>3, <1>4, <2>5 DEF TypeOK, RowType, ClaimType, SurroundingsOK
  <2>7. \A g \in Handoff : row'[g].body = row[g].body
    BY <2>4, <2>5
  <2>8. BodiesAgree'
    <3>1. ASSUME NEW x \in sent PROVE row'[x.key].body = x.body
      <4>1. x.key \in Handoff
        BY <1>0, SMT
      <4> QED
        BY <2>7, <4>1 DEF IInv, BodiesAgree
    <3>2. ASSUME NEW v \in Worker, worker'[v].pc # "idle"
          PROVE  worker'[v].body # NoBody /\ row'[worker'[v].h].body = worker'[v].body
      <4>1. worker[v].pc # "idle" /\ worker'[v].h = worker[v].h /\ worker'[v].body = worker[v].body
        BY <1>4, <3>2, SMT DEF Goes
      <4>2. worker[v].h \in Handoff
        BY <1>0, SMT DEF ClaimType
      <4> QED
        BY <2>7, <4>1, <4>2 DEF IInv, BodiesAgree
    <3> QED
      BY <1>2, <3>1, <3>2 DEF BodiesAgree
  <2>9. ConfirmedMeansStored'
    <3> SUFFICES ASSUME NEW v \in Worker, worker'[v].pc = "confirmed"
                 PROVE  \E x \in ting : x.key = worker'[v].h
      BY <1>2 DEF ConfirmedMeansStored
    <3>1. worker'[v] = worker[v]
      BY <1>4, SMT DEF Goes
    <3> QED
      BY <3>1 DEF IInv, ConfirmedMeansStored
  <2>10. AcceptedIsUnleased'
    BY <2>4, <2>5 DEF IInv, AcceptedIsUnleased
  <2>11. AcceptedMeansStored'
    <3>1. PICK x \in ting : x.key = h
      BY <1>1 DEF IInv, ConfirmedMeansStored
    <3>2. x.body = row[h].body
      BY <1>0, <3>1 DEF IInv, BodiesAgree
    <3> SUFFICES ASSUME NEW g \in Handoff, row'[g].state = "accepted"
                 PROVE  \E y \in ting : y.key = g /\ y.body = row'[g].body
      BY <1>2 DEF AcceptedMeansStored
    <3>3. CASE g = h
      BY <2>4, <2>5, <3>1, <3>2, <3>3
    <3>4. CASE g # h
      BY <2>5, <3>4 DEF IInv, AcceptedMeansStored
    <3> QED
      BY <3>3, <3>4
  <2>12. KeepsSettled
    <3> SUFFICES ASSUME NEW g \in Handoff
                 PROVE  /\ row[g].state = "accepted" => row'[g] = row[g]
                        /\ row[g].state = "discarded" => row'[g].state = "discarded"
      BY DEF KeepsSettled
    <3>1. CASE g = h
      BY <2>2, <3>1, SMT
    <3>2. CASE g # h
      BY <2>5, <3>2
    <3> QED
      BY <3>1, <3>2
  <2> QED
    BY <2>6, <2>8, <2>9, <2>10, <2>11, <2>12 DEF IInv
<1> QED
  BY <1>5, <1>6

(* The other steps of a worker are quiet. *)
LEMMA WorkerStep ==
    ASSUME IInv, NEW w \in Worker,
           ClaimNothing(w) \/ DiscardAll(w) \/ Authorize(w) \/ Retry(w) \/ Crash(w)
    PROVE  IInv' /\ KeepsSettled
<1>0. /\ row \in [Handoff -> RowType] /\ worker \in [Worker -> ClaimType] /\ SurroundingsOK
  BY Types DEF IInv
<1>1. CASE ClaimNothing(w)
  <2>1. Eligible \in SUBSET Handoff /\ \A h \in Eligible : row[h].state = "pending"
    BY DEF Eligible
  <2>2. row' \in [Handoff -> RowType] /\ \A h \in Handoff : Calm(row[h], row'[h])
    BY <1>0, <1>1, <2>1, DiscardedRows DEF ClaimNothing
  <2>3. sent' = sent /\ ting' = ting /\ UNCHANGED worker /\ SurroundingsOK'
    BY <1>0, <1>1 DEF ClaimNothing, SurroundingsOK, around
  <2> QED
    BY <1>0, <2>2, <2>3, SameWorkers, Quiet
<1>2. CASE DiscardAll(w)
  <2> DEFINE D == {h \in Handoff : row[h].state = "pending" /\ ~LiveLease(h)}
  <2>1. D \in SUBSET Handoff /\ \A h \in D : row[h].state = "pending"
    OBVIOUS
  <2>2. row' = Discarded(row, D)
    BY <1>2 DEF DiscardAll
  <2> HIDE DEF D
  <2>3. row' \in [Handoff -> RowType] /\ \A h \in Handoff : Calm(row[h], row'[h])
    BY <1>0, <2>1, <2>2, DiscardedRows
  <2>4. sent' = sent /\ ting' = ting /\ UNCHANGED worker /\ SurroundingsOK'
    BY <1>0, <1>2 DEF DiscardAll, SurroundingsOK, around
  <2> QED
    BY <1>0, <2>3, <2>4, SameWorkers, Quiet
<1>3. CASE Authorize(w)
  <2>1. PICK next \in {"sending", "refused"} :
          worker' = [worker EXCEPT ![w] = [worker[w] EXCEPT !.pc = next]]
    BY <1>0, <1>3, SMT DEF Authorize
  <2>2. worker[w].pc = "claimed" /\ worker[w] \in ClaimType
    BY <1>0, <1>3 DEF Authorize
  <2>3. [worker[w] EXCEPT !.pc = next] \in ClaimType
    BY <2>2 DEF ClaimType
  <2>4. Goes(worker[w], [worker[w] EXCEPT !.pc = next])
    BY <2>2, SMT DEF Goes, ClaimType
  <2>5. worker' \in [Worker -> ClaimType] /\ \A v \in Worker : Goes(worker[v], worker'[v])
    BY <1>0, <2>1, <2>3, <2>4, SMT DEF Goes
  <2>6. sent' = sent /\ ting' = ting /\ UNCHANGED row /\ SurroundingsOK'
    BY <1>0, <1>3 DEF Authorize, SurroundingsOK, around
  <2> QED
    BY <1>0, <2>5, <2>6, SameRows, Quiet
<1>4. CASE Retry(w)
  <2>1. worker' \in [Worker -> ClaimType] /\ \A v \in Worker : Goes(worker[v], worker'[v])
    BY <1>0, <1>4, Forgets DEF Retry
  <2>2. sent' = sent /\ ting' = ting /\ SurroundingsOK'
    BY <1>0, <1>4 DEF Retry, SurroundingsOK, around
  <2>3. CASE row' = row
    BY <1>0, <2>1, <2>2, <2>3, SameRows, Quiet
  <2>4. CASE row' # row
    <3>1. worker[w].h \in Handoff
      BY <1>0, SMT DEF ClaimType
    <3>2. /\ row[worker[w].h].state # "accepted"
          /\ row' = [row EXCEPT ![worker[w].h] = Postponed(row[worker[w].h])]
      BY <1>4, <2>4 DEF Retry
    <3>3. \A r \in RowType : Postponed(r) \in RowType
      <4> SUFFICES ASSUME NEW r \in RowType PROVE Postponed(r) \in RowType
        OBVIOUS
      <4>1. (IF r.attempts < MaxAttempts THEN r.attempts + 1 ELSE r.attempts) \in 0..MaxAttempts
        BY HandoffAssumption, SMT DEF RowType
      <4> QED
        BY <4>1 DEF RowType, Postponed, Unleased
    <3>4. \A r \in RowType : Postponed(r).body = r.body /\ Postponed(r).state = r.state
      BY SMT DEF RowType, Postponed, Unleased
    <3>5. Calm(row[worker[w].h], Postponed(row[worker[w].h]))
      BY <1>0, <3>1, <3>2, <3>4, SMT DEF Calm
    <3>6. row' \in [Handoff -> RowType] /\ \A h \in Handoff : Calm(row[h], row'[h])
      BY <1>0, <3>1, <3>2, <3>3, <3>5, OneRow
    <3> QED
      BY <2>1, <2>2, <3>6, Quiet
  <2> QED
    BY <2>3, <2>4
<1>5. CASE Crash(w)
  <2>1. worker' \in [Worker -> ClaimType] /\ \A v \in Worker : Goes(worker[v], worker'[v])
    BY <1>0, <1>5, Forgets DEF Crash
  <2>2. crashes' \in 0..MaxCrashes
    BY <1>0, <1>5, HandoffAssumption, SMT DEF Crash, SurroundingsOK
  <2>3. sent' = sent /\ ting' = ting /\ UNCHANGED row /\ SurroundingsOK'
    BY <1>0, <1>5, <2>2 DEF Crash, SurroundingsOK
  <2> QED
    BY <1>0, <2>1, <2>3, SameRows, Quiet
<1> QED
  BY <1>1, <1>2, <1>3, <1>4, <1>5

----------------------------------------------------------------------------
(* Meanwhile *)

(* Commits, clocks and participation are quiet. *)
LEMMA RowStep ==
    ASSUME IInv, NEW h \in Handoff,
           Enqueue(h) \/ LeaseExpires(h) \/ AttemptDue(h) \/ Leave(h) \/ Rejoin(h)
    PROVE  IInv' /\ KeepsSettled
<1>0. /\ row \in [Handoff -> RowType] /\ worker \in [Worker -> ClaimType] /\ SurroundingsOK
      /\ row[h] \in RowType
  BY Types DEF IInv
<1>1. CASE Enqueue(h)
  <2> DEFINE new == [row[h] EXCEPT !.state = "pending", !.due = TRUE]
  <2>1. row[h].state = "absent" /\ row' = [row EXCEPT ![h] = new]
    BY <1>1 DEF Enqueue
  <2>2. new \in RowType
    BY <1>0 DEF RowType
  <2>3. Calm(row[h], new)
    BY <1>0, <2>1, SMT DEF RowType, Calm
  <2>4. sent' = sent /\ ting' = ting /\ UNCHANGED worker /\ SurroundingsOK'
    BY <1>0, <1>1 DEF Enqueue, SurroundingsOK, around
  <2> HIDE DEF new
  <2>5. row' \in [Handoff -> RowType] /\ \A g \in Handoff : Calm(row[g], row'[g])
    BY <1>0, <2>1, <2>2, <2>3, OneRow
  <2> QED
    BY <1>0, <2>4, <2>5, SameWorkers, Quiet
<1>2. CASE LeaseExpires(h)
  <2> DEFINE new == [row[h] EXCEPT !.live = FALSE]
  <2>1. row[h].live /\ row' = [row EXCEPT ![h] = new]
    BY <1>2 DEF LeaseExpires
  <2>2. row[h].state # "accepted"
    BY <2>1 DEF IInv, AcceptedIsUnleased
  <2>3. new \in RowType
    BY <1>0 DEF RowType
  <2>4. Calm(row[h], new)
    BY <1>0, <2>2, SMT DEF RowType, Calm
  <2>5. sent' = sent /\ ting' = ting /\ UNCHANGED worker /\ SurroundingsOK'
    BY <1>0, <1>2 DEF LeaseExpires, SurroundingsOK, around
  <2> HIDE DEF new
  <2>6. row' \in [Handoff -> RowType] /\ \A g \in Handoff : Calm(row[g], row'[g])
    BY <1>0, <2>1, <2>3, <2>4, OneRow
  <2> QED
    BY <1>0, <2>5, <2>6, SameWorkers, Quiet
<1>3. CASE AttemptDue(h)
  <2> DEFINE new == [row[h] EXCEPT !.due = TRUE]
  <2>1. row[h].state = "pending" /\ row' = [row EXCEPT ![h] = new]
    BY <1>3 DEF AttemptDue
  <2>2. new \in RowType
    BY <1>0 DEF RowType
  <2>3. Calm(row[h], new)
    BY <1>0, <2>1, SMT DEF RowType, Calm
  <2>4. sent' = sent /\ ting' = ting /\ UNCHANGED worker /\ SurroundingsOK'
    BY <1>0, <1>3 DEF AttemptDue, SurroundingsOK, around
  <2> HIDE DEF new
  <2>5. row' \in [Handoff -> RowType] /\ \A g \in Handoff : Calm(row[g], row'[g])
    BY <1>0, <2>1, <2>2, <2>3, OneRow
  <2> QED
    BY <1>0, <2>4, <2>5, SameWorkers, Quiet
<1>4. CASE Leave(h) \/ Rejoin(h)
  <2>1. sent' = sent /\ ting' = ting /\ UNCHANGED <<row, worker>> /\ SurroundingsOK'
    BY <1>0, <1>4 DEF Leave, Rejoin, SurroundingsOK
  <2> QED
    BY <1>0, <2>1, SameRows, SameWorkers, Quiet
<1> QED
  BY <1>1, <1>2, <1>3, <1>4

(* So are a new public id and the deletion of an account. *)
LEMMA AccountStep ==
    ASSUME IInv, NEW a \in Account, Rename(a) \/ DeleteAccount(a)
    PROVE  IInv' /\ KeepsSettled
<1>0. /\ row \in [Handoff -> RowType] /\ worker \in [Worker -> ClaimType] /\ SurroundingsOK
  BY Types DEF IInv
<1>1. CASE Rename(a)
  <2>1. publicId' \in [Account -> 0..MaxRenames]
    BY <1>0, <1>1, HandoffAssumption, SMT DEF Rename, SurroundingsOK
  <2>2. sent' = sent /\ ting' = ting /\ UNCHANGED <<row, worker>> /\ SurroundingsOK'
    BY <1>0, <1>1, <2>1 DEF Rename, SurroundingsOK
  <2> QED
    BY <1>0, <2>2, SameRows, SameWorkers, Quiet
<1>2. CASE DeleteAccount(a)
  <2> DEFINE mine == {h \in Handoff : TargetOf[h] = a}
             D == {h \in mine : row[h].state = "pending"}
  <2>1. D \in SUBSET Handoff /\ \A h \in D : row[h].state = "pending"
    OBVIOUS
  <2>2. row' = Discarded(row, D)
    BY <1>2 DEF DeleteAccount
  <2>3. sent' = sent /\ ting' = ting /\ UNCHANGED worker /\ SurroundingsOK'
    BY <1>0, <1>2 DEF DeleteAccount, SurroundingsOK
  <2> HIDE DEF D
  <2>4. row' \in [Handoff -> RowType] /\ \A h \in Handoff : Calm(row[h], row'[h])
    BY <1>0, <2>1, <2>2, DiscardedRows
  <2> QED
    BY <1>0, <2>3, <2>4, SameWorkers, Quiet
<1> QED
  BY <1>1, <1>2

----------------------------------------------------------------------------
(* The invariant and the theorems *)

LEMMA Initially == Init => IInv
<1> SUFFICES ASSUME Init PROVE IInv
  OBVIOUS
<1>1. NewRow \in RowType
  BY HandoffAssumption, SMT DEF NewRow, RowType, Body
<1>2. NewRow.state = "absent"
  BY DEF NewRow
<1>3. /\ row \in [Handoff -> RowType] /\ worker \in [Worker -> ClaimType]
      /\ \A h \in Handoff : row[h].state # "accepted"
      /\ \A w \in Worker : worker[w].pc = "idle"
  <2>1. \A h \in Handoff : row[h] = NewRow
    BY DEF Init
  <2>2. \A w \in Worker : worker[w] = NoClaim
    BY DEF Init
  <2>3. row \in [Handoff -> RowType] /\ worker \in [Worker -> ClaimType]
    BY <1>1, NoClaimTyped DEF Init
  <2>4. "absent" # "accepted"
    BY SMT
  <2> QED
    BY <1>2, <2>1, <2>2, <2>3, <2>4, NoClaimTyped
<1>4. crashes \in 0..MaxCrashes /\ publicId \in [Account -> 0..MaxRenames]
  BY HandoffAssumption, SMT DEF Init
<1>5. TypeOK
  BY <1>3, <1>4, Types DEF Init, SurroundingsOK
<1>6. BodiesAgree
  BY <1>3 DEF Init, BodiesAgree
<1>7. ConfirmedMeansStored
  <2>1. "idle" # "confirmed"
    BY SMT
  <2> QED
    BY <1>3, <2>1 DEF ConfirmedMeansStored
<1>8. AcceptedIsUnleased /\ AcceptedMeansStored
  BY <1>3 DEF AcceptedIsUnleased, AcceptedMeansStored
<1> QED
  BY <1>5, <1>6, <1>7, <1>8 DEF IInv

LEMMA Preserved == IInv /\ [Next]_vars => IInv' /\ [KeepsSettled]_vars
<1> SUFFICES ASSUME IInv, [Next]_vars PROVE IInv' /\ [KeepsSettled]_vars
  OBVIOUS
<1>1. ASSUME NEW w \in Worker, Work(w) \/ Crash(w) PROVE IInv' /\ KeepsSettled
  BY <1>1, ClaimStep, SendStep, AcceptStep, WorkerStep DEF Work
<1>2. ASSUME NEW h \in Handoff, Enqueue(h) \/ Time(h) \/ Leave(h) \/ Rejoin(h)
      PROVE  IInv' /\ KeepsSettled
  BY <1>2, RowStep DEF Time
<1>3. ASSUME NEW a \in Account, Rename(a) \/ DeleteAccount(a) PROVE IInv' /\ KeepsSettled
  BY <1>3, AccountStep
<1>4. CASE UNCHANGED vars
  BY ZenonT(40), <1>4 DEF vars, IInv, TypeOK, BodiesAgree, ConfirmedMeansStored, AcceptedIsUnleased,
              AcceptedMeansStored
<1> QED
  BY <1>1, <1>2, <1>3, <1>4 DEF Next

(* One body per key: two requests with one key both have the row's body. *)
LEMMA SameBody == IInv => HandoffConsistent
BY DEF IInv, BodiesAgree, HandoffConsistent, SameKeySameBody

(* The state of the hand-off keeps its types; the retry counter never passes its limit *)
(* (attempt_count).                                                                    *)
THEOREM HandoffTypeCorrect == Spec => []TypeOK
<1>1. IInv => TypeOK
  BY DEF IInv
<1> QED
  BY <1>1, Initially, Preserved, PTL DEF Spec

(* Whatever workers crash, expire or race, one key has one body, acceptance is true, and *)
(* a settled row stays settled (claim_ting_deliveries, process_once, guard_ting_handoff).  *)
THEOREM HandoffCorrect == Spec => HandoffSafe
BY Initially, Preserved, SameBody, PTL DEF Spec, HandoffSafe
=============================================================================
