------------------------------- MODULE Groups -------------------------------
(***************************************************************************)
(* One group: its owners, invitations, members and roster.  A request is   *)
(* authorised first and runs its transaction later; transactions of the    *)
(* group follow one another under its row lock (lock_group), except an     *)
(* account deletion, which takes no such lock: what it reads is what was   *)
(* committed when it read, and it commits on its own.                      *)
(***************************************************************************)
EXTENDS Naturals, FiniteSets, SequencesExt

CONSTANTS Carbon, Silicon,  \* accounts
          Custodian,        \* the custodian of each Silicon
          Creator,          \* the account that creates the group
          Invited,          \* the accounts it invites
          Nobody,
          MaxVersion,       \* bound: changes of the group
          MaxPending,       \* bound: authorised requests not yet run
          MaxRetried,       \* bound: requests retried with their key
          MaxDeleted        \* bound: deleted accounts

Account == Carbon \cup Silicon

VARIABLES deleted,     \* accounts deleted at Silicon Accounts, as DM knows
          invitation,  \* group_invitations: none, pending or accepted
          standing,    \* accepted members, the longest-standing first
          owners,      \* group_owners
          roster,      \* conversation_participants: every account that ever joined
          version,     \* the group's version
          retried,     \* requests that ran and whose answer was lost: sent again with the same key
          pending,     \* authorised requests
          tx,          \* the request whose transaction holds the group's lock
          erasing,     \* the deletion whose transaction is open
          crossed,     \* a deletion and a change of the group overlapped (ghost)
          orphaned     \* a deletion left the group without members (ghost)

vars == <<deleted, invitation, standing, owners, roster, version, retried, pending, tx,
          erasing, crossed, orphaned>>

NoRequest == [op |-> "none", actor |-> Nobody, who |-> Nobody, version |-> 0]
NoErasure == [who |-> Nobody, heir |-> Nobody]

Live(S) == S \ deleted
Accepted(inv) == {u \in Account : inv[u] = "accepted"}
EligibleMembers == Live(Accepted(invitation))
CustodianOf(u) == IF u \in Silicon THEN Custodian[u] ELSE Nobody

(* A custodian's own Silicon joins at once. *)
Status(inviter, u) == IF CustodianOf(u) = inviter THEN "accepted" ELSE "pending"

(* create_group *)
Init ==
  /\ deleted = {}
  /\ invitation = [u \in Account |->
       IF u = Creator THEN "accepted" ELSE IF u \in Invited THEN Status(Creator, u) ELSE "none"]
  /\ standing = <<Creator>> \o SetToSeq({u \in Invited \ {Creator} : Status(Creator, u) = "accepted"})
  /\ owners = {Creator}
  /\ roster = Accepted(invitation)
  /\ version = 1
  /\ retried = {} /\ pending = {}
  /\ tx = NoRequest /\ erasing = NoErasure
  /\ crossed = FALSE /\ orphaned = FALSE
-----------------------------------------------------------------------------
(* Requests *)

Request ==
  [op : {"invite", "remove", "promote", "demote"}, actor : Account, who : Account, version : {0}]
  \cup [op : {"update"}, actor : Account, who : {Nobody}, version : 1 .. MaxVersion]
  \cup {r \in [op : {"accept", "leave"}, actor : Account, who : Account, version : {0}] :
          r.actor = r.who}
  \cup {r \in [op : {"decline"}, actor : Account, who : Account, version : {0}] :
          r.actor = r.who \/ r.actor = CustodianOf(r.who)}

(* manages_group: an owner, or the custodian of a Silicon owner. *)
ManagesGroup(u) == \E o \in Live(owners) : u = o \/ u = CustodianOf(o)

Authorized(r) ==
  CASE r.op \in {"accept", "leave", "decline"} -> TRUE
    [] r.op = "remove" -> ManagesGroup(r.actor) \/ CustodianOf(r.who) = r.actor
    [] r.op = "invite" -> ManagesGroup(r.actor) /\ r.who \notin deleted
    [] OTHER           -> ManagesGroup(r.actor)

(* The reach rule of an invitee that is a Silicon: its custodian, or its custodian's Silicons. *)
MayReach(u, target) ==
  target \in Silicon =>
    u = target \/ u = Custodian[target] \/ CustodianOf(u) = Custodian[target]

Authorize(r) ==
  /\ r.actor \notin deleted
  /\ Cardinality(pending) < MaxPending
  /\ Authorized(r)
  /\ r.op = "invite" => MayReach(r.actor, r.who)
  /\ r.op = "update" => r.version <= version
  /\ pending' = pending \cup {r}
  /\ UNCHANGED <<deleted, invitation, standing, owners, roster, version, retried, tx, erasing,
                 crossed, orphaned>>

Keyed(r) == r.op \in {"invite", "remove", "promote", "demote", "update"}

(* require_an_owner *)
HasOwner(S) == Live(S) # {}

(* An existing member stays one; who may join at once joins even if it was only invited. *)
Invite(r) ==
  IF "accepted" \in {invitation[r.who], Status(r.actor, r.who)} THEN "accepted" ELSE "pending"

(* What a request makes of the invitations and the owners. *)
NewInvitation(r) ==
  CASE r.op = "invite" -> [invitation EXCEPT ![r.who] = Invite(r)]
    [] r.op = "accept" -> [invitation EXCEPT ![r.who] = "accepted"]
    [] r.op \in {"remove", "decline", "leave"} -> [invitation EXCEPT ![r.who] = "none"]
    [] OTHER -> invitation

NewOwners(r) ==
  CASE r.op = "promote" -> owners \cup {r.who}
    [] r.op \in {"remove", "demote", "leave"} -> owners \ {r.who}
    [] OTHER -> owners

(* No invitation_not_found, not a member, not_a_member, version conflict or last_owner. *)
NotRefused(r) ==
  /\ r.op \in {"accept", "decline"} => invitation[r.who] = "pending"
  /\ r.op = "leave" => invitation[r.who] = "accepted"
  /\ r.op = "promote" => r.who \in EligibleMembers
  /\ r.op = "update" => r.version = version
  /\ r.op \in {"remove", "leave", "promote", "demote"} => HasOwner(NewOwners(r))


(* claim: the first request with a key runs, a retry is only answered. *)
Acquired(r) == r \notin retried

Begin(r) ==
  /\ tx = NoRequest
  /\ r \in pending /\ pending' = pending \ {r}
  /\ IF Acquired(r) /\ NotRefused(r) /\ version < MaxVersion
       THEN tx' = r /\ crossed' = (crossed \/ erasing # NoErasure)
       ELSE UNCHANGED <<tx, crossed>>
  /\ UNCHANGED <<deleted, invitation, standing, owners, roster, version, retried, erasing,
                 orphaned>>

(* sync_group_conversation: a roster anchor for every member. *)
Anchors(inv) == roster \cup Live(Accepted(inv))

(* Accepted members in the order they accepted. *)
Standing(inv) ==
  SelectSeq(standing, LAMBDA u : inv[u] = "accepted")
  \o SetToSeq(Accepted(inv) \ ToSet(standing))

Commit ==
  /\ tx # NoRequest
  /\ invitation' = NewInvitation(tx)
  /\ owners' = NewOwners(tx)
  /\ standing' = Standing(invitation')
  /\ roster' = Anchors(invitation')
  /\ version' = version + 1
  /\ \/ UNCHANGED retried
     \/ /\ Keyed(tx) /\ Cardinality(retried) < MaxRetried
        /\ retried' = retried \cup {tx}
  /\ tx' = NoRequest
  /\ UNCHANGED <<deleted, pending, erasing, crossed, orphaned>>
-----------------------------------------------------------------------------
(* delete_account *)

(* ensure_owner_in, with what is committed when it reads: if the group would have no owner left, *)
(* its longest-standing member becomes one.                                                       *)
Heir(u) ==
  LET left == SelectSeq(standing, LAMBDA v : v \notin deleted \cup {u})
  IN IF HasOwner(owners \ {u}) \/ left = <<>> \/ (u \notin owners /\ invitation[u] = "none")
       THEN Nobody ELSE Head(left)

BeginErasing(u) ==
  /\ erasing = NoErasure
  /\ u \notin deleted /\ Cardinality(deleted) < MaxDeleted
  /\ erasing' = [who |-> u, heir |-> Heir(u)]
  /\ crossed' = (crossed \/ tx # NoRequest)
  /\ UNCHANGED <<deleted, invitation, standing, owners, roster, version, retried, pending, tx,
                 orphaned>>

CommitErasing ==
  /\ erasing # NoErasure
  /\ deleted' = deleted \cup {erasing.who}
  /\ invitation' = [invitation EXCEPT ![erasing.who] = "none"]
  /\ standing' = Standing(invitation')
  /\ owners' = (owners \ {erasing.who}) \cup ({erasing.heir} \ {Nobody})
  /\ orphaned' = (orphaned \/ Accepted(invitation') \ deleted' = {})
  /\ erasing' = NoErasure
  /\ UNCHANGED <<roster, version, retried, pending, tx, crossed>>
-----------------------------------------------------------------------------
Next ==
  \/ \E r \in Request : Authorize(r)
  \/ \E r \in pending : Begin(r)
  \/ Commit
  \/ \E u \in Account : BeginErasing(u)
  \/ CommitErasing

Spec == Init /\ [][Next]_vars
-----------------------------------------------------------------------------
TypeOK ==
  /\ deleted \subseteq Account
  /\ invitation \in [Account -> {"none", "pending", "accepted"}]
  /\ ToSet(standing) = Accepted(invitation)
  /\ owners \subseteq Account /\ roster \subseteq Account
  /\ version \in 1 .. MaxVersion
  /\ retried \subseteq Request /\ pending \subseteq Request
  /\ tx \in Request \cup {NoRequest}
  /\ erasing.who \in Account \cup {Nobody} /\ erasing.heir \in Account \cup {Nobody}
  /\ crossed \in BOOLEAN /\ orphaned \in BOOLEAN

(* Whoever owns the group is a member of it: leaving, being removed and being deleted end       *)
(* ownership too, and only a member is promoted or inherits (groups.rs); as long as no deletion *)
(* overlapped a change of the group.                                                            *)
OwnersAreMembers == crossed \/ Live(owners) \subseteq EligibleMembers

(* A group with a member has an owner: require_an_owner refuses the last one's leaving, removal *)
(* and demotion, ensure_owner_in finds an heir of a deleted one; as long as no deletion         *)
(* overlapped a change, and none left the group without members for a while.                    *)
MembersHaveOwner == crossed \/ orphaned \/ EligibleMembers = {} \/ HasOwner(owners)

(* Every member has its roster anchor, so that the conversation is one of theirs: each          *)
(* transaction ends with sync_group_conversation.                                               *)
MembersAreAnchored == EligibleMembers \subseteq roster

(* A request that was retried is applied once: an invitation repeated after the invitee was     *)
(* removed does not bring them back, a removal repeated after they returned does not put them   *)
(* out (idempotency.rs, claim).                                                                 *)
NotAgain == tx \in retried => (CommitErasing \/ UNCHANGED <<invitation, owners, version>>)

(* Inviting never puts a member back to waiting, and makes nobody a member who has not accepted *)
(* but a Silicon invited by its custodian (invite_in).                                          *)
Invites ==
  \A u \in Account :
    tx.op = "invite" /\ tx' = NoRequest /\ invitation'[u] # invitation[u] =>
      /\ invitation[u] # "accepted"
      /\ invitation'[u] = "accepted" => CustodianOf(u) = tx.actor

GroupConsistent == OwnersAreMembers /\ MembersHaveOwner /\ MembersAreAnchored

=============================================================================
