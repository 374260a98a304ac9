---------------------------- MODULE FirstContact ----------------------------
(***************************************************************************)
(* Who may start a direct conversation with whom, and that there is one    *)
(* per set of accounts: start_conversation looks the conversation up,      *)
(* checks reach and the hourly budget, and creates it, each step on its    *)
(* own, while allow-lists, custodians and other requests change.           *)
(***************************************************************************)
EXTENDS Naturals, FiniteSets

CONSTANTS Carbon, Silicon,  \* accounts
          FirstCustodian,   \* custodian of each Silicon, or Nobody, to begin with
          Nobody,
          Request,          \* requests that start a conversation
          Limit,            \* FIRST_CONTACTS_PER_HOUR
          MaxChanges,       \* bound: changes of allow-lists, custodians and accounts
          MaxHours,         \* bound: hours
          Sets              \* participants the requests name

Account == Carbon \cup Silicon

VARIABLES custodian,     \* custodian of each Silicon, as cached
          allowed,       \* silicon_contact_allowances
          deleted,       \* accounts marked deleted
          conversation,  \* current direct conversations
          claim,         \* idempotency records of conversations.create
          request,       \* the requests
          reachable,     \* pairs <<account, Silicon>> that were in reach at some time (ghost)
          overlapped,    \* accounts with a request between check and creation at another's check (ghost)
          changes, hours \* so far (bounds)

vars == <<custodian, allowed, deleted, conversation, claim, request, reachable, overlapped,
          changes, hours>>

NoRequest == [pc |-> "free", by |-> Nobody, members |-> {}, key |-> 0, answer |-> 0]

CustodianOf(cust, u) == IF u \in Silicon THEN cust[u] ELSE Nobody

(* Another Silicon of the same custodian. *)
SameCustodian(cust, s, u) ==
  u \in Silicon /\ CustodianOf(cust, u) # Nobody /\ CustodianOf(cust, u) = cust[s]

(* may_reach_silicon: itself, its custodian, its custodian's other Silicons, its allow-list. *)
MayReachSilicon(cust, list, s, u) ==
  u = s \/ cust[s] = u \/ SameCustodian(cust, s, u) \/ <<s, u>> \in list

(* The rule as documented: the Silicon's circle (itself, its custodian, the custodian's other *)
(* Silicons) and who is on its allow-list.                                                     *)
InReach(cust, list) ==
  {p \in Account \X Silicon :
     \/ p[1] = p[2]
     \/ <<p[2], p[1]>> \in list
     \/ cust[p[2]] # Nobody /\ (p[1] = cust[p[2]] \/ CustodianOf(cust, p[1]) = cust[p[2]])}

Init ==
  /\ custodian = FirstCustodian
  /\ allowed = {} /\ deleted = {} /\ conversation = {} /\ claim = {}
  /\ request = [r \in Request |-> NoRequest]
  /\ reachable = InReach(custodian, {})
  /\ overlapped = {} /\ changes = 0 /\ hours = 0
-----------------------------------------------------------------------------
(* start_conversation *)

(* The direct conversation of this exact set, if there is one. *)
Canonical(M) == {c \in conversation : c.members = M}
Id(C) == (CHOOSE c \in C : TRUE).id

Update(r, pc, answer) == request' = [request EXCEPT ![r].pc = pc, ![r].answer = answer]

(* With the key the caller sent, or (0) the one made of the participants. *)
Find(r, u, M, key) ==
  /\ request[r].pc = "free"
  /\ u \notin deleted
  /\ u \in M /\ Cardinality(M) >= 2
  /\ request' = [request EXCEPT ![r] =
       [pc |-> IF Canonical(M) # {} THEN "answered" ELSE "reach", by |-> u, members |-> M,
        key |-> key, answer |-> IF Canonical(M) # {} THEN Id(Canonical(M)) ELSE 0]]
  /\ UNCHANGED <<custodian, allowed, deleted, conversation, claim, reachable, overlapped, changes, hours>>

(* require_may_reach, for every other participant that is not deleted. *)
Reach(r) ==
  LET others == request[r].members \ {request[r].by} IN
  /\ request[r].pc = "reach"
  /\ IF \A v \in others :
          /\ v \notin deleted
          /\ v \in Silicon => MayReachSilicon(custodian, allowed, v, request[r].by)
       THEN Update(r, "budget", 0)
       ELSE Update(r, "refused", 0)
  /\ UNCHANGED <<custodian, allowed, deleted, conversation, claim, reachable, overlapped, changes, hours>>

StartedLastHour(u) == Cardinality({c \in conversation : c.by = u /\ c.recent})

WithinBudget(u) == StartedLastHour(u) < Limit

CheckBudget(r) ==
  /\ request[r].pc = "budget"
  /\ Update(r, IF WithinBudget(request[r].by) THEN "create" ELSE "refused", 0)
  /\ overlapped' = overlapped \cup
       {u \in {request[r].by} : \E q \in Request : request[q].by = u /\ request[q].pc = "create"}
  /\ UNCHANGED <<custodian, allowed, deleted, conversation, claim, reachable, changes, hours>>

NewId == Cardinality(conversation) + 1
New(u, M) == [id |-> NewId, by |-> u, members |-> M, recent |-> TRUE]

InsertAnyway(u, M) == conversation' = conversation \cup {New(u, M)}

(* canonical_or_insert_in: a concurrent creator's conversation is taken over. *)
CanonicalOrInsert(u, M) ==
  conversation' = IF Canonical(M) # {} THEN conversation ELSE conversation \cup {New(u, M)}

CanonicalId(M) == IF Canonical(M) # {} THEN Id(Canonical(M)) ELSE NewId

ClaimOf(u, key, M) ==
  {c \in claim : c.by = u /\ c.key = (IF key = 0 THEN M ELSE {key})}

Replays(c, M) == c.members = M

(* create_conversation: a used key replays its conversation, or is refused for another set. *)
Create(r) ==
  LET u == request[r].by  M == request[r].members  used == ClaimOf(u, request[r].key, M)
  IN /\ request[r].pc = "create"
     /\ IF used # {}
          THEN /\ \/ \E c \in used : Replays(c, M) /\ Update(r, "answered", c.id)
                  \/ \E c \in used : ~Replays(c, M) /\ Update(r, "refused", 0)
               /\ UNCHANGED <<conversation, claim>>
          ELSE /\ CanonicalOrInsert(u, M)
               /\ claim' = claim \cup {[by |-> u, members |-> M, id |-> CanonicalId(M),
                                        key |-> IF request[r].key = 0 THEN M ELSE {request[r].key}]}
               /\ Update(r, "answered", CanonicalId(M))
     /\ UNCHANGED <<custodian, allowed, deleted, reachable, overlapped, changes, hours>>
-----------------------------------------------------------------------------
(* What changes meanwhile *)

Change ==
  /\ changes < MaxChanges /\ changes' = changes + 1
  /\ reachable' = reachable \cup InReach(custodian', allowed')
  /\ UNCHANGED <<claim, request, overlapped, hours>>

(* allow_contact and disallow_contact, by the Silicon or its custodian. *)
Allow(s, u) ==
  /\ u # s /\ <<s, u>> \notin allowed
  /\ allowed' = allowed \cup {<<s, u>>}
  /\ UNCHANGED <<custodian, deleted, conversation>>
  /\ Change

Disallow(s, u) ==
  /\ <<s, u>> \in allowed
  /\ allowed' = allowed \ {<<s, u>>}
  /\ UNCHANGED <<custodian, deleted, conversation>>
  /\ Change

(* A webhook's custodian change, and its conversation with the Silicon (ensure_direct_conversation). *)
ChangeCustodian(s, c) ==
  /\ custodian[s] # c
  /\ custodian' = [custodian EXCEPT ![s] = c]
  /\ CanonicalOrInsert(s, {s, c})
  /\ UNCHANGED <<allowed, deleted>>
  /\ Change

(* delete_account: also the allow-list entries of and for the account. *)
Delete(u) ==
  /\ u \notin deleted
  /\ deleted' = deleted \cup {u}
  /\ allowed' = {p \in allowed : u \notin {p[1], p[2]}}
  /\ UNCHANGED <<custodian, conversation>>
  /\ Change

AnHourPasses ==
  /\ hours < MaxHours /\ hours' = hours + 1
  /\ conversation' = {[c EXCEPT !.recent = FALSE] : c \in conversation}
  /\ UNCHANGED <<custodian, allowed, deleted, claim, request, reachable, overlapped, changes>>

Next ==
  \/ \E r \in Request :
       \/ \E u \in Account, M \in Sets, key \in 0 .. 1 : Find(r, u, M, key)
       \/ Reach(r) \/ CheckBudget(r) \/ Create(r)
  \/ \E s \in Silicon, u \in Account : Allow(s, u) \/ Disallow(s, u)
  \/ \E s \in Silicon, c \in Carbon : ChangeCustodian(s, c)
  \/ \E u \in Account : Delete(u)
  \/ AnHourPasses

Spec == Init /\ [][Next]_vars
-----------------------------------------------------------------------------
TypeOK ==
  /\ custodian \in [Silicon -> Carbon \cup {Nobody}]
  /\ allowed \subseteq Silicon \X Account
  /\ deleted \subseteq Account
  /\ \A c \in conversation : c.by \in c.members /\ c.members \subseteq Account
  /\ \A r \in Request :
       /\ request[r].pc \in {"free", "reach", "budget", "create", "answered", "refused"}
       /\ request[r].answer \in 0 .. Cardinality(conversation)

(* However many requests, from either side, start it at once, a set of accounts has one direct  *)
(* conversation (canonical_or_insert_in and its unique index).                                  *)
OneConversationPerSet ==
  \A c, d \in conversation : c.members = d.members => c = d

(* A Silicon finds itself in a conversation somebody else started only if that account was once *)
(* in its circle or on its allow-list: the check may be stale when the conversation is created, *)
(* but it was made (require_may_reach).                                                         *)
StartedWithinReach ==
  \A c \in conversation : \A s \in (c.members \cap Silicon) \ {c.by} : <<c.by, s>> \in reachable

(* Nobody starts more conversations in an hour than the budget, unless a request of theirs      *)
(* passed the check while another was between its check and its creation.                       *)
BudgetHolds ==
  \A u \in Carbon \ overlapped : StartedLastHour(u) <= Limit

(* A request is answered with the conversation of exactly the accounts it named, also when its  *)
(* key was used before or another request created the conversation first.                       *)
AnsweredWithTheirConversation ==
  \A r \in Request :
    request[r].pc = "answered" =>
      \E c \in conversation : c.id = request[r].answer /\ c.members = request[r].members

(* Concurrent first contacts leave one conversation per set of accounts, each started within    *)
(* reach and within the budget and answered to those who asked for it (conversations.rs,        *)
(* idempotency.rs).                                                                             *)
ContactSafe ==
  /\ OneConversationPerSet
  /\ StartedWithinReach
  /\ BudgetHolds
  /\ AnsweredWithTheirConversation
=============================================================================
