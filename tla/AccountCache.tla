---------------------------- MODULE AccountCache ----------------------------
(***************************************************************************)
(* DM's cache of Silicon Accounts: the `accounts' table, what fills it     *)
(* (signed webhooks, lookups, sign-ins) and what a request is admitted     *)
(* from.  Accounts itself (`account', `token', `ended') is external: it    *)
(* changes ids, profiles and custodians, ends sign-ins, and announces each *)
(* change in an event that is delivered until it is acknowledged: late,    *)
(* out of order, or to two handlers at once.  Time counts half-seconds, of *)
(* which a token's `iat' keeps whole seconds.                              *)
(***************************************************************************)
EXTENDS Naturals, FiniteSets

CONSTANTS Carbon, Silicon,  \* accounts
          Id,               \* public ids a Carbon may hold
          FirstId,          \* the id every account starts with
          FirstCustodian,   \* the custodian every Silicon starts with
          Nobody,           \* no id, no custodian
          Budgets,          \* bound: how often what happens to each account
          MaxTime           \* bound: changes at Accounts

Happening == {"id_changed", "updated", "custodian_changed", "signed_out", "app_revoked", "deleted",
              "signed_in", "looked_up"}

VARIABLES account,   \* Accounts: every account as it is now
          token,     \* Accounts: access tokens issued to DM
          ended,     \* Accounts: tokens whose sign-in has ended
          event,     \* Accounts: events announced
          time,      \* Accounts: half-seconds, one change each
          budget,    \* what is still to happen to each account (bound)
          row,       \* the accounts table
          receipt,   \* the accounts_webhook_receipts table, by occurred_at
          applied,   \* events applied at least once
          late,      \* events a second handler found without a receipt and has not applied yet
          job,       \* a lookup or an enrichment in progress
          decision,  \* cached introspections: sign_in_live
          missed,    \* sign-outs received for an account without a row (ghost)
          overtaken  \* rows a lookup wrote after its answer had changed (ghost)

world == <<account, token, ended, event, time>>
ghosts == <<missed, overtaken>>
vars == <<world, budget, row, receipt, applied, late, job, decision, ghosts>>

Account == Carbon \cup Silicon
Unknown == [status |-> "unknown", silicon |-> FALSE, id |-> Nobody, custodian |-> Nobody,
            version |-> 0, name |-> 0, idAt |-> 0, custodianAt |-> 0, revoked |-> 0]
NoAnswer == [id |-> Nobody, custodian |-> Nobody, custodianId |-> Nobody, deleted |-> FALSE]
NoJob == [pc |-> "idle", uuid |-> Nobody, enrich |-> FALSE, answer |-> NoAnswer, version |-> 0]

Init ==
  /\ account = [u \in Account |->
       [id |-> FirstId[u], custodian |-> IF u \in Silicon THEN FirstCustodian[u] ELSE Nobody,
        version |-> 1, deleted |-> FALSE]]
  /\ token = {} /\ ended = {} /\ event = {} /\ time = 0 /\ budget \in Budgets
  /\ row = [u \in Account |-> Unknown]
  /\ receipt = {}
  /\ applied = {} /\ late = {}
  /\ job = NoJob
  /\ decision = {}
  /\ missed = {} /\ overtaken = {}
-----------------------------------------------------------------------------
(* Silicon Accounts *)

IdOf(acc, c) == IF c = Nobody THEN Nobody ELSE acc[c].id

Spend(what, u) ==
  /\ budget[what, u] > 0
  /\ budget' = [budget EXCEPT ![what, u] = @ - 1]

Announce(type, u) ==
  /\ time < MaxTime /\ time' = time + 1
  /\ Spend(type, u)
  /\ event' = event \cup {[type |-> type, uuid |-> u, id |-> account'[u].id,
                           custodian |-> account'[u].custodian,
                           custodianId |-> IdOf(account', account'[u].custodian),
                           version |-> account'[u].version, at |-> time']}
  /\ UNCHANGED <<row, receipt, applied, late, job, decision, ghosts>>

ChangeId(u, i) ==
  /\ u \in Carbon /\ ~account[u].deleted
  /\ i \notin {account[v].id : v \in Account}
  /\ account' = [account EXCEPT ![u].id = i]
  /\ Announce("id_changed", u)
  /\ UNCHANGED <<token, ended>>

ChangeProfile(u) ==
  /\ ~account[u].deleted
  /\ account' = [account EXCEPT ![u].version = @ + 1]
  /\ Announce("updated", u)
  /\ UNCHANGED <<token, ended>>

ChangeCustodian(s, c) ==
  /\ ~account[s].deleted /\ ~account[c].deleted
  /\ account[s].custodian # c
  /\ account' = [account EXCEPT ![s].custodian = c]
  /\ Announce("custodian_changed", s)
  /\ UNCHANGED <<token, ended>>

TokensOf(u) == {t \in token : t.uuid = u}

(* membership.signed_out, access_removed: every sign-in of the account ends. *)
EndSignIns(u) ==
  /\ ~account[u].deleted
  /\ ended' = ended \cup TokensOf(u)
  /\ UNCHANGED <<account, token>>
  /\ Announce("signed_out", u)

(* One sign-in is revoked by DM itself (reason app_revoked). *)
EndOneSignIn(t) ==
  /\ t \notin ended
  /\ ended' = ended \cup {t}
  /\ UNCHANGED <<account, token>>
  /\ Announce("app_revoked", t.uuid)

Delete(u) ==
  /\ ~account[u].deleted
  /\ account' = [account EXCEPT ![u].deleted = TRUE, ![u].id = Nobody]
  /\ ended' = ended \cup TokensOf(u)
  /\ Announce("deleted", u)
  /\ UNCHANGED token

(* A token carries the id of its issue and the second of its issue. *)
SignIn(u) ==
  /\ ~account[u].deleted
  /\ Spend("signed_in", u)
  /\ token' = token \cup {[n |-> Cardinality(token), uuid |-> u, id |-> account[u].id,
                           at |-> time, iat |-> 2 * (time \div 2)]}
  /\ UNCHANGED <<account, ended, event, time, row, receipt, applied, late, job, decision, ghosts>>
-----------------------------------------------------------------------------
(* Writes of the accounts table *)

Insert(u) == [Unknown EXCEPT !.status = "active", !.silicon = u \in Silicon]
Known(u) == row[u].status # "unknown"
RowOf(u) == IF Known(u) THEN row[u] ELSE Insert(u)

(* INSERT ... ON CONFLICT DO NOTHING of a custodian, with the id it is named by. *)
WithCustodian(rows, c, i) ==
  IF c # Nobody /\ rows[c].status = "unknown"
    THEN [rows EXCEPT ![c] = [Insert(c) EXCEPT !.id = i]]
    ELSE rows

(* Nobody else holds the id. *)
Cleared(rows, u, i) ==
  [v \in Account |-> IF v # u /\ rows[v].id = i THEN [rows[v] EXCEPT !.id = Nobody] ELSE rows[v]]

TakeId(rows, u, i) == IF i = Nobody THEN rows ELSE Cleared(rows, u, i)

Coalesce(new, old) == IF new = Nobody THEN old ELSE new

IdChangeApplies(e) ==
  ~Known(e.uuid) \/ (row[e.uuid].status = "active" /\ row[e.uuid].idAt < e.at)

(* apply_id_change *)
ApplyIdChange(e) ==
  row' = IF IdChangeApplies(e)
           THEN TakeId([row EXCEPT ![e.uuid] =
                          [RowOf(e.uuid) EXCEPT !.id = e.id, !.idAt = e.at]], e.uuid, e.id)
           ELSE row


UpdateApplies(e) ==
  ~Known(e.uuid) \/ (row[e.uuid].status = "active" /\ row[e.uuid].version < e.version)

(* apply_profile_update: the id is taken only when the row is new; the custodian whenever the *)
(* profile is newer.                                                                          *)
ApplyProfileUpdate(e) ==
  row' = IF UpdateApplies(e)
           THEN [row EXCEPT ![e.uuid] =
                  [RowOf(e.uuid) EXCEPT !.id = IF Known(e.uuid) THEN @ ELSE e.id,
                                        !.name = e.version, !.version = e.version,
                                        !.custodian = Coalesce(e.custodian, @)]]
           ELSE row

CustodianChangeApplies(e) ==
  ~Known(e.uuid) \/ (row[e.uuid].silicon /\ row[e.uuid].custodianAt < e.at)

(* apply_custodian_change *)
ApplyCustodianChange(e) ==
  LET rows == WithCustodian(row, e.custodian, e.custodianId) IN
  row' = IF CustodianChangeApplies(e)
           THEN [rows EXCEPT ![e.uuid] =
                  [RowOf(e.uuid) EXCEPT !.custodian = e.custodian, !.custodianAt = e.at]]
           ELSE rows

(* revoke_sessions_before: only an account DM has a row of. *)
RevokeSessionsBefore(e) ==
  row' = IF Known(e.uuid) /\ row[e.uuid].revoked < e.at
           THEN [row EXCEPT ![e.uuid].revoked = e.at]
           ELSE row

(* delete_account; an account DM never saw is recorded as a Carbon's. *)
DeleteAccount(e) ==
  LET old == IF Known(e.uuid) THEN row[e.uuid] ELSE Unknown IN
  row' = [row EXCEPT ![e.uuid] =
           [old EXCEPT !.status = "deleted", !.id = Nobody, !.name = 0,
                       !.revoked = IF @ < e.at THEN e.at ELSE @]]

Ignore(e) == row' = row
-----------------------------------------------------------------------------
(* POST /webhook/ *)

(* An event without a receipt, or one another handler had looked up before the receipt.  The    *)
(* conversation with a new custodian, which follows, is FirstContact's ChangeCustodian.          *)
Apply(e) ==
  /\ e.at \notin receipt \/ e.at \in late
  /\ late' = late \ {e.at}
  /\ CASE e.type = "id_changed"        -> ApplyIdChange(e)
       [] e.type = "updated"           -> ApplyProfileUpdate(e)
       [] e.type = "custodian_changed" -> ApplyCustodianChange(e)
       [] e.type = "signed_out"        -> RevokeSessionsBefore(e)
       [] e.type = "deleted"           -> DeleteAccount(e)
       [] OTHER                        -> Ignore(e)
  /\ applied' = applied \cup {e.at}
  /\ missed' = IF e.type = "signed_out" /\ ~Known(e.uuid) THEN missed \cup {e.at} ELSE missed
  /\ UNCHANGED <<world, budget, receipt, job, decision, overtaken>>

(* Recorded after it was applied, in a transaction of its own: after a failure in between the *)
(* event is not acknowledged and is delivered again.  A second delivery may be past the check. *)
RecordWebhookEvent(e) ==
  /\ e.at \in applied \ receipt
  /\ receipt' = receipt \cup {e.at}
  /\ late' \in {late, late \cup {e.at}}
  /\ UNCHANGED <<world, budget, row, applied, job, decision, ghosts>>
-----------------------------------------------------------------------------
(* Directory: admit, resolve, account, enrich *)

(* record_authentication: the token's id, unless DM heard of a change since its issue. *)
Authenticated(t) ==
  LET r == row[t.uuid] IN
  CASE ~Known(t.uuid)         -> [Insert(t.uuid) EXCEPT !.id = t.id]
    [] r.status = "deleted"   -> r
    [] r.idAt = 0 \/ t.iat > r.idAt -> [r EXCEPT !.id = t.id]
    [] OTHER                  -> r

(* sign_in_live: introspection, its answer kept for this token and cutoff. *)
SignInLive(t, cutoff) ==
  IF \E d \in decision : d.token = t /\ d.cutoff = cutoff
    THEN \E d \in decision : d.token = t /\ d.cutoff = cutoff /\ d.live
    ELSE t \notin ended

(* order: a whole second before the cutoff, a second after it, or in the cutoff's second. *)
Before(t, cutoff) == t.iat + 2 <= cutoff

After(t, cutoff) == t.iat > cutoff

SameSecond(t, cutoff) == ~Before(t, cutoff) /\ ~After(t, cutoff)

Refused(t, r) ==
  \/ r.status = "deleted"
  \/ /\ r.revoked # 0
     /\ Before(t, r.revoked) \/ (SameSecond(t, r.revoked) /\ ~SignInLive(t, r.revoked))

Incomplete(r) == (r.silicon /\ r.custodian = Nobody) \/ r.name = 0

Enrich(u) == [NoJob EXCEPT !.pc = "lookup", !.uuid = u, !.enrich = TRUE]

(* admit; an incomplete row is enriched once a minute at most. *)
Admit(t) ==
  LET r == Authenticated(t) IN
  /\ row' = [row EXCEPT ![t.uuid] = r]
  /\ decision' = IF r.status # "deleted" /\ r.revoked # 0 /\ SameSecond(t, r.revoked)
                   THEN decision \cup {[token |-> t, cutoff |-> r.revoked,
                                        live |-> SignInLive(t, r.revoked)]}
                   ELSE decision
  /\ \/ /\ ~Refused(t, r) /\ Incomplete(r)
        /\ job.pc = "idle" /\ Spend("looked_up", t.uuid)
        /\ job' = Enrich(t.uuid)
     \/ /\ Refused(t, r) \/ Known(t.uuid)
        /\ UNCHANGED <<job, budget>>
  /\ UNCHANGED <<world, receipt, applied, late, ghosts>>

Answer(u) == [id |-> account[u].id, custodian |-> account[u].custodian,
              custodianId |-> IdOf(account, account[u].custodian), deleted |-> account[u].deleted]

(* enrich asks for the new account; resolve and account for one that is unknown, ambiguous or *)
(* no longer fresh.                                                                            *)
Lookup(u) ==
  /\ \/ job = Enrich(u) /\ UNCHANGED budget
     \/ job.pc = "idle" /\ Spend("looked_up", u)
  /\ job' = [job EXCEPT !.pc = "looked_up", !.uuid = u, !.answer = Answer(u)]
  /\ UNCHANGED <<world, row, receipt, applied, late, decision, ghosts>>

AfterLookup == IF job.enrich THEN [job EXCEPT !.pc = "profile", !.answer = NoAnswer] ELSE NoJob

(* Accounts is out of reach, or the lookup budget is spent: enrich goes on. *)
LookupFails ==
  /\ job.pc = "lookup"
  /\ job' = AfterLookup
  /\ UNCHANGED <<world, budget, row, receipt, applied, late, decision, ghosts>>

(* record_lookup's row: overwritten whatever was heard since, but deleted for good. *)
LookedUp(r, a) ==
  IF a.deleted
    THEN [r EXCEPT !.status = "deleted", !.id = Nobody, !.name = 0,
                   !.custodian = Coalesce(a.custodian, @)]
    ELSE [r EXCEPT !.id = Coalesce(a.id, @), !.custodian = Coalesce(a.custodian, @)]

RecordLookup ==
  LET a == job.answer
      u == job.uuid
      rows == [WithCustodian(row, a.custodian, a.custodianId) EXCEPT ![u] = LookedUp(RowOf(u), a)]
  IN /\ job.pc = "looked_up"
     /\ row' = IF a.deleted THEN rows ELSE TakeId(rows, u, a.id)
     /\ overtaken' = IF a = Answer(u) THEN overtaken ELSE overtaken \cup {u}
     /\ job' = AfterLookup
     /\ UNCHANGED <<world, budget, receipt, applied, late, decision, missed>>

ReadMemberProfile ==
  /\ job.pc = "profile"
  /\ job' = IF account[job.uuid].deleted
              THEN NoJob
              ELSE [job EXCEPT !.pc = "profiled", !.version = account[job.uuid].version]
  /\ UNCHANGED <<world, budget, row, receipt, applied, late, decision, ghosts>>

(* record_member_profile fills only a row no event has described. *)
Fillable(r) == r.status = "active" /\ r.version = 0

RecordMemberProfile ==
  /\ job.pc = "profiled"
  /\ row' = IF Fillable(row[job.uuid])
              THEN [row EXCEPT ![job.uuid].name = job.version] ELSE row
  /\ job' = NoJob
  /\ UNCHANGED <<world, budget, receipt, applied, late, decision, ghosts>>
-----------------------------------------------------------------------------
AccountsStep ==
  \/ \E u \in Account : ChangeProfile(u) \/ EndSignIns(u) \/ Delete(u) \/ SignIn(u)
  \/ \E u \in Carbon, i \in Id : ChangeId(u, i)
  \/ \E s \in Silicon, c \in Carbon : ChangeCustodian(s, c)
  \/ \E t \in token : EndOneSignIn(t)

WebhookStep == \E e \in event : Apply(e) \/ RecordWebhookEvent(e)

DirectoryStep ==
  \/ \E t \in token : Admit(t)
  \/ \E u \in Account : Lookup(u)
  \/ LookupFails \/ RecordLookup
  \/ ReadMemberProfile \/ RecordMemberProfile

Next == AccountsStep \/ WebhookStep \/ DirectoryStep
Spec == Init /\ [][Next]_vars
-----------------------------------------------------------------------------
Time == 0 .. MaxTime
Version == 0 .. MaxTime + 1
PublicId == Id \cup {FirstId[u] : u \in Account} \cup {Nobody}

TypeOK ==
  /\ row \in [Account -> [status : {"unknown", "active", "deleted"}, silicon : BOOLEAN,
                          id : PublicId, custodian : Carbon \cup {Nobody}, version : Version,
                          name : Version, idAt : Time, custodianAt : Time, revoked : Time]]
  /\ receipt \subseteq applied /\ late \subseteq receipt /\ applied \subseteq Time
  /\ missed \subseteq applied
  /\ job.pc \in {"idle", "lookup", "looked_up", "profile", "profiled"}
  /\ overtaken \subseteq Account

(* Nothing is on its way: every event is acknowledged and no handler or lookup is at work. *)
Settled ==
  /\ \A e \in event : e.at \in receipt
  /\ late = {}
  /\ job.pc = "idle"

(* Once every webhook was delivered, in whatever order and however often, the cache names no    *)
(* account by an id that is not its own: apply_id_change orders by occurred_at, a token's id is *)
(* taken only if issued later, and an id taken by another account is cleared.  A lookup that    *)
(* was answered before a change and recorded after it is the exception.                         *)
CacheConverges ==
  Settled => \A u \in Account \ overtaken :
    row[u].status = "active" => row[u].id \in {Nobody, account[u].id}

(* A sign-in that ended is refused as soon as its webhook was acknowledged, to the second it was *)
(* issued in (admit, order, sign_in_live), whatever arrives later or again; except where DM had  *)
(* no row to write the cutoff to.                                                                *)
EndedSignInsRefused ==
  \A t \in token, e \in event :
    (/\ e.type \in {"signed_out", "deleted"} /\ e.uuid = t.uuid /\ t.at < e.at
     /\ e.at \in receipt \ missed)
    => Refused(t, Authenticated(t))

(* A sign-in that has not ended is never refused: signing straight back in within the second of *)
(* a sign-out is admitted (application/accounts.rs, Order::SameSecond).                         *)
LiveSignInsAdmitted ==
  \A t \in token \ ended : ~Refused(t, Authenticated(t))

(* Once an account.updated described the profile, neither an older event, nor a repeated one,   *)
(* nor a slower read of the member's profile moves it back (apply_profile_update,               *)
(* record_member_profile).                                                                      *)
ProfileKept ==
  \A u \in Account : row[u].version > 0 /\ row'[u].status = "active" => row'[u].name >= row[u].name

CacheAgrees == CacheConverges /\ EndedSignInsRefused /\ LiveSignInsAdmitted

=============================================================================
