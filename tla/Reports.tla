------------------------------- MODULE Reports -------------------------------
(***************************************************************************)
(* Bug reports: one reporter's concurrent and repeated submissions, their  *)
(* budget of reports per hour, and the workers that mail what is queued.   *)
(***************************************************************************)
EXTENDS Integers, FiniteSets

CONSTANTS Submission,  \* HTTP requests
          Key, Content,
          Asks,        \* what the requests may ask: functions from Submission to key and content
          Worker,      \* mail workers, one per server process
          PerHour,     \* reports in an hour (10)
          Hour,        \* its length
          MaxTime,     \* bound: the clock
          MaxLosses    \* bound: posts whose outcome the worker does not learn

VARIABLES now,
          request,   \* per submission: step, transaction start, key, content
          lock,      \* the submission that holds the reporter's advisory lock, or "free"
          report,    \* bug_reports by key
          worker,    \* the report a worker has locked, and whether it was posted
          mailed,    \* times Postmark took each report (ghost)
          lost       \* times a post's outcome was lost (ghost)

vars == <<now, request, lock, report, worker, mailed, lost>>

NoReport == [status |-> "none", content |-> "none", created |-> 0, due |-> 0]
Resting == [key |-> "none", pc |-> "idle"]

Init ==
  /\ now = 1
  /\ \E ask \in Asks :
       request = [s \in Submission |-> [pc |-> "new", start |-> 0,
                                       key |-> ask[s].key, content |-> ask[s].content]]
  /\ lock = "free"
  /\ report = [k \in Key |-> NoReport]
  /\ worker = [w \in Worker |-> Resting]
  /\ mailed = [k \in Key |-> 0] /\ lost = [k \in Key |-> 0]

Tick == now < MaxTime /\ now' = now + 1 /\ UNCHANGED <<request, lock, report, worker, mailed, lost>>
-----------------------------------------------------------------------------
(* submit: now() and created_at are the time the transaction began, before it waits for the lock *)

Begin(s) ==
  /\ request[s].pc = "new"
  /\ request' = [request EXCEPT ![s].pc = "lock", ![s].start = now]
  /\ UNCHANGED <<now, lock, report, worker, mailed, lost>>

LockAnyway(s) == lock' = s

(* pg_advisory_xact_lock on the reporter. *)
TakeLock(s) == lock = "free" /\ lock' = s

Lock(s) ==
  /\ request[s].pc = "lock" /\ TakeLock(s)
  /\ request' = [request EXCEPT ![s].pc = "read"]
  /\ UNCHANGED <<now, report, worker, mailed, lost>>

Recent(start) == {k \in Key : report[k].status # "none" /\ report[k].created > start - Hour}

Answered(s, answer) == request' = [request EXCEPT ![s].pc = answer]

Release == lock' = "free"

(* The key was used with other content. *)
Conflicts(s) == report[request[s].key].content # request[s].content

(* The reads: an old report is answered again, a key used with other content conflicts, and a    *)
(* reporter at the limit is refused. Each ends the transaction.                                  *)
Read(s) ==
  LET old == report[request[s].key]
  IN /\ request[s].pc = "read"
     /\ \/ old.status # "none" /\ Conflicts(s) /\ Answered(s, "conflict") /\ Release
        \/ old.status # "none" /\ ~Conflicts(s) /\ Answered(s, "accepted") /\ Release
        \/ /\ old.status = "none" /\ Cardinality(Recent(request[s].start)) >= PerHour
           /\ Answered(s, "limited") /\ Release
        \/ /\ old.status = "none" /\ Cardinality(Recent(request[s].start)) < PerHour
           /\ Answered(s, "insert") /\ UNCHANGED lock
     /\ UNCHANGED <<now, report, worker, mailed, lost>>

(* The insert (next_attempt_at is now(), too) and the commit; the index has one row per key. *)
Insert(s) ==
  LET k == request[s].key
  IN /\ request[s].pc = "insert" /\ report[k].status = "none"
     /\ report' = [report EXCEPT ![k] = [status |-> "queued", content |-> request[s].content,
                                         created |-> request[s].start, due |-> request[s].start]]
     /\ Answered(s, "accepted") /\ Release
     /\ UNCHANGED <<now, worker, mailed, lost>>
-----------------------------------------------------------------------------
(* deliver_one *)

(* FOR UPDATE SKIP LOCKED *)
Unlocked(k) == \A w \in Worker : worker[w].key # k

Due(k) == report[k].status = "queued" /\ report[k].due <= now

Claim(w, k) ==
  /\ worker[w] = Resting /\ Due(k) /\ Unlocked(k)
  /\ \A j \in Key : Due(j) /\ Unlocked(j) => report[k].due <= report[j].due
  /\ worker' = [worker EXCEPT ![w] = [key |-> k, pc |-> "post"]]
  /\ UNCHANGED <<now, request, lock, report, mailed, lost>>

(* Postmark takes the mail; the worker has yet to read the answer. *)
Take(w) ==
  /\ worker[w].pc = "post"
  /\ worker' = [worker EXCEPT ![w].pc = "taken"]
  /\ mailed' = [mailed EXCEPT ![worker[w].key] = @ + 1]
  /\ UNCHANGED <<now, request, lock, report, lost>>

Sent(k) == [report EXCEPT ![k].status = "sent"]

MarkSent(w) ==
  /\ worker[w].pc = "taken"
  /\ report' = Sent(worker[w].key)
  /\ worker' = [worker EXCEPT ![w] = Resting]
  /\ UNCHANGED <<now, request, lock, mailed, lost>>

(* Refused or unreachable: tried again later. The backoff counts from the claim and is longer  *)
(* than a post may take; it is one unit of time here.                                          *)
Postpone(w) ==
  /\ worker[w].pc = "post"
  /\ report' = [report EXCEPT ![worker[w].key].due = now + 1]
  /\ worker' = [worker EXCEPT ![w] = Resting]
  /\ UNCHANGED <<now, request, lock, mailed, lost>>

(* Postmark took it and the worker reads no good answer, or stops or fails before its commit. *)
Lose(w, due) ==
  /\ worker[w].pc = "taken" /\ lost[worker[w].key] < MaxLosses
  /\ report' = [report EXCEPT ![worker[w].key].due = due]
  /\ worker' = [worker EXCEPT ![w] = Resting]
  /\ lost' = [lost EXCEPT ![worker[w].key] = @ + 1]
  /\ UNCHANGED <<now, request, lock, mailed>>

LoseAnswer(w) == Lose(w, now + 1)
Stop(w) == Lose(w, report[worker[w].key].due)

Next ==
  \/ Tick
  \/ \E s \in Submission : Begin(s) \/ Lock(s) \/ Read(s) \/ Insert(s)
  \/ \E w \in Worker :
       (\E k \in Key : Claim(w, k)) \/ Take(w) \/ MarkSent(w) \/ Postpone(w) \/ LoseAnswer(w) \/ Stop(w)

Spec == Init /\ [][Next]_vars
-----------------------------------------------------------------------------
TypeOK ==
  /\ now \in 1 .. MaxTime
  /\ \A s \in Submission :
       request[s].pc \in {"new", "lock", "read", "insert", "accepted", "conflict", "limited"}
  /\ lock \in Submission \cup {"free"}
  /\ \A k \in Key : report[k].status \in {"none", "queued", "sent"}
  /\ \A w \in Worker : worker[w].key \in Key \cup {"none"} /\ worker[w].pc \in {"idle", "post", "taken"}

(* In no hour does a reporter make more reports than the limit, although a request that waited   *)
(* for the lock counts from the time it began, which can be before reports already stored        *)
(* (submit's count under the advisory lock).                                                     *)
ReportsWithinBudget ==
  \A t \in 1 .. MaxTime :
    Cardinality({k \in Key : report[k].status # "none" /\ report[k].created \in t .. t + Hour - 1})
      <= PerHour

(* A submission that is answered 202 is stored with the content it came with, also when requests *)
(* with one key race (the idempotency key of submit).                                            *)
AcceptedReportIsStored ==
  \A s \in Submission :
    request[s].pc = "accepted" => /\ report[request[s].key].status # "none"
                                  /\ report[request[s].key].content = request[s].content

(* A report is mailed again only after the outcome of a post was lost, and never once it is      *)
(* recorded as sent (deliver_one's row lock, held from the claim to the commit).                 *)
MailedAgainOnlyAfterLoss ==
  \A k \in Key :
    /\ mailed[k] <= 1 + lost[k]
    /\ report[k].status = "sent" =>
         mailed[k] > lost[k] /\ \A w \in Worker : worker[w].key # k

(* Racing submissions and mailing workers keep the hourly limit, store what was accepted and    *)
(* mail nothing twice without a lost outcome (submit, deliver_one).                             *)
ReportsSound == ReportsWithinBudget /\ AcceptedReportIsStored /\ MailedAgainOnlyAfterLoss
=============================================================================
