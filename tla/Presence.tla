------------------------------ MODULE Presence ------------------------------
(***************************************************************************)
(* HTTP presence leases: devices renew and close leases, several workers   *)
(* expire them a batch at a time under per-account locks, and an account's *)
(* presence is the aggregate of its devices.                               *)
(***************************************************************************)
EXTENDS Integers, FiniteSets, FiniteSetsExt

CONSTANTS Account,   \* numbers: the accounts, ordered by the hash their lock is named after
          Device,
          DevicesOf, \* the devices each account uses
          Worker,
          Lease,     \* duration of a lease
          MaxTime    \* bound: the clock

VARIABLES now,       \* clock_timestamp()
          lease,     \* client_presence_leases: lease[a][d]
          lastSeen,  \* actor_presence_state
          worker,    \* expire_http_presence_leases: candidates left, locks held, leases to expire
          until      \* until when the last heartbeat keeps a device online, 0 once closed (ghost)

vars == <<now, lease, lastSeen, worker, until>>

Never == 0
NoLease == [expires |-> Never, gone |-> Never]
Idle == [todo |-> {}, held |-> {}, out |-> {}]

Init ==
  /\ now = 1
  /\ lease = [a \in Account |-> [d \in Device |-> NoLease]]
  /\ lastSeen = [a \in Account |-> Never]
  /\ worker = [w \in Worker |-> Idle]
  /\ until = [a \in Account |-> [d \in Device |-> 0]]
-----------------------------------------------------------------------------
Latest(S) == Max(S \cup {Never})

Active(leases, d) == leases[d].gone = Never /\ leases[d].expires > now
Online(leases) == \E d \in Device : Active(leases, d)

(* When a device's lease ended: closed, or run out. *)
Ended(l) == IF l.gone # Never THEN l.gone ELSE l.expires

(* Although another device is active. *)
RecordAlways(seen, leases) == Latest({seen} \cup {Ended(leases[d]) : d \in Device})

(* record_actor_offline: once no device is active, the last end of a lease is remembered. *)
RecordOffline(seen, leases) ==
  IF Online(leases) THEN seen ELSE Latest({seen} \cup {Ended(leases[d]) : d \in Device})

(* get_presence's last_seen_at *)
LastSeenAt(seen, leases) ==
  IF Online(leases) THEN seen ELSE Latest({seen} \cup {Ended(leases[d]) : d \in Device})

Locked(a) == \E w \in Worker : a \in worker[w].held


(* What a renewal remembers of the time before it. *)
RecordBeforeRenewal(a) == RecordOffline(lastSeen[a], lease[a])

(* renew_http_presence: under the account's lock, an earlier absence is recorded first. *)
Renew(a, d) ==
  /\ ~Locked(a)
  /\ lastSeen' = [lastSeen EXCEPT ![a] = RecordBeforeRenewal(a)]
  /\ lease' = [lease EXCEPT ![a][d] = [expires |-> now + Lease, gone |-> Never]]
  /\ until' = [until EXCEPT ![a][d] = now + Lease]
  /\ UNCHANGED <<now, worker>>

(* close_http_presence *)
Close(a, d) ==
  LET l == lease[a][d]
      closed == IF l # NoLease /\ l.gone = Never
                  THEN [lease[a] EXCEPT ![d].gone = IF l.expires < now THEN l.expires ELSE now]
                  ELSE lease[a]
  IN /\ ~Locked(a)
     /\ lease' = [lease EXCEPT ![a] = closed]
     /\ lastSeen' = [lastSeen EXCEPT ![a] = RecordOffline(lastSeen[a], closed)]
     /\ until' = [until EXCEPT ![a][d] = 0]
     /\ UNCHANGED <<now, worker>>
-----------------------------------------------------------------------------
(* expire_http_presence_leases, one transaction *)

Expired(a) == {d \in Device : lease[a][d] # NoLease /\ lease[a][d].gone = Never
                              /\ lease[a][d].expires <= now}

(* The scan for candidates. *)
Scan(w) ==
  /\ worker[w] = Idle
  /\ \E a \in Account : Expired(a) # {}
  /\ worker' = [worker EXCEPT ![w].todo = {a \in Account : Expired(a) # {}}]
  /\ UNCHANGED <<now, lease, lastSeen, until>>

(* ORDER BY lock_key *)
NextCandidate(w, a) == worker[w].todo # {} /\ a = Min(worker[w].todo)

(* A lease renewed since the scan is not expired. *)
StillExpired(a) == Expired(a)

LockAndExpire(w, a) ==
  /\ NextCandidate(w, a)
  /\ ~Locked(a)
  /\ worker' = [worker EXCEPT ![w] =
       [todo |-> @.todo \ {a}, held |-> @.held \cup {a},
        out |-> @.out \cup {<<a, d>> : d \in StillExpired(a)}]]
  /\ UNCHANGED <<now, lease, lastSeen, until>>

(* The leases expire when they ran out, not when the worker came by. *)
Commit(w) ==
  LET out(a) == {d \in Device : <<a, d>> \in worker[w].out}
      after == [a \in Account |-> [d \in Device |->
                  IF d \in out(a) THEN [lease[a][d] EXCEPT !.gone = lease[a][d].expires]
                  ELSE lease[a][d]]]
  IN /\ worker[w].held # {} /\ worker[w].todo = {}
     /\ lease' = after
     /\ lastSeen' = [a \in Account |->
          IF out(a) = {} THEN lastSeen[a] ELSE RecordOffline(lastSeen[a], after[a])]
     /\ worker' = [worker EXCEPT ![w] = Idle]
     /\ UNCHANGED <<now, until>>

(* The transaction is rolled back. *)
Abort(w) ==
  /\ worker[w] # Idle
  /\ worker' = [worker EXCEPT ![w] = Idle]
  /\ UNCHANGED <<now, lease, lastSeen, until>>

Tick ==
  /\ now < MaxTime
  /\ now' = now + 1
  /\ UNCHANGED <<lease, lastSeen, worker, until>>

Next ==
  \/ \E a \in Account : \E d \in DevicesOf[a] : Renew(a, d) \/ Close(a, d)
  \/ \E w \in Worker :
       \/ Scan(w) \/ Commit(w) \/ Abort(w)
       \/ \E a \in Account : LockAndExpire(w, a)
  \/ Tick

Spec == Init /\ [][Next]_vars
-----------------------------------------------------------------------------
TypeOK ==
  /\ now \in 1 .. MaxTime
  /\ lease \in [Account -> [Device -> [expires : 0 .. MaxTime + Lease, gone : 0 .. MaxTime + Lease]]]
  /\ lastSeen \in [Account -> 0 .. MaxTime]
  /\ \A w \in Worker : worker[w].out \subseteq worker[w].held \X Device

(* An account is online exactly while some device's last heartbeat is within its lease and the  *)
(* device was not closed since: a worker that found the lease expired never ends one that was   *)
(* renewed in the meantime (expire_http_presence_leases).                                       *)
OnlineWhileRenewed ==
  \A a \in Account : Online(lease[a]) <=> \E d \in Device : until[a][d] > now

(* The last-seen time an account shows never goes back, whichever of renewals, closings and     *)
(* expiries by several workers come in between (get_presence).                                  *)
NotBack == \A a \in Account : LastSeenAt(lastSeen[a], lease[a])' >= LastSeenAt(lastSeen[a], lease[a])

WaitsFor(v, w) == \E a \in worker[w].held : NextCandidate(v, a)

(* Two workers never hold a lock the other one waits for.                                       *)
NoCircularWait == \A v, w \in Worker : ~(v # w /\ WaitsFor(v, w) /\ WaitsFor(w, v))

OnlineTrue == OnlineWhileRenewed /\ NoCircularWait

=============================================================================
