------------------------------ MODULE RelayHost ------------------------------
(***************************************************************************)
(* The one relay process an operating-system user runs for all of their DM *)
(* homes: how commands find it, launch it and replace an older release's,  *)
(* and how it takes up the registered homes.  The processes meet in files: *)
(* host.lock (`hostLock'), held by the running relay; host.json (`record'),*)
(* which says who that is; stores.json (`registry'), the homes to serve;   *)
(* and every home's daemon.lock (`homeLock'), held by the relay whose      *)
(* outbox sends that home's queue.                                         *)
(***************************************************************************)
EXTENDS Naturals, FiniteSets

CONSTANTS Home,        \* DM homes
          Command,     \* commands that start the relay
          HomeOf,      \* the home a command works in
          Version,     \* the release a command comes from, and the relay it launches
          MaxRelays,   \* bound: relay processes
          MaxCrashes,  \* bound: relays killed
          LegacyHomes  \* homes an older release's own relay still holds

(* What the constants are. *)
RelayHostAssumption ==
  /\ HomeOf \in [Command -> Home] /\ Version \in [Command -> Nat]
  /\ MaxRelays \in Nat /\ MaxCrashes \in Nat /\ LegacyHomes \subseteq Home

VARIABLES hostLock,   \* 0, or the relay holding host.lock
          record,     \* 0, or the relay host.json names
          registry,   \* homes in stores.json
          homeLock,   \* holder of each home's daemon.lock
          relay,      \* the relay processes
          command,    \* the commands
          crashes     \* relays killed so far (bound)

vars == <<hostLock, record, registry, homeLock, relay, command, crashes>>

Relay == 1 .. MaxRelays
Legacy == MaxRelays + 1          \* an older release's per-home relay
NoRelay == [pc |-> "none", version |-> 0, home |-> CHOOSE h \in Home : TRUE,
            tenants |-> {}, outboxes |-> {}]
NewCommand == [pc |-> "start", launched |-> 0, replacing |-> FALSE, seen |-> 0]

Init ==
  /\ hostLock = 0 /\ record = 0 /\ registry = {}
  /\ homeLock = [h \in Home |-> IF h \in LegacyHomes THEN Legacy ELSE 0]
  /\ relay = [r \in Relay |-> NoRelay]
  /\ command = [c \in Command |-> NewCommand]
  /\ crashes = 0
-----------------------------------------------------------------------------
(* The relay process: run *)

(* host::acquire gives up after a second if another relay holds host.lock; the launching home *)
(* is registered.                                                                             *)
Acquire(r) ==
  /\ relay[r].pc = "launched"
  /\ \/ /\ hostLock = 0
        /\ hostLock' = r
        /\ registry' = registry \cup {relay[r].home}
        /\ relay' = [relay EXCEPT ![r].pc = "attaching"]
     \/ /\ hostLock # 0
        /\ relay' = [relay EXCEPT ![r].pc = "exited"]
        /\ UNCHANGED <<hostLock, registry>>
  /\ UNCHANGED <<record, homeLock, command, crashes>>

(* attach_home: register the home, take its lock, start its outbox. *)
CanAttach(r, h) == h \in relay[r].tenants \/ homeLock[h] = 0
AttachHome(r, h, pc) ==
  /\ homeLock' = [homeLock EXCEPT ![h] = r]
  /\ registry' = registry \cup {h}
  /\ relay' = [relay EXCEPT ![r].pc = pc, ![r].tenants = @ \cup {h}, ![r].outboxes = @ \cup {h}]

(* The launching home first; one that cannot be attached is only reported. *)
AttachLaunching(r) ==
  /\ relay[r].pc = "attaching"
  /\ IF CanAttach(r, relay[r].home)
       THEN AttachHome(r, relay[r].home, "publishing")
       ELSE relay' = [relay EXCEPT ![r].pc = "publishing"] /\ UNCHANGED <<homeLock, registry>>
  /\ UNCHANGED <<hostLock, record, command, crashes>>

Publish(r) ==
  /\ relay[r].pc = "publishing"
  /\ record' = r
  /\ relay' = [relay EXCEPT ![r].pc = "serving"]
  /\ UNCHANGED <<hostLock, registry, homeLock, command, crashes>>

(* Every 30 seconds: the registered homes not served yet. *)
ResumeHome(r, h) ==
  /\ relay[r].pc = "serving"
  /\ h \in registry \ relay[r].tenants
  /\ CanAttach(r, h)
  /\ AttachHome(r, h, "serving")
  /\ UNCHANGED <<hostLock, record, command, crashes>>

(* stop_per_home_relay: attaching a home asks the older release's relay that holds it to stop, *)
(* which it does after its current request.                                                    *)
StopPerHomeRelay(r, h) ==
  /\ relay[r].pc \in {"attaching", "serving"}
  /\ h \in registry \/ h = relay[r].home
  /\ homeLock[h] = Legacy
  /\ homeLock' = [homeLock EXCEPT ![h] = 0]
  /\ UNCHANGED <<hostLock, record, registry, relay, command, crashes>>

(* The stop: no request is accepted, the record is retracted if it is still this relay's, the *)
(* outboxes are stopped, then their homes are released, then host.lock.                       *)
Retract(r) == record' = IF record = r THEN 0 ELSE record

ShutDown(r) ==
  /\ relay[r].pc = "stopping"
  /\ Retract(r)
  /\ relay' = [relay EXCEPT ![r].pc = "retracted"]
  /\ UNCHANGED <<hostLock, registry, homeLock, command, crashes>>

StopOutbox(r, h) ==
  /\ relay[r].pc = "retracted"
  /\ h \in relay[r].outboxes
  /\ relay' = [relay EXCEPT ![r].outboxes = @ \ {h}]
  /\ UNCHANGED <<hostLock, record, registry, homeLock, command, crashes>>

Released(r) == [h \in Home |-> IF homeLock[h] = r THEN 0 ELSE homeLock[h]]

(* The homes' locks are released while their outboxes still run. *)
DropTenantsEarly(r) ==
  /\ relay[r].pc = "retracted"
  /\ homeLock' = Released(r)
  /\ relay' = [relay EXCEPT ![r].pc = "dropped", ![r].tenants = {}]
  /\ UNCHANGED <<hostLock, record, registry, command, crashes>>

DropTenants(r) ==
  /\ relay[r].pc = "retracted"
  /\ relay[r].outboxes = {}
  /\ homeLock' = Released(r)
  /\ relay' = [relay EXCEPT ![r].pc = "dropped", ![r].tenants = {}]
  /\ UNCHANGED <<hostLock, record, registry, command, crashes>>

Unlock(r) ==
  /\ relay[r].pc = "dropped"
  /\ hostLock' = 0
  /\ relay' = [relay EXCEPT ![r].pc = "exited"]
  /\ UNCHANGED <<record, registry, homeLock, command, crashes>>

(* Killed: the operating system releases its locks, host.json stays behind. *)
Kill(r) ==
  /\ relay[r].pc \notin {"none", "exited"}
  /\ crashes < MaxCrashes /\ crashes' = crashes + 1
  /\ hostLock' = IF hostLock = r THEN 0 ELSE hostLock
  /\ homeLock' = Released(r)
  /\ relay' = [relay EXCEPT ![r].pc = "exited", ![r].tenants = {}, ![r].outboxes = {}]
  /\ UNCHANGED <<record, registry, command>>
-----------------------------------------------------------------------------
(* A command: start *)

Older(r, c) == relay[r].version < Version[c]

Up(r) == relay[r].pc = "serving"
To(c, pc) == command' = [command EXCEPT ![c].pc = pc]

(* The fast path: the relay that served this home last still does; else the home is registered. *)
Begin(c) ==
  /\ command[c].pc = "start"
  /\ IF \E r \in Relay : Up(r) /\ HomeOf[c] \in relay[r].tenants /\ ~Older(r, c)
       THEN To(c, "done") /\ UNCHANGED registry
       ELSE To(c, "look") /\ registry' = registry \cup {HomeOf[c]}
  /\ UNCHANGED <<hostLock, record, homeLock, relay, crashes>>

(* host::state.  Another relay is launched once; if it has exited, the command fails. *)
Launch(c) ==
  \E r \in Relay :
    /\ relay[r].pc = "none" /\ \A q \in 1 .. (r - 1) : relay[q].pc # "none"
    /\ relay' = [relay EXCEPT ![r].pc = "launched", ![r].version = Version[c],
                              ![r].home = HomeOf[c]]
    /\ command' = [command EXCEPT ![c].launched = r]

Look(c) ==
  /\ command[c].pc = "look"
  /\ CASE hostLock # 0 /\ record # 0 ->
            command' = [command EXCEPT ![c].pc = "attach", ![c].seen = record] /\ UNCHANGED relay
       [] hostLock # 0 /\ record = 0 -> UNCHANGED <<command, relay>>
       [] hostLock = 0 /\ command[c].launched = 0 -> Launch(c)
       [] OTHER ->
            /\ relay[command[c].launched].pc = "exited"
            /\ To(c, "failed") /\ UNCHANGED relay
  /\ UNCHANGED <<hostLock, record, registry, homeLock, crashes>>

(* owner.attach at the recorded port and with the recorded token: a current relay serves the  *)
(* home from now on, an older one is told to stop, once.                                      *)
Attach(c) ==
  LET r == command[c].seen  h == HomeOf[c]
  IN /\ command[c].pc = "attach"
     /\ Up(r)
     /\ CanAttach(r, h)
     /\ CASE ~Older(r, c) -> To(c, "done") /\ AttachHome(r, h, "serving")
          [] Older(r, c) /\ ~command[c].replacing ->
               /\ command' = [command EXCEPT ![c].pc = "look", ![c].replacing = TRUE]
               /\ AttachHome(r, h, "stopping")
          [] OTHER -> To(c, "look") /\ AttachHome(r, h, "serving")
     /\ UNCHANGED <<hostLock, record, crashes>>

(* Nobody answers at the recorded port: the relay stops or has gone. *)
NoAnswer(c) ==
  /\ command[c].pc = "attach"
  /\ ~Up(command[c].seen)
  /\ To(c, "look")
  /\ UNCHANGED <<hostLock, record, registry, homeLock, relay, crashes>>

(* The recorded relay is gone and another one has its port, which does not know its token: the *)
(* command fails, unless it is replacing a relay.                                              *)
Unauthorized(c) ==
  /\ command[c].pc = "attach"
  /\ ~Up(command[c].seen)
  /\ \E r \in Relay : r # command[c].seen /\ Up(r)
  /\ To(c, IF command[c].replacing THEN "look" ELSE "refused")
  /\ UNCHANGED <<hostLock, record, registry, homeLock, relay, crashes>>

(* attach_failed: another relay still serves the home. *)
AttachFailed(c) ==
  /\ command[c].pc = "attach"
  /\ Up(command[c].seen)
  /\ ~CanAttach(command[c].seen, HomeOf[c])
  /\ To(c, IF command[c].replacing THEN "look" ELSE "failed")
  /\ UNCHANGED <<hostLock, record, registry, homeLock, relay, crashes>>

(* Fifteen seconds are over. *)
GiveUp(c) ==
  /\ command[c].pc = "look"
  /\ To(c, "failed")
  /\ UNCHANGED <<hostLock, record, registry, homeLock, relay, crashes>>
-----------------------------------------------------------------------------
Run(r) == Acquire(r) \/ AttachLaunching(r) \/ Publish(r) \/ ShutDown(r) \/ DropTenants(r) \/ Unlock(r)

Next ==
  \/ \E r \in Relay :
       \/ Run(r) \/ Kill(r)
       \/ \E h \in Home : ResumeHome(r, h) \/ StopPerHomeRelay(r, h) \/ StopOutbox(r, h)
  \/ \E c \in Command :
       Begin(c) \/ Look(c) \/ Attach(c) \/ NoAnswer(c) \/ Unauthorized(c) \/ AttachFailed(c) \/ GiveUp(c)

Spec == Init /\ [][Next]_vars
-----------------------------------------------------------------------------
TypeOK ==
  /\ hostLock \in 0 .. MaxRelays /\ record \in 0 .. MaxRelays
  /\ registry \subseteq Home
  /\ homeLock \in [Home -> 0 .. Legacy]
  /\ relay \in [Relay -> [pc : {"none", "launched", "attaching", "publishing", "serving", "stopping",
                                "retracted", "dropped", "exited"},
                          version : {0} \cup {Version[c] : c \in Command}, home : Home,
                          tenants : SUBSET Home, outboxes : SUBSET Home]]
  /\ command \in [Command -> [pc : {"start", "look", "attach", "done", "failed", "refused"},
                              launched : 0 .. MaxRelays, replacing : BOOLEAN, seen : 0 .. MaxRelays]]
  /\ crashes \in 0 .. MaxCrashes

(* A home's queue is sent by one outbox at a time, of one relay, while relays stop, are      *)
(* replaced and are killed, and never while an older release's own relay still sends it.     *)
OneOutboxPerHome ==
  \A h \in Home : \A r \in Relay :
    h \in relay[r].outboxes =>
      homeLock[h] = r /\ \A q \in Relay \ {r} : h \notin relay[q].outboxes

(* A relay that serves is the one host.json names, so every command finds it; a stopping or  *)
(* late relay never removes or overwrites its successor's record (retract, publish).         *)
ServingRelayIsRecorded == \A r \in Relay : Up(r) => hostLock = r /\ record = r

(* A command whose start succeeded leaves its home served by a relay that is not older than  *)
(* the command, as long as no newer command replaces that relay and none is killed.          *)
StartedHomeIsServed ==
  \A c \in Command :
    command[c].pc = "done" /\ crashes = 0 /\ (\A d \in Command : Version[d] <= Version[c]) =>
      \E r \in Relay : Up(r) /\ relay[r].version >= Version[c] /\ HomeOf[c] \in relay[r].tenants

(* Relays that start, replace, stop and crash concurrently never send one queue twice at a      *)
(* time, hide the relay that serves, or leave a started command without one (host.rs,           *)
(* daemon.rs).                                                                                  *)
HostSafe == OneOutboxPerHome /\ ServingRelayIsRecorded /\ StartedHomeIsServed
=============================================================================
