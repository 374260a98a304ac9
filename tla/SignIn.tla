------------------------------- MODULE SignIn -------------------------------
(***************************************************************************)
(* One profile of a DM home and the processes that share its sign-in: the  *)
(* relay's sends and its maintenance task, the commands dm login status    *)
(* and dm login refresh, and dm login and dm logout.  They meet in         *)
(* config.json (`stored'), in the profile's lock file (`lock'), and at     *)
(* Silicon Accounts (`issuer'), which rotates the refresh token at every   *)
(* refresh and ends a sign-in whose spent token is presented again.        *)
(*                                                                         *)
(* A sign-in is a number, its tokens are its generations.  The life left   *)
(* in an access token is measured against the margins of the code: 3 is    *)
(* beyond every margin, 2 within the maintenance task's (at most 300 s), 1 *)
(* within a command's (60 s), 0 less than the 10 s below which a token is  *)
(* not used at all (store.rs:786-788).                                     *)
(***************************************************************************)
EXTENDS Naturals, FiniteSets

CONSTANTS Process,      \* tasks and commands that need a token
          Casts,        \* bounds: which of them, "login" and "logout" run, one choice per behaviour
          MaxSignIns,   \* bound: sign-ins the issuer hands out
          MaxGen,       \* bound: generations of one sign-in's tokens
          MaxFaults     \* bound: crashes, lost answers, refused tokens

(* What the constants are. *)
SignInAssumption ==
  /\ Casts \subseteq SUBSET (Process \cup {"login", "logout"})
  /\ MaxSignIns \in Nat \ {0} /\ MaxGen \in Nat \ {0} /\ MaxFaults \in Nat

VARIABLES issuer,   \* per sign-in: the refresh token it expects, and whether it still holds
          stored,   \* the profile in config.json
          lock,     \* holder of refresh-<profile>.lock
          proc,     \* program counter and snapshot of every process
          login,    \* the dm login in progress
          logout,   \* the dm logout in progress
          cast,     \* who runs in this behaviour (bound)
          faults,   \* faults so far (bound)
          lost,     \* history: sign-ins one of whose rotated tokens reached nobody
          reused,   \* history: sign-ins ended because a spent token was presented
          stale,    \* history: tokens that aged, were refused, or were asked to be renewed
          revoked   \* history: sign-ins reported revoked

vars == <<issuer, stored, lock, proc, login, logout, cast, faults, lost,
          reused, stale, revoked>>
history == <<lost, reused, stale, revoked>>

SignIns == 1 .. MaxSignIns
Token == SignIns \X (1 .. MaxGen)
NoToken == <<0, 0>>
Operation == {"send", "maintain", "status", "refresh"}
Idle == [pc |-> "idle", op |-> "send", token |-> NoToken, again |-> FALSE]
NoLogin == [pc |-> "idle", fam |-> 0, old |-> NoToken]
NoLogout == [pc |-> "idle", token |-> NoToken]
Free == "free"

SignedIn == stored.token # NoToken
Margin(op) == IF op = "maintain" THEN 2 ELSE 1
Fresh(op) == stored.left > Margin(op)
Holds(f) == issuer[f].state = "holds"

Init ==
  /\ issuer = [f \in SignIns |-> [gen |-> 1, state |-> IF f = 1 THEN "holds" ELSE "none"]]
  /\ stored = [token |-> <<1, 1>>, left |-> 3, ended |-> FALSE]
  /\ lock = Free
  /\ proc = [p \in Process |-> Idle]
  /\ login = NoLogin
  /\ logout = NoLogout
  /\ cast \in Casts
  /\ faults = 0
  /\ lost = {} /\ reused = {} /\ stale = {} /\ revoked = {}

-----------------------------------------------------------------------------
(* config.json *)

ApplySession(token) == stored' = [token |-> token, left |-> 3, ended |-> FALSE]
ClearSignIn(ended) == stored' = [token |-> NoToken, left |-> 0, ended |-> ended]
SameSignIn(token) == stored.token = token

(* Only the token that was presented is expired: one refreshed meanwhile is kept. *)
ExpireAttemptedToken(token) ==
  /\ stored' = IF stored.token = token THEN [stored EXCEPT !.left = 0] ELSE stored
  /\ stale' = stale \cup {token}
-----------------------------------------------------------------------------
(* fresh_profile_within: the stored token while it lasts, else one refresh *)
(* at a time, under the profile's lock.                                    *)

Set(p, pc, token) == proc' = [proc EXCEPT ![p].pc = pc, ![p].token = token]
Done(p) == proc' = [proc EXCEPT ![p] = Idle]

(* The token is in hand: maintenance and dm login refresh are through, a send and dm login *)
(* status go on to present it.                                                             *)
Return(p, op, token) ==
  IF op \in {"maintain", "refresh"} THEN Done(p)
  ELSE proc' = [proc EXCEPT ![p].op = op, ![p].pc = "using", ![p].token = token]

(* The first look at config.json, without the lock. *)
Load(p, op) ==
  CASE ~SignedIn -> Done(p)
    [] SignedIn /\ Fresh(op) -> Return(p, op, stored.token)
    [] OTHER -> proc' = [proc EXCEPT ![p].op = op, ![p].pc = "waiting", ![p].token = stored.token]

(* A send, dm login status, or the relay's maintenance every five seconds. *)
Start(p, op) ==
  /\ p \in cast /\ proc[p].pc = "idle"
  /\ op # "refresh" /\ (op = "maintain" => SignedIn /\ ~Fresh(op))
  /\ Load(p, op)
  /\ UNCHANGED <<cast, issuer, stored, lock, login, logout, faults, history>>

(* dm login refresh expires the stored token, then asks for a fresh one. *)
StartRefresh(p) ==
  /\ p \in cast /\ proc[p].pc = "idle"
  /\ SignedIn
  /\ ExpireAttemptedToken(stored.token)
  /\ proc' = [proc EXCEPT ![p].pc = "load", ![p].op = "refresh"]
  /\ UNCHANGED <<cast, issuer, lock, login, logout, faults, lost, reused, revoked>>

LoadProfile(p) ==
  /\ proc[p].pc = "load"
  /\ Load(p, proc[p].op)
  /\ UNCHANGED <<cast, issuer, stored, lock, login, logout, faults, history>>

LockProfile(p) ==
  /\ proc[p].pc = "waiting"
  /\ lock = Free
  /\ CASE ~SignedIn -> Done(p) /\ UNCHANGED lock
       [] SignedIn /\ (Fresh(proc[p].op) \/ ~SameSignIn(proc[p].token)) ->
            Set(p, "unlocked", NoToken) /\ UNCHANGED lock
       [] OTHER -> lock' = p /\ Set(p, "asking", stored.token)
  /\ UNCHANGED <<cast, issuer, stored, login, logout, faults, history>>

Reload(p) ==
  /\ proc[p].pc = "unlocked"
  /\ IF SignedIn THEN Return(p, proc[p].op, stored.token) ELSE Done(p)
  /\ UNCHANGED <<cast, issuer, stored, lock, login, logout, faults, history>>

(* External: what Silicon Accounts does with a refresh token. *)
Expected(token) == Holds(token[1]) /\ issuer[token[1]].gen = token[2]
Rotate(token) == issuer' = [issuer EXCEPT ![token[1]].gen = token[2] + 1]
Refused(token) ==
  /\ issuer' = [issuer EXCEPT ![token[1]].state = "over"]
  /\ reused' = IF Holds(token[1]) THEN reused \cup {token[1]} ELSE reused

(* PublicClient::refresh *)
RefreshAnswered(p) ==
  /\ proc[p].pc = "asking"
  /\ IF Expected(proc[p].token)
       THEN /\ proc[p].token[2] < MaxGen
            /\ Rotate(proc[p].token) /\ Set(p, "rotated", proc[p].token)
            /\ UNCHANGED reused
       ELSE Refused(proc[p].token) /\ Set(p, "ended", proc[p].token)
  /\ UNCHANGED <<cast, stored, lock, login, logout, faults, lost, stale, revoked>>

(* The request or its answer is lost: the second has rotated the token.  Beyond the bound on *)
(* generations Silicon Accounts is out of reach.                                             *)
RefreshLost(p) ==
  /\ proc[p].pc = "asking"
  /\ \/ faults < MaxFaults /\ faults' = faults + 1
     \/ proc[p].token[2] = MaxGen /\ UNCHANGED faults
  /\ Set(p, "unreachable", proc[p].token)
  /\ \/ UNCHANGED <<issuer, lost>>
     \/ /\ Expected(proc[p].token) /\ proc[p].token[2] < MaxGen
        /\ Rotate(proc[p].token)
        /\ lost' = lost \cup {proc[p].token[1]}
  /\ UNCHANGED <<cast, stored, lock, login, logout, reused, stale, revoked>>

KeepSession(p) ==
  LET token == proc[p].token
      next == <<token[1], token[2] + 1>>
  IN /\ proc[p].pc = "rotated"
     /\ IF SameSignIn(token)
          THEN ApplySession(next) /\ Return(p, proc[p].op, next)
          ELSE /\ UNCHANGED stored
               /\ IF SignedIn THEN Return(p, proc[p].op, stored.token) ELSE Done(p)
     /\ lock' = Free
     /\ UNCHANGED <<cast, issuer, login, logout, faults, history>>

EndSession(p) ==
  /\ proc[p].pc = "ended"
  /\ IF SameSignIn(proc[p].token) THEN ClearSignIn(TRUE) ELSE UNCHANGED stored
  /\ lock' = Free
  /\ Done(p)
  /\ UNCHANGED <<cast, issuer, login, logout, faults, history>>

(* An unreachable Silicon Accounts taken for one that refuses the token. *)
UnreachableEnds(p) ==
  /\ proc[p].pc = "unreachable"
  /\ ClearSignIn(TRUE)
  /\ lock' = Free
  /\ Done(p)
  /\ UNCHANGED <<cast, issuer, login, logout, faults, history>>

(* A token with more than ten seconds left is used although it could not be refreshed. *)
UseAnyway(p) ==
  /\ proc[p].pc = "unreachable"
  /\ IF SameSignIn(proc[p].token) /\ stored.left > 0
       THEN Return(p, proc[p].op, proc[p].token)
       ELSE Done(p)
  /\ lock' = Free
  /\ UNCHANGED <<cast, issuer, stored, login, logout, faults, history>>
-----------------------------------------------------------------------------
(* The token is presented to the DM service: a relay's attempt, or GET /me *)
(* of dm login status, which refreshes once after a refusal.               *)

Accepted(p) ==
  /\ proc[p].pc = "using"
  /\ Holds(proc[p].token[1])
  /\ Done(p)
  /\ UNCHANGED <<cast, issuer, stored, lock, login, logout, faults, history>>

Unauthorized(p) ==
  /\ proc[p].pc = "using"
  /\ \/ ~Holds(proc[p].token[1]) /\ UNCHANGED faults
     \/ Holds(proc[p].token[1]) /\ faults < MaxFaults /\ faults' = faults + 1
  /\ IF proc[p].again
       THEN Done(p) /\ UNCHANGED <<stored, stale>>
       ELSE /\ ExpireAttemptedToken(proc[p].token)
            /\ IF proc[p].op = "status"
                 THEN proc' = [proc EXCEPT ![p].pc = "load", ![p].again = TRUE]
                 ELSE Done(p)
  /\ UNCHANGED <<cast, issuer, lock, login, logout, lost, reused, revoked>>

(* A command is interrupted, or the relay stops: run aborts its tasks, wherever they are. *)
Crash(p) ==
  /\ proc[p].pc # "idle"
  /\ faults < MaxFaults /\ faults' = faults + 1
  /\ lock' = IF lock = p THEN Free ELSE lock
  /\ Done(p)
  /\ lost' = IF proc[p].pc = "rotated" THEN lost \cup {proc[p].token[1]} ELSE lost
  /\ UNCHANGED <<cast, issuer, stored, login, logout, reused, stale, revoked>>

(* The stored access token ages. *)
Age ==
  /\ stored.left > 0
  /\ stored' = [stored EXCEPT !.left = @ - 1]
  /\ stale' = stale \cup {stored.token}
  /\ UNCHANGED <<cast, issuer, lock, proc, login, logout, faults, lost, reused, revoked>>

(* External: the account signs this sign-in out at Silicon Accounts. *)
SignedOutElsewhere(f) ==
  /\ Holds(f)
  /\ faults < MaxFaults /\ faults' = faults + 1
  /\ issuer' = [issuer EXCEPT ![f].state = "over"]
  /\ UNCHANGED <<cast, stored, lock, proc, login, logout, history>>
-----------------------------------------------------------------------------
(* dm login: the service is asked which Silicon Accounts it trusts before  *)
(* anything is spent; the new sign-in is stored under the profile's lock;  *)
(* the one it replaces is revoked afterwards, the lock released.           *)

(* check_service: a service that trusts another Silicon Accounts is refused. *)
CheckService ==
  /\ "login" \in cast /\ login.pc = "idle"
  /\ \E f \in SignIns : issuer[f].state = "none"
  /\ login' = [login EXCEPT !.pc = "checked"]
  /\ UNCHANGED <<cast, issuer, stored, lock, proc, logout, faults, history>>

(* exchange_slt or wait_for_device: a new sign-in, or none. *)
Exchange(granted) ==
  /\ login.pc = "checked"
  /\ IF granted
       THEN \E f \in SignIns :
              /\ issuer[f].state = "none" /\ \A g \in 1 .. (f - 1) : issuer[g].state # "none"
              /\ issuer' = [issuer EXCEPT ![f].state = "holds"]
              /\ login' = [pc |-> "session", fam |-> f, old |-> NoToken]
       ELSE login' = NoLogin /\ UNCHANGED issuer
  /\ UNCHANGED <<cast, stored, lock, proc, logout, faults, history>>

SaveSignIn ==
  /\ login.pc = "session"
  /\ lock = Free
  /\ login' = [login EXCEPT !.pc = "saved", !.old = stored.token]
  /\ ApplySession(<<login.fam, 1>>)
  /\ UNCHANGED <<cast, issuer, lock, proc, logout, faults, history>>

(* External: revocation ends the sign-in of the token it expects; any other token is unknown, *)
(* which PublicClient::revoke takes for success.                                              *)
Revoke(token) ==
  /\ issuer' = IF Expected(token) THEN [issuer EXCEPT ![token[1]].state = "over"] ELSE issuer
  /\ revoked' = revoked \cup {token[1]}

RevokeReplaced(reached) ==
  /\ login.pc = "saved"
  /\ IF login.old # NoToken /\ reached
       THEN Revoke(login.old)
       ELSE UNCHANGED <<issuer, revoked>>
  /\ login' = NoLogin
  /\ UNCHANGED <<cast, stored, lock, proc, logout, faults, lost, reused, stale>>

(* dm logout: the refresh token is revoked under the lock, then forgotten. *)
LoadForLogout ==
  /\ "logout" \in cast /\ logout.pc = "idle"
  /\ lock = Free
  /\ SignedIn
  /\ lock' = "logout"
  /\ logout' = [pc |-> "revoking", token |-> stored.token]
  /\ UNCHANGED <<cast, issuer, stored, proc, login, faults, history>>

RevokeSignIn(reached) ==
  /\ logout.pc = "revoking"
  /\ IF reached THEN Revoke(logout.token) ELSE UNCHANGED <<issuer, revoked>>
  /\ logout' = [logout EXCEPT !.pc = "forgetting"]
  /\ UNCHANGED <<cast, stored, lock, proc, login, faults, lost, reused, stale>>

ForgetSignIn ==
  /\ logout.pc = "forgetting"
  /\ IF SameSignIn(logout.token) THEN ClearSignIn(FALSE) ELSE UNCHANGED stored
  /\ lock' = Free
  /\ logout' = NoLogout
  /\ UNCHANGED <<cast, issuer, proc, login, faults, history>>
-----------------------------------------------------------------------------
Step(p) ==
  \/ LoadProfile(p) \/ LockProfile(p) \/ Reload(p)
  \/ RefreshAnswered(p) \/ RefreshLost(p)
  \/ KeepSession(p) \/ EndSession(p) \/ UseAnyway(p)
  \/ Accepted(p) \/ Unauthorized(p)

LoginStep == Exchange(TRUE) \/ Exchange(FALSE) \/ SaveSignIn \/ \E b \in BOOLEAN : RevokeReplaced(b)
LogoutStep == (\E b \in BOOLEAN : RevokeSignIn(b)) \/ ForgetSignIn

Next ==
  \/ \E p \in Process : Step(p) \/ StartRefresh(p) \/ Crash(p) \/ \E op \in Operation : Start(p, op)
  \/ LoginStep \/ LogoutStep
  \/ LoadForLogout \/ CheckService
  \/ Age
  \/ \E f \in SignIns : SignedOutElsewhere(f)

Spec == Init /\ [][Next]_vars
-----------------------------------------------------------------------------
TypeOK ==
  /\ issuer \in [SignIns -> [gen : 1 .. MaxGen, state : {"none", "holds", "over"}]]
  /\ stored \in [token : Token \cup {NoToken}, left : 0 .. 3, ended : BOOLEAN]
  /\ lock \in Process \cup {Free, "logout"}
  /\ proc \in [Process -> [pc : {"idle", "load", "waiting", "unlocked", "asking", "rotated",
                                 "ended", "unreachable", "using"},
                           op : Operation, token : Token \cup {NoToken}, again : BOOLEAN]]
  /\ login \in [pc : {"idle", "checked", "session", "saved"}, fam : 0 .. MaxSignIns,
                old : Token \cup {NoToken}]
  /\ logout \in [pc : {"idle", "revoking", "forgetting"}, token : Token \cup {NoToken}]
  /\ cast \in Casts /\ faults \in 0 .. MaxFaults
  /\ {lost, reused, revoked} \subseteq SUBSET SignIns /\ stale \subseteq Token

(* Whenever nobody is between asking Silicon Accounts for a refresh and storing its answer,  *)
(* the refresh token in config.json is the one Silicon Accounts expects next, unless an      *)
(* answer was lost: two processes of a home never leave it a spent token                     *)
(* (fresh_profile_within, store.rs:796-831).                                                 *)
StoredTokenIsCurrent ==
  SignedIn /\ stored.token[1] \notin lost /\ (\A p \in Process : proc[p].pc # "rotated")
    => issuer[stored.token[1]].gen = stored.token[2]

(* A spent refresh token is presented, which ends the sign-in on every command of the home,  *)
(* only after a rotated token was lost to a crash or to a lost answer (store.rs:812).        *)
ReuseOnlyAfterLoss == reused \subseteq lost

(* A token is renewed only if that very token aged, was refused, or was asked to be renewed: *)
(* a late refusal of the previous token never costs the new one (expire_attempted_token).    *)
OnlyStaleTokensRotate ==
  \A f \in SignIns, g \in 1 .. MaxGen : issuer[f].gen > g => <<f, g>> \in stale

(* A sign-in that a sign-out or a replacement reported as revoked no longer holds at Silicon *)
(* Accounts: the revoked token is the current one, because it is read under the profile's    *)
(* lock (save_sign_in, logout).                                                              *)
RevokedIsOver == \A f \in revoked \ lost : ~Holds(f)

(* A sign-in leaves the profile in three ways: Silicon Accounts has ended it, dm logout took *)
(* it, or a newer dm login replaced it.  A refresh or a sign-out of an earlier sign-in never *)
(* overwrites or removes a newer one (same_sign_in).                                         *)
LeavesRightly ==
  SignedIn /\ stored'.token[1] # stored.token[1] =>
    \/ ~Holds(stored.token[1]) /\ stored'.token = NoToken
    \/ logout.token = stored.token /\ stored'.token = NoToken
    \/ login.pc = "session" /\ stored'.token = <<login.fam, 1>>

SignInConsistent ==
  /\ StoredTokenIsCurrent
  /\ ReuseOnlyAfterLoss
  /\ OnlyStaleTokensRotate
  /\ RevokedIsOver

(* Commands and the relay that share a profile never spend its refresh token twice, never       *)
(* rotate a token that was not stale, never leave a revoked sign-in alive and never lose a      *)
(* newer sign-in to an older one (store.rs, auth.rs).                                           *)
SignInSafe == []SignInConsistent /\ [][LeavesRightly]_vars
=============================================================================
