--------------------------- MODULE Authentication ---------------------------
(***************************************************************************)
(* Authenticating requests with Silicon Accounts: the cached key set, the  *)
(* cache of live answers about sign-ins and proofs, and requests in flight *)
(* while keys are published and sign-ins end.                              *)
(***************************************************************************)
EXTENDS Integers, FiniteSets

CONSTANTS Request,      \* requests handled at the same time
          Bearer,       \* access tokens
          Proof,        \* User verification proofs
          KeyOf,        \* the key an access token is signed with
          FirstKeys,    \* the keys published at first
          LaterKeys,    \* keys published later
          ExpiresAt,    \* when a credential expires
          LiveCache,    \* LIVE_CACHE
          Interval,     \* JWKS_REFETCH_INTERVAL
          Mixes,        \* bound: sets of credentials presented in one behaviour
          Timeout,      \* longest a call to Silicon Accounts takes
          MaxTime       \* bound: the clock

VARIABLES now,
          published,    \* keys Silicon Accounts publishes
          jwks,         \* Inner.jwks
          jwksFetched,  \* Inner.jwks_fetched
          ended,        \* when a sign-in or a proof ended
          live,         \* Inner.live
          request,
          refetched,    \* when the key set was last downloaded again (ghost)
          presented     \* the credentials of this behaviour (bound)

vars == <<now, published, jwks, jwksFetched, ended, live, request, refetched, presented>>

Never == -1
NoKeys == {}
Credential == Bearer \cup Proof
NoVerdict == [at |-> Never, verdict |-> "none"]
Idle == [pc |-> "idle"]

Init ==
  /\ now = 0
  /\ published = FirstKeys
  /\ jwks = NoKeys /\ jwksFetched = Never /\ refetched = Never
  /\ ended = [c \in Credential |-> Never]
  /\ live = [c \in Credential |-> NoVerdict]
  /\ request = [r \in Request |-> Idle]
  /\ presented \in Mixes

(* A refused request is over. *)
Go(r, pc) ==
  request' = [request EXCEPT ![r] = IF pc = "refused" THEN Idle ELSE [@ EXCEPT !.pc = pc]]

(* route_requirement decides whether the route checks live. *)
Present(r, c, checksLive) ==
  /\ request[r] = Idle
  /\ request' = [request EXCEPT ![r] =
       [pc |-> IF c \in Bearer THEN "verify" ELSE "look_up",
        credential |-> c, live |-> checksLive, start |-> now, asked |-> Never, active |-> FALSE]]
  /\ UNCHANGED <<now, published, jwks, jwksFetched, ended, live, refetched, presented>>
-----------------------------------------------------------------------------
(* verify_locally *)

Verified(r) == IF request[r].live THEN "look_up" ELSE "accepted"
Unexpired(r) == now < ExpiresAt[request[r].credential]
Knows(keys, r) == KeyOf[request[r].credential] \in keys

(* jwks(false): the first download. *)
FirstDownload(r) ==
  /\ request[r].pc = "verify" /\ jwks = NoKeys
  /\ jwks' = published
  /\ UNCHANGED <<now, published, jwksFetched, ended, live, request, refetched, presented>>

VerifyLocally(r) ==
  /\ request[r].pc = "verify" /\ jwks # NoKeys
  /\ Go(r, IF ~Knows(jwks, r) THEN "refetch" ELSE IF Unexpired(r) THEN Verified(r) ELSE "refused")
  /\ UNCHANGED <<now, published, jwks, jwksFetched, ended, live, refetched, presented>>

RefetchAllowed == TRUE

(* jwks(true) downloads at most once per interval; the first download does not count. *)
MayRefetch ==
  jwksFetched = Never \/ now - jwksFetched >= Interval

Refetch(r) ==
  /\ request[r].pc = "refetch"
  /\ IF MayRefetch
       THEN jwks' = published /\ jwksFetched' = now /\ refetched' = now
       ELSE UNCHANGED <<jwks, jwksFetched, refetched, presented>>
  /\ Go(r, IF ~Knows(jwks', r) THEN "unknown_key"
           ELSE IF Unexpired(r) THEN Verified(r) ELSE "refused")
  /\ UNCHANGED <<now, published, ended, live, presented>>

(* A failed download leaves the time of the last one as it is. *)
DownloadFails(r) ==
  /\ \/ request[r].pc = "verify" /\ jwks = NoKeys
     \/ request[r].pc = "refetch" /\ MayRefetch
  /\ Go(r, "refused")
  /\ UNCHANGED <<now, published, jwks, jwksFetched, ended, live, refetched, presented>>
-----------------------------------------------------------------------------
(* Live answers *)

(* cached_live *)
CachedLive(c) == IF live[c].at # Never /\ now - live[c].at < LiveCache THEN live[c].verdict ELSE "none"

(* A route that checks live never rests on a cached positive answer. *)
Reusable(r, verdict) == verdict = "proof" /\ ~request[r].live /\ Unexpired(r)

LookUp(r) ==
  LET verdict == CachedLive(request[r].credential)
  IN /\ request[r].pc = "look_up"
     /\ Go(r, IF verdict = "inactive" THEN "refused"
              ELSE IF Reusable(r, verdict) THEN "accepted" ELSE "ask")
     /\ UNCHANGED <<now, published, jwks, jwksFetched, ended, live, refetched, presented>>

Active(c) == ended[c] = Never /\ now < ExpiresAt[c]

(* introspect, verify_proof_live: Silicon Accounts decides, *)
Ask(r) ==
  /\ request[r].pc = "ask"
  /\ request' = [request EXCEPT ![r].pc = "answered", ![r].asked = now,
                                ![r].active = Active(request[r].credential)]
  /\ UNCHANGED <<now, published, jwks, jwksFetched, ended, live, refetched, presented>>

AskFails(r) ==
  /\ request[r].pc = "ask"
  /\ Go(r, "refused")
  /\ UNCHANGED <<now, published, jwks, jwksFetched, ended, live, refetched, presented>>

(* and remember_live keeps the answer: of a sign-in, only that it ended. *)
Remember(r) ==
  LET c == request[r].credential
  IN /\ request[r].pc = "answered"
     /\ live' = CASE ~request[r].active -> [live EXCEPT ![c] = [at |-> now, verdict |-> "inactive"]]
                  [] c \in Proof /\ request[r].active -> [live EXCEPT ![c] = [at |-> now, verdict |-> "proof"]]
                  [] OTHER -> live
     /\ Go(r, IF request[r].active THEN "accepted" ELSE "refused")
     /\ UNCHANGED <<now, published, jwks, jwksFetched, ended, refetched, presented>>

Finish(r) ==
  /\ request[r].pc \in {"accepted", "unknown_key"}
  /\ request' = [request EXCEPT ![r] = Idle]
  /\ UNCHANGED <<now, published, jwks, jwksFetched, ended, live, refetched, presented>>
-----------------------------------------------------------------------------
(* Silicon Accounts *)

PublishKey(k) ==
  /\ published' = published \cup {k}
  /\ UNCHANGED <<now, jwks, jwksFetched, ended, live, request, refetched, presented>>

Issued(c) == c \in Bearer => KeyOf[c] \in FirstKeys \cup LaterKeys

End(c) ==
  /\ ended[c] = Never /\ Issued(c)
  /\ ended' = [ended EXCEPT ![c] = now]
  /\ UNCHANGED <<now, published, jwks, jwksFetched, live, request, refetched, presented>>

(* A request is not kept waiting beyond the timeout, and otherwise takes no time. *)
Tick ==
  /\ now < MaxTime
  /\ \A r \in Request :
       \/ request[r].pc = "idle"
       \/ request[r].pc = "answered" /\ now - request[r].asked < Timeout
  /\ now' = now + 1
  /\ UNCHANGED <<published, jwks, jwksFetched, ended, live, request, refetched, presented>>

Next ==
  \/ \E r \in Request :
       \/ \E c \in presented, l \in BOOLEAN : Present(r, c, l)
       \/ FirstDownload(r) \/ VerifyLocally(r) \/ Refetch(r) \/ DownloadFails(r)
       \/ LookUp(r) \/ Ask(r) \/ AskFails(r) \/ Remember(r) \/ Finish(r)
  \/ \E k \in LaterKeys : PublishKey(k)
  \/ \E c \in presented : End(c)
  \/ Tick

Spec == Init /\ [][Next]_vars
-----------------------------------------------------------------------------
TypeOK ==
  /\ now \in 0 .. MaxTime
  /\ jwks \subseteq published
  /\ jwksFetched \in Never .. now
  /\ live \in [Credential -> [at : Never .. MaxTime, verdict : {"none", "inactive", "proof"}]]
  /\ \A c \in Bearer : live[c].verdict # "proof"

Accepted(r) == request[r].pc = "accepted"

(* "These routes must see a sign-out at once": a route that checks live accepts no sign-in and no *)
(* proof that had ended before the request came (authenticate_bearer, authenticate_proof).        *)
LiveMeansLive ==
  \A r \in Request :
    Accepted(r) /\ request[r].live =>
      LET e == ended[request[r].credential] IN e = Never \/ e >= request[r].start

(* A proof that ended is accepted for less than the cache's time and one call's timeout, also when *)
(* an answer given before the end is remembered after another request learned of it.               *)
EndedProofsRunOut ==
  \A r \in Request :
    Accepted(r) /\ request[r].credential \in Proof =>
      LET e == ended[request[r].credential]
      IN e = Never \/ request[r].start - e < LiveCache + Timeout

(* A token is refused for its key only if the key was not published, or a token with an unknown   *)
(* key made DM download the set less than the interval ago (jwks).                                *)
NewKeysFound ==
  \A r \in Request :
    request[r].pc = "unknown_key" =>
      \/ ~Knows(published, r)
      \/ refetched # Never /\ now - refetched < Interval

(* Unknown keys make DM download the key set again at most once per interval.                     *)
Spaced == refetched' # refetched /\ refetched # Never => refetched' - refetched >= Interval

VerdictsCurrent == LiveMeansLive /\ EndedProofsRunOut /\ NewKeysFound

(* Cached answers and a cached key set never admit an ended credential for longer than promised *)
(* nor refuse a published key for good, and unknown keys cost one download per interval         *)
(* (infrastructure/accounts.rs).                                                                *)
CredentialsCurrent == []VerdictsCurrent /\ [][Spaced]_vars
=============================================================================
