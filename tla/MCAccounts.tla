----------------------------- MODULE MCAccounts -----------------------------
(***************************************************************************)
(* Identity, checked on small instances of its modules: the account cache, *)
(* the verification of credentials, the upgrade of old identities,         *)
(* presence, and the sign-in a profile of the command line keeps; with the *)
(* bug reports and trending GIFs any account asks for.                     *)
(*                                                                         *)
(* The modules share no state, so one run checks them side by side: `part` *)
(* says which of them a behaviour is about, and v1, v2... are that         *)
(* module's variables.                                                     *)
(***************************************************************************)
EXTENDS Naturals, Sequences, FiniteSets, TLC

CONSTANTS c1, c2, s1, Nobody, id1, id2, id3, id4, p1, p2, p3, p4, q1, q2, proof, bearer, stray, k0,
          k1, kx, r1, r2, w1, w2, d1, d2, x1, x2

VARIABLES part, v1, v2, v3, v4, v5, v6, v7, v8, v9, v10, v11, v12, v13, v14

MCvars == <<part, v1, v2, v3, v4, v5, v6, v7, v8, v9, v10, v11, v12, v13, v14>>
-----------------------------------------------------------------------------
Carbon == {c1, c2}
OneSilicon == {s1}
Ids == {id1, id2, id3}
Times(n, what, u) == <<what, u>> :> n
Happenings == {"id_changed", "updated", "custodian_changed", "signed_out", "app_revoked", "deleted",
               "signed_in", "looked_up"}
Plan(p) == [x \in Happenings \X {c1, c2, s1} |-> IF x \in DOMAIN p THEN p[x] ELSE 0]
Plans == {
  Plan(Times(2, "id_changed", c1) @@ Times(1, "id_changed", c2) @@ Times(1, "signed_in", c1)
       @@ Times(1, "looked_up", c1)),
  Plan(Times(1, "id_changed", c2) @@ Times(1, "updated", c1) @@ Times(1, "deleted", c1)
       @@ Times(1, "signed_in", c1) @@ Times(1, "looked_up", c1) @@ Times(1, "looked_up", c2)),
  Plan(Times(2, "custodian_changed", s1) @@ Times(1, "updated", s1) @@ Times(1, "signed_in", s1)
       @@ Times(1, "looked_up", s1)),
  Plan(Times(2, "updated", c1) @@ Times(1, "deleted", c1) @@ Times(2, "signed_in", c1)
       @@ Times(2, "looked_up", c1)),
  Plan(Times(2, "signed_out", c1) @@ Times(1, "signed_in", c1) @@ Times(1, "looked_up", c1)),
  Plan(Times(1, "signed_out", c1) @@ Times(1, "app_revoked", c1) @@ Times(2, "signed_in", c1)
       @@ Times(1, "looked_up", c1))}
FirstIds == c1 :> id1 @@ c2 :> id2 @@ s1 :> id4
FirstCustodians == s1 :> c1

Numbers == {1, 2}
BothDevices == {d1, d2}
Devices == 1 :> {d1, d2} @@ 2 :> {d1}

Requests == {r1, r2}
Bearers == {bearer, stray}
Proofs == {proof}
OldKeys == {k0}
NewKeys == {k1}
SignedWith == bearer :> k1 @@ stray :> kx
Presented == {{bearer, stray}, {proof}}
Expiry == bearer :> 3 @@ stray :> 3 @@ proof :> 4

Publics == {p1, p2, p3, p4}
Projections == q1 :> {p1} @@ q2 :> {p1, p2}
Kinds == [k \in Publics \cup Carbon |-> IF k = p4 THEN "silicon" ELSE "carbon"]
OldConversations == <<{p1, p2}, {p1, c2}, {p3, c2}>>
OldEvents == {[org |-> "legacy", to |-> p, seq |-> IF p = p1 THEN 2 ELSE 1] : p \in {p1, p2, p3}}
MappingRow(k, u) == [key |-> k, uuid |-> u]
(* No file names an identity both by its public id and by its principal. *)
Files ==
  {<<MappingRow(k, u)>> : k \in Publics \cup {q1, q2}, u \in Carbon}
    \cup {<<MappingRow(p1, c1), MappingRow(p2, c2)>>, <<MappingRow(p1, c2), MappingRow(p2, c1)>>,
          <<MappingRow(p1, c1), MappingRow(p2, c1)>>}

Submissions == {"s1", "s2", "s3"}
ReportKeys == {"k1", "k2"}
Contents == {"a", "b"}
BothWorkers == {w1, w2}
Ask(k, content) == [key |-> k, content |-> content]
(* Two requests with one key, of the same or of other content, and one with another key. *)
ReportAsks == {("s1" :> Ask("k1", "a")) @@ ("s2" :> Ask("k1", content)) @@ ("s3" :> Ask("k2", "a"))
                 : content \in Contents}
Callers == {"c1", "c2"}

Processes == {x1, x2}
(* Two tasks and dm login, two tasks and dm logout, or one task and both. *)
ThreeActors == {{x1, x2, "login"}, {x1, x2, "logout"}, {x1, "login", "logout"}}
-----------------------------------------------------------------------------
C == INSTANCE AccountCache WITH
  Silicon <- OneSilicon, Id <- Ids, FirstId <- FirstIds, FirstCustodian <- FirstCustodians,
  Budgets <- Plans, MaxTime <- 3,
  account <- v1, token <- v2, ended <- v3, event <- v4, time <- v5, budget <- v6, row <- v7,
  receipt <- v8, applied <- v9, late <- v10, job <- v11, decision <- v12, missed <- v13,
  overtaken <- v14

A == INSTANCE Authentication WITH
  Request <- Requests, Bearer <- Bearers, Proof <- Proofs, KeyOf <- SignedWith,
  FirstKeys <- OldKeys, LaterKeys <- NewKeys, ExpiresAt <- Expiry, LiveCache <- 1, Interval <- 2,
  Mixes <- Presented, Timeout <- 1, MaxTime <- 4,
  now <- v1, published <- v2, jwks <- v3, jwksFetched <- v4, ended <- v5, live <- v6,
  request <- v7, refetched <- v8, presented <- v9

K == INSTANCE LinkIdentities WITH
  Public <- Publics, Uuid <- Carbon, ProjectedIds <- Projections, Kind <- Kinds, Mapping <- Files,
  Legacy <- OldConversations, LegacyEvents <- OldEvents, MaxConv <- 4, MaxSequence <- 2,
  link <- v1, signedIn <- v2, conv <- v3, delivery <- v4, stream <- v5

P == INSTANCE Presence WITH
  Account <- Numbers, Device <- BothDevices, DevicesOf <- Devices, Worker <- BothWorkers,
  Lease <- 1, MaxTime <- 3,
  now <- v1, lease <- v2, lastSeen <- v3, worker <- v4, until <- v5

R == INSTANCE Reports WITH
  Submission <- Submissions, Key <- ReportKeys, Content <- Contents, Asks <- ReportAsks,
  Worker <- BothWorkers, PerHour <- 1, Hour <- 2, MaxTime <- 3, MaxLosses <- 1,
  now <- v1, request <- v2, lock <- v3, report <- v4, worker <- v5, mailed <- v6, lost <- v7

T == INSTANCE Trending WITH
  Caller <- Callers, Ttl <- 2, MaxTime <- 5, MaxAsks <- 2,
  now <- v1, call <- v2, mutex <- v3, cache <- v4, last <- v5

S == INSTANCE SignIn WITH
  Process <- Processes, Casts <- ThreeActors, MaxSignIns <- 2, MaxGen <- 2, MaxFaults <- 1,
  issuer <- v1, stored <- v2, lock <- v3, proc <- v4, login <- v5, logout <- v6, cast <- v7,
  faults <- v8, lost <- v9, reused <- v10, stale <- v11, revoked <- v12

-----------------------------------------------------------------------------
MCInit ==
  \/ /\ part = "cache" /\ C!Init
  \/ /\ part = "authentication" /\ A!Init
     /\ v10 = 0 /\ v11 = 0 /\ v12 = 0 /\ v13 = 0 /\ v14 = 0
  \/ /\ part = "link" /\ K!Init
     /\ v6 = 0 /\ v7 = 0 /\ v8 = 0 /\ v9 = 0 /\ v10 = 0 /\ v11 = 0 /\ v12 = 0 /\ v13 = 0
     /\ v14 = 0
  \/ /\ part = "presence" /\ P!Init
     /\ v6 = 0 /\ v7 = 0 /\ v8 = 0 /\ v9 = 0 /\ v10 = 0 /\ v11 = 0 /\ v12 = 0 /\ v13 = 0
     /\ v14 = 0
  \/ /\ part = "report" /\ R!Init
     /\ v8 = 0 /\ v9 = 0 /\ v10 = 0 /\ v11 = 0 /\ v12 = 0 /\ v13 = 0 /\ v14 = 0
  \/ /\ part = "trending" /\ T!Init
     /\ v6 = 0 /\ v7 = 0 /\ v8 = 0 /\ v9 = 0 /\ v10 = 0 /\ v11 = 0 /\ v12 = 0 /\ v13 = 0
     /\ v14 = 0
  \/ /\ part = "session" /\ S!Init
     /\ v13 = 0 /\ v14 = 0

MCNext ==
  /\ part' = part
  /\ \/ part = "cache" /\ C!Next
     \/ part = "authentication" /\ A!Next /\ UNCHANGED <<v10, v11, v12, v13, v14>>
     \/ part = "link" /\ K!Next /\ UNCHANGED <<v6, v7, v8, v9, v10, v11, v12, v13, v14>>
     \/ part = "presence" /\ P!Next /\ UNCHANGED <<v6, v7, v8, v9, v10, v11, v12, v13, v14>>
     \/ part = "report" /\ R!Next /\ UNCHANGED <<v8, v9, v10, v11, v12, v13, v14>>
     \/ part = "trending" /\ T!Next /\ UNCHANGED <<v6, v7, v8, v9, v10, v11, v12, v13, v14>>
     \/ part = "session" /\ S!Next /\ UNCHANGED <<v13, v14>>

MCSpec == MCInit /\ [][MCNext]_MCvars

Swaps == Permutations(Requests) \cup Permutations(Processes)
-----------------------------------------------------------------------------
(* The state of each module keeps its types; in particular, queues and counters keep their limits. *)
TypesOK ==
  /\ part = "cache" => C!TypeOK
  /\ part = "authentication" => A!TypeOK
  /\ part = "link" => K!TypeOK
  /\ part = "presence" => P!TypeOK
  /\ part = "report" => R!TypeOK
  /\ part = "trending" => T!TypeOK
  /\ part = "session" => S!TypeOK


(* Cached answers and a cached key set never admit an ended credential for longer than promised *)
(* nor refuse a published key for good, and unknown keys cost one download per interval         *)
(* (infrastructure/accounts.rs).                                                                *)
CredentialsCurrent ==
  [](part = "authentication" => A!VerdictsCurrent) /\ [][part = "authentication" => A!Spaced]_MCvars

(* However often the upgrade is run, with whatever mapping, an identity keeps its own           *)
(* conversations, no two identities merge, superseded conversations lead to the live one and    *)
(* streams stay ahead of what was delivered (link_identities).                                  *)
UpgradeSound == part = "link" => K!UpgradeSound


(* Racing submissions and mailing workers keep the hourly limit, store what was accepted and    *)
(* mail nothing twice without a lost outcome (submit, deliver_one).                             *)
ReportsSound == part = "report" => R!ReportsSound

(* Whoever waits for the mutex gets an answer that is fresh for the time it asked, and no fetch *)
(* repeats one that was ended since (trending).                                                 *)
TrendingSound == part = "trending" => T!TrendingSound

(* Commands and the relay that share a profile never spend its refresh token twice, never       *)
(* rotate a token that was not stale, never leave a revoked sign-in alive and never lose a      *)
(* newer sign-in to an older one (store.rs, auth.rs).                                           *)
SignInSafe ==
  [](part = "session" => S!SignInConsistent) /\ [][part = "session" => S!LeavesRightly]_MCvars
=============================================================================
