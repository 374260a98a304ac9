-------------------------- MODULE MCConversations ---------------------------
(***************************************************************************)
(* Conversations and what happens in them, checked on small instances of   *)
(* their modules: first contact, groups, bundles, pages, the handoff of    *)
(* updates to Ting with the connection it uses, and the relay the command  *)
(* line sends through, its queue and its process.                          *)
(*                                                                         *)
(* The modules share no state, so one run checks them side by side: `part` *)
(* says which of them a behaviour is about, and v1, v2... are that         *)
(* module's variables.                                                     *)
(***************************************************************************)
EXTENDS Naturals, Sequences, FiniteSets, TLC

CONSTANTS c1, c2, s1, s2, Nobody, r1, r2, t1, t2, w1, w2, w3, h1, h2, alice, bot, NoWorker, k1, k2,
          m1, m2, g1, p1, a1, e1, e2, older, newer, other

VARIABLES part, v1, v2, v3, v4, v5, v6, v7, v8, v9, v10, v11, v12, v13

MCvars == <<part, v1, v2, v3, v4, v5, v6, v7, v8, v9, v10, v11, v12, v13>>
-----------------------------------------------------------------------------
Carbon == {c1, c2}
Requests == {r1, r2}
TwoSilicons == {s1, s2}
NoCustodians == [s \in TwoSilicons |-> Nobody]
Named == {{c1, s1}, {c1, s1, s2}}

OneSilicon == {s1}
LookedAfter == s1 :> c1
Guests == {c2, s1}

Transactions == {t1, t2}
BundledIds == {<<1, 2>>, <<2, 1>>, <<2, 3>>, <<3, 4>>, <<1, 1>>, << >>}
MessageSizes == {1, 4}

Listed == {1, 2, 3}
LoadedSizes == {0, 1, 3, 4}

Handoffs == {h1, h2}
Recipients == {alice, bot}
Targets == h1 :> alice @@ h2 :> bot
NotSendable == {h2}
Senders == {w1, w2}
AllWorkers == {w1, w2, w3}

Callers == {"x", "y"}
Keys == {k1, k2}

(* Two messages to one conversation, the first a large one; a change that waits for all that was *)
(* queued before it; an activity; a draft.                                                       *)
Queueable == {m1, m2, g1, a1, p1}
Ops == [r \in Queueable |->
    [kind |-> IF r = g1 THEN "create_group" ELSE IF r = a1 THEN "set_presence"
              ELSE IF r = p1 THEN "put_draft" ELSE "send_message",
     conversation |-> "c1",
     size |-> IF r = m1 THEN 2 ELSE 1]]
Signers == {"ada", "bot"}
QueuedByOldRelease == <<m1>>
(* Pairs through a crash; one request through a crash and a change of sign-in, or two changes. *)
QueueLimits == {[requests |-> {m1, m2}, crashes |-> 1, signIns |-> 0],
                [requests |-> {m1, a1}, crashes |-> 1, signIns |-> 0],
                [requests |-> {m1, g1}, crashes |-> 1, signIns |-> 0],
                [requests |-> {p1}, crashes |-> 1, signIns |-> 0],
                [requests |-> {m2}, crashes |-> 1, signIns |-> 1],
                [requests |-> {m2}, crashes |-> 0, signIns |-> 2]}

Homes == {e1, e2}
Commands == {older, newer, other}
HomeOfCommand == [c \in Commands |-> IF c = other THEN e2 ELSE e1]
VersionOfCommand == [c \in Commands |-> IF c = older THEN 1 ELSE 2]
HeldHomes == {e2}
-----------------------------------------------------------------------------
F == INSTANCE FirstContact WITH
  Silicon <- TwoSilicons, FirstCustodian <- NoCustodians, Request <- Requests, Limit <- 1,
  MaxChanges <- 2, MaxHours <- 1, Sets <- Named,
  custodian <- v1, allowed <- v2, deleted <- v3, conversation <- v4, claim <- v5, request <- v6,
  reachable <- v7, overlapped <- v8, changes <- v9, hours <- v10

G == INSTANCE Groups WITH
  Silicon <- OneSilicon, Custodian <- LookedAfter, Creator <- c1, Invited <- Guests,
  MaxVersion <- 3, MaxPending <- 1, MaxRetried <- 1, MaxDeleted <- 1,
  deleted <- v1, invitation <- v2, standing <- v3, owners <- v4, roster <- v5, version <- v6,
  retried <- v7, pending <- v8, tx <- v9, erasing <- v10, crossed <- v11, orphaned <- v12

B == INSTANCE Bundles WITH
  Tx <- Transactions, Ids <- BundledIds, Size <- MessageSizes, Original <- 3, MaxMessages <- 5,
  ResponseBudget <- 5, PageBudget <- 3,
  size <- v1, bundle <- v2, tx <- v3, row <- v4, reader <- v5

P == INSTANCE Paging WITH
  Conversation <- Listed, Limit <- 2, PageBudget <- 3, Sizes <- LoadedSizes, First <- 3,
  MaxMessages <- 4, MaxTime <- 4,
  sent <- v1, members <- v2, updated <- v3, pending <- v4, clock <- v5, kind <- v6, all <- v7,
  reader <- v8, seen <- v9, begun <- v10

H == INSTANCE TingHandoff WITH
  Handoff <- Handoffs, Account <- Recipients, TargetOf <- Targets, Legacy <- NotSendable,
  Worker <- AllWorkers, Publisher <- Senders, MaxAttempts <- 1, MaxRenames <- 1, MaxCrashes <- 1,
  row <- v1, worker <- v2, present <- v3, deleted <- v4, publicId <- v5, ting <- v6, sent <- v7,
  crashes <- v8, failed <- v9

S == INSTANCE TingSocket WITH
  Caller <- Callers, Key <- Keys, MaxAttempts <- 2, MaxProofs <- 2, MaxStrays <- 1,
  caller <- v1, proof <- v2, expired <- v3, channel <- v4, driver <- v5, sent <- v6,
  received <- v7, abandoned <- v8, attempts <- v9, issued <- v10, strays <- v11, answers <- v12

Q == INSTANCE Relay WITH
  Request <- Queueable, Op <- Ops, Account <- Signers, Owner <- "ada",
  OldRequests <- QueuedByOldRelease, Workers <- 2, Budget <- 2, MaxAttempts <- 1,
  Limits <- QueueLimits,
  outbox <- v1, up <- v2, life <- v3, task <- v4, profile <- v5, signIn <- v6, signIns <- v7,
  limit <- v8, cli <- v9, late <- v10, applied <- v11, keys <- v12, sentAs <- v13

R == INSTANCE RelayHost WITH
  Home <- Homes, Command <- Commands, HomeOf <- HomeOfCommand, Version <- VersionOfCommand,
  MaxRelays <- 2, MaxCrashes <- 1, LegacyHomes <- HeldHomes,
  hostLock <- v1, record <- v2, registry <- v3, homeLock <- v4, relay <- v5, command <- v6,
  crashes <- v7

-----------------------------------------------------------------------------
MCInit ==
  \/ /\ part = "contact" /\ F!Init
     /\ v11 = 0 /\ v12 = 0 /\ v13 = 0
  \/ /\ part = "group" /\ G!Init
     /\ v13 = 0
  \/ /\ part = "bundle" /\ B!Init
     /\ v6 = 0 /\ v7 = 0 /\ v8 = 0 /\ v9 = 0 /\ v10 = 0 /\ v11 = 0 /\ v12 = 0 /\ v13 = 0
  \/ /\ part = "page" /\ P!Init
     /\ v11 = 0 /\ v12 = 0 /\ v13 = 0
  \/ /\ part = "handoff" /\ H!Init
     /\ v10 = 0 /\ v11 = 0 /\ v12 = 0 /\ v13 = 0
  \/ /\ part = "socket" /\ S!Init
     /\ v13 = 0
  \/ /\ part = "queue" /\ Q!Init
  \/ /\ part = "host" /\ R!Init
     /\ v8 = 0 /\ v9 = 0 /\ v10 = 0 /\ v11 = 0 /\ v12 = 0 /\ v13 = 0

MCNext ==
  /\ part' = part
  /\ \/ part = "contact" /\ F!Next /\ UNCHANGED <<v11, v12, v13>>
     \/ part = "group" /\ G!Next /\ UNCHANGED v13
     \/ part = "bundle" /\ B!Next /\ UNCHANGED <<v6, v7, v8, v9, v10, v11, v12, v13>>
     \/ part = "page" /\ P!Next /\ UNCHANGED <<v11, v12, v13>>
     \/ part = "handoff" /\ H!Next /\ UNCHANGED <<v10, v11, v12, v13>>
     \/ part = "socket" /\ S!Next /\ UNCHANGED v13
     \/ part = "queue" /\ Q!Next
     \/ part = "host" /\ R!Next /\ UNCHANGED <<v8, v9, v10, v11, v12, v13>>

MCSpec == MCInit /\ [][MCNext]_MCvars

Swaps == Permutations(Requests)
-----------------------------------------------------------------------------
(* The state of each module keeps its types; in particular, queues and counters keep their limits. *)
TypesOK ==
  /\ part = "contact" => F!TypeOK
  /\ part = "group" => G!TypeOK
  /\ part = "bundle" => B!TypeOK
  /\ part = "page" => P!TypeOK
  /\ part = "handoff" => H!TypeOK
  /\ part = "socket" => S!TypeOK
  /\ part = "queue" => Q!TypeOK
  /\ part = "host" => R!TypeOK

(* Concurrent first contacts leave one conversation per set of accounts, each started within    *)
(* reach and within the budget and answered to those who asked for it (conversations.rs,        *)
(* idempotency.rs).                                                                             *)
ContactSafe == part = "contact" => F!ContactSafe


(* Overlapping creations never put a message into two bundles nor wait for each other in a      *)
(* circle, and an expansion keeps its budget while messages are edited (bundles.rs).            *)
BundleSafe == part = "bundle" => B!BundleSafe

(* The pages a client follows while messages and conversations move are complete, disjoint and  *)
(* within their budget (pagination.rs, list_messages, conversation_page).                       *)
PagesRight == part = "page" => P!PagesRight

(* Timeouts, cancelled requests and late answers on the shared connection never give a caller   *)
(* the outcome of another attempt (ting_publisher.rs).                                          *)
SocketSafe == part = "socket" => S!SocketSafe


(* Relays that start, replace, stop and crash concurrently never send one queue twice at a      *)
(* time, hide the relay that serves, or leave a started command without one (host.rs,           *)
(* daemon.rs).                                                                                  *)
HostSafe == part = "host" => R!HostSafe
=============================================================================
