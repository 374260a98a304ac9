----------------------------- MODULE MessageFeed -----------------------------
(***************************************************************************)
(* What message acceptance promises its clients, without transactions,     *)
(* locks or retries: conversations are append-only logs, every account has *)
(* an append-only feed, and each accepted change is one atomic step that   *)
(* appends the same event to the feeds of a set of accounts.               *)
(***************************************************************************)
EXTENDS Integers, Sequences

CONSTANTS Account, Conversation, Key

VARIABLES
    log,    \* log[c]: the accepted messages of conversation c, [sender, key]
    tomb,   \* the tombstoned messages, as <<c, n>>
    feed    \* feed[a]: the events account a is told, [msg, kind, rev]

vars == <<log, tomb, feed>>

Accepted  == UNION {{<<c, n>> : n \in 1..Len(log[c])} : c \in Conversation}
Entry(m)  == log[m[1]][m[2]]
Told(a)   == {feed[a][i] : i \in 1..Len(feed[a])}

Later     == {1} \cup {e.rev + 1 : e \in UNION {Told(a) : a \in Account}}

Init ==
    /\ log = [c \in Conversation |-> <<>>]
    /\ tomb = {}
    /\ feed = [a \in Account |-> <<>>]

(* Every account of `to' is told e; nobody is told the same event twice. *)
Tell(to, e) ==
    /\ \A a \in to : e \notin Told(a)
    /\ feed' = [a \in Account |-> IF a \in to THEN Append(feed[a], e) ELSE feed[a]]

(* A message enters its conversation once per (sender, key), with its first fan-out. *)
Accept(c, s, k, to) ==
    /\ \A m \in Accepted : ~(Entry(m).sender = s /\ Entry(m).key = k)
    /\ log' = [log EXCEPT ![c] = Append(@, [sender |-> s, key |-> k])]
    /\ Tell(to, [msg |-> <<c, Len(log[c]) + 1>>, kind |-> "message", rev |-> 1])
    /\ UNCHANGED tomb

(* An edit or a tombstone of a message that is not deleted: the next revision. *)
Revise(m, rev, to) ==
    /\ m \notin tomb
    /\ \A a \in Account : \A e \in Told(a) : e.msg = m => e.rev < rev
    /\ tomb' \in {tomb, tomb \cup {m}}
    /\ Tell(to, [msg |-> m, kind |-> "message", rev |-> rev])
    /\ UNCHANGED log

(* The sender learns that everyone has the message, or has read it; never the former *)
(* after the latter.                                                                 *)
Announce(m, status) ==
    /\ \A e \in Told(Entry(m).sender) : ~(e.msg = m /\ e.kind = "read")
    /\ Tell({Entry(m).sender}, [msg |-> m, kind |-> status, rev |-> 0])
    /\ UNCHANGED <<log, tomb>>

Next ==
    \/ \E c \in Conversation, s \in Account, k \in Key, to \in SUBSET Account :
         Accept(c, s, k, to)
    \/ \E m \in Accepted :
         \/ \E rev \in Later, to \in SUBSET Account : Revise(m, rev, to)
         \/ \E status \in {"delivered", "read"} : Announce(m, status)

Spec == Init /\ [][Next]_vars
=============================================================================
