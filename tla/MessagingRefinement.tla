------------------------ MODULE MessagingRefinement ------------------------
(***************************************************************************)
(* Messaging implements MessageFeed: what clients see of the committed     *)
(* tables are the append-only logs and feeds, each commit is one abstract  *)
(* step and everything else stutters.                                      *)
(***************************************************************************)
EXTENDS Messaging

Log == [c \in Conversation |-> [n \in 1..(nextSeq[c] - 1) |->
          [sender |-> message[<<c, n>>].sender, key |-> message[<<c, n>>].key]]]

Tomb == {m \in MsgId : message[m] # NoMessage /\ message[m].deleted}

Nth(a, n) == CHOOSE e \in stream[a] : e.seq = n

Feeds == [a \in Account |-> [n \in 1..(next[a] - 1) |->
            [msg |-> Nth(a, n).msg, kind |-> Nth(a, n).kind, rev |-> Nth(a, n).rev]]]

Feed == INSTANCE MessageFeed WITH log <- Log, tomb <- Tomb, feed <- Feeds

(* Sending, revising and acknowledging behave like atomic appends: whatever transactions  *)
(* overlap, are retried or roll back, each commit adds one message or one event, with all  *)
(* its deliveries, at the end of the feeds (send_message, revise_message, record_receipt). *)
FeedSpec == Feed!Spec
=============================================================================
