------------------------------- MODULE Paging -------------------------------
(***************************************************************************)
(* A client that reads a list page by page while it changes: the history   *)
(* of a conversation (list_messages), newest message first, or the list of *)
(* conversations (list_conversations), latest activity first.              *)
(***************************************************************************)
EXTENDS Integers, Sequences, SequencesExt, FiniteSetsExt

CONSTANTS Conversation,  \* numbers: conversation ids, which break ties
          Limit,         \* page length
          PageBudget,    \* MESSAGE_PAGE_BYTE_BUDGET
          Sizes,         \* sizes a message can have when it is loaded
          First,         \* messages sent before
          MaxMessages,   \* bound: messages
          MaxTime        \* bound: the clock

VARIABLES sent,      \* messages of the conversation
          members,   \* messages that are members of a bundle
          updated,   \* conversations.updated_at, 0 before the conversation exists
          pending,   \* updated_at of uncommitted transactions, 0 for none
          clock,
          kind, all, \* the list that is read, and whether with the members of bundles
          reader,    \* the request in progress: cursor, rows fetched, rows kept, their bytes
          seen,      \* items the client received
          begun      \* sent and updated when it began (ghost)

vars == <<sent, members, updated, pending, clock, kind, all, reader, seen, begun>>

Beginning == <<0, 0>>
NextPage(cursor) == [pc |-> "request", cursor |-> cursor, ids |-> << >>, kept |-> 0, bytes |-> 0]

Init ==
  /\ sent = First /\ members = {}
  /\ updated \in [Conversation -> 0 .. 1] /\ pending = [c \in Conversation |-> 0]
  /\ clock = 1
  /\ kind \in {"messages", "conversations"} /\ all \in BOOLEAN
  /\ reader = NextPage(Beginning) /\ seen = << >>
  /\ begun = [sent |-> sent, updated |-> updated]
-----------------------------------------------------------------------------
(* What happens meanwhile *)

Send ==
  /\ kind = "messages" /\ sent < MaxMessages
  /\ sent' = sent + 1
  /\ UNCHANGED <<members, updated, pending, clock, kind, all, reader, seen, begun>>

Bundle(n) ==
  /\ kind = "messages" /\ n \in (1 .. sent) \ members
  /\ members' = members \cup {n}
  /\ UNCHANGED <<sent, updated, pending, clock, kind, all, reader, seen, begun>>

(* A transaction stamps its conversation; others see it once it commits (set_updated_at). *)
Stamp(c) ==
  /\ kind = "conversations" /\ clock < MaxTime /\ pending[c] = 0
  /\ clock' = clock + 1
  /\ pending' = [pending EXCEPT ![c] = Max({updated[c], clock'})]
  /\ UNCHANGED <<sent, members, updated, kind, all, reader, seen, begun>>

Commit(c) ==
  /\ pending[c] # 0
  /\ updated' = [updated EXCEPT ![c] = pending[c]]
  /\ pending' = [pending EXCEPT ![c] = 0]
  /\ UNCHANGED <<sent, members, clock, kind, all, reader, seen, begun>>
-----------------------------------------------------------------------------
(* The request *)

(* The row comparison of the cursor. *)
Below(p, q) == p[1] < q[1] \/ (p[1] = q[1] /\ p[2] < q[2])

(* The positions of the list: of the messages shown, or of the conversations there are. *)
Positions ==
  IF kind = "messages" THEN {<<n, 0>> : n \in (1 .. sent) \ (IF all THEN {} ELSE members)}
  ELSE {<<updated[c], c>> : c \in {d \in Conversation : updated[d] # 0}}

(* One row more than a page, past the cursor. *)
Fetched(cursor) ==
  LET past == {p \in Positions : cursor = Beginning \/ Below(p, cursor)}
      rows == SetToSortSeq(past, LAMBDA p, q : Below(q, p))
  IN SubSeq(rows, 1, Min({Limit + 1, Len(rows)}))

Fetch ==
  /\ reader.pc = "request"
  /\ reader' = [reader EXCEPT !.pc = "load", !.ids = Fetched(reader.cursor)]
  /\ UNCHANGED <<sent, members, updated, pending, clock, kind, all, seen, begun>>

(* The item a position shows: cursors are made of what was fetched. *)
Item(p) == IF kind = "messages" THEN p[1] ELSE p[2]

CursorOfLookahead == Last(reader.ids)

(* next_cursor *)
NextCursor == reader.ids[reader.kept]

(* has_next: rows fetched and not kept. *)
Answer ==
  /\ reader' = IF reader.kept < Len(reader.ids) THEN NextPage(NextCursor)
               ELSE [NextPage(reader.cursor) EXCEPT !.pc = "done"]
  /\ seen' = seen \o [i \in 1 .. reader.kept |-> Item(reader.ids[i])]

Full == reader.bytes >= PageBudget \/ reader.kept = Min({Limit, Len(reader.ids)})

(* The first item is taken whatever its size. *)
Fits(size) == reader.kept = 0 \/ reader.bytes + size <= PageBudget

(* load_message of the next id: its size is whatever the message was edited to by then; a    *)
(* conversation without messages has none.                                                    *)
Load(size) ==
  /\ reader.pc = "load" /\ ~Full
  /\ IF Fits(size)
       THEN reader' = [reader EXCEPT !.kept = @ + 1, !.bytes = @ + size] /\ UNCHANGED seen
       ELSE Answer
  /\ UNCHANGED <<sent, members, updated, pending, clock, kind, all, begun>>

EndPage ==
  /\ reader.pc = "load" /\ Full
  /\ Answer
  /\ UNCHANGED <<sent, members, updated, pending, clock, kind, all, begun>>

Next ==
  \/ Send \/ \E n \in 1 .. MaxMessages : Bundle(n)
  \/ \E c \in Conversation : Stamp(c) \/ Commit(c)
  \/ Fetch \/ \E size \in Sizes : Load(size)
  \/ EndPage

Spec == Init /\ [][Next]_vars
-----------------------------------------------------------------------------
TypeOK ==
  /\ sent \in First .. MaxMessages /\ members \subseteq 1 .. sent
  /\ clock \in 1 .. MaxTime
  /\ updated \in [Conversation -> 0 .. clock] /\ pending \in [Conversation -> 0 .. clock]
  /\ reader.pc \in {"request", "load", "done"} /\ Len(reader.ids) <= Limit + 1
  /\ reader.kept \in 0 .. Limit

(* A client that followed the cursors to the end received everything there was when it began,    *)
(* wherever byte budgets cut the pages: but for messages bundled since, and conversations with   *)
(* activity since, which a new first page shows (list_messages, conversation_page).              *)
PagesComplete ==
  reader.pc = "done" =>
    IF kind = "messages"
      THEN \A n \in 1 .. begun.sent : n \in ToSet(seen) \/ (n \in members /\ ~all)
      ELSE \A c \in Conversation :
             begun.updated[c] = 0 \/ c \in ToSet(seen) \/ updated[c] # begun.updated[c]

(* No message or conversation is on two pages, although conversations move while pages are read. *)
PagesDisjoint == IsInjective(seen)

(* A page keeps within the byte budget, unless it has one item only.                             *)
PagesBounded == reader.bytes <= PageBudget \/ reader.kept = 1

(* The pages a client follows while messages and conversations move are complete, disjoint and  *)
(* within their budget (pagination.rs, list_messages, conversation_page).                       *)
PagesRight == PagesComplete /\ PagesDisjoint /\ PagesBounded
=============================================================================
