------------------------------- MODULE Bundles -------------------------------
(***************************************************************************)
(* Message bundles of one conversation: Silicons bundle messages in        *)
(* concurrent transactions, messages are edited meanwhile, and a reader    *)
(* expands a bundle message by message.                                    *)
(***************************************************************************)
EXTENDS Integers, Sequences, FiniteSets, FiniteSetsExt, SequencesExt

CONSTANTS Tx,             \* transactions creating bundles
          Ids,            \* the lists of message ids clients ask to bundle
          Size,           \* serialized sizes a message can have
          Original,       \* number of messages sent before
          MaxMessages,    \* bound: messages of the conversation
          ResponseBudget, \* BUNDLE_RESPONSE_BYTE_BUDGET
          PageBudget      \* MESSAGE_PAGE_BYTE_BUDGET

VARIABLES size,           \* the messages, by id
          bundle,         \* message_bundles and message_bundle_items
          tx,             \* create_bundle: ids asked for, ids left to lock, ids found available
          row,            \* row locks on messages
          reader          \* get_bundle: ids left to load, sizes of the messages kept

vars == <<size, bundle, tx, row, reader>>

Free == "free"
Idle == [ids |-> << >>, todo |-> {}, available |-> {}]
NotReading == [todo |-> << >>, kept |-> << >>]

Init ==
  /\ size \in [1 .. Original -> {Min(Size)}]
  /\ bundle = << >>
  /\ tx = [t \in Tx |-> Idle]
  /\ row = [m \in 1 .. MaxMessages |-> Free]
  /\ reader = NotReading
-----------------------------------------------------------------------------
Items(b) == {b.display} \cup ToSet(b.members)
Bundled == UNION {Items(b) : b \in ToSet(bundle)}

(* BundleCreate::validate *)
Valid(ids) == ids # << >> /\ IsInjective(ids)

(* create_bundle up to the statement of lock_bundle_members_in, whose snapshot decides which *)
(* messages are not bundled yet.                                                             *)
Begin(t, ids) ==
  LET available == (ToSet(ids) \cap DOMAIN size) \ Bundled
  IN /\ tx[t] = Idle /\ Valid(ids)
     /\ tx' = [tx EXCEPT ![t] = [ids |-> ids, todo |-> available, available |-> available]]
     /\ UNCHANGED <<size, bundle, row, reader>>

(* ORDER BY message.id FOR UPDATE *)
NextToLock(t) == Min(tx[t].todo)

LockMember(t) ==
  /\ tx[t].todo # {}
  /\ LET m == NextToLock(t)
     IN /\ row[m] = Free
        /\ row' = [row EXCEPT ![m] = t]
        /\ tx' = [tx EXCEPT ![t].todo = @ \ {m}]
  /\ UNCHANGED <<size, bundle, reader>>

Release(t) == [m \in DOMAIN row |-> IF row[m] = t THEN Free ELSE row[m]]

NotIndexed(members) == TRUE

(* The unique index on message_bundle_items.message_id. *)
Unique(members) == members \cap Bundled = {}

Locked(t) == tx[t] # Idle /\ tx[t].todo = {}
Complete(t) == tx[t].available = ToSet(tx[t].ids)

(* The display message is inserted with the bundle, and the transaction commits. *)
CreateBundle(t, s) ==
  /\ Locked(t) /\ Complete(t) /\ Unique(ToSet(tx[t].ids))
  /\ Len(size) < MaxMessages
  /\ size' = Append(size, s)
  /\ bundle' = Append(bundle, [display |-> Len(size) + 1, members |-> tx[t].ids])
  /\ tx' = [tx EXCEPT ![t] = Idle]
  /\ row' = Release(t)
  /\ UNCHANGED reader

(* A conflict, a message that was not available, or any other failure before the commit. *)
Rollback(t) ==
  /\ tx[t] # Idle
  /\ tx' = [tx EXCEPT ![t] = Idle]
  /\ row' = Release(t)
  /\ UNCHANGED <<size, bundle, reader>>

(* revise_message: under the lock of the message's row. *)
Edit(m, s) ==
  /\ m \in DOMAIN size /\ row[m] = Free
  /\ size' = [size EXCEPT ![m] = s]
  /\ UNCHANGED <<bundle, tx, row, reader>>
-----------------------------------------------------------------------------
Total(sizes) == FoldSeq(+, 0, sizes)
Largest(sizes) == Max(ToSet(sizes))

(* check_expansion_budget *)
WithinBudget(sizes) ==
  ~(Total(sizes) > ResponseBudget /\ Total(sizes) - Largest(sizes) > PageBudget)

(* get_bundle, load_bundle: after preflight_bundle_expansion the display message is loaded. *)
OpenBundle(b) ==
  LET ids == <<b.display>> \o b.members
  IN /\ reader = NotReading
     /\ WithinBudget([i \in DOMAIN ids |-> size[ids[i]]])
     /\ reader' = [todo |-> b.members, kept |-> <<size[b.display]>>]
     /\ UNCHANGED <<size, bundle, tx, row>>

(* Checked again before each message is kept. *)
MayKeep(sizes) == WithinBudget(sizes)

(* The next original is loaded as it is now; one too many is an error. *)
LoadOriginal ==
  LET sizes == Append(reader.kept, size[Head(reader.todo)])
  IN /\ reader.todo # << >>
     /\ reader' = IF MayKeep(sizes) THEN [todo |-> Tail(reader.todo), kept |-> sizes]
                  ELSE NotReading
     /\ UNCHANGED <<size, bundle, tx, row>>

Answer ==
  /\ reader # NotReading /\ reader.todo = << >>
  /\ reader' = NotReading
  /\ UNCHANGED <<size, bundle, tx, row>>

Next ==
  \/ \E t \in Tx :
       \/ \E ids \in Ids : Begin(t, ids)
       \/ LockMember(t) \/ Rollback(t)
       \/ \E s \in Size : CreateBundle(t, s)
  \/ \E m \in DOMAIN size, s \in Size : Edit(m, s)
  \/ \E b \in ToSet(bundle) : OpenBundle(b)
  \/ LoadOriginal \/ Answer

Spec == Init /\ [][Next]_vars
-----------------------------------------------------------------------------
TypeOK ==
  /\ size \in Seq(Size) /\ Len(size) <= MaxMessages
  /\ bundle \in Seq([display : DOMAIN size, members : Ids])
  /\ \A t \in Tx : tx[t].todo \subseteq tx[t].available
  /\ row \in [1 .. MaxMessages -> Tx \cup {Free}]

(* A message belongs to at most one bundle, as its display or as a member, although the check *)
(* in lock_bundle_members_in reads a snapshot older than the locks it then waits for.         *)
OneBundlePerMessage ==
  \A i, j \in DOMAIN bundle : i # j => Items(bundle[i]) \cap Items(bundle[j]) = {}

WaitsFor(t, u) == tx[t].todo # {} /\ row[NextToLock(t)] = u

(* Creations that bundle the same messages in different orders never wait for each other in a *)
(* circle (the ORDER BY of lock_bundle_members_in).                                           *)
NoBundleDeadlock == \A t, u \in Tx : ~(t # u /\ WaitsFor(t, u) /\ WaitsFor(u, t))

(* What an expansion keeps in memory stays within the response budget, or within the page     *)
(* budget but for one message, however messages are edited between preflight and load.        *)
ExpansionBounded ==
  reader.kept # << >> =>
    \/ Total(reader.kept) <= ResponseBudget
    \/ \E i \in DOMAIN reader.kept : Total(reader.kept) - reader.kept[i] <= PageBudget

(* Overlapping creations never put a message into two bundles nor wait for each other in a      *)
(* circle, and an expansion keeps its budget while messages are edited (bundles.rs).            *)
BundleSafe == OneBundlePerMessage /\ NoBundleDeadlock /\ ExpansionBounded
=============================================================================
