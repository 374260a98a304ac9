--------------------------- MODULE LinkIdentities ---------------------------
(***************************************************************************)
(* Re-keying IAM-era identities to Silicon Accounts uuids                  *)
(* (dm-migrate link-identities), run after run, while accounts sign in,    *)
(* start conversations and receive deliveries in between.                  *)
(***************************************************************************)
EXTENDS Integers, Sequences, FiniteSets, FiniteSetsExt, SequencesExt

CONSTANTS Public,       \* IAM public ids
          ProjectedIds, \* iam_membership_projections: the public ids of a principal UUID
          Uuid,         \* Silicon Accounts uuids
          Kind,         \* carbon or silicon, of public ids and uuids
          Mapping,      \* mapping files: sequences of [key, uuid]
          Legacy,       \* participants of the conversations from before the upgrade
          LegacyEvents, \* deliveries from before the upgrade that are still retained
          MaxConv,      \* bound: conversations
          MaxSequence   \* bound: sequences of a stream

VARIABLES link,         \* identity_links
          signedIn,     \* accounts that have last_authenticated_at
          conv,         \* direct conversations: participants, partition, superseded_by, and
                        \* the identities that take part (ghost)
          delivery,     \* actor_deliveries: partition, target, sequence
          stream        \* actor_delivery_streams of the @accounts partition

vars == <<link, signedIn, conv, delivery, stream>>

Key == Public \cup Uuid
None == "none"
Accounts == "@accounts"
NoStream == [next |-> 0, floor |-> 0]
Live == {c \in DOMAIN conv : conv[c].by = 0}

(* Legacy conversations and deliveries live in the partition of an organization. *)
Init ==
  /\ link = [p \in Public |-> None]
  /\ signedIn = {}
  /\ conv = [c \in DOMAIN Legacy |->
       [who |-> Legacy[c], org |-> "legacy", by |-> 0, as |-> Legacy[c]]]
  /\ delivery = LegacyEvents
  /\ stream = [k \in Key |-> NoStream]
-----------------------------------------------------------------------------
SignIn(u) ==
  /\ signedIn' = signedIn \cup {u}
  /\ UNCHANGED <<link, conv, delivery, stream>>

(* Whose data an account's new data is. *)
IdentityOf(k) == IF \E p \in Public : link[p] = k THEN CHOOSE p \in Public : link[p] = k ELSE k

(* canonical_or_insert_in *)
Start(u, k) ==
  /\ u # k /\ Len(conv) < MaxConv
  /\ \A c \in Live : conv[c].who # {u, k}
  /\ conv' = Append(conv, [who |-> {u, k}, org |-> Accounts, by |-> 0,
                           as |-> {IdentityOf(u), IdentityOf(k)}])
  /\ UNCHANGED <<link, signedIn, delivery, stream>>

Sequences(d, k) == {0} \cup {x.seq : x \in {y \in d : y.to = k}}

(* assign_actor_delivery_sequence: a stream starts above the target's legacy deliveries. *)
Deliver(c, k) ==
  LET high == Max(Sequences(delivery, k))
      s == IF stream[k] = NoStream THEN [next |-> high + 1, floor |-> high] ELSE stream[k]
  IN /\ c \in Live /\ k \in conv[c].who
     /\ s.next <= MaxSequence
     /\ delivery' = delivery \cup {[org |-> conv[c].org, to |-> k, seq |-> s.next]}
     /\ stream' = [stream EXCEPT ![k] = [s EXCEPT !.next = s.next + 1]]
     /\ UNCHANGED <<link, signedIn, conv>>
-----------------------------------------------------------------------------
(* link_identities *)

(* parse_mapping: no identity and no account twice. *)
Parses(rows) ==
  \A i, j \in DOMAIN rows :
    i # j => rows[i].key # rows[j].key /\ rows[i].uuid # rows[j].uuid

(* A principal must have had exactly one public id. *)
IdsOf(row) == IF row.key \in Public THEN {row.key} ELSE ProjectedIds[row.key]
Resolvable(row) == Cardinality(IdsOf(row)) = 1
PublicId(row) == CHOOSE p \in IdsOf(row) : TRUE

(* An account is not linked to another identity already. *)
Unheld(rows) ==
  \A row \in Range(rows) : \A p \in Public : link[p] = row.uuid => p = PublicId(row)

(* The rows that change a link, and the storage key each one re-keys. *)
Changes(rows) == {row \in Range(rows) : link[PublicId(row)] # row.uuid}

CurrentKey(p) == IF link[p] = None THEN p ELSE link[p]

OldKey(row) == CurrentKey(PublicId(row))

(* Re-pointing an account that has signed in takes --force-relink. *)
Allowed(rows, force) == force \/ \A row \in Changes(rows) : OldKey(row) \notin signedIn

(* link_map: the same storage key twice is an error. *)
Distinct(rows) ==
  \A r, s \in Changes(rows) : r # s => OldKey(r) # OldKey(s)

Rekey(rows, k) ==
  IF \E row \in Changes(rows) : OldKey(row) = k
    THEN (CHOOSE row \in Changes(rows) : OldKey(row) = k).uuid
    ELSE k

(* Rows of a re-keyed table that would meet a row of the account break its unique key. *)
Collides(rows) ==
  \/ \E c \in DOMAIN conv : \E k, l \in conv[c].who : k # l /\ Rekey(rows, k) = Rekey(rows, l)
  \/ \E d, e \in delivery :
       d # e /\ d.org = e.org /\ d.seq = e.seq /\ Rekey(rows, d.to) = Rekey(rows, e.to)
  \/ \E k, l \in Key :
       /\ k # l /\ Rekey(rows, k) = Rekey(rows, l)
       /\ stream[k] # NoStream /\ stream[l] # NoStream

(* REWRITE, of participants: an account's own data becomes its identity's. *)
Rewritten(rows) ==
  [c \in DOMAIN conv |->
    [conv[c] EXCEPT
      !.who = {Rekey(rows, k) : k \in conv[c].who},
      !.as = {IF \E row \in Changes(rows) : row.uuid = i
                THEN PublicId(CHOOSE row \in Changes(rows) : row.uuid = i) ELSE i : i \in @}]]

(* SUPERSEDE: one live conversation of each participant set is kept; which one (the most recently *)
(* active) is left open.                                                                          *)
Canonicals(cs) ==
  LET live == {c \in DOMAIN cs : cs[c].by = 0}
  IN {keep \in SUBSET live :
        \A c \in live : Cardinality({d \in keep : cs[d].who = cs[c].who}) = 1}

Superseded(cs, keep) ==
  [c \in DOMAIN cs |->
    IF cs[c].by = 0 /\ c \notin keep
      THEN [cs[c] EXCEPT !.by = CHOOSE d \in keep : cs[d].who = cs[c].who]
      ELSE cs[c]]

LeaveChains(cs) == cs

(* FLATTEN, until it changes nothing: the last conversation of each chain. *)
Flattened(cs) ==
  LET end[c \in DOMAIN cs] == IF cs[c].by = 0 THEN c ELSE end[cs[c].by]
  IN [c \in DOMAIN cs |-> IF cs[c].by = 0 THEN cs[c] ELSE [cs[c] EXCEPT !.by = end[c]]]

Redelivered(rows) == {[d EXCEPT !.to = Rekey(rows, d.to)] : d \in delivery}

(* STREAMS: an account's stream goes on above its legacy sequences. *)
Raised(rows, k, s) ==
  LET high == Max(Sequences(Redelivered(rows), k))
  IN IF s # NoStream /\ (\E row \in Changes(rows) : row.uuid = k) /\ s.next <= high
       THEN [next |-> high + 1, floor |-> Max({s.floor, high})]
       ELSE s

Restreamed(rows) ==
  [k \in Key |->
    LET from == {l \in Key : stream[l] # NoStream /\ Rekey(rows, l) = k}
    IN Raised(rows, k, IF from = {} THEN NoStream ELSE stream[CHOOSE l \in from : TRUE])]

(* The links are recorded row by row. *)
Recorded(rows) ==
  [p \in Public |->
    LET named == {i \in DOMAIN rows : PublicId(rows[i]) = p}
    IN IF named = {} THEN link[p] ELSE rows[Max(named)].uuid]

(* A run that is not dry and finds something to link; any other changes nothing. *)
Link(rows, force) ==
  /\ Parses(rows)
  /\ \A row \in Range(rows) : Resolvable(row) /\ Kind[PublicId(row)] = Kind[row.uuid]
  /\ Changes(rows) # {}
  /\ Unheld(rows) /\ Allowed(rows, force) /\ Distinct(rows)
  /\ ~Collides(rows)
  /\ \E keep \in Canonicals(Rewritten(rows)) :
       conv' = Flattened(Superseded(Rewritten(rows), keep))
  /\ delivery' = Redelivered(rows)
  /\ stream' = Restreamed(rows)
  /\ link' = Recorded(rows)
  /\ UNCHANGED signedIn

Next ==
  \/ \E u \in Uuid : SignIn(u) \/ \E v \in Uuid : Start(u, v)
  \/ \E c \in DOMAIN conv, k \in Key : Deliver(c, k)
  \/ \E rows \in Mapping, force \in BOOLEAN : Link(rows, force)

Spec == Init /\ [][Next]_vars
-----------------------------------------------------------------------------
TypeOK ==
  /\ link \in [Public -> Uuid \cup {None}]
  /\ signedIn \subseteq Uuid
  /\ \A c \in DOMAIN conv : conv[c].who \subseteq Key /\ conv[c].by \in 0 .. Len(conv)
  /\ delivery \subseteq [org : {"legacy", Accounts}, to : Key, seq : 1 .. MaxSequence]
  /\ stream \in [Key -> [next : 0 .. MaxSequence + 1, floor : 0 .. MaxSequence]]

(* Whatever sequence of runs linked and re-pointed them, every identity's conversations are under *)
(* the storage key its link names ("Existing links decide each identity's current storage key").  *)
DataFollowsLinks ==
  \A c \in DOMAIN conv : conv[c].who = {IF i \in Public THEN CurrentKey(i) ELSE i : i \in conv[c].as}

(* Two identities never become one account (the holder check of link_identities).               *)
IdentitiesStayApart ==
  \A p, q \in Public : p # q /\ link[p] # None => link[p] # link[q]

(* Each participant set has one live conversation, and a superseded conversation names the live *)
(* conversation of its own participants (SUPERSEDE and FLATTEN, over several runs).             *)
SupersededOnce ==
  /\ \A c, d \in Live : conv[c].who = conv[d].who => c = d
  /\ \A c \in DOMAIN conv \ Live :
       conv[c].by \in Live /\ conv[conv[c].by].who = conv[c].who

(* A stream's next sequence is above everything delivered to its account, so no later delivery  *)
(* repeats the sequence of a legacy one (STREAMS, assign_actor_delivery_sequence).              *)
StreamAboveDeliveries ==
  \A d \in delivery : stream[d.to] # NoStream => d.seq < stream[d.to].next

(* However often the upgrade is run, with whatever mapping, an identity keeps its own           *)
(* conversations, no two identities merge, superseded conversations lead to the live one and    *)
(* streams stay ahead of what was delivered (link_identities).                                  *)
UpgradeSound ==
  /\ DataFollowsLinks
  /\ IdentitiesStayApart
  /\ SupersededOnce
  /\ StreamAboveDeliveries
=============================================================================
