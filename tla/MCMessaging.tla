---------------------------- MODULE MCMessaging ----------------------------
(***************************************************************************)
(* Small instances of Messaging: one group (or direct conversation) of a   *)
(* Carbon 1, another Carbon 2 and a Silicon 3 whose custodian is 1.        *)
(***************************************************************************)
EXTENDS MessagingRefinement, TLC

CONSTANTS c, k1, k2, b1, b2, g, phone, laptop, t1, t2

Carbon1 == 1
Carbon2 == 2
Agent   == 3

MCCustodian == [a \in Account |-> IF a = Agent THEN Carbon1 ELSE 0]

Ask(op, actor, conv, seq, key, body, reply, device) ==
    [op |-> op, actor |-> actor, conv |-> conv, seq |-> seq, reply |-> reply,
     key |-> key, body |-> body, device |-> device]

Send(actor, key, body, reply)   == Ask("send", actor, c, 0, key, body, reply, phone)
Edit(actor, seq, key, body)     == Ask("edit", actor, c, seq, key, body, 0, phone)
Delete(actor, seq, key)         == Ask("delete", actor, c, seq, key, NoBody, 0, phone)
Ack(op, actor, seq, device)     == Ask(op, actor, c, seq, k1, NoBody, 0, device)

OneGif == [b \in Body |-> IF b = b1 THEN g ELSE NoGif]
NoGifs == [b \in Body |-> NoGif]

Group == [x \in Conversation |-> Account]

(* Two members send a GIF, both under the same key, and repeat their requests. *)
SendRequests == {Send(Carbon1, k1, b1, 0), Send(Agent, k1, b1, 0)}

(* A Silicon's message is edited and tombstoned by its custodian; its key is reused for   *)
(* other content.                                                                          *)
ReviseRequests == {Send(Agent, k1, b1, 0), Send(Agent, k1, b2, 0), Edit(Agent, 1, k2, b2),
                   Delete(Carbon1, 1, k2)}

(* Receipts of two accounts and two devices, next to another send. *)
ReceiptRequests == {Send(Agent, k1, b1, 0), Ack("delivered", Carbon1, 1, phone),
                    Ack("read", Carbon1, 1, laptop), Ack("read", Carbon2, 1, phone),
                    Send(Carbon2, k1, b1, 0)}

(* A message, a reply to it, its tombstone and its receipt. *)
ReplyRequests == {Send(Agent, k1, b1, 0), Send(Carbon1, k1, b1, 1), Delete(Agent, 1, k2),
                  Ack("read", Carbon1, 1, phone)}

(* The same new GIF sent twice. *)
GifRequests == {Send(Carbon1, k1, b1, 0), Send(Carbon1, k2, b1, 0)}

Slots == Permutations({t1, t2})
=============================================================================
