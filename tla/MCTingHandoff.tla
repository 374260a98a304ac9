--------------------------- MODULE MCTingHandoff ---------------------------
(***************************************************************************)
(* Small instances of TingHandoff: two rows for two recipients, workers    *)
(* with Ting configured and (after a change of configuration) one without. *)
(***************************************************************************)
EXTENDS TingHandoff, TLC

CONSTANTS h1, h2, alice, bot, w1, w2, w3

MCTargetOf == [h \in Handoff |-> IF h = h1 THEN alice ELSE bot]

Workers == Permutations({w1, w2})
=============================================================================
