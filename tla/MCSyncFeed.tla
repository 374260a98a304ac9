----------------------------- MODULE MCSyncFeed -----------------------------
(* SyncFeed for TLC: one device is enough, devices share only the notifications. *)
EXTENDS SyncFeed
=============================================================================
