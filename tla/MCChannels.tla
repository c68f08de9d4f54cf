----------------------------- MODULE MCChannels -----------------------------
(* A small instance of Channels. *)
EXTENDS Channels

ChanOps == {"pause", "spawn", "await"}
=============================================================================
