----------------------------- MODULE MCSenders -----------------------------
(* Senders for TLC: messages of one frame and of several. *)
EXTENDS Senders

MCChunks == <<2, 1, 2>>
TwoChunks == <<2, 1>>
=============================================================================
