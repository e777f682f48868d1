----------------------------- MODULE MCSockFwd -----------------------------
(* A small instance of SockFwd for TLC. *)
EXTENDS SockFwd
=============================================================================
