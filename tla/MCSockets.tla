----------------------------- MODULE MCSockets -----------------------------
(* Instances of Sockets for TLC. *)
EXTENDS Sockets

Lengths == <<2, 4, 3>>

\* One client asks, sends a message and closes; the other's request has no key.
Scripts == << <<"request", "message", "close">>, <<"close">> >>
=============================================================================
