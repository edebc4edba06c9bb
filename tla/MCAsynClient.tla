---------------------------- MODULE MCAsynClient ----------------------------
(* A client with one or two writes, a read and two handler threads. *)
EXTENDS AsynClient

CONSTANTS w1, w2, r1, h1, h2

=============================================================================
