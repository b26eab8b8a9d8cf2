--------------------------- MODULE MCTcpTransport ---------------------------
(***************************************************************************)
(* Payloads of TcpTransport for TLC: bytes are bits, a header has two.     *)
(***************************************************************************)
EXTENDS TcpTransport, TLC

\* The empty payload, one of the greatest length, and one that is too long.
Edges == {<<>>, <<0, 1>>, <<1, 1, 1>>}

Two == {<<1>>, <<0, 1>>}
=============================================================================
