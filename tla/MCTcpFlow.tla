----------------------------- MODULE MCTcpFlow -----------------------------
(* Captures of one flow in a space of 16 sequence numbers: each endpoint's  *)
(* handshake, data that wraps round and overlaps, a second pure SYN from    *)
(* either side, data after which x's relative numbers have wrapped, a FIN   *)
(* and an RST, in every order and any number of times.                      *)
EXTENDS TcpFlow

CONSTANTS x, y

Initial(src) == IF src = x THEN 14 ELSE 5
Plain(src, pos, len) == [src |-> src, seq |-> (Initial(src) + pos) % Mod, pos |-> pos, len |-> len,
                         syn |-> FALSE, ack |-> TRUE, fin |-> FALSE, rst |-> FALSE]

MCPackets ==
    {[Plain(x, 0, 0) EXCEPT !.syn = TRUE, !.ack = FALSE],
     [Plain(y, 0, 0) EXCEPT !.syn = TRUE],
     Plain(x, 1, 2),
     Plain(x, 3, 1),
     [Plain(x, 1, 3) EXCEPT !.fin = TRUE],
     Plain(y, 1, 3),
     [Plain(y, 4, 1) EXCEPT !.syn = TRUE, !.ack = FALSE],
     [Plain(x, 8, 0) EXCEPT !.syn = TRUE, !.ack = FALSE],
     Plain(x, 13, 3),
     [Plain(y, 4, 0) EXCEPT !.rst = TRUE]}
=============================================================================
