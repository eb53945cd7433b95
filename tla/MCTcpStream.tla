---------------------------- MODULE MCTcpStream ----------------------------
(* Captures of a conversation in which x sends SYN, bytes 1-4 and FIN in     *)
(* segments that may be lost, repeated, reordered and cut differently when   *)
(* sent again, and y answers.  x's sequence numbers wrap round at byte 2.    *)
EXTENDS TcpStream

CONSTANTS x, y

Isn(src) == IF src = x THEN 14 ELSE 5
Data(src, pos, len) ==
    [src |-> src, pos |-> pos, seq |-> (Isn(src) + pos) % Mod, len |-> len,
     syn |-> FALSE, ack |-> TRUE, fin |-> FALSE, rst |-> FALSE]

MCPackets ==
    {[Data(x, 0, 0) EXCEPT !.syn = TRUE, !.ack = FALSE],
     [Data(y, 0, 0) EXCEPT !.syn = TRUE],
     Data(x, 1, 1), Data(x, 2, 2), Data(x, 1, 3), Data(x, 4, 1),
     [Data(x, 5, 0) EXCEPT !.fin = TRUE],
     Data(y, 1, 2)}
=============================================================================
