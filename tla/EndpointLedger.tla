--------------------------- MODULE EndpointLedger ---------------------------
(***************************************************************************)
(* What the TCP flow record promises: a ledger with one account per        *)
(* endpoint.  Each captured packet is booked on the account of the         *)
(* endpoint that sent it and leaves the other account alone; the initiator *)
(* is the sender of the last pure SYN or, before any, of the first packet. *)
(* There are no directions here, so there is nothing to swap.              *)
(***************************************************************************)
EXTENDS SeqSpace, Sequences

CONSTANTS Ends,     \* the two endpoints of the flow
          Packets   \* the packets a capture may hold

VARIABLES count, initiator, isn, expected, fin, bytes, pkts, segs, retrans, ooo

ledger == <<count, initiator, isn, expected, fin, bytes, pkts, segs, retrans, ooo>>

Init ==
    /\ count = 0
    /\ initiator = None
    /\ isn = [e \in Ends |-> None]
    /\ expected = [e \in Ends |-> None]
    /\ fin = [e \in Ends |-> FALSE]
    /\ bytes = [e \in Ends |-> 0]
    /\ pkts = [e \in Ends |-> 0]
    /\ segs = <<>>
    /\ retrans = 0
    /\ ooo = 0

Book(p) ==
    LET e == p.src
        first == IF isn[e] = None THEN p.seq ELSE isn[e]
        rel == RelSeq(p.seq, first)
    IN  /\ count' = count + 1
        /\ initiator' = IF initiator = None \/ (p.syn /\ ~p.ack) THEN e ELSE initiator
        /\ isn' = [isn EXCEPT ![e] = first]
        /\ expected' = [expected EXCEPT ![e] = NextExpected(p, rel, expected[e])]
        /\ fin' = [fin EXCEPT ![e] = fin[e] \/ p.fin]
        /\ bytes' = [bytes EXCEPT ![e] = bytes[e] + p.len]
        /\ pkts' = [pkts EXCEPT ![e] = pkts[e] + 1]
        /\ segs' = IF p.len > 0
                   THEN Append(segs, [pkt |-> count + 1, src |-> e, seq |-> rel, len |-> p.len,
                                      retrans |-> Behind(p, rel, expected[e])])
                   ELSE segs
        /\ retrans' = retrans + (IF Behind(p, rel, expected[e]) THEN 1 ELSE 0)
        /\ ooo' = ooo + (IF Ahead(p, rel, expected[e]) THEN 1 ELSE 0)

Next == \E p \in Packets : Book(p)

Spec == Init /\ [][Next]_ledger
=============================================================================
