------------------------------ MODULE SeqSpace ------------------------------
(***************************************************************************)
(* TCP sequence numbers as src/dissectors/tcp.js handles them: unsigned    *)
(* words, compared through the sign of their difference.  Mod stands for   *)
(* 2^32; nothing below depends on its value beyond its being even.         *)
(***************************************************************************)
EXTENDS Integers

CONSTANTS Mod,  \* the number of sequence numbers
          None  \* null

ASSUME SeqSpaceAssumption ==
    /\ Mod \in Nat /\ Mod >= 4 /\ Mod % 2 = 0
    /\ None \notin Int

Word == 0..(Mod - 1)

\* x >>> 0
Wrap(x) == x % Mod

\* x | 0
Signed(x) == ((x + Mod \div 2) % Mod) - Mod \div 2

\* Faulty variant: without the `>>> 0`.
PlainRelSeq(seq, isn) == seq - isn

\* A sequence number relative to the first one seen.
RelSeq(seq, isn) == Wrap(seq - isn)

\* The sequence numbers a segment takes, and whether it takes any.
SegLen(p) == p.len + (IF p.syn THEN 1 ELSE 0) + (IF p.fin THEN 1 ELSE 0)
TakesSpace(p) == p.len > 0 \/ p.syn \/ p.fin

\* A data segment that starts before, or after, the number expected next.
Behind(p, rel, expected) == p.len > 0 /\ expected # None /\ Signed(rel - expected) < 0
Ahead(p, rel, expected) == p.len > 0 /\ expected # None /\ Signed(rel - expected) > 0

\* Faulty variant: compared as plain numbers, the expected one never wraps round.
PlainNextExpected(p, rel, expected) ==
    IF TakesSpace(p) /\ (expected = None \/ rel + SegLen(p) > expected)
    THEN rel + SegLen(p) ELSE expected

\* Faulty variant: every segment sets it, an old one moves it back.
LastNextExpected(p, rel, expected) ==
    IF TakesSpace(p) THEN Wrap(rel + SegLen(p)) ELSE expected

\* The number expected after the segment.
NextExpected(p, rel, expected) ==
    IF /\ TakesSpace(p)
       /\ \/ expected = None
          \/ Signed(rel + SegLen(p)) > expected
          \/ Signed(rel + SegLen(p) - expected) > 0
    THEN Wrap(rel + SegLen(p)) ELSE expected
=============================================================================
