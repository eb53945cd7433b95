----------------------------- MODULE Reassembly -----------------------------
(***************************************************************************)
(* reassembleTcp (src/analysis/streams.js): one call for one stream.  Each *)
(* turn of its inner loop is a step: the next segment of the direction, in *)
(* sequence order, is skipped, trimmed or appended, and a hole before it   *)
(* is recorded.  Direction 0 is built first; both spend one budget.        *)
(*                                                                         *)
(* A byte is its position in the direction's relative sequence space, a    *)
(* piece of output the half-open range of positions it was copied from.    *)
(* A segment's bytes are always all there (tcp.js counts the bytes that    *)
(* were captured), so segBytes is the identity.                            *)
(***************************************************************************)
EXTENDS Integers, Sequences, FiniteSetsExt, Sorting

CONSTANTS Inputs,        \* the segment lists a call may be made with
          MaxReassembly  \* MAX_REASSEMBLY: bytes one call returns at most

Dirs == {0, 1}
Done == 2

Segment == [pkt : Nat \ {0}, ts : Nat, seq : Nat, len : Nat \ {0}]

\* `segs` of one direction after the sort: by sequence number, then by packet.
Sorted(s) == \A i, j \in DOMAIN s :
    i < j => s[i].seq < s[j].seq \/ (s[i].seq = s[j].seq /\ s[i].pkt <= s[j].pkt)

ASSUME ReassemblyAssumption ==
    /\ MaxReassembly \in Nat
    /\ Inputs \subseteq [Dirs -> Seq(Segment)]
    /\ \A in \in Inputs : \A d \in Dirs : Sorted(in[d])

VARIABLES
    input,      \* the sorted segments of each direction
    dir,        \* the direction being built; Done when no call is running
    next,       \* index of the segment the loop comes to next
    expected,   \* position after the last one output or skipped
    outLen,     \* bytes output per direction
    out,        \* `follow` before its sort: the pieces as they were output
    gaps,
    budget, truncated, segmentsUsed

vars == <<input, dir, next, expected, outLen, out, gaps, budget, truncated, segmentsUsed>>

Piece == [dir : Dirs, pkt : Nat \ {0}, ts : Nat, offset : Nat, from : Nat, to : Nat]
Gap == [dir : Dirs, at : Nat, from : Nat, to : Nat]

TypeOK ==
    /\ input \in [Dirs -> Seq(Segment)]
    /\ dir \in Dirs \cup {Done}
    /\ next \in Nat \ {0}
    /\ expected \in Nat
    /\ outLen \in [Dirs -> Nat]
    /\ out \in Seq(Piece)
    /\ gaps \in Seq(Gap)
    /\ budget \in Nat
    /\ truncated \in BOOLEAN
    /\ segmentsUsed \in Nat

Init ==
    /\ input = [d \in Dirs |-> <<>>]
    /\ dir = Done /\ next = 1 /\ expected = 0
    /\ outLen = [d \in Dirs |-> 0]
    /\ out = <<>> /\ gaps = <<>>
    /\ budget = MaxReassembly /\ truncated = FALSE /\ segmentsUsed = 0

\* `expected` at the start of a direction: the first position there is.
Start(s) == IF s = <<>> THEN 0 ELSE s[1].seq

Call(in) ==
    /\ dir = Done
    /\ input' = in
    /\ dir' = 0 /\ next' = 1 /\ expected' = Start(in[0])
    /\ outLen' = [d \in Dirs |-> 0]
    /\ out' = <<>> /\ gaps' = <<>>
    /\ budget' = MaxReassembly /\ truncated' = FALSE /\ segmentsUsed' = 0

\* build(1) after build(0), and the return after build(1).
BuildNext ==
    /\ dir' = dir + 1
    /\ next' = 1
    /\ expected' = IF dir = 0 THEN Start(input[1]) ELSE 0

Seg == input[dir][next]
SegEnd == Seg.seq + Seg.len
InLoop == dir \in Dirs /\ next <= Len(input[dir])

\* Every byte of the segment has been output or is in an earlier segment.
Overlapped ==
    /\ InLoop
    /\ SegEnd <= expected
    /\ next' = next + 1
    /\ UNCHANGED <<input, dir, expected, outLen, out, gaps, budget, truncated, segmentsUsed>>

\* The first byte not output yet, and the hole that a later one leaves.
From == IF Seg.seq > expected THEN Seg.seq ELSE expected

\* Faulty variant: the hole is measured to the end of the segment.
RecordGapToEnd ==
    gaps' = IF Seg.seq > expected
            THEN Append(gaps, [dir |-> dir, at |-> outLen[dir],
                               from |-> expected, to |-> SegEnd])
            ELSE gaps

RecordGap ==
    gaps' = IF Seg.seq > expected
            THEN Append(gaps, [dir |-> dir, at |-> outLen[dir],
                               from |-> expected, to |-> Seg.seq])
            ELSE gaps

\* Faulty variant: the budget does not bound the piece.
AllOfIt == SegEnd - From

\* The bytes that still fit.
Fitting == IF SegEnd - From > budget THEN budget ELSE SegEnd - From

\* Faulty variant: the part already output is not trimmed off.
UntrimmedPiece == [dir |-> dir, pkt |-> Seg.pkt, ts |-> Seg.ts, offset |-> outLen[dir],
                   from |-> Seg.seq, to |-> Seg.seq + Fitting]

NewPiece == [dir |-> dir, pkt |-> Seg.pkt, ts |-> Seg.ts, offset |-> outLen[dir],
             from |-> From, to |-> From + Fitting]

\* Faulty variant: the first byte of the next segment is skipped.
ExpectedPastEnd == SegEnd + 1

ExpectedAfter == SegEnd

Output ==
    /\ InLoop
    /\ SegEnd > expected
    /\ budget > 0
    /\ RecordGap
    /\ out' = Append(out, NewPiece)
    /\ outLen' = [outLen EXCEPT ![dir] = outLen[dir] + Fitting]
    /\ budget' = budget - Fitting
    /\ truncated' = (truncated \/ SegEnd - From > budget)
    /\ expected' = ExpectedAfter
    /\ segmentsUsed' = segmentsUsed + 1
    /\ next' = next + 1
    /\ UNCHANGED <<input, dir>>

\* Nothing fits any more: the rest of the direction is cut off.
CutOff ==
    /\ InLoop
    /\ SegEnd > expected
    /\ budget <= 0
    /\ RecordGap
    /\ truncated' = TRUE
    /\ BuildNext
    /\ UNCHANGED <<input, outLen, out, budget, segmentsUsed>>

EndOfDirection ==
    /\ dir \in Dirs /\ next > Len(input[dir])
    /\ BuildNext
    /\ UNCHANGED <<input, outLen, out, gaps, budget, truncated, segmentsUsed>>

Loop == Overlapped \/ Output \/ CutOff \/ EndOfDirection

Next == (\E in \in Inputs : Call(in)) \/ Loop

Spec == Init /\ [][Next]_vars

\* What the call returns as `follow`: the pieces in the order of the capture.
Earlier(x, y) == x.ts < y.ts \/ (x.ts = y.ts /\ x.pkt < y.pkt)
Follow == InOrder(out, {p \in (DOMAIN out) \X (DOMAIN out) : Earlier(out[p[1]], out[p[2]])})

\* Faulty variant: the last piece that starts at or before `off`.
LastPieceBefore(follow, d, off) ==
    LET before == {k \in DOMAIN follow : follow[k].dir = d /\ follow[k].offset <= off}
    IN  IF before = {} THEN 0 ELSE follow[Max(before)].pkt

\* extract.js: the packet that brought the byte at an offset of the output; 0 is null.
offsetToPkt(follow, d, off) ==
    LET before == {k \in DOMAIN follow : follow[k].dir = d /\ follow[k].offset <= off}
        holding == {k \in before : off < follow[k].offset + (follow[k].to - follow[k].from)}
    IN  IF holding # {} THEN follow[Min(holding)].pkt
        ELSE IF before # {} THEN follow[Max(before)].pkt
        ELSE 0

-----------------------------------------------------------------------------
(* Properties *)

\* Each direction comes out in sequence order, no position twice, however the
\* segments overlap (streams.js:19-23, 38-41, 48-49).
InOrderOnce ==
    \A i, j \in DOMAIN out :
        i < j /\ out[i].dir = out[j].dir => out[i].to <= out[j].from

\* A recorded gap is a range that no captured segment holds a byte of
\* (streams.js:42-47).
GapsAreMissing ==
    \A g \in DOMAIN gaps : \A i \in DOMAIN input[gaps[g].dir] :
        LET s == input[gaps[g].dir][i]
        IN  s.seq + s.len <= gaps[g].from \/ gaps[g].to <= s.seq

\* What segment i of direction d holds is in the output.
Present(d, i) ==
    \A b \in input[d][i].seq..(input[d][i].seq + input[d][i].len - 1) :
        \E k \in DOMAIN out : out[k].dir = d /\ out[k].from <= b /\ b < out[k].to

\* The segments the loop is through with.
Passed(d) == {i \in DOMAIN input[d] : d < dir \/ (d = dir /\ i < next)}

\* Unless the result says it is truncated, every byte of every segment the loop is
\* through with has been output: a segment is only ever dropped for bytes that
\* another one brought (streams.js:38-59).
NothingLost ==
    ~truncated => \A d \in Dirs : \A i \in Passed(d) : Present(d, i)

\* The two directions together never exceed the cap, fill it exactly when the
\* result says it is truncated; a piece is not empty, ends within what its direction has
\* output, and starts at no offset before the end of one before it (streams.js:51-57).
BudgetIsKept ==
    /\ outLen[0] + outLen[1] + budget = MaxReassembly
    /\ truncated => budget = 0
    /\ \A k \in DOMAIN out :
          /\ out[k].from < out[k].to
          /\ out[k].offset + (out[k].to - out[k].from) <= outLen[out[k].dir]
          /\ \A j \in DOMAIN out : j < k /\ out[j].dir = out[k].dir
                => out[j].offset + (out[j].to - out[j].from) <= out[k].offset

\* Where the output came from: the packet that offsetToPkt finds for an offset of
\* the finished output holds the very byte that is there, although the pieces are
\* searched in the order of the capture and not of the output
\* (streams.js:54-65, extract.js:125-133).
OffsetsAreTraced ==
    dir = Done => \A k \in DOMAIN out :
        \A b \in out[k].from..(out[k].to - 1) :
            \E i \in DOMAIN input[out[k].dir] :
                LET s == input[out[k].dir][i]
                IN  /\ s.pkt = offsetToPkt(Follow, out[k].dir, out[k].offset + (b - out[k].from))
                    /\ s.seq <= b /\ b < s.seq + s.len
=============================================================================
