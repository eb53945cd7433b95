-------------------------- MODULE ReassemblyProofs --------------------------
(***************************************************************************)
(* reassembleTcp for every list of segments and every cap: what it outputs *)
(* is in order and without repetition, what it calls a gap was never       *)
(* captured, nothing it was given is lost, the budget is kept, and every   *)
(* offset of the output leads back to the packet that brought it.          *)
(*                                                                         *)
(* And TcpStream for every capture: what is output of an endpoint is what  *)
(* was captured of it, from the packets on the wire to the gaps.           *)
(***************************************************************************)
EXTENDS TcpStream, TcpFlowProofs

USE DEF Dirs, Done

\* What a call may be made with, and the cap.
Callable(in) == in \in [Dirs -> Seq(Segment)] /\ \A d \in Dirs : in[d] \in Seq(Segment) /\ Sorted(in[d])
LEMMA InputType == MaxReassembly \in Nat /\ \A in \in Inputs : Callable(in)
BY ReassemblyAssumption DEF Callable

-----------------------------------------------------------------------------
(* Types *)

\* The segment the loop is at.
LEMMA SegType ==
    ASSUME TypeOK, InLoop
    PROVE  /\ Seg \in Segment /\ next \in DOMAIN input[dir]
           /\ Seg.pkt \in Nat \ {0} /\ Seg.ts \in Nat /\ Seg.seq \in Nat
           /\ Seg.len \in Nat \ {0}
           /\ SegEnd \in Nat /\ Seg.seq < SegEnd
<1>1. input[dir] \in Seq(Segment) /\ next \in 1..Len(input[dir])
  BY DEF TypeOK, InLoop
<1>2. Seg \in Segment /\ next \in DOMAIN input[dir]
  BY <1>1 DEF Seg
<1> QED
  BY <1>2 DEF Segment, SegEnd

\* The piece the loop outputs for it.
LEMMA PieceType ==
    ASSUME TypeOK, InLoop, SegEnd > expected, budget > 0
    PROVE  /\ From \in Nat /\ expected <= From /\ Seg.seq <= From /\ From < SegEnd
           /\ Fitting \in Nat \ {0} /\ Fitting <= budget /\ From + Fitting <= SegEnd
           /\ (Fitting # budget \/ SegEnd - From <= budget) => From + Fitting = SegEnd
           /\ NewPiece \in Piece
<1>1. /\ expected \in Nat /\ budget \in Nat /\ dir \in Dirs /\ outLen[dir] \in Nat
      /\ Seg.seq \in Nat /\ SegEnd \in Nat /\ Seg.seq < SegEnd
      /\ Seg.pkt \in Nat \ {0} /\ Seg.ts \in Nat
  BY SegType DEF TypeOK, InLoop
<1>2. From \in Nat /\ expected <= From /\ Seg.seq <= From /\ From < SegEnd
  BY <1>1 DEF From
<1>3. Fitting \in Nat \ {0} /\ Fitting <= budget /\ From + Fitting <= SegEnd
  BY <1>1, <1>2 DEF Fitting
<1>4. (Fitting # budget \/ SegEnd - From <= budget) => From + Fitting = SegEnd
  BY <1>1, <1>2 DEF Fitting
<1>5. NewPiece \in Piece
  BY <1>1, <1>2, <1>3 DEF NewPiece, Piece
<1> QED
  BY <1>2, <1>3, <1>4, <1>5

\* A hole, if there is one before the segment, is recorded as a gap.
LEMMA GapType ==
    ASSUME TypeOK, InLoop, RecordGap
    PROVE  gaps' \in Seq(Gap)
<1> DEFINE gap == [dir |-> dir, at |-> outLen[dir], from |-> expected, to |-> Seg.seq]
<1>1. gap \in Gap
  BY SegType DEF Gap, TypeOK, InLoop
<1>2. gaps' = gaps \/ gaps' = Append(gaps, gap)
  BY DEF RecordGap
<1> HIDE DEF gap
<1>3. gaps \in Seq(Gap)
  BY DEF TypeOK
<1> QED
  BY <1>1, <1>2, <1>3, Enqueued

\* The position a direction starts at.
LEMMA StartType ==
    ASSUME NEW s \in Seq(Segment) PROVE Start(s) \in Nat
<1>1. CASE s = <<>>
  BY <1>1 DEF Start
<1>2. CASE s # <<>>
  <2>1. s[1] \in Segment
    BY <1>2
  <2> QED
    BY <2>1, <1>2 DEF Start, Segment
<1> QED
  BY <1>1, <1>2

LEMMA InitTypes == Init => TypeOK
<1> SUFFICES ASSUME Init PROVE TypeOK
  OBVIOUS
<1>1. input \in [Dirs -> Seq(Segment)] /\ out \in Seq(Piece) /\ gaps \in Seq(Gap)
  BY Nothing DEF Init
<1>2. outLen \in [Dirs -> Nat] /\ budget \in Nat
  BY InputType DEF Init
<1> QED
  BY <1>1, <1>2 DEF Init, TypeOK

\* Going on to the next direction.
LEMMA BuildNextTypes ==
    ASSUME TypeOK, dir \in Dirs, BuildNext
    PROVE  dir' \in Dirs \cup {Done} /\ next' \in Nat \ {0} /\ expected' \in Nat
<1>1. input[1] \in Seq(Segment)
  BY DEF TypeOK
<1> QED
  BY <1>1, StartType DEF BuildNext

\* A call starts with nothing output.
LEMMA CallTypes ==
    ASSUME NEW in, Callable(in), Call(in) PROVE TypeOK'
<1>1. in \in [Dirs -> Seq(Segment)] /\ in[0] \in Seq(Segment) /\ MaxReassembly \in Nat
  BY InputType DEF Callable
<1>2. Start(in[0]) \in Nat
  BY <1>1, StartType
<1>3. out' \in Seq(Piece) /\ gaps' \in Seq(Gap)
  BY Nothing DEF Call
<1>4. /\ input' = in /\ dir' = 0 /\ next' = 1 /\ expected' = Start(in[0])
      /\ outLen' = [d \in Dirs |-> 0]
      /\ budget' = MaxReassembly /\ truncated' = FALSE /\ segmentsUsed' = 0
  BY DEF Call
<1>5. outLen' \in [Dirs -> Nat]
  BY <1>4
<1>6. /\ input' \in [Dirs -> Seq(Segment)] /\ dir' \in Dirs \cup {Done}
      /\ next' \in Nat \ {0} /\ expected' \in Nat
  BY <1>1, <1>2, <1>4
<1>7. budget' \in Nat /\ truncated' \in BOOLEAN /\ segmentsUsed' \in Nat
  BY <1>1, <1>4
<1> QED
  BY <1>3, <1>5, <1>6, <1>7 DEF TypeOK

LEMMA StepTypes == TypeOK /\ [Next]_vars => TypeOK'
<1> SUFFICES ASSUME TypeOK, [Next]_vars PROVE TypeOK'
  OBVIOUS
<1>1. ASSUME NEW in \in Inputs, Call(in) PROVE TypeOK'
  BY <1>1, InputType, CallTypes
<1>2. CASE Overlapped
  BY <1>2 DEF Overlapped, TypeOK
<1>3. CASE Output
  <2>1. Fitting \in Nat /\ Fitting <= budget /\ NewPiece \in Piece /\ SegEnd \in Nat
    BY <1>3, PieceType, SegType DEF Output
  <2>2. gaps' \in Seq(Gap)
    BY <1>3, GapType DEF Output
  <2>3. out' \in Seq(Piece)
    BY <1>3, <2>1, Enqueued DEF Output, TypeOK
  <2>4. /\ outLen' = [outLen EXCEPT ![dir] = outLen[dir] + Fitting]
        /\ budget' = budget - Fitting /\ expected' = SegEnd
        /\ segmentsUsed' = segmentsUsed + 1 /\ next' = next + 1
        /\ truncated' \in BOOLEAN /\ UNCHANGED <<input, dir>> /\ dir \in Dirs
    BY <1>3 DEF Output, ExpectedAfter, InLoop, TypeOK
  <2> HIDE DEF Fitting, SegEnd
  <2>5. outLen' \in [Dirs -> Nat] /\ budget' \in Nat
    BY <2>1, <2>4 DEF TypeOK
  <2> QED
    BY <2>1, <2>2, <2>3, <2>4, <2>5 DEF TypeOK
<1>4. CASE CutOff
  <2>1. gaps' \in Seq(Gap)
    BY <1>4, GapType DEF CutOff
  <2> QED
    BY <1>4, <2>1, BuildNextTypes DEF CutOff, TypeOK, InLoop
<1>5. CASE EndOfDirection
  BY <1>5, BuildNextTypes DEF EndOfDirection, TypeOK
<1>6. CASE UNCHANGED vars
  BY <1>6 DEF vars, TypeOK
<1> QED
  BY <1>1, <1>2, <1>3, <1>4, <1>5, <1>6 DEF Next, Loop

\* Every call keeps the types: in particular the budget never goes below zero
\* (streams.js:24-67).
THEOREM TypeCorrect == Spec => []TypeOK
BY InitTypes, StepTypes, PTL DEF Spec

-----------------------------------------------------------------------------
(* Order of the output *)

\* The pieces of the direction being built end before the expected position, and
\* there are none yet of a later direction.
OrderInv ==
    /\ \A k \in DOMAIN out : out[k].dir <= dir
    /\ \A k \in DOMAIN out : out[k].dir = dir => out[k].to <= expected
    /\ InOrderOnce

\* Where the output grows.
LEMMA OutputGrows ==
    ASSUME TypeOK, Output
    PROVE  /\ Len(out) \in Nat /\ DOMAIN out = 1..Len(out)
           /\ DOMAIN out' = 1..(Len(out) + 1)
           /\ \A k \in 1..Len(out) : out'[k] = out[k] /\ out[k] \in Piece
           /\ out'[Len(out) + 1] = NewPiece
<1>1. out \in Seq(Piece) /\ out' = Append(out, NewPiece)
  BY DEF Output, TypeOK
<1> QED
  BY <1>1, Grown

\* Outside Output, a step of the loop keeps the pieces.
LEMMA OrderKept ==
    ASSUME TypeOK, OrderInv, out' = out,
           \/ dir' = dir /\ expected' = expected
           \/ dir \in Dirs /\ dir' = dir + 1
    PROVE  OrderInv'
<1>1. InOrderOnce'
  BY DEF OrderInv, InOrderOnce
<1>2. \A k \in DOMAIN out : out[k].dir \in {0, 1} /\ out[k].dir <= dir
  <2>1. ASSUME NEW k \in DOMAIN out PROVE out[k] \in Piece
    BY DEF TypeOK
  <2> QED
    BY <2>1 DEF OrderInv, Piece
<1>3. CASE dir' = dir /\ expected' = expected
  BY <1>1, <1>3 DEF OrderInv
<1>4. CASE dir \in Dirs /\ dir' = dir + 1
  BY <1>1, <1>2, <1>4 DEF OrderInv
<1> QED
  BY <1>3, <1>4

LEMMA OrderStep == TypeOK /\ OrderInv /\ [Next]_vars => OrderInv'
<1> SUFFICES ASSUME TypeOK, OrderInv, [Next]_vars PROVE OrderInv'
  OBVIOUS
<1>1. ASSUME NEW in \in Inputs, Call(in) PROVE OrderInv'
  BY <1>1 DEF Call, OrderInv, InOrderOnce
<1>2. CASE Overlapped
  BY <1>2, OrderKept DEF Overlapped
<1>3. CASE Output
  <2> DEFINE n == Len(out)
             piece == NewPiece
  <2>1. /\ n \in Nat /\ DOMAIN out = 1..n /\ DOMAIN out' = 1..(n + 1)
        /\ \A k \in 1..n : out'[k] = out[k] /\ out[k] \in Piece
        /\ out'[n + 1] = piece
    BY <1>3, OutputGrows
  <2>2. /\ piece.dir = dir /\ piece.from = From /\ piece.to <= SegEnd
        /\ piece.from \in Nat /\ piece.to \in Nat
        /\ expected <= From /\ expected < SegEnd /\ SegEnd \in Nat
        /\ expected \in Nat /\ dir \in Dirs
    <3>1. /\ From \in Nat /\ expected <= From /\ From < SegEnd /\ From + Fitting <= SegEnd
          /\ Fitting \in Nat /\ SegEnd \in Nat /\ expected \in Nat /\ dir \in Dirs
      BY <1>3, PieceType, SegType DEF Output, InLoop, TypeOK
    <3>2. piece.dir = dir /\ piece.from = From /\ piece.to = From + Fitting
      BY DEF NewPiece
    <3> HIDE DEF piece
    <3> QED
      BY <3>1, <3>2
  <2>3. dir' = dir /\ expected' = SegEnd
    BY <1>3 DEF Output, ExpectedAfter
  <2>4. \A k \in 1..n : /\ out[k].dir <= dir
                        /\ out[k].dir = dir => out[k].to <= expected
                        /\ out[k].to \in Nat
    BY <2>1 DEF OrderInv, Piece
  <2> HIDE DEF n, piece
  <2>5. \A k \in DOMAIN out' : out'[k].dir <= dir'
    BY <2>1, <2>2, <2>3, <2>4
  <2>6. \A k \in DOMAIN out' : out'[k].dir = dir' => out'[k].to <= expected'
    BY <2>1, <2>2, <2>3, <2>4
  <2>7. InOrderOnce'
    <3> SUFFICES ASSUME NEW i \in 1..(n + 1), NEW j \in 1..(n + 1),
                        i < j, out'[i].dir = out'[j].dir
                 PROVE  out'[i].to <= out'[j].from
      BY <2>1 DEF InOrderOnce
    <3>1. CASE j \in 1..n
      BY <3>1, <2>1 DEF OrderInv, InOrderOnce
    <3>2. CASE j = n + 1
      <4>1. i \in 1..n
        BY <3>2, <2>1
      <4> QED
        BY <3>2, <4>1, <2>1, <2>2, <2>4
    <3> QED
      BY <3>1, <3>2, <2>1
  <2> QED
    BY <2>5, <2>6, <2>7 DEF OrderInv
<1>4. CASE CutOff
  BY <1>4, OrderKept DEF CutOff, BuildNext, InLoop
<1>5. CASE EndOfDirection
  BY <1>5, OrderKept DEF EndOfDirection, BuildNext
<1>6. CASE UNCHANGED vars
  BY <1>6, OrderKept DEF vars
<1> QED
  BY <1>1, <1>2, <1>3, <1>4, <1>5, <1>6 DEF Next, Loop

\* However the segments of a stream repeat and overlap one another, each direction
\* comes out in sequence order and no position twice (streams.js:38-41, 48-49).
THEOREM OutputInOrder == Spec => []InOrderOnce
<1>1. Init => OrderInv
  BY DEF Init, OrderInv, InOrderOnce
<1>2. OrderInv => InOrderOnce
  BY DEF OrderInv
<1> QED
  BY <1>1, <1>2, OrderStep, TypeCorrect, PTL DEF Spec

-----------------------------------------------------------------------------
(* Gaps *)

\* The segments the loop is through with end before the expected position.
GapInv ==
    /\ \A d \in Dirs : Sorted(input[d])
    /\ dir \in Dirs => \A i \in DOMAIN input[dir] :
          i < next => input[dir][i].seq + input[dir][i].len <= expected
    /\ GapsAreMissing

\* A segment of the input.
LEMMA InputSegment ==
    ASSUME TypeOK, NEW d \in Dirs, NEW i \in DOMAIN input[d]
    PROVE  /\ input[d][i] \in Segment
           /\ input[d][i].seq \in Nat /\ input[d][i].len \in Nat \ {0}
           /\ i \in Nat
<1>1. input[d] \in Seq(Segment)
  BY DEF TypeOK
<1>2. input[d][i] \in Segment /\ i \in Nat
  BY <1>1
<1> QED
  BY <1>2 DEF Segment

\* What RecordGap adds is a range of which no segment holds a byte: the earlier
\* ones end before it, the others start after it.
LEMMA GapRecorded ==
    ASSUME TypeOK, GapInv, InLoop, RecordGap, input' = input
    PROVE  GapsAreMissing'
<1> DEFINE gap == [dir |-> dir, at |-> outLen[dir], from |-> expected, to |-> Seg.seq]
           Missing(g) == \A i \in DOMAIN input[g.dir] :
                            LET s == input[g.dir][i]
                            IN  s.seq + s.len <= g.from \/ g.to <= s.seq
<1>1. dir \in Dirs /\ next \in DOMAIN input[dir] /\ Seg = input[dir][next]
  BY SegType DEF InLoop, Seg
<1>2. Missing(gap)
  <2> SUFFICES ASSUME NEW i \in DOMAIN input[dir]
               PROVE  \/ input[dir][i].seq + input[dir][i].len <= expected
                      \/ Seg.seq <= input[dir][i].seq
    OBVIOUS
  <2>1. CASE i < next
    BY <2>1, <1>1 DEF GapInv
  <2>2. CASE i = next
    BY <2>2, <1>1, InputSegment
  <2>3. CASE next < i
    <3>1. Sorted(input[dir]) /\ next \in Nat /\ i \in Nat
      BY <1>1, InputSegment DEF GapInv
    <3>2. Seg.seq < input[dir][i].seq \/ Seg.seq = input[dir][i].seq
      BY <2>3, <3>1, <1>1 DEF Sorted
    <3> QED
      BY <3>2, <1>1, InputSegment
  <2> QED
    BY <2>1, <2>2, <2>3, <1>1, InputSegment
<1>3. gaps \in Seq(Gap) /\ (gaps' = gaps \/ gaps' = Append(gaps, gap))
  BY DEF RecordGap, TypeOK
<1>4. \A g \in DOMAIN gaps : Missing(gaps[g])
  BY DEF GapInv, GapsAreMissing
<1> HIDE DEF gap, Missing
<1>5. \A g \in DOMAIN gaps' : Missing(gaps'[g])
  <2>1. CASE gaps' = gaps
    BY <2>1, <1>4
  <2>2. CASE gaps' = Append(gaps, gap)
    BY <2>2, <1>2, <1>3, <1>4, Grown
  <2> QED
    BY <1>3, <2>1, <2>2
<1> QED
  BY <1>5 DEF GapsAreMissing, Missing

LEMMA CallGaps ==
    ASSUME NEW in, Callable(in), Call(in) PROVE GapInv'
<1>1. \A d \in Dirs : Sorted(in[d]) /\ in[d] \in Seq(Segment)
  BY DEF Callable
<1>2. input' = in /\ next' = 1 /\ dir' = 0 /\ gaps' = <<>>
  BY DEF Call
<1>3. \A i \in DOMAIN in[0] : ~(i < 1)
  BY <1>1
<1> QED
  BY <1>1, <1>2, <1>3 DEF GapInv, GapsAreMissing

LEMMA GapStep == TypeOK /\ GapInv /\ [Next]_vars => GapInv'
<1> SUFFICES ASSUME TypeOK, GapInv, [Next]_vars PROVE GapInv'
  OBVIOUS
<1>1. ASSUME NEW in \in Inputs, Call(in) PROVE GapInv'
  BY <1>1, InputType, CallGaps
<1>2. ASSUME InLoop, input' = input, dir' = dir, next' = next + 1,
             expected <= expected', SegEnd <= expected', expected' \in Nat
      PROVE  dir' \in Dirs => \A i \in DOMAIN input'[dir'] :
                i < next' => input'[dir'][i].seq + input'[dir'][i].len <= expected'
  <2>1. dir \in Dirs /\ next \in Nat /\ expected \in Nat /\ Seg = input[dir][next]
    BY <1>2 DEF InLoop, TypeOK, Seg
  <2> SUFFICES ASSUME NEW i \in DOMAIN input[dir], i < next + 1
               PROVE  input[dir][i].seq + input[dir][i].len <= expected'
    BY <1>2
  <2>2. CASE i = next
    BY <2>1, <2>2, <1>2 DEF SegEnd
  <2>3. CASE i # next
    <3>1. i < next /\ input[dir][i].seq \in Nat /\ input[dir][i].len \in Nat
      BY <2>1, <2>3, InputSegment
    <3>2. input[dir][i].seq + input[dir][i].len <= expected
      BY <3>1, <2>1 DEF GapInv
    <3> QED
      BY <3>1, <3>2, <2>1, <1>2
  <2> QED
    BY <2>2, <2>3
<1>3. ASSUME dir \in Dirs, dir' = dir + 1, next' = 1, input' = input
      PROVE  dir' \in Dirs => \A i \in DOMAIN input'[dir'] :
                i < next' => input'[dir'][i].seq + input'[dir'][i].len <= expected'
  <2>1. ASSUME dir' \in Dirs, NEW i \in DOMAIN input[dir'] PROVE ~(i < 1)
    <3>1. input[dir'] \in Seq(Segment)
      BY <2>1 DEF TypeOK
    <3> QED
      BY <3>1, <2>1
  <2> QED
    BY <2>1, <1>3
<1>4. CASE Overlapped
  <2>1. GapsAreMissing' /\ \A d \in Dirs : Sorted(input'[d])
    BY <1>4 DEF Overlapped, GapInv, GapsAreMissing
  <2>2. /\ InLoop /\ input' = input /\ dir' = dir /\ next' = next + 1
        /\ expected' = expected /\ SegEnd <= expected /\ expected \in Nat
    BY <1>4 DEF Overlapped, TypeOK
  <2> QED
    BY <2>1, <2>2, <1>2 DEF GapInv
<1>5. CASE Output
  <2>1. /\ InLoop /\ RecordGap /\ input' = input /\ dir' = dir /\ next' = next + 1
        /\ expected' = SegEnd /\ SegEnd > expected /\ SegEnd \in Nat /\ expected \in Nat
    BY <1>5, SegType DEF Output, ExpectedAfter, TypeOK
  <2>2. GapsAreMissing' /\ \A d \in Dirs : Sorted(input'[d])
    BY <2>1, GapRecorded DEF GapInv
  <2> HIDE DEF SegEnd
  <2> QED
    BY <2>1, <2>2, <1>2 DEF GapInv
<1>6. CASE CutOff
  <2>1. /\ InLoop /\ RecordGap /\ input' = input /\ dir \in Dirs /\ dir' = dir + 1
        /\ next' = 1
    BY <1>6 DEF CutOff, BuildNext, InLoop
  <2>2. GapsAreMissing' /\ \A d \in Dirs : Sorted(input'[d])
    BY <2>1, GapRecorded DEF GapInv
  <2> QED
    BY <2>1, <2>2, <1>3 DEF GapInv
<1>7. CASE EndOfDirection
  <2>1. /\ input' = input /\ gaps' = gaps /\ dir \in Dirs /\ dir' = dir + 1 /\ next' = 1
    BY <1>7 DEF EndOfDirection, BuildNext
  <2>2. GapsAreMissing' /\ \A d \in Dirs : Sorted(input'[d])
    BY <2>1 DEF GapInv, GapsAreMissing
  <2> QED
    BY <2>1, <2>2, <1>3 DEF GapInv
<1>8. CASE UNCHANGED vars
  BY <1>8 DEF vars, GapInv, GapsAreMissing
<1> QED
  BY <1>1, <1>4, <1>5, <1>6, <1>7, <1>8 DEF Next, Loop

\* A gap that the result lists is a range that was never captured, whatever the
\* segments around it (streams.js:42-47).
THEOREM GapsWereNotCaptured == Spec => []GapsAreMissing
<1>1. Init => GapInv
  <2> SUFFICES ASSUME Init PROVE GapInv
    OBVIOUS
  <2>1. \A d \in Dirs : input[d] = <<>>
    BY DEF Init
  <2> QED
    BY <2>1 DEF Init, GapInv, GapsAreMissing, Sorted
<1>2. GapInv => GapsAreMissing
  BY DEF GapInv
<1> QED
  BY <1>1, <1>2, GapStep, TypeCorrect, PTL DEF Spec

-----------------------------------------------------------------------------
(* The budget *)

LEMMA BudgetStep == TypeOK /\ BudgetIsKept /\ [Next]_vars => BudgetIsKept'
<1> SUFFICES ASSUME TypeOK, BudgetIsKept, [Next]_vars PROVE BudgetIsKept'
  OBVIOUS
<1>1. ASSUME NEW in \in Inputs, Call(in) PROVE BudgetIsKept'
  <2>1. /\ outLen'[0] = 0 /\ outLen'[1] = 0 /\ budget' = MaxReassembly /\ out' = <<>>
        /\ truncated' = FALSE
    BY <1>1 DEF Call
  <2> QED
    BY <2>1, InputType DEF BudgetIsKept
<1>2. ASSUME UNCHANGED <<out, outLen, budget>>, truncated' => truncated \/ budget <= 0
      PROVE  BudgetIsKept'
  <2>1. budget \in Nat
    BY DEF TypeOK
  <2> QED
    BY <1>2, <2>1 DEF BudgetIsKept
<1>3. CASE Overlapped \/ EndOfDirection \/ UNCHANGED vars
  BY <1>2, <1>3 DEF Overlapped, EndOfDirection, vars
<1>4. CASE CutOff
  BY <1>2, <1>4 DEF CutOff
<1>5. CASE Output
  <2> DEFINE n == Len(out)
             piece == NewPiece
             f == Fitting
             Size(o) == o.to - o.from
  <2>1. /\ n \in Nat /\ DOMAIN out = 1..n /\ DOMAIN out' = 1..(n + 1)
        /\ \A k \in 1..n : out'[k] = out[k] /\ out[k] \in Piece
        /\ out'[n + 1] = piece
    BY <1>5, OutputGrows
  <2>2. f \in Nat \ {0} /\ f <= budget /\ dir \in Dirs /\ From \in Nat
        /\ (SegEnd - From > budget => f = budget)
    BY <1>5, PieceType DEF Output, InLoop, Fitting
  <2>3. piece.dir = dir /\ piece.offset = outLen[dir] /\ Size(piece) = f
        /\ piece.from < piece.to
    BY <2>2 DEF NewPiece
  <2>4. /\ outLen' = [outLen EXCEPT ![dir] = outLen[dir] + f] /\ budget' = budget - f
        /\ truncated' = (truncated \/ SegEnd - From > budget) /\ budget > 0
    BY <1>5 DEF Output
  <2>5. outLen \in [Dirs -> Nat] /\ budget \in Nat /\ MaxReassembly \in Nat
    BY InputType DEF TypeOK
  <2> HIDE DEF f, piece, n
  <2>6. outLen'[0] + outLen'[1] + budget' = MaxReassembly
    BY <2>2, <2>4, <2>5 DEF BudgetIsKept
  <2>7. truncated' => budget' = 0
    <3> DEFINE cut == SegEnd - From > budget
    <3>1. ~truncated
      <4>1. truncated => budget = 0
        BY DEF BudgetIsKept
      <4>2. budget # 0
        BY <2>4, <2>5
      <4> QED
        BY <4>1, <4>2
    <3>2. cut => f = budget
      BY <2>2
    <3> HIDE DEF cut
    <3>3. cut => budget' = 0
      BY <3>2, <2>4, <2>5
    <3>4. truncated' = (truncated \/ cut)
      BY <2>4 DEF cut
    <3> QED
      BY <3>1, <3>3, <3>4, Zenon
  <2>8. \A d \in Dirs : outLen[d] <= outLen'[d] /\ outLen'[d] \in Nat
    BY <2>2, <2>4, <2>5
  <2>9. outLen'[dir] = outLen[dir] + f
    BY <2>2, <2>4, <2>5
  <2>10. \A k \in 1..n : /\ out[k].from < out[k].to /\ out[k].dir \in Dirs
                         /\ out[k].offset \in Nat /\ out[k].from \in Nat /\ out[k].to \in Nat
                         /\ out[k].offset + Size(out[k]) <= outLen[out[k].dir]
    BY <2>1 DEF BudgetIsKept, Piece
  <2>11. ASSUME NEW k \in 1..(n + 1)
         PROVE  /\ out'[k].from < out'[k].to
                /\ out'[k].offset + Size(out'[k]) <= outLen'[out'[k].dir]
    <3>1. CASE k \in 1..n
      <4>1. out'[k] = out[k] /\ outLen[out[k].dir] \in Nat
        BY <3>1, <2>1, <2>5, <2>10
      <4> QED
        BY <3>1, <4>1, <2>8, <2>10
    <3>2. CASE k = n + 1
      BY <3>2, <2>1, <2>2, <2>3, <2>9, <2>5
    <3> QED
      BY <3>1, <3>2, <2>1
  <2>12. ASSUME NEW k \in 1..(n + 1), NEW j \in 1..(n + 1), j < k,
                out'[j].dir = out'[k].dir
         PROVE  out'[j].offset + Size(out'[j]) <= out'[k].offset
    <3>1. CASE k \in 1..n
      BY <3>1, <2>1, <2>12 DEF BudgetIsKept
    <3>2. CASE k = n + 1
      <4>1. j \in 1..n
        BY <3>2, <2>1, <2>12
      <4> QED
        BY <3>2, <4>1, <2>1, <2>3, <2>10, <2>12
    <3> QED
      BY <3>1, <3>2, <2>1
  <2> QED
    BY <2>1, <2>6, <2>7, <2>11, <2>12 DEF BudgetIsKept
<1> QED
  BY <1>1, <1>3, <1>4, <1>5 DEF Next, Loop

\* Both directions together stay within MAX_REASSEMBLY, fill it exactly when the
\* result says it is truncated, and no two pieces of one share offsets
\* (streams.js:51-57).
THEOREM WithinBudget == Spec => []BudgetIsKept
<1>1. Init => BudgetIsKept
  BY InputType DEF Init, BudgetIsKept
<1> QED
  BY <1>1, BudgetStep, TypeCorrect, PTL DEF Spec
-----------------------------------------------------------------------------
(* Nothing is lost *)

\* A piece of the output o brought position b of direction d.
Brought(o, d, b) == \E k \in DOMAIN o : o[k].dir = d /\ o[k].from <= b /\ b < o[k].to

\* The part of a segment still to come that lies before the expected position has
\* been output.
LossInv ==
    /\ \A d \in Dirs : Sorted(input[d])
    /\ ~truncated /\ dir \in Dirs => \A i \in DOMAIN input[dir] : next <= i =>
          \A b \in Nat : input[dir][i].seq <= b /\ b < expected => Brought(out, dir, b)
    /\ NothingLost

\* All positions of a segment.
AllBrought(o, d, s) ==
    \A b \in Nat : s.seq <= b /\ b < s.seq + s.len => Brought(o, d, b)

\* Present, said of positions that are numbers.
LEMMA PresentBrought ==
    ASSUME NEW o, NEW d, NEW s, s.seq \in Nat, s.len \in Nat
    PROVE  (\A b \in s.seq..(s.seq + s.len - 1) :
               \E k \in DOMAIN o : o[k].dir = d /\ o[k].from <= b /\ b < o[k].to)
           <=> AllBrought(o, d, s)
<1>1. \A b : b \in s.seq..(s.seq + s.len - 1) <=>
             b \in Nat /\ s.seq <= b /\ b < s.seq + s.len
  OBVIOUS
<1> QED
  BY <1>1 DEF AllBrought, Brought

\* A sorted list starts with its lowest position.
LEMMA StartLowest ==
    ASSUME NEW s \in Seq(Segment), Sorted(s), NEW i \in DOMAIN s
    PROVE  Start(s) <= s[i].seq
<1>1. /\ i \in 1..Len(s) /\ 1 \in DOMAIN s /\ s # <<>>
      /\ s[1] \in Segment /\ s[i] \in Segment
  OBVIOUS
<1>2. s[1].seq \in Nat /\ s[i].seq \in Nat
  BY <1>1 DEF Segment
<1>3. CASE i = 1
  BY <1>1, <1>2, <1>3 DEF Start
<1>4. CASE 1 < i
  <2>1. s[1].seq < s[i].seq \/ s[1].seq = s[i].seq
    BY <1>1, <1>4 DEF Sorted
  <2> QED
    BY <1>1, <1>2, <2>1 DEF Start
<1> QED
  BY <1>1, <1>3, <1>4

\* A turn of the loop passes one segment.
LEMMA PassedOne ==
    ASSUME TypeOK, InLoop, input' = input, dir' = dir, next' = next + 1,
           AllBrought(out', dir, input[dir][next])
    PROVE  \A d \in Dirs : \A i \in Passed(d)' :
              i \in Passed(d) \/ AllBrought(out', d, input[d][i])
<1> SUFFICES ASSUME NEW d \in Dirs, NEW i \in Passed(d)', ~(i \in Passed(d))
             PROVE  AllBrought(out', d, input[d][i])
  OBVIOUS
<1>1. i \in DOMAIN input[d] /\ i \in Nat /\ next \in Nat
  BY InputSegment DEF Passed, TypeOK
<1>2. d = dir /\ i = next
  BY <1>1 DEF Passed, InLoop
<1> QED
  BY <1>2

\* What was passed and output stays so when the output stays or grows.
LEMMA PresentKept ==
    ASSUME TypeOK, NothingLost, ~truncated, input' = input,
           \A d \in Dirs : \A b \in Nat : Brought(out, d, b) => Brought(out', d, b),
           \A d \in Dirs : \A i \in Passed(d)' :
              i \in Passed(d) \/ AllBrought(out', d, input[d][i])
    PROVE  NothingLost'
<1> SUFFICES ASSUME NEW d \in Dirs, NEW i \in Passed(d)' PROVE Present(d, i)'
  BY DEF NothingLost
<1>1. i \in DOMAIN input[d]
  BY DEF Passed
<1>2. input[d][i].seq \in Nat /\ input[d][i].len \in Nat
  BY <1>1, InputSegment
<1>3. AllBrought(out', d, input[d][i])
  <2>1. CASE i \in Passed(d)
    <3>1. Present(d, i)
      BY <2>1 DEF NothingLost
    <3>2. AllBrought(out, d, input[d][i])
      BY <3>1, <1>2, PresentBrought DEF Present
    <3> QED
      BY <3>2 DEF AllBrought
  <2>2. CASE i \notin Passed(d)
    BY <2>2
  <2> QED
    BY <2>1, <2>2
<1> QED
  BY <1>2, <1>3, PresentBrought DEF Present

\* The output brings the bytes of the segment the loop is at, unless it is cut; up
\* to its end, so do the earlier pieces and the new one together for the segments
\* after it, which start no earlier.
LEMMA OutputBrings ==
    ASSUME TypeOK, LossInv, Output, ~truncated',
           NEW i \in DOMAIN input[dir], next <= i,
           NEW b \in Nat, input[dir][i].seq <= b, b < SegEnd
    PROVE  Brought(out', dir, b)
<1>1. /\ InLoop /\ dir \in Dirs /\ next \in DOMAIN input[dir] /\ Seg = input[dir][next]
      /\ Seg.seq \in Nat /\ SegEnd \in Nat /\ expected \in Nat /\ next \in Nat
      /\ budget \in Nat
  BY SegType DEF Output, InLoop, Seg, TypeOK
<1>2. ~truncated /\ ~(SegEnd - From > budget)
  BY DEF Output, TypeOK
<1>3. From \in Nat /\ From + Fitting = SegEnd
  <2>1. From \in Nat /\ From < SegEnd
    BY PieceType, <1>1 DEF Output
  <2>2. Fitting = SegEnd - From
    BY <1>2 DEF Fitting
  <2> QED
    BY <2>1, <2>2, <1>1
<1>4. Seg.seq <= input[dir][i].seq
  <2>1. Sorted(input[dir]) /\ i \in Nat /\ input[dir][i].seq \in Nat
    BY <1>1, InputSegment DEF LossInv
  <2>2. CASE i = next
    BY <2>2, <1>1
  <2>3. CASE next < i
    <3>1. Seg.seq < input[dir][i].seq \/ Seg.seq = input[dir][i].seq
      BY <2>1, <2>3, <1>1 DEF Sorted
    <3> QED
      BY <3>1, <2>1, <1>1
  <2> QED
    BY <2>1, <2>2, <2>3, <1>1
<1>5. /\ Len(out) \in Nat /\ DOMAIN out = 1..Len(out)
      /\ DOMAIN out' = 1..(Len(out) + 1)
      /\ \A k \in 1..Len(out) : out'[k] = out[k]
      /\ out'[Len(out) + 1] = NewPiece
  BY OutputGrows
<1>6. CASE From <= b
  <2>1. NewPiece.dir = dir /\ NewPiece.from <= b /\ b < NewPiece.to
    BY <1>3, <1>6 DEF NewPiece
  <2> HIDE DEF NewPiece
  <2>2. Len(out) + 1 \in DOMAIN out'
    BY <1>5
  <2> QED
    BY <2>1, <2>2, <1>5 DEF Brought
<1>7. CASE b < From
  <2>1. From = expected
    <3>1. input[dir][i].seq \in Nat
      BY <1>1, InputSegment
    <3>2. ~(From = Seg.seq)
      BY <3>1, <1>1, <1>3, <1>4, <1>7
    <3> QED
      BY <3>2 DEF From
  <2>2. Brought(out, dir, b)
    BY <2>1, <1>1, <1>2, <1>7 DEF LossInv
  <2>3. PICK k \in 1..Len(out) : out[k].dir = dir /\ out[k].from <= b /\ b < out[k].to
    BY <2>2, <1>5 DEF Brought
  <2>4. k \in DOMAIN out' /\ out'[k] = out[k]
    BY <2>3, <1>5
  <2> QED
    BY <2>3, <2>4 DEF Brought
<1> QED
  BY <1>3, <1>6, <1>7

\* Going on to the next direction: the loop was through with the whole of this one.
LEMMA LossNext ==
    ASSUME TypeOK, TypeOK', LossInv, ~truncated, dir \in Dirs, BuildNext,
           input' = input, out' = out, next > Len(input[dir])
    PROVE  LossInv'
<1>1. \A d \in Dirs : \A i \in Passed(d)' : i \in Passed(d)
  <2> SUFFICES ASSUME NEW d \in Dirs, NEW i \in Passed(d)' PROVE i \in Passed(d)
    OBVIOUS
  <2>1. /\ i \in DOMAIN input[d] /\ i \in 1..Len(input[d]) /\ Len(input[d]) \in Nat
        /\ d < dir' \/ (d = dir' /\ i < next')
    <3>1. i \in DOMAIN input[d] /\ (d < dir' \/ (d = dir' /\ i < next'))
      BY DEF Passed
    <3>2. input[d] \in Seq(Segment)
      BY DEF TypeOK
    <3> QED
      BY <3>1, <3>2
  <2>2. d < dir \/ d = dir
    BY <2>1 DEF BuildNext
  <2>3. d = dir => i < next
    <3>1. ASSUME d = dir PROVE i <= Len(input[dir]) /\ next \in Nat
                               /\ Len(input[dir]) \in Nat
      BY <3>1, <2>1 DEF TypeOK
    <3> QED
      BY <3>1, <2>1
  <2> QED
    BY <2>1, <2>2, <2>3 DEF Passed
<1>2. NothingLost'
  BY <1>1, PresentKept DEF LossInv
<1>3. ASSUME dir' \in Dirs, NEW i \in DOMAIN input'[dir'], NEW b \in Nat,
             input'[dir'][i].seq <= b, b < expected'
      PROVE  FALSE
  <2>1. dir' = 1 /\ dir = 0 /\ expected' = Start(input[1]) /\ input' = input
    BY <1>3 DEF BuildNext
  <2>2. input[1] \in Seq(Segment) /\ Sorted(input[1]) /\ i \in DOMAIN input[1]
    BY <1>3, <2>1 DEF TypeOK, LossInv
  <2>3. Start(input[1]) <= input[1][i].seq /\ Start(input[1]) \in Nat
    BY <2>2, StartLowest, StartType
  <2>4. input[1][i].seq \in Nat
    BY <2>2, InputSegment
  <2> QED
    BY <1>3, <2>1, <2>3, <2>4
<1> QED
  BY <1>2, <1>3 DEF LossInv

LEMMA CallLoses ==
    ASSUME NEW in, Callable(in), Call(in) PROVE LossInv'
<1>1. \A d \in Dirs : Sorted(in[d]) /\ in[d] \in Seq(Segment)
  BY DEF Callable
<1>2. input' = in /\ next' = 1 /\ dir' = 0 /\ expected' = Start(in[0])
  BY DEF Call
<1>3. \A d \in Dirs : \A i \in DOMAIN in[d] : i \in Nat /\ 1 <= i
  BY <1>1
<1>4. \A d \in Dirs : Passed(d)' = {}
  BY <1>2, <1>3 DEF Passed
<1>5. \A i \in DOMAIN in[0] : Start(in[0]) <= in[0][i].seq
  BY <1>1, StartLowest
<1>6. Start(in[0]) \in Nat /\ \A i \in DOMAIN in[0] : in[0][i].seq \in Nat
  <2>1. \A i \in DOMAIN in[0] : in[0][i] \in Segment
    BY <1>1
  <2> QED
    BY <2>1, <1>1, StartType DEF Segment
<1>7. \A i \in DOMAIN in[0] : \A b \in Nat : ~(in[0][i].seq <= b /\ b < Start(in[0]))
  BY <1>5, <1>6
<1> QED
  BY <1>1, <1>2, <1>4, <1>7 DEF LossInv, NothingLost

LEMMA LossStep == TypeOK /\ TypeOK' /\ LossInv /\ [Next]_vars => LossInv'
<1> SUFFICES ASSUME TypeOK, TypeOK', LossInv, [Next]_vars PROVE LossInv'
  OBVIOUS
<1>1. ASSUME NEW in \in Inputs, Call(in) PROVE LossInv'
  BY <1>1, InputType, CallLoses
<1>2. CASE Overlapped
  <2>1. /\ InLoop /\ input' = input /\ dir' = dir /\ next' = next + 1 /\ out' = out
        /\ expected' = expected /\ truncated' = truncated /\ SegEnd <= expected
    BY <1>2 DEF Overlapped
  <2>2. /\ dir \in Dirs /\ next \in DOMAIN input[dir] /\ Seg = input[dir][next]
        /\ next \in Nat /\ SegEnd \in Nat /\ expected \in Nat
    BY <2>1, SegType DEF InLoop, TypeOK, Seg
  <2>3. ASSUME ~truncated PROVE NothingLost'
    <3>1. next <= next
      BY <2>2
    <3>2. AllBrought(out', dir, input[dir][next])
      BY <3>1, <2>1, <2>2, <2>3, InputSegment DEF LossInv, SegEnd, AllBrought
    <3>3. \A d \in Dirs : \A i \in Passed(d)' :
             i \in Passed(d) \/ AllBrought(out', d, input[d][i])
      BY <3>2, <2>1, PassedOne
    <3> QED
      BY <3>3, <2>1, <2>3, PresentKept DEF LossInv
  <2>4. \A i \in DOMAIN input[dir] : next' <= i => next <= i
    BY <2>1, <2>2, InputSegment
  <2>5. truncated => NothingLost'
    BY <2>1 DEF NothingLost
  <2> QED
    BY <2>1, <2>3, <2>4, <2>5 DEF LossInv
<1>3. CASE Output
  <2>1. /\ InLoop /\ input' = input /\ dir' = dir /\ next' = next + 1
        /\ expected' = SegEnd
    BY <1>3 DEF Output, ExpectedAfter
  <2>2. /\ dir \in Dirs /\ next \in DOMAIN input[dir] /\ Seg = input[dir][next]
        /\ next \in Nat
    BY <2>1, SegType DEF InLoop, TypeOK, Seg
  <2>3. \A i \in DOMAIN input[dir] : next' <= i => next <= i
    BY <2>1, <2>2, InputSegment
  <2>4. ASSUME ~truncated', NEW i \in DOMAIN input[dir], next <= i, NEW b \in Nat,
               input[dir][i].seq <= b, b < SegEnd
        PROVE  Brought(out', dir, b)
    BY <2>4, <1>3, OutputBrings
  <2>5. ASSUME ~truncated' PROVE NothingLost'
    <3>1. ~truncated
      BY <2>5, <1>3 DEF Output
    <3>2. AllBrought(out', dir, input[dir][next])
      <4>1. next <= next
        BY <2>2
      <4> QED
        BY <4>1, <2>2, <2>4, <2>5 DEF AllBrought, SegEnd
    <3>3. \A d \in Dirs : \A i \in Passed(d)' :
             i \in Passed(d) \/ AllBrought(out', d, input[d][i])
      BY <3>2, <2>1, PassedOne
    <3>4. \A d \in Dirs : \A b \in Nat : Brought(out, d, b) => Brought(out', d, b)
      <4>1. \A k \in DOMAIN out : k \in DOMAIN out' /\ out'[k] = out[k]
        BY <1>3, OutputGrows
      <4> QED
        BY <4>1 DEF Brought
    <3> QED
      BY <3>1, <3>3, <3>4, <2>1, PresentKept DEF LossInv
  <2>6. truncated' => NothingLost'
    BY DEF NothingLost
  <2> HIDE DEF SegEnd
  <2> QED
    BY <2>1, <2>2, <2>3, <2>4, <2>5, <2>6 DEF LossInv
<1>4. CASE CutOff
  BY <1>4 DEF CutOff, LossInv, NothingLost
<1>5. CASE EndOfDirection
  <2>1. /\ input' = input /\ out' = out /\ truncated' = truncated /\ dir \in Dirs
        /\ BuildNext /\ next > Len(input[dir])
    BY <1>5 DEF EndOfDirection
  <2>2. CASE truncated
    BY <2>1, <2>2 DEF LossInv, NothingLost
  <2>3. CASE ~truncated
    BY <2>1, <2>3, LossNext
  <2> QED
    BY <2>2, <2>3
<1>6. CASE UNCHANGED vars
  BY <1>6 DEF vars, LossInv, NothingLost, Passed, Present
<1> QED
  BY <1>1, <1>2, <1>3, <1>4, <1>5, <1>6 DEF Next, Loop

\* A byte that was captured is in the output unless the cap cut it off: skipping and
\* trimming segments drops only what another one brought (streams.js:38-59).
THEOREM EveryByteKept == Spec => []NothingLost
<1>1. Init => LossInv
  <2> SUFFICES ASSUME Init PROVE LossInv
    OBVIOUS
  <2>1. dir = 2 /\ \A d \in Dirs : input[d] = <<>>
    BY DEF Init
  <2>2. \A d \in Dirs : Passed(d) = {}
    BY <2>1 DEF Passed
  <2> QED
    BY <2>1, <2>2 DEF LossInv, NothingLost, Sorted
<1>2. LossInv => NothingLost
  BY DEF LossInv
<1> QED
  BY <1>1, <1>2, LossStep, TypeCorrect, PTL DEF Spec

-----------------------------------------------------------------------------
(* The packets that output is traced to *)

\* `before` puts the places of D in a total order, equal ranks as they come.
Orders(D, before) ==
    /\ \A i, j \in D : NotAfter(before, i, j) \/ NotAfter(before, j, i)
    /\ \A i, j \in D : NotAfter(before, i, j) /\ NotAfter(before, j, i) => i = j
    /\ \A i, j, k \in D : NotAfter(before, i, j) /\ NotAfter(before, j, k) => NotAfter(before, i, k)

\* The elements of r are those of s, and their places in s are in order.
SameElements(s, before, r) ==
    /\ \E N \in Nat : N = Cardinality(DOMAIN s) /\ DOMAIN r = 1 .. N
    /\ \A k \in DOMAIN s : \E n \in DOMAIN r : r[n] = s[k]
    /\ \E at : \A n \in DOMAIN r :
          /\ at[n] \in DOMAIN s /\ r[n] = s[at[n]]
          /\ \A m \in DOMAIN r : m <= n => NotAfter(before, at[m], at[n])

\* Sorting puts the same elements at new places, in order.
LEMMA SortIsAPermutation ==
    ASSUME NEW s, NEW before, IsFiniteSet(DOMAIN s), Orders(DOMAIN s, before)
    PROVE  SameElements(s, before, InOrder(s, before))
<1> DEFINE D == DOMAIN s
           N == Cardinality(D)
           R == {p \in D \X D : NotAfter(before, p[1], p[2])}
           below == [i \in D |-> {j \in D : NotAfter(before, j, i)}]
           rank == [i \in D |-> Cardinality(below[i])]
           at == [n \in 1 .. N |-> CHOOSE i \in D : Place(s, before, i) = n]
<1>1. \A i \in D : Place(s, before, i) = rank[i]
  <2> SUFFICES ASSUME NEW i \in D PROVE Place(s, before, i) = rank[i]
    OBVIOUS
  <2>1. Place(s, before, i) = Cardinality({j \in D : NotAfter(before, j, i)})
    BY ONLY DEF Place
  <2>2. rank[i] = Cardinality({j \in D : NotAfter(before, j, i)})
    BY ONLY i \in D
  <2> QED
    BY ONLY <2>1, <2>2
<1>2. /\ \A i \in D : rank[i] \in 1 .. N
      /\ \A i, j \in D : rank[i] = rank[j] => i = j
      /\ \A n \in 1 .. N : \E i \in D : rank[i] = n
      /\ \A i, j \in D : rank[i] <= rank[j] <=> <<i, j>> \in R
  <2>1. \A i \in D : \A j : j \in below[i] <=> j \in D /\ <<j, i>> \in R
    OBVIOUS
  <2>2. \A i, j \in D : <<i, j>> \in R <=> NotAfter(before, i, j)
    OBVIOUS
  <2>3. \A i \in D : rank[i] = Cardinality(below[i])
    OBVIOUS
  <2> HIDE DEF R, below, rank
  <2>4. \A i \in D : <<i, i>> \in R
    BY <2>2 DEF Orders
  <2>5. /\ \A i, j \in D : <<i, j>> \in R \/ <<j, i>> \in R
        /\ \A i, j \in D : <<i, j>> \in R /\ <<j, i>> \in R => i = j
        /\ \A i, j, k \in D : <<i, j>> \in R /\ <<j, k>> \in R => <<i, k>> \in R
    BY <2>2 DEF Orders
  <2>6. Ranking(D, R, below, rank)
    BY <2>1, <2>3, <2>4, <2>5 DEF Ranking
  <2> QED
    BY <2>6, OneOfEachRank
<1>3. N \in Nat
  BY FS_CardinalityType
<1>4. \A i, j \in D : <<i, j>> \in R <=> NotAfter(before, i, j)
  OBVIOUS
<1>5. /\ DOMAIN InOrder(s, before) = 1 .. N
      /\ \A n \in 1 .. N : InOrder(s, before)[n] = s[at[n]]
  <2>1. InOrder(s, before) = [n \in 1 .. N |-> s[CHOOSE i \in D : Place(s, before, i) = n]]
    BY ONLY DEF InOrder
  <2>2. \A n \in 1 .. N : at[n] = CHOOSE i \in D : Place(s, before, i) = n
    OBVIOUS
  <2> HIDE DEF at, N, D
  <2> QED
    BY ONLY <2>1, <2>2
<1> HIDE DEF R, rank
<1>6. \A n \in 1 .. N : at[n] \in D /\ rank[at[n]] = n
  <2> SUFFICES ASSUME NEW n \in 1 .. N PROVE at[n] \in D /\ rank[at[n]] = n
    OBVIOUS
  <2>1. \E i \in D : Place(s, before, i) = n
    BY <1>1, <1>2
  <2> QED
    BY <1>1, <2>1
<1> HIDE DEF at
<1>7. ASSUME NEW k \in D PROVE \E n \in 1 .. N : InOrder(s, before)[n] = s[k]
  <2>1. rank[k] \in 1 .. N /\ at[rank[k]] = k
    BY <1>2, <1>6, <1>7
  <2> QED
    BY <1>5, <2>1
<1>8. \A n, m \in 1 .. N : m <= n => NotAfter(before, at[m], at[n])
  <2> SUFFICES ASSUME NEW n \in 1 .. N, NEW m \in 1 .. N, m <= n PROVE NotAfter(before, at[m], at[n])
    OBVIOUS
  <2>1. at[m] \in D /\ at[n] \in D /\ rank[at[m]] <= rank[at[n]]
    BY <1>6
  <2> QED
    BY ONLY <1>2, <1>4, <2>1
<1> HIDE DEF N
<1>9. \E M \in Nat : M = Cardinality(DOMAIN s) /\ DOMAIN InOrder(s, before) = 1 .. M
  BY ONLY <1>3, <1>5 DEF N
<1> QED
  BY ONLY <1>5, <1>6, <1>7, <1>8, <1>9 DEF SameElements

\* Two numbers and the place are compared in turn.
LEMMA RankOrders ==
    ASSUME NEW D \in SUBSET Nat, NEW before, NEW x, NEW y, \A i \in D : x[i] \in Nat /\ y[i] \in Nat,
           \A i, j \in D : NotAfter(before, i, j)
              <=> \/ x[i] < x[j]
                  \/ x[i] = x[j] /\ y[i] < y[j]
                  \/ x[i] = x[j] /\ y[i] = y[j] /\ i <= j
    PROVE  Orders(D, before)
BY DEF Orders

\* The pieces are output in one order and listed in another, but they are the same pieces.
LEMMA FollowIsOut ==
    ASSUME TypeOK
    PROVE  /\ DOMAIN Follow = DOMAIN out
           /\ \A n \in DOMAIN out : \E k \in DOMAIN out : Follow[n] = out[k]
           /\ \A k \in DOMAIN out : \E n \in DOMAIN out : Follow[n] = out[k]
<1> DEFINE before == {p \in (DOMAIN out) \X (DOMAIN out) : Earlier(out[p[1]], out[p[2]])}
<1>1. /\ Len(out) \in Nat /\ DOMAIN out = 1 .. Len(out)
      /\ \A k \in DOMAIN out : out[k].ts \in Nat /\ out[k].pkt \in Nat
  <2>1. Len(out) \in Nat /\ DOMAIN out = 1 .. Len(out) /\ \A k \in DOMAIN out : out[k] \in Piece
    BY DEF TypeOK
  <2> QED
    BY <2>1 DEF Piece
<1>2. IsFiniteSet(DOMAIN out) /\ Cardinality(DOMAIN out) = Len(out)
  BY <1>1, FS_Interval
<1>3. Orders(DOMAIN out, before)
  <2>1. \A i, j \in DOMAIN out : <<i, j>> \in before <=> Earlier(out[i], out[j])
    OBVIOUS
  <2> HIDE DEF before
  <2>2. \A i, j \in DOMAIN out : NotAfter(before, i, j)
            <=> (Earlier(out[i], out[j]) \/ (i <= j /\ ~Earlier(out[j], out[i])))
    BY <2>1 DEF NotAfter
  <2>3. \A i, j \in DOMAIN out : NotAfter(before, i, j)
            <=> \/ out[i].ts < out[j].ts
                \/ out[i].ts = out[j].ts /\ out[i].pkt < out[j].pkt
                \/ out[i].ts = out[j].ts /\ out[i].pkt = out[j].pkt /\ i <= j
    BY <1>1, <2>2 DEF Earlier
  <2> QED
    <3> DEFINE x == [i \in DOMAIN out |-> out[i].ts]
               y == [i \in DOMAIN out |-> out[i].pkt]
    <3>1. \A i \in DOMAIN out : x[i] = out[i].ts /\ y[i] = out[i].pkt
      OBVIOUS
    <3> HIDE DEF x, y
    <3>2. \A i \in DOMAIN out : x[i] \in Nat /\ y[i] \in Nat
      BY <1>1, <3>1
    <3>3. \A i, j \in DOMAIN out : NotAfter(before, i, j)
              <=> \/ x[i] < x[j]
                  \/ x[i] = x[j] /\ y[i] < y[j]
                  \/ x[i] = x[j] /\ y[i] = y[j] /\ i <= j
      BY ONLY <2>3, <3>1
    <3>4. DOMAIN out \in SUBSET Nat
      BY <1>1
    <3> QED
      BY ONLY <3>2, <3>3, <3>4, RankOrders
<1>4. Follow = InOrder(out, before)
  BY DEF Follow
<1> HIDE DEF before
<1>5. SameElements(out, before, Follow)
  BY ONLY <1>2, <1>3, <1>4, SortIsAPermutation
<1> QED
  BY ONLY <1>1, <1>2, <1>5 DEF SameElements

\* A piece is of one segment of its direction, and of that segment's packet.
OriginInv ==
    \A k \in DOMAIN out : \E i \in DOMAIN input[out[k].dir] :
        LET s == input[out[k].dir][i]
        IN  s.pkt = out[k].pkt /\ s.seq <= out[k].from /\ out[k].to <= s.seq + s.len

LEMMA OriginStep == TypeOK /\ OriginInv /\ [Next]_vars => OriginInv'
<1> SUFFICES ASSUME TypeOK, OriginInv, [Next]_vars PROVE OriginInv'
  OBVIOUS
<1>1. ASSUME NEW in \in Inputs, Call(in) PROVE OriginInv'
  <2>1. out' = <<>>
    BY <1>1 DEF Call
  <2> QED
    BY <2>1 DEF OriginInv
<1>2. CASE UNCHANGED <<out, input>>
  BY <1>2 DEF OriginInv
<1>3. CASE Overlapped \/ EndOfDirection \/ CutOff \/ UNCHANGED vars
  BY <1>2, <1>3 DEF Overlapped, EndOfDirection, CutOff, vars
<1>4. CASE Output
  <2> DEFINE n == Len(out)
             piece == NewPiece
  <2>1. /\ n \in Nat /\ DOMAIN out = 1..n /\ DOMAIN out' = 1..(n + 1)
        /\ \A k \in 1..n : out'[k] = out[k] /\ out[k] \in Piece
        /\ out'[n + 1] = piece
    BY <1>4, OutputGrows
  <2>2. InLoop /\ SegEnd > expected /\ budget > 0 /\ input' = input
    BY <1>4 DEF Output
  <2>3. next \in DOMAIN input[dir] /\ Seg.seq <= From /\ From + Fitting <= SegEnd
    BY <2>2, SegType, PieceType
  <2>4. piece.dir = dir /\ piece.pkt = Seg.pkt /\ piece.from = From /\ piece.to = From + Fitting
    BY DEF NewPiece
  <2> HIDE DEF piece, n
  <2>5. ASSUME NEW k \in 1..(n + 1)
        PROVE  \E i \in DOMAIN input[out'[k].dir] :
                  LET s == input[out'[k].dir][i]
                  IN  s.pkt = out'[k].pkt /\ s.seq <= out'[k].from /\ out'[k].to <= s.seq + s.len
    <3>1. CASE k \in 1..n
      BY <2>1, <3>1 DEF OriginInv
    <3>2. CASE k = n + 1
      BY <2>1, <2>3, <2>4, <3>2 DEF Seg, SegEnd
    <3> QED
      BY <2>1, <3>1, <3>2
  <2> QED
    BY <2>1, <2>2, <2>5 DEF OriginInv
<1> QED
  BY <1>1, <1>3, <1>4 DEF Next, Loop

\* The offsets of the pieces of a direction are disjoint, so an offset has one piece.
LEMMA OffsetsFollow == TypeOK /\ BudgetIsKept /\ OriginInv => OffsetsAreTraced
<1> SUFFICES ASSUME TypeOK, BudgetIsKept, OriginInv, NEW k \in DOMAIN out,
                    NEW b \in out[k].from..(out[k].to - 1)
             PROVE  \E i \in DOMAIN input[out[k].dir] :
                       LET s == input[out[k].dir][i]
                       IN  /\ s.pkt = offsetToPkt(Follow, out[k].dir, out[k].offset + (b - out[k].from))
                           /\ s.seq <= b /\ b < s.seq + s.len
  BY DEF OffsetsAreTraced
<1> DEFINE d == out[k].dir
           off == out[k].offset + (b - out[k].from)
           Size(o) == o.to - o.from
           before == {n \in DOMAIN Follow : Follow[n].dir = d /\ Follow[n].offset <= off}
           holding == {n \in before : off < Follow[n].offset + Size(Follow[n])}
<1>1. /\ Len(out) \in Nat /\ DOMAIN out = 1 .. Len(out)
      /\ \A j \in DOMAIN out : /\ out[j] \in Piece /\ out[j].offset \in Nat /\ out[j].from \in Nat
                               /\ out[j].to \in Nat /\ out[j].from < out[j].to
  <2>1. Len(out) \in Nat /\ DOMAIN out = 1 .. Len(out) /\ \A j \in DOMAIN out : out[j] \in Piece
    BY DEF TypeOK
  <2> QED
    BY <2>1 DEF Piece, BudgetIsKept
<1>2. off \in Nat /\ out[k].offset <= off /\ off < out[k].offset + Size(out[k]) /\ b \in Nat
  BY <1>1
<1>3. ASSUME NEW j \in DOMAIN out, out[j].dir = d, out[j].offset <= off, off < out[j].offset + Size(out[j])
      PROVE  j = k
  <2>1. j < k => out[j].offset + Size(out[j]) <= out[k].offset
    BY <1>3 DEF BudgetIsKept
  <2>2. k < j => out[k].offset + Size(out[k]) <= out[j].offset
    BY <1>3 DEF BudgetIsKept
  <2>3. j \in Nat /\ k \in Nat
    BY <1>1
  <2>4. \A i \in {j, k} : out[i].offset \in Nat /\ out[i].from \in Nat /\ out[i].to \in Nat
    BY <1>1
  <2>5. off < out[j].offset + Size(out[j]) /\ out[j].offset <= off
        /\ off < out[k].offset + Size(out[k]) /\ out[k].offset <= off /\ off \in Nat
    BY <1>2, <1>3
  <2> HIDE DEF off
  <2>6. ~(j < k) /\ ~(k < j)
    BY ONLY <2>1, <2>2, <2>4, <2>5
  <2> QED
    BY ONLY <2>3, <2>6
<1> HIDE DEF off
<1>4. ASSUME NEW n \in holding PROVE Follow[n] = out[k]
  <2>1. PICK j \in DOMAIN out : Follow[n] = out[j]
    BY FollowIsOut
  <2> QED
    BY <1>3, <1>4, <2>1
<1>5. holding \in SUBSET (1 .. Len(out)) /\ holding # {}
  <2>1. PICK n \in DOMAIN out : Follow[n] = out[k]
    BY FollowIsOut
  <2>2. n \in holding
    BY <1>2, <2>1, FollowIsOut
  <2> QED
    BY <1>1, <2>2, FollowIsOut
<1>6. offsetToPkt(Follow, d, off) = out[k].pkt
  <2> DEFINE least == CHOOSE n \in holding : \A x \in holding : n <= x
  <2>1. least \in holding
    <3>1. \E n \in holding : \A x \in holding : n <= x
      BY <1>1, <1>5, MinOfSome
    <3> HIDE DEF holding
    <3> QED
      BY <3>1
  <2>2. offsetToPkt(Follow, d, off) = Follow[least].pkt
    <3>1. least = Min(holding)
      BY DEF Min
    <3> HIDE DEF least
    <3> QED
      BY ONLY <1>5, <3>1 DEF offsetToPkt
  <2> HIDE DEF least
  <2> QED
    BY <1>4, <2>1, <2>2
<1>7. PICK i \in DOMAIN input[d] : /\ input[d][i].pkt = out[k].pkt /\ input[d][i].seq <= out[k].from
                                   /\ out[k].to <= input[d][i].seq + input[d][i].len
  BY DEF OriginInv
<1>8. input[d][i].seq \in Nat /\ input[d][i].len \in Nat
  <2>1. d \in Dirs
    BY <1>1 DEF Piece
  <2>2. input[d][i] \in Segment
    BY <2>1, <1>7 DEF TypeOK
  <2> QED
    BY <2>2 DEF Segment
<1>9. input[d][i].seq <= b /\ b < input[d][i].seq + input[d][i].len
  <2>1. out[k].from \in Nat /\ out[k].to \in Nat /\ out[k].from <= b /\ b < out[k].to
    BY <1>1
  <2> QED
    BY ONLY <1>2, <1>7, <1>8, <2>1
<1> QED
  BY <1>6, <1>7, <1>9 DEF off

\* Whatever the order of the time stamps, an offset of the output leads to the packet that
\* brought the byte there (streams.js:54-65, extract.js:125-133).
THEOREM OffsetsLeadBack == Spec => []OffsetsAreTraced
<1>1. Init => OriginInv /\ BudgetIsKept
  <2> SUFFICES ASSUME Init PROVE OriginInv /\ BudgetIsKept
    OBVIOUS
  <2>1. out = <<>> /\ outLen[0] = 0 /\ outLen[1] = 0 /\ budget = MaxReassembly /\ truncated = FALSE
    BY DEF Init, Dirs
  <2>2. MaxReassembly \in Nat /\ DOMAIN out = {}
    BY <2>1, InputType
  <2> QED
    BY <2>1, <2>2 DEF OriginInv, BudgetIsKept
<1>2. TypeOK /\ BudgetIsKept /\ OriginInv /\ [Next]_vars => BudgetIsKept' /\ OriginInv'
  BY BudgetStep, OriginStep
<1> QED
  BY <1>1, <1>2, InitTypes, StepTypes, OffsetsFollow, PTL DEF Spec

-----------------------------------------------------------------------------
(* The holes *)

\* What the loop has come past in a direction has been output or is in a gap, unless it was
\* cut off.
PastOrGap(d, b) == Brought(out, d, b) \/ Brought(gaps, d, b)
EndAt(d, i) == input[d][i].seq + input[d][i].len

\* A gap lies behind the first byte of its direction and in front of a segment.
Inside(g) == Start(input[g.dir]) < g.from /\ \E i \in DOMAIN input[g.dir] : g.to = input[g.dir][i].seq
GapsInside == \A k \in DOMAIN gaps : Inside(gaps[k])

HoleInv ==
    /\ dir \in Dirs => IF next = 1 THEN expected = Start(input[dir]) ELSE Start(input[dir]) < expected
    /\ ~truncated /\ dir \in Dirs =>
          \A b \in Nat : Start(input[dir]) <= b /\ b < expected => PastOrGap(dir, b)
    /\ ~truncated => \A d \in Dirs : d < dir => \A i \in DOMAIN input[d] :
          \A b \in Nat : Start(input[d]) <= b /\ b < EndAt(d, i) => PastOrGap(d, b)
    /\ GapsInside

LEMMA CallLeavesNoHole ==
    ASSUME NEW in, Callable(in), Call(in) PROVE HoleInv'
<1>1. /\ input' = in /\ next' = 1 /\ dir' = 0 /\ expected' = Start(in[0]) /\ gaps' = <<>>
      /\ Start(in[0]) \in Nat
  BY StartType DEF Call, Callable
<1> QED
  BY <1>1 DEF HoleInv, GapsInside

\* The segment the loop is at, and the gap in front of it.
LEMMA GapInside ==
    ASSUME TypeOK, GapInv, HoleInv, InLoop, RecordGap, input' = input
    PROVE  /\ GapsInside'
           /\ \A d, b : Brought(gaps, d, b) => Brought(gaps', d, b)
           /\ \A b \in Nat : expected <= b /\ b < Seg.seq => Brought(gaps', dir, b)
           /\ Start(input[dir]) \in Nat /\ Start(input[dir]) <= Seg.seq /\ Start(input[dir]) <= expected
<1> DEFINE gap == [dir |-> dir, at |-> outLen[dir], from |-> expected, to |-> Seg.seq]
<1>1. /\ dir \in Dirs /\ next \in DOMAIN input[dir] /\ Seg = input[dir][next] /\ next \in Nat
      /\ expected \in Nat /\ Seg.seq \in Nat /\ input[dir] \in Seq(Segment) /\ Sorted(input[dir])
  BY SegType DEF InLoop, Seg, TypeOK, GapInv
<1>2. Start(input[dir]) \in Nat /\ Start(input[dir]) <= Seg.seq /\ Start(input[dir]) <= expected
  BY <1>1, StartType, StartLowest DEF HoleInv
<1>3. ASSUME Seg.seq > expected PROVE Inside(gap)
  <2>1. next # 1
    <3>1. next = 1 => Start(input[dir]) = Seg.seq
      BY <1>1 DEF Start
    <3> QED
      BY <1>1, <1>2, <1>3, <3>1 DEF HoleInv
  <2>2. Start(input[dir]) < expected
    BY <1>1, <2>1 DEF HoleInv
  <2> QED
    BY <1>1, <2>2 DEF Inside
<1>4. gaps \in Seq(Gap) /\ \A k \in DOMAIN gaps : Inside(gaps[k])
  BY DEF TypeOK, HoleInv, GapsInside
<1>5. CASE Seg.seq > expected
  <2>1. gaps' = Append(gaps, gap)
    BY <1>5 DEF RecordGap
  <2>2. gap.dir = dir /\ gap.from = expected /\ gap.to = Seg.seq /\ Inside(gap)
    BY <1>3, <1>5
  <2> HIDE DEF gap
  <2>3. /\ Len(gaps) \in Nat /\ DOMAIN gaps = 1..Len(gaps) /\ DOMAIN gaps' = 1..(Len(gaps) + 1)
        /\ \A k \in 1..Len(gaps) : gaps'[k] = gaps[k]
        /\ gaps'[Len(gaps) + 1] = gap
    BY <1>4, <2>1
  <2>4. GapsInside'
    <3>1. \A k \in DOMAIN gaps' : Inside(gaps'[k])
      BY <1>4, <2>2, <2>3
    <3> QED
      BY <3>1 DEF GapsInside, Inside
  <2>5. \A d, b : Brought(gaps, d, b) => Brought(gaps', d, b)
    BY <2>3 DEF Brought
  <2>6. \A b \in Nat : expected <= b /\ b < Seg.seq => Brought(gaps', dir, b)
    BY <2>2, <2>3 DEF Brought
  <2> QED
    BY <1>2, <2>4, <2>5, <2>6
<1>6. CASE ~(Seg.seq > expected)
  <2>1. gaps' = gaps
    BY <1>6 DEF RecordGap
  <2>2. GapsInside'
    BY <1>4, <2>1 DEF GapsInside, Inside
  <2> QED
    BY <1>1, <1>2, <1>6, <2>1, <2>2
<1> QED
  BY <1>5, <1>6

\* Outside the output, the direction that the loop comes to starts at its first position.
LEMMA NextStarts ==
    ASSUME dir \in Dirs, BuildNext, input' = input
    PROVE  dir' = dir + 1 /\ (dir' \in Dirs => next' = 1 /\ expected' = Start(input[dir']))
BY DEF BuildNext

LEMMA HoleLoop == ASSUME TypeOK, GapInv, HoleInv, Loop PROVE HoleInv'
<1>1. CASE Overlapped
  <2>1. /\ InLoop /\ next' = next + 1 /\ SegEnd <= expected
        /\ UNCHANGED <<input, dir, expected, out, gaps, truncated>>
    BY <1>1 DEF Overlapped
  <2>2. /\ dir \in Dirs /\ next \in Nat \ {0} /\ expected \in Nat /\ Seg.seq \in Nat /\ Seg.seq < SegEnd
        /\ SegEnd \in Nat /\ Seg = input[dir][next] /\ next \in DOMAIN input[dir]
    BY <2>1, SegType DEF InLoop, TypeOK, Seg
  <2>3. next # 1
    <3>1. next = 1 => Start(input[dir]) = Seg.seq
      <4>1. input[dir] \in Seq(Segment)
        BY <2>2 DEF TypeOK
      <4> QED
        BY <2>2, <4>1 DEF Start
    <3> HIDE DEF SegEnd, Seg
    <3> QED
      BY <2>1, <2>2, <3>1 DEF HoleInv
  <2> QED
    BY <2>1, <2>2, <2>3 DEF HoleInv, PastOrGap, EndAt, GapsInside, Inside
<1>2. CASE Output
  <2>1. /\ InLoop /\ RecordGap /\ input' = input /\ dir' = dir /\ next' = next + 1 /\ expected' = SegEnd
        /\ SegEnd > expected /\ budget > 0 /\ truncated' = (truncated \/ SegEnd - From > budget)
    BY <1>2 DEF Output, ExpectedAfter
  <2>2. /\ dir \in Dirs /\ next \in Nat \ {0} /\ expected \in Nat /\ Seg.seq \in Nat /\ SegEnd \in Nat
        /\ From \in Nat /\ budget \in Nat
        /\ (SegEnd - From <= budget => From + Fitting = SegEnd)
        /\ From = IF Seg.seq > expected THEN Seg.seq ELSE expected
    BY <2>1, SegType, PieceType DEF InLoop, TypeOK, From
  <2>3. /\ GapsInside'
        /\ \A d, b : Brought(gaps, d, b) => Brought(gaps', d, b)
        /\ \A b \in Nat : expected <= b /\ b < Seg.seq => Brought(gaps', dir, b)
        /\ Start(input[dir]) \in Nat /\ Start(input[dir]) <= Seg.seq /\ Start(input[dir]) <= expected
    BY <2>1, GapInside
  <2>4. \A d, b : Brought(out, d, b) => Brought(out', d, b)
    BY <1>2, OutputGrows DEF Brought
  <2>5. ASSUME ~truncated', NEW b \in Nat, From <= b, b < SegEnd PROVE Brought(out', dir, b)
    <3>1. NewPiece.dir = dir /\ NewPiece.from = From /\ NewPiece.to = From + Fitting
      BY DEF NewPiece
    <3>2. From + Fitting = SegEnd
      <4>1. truncated' = (truncated \/ SegEnd - From > budget) /\ ~truncated'
        BY <2>1, <2>5
      <4>2. ~(SegEnd - From > budget)
        BY <4>1
      <4>3. SegEnd - From <= budget
        <5> HIDE DEF SegEnd, From
        <5> QED
          BY <2>2, <4>2
      <4> QED
        BY <2>2, <4>3
    <3>3. \E k \in DOMAIN out' : out'[k] = NewPiece
      BY <1>2, OutputGrows
    <3> QED
      BY <2>5, <3>1, <3>2, <3>3 DEF Brought
  <2> HIDE DEF SegEnd, From, Fitting, Seg
  <2>6. ASSUME ~truncated', NEW b \in Nat, Start(input[dir]) <= b, b < SegEnd PROVE PastOrGap(dir, b)'
    <3>1. CASE b < expected
      <4>1. PastOrGap(dir, b)
        BY <2>1, <2>2, <2>6, <3>1 DEF HoleInv
      <4> QED
        BY <2>1, <2>3, <2>4, <4>1 DEF PastOrGap
    <3>2. CASE expected <= b /\ b < Seg.seq
      BY <2>1, <2>3, <3>2 DEF PastOrGap
    <3>3. CASE From <= b
      BY <2>1, <2>5, <2>6, <3>3 DEF PastOrGap
    <3> QED
      BY <2>2, <3>1, <3>2, <3>3
  <2>7. \A d \in Dirs : d < dir => \A i \in DOMAIN input[d] : ~truncated' =>
          \A b \in Nat : Start(input[d]) <= b /\ b < EndAt(d, i) => PastOrGap(d, b)'
    BY <2>1, <2>3, <2>4 DEF HoleInv, PastOrGap
  <2>8. next' # 1 /\ Start(input[dir]) < expected'
    BY <2>1, <2>2, <2>3
  <2>9. \A d, i : EndAt(d, i)' = EndAt(d, i)
    BY <2>1 DEF EndAt
  <2>10. \A d, b : PastOrGap(d, b)' <=> Brought(out', d, b) \/ Brought(gaps', d, b)
    BY DEF PastOrGap, Brought
  <2> HIDE DEF EndAt
  <2> QED
    BY <2>1, <2>2, <2>3, <2>6, <2>7, <2>8, <2>9 DEF HoleInv
<1>3. CASE CutOff
  <2>1. InLoop /\ RecordGap /\ BuildNext /\ input' = input /\ truncated' = TRUE /\ dir \in Dirs
    BY <1>3 DEF CutOff, InLoop
  <2>2. GapsInside'
    BY <2>1, GapInside
  <2> QED
    BY <2>1, <2>2, NextStarts DEF HoleInv
<1>4. CASE EndOfDirection
  <2>1. /\ dir \in Dirs /\ next > Len(input[dir]) /\ BuildNext
        /\ UNCHANGED <<input, out, gaps, truncated>>
    BY <1>4 DEF EndOfDirection
  <2>2. dir' = dir + 1 /\ (dir' \in Dirs => next' = 1 /\ expected' = Start(input[dir']))
    BY <2>1, NextStarts
  <2>3. ASSUME NEW i \in DOMAIN input[dir], ~truncated, NEW b \in Nat, Start(input[dir]) <= b, b < EndAt(dir, i)
        PROVE  PastOrGap(dir, b)
    <3>1. input[dir] \in Seq(Segment) /\ next \in Nat /\ expected \in Nat
      BY <2>1 DEF TypeOK
    <3>2. i < next
      BY <2>1, <3>1
    <3>3. EndAt(dir, i) <= expected /\ EndAt(dir, i) \in Nat
      BY <2>1, <3>2, InputSegment DEF GapInv, EndAt
    <3> QED
      BY <2>1, <2>3, <3>1, <3>3 DEF HoleInv
  <2>4. ASSUME NEW d \in Dirs, d < dir', ~truncated, NEW i \in DOMAIN input[d], NEW b \in Nat,
               Start(input[d]) <= b, b < EndAt(d, i)
        PROVE  PastOrGap(d, b)
    <3>1. CASE d = dir
      BY <2>3, <2>4, <3>1
    <3>2. CASE d < dir
      BY <2>4, <3>2 DEF HoleInv
    <3> QED
      BY <2>1, <2>2, <2>4, <3>1, <3>2
  <2>5. ASSUME ~truncated, dir' \in Dirs, NEW b \in Nat, Start(input[dir']) <= b, b < expected'
        PROVE  FALSE
    <3>1. Start(input[dir']) \in Nat
      BY <2>5, StartType DEF TypeOK
    <3> QED
      BY <2>2, <2>5, <3>1
  <2> QED
    BY <2>1, <2>2, <2>4, <2>5 DEF HoleInv, PastOrGap, EndAt, GapsInside, Inside
<1> QED
  BY <1>1, <1>2, <1>3, <1>4 DEF Loop

-----------------------------------------------------------------------------
(* What the record says of the packets *)

\* The first packet of an endpoint.
LEMMA FirstIsLeast ==
    ASSUME captured \in Seq(Packets), NEW e, Sent(e) # {}
    PROVE  First(e) \in Sent(e) /\ \A j \in Sent(e) : First(e) <= j
<1>1. Len(captured) \in Nat /\ Sent(e) \in SUBSET (1 .. Len(captured))
  BY DEF Sent
<1>2. \E i \in Sent(e) : \A j \in Sent(e) : i <= j
  BY ONLY <1>1, Sent(e) # {}, MinOfSome
<1> QED
  BY ONLY <1>2 DEF First

\* It stays the first one whatever follows.
LEMMA FirstStays ==
    ASSUME captured \in Seq(Packets), NEW p \in Packets, captured' = Append(captured, p), NEW e,
           NEW n \in Nat, n = Len(captured)
    PROVE  /\ Sent(e)' = IF e = p.src THEN Sent(e) \cup {n + 1} ELSE Sent(e)
           /\ Sent(e) = {} /\ e = p.src => First(e)' = n + 1
           /\ Sent(e) # {} => First(e)' = First(e)
           /\ captured' \in Seq(Packets)
<1>1. /\ DOMAIN captured = 1 .. n /\ DOMAIN captured' = 1 .. n + 1 /\ captured' \in Seq(Packets)
      /\ \A i \in 1 .. n : captured'[i] = captured[i]
      /\ captured'[n + 1] = p
  BY Grown, Enqueued
<1>2. Sent(e)' = {i \in 1 .. n + 1 : captured'[i].src = e} /\ Sent(e) = {i \in 1 .. n : captured[i].src = e}
  BY <1>1 DEF Sent
<1>3. Sent(e)' = IF e = p.src THEN Sent(e) \cup {n + 1} ELSE Sent(e)
  <2>1. \A i : i \in Sent(e)' <=> i \in Sent(e) \/ (i = n + 1 /\ e = p.src)
    BY <1>1, <1>2
  <2> QED
    BY <2>1
<1>4. Sent(e)' # {} => First(e)' \in Sent(e)' /\ \A j \in Sent(e)' : First(e)' <= j
  <2>1. First(e)' = CHOOSE i \in Sent(e)' : \A j \in Sent(e)' : i <= j
    <3>1. First(e)' = (CHOOSE i \in Sent(e) : \A j \in Sent(e) : i <= j)'
      BY ONLY DEF First
    <3> QED
      BY ONLY <3>1
  <2>2. n + 1 \in Nat /\ Sent(e)' \in SUBSET (1 .. n + 1)
    BY <1>2
  <2>3. Sent(e)' # {} => \E i \in Sent(e)' : \A j \in Sent(e)' : i <= j
    BY ONLY <2>2, MinOfSome
  <2> QED
    BY ONLY <2>1, <2>3
<1>5. CASE Sent(e) = {} /\ e = p.src
  BY <1>3, <1>4, <1>5
<1>6. CASE Sent(e) # {}
  <2>1. First(e) \in Sent(e) /\ \A j \in Sent(e) : First(e) <= j
    BY <1>6, FirstIsLeast
  <2>2. First(e) \in 1 .. n /\ First(e)' \in 1 .. n + 1 /\ First(e) \in Sent(e)'
    BY <2>1, <1>2, <1>3, <1>4
  <2>3. First(e)' \in Sent(e)
    BY <2>2, <1>1, <1>2, <1>3, <1>4
  <2>4. First(e)' <= First(e) /\ First(e) <= First(e)'
    BY <2>1, <2>2, <2>3, <1>4
  <2>5. First(e)' = First(e)
    BY <2>2, <2>4
  <2> QED
    BY <2>5, <1>1, <1>3, <1>6
<1> QED
  BY <1>1, <1>3, <1>5, <1>6

\* The stored segments with their senders.
Booked == {[src |-> EndOf(a, segs[k].dir), pkt |-> segs[k].pkt, seq |-> segs[k].seq, len |-> segs[k].len] :
             k \in DOMAIN segs}

\* A stored segment is the data of a packet of its sender, numbered from the first one.
Stored(s) ==
    /\ s.pkt \in Sent(s.src) /\ s.len = captured[s.pkt].len /\ s.len > 0
    /\ s.seq = RelSeq(captured[s.pkt].seq, captured[First(s.src)].seq)

BookInv ==
    /\ FlowInv
    /\ a = None => captured = <<>>
    /\ \A e \in Ends : isn[DirOf(e)] = IF Sent(e) = {} THEN None ELSE captured[First(e)].seq
    /\ \A s : s \in Booked => Stored(s)
    /\ \A i \in DOMAIN captured : captured[i].len > 0 => \E k \in DOMAIN segs : segs[k].pkt = i

LEMMA StoredStays ==
    ASSUME captured \in Seq(Packets), NEW p \in Packets, captured' = Append(captured, p),
           NEW s, Stored(s)
    PROVE  Stored(s)'
<1>1. PICK n \in Nat : n = Len(captured)
  OBVIOUS
<1> DEFINE e == s.src
<1>2. /\ s.pkt \in Sent(e) /\ First(e) \in Sent(e) /\ s.len = captured[s.pkt].len /\ s.len > 0
      /\ s.seq = RelSeq(captured[s.pkt].seq, captured[First(e)].seq)
  BY FirstIsLeast DEF Stored
<1>3. \A i \in Sent(e) : i \in Sent(e)' /\ captured'[i] = captured[i]
  BY <1>1, FirstStays, Grown DEF Sent
<1>4. First(e)' = First(e)
  BY ONLY <1>1, <1>2, FirstStays, captured \in Seq(Packets), p \in Packets, captured' = Append(captured, p)
<1> QED
  BY ONLY <1>2, <1>3, <1>4 DEF Stored

LEMMA BookStep ==
    ASSUME BookInv, NEW p \in Packets, Dissect(p) PROVE BookInv'
<1>1. FlowInv /\ captured \in Seq(Packets) /\ captured' = Append(captured, p)
  BY DEF BookInv, FlowInv, FlowTypeOK, Dissect
<1>2. PICK n \in Nat : n = Len(captured)
  BY <1>1
<1>3. /\ DOMAIN captured = 1 .. n /\ DOMAIN captured' = 1 .. n + 1
      /\ \A i \in 1 .. n : captured'[i] = captured[i]
      /\ captured'[n + 1] = p
  BY <1>1, <1>2, Grown
<1>4. \A e : /\ Sent(e)' = IF e = p.src THEN Sent(e) \cup {n + 1} ELSE Sent(e)
             /\ Sent(e) = {} /\ e = p.src => First(e)' = n + 1
             /\ Sent(e) # {} => First(e)' = First(e)
  BY <1>1, <1>2, FirstStays
<1>5. \A e : Sent(e) # {} => First(e) \in 1 .. n /\ captured[First(e)].seq # None
  <2> SUFFICES ASSUME NEW e, Sent(e) # {} PROVE First(e) \in 1 .. n /\ captured[First(e)].seq # None
    OBVIOUS
  <2>1. First(e) \in 1 .. n
    BY <1>1, <1>3, FirstIsLeast DEF Sent
  <2>2. captured[First(e)] \in Packets
    BY <2>1, <1>1, <1>3
  <2>3. captured[First(e)].seq \in Word
    BY <2>2, PacketFields
  <2> QED
    <3>1. Word \subseteq Int /\ None \notin Int
      BY SeqSpaceAssumption DEF Word
    <3> QED
      BY ONLY <2>1, <2>3, <3>1
<1>6. FirstSeq(p) = captured'[First(p.src)'].seq
  <2>1. p.src \in Ends
    BY PacketFields DEF Ends
  <2>2. isn[DirOf(p.src)] = IF Sent(p.src) = {} THEN None ELSE captured[First(p.src)].seq
    BY <2>1 DEF BookInv
  <2> QED
    BY ONLY <2>2, <1>3, <1>4, <1>5 DEF FirstSeq
<1>7. /\ \A e \in Ends : isn'[(DirOf(e))'] = IF e = p.src THEN FirstSeq(p) ELSE isn[DirOf(e)]
      /\ \A i \in DOMAIN segs' :
           \/ \E j \in DOMAIN segs : /\ EndOf(a', segs'[i].dir) = EndOf(a, segs[j].dir)
                                     /\ segs'[i].pkt = segs[j].pkt
                                     /\ segs'[i].seq = segs[j].seq /\ segs'[i].len = segs[j].len
           \/ /\ p.len > 0
              /\ EndOf(a', segs'[i].dir) = p.src
              /\ segs'[i].pkt = n + 1
              /\ segs'[i].seq = RelativeSeq(p) /\ segs'[i].len = p.len
      /\ \A j \in DOMAIN segs : \E i \in DOMAIN segs' : segs'[i].pkt = segs[j].pkt
      /\ p.len > 0 => \E i \in DOMAIN segs' : segs'[i].pkt = n + 1
  BY <1>1, <1>2, BookedOnSender
<1>8. FlowInv'
  BY <1>1, FlowInvStep DEF FlowNext
<1>9. a' # None
  <2>1. a' = IF Swaps(p) THEN p.src ELSE FirstEnd(p)
    BY DEF Dissect
  <2>2. a \in Ends \cup {None}
    BY <1>1 DEF FlowInv, FlowTypeOK
  <2>3. a' \in Ends
    BY <2>1, <2>2, FinalDirIsSenders
  <2> QED
    BY <2>3, FlowAssumption DEF Ends
<1>10. \A e \in Ends : isn'[(DirOf(e))'] = IF Sent(e)' = {} THEN None ELSE captured'[First(e)'].seq
  <2> SUFFICES ASSUME NEW e \in Ends
               PROVE  isn'[(DirOf(e))'] = IF Sent(e)' = {} THEN None ELSE captured'[First(e)'].seq
    OBVIOUS
  <2>1. CASE e = p.src
    BY <2>1, <1>4, <1>6, <1>7
  <2>2. CASE e # p.src
    <3>1. isn[DirOf(e)] = IF Sent(e) = {} THEN None ELSE captured[First(e)].seq
      BY DEF BookInv
    <3>2. Sent(e)' = Sent(e) /\ isn'[(DirOf(e))'] = isn[DirOf(e)]
      BY <2>2, <1>4, <1>7
    <3>3. Sent(e) # {} => captured'[First(e)'] = captured[First(e)]
      BY <1>3, <1>4, <1>5
    <3> QED
      BY ONLY <3>1, <3>2, <3>3
  <2> QED
    BY <2>1, <2>2
<1>11. ASSUME NEW s, s \in Booked' PROVE Stored(s)'
  <2>1. PICK k \in DOMAIN segs' : /\ s.src = EndOf(a', segs'[k].dir) /\ s.pkt = segs'[k].pkt
                                  /\ s.seq = segs'[k].seq /\ s.len = segs'[k].len
                                  /\ s = [src |-> s.src, pkt |-> s.pkt, seq |-> s.seq, len |-> s.len]
    BY <1>11 DEF Booked, EndOf, Other
  <2>2. CASE \E j \in DOMAIN segs : /\ s.src = EndOf(a, segs[j].dir) /\ s.pkt = segs[j].pkt
                                    /\ s.seq = segs[j].seq /\ s.len = segs[j].len
    <3>1. s \in Booked
      BY <2>1, <2>2 DEF Booked
    <3>2. Stored(s)
      BY <3>1 DEF BookInv
    <3> QED
      BY ONLY <3>2, <1>1, p \in Packets, StoredStays
  <2>3. CASE /\ p.len > 0 /\ s.src = p.src /\ s.pkt = n + 1
             /\ s.seq = RelativeSeq(p) /\ s.len = p.len
    <3>1. s.pkt \in Sent(s.src)'
      BY ONLY <2>3, <1>4
    <3>2. captured'[s.pkt] = p
      BY ONLY <2>3, <1>3
    <3>3. s.seq = RelSeq(p.seq, captured'[First(s.src)'].seq)
      BY ONLY <2>3, <1>6 DEF RelativeSeq
    <3> QED
      BY ONLY <2>3, <3>1, <3>2, <3>3 DEF Stored
  <2> QED
    BY ONLY <2>1, <2>2, <2>3, <1>7
<1>12. ASSUME NEW i \in DOMAIN captured', captured'[i].len > 0 PROVE \E k \in DOMAIN segs' : segs'[k].pkt = i
  <2>1. CASE i \in 1 .. n
    <3>1. PICK j \in DOMAIN segs : segs[j].pkt = i
      BY <2>1, <1>3, <1>12 DEF BookInv
    <3> QED
      BY <3>1, <1>7
  <2>2. CASE i = n + 1
    BY <2>2, <1>3, <1>7, <1>12
  <2> QED
    BY <2>1, <2>2, <1>3, <1>12
<1> QED
  BY ONLY <1>8, <1>9, <1>10, <1>11, <1>12 DEF BookInv

\* It holds of a record that was never written, and of every one after it.
LEMMA BookInit == FlowInit => BookInv
<1> SUFFICES ASSUME FlowInit PROVE BookInv
  OBVIOUS
<1>1. FlowInv
  BY EmptyRecord DEF FlowInit, FlowInv, NoRecord
<1>2. \A e \in Ends : Sent(e) = {} /\ isn[DirOf(e)] = None
  BY DEF FlowInit, Sent, DirOf, FlowDirs
<1>3. Booked = {} /\ captured = <<>>
  BY DEF FlowInit, Booked
<1> QED
  BY <1>1, <1>2, <1>3 DEF BookInv

LEMMA BookStays == BookInv /\ UNCHANGED flowVars => BookInv'
<1> SUFFICES ASSUME BookInv, UNCHANGED flowVars PROVE BookInv'
  OBVIOUS
<1>1. UNCHANGED <<captured, a, isn, segs>>
  BY DEF flowVars, record
<1>2. FlowInv'
  BY FlowInvStep DEF BookInv
<1>3. \A e : DirOf(e)' = DirOf(e) /\ Sent(e)' = Sent(e) /\ First(e)' = First(e)
  BY <1>1 DEF DirOf, Sent, First
<1>4. Booked' = Booked
  BY <1>1 DEF Booked, EndOf, Other
<1>5. \A s : Stored(s)' <=> Stored(s)
  BY <1>1, <1>3 DEF Stored
<1> QED
  BY <1>1, <1>2, <1>3, <1>4, <1>5 DEF BookInv

\* In one space, a segment's number is its distance from the first byte captured.
LEMMA StoredPlace ==
    ASSUME BookInv, NEW s \in Booked, s.src \in Whole
    PROVE  /\ s.pkt \in Sent(s.src) /\ s.len = captured[s.pkt].len
           /\ Base(s.src) \in Nat /\ s.seq = captured[s.pkt].pos - Base(s.src)
<1> DEFINE e == s.src
           p == captured[s.pkt]
           f == captured[First(e)]
           z == InitialSeq[e]
<1>1. /\ s.pkt \in Sent(e) /\ s.len = p.len /\ s.seq = RelSeq(p.seq, f.seq)
  BY DEF BookInv, Stored
<1>2. captured \in Seq(Packets)
  BY DEF BookInv, FlowInv, FlowTypeOK
<1>3. First(e) \in Sent(e)
  BY ONLY <1>1, <1>2, FirstIsLeast
<1>4. p \in Packets /\ f \in Packets /\ p.src = e /\ f.src = e
  BY <1>1, <1>2, <1>3 DEF Sent
<1>5. Base(e) = f.pos /\ Base(e) <= p.pos /\ p.pos < Base(e) + Mod
  BY <1>1 DEF Base, Whole, InOneSpace
<1> HIDE DEF e, p, f, z
<1>6. p.seq \in Word /\ f.seq \in Word
  BY <1>4, PacketFields
<1>7. /\ p.pos \in Nat /\ f.pos \in Nat /\ z \in Int
      /\ Same(p.seq, z + p.pos) /\ Same(f.seq, z + f.pos)
  BY <1>4, PacketPlaces DEF z
<1>8. Word \subseteq Int /\ Mod \in Nat /\ Word = 0 .. Mod - 1
  BY SeqSpaceAssumption DEF Word
<1>9. /\ p.seq \in Int /\ f.seq \in Int /\ z + p.pos \in Int /\ z + f.pos \in Int
      /\ (z + p.pos) - (z + f.pos) = p.pos - f.pos /\ p.seq - f.seq \in Int
      /\ p.pos - f.pos \in Word
  BY ONLY <1>5, <1>6, <1>7, <1>8
<1>10. Same(p.seq - f.seq, p.pos - f.pos)
  <2>1. Same(p.seq - f.seq, (z + p.pos) - (z + f.pos))
    BY <1>7, <1>9, SameSum
  <2> QED
    BY ONLY <2>1, <1>9
<1>11. Wrap(p.seq - f.seq) = p.pos - f.pos
  BY <1>9, <1>10, WrapOfSame
<1>12. s.seq = p.pos - Base(e) /\ Base(e) \in Nat
  BY ONLY <1>1, <1>5, <1>7, <1>11 DEF RelSeq
<1> QED
  BY <1>1, <1>12 DEF e, p

-----------------------------------------------------------------------------
(* The lists that reassembly is called with *)

\* The segments of a direction, each with its packet.
LEMMA DirectionType ==
    ASSUME BookInv, NEW d \in Dirs
    PROVE  /\ DOMAIN OfDirection(d) \in SUBSET Nat /\ IsFiniteSet(DOMAIN OfDirection(d))
           /\ \A i \in DOMAIN OfDirection(d) : OfDirection(d)[i] \in Segment
<1>1. segs \in Seq(FlowSeg) /\ captured \in Seq(Packets)
  BY DEF BookInv, FlowInv, FlowTypeOK
<1>2. Len(segs) \in Nat /\ DOMAIN segs = 1 .. Len(segs)
  BY <1>1
<1> DEFINE D == {j \in DOMAIN segs : segs[j].dir = d /\ segs[j].len > 0}
<1>3. DOMAIN OfDirection(d) = D
  BY DEF OfDirection
<1>4. IsFiniteSet(1 .. Len(segs))
  BY <1>2, FS_Interval
<1>5. D \in SUBSET (1 .. Len(segs))
  BY <1>2
<1>6. IsFiniteSet(D)
  BY ONLY <1>4, <1>5, FS_Subset
<1>7. ASSUME NEW i \in D PROVE OfDirection(d)[i] \in Segment
  <2>1. OfDirection(d)[i] = [pkt |-> segs[i].pkt, ts |-> segs[i].pkt, seq |-> segs[i].seq, len |-> segs[i].len]
    BY <1>7 DEF OfDirection
  <2>2. segs[i].seq \in Nat /\ segs[i].len \in Nat \ {0}
    <3>1. segs[i] \in FlowSeg /\ segs[i].len > 0
      BY <1>1, <1>7
    <3>2. Word \subseteq Nat
      BY SeqSpaceAssumption DEF Word
    <3>3. segs[i].seq \in Word /\ segs[i].len \in Nat
      BY ONLY <3>1 DEF FlowSeg
    <3>4. \A l \in Nat : l > 0 => l \in Nat \ {0}
      OBVIOUS
    <3> QED
      BY ONLY <3>1, <3>2, <3>3, <3>4
  <2>3. segs[i].pkt \in Nat \ {0}
    <3> DEFINE s == [src |-> EndOf(a, segs[i].dir), pkt |-> segs[i].pkt, seq |-> segs[i].seq,
                     len |-> segs[i].len]
    <3>1. s \in Booked
      BY <1>7 DEF Booked
    <3>2. s.pkt \in DOMAIN captured
      BY <3>1 DEF BookInv, Stored, Sent
    <3> QED
      BY <3>2, <1>1
  <2> QED
    BY <2>1, <2>2, <2>3 DEF Segment
<1> QED
  BY <1>2, <1>3, <1>6, <1>7

\* What reassembly is called with is sorted, and is what the record holds.
LEMMA ListedInSequence ==
    ASSUME BookInv, NEW d \in Dirs
    PROVE  /\ InSequence(d) \in Seq(Segment) /\ Sorted(InSequence(d))
           /\ \A i \in DOMAIN OfDirection(d) : \E n \in DOMAIN InSequence(d) : InSequence(d)[n] = OfDirection(d)[i]
           /\ \A n \in DOMAIN InSequence(d) : \E i \in DOMAIN OfDirection(d) : InSequence(d)[n] = OfDirection(d)[i]
<1> DEFINE of == OfDirection(d)
           D == DOMAIN of
           before == {p \in D \X D : Lower(of[p[1]], of[p[2]])}
           r == InSequence(d)
<1>1. D \in SUBSET Nat /\ IsFiniteSet(D) /\ \A i \in D : of[i] \in Segment
  BY DirectionType
<1>2. r = InOrder(of, before)
  BY DEF InSequence
<1>3. \A i, j \in D : <<i, j>> \in before <=> Lower(of[i], of[j])
  OBVIOUS
<1> HIDE DEF of, before, r
<1>4. \A i \in D : of[i].seq \in Nat /\ of[i].pkt \in Nat
  BY <1>1 DEF Segment
<1>5. \A i, j \in D : NotAfter(before, i, j)
          <=> \/ of[i].seq < of[j].seq
              \/ of[i].seq = of[j].seq /\ of[i].pkt < of[j].pkt
              \/ of[i].seq = of[j].seq /\ of[i].pkt = of[j].pkt /\ i <= j
  <2>1. \A i, j \in D : NotAfter(before, i, j)
            <=> (Lower(of[i], of[j]) \/ (i <= j /\ ~Lower(of[j], of[i])))
    BY <1>3 DEF NotAfter
  <2> HIDE DEF D
  <2> QED
    BY ONLY <2>1, <1>4 DEF Lower
<1>6. Orders(D, before)
  <2> DEFINE x == [i \in D |-> of[i].seq]
             y == [i \in D |-> of[i].pkt]
  <2>1. \A i \in D : x[i] = of[i].seq /\ y[i] = of[i].pkt
    OBVIOUS
  <2> HIDE DEF x, y, D
  <2>2. \A i \in D : x[i] \in Nat /\ y[i] \in Nat
    BY ONLY <2>1, <1>4
  <2>3. \A i, j \in D : NotAfter(before, i, j)
            <=> \/ x[i] < x[j]
                \/ x[i] = x[j] /\ y[i] < y[j]
                \/ x[i] = x[j] /\ y[i] = y[j] /\ i <= j
    BY ONLY <1>5, <2>1
  <2>4. D \in SUBSET Nat
    BY <1>1
  <2> QED
    BY ONLY <2>2, <2>3, <2>4, RankOrders
<1>7. SameElements(of, before, r)
  BY ONLY <1>1, <1>2, <1>6, SortIsAPermutation DEF D
<1>8. PICK N \in Nat : DOMAIN r = 1 .. N
  BY ONLY <1>7 DEF SameElements
<1>9. PICK at : \A n \in DOMAIN r :
           /\ at[n] \in D /\ r[n] = of[at[n]]
           /\ \A m \in DOMAIN r : m <= n => NotAfter(before, at[m], at[n])
  BY ONLY <1>7 DEF SameElements, D
<1>10. \A i \in D : \E n \in DOMAIN r : r[n] = of[i]
  BY ONLY <1>7 DEF SameElements, D
<1> HIDE DEF D
<1>11. r = [n \in 1 .. N |-> r[n]] /\ \A n \in 1 .. N : r[n] \in Segment
  <2>1. r = [n \in 1 .. Cardinality(DOMAIN of) |-> of[CHOOSE i \in DOMAIN of : Place(of, before, i) = n]]
    BY ONLY <1>2 DEF InOrder
  <2>2. r = [n \in DOMAIN r |-> r[n]]
    BY ONLY <2>1
  <2> QED
    BY ONLY <2>2, <1>1, <1>8, <1>9
<1>12. r \in Seq(Segment)
  BY ONLY <1>11, N \in Nat
<1>13. ASSUME NEW i \in DOMAIN r, NEW j \in DOMAIN r, i < j
       PROVE  r[i].seq < r[j].seq \/ (r[i].seq = r[j].seq /\ r[i].pkt <= r[j].pkt)
  <2>1. i <= j
    BY ONLY <1>8, <1>13
  <2>2. at[i] \in D /\ at[j] \in D /\ r[i] = of[at[i]] /\ r[j] = of[at[j]] /\ NotAfter(before, at[i], at[j])
    BY ONLY <1>9, <2>1, i \in DOMAIN r, j \in DOMAIN r
  <2> QED
    BY ONLY <1>4, <1>5, <2>2
<1>14. Sorted(r)
  BY ONLY <1>13 DEF Sorted
<1>15. \A n \in DOMAIN r : \E i \in D : r[n] = of[i]
  BY ONLY <1>9
<1> QED
  BY ONLY <1>10, <1>12, <1>14, <1>15 DEF r, of, D

-----------------------------------------------------------------------------
(* From the wire to the reader *)

\* Once the capture has been dissected, reassembly is at work on what the record holds.
AtWork ==
    /\ input = [d \in Dirs |-> InSequence(d)]
    /\ TypeOK /\ OrderInv /\ GapInv /\ LossInv /\ OriginInv /\ HoleInv

StreamInv ==
    /\ dissected \in BOOLEAN
    /\ BookInv
    /\ dissected => AtWork

\* The call, once the capture has been dissected.
LEMMA ReassembleStep ==
    ASSUME BookInv, Reassemble PROVE AtWork'
<1> DEFINE in == [d \in Dirs |-> InSequence(d)]
<1>1. UNCHANGED flowVars /\ Call(in)
  BY DEF Reassemble
<1>2. \A d : InSequence(d)' = InSequence(d)
  BY <1>1 DEF flowVars, record, InSequence, OfDirection
<1>3. Callable(in)
  <2>1. \A d \in Dirs : InSequence(d) \in Seq(Segment) /\ Sorted(InSequence(d))
    BY ListedInSequence
  <2> QED
    BY <2>1 DEF Callable
<1>4. input' = in /\ out' = <<>>
  BY <1>1 DEF Call
<1> HIDE DEF in
<1>5. PICK call : call = in
  OBVIOUS
<1>6. Callable(call) /\ Call(call)
  BY ONLY <1>1, <1>3, <1>5
<1>7. TypeOK' /\ GapInv' /\ LossInv' /\ HoleInv'
  BY <1>6, CallTypes, CallGaps, CallLoses, CallLeavesNoHole
<1>8. OrderInv' /\ OriginInv'
  BY <1>4 DEF OrderInv, InOrderOnce, OriginInv
<1>9. input' = [d \in Dirs |-> InSequence(d)]'
  BY <1>2, <1>4 DEF in
<1> QED
  BY <1>7, <1>8, <1>9 DEF AtWork

LEMMA AssembleStep ==
    ASSUME BookInv, AtWork, Assemble PROVE AtWork'
<1>1. UNCHANGED flowVars /\ Loop /\ [Next]_vars
  BY DEF Assemble, Next
<1>2. \A d : InSequence(d)' = InSequence(d)
  BY <1>1 DEF flowVars, record, InSequence, OfDirection
<1>3. input' = input
  BY <1>1 DEF Loop, Overlapped, Output, CutOff, EndOfDirection
<1>4. TypeOK /\ OrderInv /\ GapInv /\ LossInv /\ OriginInv /\ HoleInv
  BY DEF AtWork
<1>5. TypeOK' /\ OrderInv' /\ GapInv' /\ LossInv' /\ OriginInv' /\ HoleInv'
  BY <1>1, <1>4, StepTypes, OrderStep, GapStep, LossStep, OriginStep, HoleLoop
<1>6. input' = [d \in Dirs |-> InSequence(d)]'
  BY <1>2, <1>3 DEF AtWork
<1> QED
  BY <1>5, <1>6 DEF AtWork

LEMMA StreamStep == StreamInv /\ [StreamNext]_streamVars => StreamInv'
<1> SUFFICES ASSUME StreamInv, [StreamNext]_streamVars PROVE StreamInv'
  OBVIOUS
<1>1. BookInv /\ dissected \in BOOLEAN
  BY DEF StreamInv
<1>2. CASE DissectPacket
  <2>1. ~dissected' /\ dissected' \in BOOLEAN /\ FlowNext
    BY <1>1, <1>2 DEF DissectPacket
  <2>2. BookInv'
    BY <1>1, <2>1, BookStep DEF FlowNext
  <2> QED
    BY <2>1, <2>2 DEF StreamInv
<1>3. CASE Reassemble
  <2>1. BookInv' /\ dissected' \in BOOLEAN
    BY <1>1, <1>3, BookStays DEF Reassemble
  <2>2. AtWork'
    BY <1>1, <1>3, ReassembleStep
  <2> QED
    BY <2>1, <2>2 DEF StreamInv
<1>4. CASE Assemble
  <2>1. BookInv' /\ dissected' \in BOOLEAN /\ dissected' = dissected
    BY <1>1, <1>4, BookStays DEF Assemble
  <2>2. dissected => AtWork'
    BY <1>1, <1>4, AssembleStep DEF StreamInv
  <2> QED
    BY <2>1, <2>2 DEF StreamInv
<1>5. CASE UNCHANGED streamVars
  <2>1. UNCHANGED flowVars /\ UNCHANGED vars /\ dissected' = dissected
    BY <1>5 DEF streamVars
  <2>2. BookInv'
    BY <1>1, <2>1, BookStays
  <2>3. ASSUME AtWork PROVE AtWork'
    <3>1. \A d : InSequence(d)' = InSequence(d)
      BY <2>1 DEF flowVars, record, InSequence, OfDirection
    <3>2. TypeOK' /\ OrderInv' /\ GapInv' /\ LossInv' /\ OriginInv'
      BY <2>1, <2>3, StepTypes, OrderStep, GapStep, LossStep, OriginStep DEF AtWork
    <3>3. UNCHANGED <<input, dir, next, expected, out, gaps, truncated>>
      BY <2>1 DEF vars
    <3>4. HoleInv'
      BY <2>3, <3>3 DEF AtWork, HoleInv, PastOrGap, Brought, EndAt, GapsInside, Inside
    <3>5. input' = [d \in Dirs |-> InSequence(d)]'
      BY <2>3, <3>1, <3>3 DEF AtWork
    <3> QED
      BY <3>2, <3>4, <3>5 DEF AtWork
  <2> QED
    BY <1>1, <2>1, <2>2, <2>3 DEF StreamInv
<1> QED
  BY <1>2, <1>3, <1>4, <1>5 DEF StreamNext

\* A list of reassembly holds the bytes that were captured from the endpoint.
Lists(e, d) ==
    /\ Base(e) \in Nat
    /\ \A i \in DOMAIN input[d] : \E j \in Sent(e) :
          /\ captured[j].pos = input[d][i].seq + Base(e) /\ captured[j].len = input[d][i].len
          /\ captured[j].pos < Base(e) + Mod
    /\ \A j \in Sent(e) : captured[j].pos \in Nat /\ captured[j].len \in Nat
          /\ (captured[j].len > 0 => \E i \in DOMAIN input[d] :
                captured[j].pos = input[d][i].seq + Base(e) /\ captured[j].len = input[d][i].len)

LEMMA Listing ==
    ASSUME BookInv, AtWork, NEW e \in Whole PROVE Lists(e, DirOf(e)) /\ DirOf(e) \in Dirs
<1> DEFINE d == DirOf(e)
<1>1. captured \in Seq(Packets) /\ a \in Ends \cup {None} /\ segs \in Seq(FlowSeg)
  BY DEF BookInv, FlowInv, FlowTypeOK
<1>2. e \in Ends /\ Sent(e) # {} /\ InOneSpace(e)
  BY DEF Whole
<1>3. a \in Ends
  <2>1. captured # <<>>
    BY <1>2 DEF Sent
  <2> QED
    BY <1>1, <2>1 DEF BookInv
<1>4. d \in Dirs /\ EndOf(a, d) = e
  BY <1>2, <1>3 DEF DirOf, EndOf, Other, Ends
<1>5. \A j \in Sent(e) : captured[j].pos \in Nat /\ captured[j].len \in Nat /\ captured[j].pos < Base(e) + Mod
  <2> SUFFICES ASSUME NEW j \in Sent(e)
               PROVE  captured[j].pos \in Nat /\ captured[j].len \in Nat /\ captured[j].pos < Base(e) + Mod
    OBVIOUS
  <2>1. captured[j] \in Packets
    BY <1>1 DEF Sent
  <2>2. captured[j].pos < Base(e) + Mod
    BY <1>2 DEF InOneSpace
  <2> QED
    BY <2>1, <2>2, PacketPlaces, PacketFields
<1>6. Base(e) \in Nat
  <2>1. First(e) \in Sent(e)
    BY <1>1, <1>2, FirstIsLeast
  <2> QED
    BY <2>1, <1>5 DEF Base
<1>7. input[d] = InSequence(d)
  BY <1>4 DEF AtWork
<1>8. /\ \A i \in DOMAIN OfDirection(d) : \E n \in DOMAIN input[d] : input[d][n] = OfDirection(d)[i]
      /\ \A n \in DOMAIN input[d] : \E i \in DOMAIN OfDirection(d) : input[d][n] = OfDirection(d)[i]
  BY ONLY <1>4, <1>7, BookInv, ListedInSequence
<1>9. \A i : i \in DOMAIN OfDirection(d) <=> i \in DOMAIN segs /\ segs[i].dir = d /\ segs[i].len > 0
  BY DEF OfDirection
<1>10. \A i \in DOMAIN OfDirection(d) : /\ OfDirection(d)[i].seq = segs[i].seq
                                       /\ OfDirection(d)[i].len = segs[i].len
  BY DEF OfDirection
<1>11. ASSUME NEW i \in DOMAIN segs, EndOf(a, segs[i].dir) = e
       PROVE  /\ segs[i].pkt \in Sent(e) /\ segs[i].len = captured[segs[i].pkt].len /\ segs[i].len > 0
              /\ segs[i].seq = captured[segs[i].pkt].pos - Base(e)
  <2> DEFINE s == [src |-> EndOf(a, segs[i].dir), pkt |-> segs[i].pkt, seq |-> segs[i].seq,
                   len |-> segs[i].len]
  <2>1. s \in Booked /\ s.src = e /\ s.pkt = segs[i].pkt /\ s.seq = segs[i].seq /\ s.len = segs[i].len
    BY <1>11 DEF Booked
  <2> HIDE DEF s
  <2>2. s.pkt \in Sent(s.src) /\ s.len = captured[s.pkt].len /\ s.seq = captured[s.pkt].pos - Base(s.src)
    BY <2>1, StoredPlace
  <2>3. s.len > 0
    BY <2>1 DEF BookInv, Stored
  <2> QED
    BY ONLY <2>1, <2>2, <2>3
<1>12. ASSUME NEW n \in DOMAIN input[d]
       PROVE  \E j \in Sent(e) : /\ captured[j].pos = input[d][n].seq + Base(e)
                                 /\ captured[j].len = input[d][n].len
                                 /\ captured[j].pos < Base(e) + Mod
  <2>1. PICK i \in DOMAIN OfDirection(d) : input[d][n] = OfDirection(d)[i]
    BY <1>8, <1>12
  <2>2. /\ segs[i].pkt \in Sent(e) /\ segs[i].len = captured[segs[i].pkt].len
        /\ segs[i].seq = captured[segs[i].pkt].pos - Base(e)
    BY ONLY <1>4, <1>9, <1>11, i \in DOMAIN OfDirection(d)
  <2>3. input[d][n].seq = segs[i].seq /\ input[d][n].len = segs[i].len
    BY <2>1, <1>10
  <2> QED
    BY ONLY <2>2, <2>3, <1>5, <1>6
<1>13. ASSUME NEW j \in Sent(e), captured[j].len > 0
       PROVE  \E n \in DOMAIN input[d] : /\ captured[j].pos = input[d][n].seq + Base(e)
                                         /\ captured[j].len = input[d][n].len
  <2>1. j \in DOMAIN captured /\ captured[j].src = e
    BY DEF Sent
  <2>2. PICK i \in DOMAIN segs : segs[i].pkt = j
    BY <1>13, <2>1 DEF BookInv
  <2>3. EndOf(a, segs[i].dir) = e /\ segs[i].dir \in FlowDirs
    <3> DEFINE s == [src |-> EndOf(a, segs[i].dir), pkt |-> segs[i].pkt, seq |-> segs[i].seq,
                     len |-> segs[i].len]
    <3>1. s \in Booked
      BY <2>2 DEF Booked
    <3>2. s.pkt \in Sent(s.src)
      BY <3>1 DEF BookInv, Stored
    <3>3. segs[i] \in FlowSeg
      BY <1>1, <2>2
    <3> QED
      BY <2>1, <2>2, <3>2, <3>3 DEF Sent, FlowSeg
  <2>4. segs[i].dir = d
    BY <2>3, <1>2, <1>3, FlowAssumption DEF EndOf, DirOf, Other, Ends, FlowDirs
  <2>5. /\ segs[i].len = captured[j].len /\ segs[i].len > 0 /\ segs[i].seq = captured[j].pos - Base(e)
    BY ONLY <2>2, <2>3, <1>11
  <2>6. PICK n \in DOMAIN input[d] : input[d][n] = OfDirection(d)[i]
    BY ONLY <1>8, <1>9, <2>2, <2>4, <2>5
  <2>7. i \in DOMAIN OfDirection(d)
    BY ONLY <1>9, <2>2, <2>4, <2>5
  <2>8. input[d][n].seq = captured[j].pos - Base(e) /\ captured[j].len = input[d][n].len
    BY ONLY <2>5, <2>6, <2>7, <1>10
  <2> QED
    BY ONLY <2>8, <1>5, <1>6, n \in DOMAIN input[d], j \in Sent(e)
<1> QED
  BY <1>4, <1>5, <1>6, <1>12, <1>13 DEF Lists

\* At the end of an output that was not cut off, said of positions in the list of an endpoint.
LEMMA FinishedList ==
    ASSUME TypeOK, OriginInv, LossInv, HoleInv, GapInv, dir = Done, ~truncated,
           NEW d \in Dirs
    PROVE  /\ \A k \in DOMAIN out : out[k].dir = d =>
                 \E i \in DOMAIN input[d] :
                    input[d][i].seq <= out[k].from /\ out[k].to <= input[d][i].seq + input[d][i].len
           /\ \A i \in DOMAIN input[d] : \A b \in Nat :
                 input[d][i].seq <= b /\ b < input[d][i].seq + input[d][i].len => Brought(out, d, b)
           /\ \A i, j \in DOMAIN input[d] : \A b \in Nat :
                 input[d][j].seq <= b /\ b < input[d][i].seq + input[d][i].len
                    => Brought(out, d, b) \/ Brought(gaps, d, b)
           /\ \A k \in DOMAIN gaps : gaps[k].dir = d =>
                 /\ \E i, j \in DOMAIN input[d] : input[d][i].seq < gaps[k].from /\ gaps[k].to = input[d][j].seq
                 /\ \A i \in DOMAIN input[d] :
                       input[d][i].seq + input[d][i].len <= gaps[k].from \/ gaps[k].to <= input[d][i].seq
<1>1. input[d] \in Seq(Segment) /\ Sorted(input[d]) /\ d < dir
  BY DEF TypeOK, GapInv
<1>2. ASSUME NEW i \in DOMAIN input[d]
      PROVE  /\ input[d][i].seq \in Nat /\ input[d][i].len \in Nat
             /\ Start(input[d]) \in Nat /\ Start(input[d]) <= input[d][i].seq
  BY <1>1, InputSegment, StartType, StartLowest
<1>3. ASSUME NEW k \in DOMAIN out, out[k].dir = d
      PROVE  \E i \in DOMAIN input[d] :
                input[d][i].seq <= out[k].from /\ out[k].to <= input[d][i].seq + input[d][i].len
  BY <1>3 DEF OriginInv
<1>4. ASSUME NEW i \in DOMAIN input[d], NEW b \in Nat,
             input[d][i].seq <= b, b < input[d][i].seq + input[d][i].len
      PROVE  Brought(out, d, b)
  <2>1. i \in Passed(d)
    BY <1>1 DEF Passed
  <2>2. Present(d, i)
    BY <2>1 DEF LossInv, NothingLost
  <2>3. AllBrought(out, d, input[d][i])
    BY <2>2, <1>2, PresentBrought DEF Present
  <2> QED
    BY <2>3, <1>4 DEF AllBrought
<1>5. ASSUME NEW i \in DOMAIN input[d], NEW j \in DOMAIN input[d], NEW b \in Nat,
             input[d][j].seq <= b, b < input[d][i].seq + input[d][i].len
      PROVE  Brought(out, d, b) \/ Brought(gaps, d, b)
  <2>1. Start(input[d]) <= b
    BY <1>2, <1>5
  <2>2. b < EndAt(d, i)
    BY <1>5 DEF EndAt
  <2>3. PastOrGap(d, b)
    BY <2>1, <2>2, <1>1 DEF HoleInv
  <2> QED
    BY <2>3 DEF PastOrGap
<1>6. ASSUME NEW k \in DOMAIN gaps, gaps[k].dir = d
      PROVE  /\ \E i, j \in DOMAIN input[d] : input[d][i].seq < gaps[k].from /\ gaps[k].to = input[d][j].seq
             /\ \A i \in DOMAIN input[d] :
                   input[d][i].seq + input[d][i].len <= gaps[k].from \/ gaps[k].to <= input[d][i].seq
  <2>1. Inside(gaps[k])
    BY DEF HoleInv, GapsInside
  <2>2. PICK j \in DOMAIN input[d] : gaps[k].to = input[d][j].seq
    BY <2>1, <1>6 DEF Inside
  <2>3. 1 \in DOMAIN input[d] /\ Start(input[d]) = input[d][1].seq
    BY <2>2, <1>1 DEF Start
  <2>4. input[d][1].seq < gaps[k].from
    BY <2>1, <2>3, <1>6 DEF Inside
  <2>5. \A i \in DOMAIN input[d] :
            input[d][i].seq + input[d][i].len <= gaps[k].from \/ gaps[k].to <= input[d][i].seq
    BY <1>6 DEF GapInv, GapsAreMissing
  <2> QED
    BY <2>2, <2>3, <2>4, <2>5
<1> QED
  BY ONLY <1>3, <1>4, <1>5, <1>6

\* Sets of positions of the sender, compared position by position of its list.
LEMMA SamePlaces ==
    ASSUME NEW S, NEW T, NEW base \in Nat, \A b \in S \cup T : b \in Int /\ b - base \in Nat,
           \A x \in Nat : x + base \in S <=> x + base \in T
    PROVE  S = T
<1>1. ASSUME NEW b PROVE b \in S <=> b \in T
  <2>1. CASE b \in S \cup T
    <3>1. b \in Int /\ b - base \in Nat /\ (b - base) + base = b
      BY <2>1
    <3> QED
      BY <3>1
  <2> QED
    BY <2>1
<1> QED
  BY <1>1

\* The positions of the pieces or gaps of an endpoint.
Shown(o, e) == UNION {Positions(e, o[k]) : k \in InDirection(o, e)}
LEMMA PiecePlaces ==
    ASSUME NEW o, NEW e, Base(e) \in Nat, \A k \in DOMAIN o : o[k].from \in Nat /\ o[k].to \in Nat
    PROVE  /\ \A b \in Shown(o, e) : b \in Int /\ b - Base(e) \in Nat
           /\ \A x \in Nat : x + Base(e) \in Shown(o, e) <=> Brought(o, DirOf(e), x)
<1> DEFINE S == Shown(o, e)
           base == Base(e)
           d == DirOf(e)
<1>1. \A b : b \in S <=> \E k \in DOMAIN o : o[k].dir = d /\ b \in (o[k].from + base) .. (o[k].to + base - 1)
  BY DEF Shown, InDirection, Positions
<1>2. base \in Nat
  OBVIOUS
<1> HIDE DEF S, base, d
<1>3. \A b \in S : b \in Int /\ b - base \in Nat
  <2> SUFFICES ASSUME NEW b \in S PROVE b \in Int /\ b - base \in Nat
    OBVIOUS
  <2>1. PICK k \in DOMAIN o : b \in (o[k].from + base) .. (o[k].to + base - 1)
    BY <1>1
  <2> QED
    BY <2>1, <1>2
<1>4. ASSUME NEW x \in Nat PROVE x + base \in S <=> Brought(o, d, x)
  <2>1. \A k \in DOMAIN o : x + base \in (o[k].from + base) .. (o[k].to + base - 1)
            <=> o[k].from <= x /\ x < o[k].to
    BY <1>2
  <2> QED
    BY <1>1, <2>1 DEF Brought
<1> QED
  BY <1>3, <1>4 DEF S, base, d

\* Those of the bytes captured.
LEMMA CapturedPlaces ==
    ASSUME NEW e, NEW d, Lists(e, d),
           \A i \in DOMAIN input[d] : input[d][i].seq \in Nat /\ input[d][i].len \in Nat
    PROVE  /\ \A b \in Captured(e) : b \in Int /\ b - Base(e) \in Nat
           /\ \A x \in Nat : x + Base(e) \in Captured(e)
                <=> \E i \in DOMAIN input[d] : input[d][i].seq <= x /\ x < input[d][i].seq + input[d][i].len
<1> DEFINE base == Base(e)
<1>1. \A b : b \in Captured(e)
              <=> \E j \in Sent(e) : b \in captured[j].pos .. (captured[j].pos + captured[j].len - 1)
  BY DEF Captured, BytesOf
<1>2. /\ base \in Nat
      /\ \A i \in DOMAIN input[d] : \E j \in Sent(e) :
            captured[j].pos = input[d][i].seq + base /\ captured[j].len = input[d][i].len
      /\ \A j \in Sent(e) : captured[j].pos \in Nat /\ captured[j].len \in Nat
            /\ (captured[j].len > 0 => \E i \in DOMAIN input[d] :
                  captured[j].pos = input[d][i].seq + base /\ captured[j].len = input[d][i].len)
  BY DEF Lists
<1> HIDE DEF base
<1>3. ASSUME NEW b \in Captured(e)
      PROVE  /\ b \in Int
             /\ \E i \in DOMAIN input[d] : b - base >= input[d][i].seq /\ b - base < input[d][i].seq + input[d][i].len
  <2>1. PICK j \in Sent(e) : b \in captured[j].pos .. (captured[j].pos + captured[j].len - 1)
    BY <1>1
  <2>2. captured[j].pos \in Nat /\ captured[j].len \in Nat /\ captured[j].len > 0
    BY <2>1, <1>2
  <2>3. PICK i \in DOMAIN input[d] : captured[j].pos = input[d][i].seq + base /\ captured[j].len = input[d][i].len
    BY ONLY <2>2, <1>2, j \in Sent(e)
  <2>4. input[d][i].seq \in Nat /\ input[d][i].len \in Nat
    OBVIOUS
  <2>5. b \in Int /\ b - base >= input[d][i].seq /\ b - base < input[d][i].seq + input[d][i].len
    BY ONLY <2>1, <2>3, <2>4, <1>2
  <2> QED
    BY <2>5
<1>4. ASSUME NEW b \in Captured(e) PROVE b \in Int /\ b - base \in Nat
  BY <1>2, <1>3
<1>5. ASSUME NEW x \in Nat, NEW i \in DOMAIN input[d],
             input[d][i].seq <= x, x < input[d][i].seq + input[d][i].len
      PROVE  x + base \in Captured(e)
  <2>1. PICK j \in Sent(e) : captured[j].pos = input[d][i].seq + base /\ captured[j].len = input[d][i].len
    BY <1>2
  <2>2. input[d][i].seq \in Nat /\ input[d][i].len \in Nat
    OBVIOUS
  <2>3. x + base \in captured[j].pos .. (captured[j].pos + captured[j].len - 1)
    BY ONLY <2>1, <2>2, <1>2, <1>5, x \in Nat
  <2> QED
    BY <2>3, <1>1
<1>6. ASSUME NEW x \in Nat, x + base \in Captured(e)
      PROVE  \E i \in DOMAIN input[d] : input[d][i].seq <= x /\ x < input[d][i].seq + input[d][i].len
  <2>1. (x + base) - base = x
    BY <1>2
  <2> QED
    BY <2>1, <1>3, <1>6
<1> QED
  BY <1>4, <1>5, <1>6 DEF base

\* The output of an endpoint is what was captured of it, and its gaps are what is missing.
LEMMA CompleteAtEnd ==
    ASSUME StreamInv, Finished, ~truncated, NEW e \in Whole,
           NEW got, got = Shown(out, e), NEW missing, missing = Shown(gaps, e)
    PROVE  /\ got = Captured(e)
           /\ \A j, k \in InDirection(out, e) : j < k => out[j].to <= out[k].from
           /\ missing = {b \in Base(e)..(Base(e) + Mod) :
                             /\ b \notin Captured(e)
                             /\ \E c, d \in Captured(e) : c < b /\ b < d}
<1> DEFINE d == DirOf(e)
           base == Base(e)
           between == {b \in Base(e)..(Base(e) + Mod) :
                          /\ b \notin Captured(e)
                          /\ \E c, f \in Captured(e) : c < b /\ b < f}
           Holds(i, x) == input[d][i].seq <= x /\ x < input[d][i].seq + input[d][i].len
<1>1. BookInv /\ AtWork /\ dir = Done
  BY DEF StreamInv, Finished
<1>2. TypeOK /\ OrderInv /\ GapInv /\ LossInv /\ OriginInv /\ HoleInv
  BY <1>1 DEF AtWork
<1>3. Lists(e, d) /\ d \in Dirs
  BY <1>1, Listing
<1>4. base \in Nat /\ Mod \in Nat
  BY <1>3, SeqSpaceAssumption DEF Lists
<1>5. \A i \in DOMAIN input[d] : input[d][i].seq \in Nat /\ input[d][i].len \in Nat \ {0}
  BY <1>2, <1>3, InputSegment
<1>6. /\ \A k \in DOMAIN out : out[k].from \in Nat /\ out[k].to \in Nat
      /\ \A k \in DOMAIN gaps : gaps[k].from \in Nat /\ gaps[k].to \in Nat
  <2>1. \A k \in DOMAIN out : out[k] \in Piece
    BY <1>2 DEF TypeOK
  <2>2. \A k \in DOMAIN gaps : gaps[k] \in Gap
    BY <1>2 DEF TypeOK
  <2> QED
    BY <2>1, <2>2 DEF Piece, Gap
<1>7. /\ \A b \in got : b \in Int /\ b - base \in Nat
      /\ \A x \in Nat : x + base \in got <=> Brought(out, d, x)
  BY <1>4, <1>6, PiecePlaces
<1>8. /\ \A b \in missing : b \in Int /\ b - base \in Nat
      /\ \A x \in Nat : x + base \in missing <=> Brought(gaps, d, x)
  BY <1>4, <1>6, PiecePlaces
<1>9. /\ \A b \in Captured(e) : b \in Int /\ b - base \in Nat
      /\ \A x \in Nat : x + base \in Captured(e) <=> \E i \in DOMAIN input[d] : Holds(i, x)
  BY <1>3, <1>5, CapturedPlaces
<1>10. /\ \A k \in DOMAIN out : out[k].dir = d =>
             \E i \in DOMAIN input[d] :
                input[d][i].seq <= out[k].from /\ out[k].to <= input[d][i].seq + input[d][i].len
       /\ \A i \in DOMAIN input[d] : \A b \in Nat : Holds(i, b) => Brought(out, d, b)
       /\ \A i, j \in DOMAIN input[d] : \A b \in Nat :
             input[d][j].seq <= b /\ b < input[d][i].seq + input[d][i].len
                => Brought(out, d, b) \/ Brought(gaps, d, b)
       /\ \A k \in DOMAIN gaps : gaps[k].dir = d =>
             /\ \E i, j \in DOMAIN input[d] : input[d][i].seq < gaps[k].from /\ gaps[k].to = input[d][j].seq
             /\ \A i \in DOMAIN input[d] :
                   input[d][i].seq + input[d][i].len <= gaps[k].from \/ gaps[k].to <= input[d][i].seq
  BY <1>1, <1>2, <1>3, FinishedList
<1>11. \A i \in DOMAIN input[d] : input[d][i].seq < Mod
  <2> SUFFICES ASSUME NEW i \in DOMAIN input[d] PROVE input[d][i].seq < Mod
    OBVIOUS
  <2>1. PICK j \in Sent(e) : /\ captured[j].pos = input[d][i].seq + base
                             /\ captured[j].pos < base + Mod
    BY <1>3 DEF Lists
  <2> QED
    BY <2>1, <1>4, <1>5
<1>12. \A j, k \in InDirection(out, e) : j < k => out[j].to <= out[k].from
  BY <1>2 DEF OrderInv, InOrderOnce, InDirection
<1>13. base = Base(e) /\ \A b : b \in between <=>
            /\ b \in base .. base + Mod
            /\ b \notin Captured(e)
            /\ \E c, f \in Captured(e) : c < b /\ b < f
  OBVIOUS
<1> HIDE DEF d, base, between
<1>14. \A x \in Nat : Brought(out, d, x) <=> \E i \in DOMAIN input[d] : Holds(i, x)
  <2> SUFFICES ASSUME NEW x \in Nat, Brought(out, d, x) PROVE \E i \in DOMAIN input[d] : Holds(i, x)
    BY <1>10
  <2>1. PICK k \in DOMAIN out : out[k].dir = d /\ out[k].from <= x /\ x < out[k].to
    BY DEF Brought
  <2>2. PICK i \in DOMAIN input[d] :
            input[d][i].seq <= out[k].from /\ out[k].to <= input[d][i].seq + input[d][i].len
    BY <2>1, <1>10
  <2> QED
    BY ONLY <2>1, <2>2, <1>5, <1>6, x \in Nat, k \in DOMAIN out, i \in DOMAIN input[d]
<1>15. got = Captured(e)
  <2>1. \A x \in Nat : x + base \in got <=> x + base \in Captured(e)
    BY ONLY <1>7, <1>9, <1>14
  <2> QED
    BY ONLY <2>1, <1>4, <1>7, <1>9, SamePlaces
<1>16. ASSUME NEW x \in Nat, Brought(gaps, d, x) PROVE x + base \in between
  <2>1. PICK k \in DOMAIN gaps : gaps[k].dir = d /\ gaps[k].from <= x /\ x < gaps[k].to
    BY <1>16 DEF Brought
  <2>2. PICK i \in DOMAIN input[d], j \in DOMAIN input[d] :
            input[d][i].seq < gaps[k].from /\ gaps[k].to = input[d][j].seq
    BY <2>1, <1>10
  <2>3. ~(\E n \in DOMAIN input[d] : Holds(n, x))
    <3> SUFFICES ASSUME NEW n \in DOMAIN input[d], Holds(n, x) PROVE FALSE
      OBVIOUS
    <3>1. input[d][n].seq + input[d][n].len <= gaps[k].from \/ gaps[k].to <= input[d][n].seq
      BY <2>1, <1>10
    <3>2. /\ input[d][n].seq \in Nat /\ input[d][n].len \in Nat
          /\ gaps[k].from \in Nat /\ gaps[k].to \in Nat
      BY <1>5, <1>6
    <3> QED
      BY ONLY <3>1, <3>2, <2>1, x \in Nat, Holds(n, x)
  <2>4. x + base \notin Captured(e)
    BY <2>3, <1>9
  <2>5. /\ input[d][i].seq \in Nat /\ input[d][j].seq \in Nat
        /\ input[d][i].len > 0 /\ input[d][j].len > 0
        /\ input[d][i].len \in Nat /\ input[d][j].len \in Nat
        /\ gaps[k].from \in Nat /\ gaps[k].to \in Nat
    BY <1>5, <1>6
  <2>6. Holds(i, input[d][i].seq) /\ Holds(j, input[d][j].seq)
    BY ONLY <2>5
  <2>7. input[d][i].seq + base \in Captured(e) /\ input[d][j].seq + base \in Captured(e)
    BY ONLY <2>5, <2>6, <1>9, i \in DOMAIN input[d], j \in DOMAIN input[d]
  <2>8. input[d][i].seq + base < x + base /\ x + base < input[d][j].seq + base
    BY ONLY <2>1, <2>2, <2>5, <1>4, x \in Nat
  <2>9. x + base \in base .. base + Mod
    <3>1. input[d][j].seq < Mod
      BY <1>11
    <3> QED
      BY ONLY <3>1, <2>5, <2>8, <1>4, x \in Nat
  <2> QED
    BY ONLY <2>4, <2>7, <2>8, <2>9, <1>13
<1>17. ASSUME NEW x \in Nat, x + base \in between PROVE Brought(gaps, d, x)
  <2>1. x + base \notin Captured(e) /\ \E c, f \in Captured(e) : c < x + base /\ x + base < f
    BY ONLY <1>13, <1>17
  <2>2. PICK c \in Captured(e), f \in Captured(e) : c < x + base /\ x + base < f
    BY <2>1
  <2>3. PICK y \in Nat, z \in Nat : c = y + base /\ f = z + base
    <3>1. \A b \in Captured(e) : \E y \in Nat : b = y + base
      <4> SUFFICES ASSUME NEW b \in Captured(e) PROVE \E y \in Nat : b = y + base
        OBVIOUS
      <4>1. b \in Int /\ b - base \in Nat /\ b = (b - base) + base
        BY <1>4, <1>9
      <4> QED
        BY ONLY <4>1
    <3> QED
      BY ONLY <3>1, c \in Captured(e), f \in Captured(e)
  <2>4. PICK j \in DOMAIN input[d], i \in DOMAIN input[d] : Holds(j, y) /\ Holds(i, z)
    BY ONLY <2>3, <1>9, c \in Captured(e), f \in Captured(e)
  <2>5. input[d][j].seq <= x /\ x < input[d][i].seq + input[d][i].len
    <3>1. /\ input[d][j].seq \in Nat /\ input[d][i].seq \in Nat
          /\ input[d][j].len \in Nat /\ input[d][i].len \in Nat
      BY <1>5
    <3>2. y < x /\ x < z
      BY ONLY <2>2, <2>3, <1>4, x \in Nat, y \in Nat, z \in Nat
    <3> QED
      BY ONLY <3>1, <3>2, <2>4, x \in Nat, y \in Nat, z \in Nat
  <2>6. Brought(out, d, x) \/ Brought(gaps, d, x)
    BY ONLY <2>5, <1>10, x \in Nat, i \in DOMAIN input[d], j \in DOMAIN input[d]
  <2>7. ~Brought(out, d, x)
    BY ONLY <2>1, <1>9, <1>14, x \in Nat
  <2> QED
    BY <2>6, <2>7
<1>18. missing = between
  <2>1. \A x \in Nat : x + base \in missing <=> x + base \in between
    BY ONLY <1>8, <1>16, <1>17
  <2>2. \A b \in between : b \in Int /\ b - base \in Nat
    <3>1. \A b \in base .. base + Mod : b \in Int /\ b - base \in Nat
      BY <1>4
    <3> QED
      BY ONLY <3>1, <1>13
  <2> QED
    BY ONLY <2>1, <2>2, <1>4, <1>8, SamePlaces
<1> QED
  BY ONLY <1>12, <1>15, <1>18 DEF between

\* What the reader is shown of an endpoint is, in order and each once, the bytes captured from
\* it, and the gaps are what is missing in between, for captures of any length and sequence
\* numbers that wrap round, however the packets were lost, repeated and reordered and
\* whichever way round the record is (tcp.js:74-117, streams.js:24-67).
THEOREM StreamIsComplete == StreamSpec => []StreamComplete
<1>1. StreamInit => StreamInv
  BY BookInit DEF StreamInit, StreamInv
<1>2. StreamInv => StreamComplete
  <2> SUFFICES ASSUME StreamInv, Finished, ~truncated, NEW e \in Whole
               PROVE  LET pieces == InDirection(out, e)
                          holes == InDirection(gaps, e)
                          got == UNION {Positions(e, out[k]) : k \in pieces}
                          missing == UNION {Positions(e, gaps[k]) : k \in holes}
                      IN  /\ got = Captured(e)
                          /\ \A j, k \in pieces : j < k => out[j].to <= out[k].from
                          /\ missing = {b \in Base(e)..(Base(e) + Mod) :
                                            /\ b \notin Captured(e)
                                            /\ \E c, d \in Captured(e) : c < b /\ b < d}
    BY DEF StreamComplete
  <2> QED
    BY CompleteAtEnd DEF Shown
<1> QED
  BY <1>1, <1>2, StreamStep, PTL DEF StreamSpec
=============================================================================
