---------------------------- MODULE MCUiSession ----------------------------
(* Small sessions of UiSession: the values of its constants.               *)
EXTENDS UiSession

CONSTANTS c1, c2, cBad, f, eBad

MCCaptures == {c1, c2, cBad}
MCUnreadable == {cBad}
\* For the liveness run: one readable file and one that is not.
MCTwoCaptures == {c1, cBad}
MCTwoPacketsOf == [c \in MCTwoCaptures |-> IF c = c1 THEN {1} ELSE {}]
\* Packet 2 exists in one of the captures only.
MCPacketsOf == [c \in MCCaptures |-> IF c = c1 THEN {1, 2} ELSE IF c = c2 THEN {1} ELSE {}]
MCExprs == {f, eBad}
MCInvalid == {eBad}
MCMatches == [e \in MCExprs |-> IF e = f THEN {1} ELSE {}]
=============================================================================
