------------------------------- MODULE Capture -------------------------------
(***************************************************************************)
(* What the dissectors of a capture have in common (src/core/dissect.js):  *)
(* they see its packets once, in order, and what they learn they leave in  *)
(* state that later packets find.  The dissectors of different protocols   *)
(* keep different state, so a behaviour has traffic of one kind.           *)
(***************************************************************************)
EXTENDS Integers, Sequences

CONSTANTS Traffic,     \* the kinds of traffic
          MaxPackets,  \* bound: the length of a capture of each kind
          None

ASSUME CaptureAssumption == MaxPackets \in [Traffic -> Nat] /\ None \notin Nat \cup STRING

VARIABLES traffic,
          captured   \* the packets, or messages, dissected so far

CaptureInit == traffic \in Traffic /\ captured = <<>>

\* There is another packet of this kind: p is the next one dissected.
More(kind) == traffic = kind /\ Len(captured) < MaxPackets[kind]
Receive(p) == captured' = Append(captured, p) /\ UNCHANGED traffic

\* The packet number it gets.
Number == Len(captured) + 1

\* f with k mapped to v, whether or not k was there: Map.set.
Put(f, k, v) == [x \in DOMAIN f \cup {k} |-> IF x = k THEN v ELSE f[x]]
=============================================================================
