------------------------------ MODULE SpokeArc ------------------------------
(***************************************************************************)
(* SpokeArc::from_blob: the smallest arc of spokes that covers a blob.     *)
(***************************************************************************)
EXTENDS Circle, FiniteSets, FiniteSetsExt

\* The next of the spokes S, which the code sorts, and the empty ones before it.
NextSpoke(S, s) == Min({t \in S : t > s})
GapAfter(S, s) == NextSpoke(S, s) - s - 1

\* Mutant: the gap across spoke 0 is taken as if it lay between the ends.
WrapGapLinear(S) == Max(S) - Min(S) - 1

WrapGap(S) == SpokesPerRevolution - Max(S) + Min(S) - 1

\* The first of the largest gaps between the spokes, and where the arc starts
\* after it.
LargestInnerGap(S) ==
    LET inner == S \ {Max(S)}
        before == CHOOSE s \in inner : \A t \in inner :
                      \/ GapAfter(S, t) < GapAfter(S, s)
                      \/ GapAfter(S, t) = GapAfter(S, s) /\ s <= t
        gap == GapAfter(S, before)
    IN  [gap |-> gap, start |-> IF gap > 0 THEN NextSpoke(S, before) ELSE Min(S)]

Arc(extent, start) ==
    [extent |-> extent, center |-> (start + extent \div 2) % SpokesPerRevolution]

from_blob(S) ==
    LET inner == LargestInnerGap(S)
        wrap == WrapGap(S)
    IN  IF Cardinality(S) = 1 THEN [extent |-> 1, center |-> Min(S)]
        ELSE IF wrap > inner.gap
             THEN Arc(SpokesPerRevolution - wrap, Min(S))
             ELSE Arc(SpokesPerRevolution - inner.gap, inner.start)
=============================================================================
