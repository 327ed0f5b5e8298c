------------------------ MODULE MCProximityExtractor ------------------------
(* Instantiates ProximityExtractor with two words, MAX_DISTANCE 3 and a    *)
(* few short texts whose pairs hit each proximity 1..MAX_DISTANCE-1, the   *)
(* cap, and a repeated word.                                               *)
EXTENDS ProximityExtractor

CONSTANTS a, b

MCWords == {a, b}
MCMaxDistance == 3

\* "a b", "b . a", "a a . . b", ""
MCTexts ==
  { <<>>,
    <<<<0, a>>, <<1, b>>>>,
    <<<<0, b>>, <<2, a>>>>,
    <<<<0, a>>, <<1, a>>, <<4, b>>>> }

\* two documents, the first with one field, the second with two
MCSlots == {<<1, 1>>, <<2, 1>>, <<2, 2>>}
\* one document with two fields
MCCrossSlots == {<<1, 1>>, <<1, 2>>}
==============================================================================
