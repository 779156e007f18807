------------------------------ MODULE MCSystem ------------------------------
(* System with graph inputs of colors, graph outputs of bitmaps and a     *)
(* function that draws colors into a bitmap.                               *)
EXTENDS System

CONSTANTS p, bad, empty    \* payloads: colors, what is no list of colors, an empty list

Param(name, dtype, access) == [name |-> name, dtype |-> dtype, access |-> access]

Draw == <<"fn", "draw">>

DrawOnly == [uri \in {Draw} |-> <<Param("a", "colors", "I"), Param("y", "bitmap", "O")>>]

ColorsInBitmapsOut == {<<"colors", FALSE>>, <<"bitmap", TRUE>>}

Stored == {<<3, 2>>}

ColorsAndBitmaps == {"colors", "bitmap"}

AlwaysDone ==
  [uri \in {Draw, <<"$IN", "colors">>, <<"$OUT", "colors">>} |-> {"DONE"}]

\* What is no list of colors is refused by their decoder, an empty list by the
\* function that draws them; neither is the asset of a bitmap.
RefusedInputs ==
  {<<<<"$IN", "colors">>, "$in", bad>>, <<Draw, "a", empty>>} \cup
  {<<<<"$IN", "bitmap">>, "$in", data>> : data \in {bad, empty}}

BitmapCodecs == {<<"$IN", "bitmap">>, <<"$OUT", "bitmap">>}

\* What the theorems about the system suppose besides SystemAssumption.
ASSUME TheoremsApply == TypesKnown /\ AllRegistered /\ Gpu = {}
=============================================================================
