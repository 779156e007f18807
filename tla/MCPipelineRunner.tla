-------------------------- MODULE MCPipelineRunner --------------------------
(* PipelineRunner on families of small graphs.                             *)
EXTENDS PipelineRunner, GraphFamilies

Uris == {<<"fn", "blend">>, <<"fn", "draw">>, <<"$IN", "colors">>, <<"$OUT", "colors">>}

\* Functions answer in every way there is, the codec of colors is done at once.
AnyOutcome ==
  [uri \in Uris |-> IF uri[1] = "fn" THEN {"DONE", "ERROR", "NO_DATA"} ELSE {"DONE"}]

AlwaysDone == [uri \in Uris |-> {"DONE"}]

\* Bitmaps are decoded and encoded through the await pool.
BitmapCodecs == {<<"$IN", "bitmap">>, <<"$OUT", "bitmap">>}

\* The graphs are what the theorems about outputs ask of them.
ASSUME FamiliesFit == GraphsFit /\ GraphsOrdered
=============================================================================
