-------------------------- MODULE MCPipelineDriver --------------------------
(* PipelineDriver on families of small graphs.                             *)
EXTENDS PipelineDriver, GraphFamilies

AllKinds == AllGraphs \cup WebGpuGraphs

AlwaysDone ==
  [uri \in {<<"fn", "blend">>, <<"fn", "draw">>, <<"fn", "emit">>,
            <<"$IN", "colors">>, <<"$OUT", "colors">>} |-> {"DONE"}]

\* Bitmaps are decoded and encoded through the await pool.
BitmapCodecs == {<<"$IN", "bitmap">>, <<"$OUT", "bitmap">>}

WebGpu == {<<"gpu", "demo">>, <<"gpu", "effect">>}

\* WebGpuDemoFn draws on its bitmap when it is resumed.
Drawing == {<<"gpu", "demo">>}

\* The graphs and the encoders are what the theorems about bitmaps ask of them.
ASSUME BitmapFamiliesFit == GraphsFit /\ BitmapsFit
=============================================================================
