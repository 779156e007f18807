--------------------------- MODULE GraphFamilies ---------------------------
(* Families of small graphs on which the pipeline is checked.              *)
EXTENDS PipelineBuilder

CONSTANTS
  p, q,     \* payloads
  bad,      \* one that no decoder takes
  empty     \* one of colors that decodes to a palette without any

Kind(ntype, uri, ins, outs, inouts, dtypes) ==
  [info |-> [ntype |-> ntype, uri |-> uri, ins |-> ins, outs |-> outs, inouts |-> inouts],
   dtypes |-> dtypes]

GraphIn(dtype) ==
  Kind("IN", <<"$IN", dtype>>, << >>, <<"$out">>, << >>, [x \in {"$out"} |-> dtype])

GraphOut(dtype) ==
  Kind("OUT", <<"$OUT", dtype>>, <<"$in">>, << >>, << >>, [x \in {"$in"} |-> dtype])

\* Two bitmaps in, one out.
Blend == Kind("FN", <<"fn", "blend">>, <<"a", "b">>, <<"y">>, << >>,
              [x \in {"a", "b", "y"} |-> "bitmap"])

\* Colors in, a bitmap out, and a mutable slot.
Draw == Kind("FN", <<"fn", "draw">>, <<"a">>, <<"y">>, <<"m">>,
             [x \in {"a", "m", "y"} |-> IF x = "a" THEN "colors" ELSE "bitmap"])

Access(info, name) ==
  IF name \in Entries(info.ins) THEN "I" ELSE IF name \in Entries(info.outs) THEN "O" ELSE "M"

Edge(a, s, b, t) == [node0 |-> a, slot0 |-> s, node1 |-> b, slot1 |-> t]

\* The graph state with these nodes (a sequence of kinds, by id), edges (a
\* sequence, by id) and data (slot -> payload), in this order.
MakeGraph(kinds, edges, data, order) ==
  LET slots == UNION {{<<n, x>> : x \in DOMAIN kinds[n].dtypes} : n \in DOMAIN kinds}
  IN  [nodeInfos  |-> [n \in DOMAIN kinds |-> kinds[n].info],
       slotInfos  |-> [s \in slots |-> [dtype  |-> kinds[s[1]].dtypes[s[2]],
                                        access |-> Access(kinds[s[1]].info, s[2])]],
       slotStates |-> [s \in slots |->
          [inEdges  |-> {e \in DOMAIN edges : To(edges[e]) = s},
           outEdges |-> {e \in DOMAIN edges : From(edges[e]) = s},
           encodedData |-> IF s \in DOMAIN data THEN data[s] ELSE NoData]],
       edgeInfos  |-> edges,
       sortOrder  |-> order]

EmptyGraph == MakeGraph(<< >>, << >>, EmptyMap, << >>)

\* Input, blend, blend, output; the second arguments come from an edge, from
\* data, from both or from nowhere; an edge into an output is of no use.
Extras == {<< >>, <<Edge(1, "$out", 3, "b")>>, <<Edge(3, "y", 2, "b")>>,
           <<Edge(1, "$out", 2, "b"), Edge(1, "$out", 3, "b")>>,
           <<Edge(1, "$out", 3, "b"), Edge(1, "$out", 2, "y")>>}

Inputs ==
  {[s \in S |-> IF s[1] = 1 THEN p ELSE q] :
     S \in SUBSET {<<1, "$out">>, <<2, "b">>, <<3, "b">>, <<2, "a">>}}

Chains ==
  {MakeGraph(<<GraphIn("bitmap"), Blend, Blend, GraphOut("bitmap")>>,
             <<Edge(1, "$out", 3, "a"), Edge(3, "y", 2, "a"), Edge(2, "y", 4, "$in")>> \o extra,
             data, <<1, 3, 2, 4>>) : extra \in Extras, data \in Inputs}

\* An input of colors or of another type, a drawing and two outputs, one of
\* them of what is drawn, the other of a slot of any access.
Drawings ==
  {MakeGraph(<<GraphIn(dtype), Draw, GraphOut("bitmap"), GraphOut(other)>>,
             <<Edge(1, "$out", 2, "a"), Edge(2, "y", 3, "$in"), Edge(2, slot, 4, "$in")>>,
             data, <<1, 2, 3, 4>>) :
     dtype \in {"colors", "bitmap", "geom2d", "text"}, other \in {"colors", "bitmap"},
     slot \in {"y", "m", "a"}, data \in {[s \in {<<1, "$out">>} |-> p],
                                        [s \in {<<1, "$out">>, <<2, "m">>} |-> p]}}

\* A drawing whose colors, whose own data for them, overridden by the edge, or
\* whose mutable slot may be refused.
Refusals ==
  {MakeGraph(<<GraphIn("colors"), Draw, GraphOut("bitmap")>>,
             <<Edge(1, "$out", 2, "a"), Edge(2, "y", 3, "$in")>>, data, <<1, 2, 3>>) :
     data \in UNION {[S -> {p, bad, empty}] :
       S \in {{<<1, "$out">>} \cup T : T \in SUBSET {<<2, "a">>, <<2, "m">>}}}}

\* What the functions of these graphs end the program over.
FatalInputs ==
  {<<<<"$IN", dtype>>, "$in", bad>> : dtype \in {"colors", "bitmap", "geom2d"}} \cup
  {<<<<"fn", "draw">>, "a", empty>>, <<<<"$IN", "bitmap">>, "$in", empty>>}

\* Two functions that feed each other, and an edge of a node that is gone.
Odd ==
  {MakeGraph(<<Draw, Draw>>, <<Edge(1, "m", 2, "m"), Edge(2, "m", 1, "m")>>,
             [s \in {<<1, "a">>, <<2, "a">>} |-> q], <<1, 2>>),
   MakeGraph(<<Blend, Blend>>, <<Edge(1, "y", 2, "a"), Edge(2, "y", 1, "b")>>,
             [s \in {<<1, "a">>, <<2, "b">>} |-> q], <<1, 2>>),
   MakeGraph(<<Draw>>, <<Edge(2, "y", 1, "m")>>, [s \in {<<1, "a">>} |-> q], <<1>>)}

AllGraphs == {EmptyGraph} \cup Chains \cup Drawings \cup Refusals \cup Odd

\* A bitmap out of nothing, as EmitBitmapFn makes it, and the WebGPU functions.
Emit == Kind("FN", <<"fn", "emit">>, << >>, <<"pic">>, << >>, [x \in {"pic"} |-> "bitmap"])
Demo == Kind("FN", <<"gpu", "demo">>, << >>, <<"pic">>, << >>, [x \in {"pic"} |-> "bitmap"])
Effect == Kind("FN", <<"gpu", "effect">>, <<"src">>, <<"dst">>, << >>,
               [x \in {"src", "dst"} |-> "bitmap"])

\* Graphs with WebGPU functions: alone, one after the other, with two outputs,
\* on what another function makes and on an input that is used twice.
WebGpuGraphs ==
  LET Out == GraphOut("bitmap")
      Made(kinds, edges) == MakeGraph(kinds, edges, [s \in {<<1, "$out">>} |-> p], <<1, 2, 3, 4>>)
      Line(kinds, edges, n) == MakeGraph(kinds, edges, EmptyMap, [i \in 1 .. n |-> i])
  IN  {Line(<<Demo, Out>>, <<Edge(1, "pic", 2, "$in")>>, 2),
       Line(<<Demo, Out, Out>>, <<Edge(1, "pic", 2, "$in"), Edge(1, "pic", 3, "$in")>>, 3),
       Line(<<Emit, Effect, Out>>, <<Edge(1, "pic", 2, "src"), Edge(2, "dst", 3, "$in")>>, 3),
       Line(<<Demo, Effect, Out>>, <<Edge(1, "pic", 2, "src"), Edge(2, "dst", 3, "$in")>>, 3),
       Line(<<Emit, Effect, Effect, Out>>,
            <<Edge(1, "pic", 2, "src"), Edge(2, "dst", 3, "src"), Edge(3, "dst", 4, "$in")>>, 4),
       Made(<<GraphIn("bitmap"), Effect, Blend, Out>>,
            <<Edge(1, "$out", 2, "src"), Edge(2, "dst", 3, "a"), Edge(1, "$out", 3, "b"),
              Edge(3, "y", 4, "$in")>>)}
=============================================================================
