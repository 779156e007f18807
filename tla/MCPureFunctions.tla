-------------------------- MODULE MCPureFunctions --------------------------
(* The algorithms on plain data: ids, the codecs of attributes, drawing.   *)
(* Each is run by itself, with the others at rest.                         *)
EXTENDS MCIdUtils, AttrCodecs, Drawing

\* Texts: all with the length of a color, some too short or too long, some
\* with a character that is no digit or without the hash.
Chars(n) == [1 .. n -> 0 .. HexBase - 1]

Texts ==
  {<<Hash>> \o t : t \in Chars(6) \cup Chars(8)}
    \cup {<<Hash>> \o [t EXCEPT ![i] = OtherChar] : t \in {Digits(5, 6), Digits(200, 8)}, i \in 1 .. 6}
    \cup {<< >>, <<Hash>>, Digits(77, 7), Digits(77, 9), <<Hash>> \o Digits(9, 7)}

\* A float that is written but too great for its type is read as infinite.
Floats == {Number(kind, f) : kind \in {"float", "integer"}, f \in {- FloatMax, 0, FloatMax, NotFinite}}

Points ==
  {Object([x |-> a, y |-> b]) : a, b \in Floats \cup {JsonNull}} \cup {Object([x |-> a]) : a \in Floats}

Lists(S) == {<< >>} \cup {<<a>> : a \in S}
Pairs(S) == {<<a, b>> : a, b \in S}

Data ==
  [dtype : {"colors"}, items : Lists({Text(t) : t \in Texts} \cup {JsonNull})]
    \cup [dtype : {"floats"}, items : Lists(Floats \cup {JsonNull}) \cup Pairs(Floats)]
    \cup [dtype : {"points2d"}, items : Lists(Points \cup {JsonNull})]

allVars == <<id, codecVars, drawingVars>>

NoData == [dtype |-> "floats", items |-> << >>]

AtRest == doc = NoData /\ attr = << >> /\ ran = "aborted"

AllInit ==
  \/ Init /\ AtRest /\ EmptyCanvas
  \/ id = 0 /\ EnterData /\ EmptyCanvas

AllNext ==
  \/ AtRest /\ EmptyCanvas /\ Next /\ UNCHANGED <<codecVars, drawingVars>>
  \/ CodecNext /\ UNCHANGED <<id, drawingVars>>
  \/ id = 0 /\ AtRest /\ DrawingNext /\ UNCHANGED <<id, codecVars>>

AllSpec == AllInit /\ [][AllNext]_allVars
=============================================================================
