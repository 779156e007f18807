----------------------------- MODULE AttrCodecs -----------------------------
(***************************************************************************)
(* The codecs of colors, floats and points (functions/attributes), through *)
(* which data enters a pipeline and leaves it, and the function that       *)
(* displaces a point (BasicFunctions.cpp).  Data is a JSON array; a value  *)
(* of JSON is a record with its kind.  The base of the color digits is a   *)
(* parameter (16 in the code), a channel has two digits, and floats are    *)
(* the integers up to a greatest one, beyond which lies NotFinite.         *)
(***************************************************************************)
EXTENDS Integers, Sequences

CONSTANTS
  HexBase,     \* number of hexadecimal digits
  FloatMax,    \* the greatest finite float
  Documents,   \* data a client may enter: [dtype, items]
  Refused      \* the absence of a value

VARIABLES
  doc,     \* the data in a slot: what was entered, later what came out
  attr,    \* the attribute decoded from it
  ran      \* "entered", "encoded" or "aborted"

codecVars == <<doc, attr, ran>>

\* A character is a digit's value or one of these.
Hash == HexBase
OtherChar == HexBase + 1

ChannelSize == HexBase * HexBase

\* A number without its last k digits.
Shifted(n, k) ==
  LET left[i \in 0 .. 8] == IF i = 0 THEN n ELSE left[i - 1] \div HexBase
  IN  left[k]

Digits(n, k) == [i \in 1 .. k |-> Shifted(n, k - i) % HexBase]

\* Mutant: a color without alpha is written in the short form.
PackedRGBAToHexString_NoAlpha(color) ==
  IF color % ChannelSize = 0
  THEN <<Hash>> \o Digits(color \div ChannelSize, 6)
  ELSE <<Hash>> \o Digits(color, 8)

\* An opaque color is written without its alpha.
PackedRGBAToHexString(color) ==
  IF color % ChannelSize = ChannelSize - 1
  THEN <<Hash>> \o Digits(color \div ChannelSize, 6)
  ELSE <<Hash>> \o Digits(color, 8)

\* std::from_chars: the value of the digits up to the first other character.
FromChars16(chars) ==
  LET ends == {i \in 0 .. Len(chars) : \A j \in 1 .. i : chars[j] < HexBase}
      end == CHOOSE i \in ends : \A j \in ends : j <= i
      value[i \in 0 .. end] == IF i = 0 THEN 0 ELSE value[i - 1] * HexBase + chars[i]
  IN  IF end = 0 THEN Refused ELSE value[end]

\* What follows the last digit is not looked at.
HexStringToPackedRGBA(chars) ==
  IF Len(chars) \notin {7, 9} \/ chars[1] # Hash \/ FromChars16(Tail(chars)) = Refused
  THEN Refused
  ELSE IF Len(chars) = 7 THEN FromChars16(Tail(chars)) * ChannelSize + ChannelSize - 1
  ELSE FromChars16(Tail(chars))

----------------------------------------------------------------------------
(***************************************************************************)
(* Floats                                                                  *)
(***************************************************************************)

NotFinite == FloatMax + 1
Float == - FloatMax .. NotFinite

Plus(a, b) ==
  IF NotFinite \in {a, b} \/ a + b > FloatMax \/ a + b < - FloatMax THEN NotFinite ELSE a + b

Text(chars) == [kind |-> "string", chars |-> chars]
Number(kind, value) == [kind |-> kind, value |-> value]
Object(fields) == [kind |-> "object", fields |-> fields]
JsonNull == [kind |-> "null"]

\* dump: a float is written as one, but what is not finite as null.
FloatToJson(f) == IF f = NotFinite THEN JsonNull ELSE Number("float", f)

\* is_number_float: a number written without point and exponent is none.
FloatFromJson(json) == IF json.kind = "float" THEN json.value ELSE Refused

PointToJson(point) == Object([x |-> FloatToJson(point.x), y |-> FloatToJson(point.y)])

PointFromJson(json) ==
  IF json.kind # "object" \/ ~ {"x", "y"} \subseteq DOMAIN json.fields THEN Refused
  ELSE LET x == FloatFromJson(json.fields.x)
           y == FloatFromJson(json.fields.y)
       IN  IF Refused \in {x, y} THEN Refused ELSE [x |-> x, y |-> y]

\* A value of JSON, as far as the decoders look into it.
IsNumber(json) == json.kind = "float" => json.value \in Float
IsJson(json) ==
  /\ IsNumber(json)
  /\ json.kind = "string" => json.chars \in Seq(Nat)
  /\ json.kind = "object" => \A f \in DOMAIN json.fields : IsNumber(json.fields[f])

IsDocument(d) ==
  /\ d.dtype \in {"colors", "floats", "points2d"}
  /\ d.items \in Seq({d.items[i] : i \in DOMAIN d.items})
  /\ \A i \in DOMAIN d.items : IsJson(d.items[i])

ASSUME CodecAssumption ==
  /\ HexBase \in Nat /\ HexBase > 1 /\ FloatMax \in Nat
  /\ Refused \notin Int /\ \A x, y \in Float : Refused # [x |-> x, y |-> y]
  /\ \A d \in Documents : IsDocument(d)

----------------------------------------------------------------------------
(***************************************************************************)
(* A run: the graph input decodes the data, the graph output encodes what  *)
(* it gets, and the client enters the result again.                        *)
(***************************************************************************)

DecodeItem(dtype, json) ==
  CASE dtype = "colors" -> IF json.kind = "string" THEN HexStringToPackedRGBA(json.chars) ELSE Refused
    [] dtype = "floats" -> FloatFromJson(json)
    [] dtype = "points2d" -> PointFromJson(json)

EncodeItem(dtype, value) ==
  CASE dtype = "colors" -> Text(PackedRGBAToHexString(value))
    [] dtype = "floats" -> FloatToJson(value)
    [] dtype = "points2d" -> PointToJson(value)

Decode(d) == [i \in DOMAIN d.items |-> DecodeItem(d.dtype, d.items[i])]

\* The CHECKs of the decoders.
Accepts(d) == \A i \in DOMAIN d.items : DecodeItem(d.dtype, d.items[i]) # Refused

Encode(dtype, values) ==
  [dtype |-> dtype, items |-> [i \in DOMAIN values |-> EncodeItem(dtype, values[i])]]

EnterData == doc \in Documents /\ attr = << >> /\ ran = "entered"

GiveBack(values) == attr' = values /\ doc' = Encode(doc.dtype, values) /\ ran' = "encoded"

\* Input and output joined by an edge.
PassOn ==
  /\ ran # "aborted"
  /\ \/ Accepts(doc) /\ GiveBack(Decode(doc))
     \/ ~ Accepts(doc) /\ ran' = "aborted" /\ UNCHANGED <<doc, attr>>

First(values, default) == IF values = << >> THEN default ELSE values[1]

\* The function that displaces a point, with the floats dx, between the two.
DisplacePoint(dx) ==
  /\ ran # "aborted" /\ doc.dtype = "points2d" /\ Accepts(doc)
  /\ LET point == First(Decode(doc), [x |-> 0, y |-> 0])
     IN  GiveBack(<<[x |-> Plus(point.x, First(dx, 0)), y |-> point.y]>>)

CodecNext == PassOn \/ \E dx \in {<< >>, <<1>>, <<FloatMax, 0>>} : DisplacePoint(dx)

CodecSpec == EnterData /\ [][CodecNext]_codecVars

----------------------------------------------------------------------------
(***************************************************************************)
(* Properties                                                              *)
(***************************************************************************)

\* The encoded form of a float that is not finite cannot be read.
AllFinite == doc.dtype # "colors" => \A i \in DOMAIN attr :
  NotFinite \notin IF doc.dtype = "floats" THEN {attr[i]} ELSE {attr[i].x, attr[i].y}

\* What a graph output gives can be entered again and is read as the very
\* values it was written from, unless one of them is not finite, which JSON
\* cannot write and which ends the program when it is read.
OutputsReadBack == ran = "encoded" => (Accepts(doc) <=> AllFinite) /\ (AllFinite => Decode(doc) = attr)

WellFormed(chars) ==
  Len(chars) \in {7, 9} /\ chars[1] = Hash /\ \A i \in 2 .. Len(chars) : chars[i] < HexBase

Channel(color, i) == Shifted(color, 8 - 2 * i) % ChannelSize

\* The digits of a color stand for its channels, red first, and a color
\* without alpha is opaque.
DigitsAreChannels ==
  doc.dtype = "colors" =>
    \A i \in DOMAIN doc.items :
      (doc.items[i].kind = "string" /\ WellFormed(doc.items[i].chars)) =>
        LET chars == doc.items[i].chars
            color == HexStringToPackedRGBA(chars)
        IN  /\ \A c \in 1 .. (Len(chars) - 1) \div 2 :
                 Channel(color, c) = chars[2 * c] * HexBase + chars[2 * c + 1]
            /\ Len(chars) = 7 => Channel(color, 4) = ChannelSize - 1

\* The codecs of attributes are inverse to each other where they should be, and
\* write colors as the web does.
CodecsAreSound == OutputsReadBack /\ DigitsAreChannels
=============================================================================
