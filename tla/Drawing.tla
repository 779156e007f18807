------------------------------ MODULE Drawing ------------------------------
(***************************************************************************)
(* The functions that compute bitmaps (functions/BitmapFunctions.cpp), on  *)
(* canvases of any size.  A bitmap is its width, its height and a colour   *)
(* for each offset into its pixels; new memory holds anything.             *)
(***************************************************************************)
EXTENDS Integers

CONSTANTS
  MaxSize,      \* bound on width and height
  MaxColors,    \* bound on the number of colors of a palette
  ChannelMax,   \* the greatest value of a channel, of the one that is modelled
  Garbage       \* what memory holds that was not written

ASSUME DrawingAssumption ==
  {MaxSize, MaxColors, ChannelMax} \subseteq Nat /\ Garbage \notin 0 .. ChannelMax

VARIABLES
  canvas,    \* the bitmap made last
  drawn      \* the function that made it, or "trapped"

drawingVars == <<canvas, drawn>>

Offset(width, x, y) == y * width + x

New(width, height) ==
  [width |-> width, height |-> height, pixels |-> [i \in 0 .. width * height - 1 |-> Garbage]]

\* Writes the colour that painting gives to each of some places; an offset
\* outside the bitmap is a write beyond its memory.
Fill(bitmap, painting) ==
  LET offset(place) == Offset(bitmap.width, place[1], place[2])
      offsets == {offset(place) : place \in DOMAIN painting}
      at(i) == CHOOSE place \in DOMAIN painting : offset(place) = i
  IN  [bitmap EXCEPT !.pixels =
         [i \in DOMAIN bitmap.pixels \cup offsets |->
            IF i \in offsets THEN painting[at(i)] ELSE bitmap.pixels[i]]]

----------------------------------------------------------------------------
(* EmitBitmapFn and the second half of WebGpuDemoFn                         *)

CenterRect(width, height) ==
  LET rectWidth == width \div 2
      rectHeight == height \div 2
      startX == (width - rectWidth) \div 2
      startY == (height - rectHeight) \div 2
  IN  (startX .. startX + rectWidth - 1) \X (startY .. startY + rectHeight - 1)

Emitted(width, height) ==
  Fill(New(width, height), [place \in CenterRect(width, height) |-> ChannelMax])

----------------------------------------------------------------------------
(* DrawColorBandsFn                                                         *)

\* Mutant: the last band is as wide as the others.
Band_NoRest(width, colors, i) ==
  LET bandWidth == width \div colors
  IN  i * bandWidth .. (i + 1) * bandWidth - 1

\* The columns of band i, counted from 0.
Band(width, colors, i) ==
  LET bandWidth == width \div colors
      endX == IF i = colors - 1 THEN width ELSE (i + 1) * bandWidth
  IN  i * bandWidth .. endX - 1

\* The color of a band is its number, within the range of the channel.
Banded(width, height, colors) ==
  LET places == (UNION {Band(width, colors, i) : i \in 0 .. colors - 1}) \X (0 .. height - 1)
      band(x) == CHOOSE i \in 0 .. colors - 1 : x \in Band(width, colors, i)
  IN  Fill(New(width, height), [place \in places |-> band(place[1]) % (ChannelMax + 1)])

----------------------------------------------------------------------------
(* InvertBitmapFn                                                           *)

\* The output has the dimension of the input, so what they share is all of it.
Inverted(bitmap) ==
  LET source(place) == bitmap.pixels[Offset(bitmap.width, place[1], place[2])]
      shared == (0 .. bitmap.width - 1) \X (0 .. bitmap.height - 1)
  IN  Fill(New(bitmap.width, bitmap.height),
           [place \in shared |->
              IF source(place) = Garbage THEN Garbage ELSE ChannelMax - source(place)])

----------------------------------------------------------------------------
(***************************************************************************)
(* Runs                                                                    *)
(***************************************************************************)

EmptyCanvas == canvas = New(0, 0) /\ drawn = "nothing"

EmitBitmap(width, height) ==
  canvas' = Emitted(width, height) /\ drawn' = "emit"

\* width / numColors traps for an empty palette.
DrawColorBands(width, height, colors) ==
  \/ colors = 0 /\ drawn' = "trapped" /\ UNCHANGED canvas
  \/ colors > 0 /\ canvas' = Banded(width, height, colors) /\ drawn' = "bands"

InvertBitmap ==
  drawn \notin {"nothing", "trapped"} /\ canvas' = Inverted(canvas) /\ UNCHANGED drawn

DrawingNext ==
  /\ drawn # "trapped"
  /\ \/ \E width, height \in 1 .. MaxSize :
          \/ EmitBitmap(width, height)
          \/ \E colors \in 0 .. MaxColors : DrawColorBands(width, height, colors)
     \/ InvertBitmap

DrawingSpec == EmptyCanvas /\ [][DrawingNext]_drawingVars

----------------------------------------------------------------------------
(***************************************************************************)
(* Properties                                                              *)
(***************************************************************************)

\* No function writes beyond the memory of its bitmap, whatever its size and
\* however many colors there are.
WritesInside == DOMAIN canvas.pixels = 0 .. canvas.width * canvas.height - 1

\* The bands of a palette, and what is made of them, leave no pixel as the
\* allocation found it: each is the color of exactly one band, also when the
\* colors do not divide the width or outnumber its columns.
BandsCoverCanvas ==
  drawn = "bands" => \A i \in DOMAIN canvas.pixels : canvas.pixels[i] # Garbage

\* Inverting twice gives the bitmap back.
InvertTwiceIsSame == Inverted(Inverted(canvas)) = canvas

\* What the drawing functions make is inside its memory, complete, and inverted
\* pixel by pixel.
DrawingIsSound == WritesInside /\ BandsCoverCanvas /\ InvertTwiceIsSame
=============================================================================
