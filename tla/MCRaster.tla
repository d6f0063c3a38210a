------------------------------- MODULE MCRaster ------------------------------
(***************************************************************************)
(* What a Display computes on pixels: the drawing commands, the rasterizer *)
(* of strokes, the arithmetic of blending and scaling, and the decoders of *)
(* compressed images, one at a time: `focus` names the part that runs in a *)
(* behaviour, the others stay in one of their initial states.              *)
(***************************************************************************)
EXTENDS Canvas, Blending, Compression, TLC

CONSTANT Parts

VARIABLE focus

rasterVars == <<focus, canvasVars, strokeVars, blendingVars, compressionVars>>
-----------------------------------------------------------------------------
(* A surface of nine pixels, an image with alpha, one without and a mask. *)

Word(n) == {b \in {"r", "g", "b"} : (CASE b = "r" -> n % 2 [] b = "g" -> (n \div 2) % 2 [] OTHER -> n \div 4) = 1}
Words == [i \in 1..9 |-> Word(i % 8)]
Embedded ==
  [tile |-> [width |-> 2, height |-> 1, format |-> "argb", pixels |-> [i \in 0..1 |-> IF i = 0 THEN {"r"} ELSE {"g", "a"}]],
   frame |-> [width |-> 3, height |-> 2, format |-> "xrgb", pixels |-> [i \in 0..5 |-> Word(7 - i) \cup {"a"}]],
   stencil |-> [width |-> 2, height |-> 2, format |-> "a8", pixels |-> [i \in 0..3 |-> {"r", "g", "b"} \cup (IF i \in {0, 3} THEN {"a"} ELSE {})]]]

Area == <<0, 0, 2, 2>>
Shifted == <<1, 0, 3, 2>>
Dropped == <<1, 1, 3, 3>>
Lower == <<0, 1, 3, 2>>
All == <<0, 0, 3, 2>>
Pieces == {<<0, 0, 1, 1>>, <<2, 1, 3, 2>>}

Unmasked == [image |-> "none", position |-> <<0, 0>>, inverted |-> FALSE]
Stencil(p, i) == [image |-> "stencil", position |-> p, inverted |-> i]
Plain(w) == [pattern |-> "none", position |-> <<0, 0>>, colour |-> w]
Pattern(p) == [pattern |-> "tile", position |-> p, colour |-> {}]

Command(kind, area, clip, rop) ==
  [kind |-> kind, area |-> area, clip |-> clip, rop |-> rop, back |-> rop, brush |-> Plain({"b"}),
   source |-> "frame", from |-> All, mask |-> Unmasked]

Drawings ==
  {Command("fill", a, k, {"put"}) : a \in {Area, Shifted}, k \in {NoClip, Pieces}}
  \cup {[Command("fill", a, NoClip, {"put"}) EXCEPT !.brush = Pattern(p)] :
          a \in {Area, Shifted}, p \in {<<-1, 0>>, <<2, 1>>}}
  \cup {[Command("fill", Shifted, NoClip, d) EXCEPT !.mask = Stencil(p, i)] :
          d \in {{"xor"}, {"and", "brush"}}, p \in {<<1, 0>>, <<-1, 1>>}, i \in BOOLEAN}
  \cup {[Command("copy", a, NoClip, d) EXCEPT !.source = n, !.from = f] :
          a \in {All, Area}, d \in {{"put"}, {"or", "source", "result"}}, n \in {"own", "frame"}, f \in {Shifted, All}}
  \cup {[Command("opaque", a, Pieces, d) EXCEPT !.brush = Pattern(<<1, 1>>)] :
          a \in {All, Shifted}, d \in {{"and"}, {"xor", "brush"}, {"invert"}}}
  \cup {[Command("destination", Shifted, Pieces, d) EXCEPT !.mask = m] :
          d \in {{"black"}, {"white"}, {"invert"}}, m \in {Unmasked, Stencil(<<0, 0>>, TRUE)}}
  \cup {[Command("rop3", Shifted, NoClip, code) EXCEPT !.brush = Pattern(<<1, 0>>), !.from = Area] :
          code \in {{2, 3, 6, 7}, {1, 2, 4, 7}, {0, 5}}}
  \cup {Command("stream", a, k, {}) : a \in {All, Lower}, k \in {NoClip, Pieces}}
  \cup {[Command("bits", a, k, {}) EXCEPT !.from = f] : a, f \in {Area, Shifted, Dropped}, k \in {NoClip, Pieces}}

Keyed ==
  {[kind |-> "transparent", area |-> a, clip |-> NoClip, source |-> "frame", from |-> All, key |-> k] :
     a \in {All, Shifted}, k \in {Word(5), Word(2) \cup {"a"}}}

Stroke(points, dash, gap, close) ==
  [kind |-> "stroke", area |-> All, clip |-> NoClip, rop |-> {"put"}, back |-> {"invert"}, brush |-> Plain({"g"}),
   path |-> points, dash |-> dash, gap |-> gap, close |-> close]

\* A path that closes, and paths that enter or leave through the right and
\* lower edges, or cross the surface.
Round == <<<<0, 0>>, <<2, 0>>, <<2, 1>>, <<0, 1>>>>
Crossing == {<<<<-3, 1>>, <<5, 1>>>>, <<<<5, 0>>, <<1, 0>>, <<1, 4>>>>, <<<<1, -2>>, <<1, 1>>>>}
Strokes ==
  {Stroke(Round, d, g, c) : d \in {<<>>, <<32, 16>>, <<16, 16, 16>>}, g, c \in BOOLEAN}
  \cup {Stroke(p, d, FALSE, FALSE) : p \in Crossing, d \in {<<32, 16>>, <<16, 48>>}}

Letter(at) == [at |-> at, width |-> 2, rows |-> <<{0, 1}, {1}>>]
Text(back, glyphs, topDown) ==
  [kind |-> "text", area |-> All, clip |-> NoClip, rop |-> {"put"}, back |-> {"put"}, brush |-> Plain({"r", "b"}),
   from |-> back, ink |-> {"g"}, glyphs |-> glyphs, topDown |-> topDown]
Texts ==
  {Text(b, {Letter(a), Letter(<<0, 0>>)}, t) :
     b \in {<<0, 0, 0, 0>>, All}, a \in {<<1, 0>>, <<2, 1>>, <<-1, -1>>}, t \in BOOLEAN}

AllCommands == Drawings \cup Keyed \cup Strokes \cup Texts
-----------------------------------------------------------------------------
(* Paths on an area whose left edge is not that of the surface: lines
   within it, across its edges, along its lower edge and past it. *)

StrokeArea == [x |-> 1, y |-> 0, width |-> 14, height |-> 1]
StrokePoints == ({-12, -4, 0, 1, 4, 9, 14, 15, 20} \X {0, 1}) \cup ({1, 4} \X {-5, 3})
StrokeDashes == {<<>>, <<32, 16>>, <<24, 16, 40>>}
-----------------------------------------------------------------------------
(* Images to stretch, and images to decode: a small one, and one with more
   pixels than any short field can name. *)

Rows3 == [width |-> 3, height |-> 1, pixels |-> [i \in 0..2 |-> <<0, 7, 255>>[i + 1]]]
Square == [width |-> 2, height |-> 2, pixels |-> [i \in 0..3 |-> <<1, 2, 254, 255>>[i + 1]]]
Stretchable == {Rows3, Square}

CodecKinds == {<<"lz", "alpha">>, <<"lz", "rgba">>, <<"glz", "rgb16">>, <<"glz", "rgba">>}
ImageShapes == {<<2, 2>>, <<35, 2>>}
Retained ==
  (1 :> [k \in 1..2 |-> <<k, 15 - k>>]) @@ (6 :> [k \in 1..72 |-> <<(5 * k) % 16, (3 * k) % 16>>])
-----------------------------------------------------------------------------
Init ==
  /\ focus \in Parts
  /\ CanvasInit /\ StrokesInit /\ BlendingInit /\ CompressionInit
  /\ focus # "canvas" => format = "xrgb"
  /\ focus # "strokes" => path = <<<<0, 0>>>> /\ style = [dash |-> <<>>, gap |-> FALSE]
  /\ focus # "blending" => destination = <<0, 0>> /\ stretched = Square
  /\ focus # "compression" => image.codec = "lz" /\ image.kind = "rgba" /\ image.width = 2 /\ image.topDown

Next ==
  /\ UNCHANGED focus
  /\ \/ focus = "canvas" /\ CanvasNext /\ UNCHANGED <<strokeVars, blendingVars, compressionVars>>
     \/ focus = "strokes" /\ StrokesNext /\ UNCHANGED <<canvasVars, blendingVars, compressionVars>>
     \/ focus = "blending" /\ BlendingNext /\ UNCHANGED <<canvasVars, strokeVars, compressionVars>>
     \/ focus = "compression" /\ CompressionNext /\ UNCHANGED <<canvasVars, strokeVars, blendingVars>>

Spec == Init /\ [][Next]_rasterVars

\* Every variable has its type: a surface holds words of its format, a channel
\* fits in its byte, and a decoder stays within its image.
RasterTypeOK == CanvasTypeOK /\ BlendingTypeOK /\ CompressionTypeOK

(* A surface holds the picture that its commands mean, and the host that   *)
(* reads it when it is told to gets that picture.  The ink of a stroke     *)
(* stays on its path and follows it up to the rounding of f64: exactly     *)
(* where no ratio is rounded, elsewhere without two missing pixels in a    *)
(* row.                                                                    *)
PictureReachesHost ==
  RasterTypeOK /\ DrawnAsPictured /\ StrokesFaithful /\ HostConverges

(* The fixed-width arithmetic on pixels stays between its operands:        *)
(* blending moves towards the colour, and scaling keeps to the original.   *)
PixelArithmetic ==
  BlendsTowards /\ StretchFaithful

(* A decoder gives the image that was encoded, and refuses no complete     *)
(* encoding.                                                               *)
DecodersSound ==
  DecodesAsMeant /\ CompletePayloadAccepted
=============================================================================
