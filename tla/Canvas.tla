------------------------------- MODULE Canvas -------------------------------
(***************************************************************************)
(* The drawing commands of one Display surface (client display/canvas.rs   *)
(* and SurfaceData of display.rs) on its row-major pixel array, next to    *)
(* the picture on points that the commands mean, and the host that takes a *)
(* notice and then copies the surface under its lock.                      *)
(*                                                                         *)
(* A pixel word is the set of its bits that are set, "a" standing for the  *)
(* alpha byte.  Images arrive decoded.  Scaling is nearest-neighbour; the  *)
(* arithmetic of interpolation, glyph coverage and alpha blending is in    *)
(* module Blending, and the rasterizer of strokes in module Strokes.       *)
(***************************************************************************)
EXTENDS Strokes

CONSTANTS
  Width, Height,   \* of the surface
  Bits,            \* bits of a word, "a" among them
  Formats,         \* of the surface: "xrgb", "argb", "a8"
  Initial,         \* its words before the first command, in rows
  Pictures,        \* the embedded images by name: [width, height, format, pixels]
  Commands,        \* what the server draws: records with a kind, area and clip
  MaxDrawn         \* bound: commands

NoClip == {<<>>}

VARIABLES
  format, pixels,  \* the surface
  picture,         \* what has been drawn, as a function of points
  stage,           \* the owner: idle, at the glyphs of a text, about to notify
  notice, reading, \* the host: a notice is there; it has taken one
  shot,            \* its last snapshot
  drawn            \* bound

canvasVars == <<format, pixels, picture, stage, notice, reading, shot, drawn>>

NoCommand == [kind |-> "none"]

Indices == 0..(Width * Height - 1)
Points == (0..(Width - 1)) \X (0..(Height - 1))
Flat(p) == p[2] * Width + p[1]

\* normalize_word and write_surface_pixel.
Normal(w) ==
  CASE format = "a8" -> (Bits \ {"a"}) \cup (w \cap {"a"})
    [] format = "xrgb" -> w \cup {"a"}
    [] OTHER -> w

CanvasInit ==
  /\ format \in Formats
  /\ pixels = [i \in Indices |-> Normal(Initial[i + 1])]
  /\ picture = [p \in Points |-> pixels[Flat(p)]]
  /\ stage = [at |-> "idle", command |-> NoCommand]
  /\ notice = FALSE /\ reading = FALSE
  /\ shot = pixels
  /\ drawn = 0

\* An image of a command: embedded, or the surface itself.
Own == [width |-> Width, height |-> Height, format |-> format, pixels |-> pixels]
Image(name) == IF name = "own" THEN Own ELSE Pictures[name]
-----------------------------------------------------------------------------
(* Sampling. *)

\* image_rect_bounds, for a rectangle <<left, top, right, bottom>>.
Fits(r, width, height) ==
  0 <= r[1] /\ r[1] <= r[3] /\ r[3] <= width /\ 0 <= r[2] /\ r[2] <= r[4] /\ r[4] <= height
Bounds(r) == [x |-> r[1], y |-> r[2], width |-> r[3] - r[1], height |-> r[4] - r[2]]
Locals(b) == 0..(b.width * b.height - 1)

\* clip_contains and stream_clip_contains.
ClipContains(clip, x, y) ==
  clip = NoClip \/ \E r \in clip : r[1] <= x /\ x < r[3] /\ r[2] <= y /\ y < r[4]

\* scale_pixels, nearest: the area s of the image for every pixel of b.
Scaled(image, s, b) ==
  [i \in Locals(b) |->
    LET sx == s.x + ((i % b.width) * s.width) \div b.width
        sy == s.y + ((i \div b.width) * s.height) \div b.height IN
    image.pixels[sy * image.width + sx]]

\* sample_brush of a pattern: rem_euclid of the place on the surface.
Tiled(image, position, b) ==
  [i \in Locals(b) |->
    image.pixels[((b.y + i \div b.width - position[2]) % image.height) * image.width
                 + ((b.x + (i % b.width) - position[1]) % image.width)]]

\* sample_mask: outside the mask image nothing is selected, inverted or not.
Masked(image, position, inverted, b) ==
  [i \in Locals(b) |->
    LET x == (i % b.width) + position[1]
        y == i \div b.width + position[2] IN
    /\ x \in 0..(image.width - 1) /\ y \in 0..(image.height - 1)
    /\ LET w == image.pixels[y * image.width + x]
           selected == IF image.format = "a8" THEN "a" \in w ELSE w \ {"a"} # {} IN
       selected # inverted]

Everywhere(b) == [i \in Locals(b) |-> TRUE]
-----------------------------------------------------------------------------
(* Raster operations. *)

Not(w) == Bits \ w

\* apply_binary_rop: d is the set of flags, kinds name the inversion flags.
BinaryRop(d, source, destination, skind, dkind) ==
  LET s == IF skind \in d THEN Not(source) ELSE source
      t == IF dkind \in d THEN Not(destination) ELSE destination
      r == CASE "put" \in d -> s
             [] "or" \in d -> s \cup t
             [] "and" \in d -> s \cap t
             [] "xor" \in d -> (s \ t) \cup (t \ s)
             [] "black" \in d -> {}
             [] "white" \in d -> Bits
             [] "invert" \in d -> Not(t)
             [] OTHER -> s IN
  IF "result" \in d THEN Not(r) ELSE r

\* apply_rop3: the union of the products whose bit of the code is set.
Rop3(code, pattern, source, destination) ==
  UNION {(IF n \div 4 = 1 THEN pattern ELSE Not(pattern))
         \cap (IF (n \div 2) % 2 = 1 THEN source ELSE Not(source))
         \cap (IF n % 2 = 1 THEN destination ELSE Not(destination)) : n \in code}

\* apply_pixels: the place of pixel i in the box, whether the command touches it,
\* and the surface after it.
LocalOf(b, i) == ((i \div Width) - b.y) * b.width + ((i % Width) - b.x)
Touched(b, clip, mask, i) ==
  LET x == i % Width
      y == i \div Width IN
  /\ x \in b.x..(b.x + b.width - 1) /\ y \in b.y..(b.y + b.height - 1)
  /\ ClipContains(clip, x, y) /\ mask[LocalOf(b, i)]
Applied(b, clip, mask, Op(_, _)) ==
  [i \in Indices |->
    IF Touched(b, clip, mask, i) THEN Normal(Op(LocalOf(b, i), pixels[i])) ELSE pixels[i]]

\* What the same command means on points.
In(p, r) == r[1] <= p[1] /\ p[1] < r[3] /\ r[2] <= p[2] /\ p[2] < r[4]

Painted(c, Selects(_), Colour(_)) ==
  [p \in Points |->
    IF In(p, c.area) /\ (c.clip = NoClip \/ \E r \in c.clip : In(p, r)) /\ Selects(p)
    THEN Normal(Colour(p))
    ELSE picture[p]]

\* A raster operation is one Boolean function for every bit.
Bit(b) == IF b THEN 1 ELSE 0
Meant(d, source, destination, skind, dkind) ==
  {x \in Bits :
    LET s == (x \in source) # (skind \in d)
        t == (x \in destination) # (dkind \in d) IN
    ("result" \in d) # (CASE "put" \in d -> s
                         [] "or" \in d -> s \/ t
                         [] "and" \in d -> s /\ t
                         [] "xor" \in d -> s # t
                         [] "black" \in d -> FALSE
                         [] "white" \in d -> TRUE
                         [] "invert" \in d -> ~t
                         [] OTHER -> s)}
-----------------------------------------------------------------------------
(* The commands. *)

Asked(kind) == {c \in Commands : c.kind = kind}

\* A command whose areas lie on the surface has been drawn.
Drawn(c, image, meant) ==
  /\ stage.at = "idle" /\ drawn < MaxDrawn
  /\ Fits(c.area, Width, Height)
  /\ pixels' = image /\ picture' = meant
  /\ stage' = [at |-> "notify", command |-> c]
  /\ drawn' = drawn + 1
  /\ UNCHANGED <<format, notice, reading, shot>>

\* bgrx_to_rgba_word: a solid colour is opaque, and blue is the alpha of "a8".
Solid(w) ==
  IF format = "a8" THEN (Bits \ {"a"}) \cup (IF "b" \in w THEN {"a"} ELSE {}) ELSE w \cup {"a"}

Brush(c, b) ==
  IF c.brush.pattern = "none" THEN [i \in Locals(b) |-> Solid(c.brush.colour)]
  ELSE Tiled(Image(c.brush.pattern), c.brush.position, b)

BrushAt(c, p) ==
  IF c.brush.pattern = "none" THEN Solid(c.brush.colour)
  ELSE LET t == Image(c.brush.pattern) IN
       t.pixels[((p[2] - c.brush.position[2]) % t.height) * t.width + ((p[1] - c.brush.position[1]) % t.width)]

Source(c, b) == Scaled(Image(c.source), Bounds(c.from), b)

\* The source pixel whose share of the area contains the point's corner.
SourceAt(c, p) ==
  LET t == Image(c.source)
      part(k, n, m) == CHOOSE j \in 0..m : j * n <= k * m /\ k * m < (j + 1) * n IN
  t.pixels[(c.from[2] + part(p[2] - c.area[2], c.area[4] - c.area[2], c.from[4] - c.from[2])) * t.width
           + c.from[1] + part(p[1] - c.area[1], c.area[3] - c.area[1], c.from[3] - c.from[1])]

Mask(c, b) ==
  IF c.mask.image = "none" THEN Everywhere(b)
  ELSE Masked(Image(c.mask.image), c.mask.position, c.mask.inverted, b)

MaskAt(c, p) ==
  c.mask.image # "none" =>
    LET t == Image(c.mask.image)
        q == <<p[1] - c.area[1] + c.mask.position[1], p[2] - c.area[2] + c.mask.position[2]>> IN
    /\ q \in (0..(t.width - 1)) \X (0..(t.height - 1))
    /\ c.mask.inverted # (t.pixels[q[2] * t.width + q[1]] \cap (IF t.format = "a8" THEN {"a"} ELSE Bits \ {"a"}) # {})

DrawFill ==
  \E c \in Asked("fill") :
    LET b == Bounds(c.area)
        brush == Brush(c, b) IN
    Drawn(c, Applied(b, c.clip, Mask(c, b), LAMBDA i, old : BinaryRop(c.rop, brush[i], old, "brush", "destination")),
          Painted(c, LAMBDA p : MaskAt(c, p), LAMBDA p : Meant(c.rop, BrushAt(c, p), picture[p], "brush", "destination")))

\* DRAW_COPY and DRAW_BLEND.
DrawCopy ==
  \E c \in Asked("copy") :
    LET b == Bounds(c.area)
        source == Source(c, b) IN
    Drawn(c, Applied(b, c.clip, Mask(c, b), LAMBDA i, old : BinaryRop(c.rop, source[i], old, "source", "destination")),
          Painted(c, LAMBDA p : MaskAt(c, p), LAMBDA p : Meant(c.rop, SourceAt(c, p), picture[p], "source", "destination")))

DrawOpaque ==
  \E c \in Asked("opaque") :
    LET b == Bounds(c.area)
        source == Source(c, b)
        brush == Brush(c, b) IN
    Drawn(c, Applied(b, c.clip, Mask(c, b), LAMBDA i, old : BinaryRop(c.rop, brush[i], source[i], "brush", "source")),
          Painted(c, LAMBDA p : MaskAt(c, p), LAMBDA p : Meant(c.rop, BrushAt(c, p), SourceAt(c, p), "brush", "source")))

\* DRAW_BLACKNESS, DRAW_WHITENESS and DRAW_INVERS.
DrawMaskedDestination ==
  \E c \in Asked("destination") :
    LET b == Bounds(c.area)
        made(old) == CASE c.rop = {"black"} -> {} [] c.rop = {"white"} -> Bits [] OTHER -> Not(old) IN
    Drawn(c, Applied(b, c.clip, Mask(c, b), LAMBDA i, old : made(old)),
          Painted(c, LAMBDA p : MaskAt(c, p), LAMBDA p : made(picture[p])))

DrawRop3 ==
  \E c \in Asked("rop3") :
    LET b == Bounds(c.area)
        source == Source(c, b)
        brush == Brush(c, b) IN
    Drawn(c, Applied(b, c.clip, Mask(c, b), LAMBDA i, old : Rop3(c.rop, brush[i], source[i], old)),
          Painted(c, LAMBDA p : MaskAt(c, p),
                  LAMBDA p : {x \in Bits : Bit(x \in BrushAt(c, p)) * 4 + Bit(x \in SourceAt(c, p)) * 2
                                            + Bit(x \in picture[p]) \in c.rop}))

\* DRAW_TRANSPARENT: the key colour is compared without alpha.
DrawTransparent ==
  \E c \in Asked("transparent") :
    LET b == Bounds(c.area)
        source == Source(c, b) IN
    Drawn(c, Applied(b, c.clip, Everywhere(b),
                     LAMBDA i, old : IF source[i] \ {"a"} = c.key \ {"a"} THEN old ELSE source[i]),
          Painted(c, LAMBDA p : SourceAt(c, p) \ {"a"} # c.key \ {"a"}, LAMBDA p : SourceAt(c, p)))

\* STREAM_DATA: the whole frame, scaled into its destination.
DrawStreamFrame ==
  \E c \in Asked("stream") :
    LET b == Bounds(c.area)
        source == Source(c, b) IN
    Drawn(c, Applied(b, c.clip, Everywhere(b), LAMBDA i, old : source[i]),
          Painted(c, LAMBDA p : TRUE, LAMBDA p : SourceAt(c, p)))

\* copy_surface_row, a memmove within the pixel array.
RowCopied(image, c, row) ==
  LET b == Bounds(c.area) IN
  [i \in Indices |->
    IF i \div Width = b.y + row /\ (i % Width) \in b.x..(b.x + b.width - 1)
    THEN image[(c.from[2] + row) * Width + c.from[1] + ((i % Width) - b.x)]
    ELSE image[i]]

RowsDownwards(c) == [k \in 1..Bounds(c.area).height |-> k - 1]

\* Without a clip the rows are copied in place: upwards, from the last one, when
\* the destination is below the source.
Rows(c) ==
  LET n == Bounds(c.area).height IN
  [k \in 1..n |-> IF c.area[2] > c.from[2] THEN n - k ELSE k - 1]

\* With one the source is copied first.
CopiedThrough(c) ==
  [i \in Indices |->
    LET b == Bounds(c.area)
        x == i % Width
        y == i \div Width IN
    IF x \in b.x..(b.x + b.width - 1) /\ y \in b.y..(b.y + b.height - 1) /\ ClipContains(c.clip, x, y)
    THEN pixels[(c.from[2] + y - b.y) * Width + c.from[1] + (x - b.x)]
    ELSE pixels[i]]

CopyBits ==
  \E c \in Asked("bits") :
    /\ Fits(c.from, Width, Height)
    /\ Drawn(c, IF c.clip = NoClip THEN FoldLeft(LAMBDA image, row : RowCopied(image, c, row), pixels, Rows(c))
                ELSE CopiedThrough(c),
             Painted(c, LAMBDA p : TRUE,
                     LAMBDA p : picture[<<p[1] - c.area[1] + c.from[1], p[2] - c.area[2] + c.from[2]>>]))
-----------------------------------------------------------------------------
(* Strokes: where the ink goes is the subject of module Strokes. *)

Rasterized == [c \in Asked("stroke") |-> Coverage(c, Bounds(c.area))]

DrawStroke ==
  \E c \in Asked("stroke") :
    LET b == Bounds(c.area)
        brush == Brush(c, b)
        cover == Rasterized[c].coverage
        ink(p) == cover[IndexIn(b, p)] IN
    /\ ~Rasterized[c].failed
    /\ Drawn(c, Applied(b, c.clip, [i \in Locals(b) |-> cover[i] > 0],
                        LAMBDA i, old : BinaryRop(IF cover[i] = 1 THEN c.rop ELSE c.back, brush[i], old, "brush", "destination")),
             Painted(c, LAMBDA p : ink(p) > 0,
                     LAMBDA p : Meant(IF ink(p) = 1 THEN c.rop ELSE c.back,
                                      BrushAt(c, p), picture[p], "brush", "destination")))
-----------------------------------------------------------------------------
(* Text: the background first, if there is one (its area is empty otherwise),
   then, under another lock, the glyphs. *)

DrawTextBackground ==
  \E c \in Asked("text") :
    LET b == Bounds(c.from)
        brush == Brush(c, b) IN
    /\ stage.at = "idle" /\ drawn < MaxDrawn
    /\ Fits(c.area, Width, Height) /\ Fits(c.from, Width, Height)
    /\ pixels' = Applied(b, c.clip, Everywhere(b), LAMBDA i, old : BinaryRop(c.back, brush[i], old, "brush", "destination"))
    /\ picture' = Painted([c EXCEPT !.area = c.from], LAMBDA p : TRUE,
                          LAMBDA p : Meant(c.back, BrushAt(c, p), picture[p], "brush", "destination"))
    /\ stage' = [at |-> "glyphs", command |-> c]
    /\ drawn' = drawn + 1
    /\ UNCHANGED <<format, notice, reading, shot>>

\* rasterize_glyphs of one-bit glyphs, rows stored from the top or the bottom.
GlyphCoverage(c, b) ==
  [i \in Locals(b) |->
    \E g \in c.glyphs, x, y \in 0..2 :
      /\ x < g.width /\ y < Len(g.rows)
      /\ x \in g.rows[1 + (IF c.topDown THEN y ELSE Len(g.rows) - y - 1)]
      /\ Inside(b, <<g.at[1] + x, g.at[2] + y>>)
      /\ (g.at[2] + y - b.y) * b.width + (g.at[1] + x - b.x) = i]

GlyphsAt(c, p) ==
  \E g \in c.glyphs :
    LET row == p[2] - g.at[2] + 1 IN
    /\ row \in 1..Len(g.rows)
    /\ (p[1] - g.at[1]) \in (IF c.topDown THEN g.rows ELSE Reverse(g.rows))[row]

GlyphsUnannounced(c) == [at |-> "idle", command |-> NoCommand]
GlyphsDone(c) == [at |-> "notify", command |-> c]

DrawGlyphs ==
  /\ stage.at = "glyphs"
  /\ LET c == stage.command
         b == Bounds(c.area) IN
     /\ pixels' = Applied(b, c.clip, GlyphCoverage(c, b),
                          LAMBDA i, old : BinaryRop(c.rop, Solid(c.ink), old, "brush", "destination"))
     /\ picture' = Painted(c, LAMBDA p : GlyphsAt(c, p),
                           LAMBDA p : Meant(c.rop, Solid(c.ink), picture[p], "brush", "destination"))
     /\ stage' = GlyphsDone(c)
  /\ UNCHANGED <<format, notice, reading, shot, drawn>>
-----------------------------------------------------------------------------
\* notify_surface replaces the notice that the host has not taken.
Notify ==
  /\ stage.at = "notify"
  /\ notice' = TRUE
  /\ stage' = [at |-> "idle", command |-> NoCommand]
  /\ UNCHANGED <<format, pixels, picture, reading, shot, drawn>>

TakeNotice ==
  /\ notice /\ ~reading
  /\ notice' = FALSE /\ reading' = TRUE
  /\ UNCHANGED <<format, pixels, picture, stage, shot, drawn>>

\* SurfaceHandle::snapshot, at any time after.
Snapshot ==
  /\ reading /\ reading' = FALSE
  /\ shot' = pixels
  /\ UNCHANGED <<format, pixels, picture, stage, notice, drawn>>

CanvasNext ==
  \/ DrawFill \/ DrawCopy \/ DrawOpaque \/ DrawMaskedDestination \/ DrawRop3
  \/ DrawTransparent \/ DrawStreamFrame \/ CopyBits \/ DrawStroke
  \/ DrawTextBackground \/ DrawGlyphs
  \/ Notify \/ TakeNotice \/ Snapshot
-----------------------------------------------------------------------------
\* Types; a surface holds only words of its format.
CanvasTypeOK ==
  /\ \A i \in Indices : pixels[i] \in SUBSET Bits /\ pixels[i] = Normal(pixels[i])
  /\ stage.at \in {"idle", "glyphs", "notify"}

\* The pixel array shows what the commands mean: copies between overlapping
\* areas read the old pixels, patterns keep their place on the surface, masks,
\* clips cut where they should, the two operations of a stroke go to its two
\* kinds of ink, and nothing else changes.
DrawnAsPictured == \A p \in Points : pixels[Flat(p)] = picture[p]

\* Once the owner is idle and the host has followed its last notice, it shows
\* the surface as it is, also when it copied a text between its two writes.
HostConverges == stage.at = "idle" /\ ~notice /\ ~reading => shot = pixels
=============================================================================
