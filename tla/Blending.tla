------------------------------ MODULE Blending ------------------------------
(***************************************************************************)
(* The arithmetic of display/canvas.rs on channels of eight bits: coverage *)
(* of glyphs, alpha blending and interpolated scaling, in u16 and u64 with *)
(* an expect() that the result fits in a byte.  One destination pixel is   *)
(* blended over and over, and one image is stretched again and again.      *)
(***************************************************************************)
EXTENDS Integers, Sequences, FiniteSetsExt

CONSTANTS
  Channels,        \* values of a channel that occur, within 0..255
  Alphas,          \* coverages and alphas that occur
  Unit,            \* the fixed point of a source coordinate (65536 in the code)
  Sides,           \* widths and heights that images are stretched to
  Originals,       \* images before the first step: [width, height, pixels]
  MaxBlends        \* bound: steps

VARIABLES
  destination,     \* <<channel, alpha>> of the blended pixel
  used,            \* the source channel and the weight of the last blend
  stretched,       \* the image that is stretched
  blends           \* bound

blendingVars == <<destination, used, stretched, blends>>

U8 == 0..255

BlendingInit ==
  /\ destination \in Channels \X Channels
  /\ used = <<0, 0>>
  /\ stretched \in Originals
  /\ blends = 0

BlendTruncated(source, old, alpha) == (source * alpha + old * (256 - alpha)) \div 256

\* One channel of blend_coverage and of alpha_blend_word, rounded to nearest.
Blend(source, old, alpha) == (source * alpha + old * (255 - alpha) + 127) \div 255

\* Every channel, the alpha among them, is blended alike.
BlendCoverage(source, coverage) ==
  [k \in 1..2 |-> Blend(source[k], destination[k], coverage)]

\* alpha_blend_word: the source's own alpha, if it has one, times the command's.
AlphaOf(source, global, sourceHasAlpha) ==
  ((IF sourceHasAlpha THEN source[2] ELSE 255) * global + 127) \div 255
AlphaBlend(source, alpha, destinationHasAlpha) ==
  <<Blend(source[1], destination[1], alpha),
    IF destinationHasAlpha THEN alpha + (destination[2] * (255 - alpha) + 127) \div 255 ELSE 255>>

\* The coordinate of an output pixel's centre less half a source pixel, not
\* below zero.
EdgeSourceCoordinate(coordinate, output, source) == ((2 * coordinate + 1) * source * Unit) \div (2 * output)
CenteredSourceCoordinate(coordinate, output, source) ==
  Max({0, ((2 * coordinate + 1) * source * Unit) \div (2 * output) - Unit \div 2})

\* interpolate_pixel: neighbours to the right and below stop at the last one.
Interpolated(image, width, height, x, y) ==
  LET fx == CenteredSourceCoordinate(x, width, image.width)
      fy == CenteredSourceCoordinate(y, height, image.height)
      x0 == fx \div Unit
      y0 == fy \div Unit
      x1 == Min({x0 + 1, image.width - 1})
      y1 == Min({y0 + 1, image.height - 1})
      pixel(i, j) == image.pixels[j * image.width + i]
      row(j) == pixel(x0, j) * (Unit - (fx % Unit)) + pixel(x1, j) * (fx % Unit) IN
  (row(y0) * (Unit - (fy % Unit)) + row(y1) * (fy % Unit) + (Unit * Unit) \div 2) \div (Unit * Unit)

\* The glyphs of a text over the pixel.
Cover ==
  /\ \E s \in Channels \X Channels, coverage \in Alphas :
       destination' = BlendCoverage(s, coverage) /\ used' = <<s[1], coverage>>
  /\ UNCHANGED stretched

AlphaBlends ==
  /\ \E s \in Channels \X Channels, global \in Alphas, h, d \in BOOLEAN :
       /\ destination' = AlphaBlend(s, AlphaOf(s, global, h), d)
       /\ used' = <<s[1], AlphaOf(s, global, h)>>
  /\ UNCHANGED stretched

Stretch ==
  /\ \E w, h \in Sides :
       stretched' = [width |-> w, height |-> h,
                     pixels |-> [i \in 0..(w * h - 1) |-> Interpolated(stretched, w, h, i % w, i \div w)]]
  /\ UNCHANGED <<destination, used>>

BlendingNext ==
  /\ blends < MaxBlends /\ blends' = blends + 1
  /\ Cover \/ AlphaBlends \/ Stretch
-----------------------------------------------------------------------------
\* Types: no expect() on a channel is reached.
BlendingTypeOK ==
  /\ destination \in U8 \X U8
  /\ \A i \in DOMAIN stretched.pixels : stretched.pixels[i] \in U8

\* A blend moves the channel from where it is towards the source, not past it,
\* leaves it under the weight 0 and reaches the source under 255; no product
\* of the two leaves u16.
BlendsTowards ==
  [][LET d == destination[1]
         s == used'[1]
         a == used'[2] IN
     /\ destination'[1] \in Min({s, d})..Max({s, d})
     /\ a = 0 => destination'[1] = d
     /\ a = 255 => destination'[1] = s
     /\ s * a + d * (255 - a) + 127 < 2 ^ 16]_<<destination, used>>

Ascends(image) ==
  \A i \in 0..(image.width * image.height - 2) :
    (i + 1) % image.width # 0 => image.pixels[i] <= image.pixels[i + 1]
Values(image) == {image.pixels[i] : i \in DOMAIN image.pixels}
\* Stretching (scale_pixels) stays between the least and the greatest pixel of the image
\* before it, keeps an image of one size as it is, and keeps the order of
\* pixels along rows that ascend.
StretchFaithful ==
  [][/\ Values(stretched') \subseteq Min(Values(stretched))..Max(Values(stretched))
     /\ stretched'.width = stretched.width /\ stretched'.height = stretched.height => stretched' = stretched
     /\ Ascends(stretched) => Ascends(stretched')]_stretched
=============================================================================
