SPECIFICATION Spec
CONSTANTS
  Parts = {"canvas", "strokes", "blending", "compression"}
  Width = 3
  Height = 3
  Bits = {"r", "g", "b", "a"}
  Formats = {"xrgb", "argb", "a8"}
  Initial <- Words
  Pictures <- Embedded
  Commands <- AllCommands
  MaxDrawn = 2
  Precision = 6
  Scale = 10
  WorkMultiplier = 1
  WorkFloor = 8
  Destination <- StrokeArea
  Vertices <- StrokePoints
  Dashes <- StrokeDashes
  MaxLines = 2
  Channels = {0, 1, 254, 255}
  Alphas = {0, 127, 255}
  Unit = 16
  Sides = {1, 2, 5}
  Originals <- Stretchable
  MaxBlends = 2
  Byte = 16
  Low = 4
  Codecs <- CodecKinds
  Shapes <- ImageShapes
  Dictionary <- Retained
  Lengths = {1, 2, 65}
  Offsets = {0, 1, 2, 32, 65}
  MaxTokens = 3
CHECK_DEADLOCK FALSE
INVARIANTS PictureReachesHost DecodersSound
PROPERTIES PixelArithmetic
