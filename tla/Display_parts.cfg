SPECIFICATION Spec
CONSTANTS
  Parts = {"surfaces", "gl", "palettes"}
  SurfaceIds = {p, q}
  Primaries = {p}
  StreamIds = {s, t}
  SurfaceSizes = {1}
  SurfaceLimit = 2
  MaxActive = 1
  Windows = {2}
  MaxMade = 3
  MaxStreamsMade = 2
  MaxResets = 2
  GlDisplays = {a, b}
  GlCapacity = 1
  MaxScanouts = 2
  MaxDraws = 2
  PaletteIds = {u, v, w}
  PaletteSizes = {1, 2, 3}
  MaxEntries = 2
  MaxBytes = 4
  MaxPaletteMoves = 2
CHECK_DEADLOCK FALSE
INVARIANTS ConformingServed NothingStale
PROPERTIES DrawsEnd
