------------------------------ MODULE Palettes ------------------------------
(***************************************************************************)
(* The palette cache of one Display (client display.rs, PaletteCache):     *)
(* inline palettes that the server asks to keep, references to kept ones,  *)
(* invalidations, RESET and the clear after a migration, with the limits   *)
(* on entries and bytes.                                                   *)
(***************************************************************************)
EXTENDS Naturals, FiniteSets, FiniteSetsExt

CONSTANTS
  PaletteIds,     \* unique identifiers
  PaletteSizes,   \* bytes of a palette
  MaxEntries,     \* MAX_PALETTE_CACHE_ENTRIES
  MaxBytes,       \* MAX_PALETTE_CACHE_BYTES
  MaxPaletteMoves \* bound: migrations

ASSUME PalettesAssumption ==
  /\ PaletteSizes \subseteq Nat \ {0}
  /\ {MaxEntries, MaxBytes, MaxPaletteMoves} \subseteq Nat

VARIABLES
  palettes, \* [entries: identifier -> bytes or 0, retained, stage]
  known,    \* the server: identifier -> bytes of what it expects to be cached
  newHost   \* [moved: not yet observed, moves]

palettesVars == <<palettes, known, newHost>>

NoPalettes == [i \in PaletteIds |-> 0]
Cached(entries) == {i \in PaletteIds : entries[i] > 0}
CachedBytes(entries) == MapThenSumSet(LAMBDA i : entries[i], PaletteIds)

PalettesInit ==
  /\ palettes = [entries |-> NoPalettes, retained |-> 0, stage |-> "run"]
  /\ known = NoPalettes
  /\ newHost = [moved |-> FALSE, moves |-> 0]

ClearedPalettes(p) == [p EXCEPT !.entries = NoPalettes, !.retained = 0]

\* A migration that is not seamless is observed before the message is handled.
ObservedPalettes == IF newHost.moved THEN ClearedPalettes(palettes) ELSE palettes
HandledPalettes(p) == palettes' = p /\ newHost' = [newHost EXCEPT !.moved = FALSE]

InsertedForgetting(p, i, size) ==
  IF (p.entries[i] = 0 /\ Cardinality(Cached(p.entries)) >= MaxEntries) \/ p.retained + size > MaxBytes
  THEN [p EXCEPT !.stage = "capacity"]
  ELSE [p EXCEPT !.entries[i] = size, !.retained = @ + size]

\* PaletteCache::insert: an identifier that is kept already is replaced.
Inserted(p, i, size) ==
  LET updated == p.retained - p.entries[i] + size IN
  IF (p.entries[i] = 0 /\ Cardinality(Cached(p.entries)) >= MaxEntries) \/ updated > MaxBytes
  THEN [p EXCEPT !.stage = "capacity"]
  ELSE [p EXCEPT !.entries[i] = size, !.retained = updated]

\* An image with an inline palette to be cached.
InlinePalette ==
  /\ palettes.stage = "run"
  /\ \E i \in PaletteIds, size \in PaletteSizes :
       HandledPalettes(Inserted(ObservedPalettes, i, size)) /\ known' = [known EXCEPT ![i] = size]

\* An image that names a palette the server expects to be cached.
CachedPalette ==
  /\ palettes.stage = "run"
  /\ \E i \in Cached(known) :
       LET p == ObservedPalettes IN
       HandledPalettes([p EXCEPT !.stage = IF p.entries[i] = known[i] THEN @ ELSE "miss"])
  /\ UNCHANGED known

\* saturating_sub never saturates: an entry's bytes are in the sum.
Invalidated(p, i) == [p EXCEPT !.entries[i] = 0, !.retained = IF @ > p.entries[i] THEN @ - p.entries[i] ELSE 0]

InvalidatePalette ==
  /\ palettes.stage = "run"
  /\ \E i \in PaletteIds :
       HandledPalettes(Invalidated(ObservedPalettes, i)) /\ known' = [known EXCEPT ![i] = 0]

\* INVALIDATE_ALL_PALETTES, and RESET.
InvalidateAllPalettes ==
  /\ palettes.stage = "run"
  /\ HandledPalettes(ClearedPalettes(ObservedPalettes)) /\ known' = NoPalettes

NewPaletteServer ==
  /\ palettes.stage = "run" /\ ~newHost.moved /\ newHost.moves < MaxPaletteMoves
  /\ newHost' = [moved |-> TRUE, moves |-> newHost.moves + 1]
  /\ known' = NoPalettes
  /\ UNCHANGED palettes

PalettesNext ==
  InlinePalette \/ CachedPalette \/ InvalidatePalette \/ InvalidateAllPalettes \/ NewPaletteServer
-----------------------------------------------------------------------------
\* Types and the two limits.
PalettesTypeOK ==
  /\ palettes.stage \in {"run", "capacity", "miss"}
  /\ Cardinality(Cached(palettes.entries)) <= MaxEntries /\ palettes.retained <= MaxBytes

\* The server's palettes are the cached ones: none it names is missing, and the
\* cache is refused as full only when the server itself keeps too much.
ServerKnowsPalettes ==
  /\ palettes.stage # "miss"
  /\ palettes.stage = "capacity" => Cardinality(Cached(known)) > MaxEntries \/ CachedBytes(known) > MaxBytes
=============================================================================
