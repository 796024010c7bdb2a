SPECIFICATION Spec
CONSTANTS
  Artworks = {a1, a2}
  Samples = {s1, s2, s3}
  Forms = {f1, f2}
  Absent = Absent
  BatchSize = 1
  MaxKept = 1
  MaxExplorations = 2
  MaxFavourites = 1
  MaxRevision = 2
  Grain = 10
  SeedSpace = 16
  Proposals = 4
  Tries = 16
  Stream <- MCStream
  BatchStarts = {9}
  ColoursTried = {"cezanne-bathers"}
  Files <- MCFiles
  NoSample = NoSample
  MaxRounds = 2
CONSTRAINT Bounded
SYMMETRY Symmetry
CHECK_DEADLOCK FALSE
INVARIANTS FormsAct NavigationHolds EditionsHold
PROPERTIES FavouritesStay
