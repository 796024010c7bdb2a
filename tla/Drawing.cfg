SPECIFICATION Spec
CONSTANTS
  Grain = 6
  SeedSpace = 32
  Proposals = 4
  Tries = 32
  Stream <- MCStream
  Schema <- MCSchema
  Workers = {w1, w2}
  Rests <- MCRests
  Varied <- MCVaried
  Counts = {3}
  Bases = {1}
  Strength = 3
  Stride = 4
  Limit = 3
  DefaultSeed = 7
  NotYet = NotYet
  Partial = Partial
  MaxCommands = 2
  Traited = {"foam", "pools", "iris", "scree", "riffle", "flame", "qql"}
  Settings = 2
  Cities = {"austin", "berlin", "edinburgh", "fidenza", "miami", "seattle", "seoul", "colorlisa"}
  LisaColors <- MCLisa
  LisaSteps = 1
  MaxKept = 2
  Push = 3
  Packers = {"circles", "foam", "scree", "tiles", "facets", "drift", "shoal", "pools", "qql"}
  Width = 15
  Height = 8
  Over = 2
  Cell = 3
  Small = 2
  Large = 4
  Points <- MCPoints
  Starts <- MCStarts
  Probes <- MCProbes
  Most = 3
  Runs = 2
  Darts = 3
  Steps = 3
  Layouts <- MCLayouts
  FoamWidth = 12
  FoamHeight = 8
  Node = 1
  Tilings <- MCTilings
  Spots <- MCSpots
CHECK_DEADLOCK FALSE
INVARIANTS SettingsHold ColoursHold PackingHolds CellsHold
PROPERTIES GalleryHolds SettingsAreLocal
