CONSTANTS
  Paths = {p1, p2}
  clean = clean
  broken = broken
  doubtful = doubtful
  Contents <- MCContents
  Flawed <- MCFlawed
  Detectors = {1, 2}
  Triages = {"resolved", "ignored"}
  MaxWrites = 3
SPECIFICATION Spec
SYMMETRY Symmetry
INVARIANTS
  CacheIsByContent
