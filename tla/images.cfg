CONSTANTS
  r1 = r1
  r2 = r2
  v1 = v1
  v2 = v2
  w1 = w1
  a = a
  b = b
  Refs = {r1, r2}
  plain = plain
  tagged = tagged
  other = other
  Spellings = {plain, tagged, other}
  NoSpelling = NoSpelling
  Parse <- TwoOfOne
  Versions = {v1, v2, w1}
  NoVersion = NoVersion
  RefOf <- TwoRefs
  Layers = {a, b}
  LayersOf <- SharedLayer
  Sessions = {s1, s2}
  Serially <- Both
  MaxKills <- OneKillIfSerial
SYMMETRY Symmetry
CONSTRAINT OneSpellingAtOnce
SPECIFICATION Spec
INVARIANTS
  ImageInv
PROPERTIES
  OnlyAnotherSpellingTakesIt
  AppearsWhole
