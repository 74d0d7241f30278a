SPECIFICATION CacheSpec
CONSTANTS
  Threads = {t1, t2, t3}
  Keys = {a, b}
  NoBundle = NoBundle
  MaxGen = 2
SYMMETRY Symmetry
INVARIANTS CacheTypeOK CacheIsCurrent LoadsSeePersisted
