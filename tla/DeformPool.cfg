CONSTANTS
  r1 = r1
  r2 = r2
  r3 = r3
  sh1 = sh1
  sh2 = sh2
  Cells = {c1, c2, c3}
  Threads = {t1, t2}
  Runs = {r1, r2, r3}
  EmptyRun = EmptyRun
  NoRun = NoRun
  Shards = {sh1, sh2}
  ShardOf <- TwoShards
  MaxLocal = 2
  EmptySlot = EmptySlot
  NoCell = NoCell
SYMMETRY Symmetry
SPECIFICATION Spec
INVARIANTS RefsExact InternedOnce FreeListExact
PROPERTY ColumnSpec
