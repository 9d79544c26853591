CONSTANTS
  Worker = {w1, w2}
  Reader = {q1}
  RefundId = {r1}
  MaxEvents = 1
  MaxVersion = 3
  Nobody = Nobody
SPECIFICATION FairCacheSpec
CHECK_DEADLOCK FALSE
INVARIANTS TypeOK NumbersNeverClash CopiesWhole ChangesAreSeen
PROPERTIES ImplementsSerialSaves ViewsConverge
