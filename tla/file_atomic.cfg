SPECIFICATION Spec
CONSTANTS
  Writers = {w1, w2}
  Texts = {t1, t2, t3}
  Nothing = Nothing
  Empty = Empty
  Torn = Torn
  IOFails = TRUE
  MaxWrites = 3
  MaxKills = 1
SYMMETRY Symmetry
INVARIANT TypeOK TargetIsWhole
PROPERTY LeftoversAreReported WritesAreAtomic
