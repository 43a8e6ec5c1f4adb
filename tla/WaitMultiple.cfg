SPECIFICATION Spec
CONSTANTS
  a = a  m = m  s = s  man = man  thr = thr  file = file
  Thread = {t1, t2}
  Object = {a, m, s, man, thr, file}
  Kind <- MixedKind
  Lists <- MixedLists
  MaxGiven = 2
  MaxDepth = 2
INVARIANTS
  TakesWhatItReports
PROPERTIES
  AnyReturns
