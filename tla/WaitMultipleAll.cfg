SPECIFICATION Spec
CONSTANTS
  a = a  m = m  s = s  man = man  thr = thr  file = file
  Thread = {t1, t2}
  Object = {a, s}
  Kind <- MixedKind
  Lists <- AllLists
  MaxGiven = 2
  MaxDepth = 2
PROPERTIES
  AllReturns
