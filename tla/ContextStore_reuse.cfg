SPECIFICATION Spec
CONSTANTS
  t1 = t1
  c1 = c1
  k1 = k1
  Nobody = Nobody
  Keys = {k1}
  Txs = {t1}
  Callers = {c1}
  Writers = {t1, c1}
  Versions = {0, 1, 2}
  MaxSerial = 3
PROPERTY CommitReplacesWhatItRead
CHECK_DEADLOCK FALSE
