SPECIFICATION Spec
CONSTANTS
  t1 = t1
  t2 = t2
  c1 = c1
  k1 = k1
  k2 = k2
  Nobody = Nobody
  Keys = {k1, k2}
  Txs = {t1, t2}
  Callers = {c1}
  Writers = {t1, t2, c1}
  Versions = {0, 1, 2}
  MaxSerial = 2
SYMMETRY TxAndKeySymmetry
INVARIANT TypeOK NoDirtyRead SnapshotPlusOwnWrites RevisionCoversVersions
PROPERTY ImplementsSnapshots
CHECK_DEADLOCK FALSE
