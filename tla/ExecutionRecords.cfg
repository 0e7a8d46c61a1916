SPECIFICATION Spec
CONSTANTS
  e1 = e1
  i1 = i1
  f1 = f1
  d1 = d1
  d2 = d2
  h1 = h1
  w1 = w1
  w2 = w2
  r1 = r1
  Nobody = Nobody
  NoKey = NoKey
  Keys = {e1, i1, f1, d1, d2, h1}
  Writers = {w1, w2}
  Recoverers = {r1}
  Kind <- MCKind
  KeyOrder <- MCKeyOrder
  Foreign = {d2}
  Initially = {e1, i1, f1, d1}
  Expectations <- MCExpectations
  DefaultLimit = 1
  MaxWrites <- MCMaxWrites
INVARIANT TypeOK SequentialWritesKept RecoveryFindsWhatWasThere OnlyWritesLeaveSessions
PROPERTY UpdateReplacesWhatItRead ImplementsRepository
CHECK_DEADLOCK FALSE
