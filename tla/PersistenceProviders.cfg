SPECIFICATION Spec
CONSTANTS
  s1 = s1
  s2 = s2
  t1 = t1
  c1 = c1
  k1 = k1
  Nobody = Nobody
  NoSession = NoSession
  Backends = {"memory", "filesystem", "sqlite"}
  Keys = {k1}
  Sessions = {s1, s2}
  Txs = {t1}
  Calls = {c1}
  Writers = {t1, c1}
  MaxConnects = 2
  MaxConnecting = 2
SYMMETRY SessionSymmetry
INVARIANT TypeOK RegisteredAreActive ActiveBelongToConnection
INVARIANT ComposedSessionsClosed NothingLeftBehind ReadersSeeDisk
INVARIANT AnswerTellsState ConnectedHasDatabase SchemaStaysUsable
PROPERTY ImplementsRegistry
CHECK_DEADLOCK FALSE
