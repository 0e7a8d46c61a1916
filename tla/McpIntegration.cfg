SPECIFICATION Spec
CONSTANTS
  k1 = k1
  k2 = k2
  t1 = t1
  t2 = t2
  c1 = c1
  Nobody = Nobody
  NoTx = NoTx
  Keys = {k1,k2}
  Txs = {t1, t2}
  Calls = {c1}
  Writers = {t1, t2, c1}
  KeyOrder <- MCKeyOrder
  DefaultLimit = 50
  Expectations <- MCExpectations
  ToolQueries <- MCToolQueries
  Parts <- MCParts
  PageLimit = 1
  MaxRestarts = 1
SYMMETRY TxSymmetry
CONSTRAINT MCActivity
INVARIANT TypeOK HandlesAreOpen AnswersAreTrue ScanFindsWhatStays ToolCallsArriveAsMade
PROPERTY ImplementsSnapshots
CHECK_DEADLOCK FALSE
