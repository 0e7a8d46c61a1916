SPECIFICATION Spec
CONSTANTS
  Kinds = {"objective", "planning", "adr", "document"}
  Numbers = {0, 1, 2}
  Seeds = {0}
  LastCanonical = 1
  Uuids = {u1, u2}
  Names = {k1}
  Approved = 2
  Archived = 3
  MaxRecords = 3
  None = None
SYMMETRY Symmetric
INVARIANTS LinksResolve GovernorsApproved
CHECK_DEADLOCK FALSE
