SPECIFICATION Spec
CONSTANTS
  Kinds = {"objective", "planning", "document", "adr", "event", "repository", "product", "capability"}
  Numbers = {1, 2}
  Seeds = {1}
  LastCanonical = 1
  Uuids = {u1, u2}
  Names = {k1, k2}
  Approved = 2
  Archived = 3
  MaxRecords = 3
  None = None
SYMMETRY Symmetric
INVARIANTS TypeOK StructuresAgree ProductListsCover
PROPERTIES IdentifiersPermanent ImplementsCatalog
CHECK_DEADLOCK FALSE
