SPECIFICATION Spec
CONSTANTS
  Roles = {"reporter"}
  Editors = {e1}
  Codes <- MCCodes
  AdminOnly <- MCAdminOnly
  Requires <- MCRequires
  Defaults <- MCDefaults
  OldCodes <- MCOldCodes
  MaxSaves = 0
  MaxSeeds = 1
SYMMETRY EditorSymmetry
INVARIANTS SeedSynchronises
CHECK_DEADLOCK FALSE
