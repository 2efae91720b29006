SPECIFICATION Spec
CONSTANTS
  Roles = {"user", "reporter"}
  Editors = {e1, e2}
  Codes <- MCCodes
  AdminOnly <- MCAdminOnly
  Requires <- MCRequires
  Defaults <- MCDefaults
  OldCodes <- MCOldCodes
  MaxSaves = 2
  MaxSeeds = 2
SYMMETRY EditorSymmetry
INVARIANTS TypeOK GrantsAreValid StalePagesAreRefused
CHECK_DEADLOCK FALSE
