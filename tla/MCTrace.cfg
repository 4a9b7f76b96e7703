SPECIFICATION TraceSpec
CONSTANTS
  Alphabets <- MCAlphabets
  VersionBytes = 1
  TraceBytes = 2
  ParentBytes = 1
  FlagsBytes = 1
  MaxStateBytes = 12
  MaxMembers = 2
  MaxKeyBytes = 3
  MaxTenantBytes = 1
  MaxSystemBytes = 1
  MaxValueBytes = 2
INVARIANTS
  ParentAgrees
  StateAgrees
CHECK_DEADLOCK FALSE
