SPECIFICATION Spec
CONSTANTS
  Conn = {c1, c2, c3, c4}
  Uid <- MCUid
INVARIANT TablesAgree
PROPERTY ImplementsDirectory
