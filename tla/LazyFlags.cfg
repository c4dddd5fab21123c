CONSTANTS
  Insns <- MCInsns
  SnapshotAfter = {"neg"}
SPECIFICATION Spec
INVARIANTS
  TypeOK
  CmpDecides
PROPERTIES
  ArchSpec
VIEW View
