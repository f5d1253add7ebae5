CONSTANTS
  u0 = u0
  u1 = u1
  u2 = u2
  Processes = {p1, p2}
  Uploads = {u0, u1, u2}
  Content <- Files
  Earlier <- EarlierUploads
SPECIFICATION Spec
SYMMETRY Symmetry
CHECK_DEADLOCK FALSE
INVARIANTS
  VersionsConsistent
  FilesFollowRows
  SearchIsCoherent
PROPERTIES
  HiddenOnlyByRollback
