SPECIFICATION Spec
CONSTANTS
  NumDrives = 2
  Tracks = 2
  Sectors = 2
  SectorSize = 3
  Images = {a, b}
  NoImage = NoImage
  None = None
SYMMETRY Files
INVARIANTS
  StoresStayInside
  DirtyIsInReach
  OneDriveActive
  Track0IsTrack0
PROPERTIES
  WritesStayPut
  ReadsUnderHead
