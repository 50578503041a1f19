SPECIFICATION Spec
CONSTANTS
  u1 = u1
  u2 = u2
  file = file
  Uploads = {u1, u2}
  FileOf <- OneFile
  NoUpload = NoUpload
  TotalParts = 2
  Requests = {r1, r2}
  MaxVideos = 2
  MaxFaults = 1
SYMMETRY Symmetry
INVARIANTS
  
  CompletedKeyTold
  PublishedPlayable
CHECK_DEADLOCK FALSE
