\* Two processes on one node or on two, one key, folders or files.
CONSTANTS
  Procs = {p1, p2}
  Nodes = {A, B}
  Dirs = {d1, d2}
  Pieces = {x, y, z}
  Keys = {k1}
  NoFile = NoFile
  NoObject = NoObject
  NoSha = NoSha
  MaxSize = 2
  MaxEvents = 6
SPECIFICATION StoreSpec
SYMMETRY Symmetry
INVARIANTS StoreTypeOK
PROPERTIES FetchedIsPublished
CHECK_DEADLOCK FALSE
