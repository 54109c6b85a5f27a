SPECIFICATION Spec
CONSTANTS
  w1 = w1
  w2 = w2
  data = data
  aux = aux
  Writer <- MCWriter
  Temporary <- OwnTemporary
  Final = "artifact"
  Inode = {i1, i2, i3, i4}
  NoInode = NoInode
  Plane <- MCPlane
  Size <- MCSize
SYMMETRY Files
INVARIANTS
  TypeOK
  FinalComplete
  NoLitter
