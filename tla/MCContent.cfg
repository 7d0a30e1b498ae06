SPECIFICATION Spec
CONSTANTS
    Process = {p1, p2}
    Name = {n1, n2, n3}
    Dot = dot
    Data = data
    BSIZE = 2
    NDIRECT = 1
    NINDIRECT = 2
    BPB = 10
    MAXOPBLOCKS = 6
    FSSIZE = 12
    nmeta = 5
    bmapstart = 3
    inodeblock = 2
    UINT = 16
    WriteSize = {4}
    ReadSize = {1, 15}
SYMMETRY Symmetry
INVARIANTS BitmapExact FilesWhole OpFits
PROPERTIES WriteEffect
