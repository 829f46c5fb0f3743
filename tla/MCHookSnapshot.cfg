\* A file of two chunks; two inodes, so that a number comes back; three writes.
SPECIFICATION Spec
CONSTANTS
    Inode = {i1, i2}
    Missing = Missing
    Chunk = 2
    Value = {x, y}
    Garbage = Garbage
    MaxWrites = 3
CHECK_DEADLOCK FALSE
PROPERTIES
    ExactIsTheFile
