SPECIFICATION Spec
CONSTANT MaxRead = 3
CONSTANT MaxSkip = 4
CONSTANT Bytes = {1, 2}
CONSTANT MaxSize = 3
CONSTANT MaxPiece = 2
CONSTANT Serials = 3
PROPERTY RemoteIsAFile
PROPERTY CallsReturn
CHECK_DEADLOCK FALSE
