SPECIFICATION NcaSpec
CONSTANTS
    Base = 4
    KeyLen = 3
    UsizeMod = 16
    Room = 3
    Builds = {TRUE, FALSE}
    KeyFiles <- TestKeyFiles
    Enc <- ToyEnc
    Dec <- ToyDec
    Xor <- ToyXor
    Poly = 9
    SectorBlocks = 10
    NSections = 2
    MediaUnit = 10
    U32Mod = 256
    Off <- Offsets
    Magics <- TestMagics
    Ncas <- TestNcas
    MaxRead = 2000
CHECK_DEADLOCK FALSE
INVARIANTS
    NcaTypeOK
    KeysComeFromFile
    OpenReadsHeader
    KeyAreaIsRight
    SectionsComeOut
