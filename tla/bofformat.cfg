SPECIFICATION Spec
CONSTANTS
  ElfSizes = {0, 52, 60}
  BitSizes = {0, 7}
  NameLens = {1, 2, 5}
  MaxLines = 5
  SymtabSize = 4
  NameMod = 8
  Byte = 16
  Page = 256
  DiskMayFill = TRUE
INVARIANTS TypeOK ReadersFind FileConsistent FailedIsRefused
CHECK_DEADLOCK FALSE
