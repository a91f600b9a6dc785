SPECIFICATION Spec
CONSTANTS
  Entries <- MCEntries
  Base = 7
  Byte = 16
  AddrLen = 3
  NWORDS = 3
  WBITS = 2
  P = 61
  CBITS = 3
  STRIDE = 2
  Columns = 2
  Rows = 2
  Batch = 2
  BYTE = 9
  DBASE = 6
  CheckLen = 2
  Space = 100
  HWORDS = 2
  HBASE = 3
  LWIDTH = 3
  MaxSuffix = 2
  HEX = 2
  HBYTES = 3
  Addresses <- MCAddresses
  OtherCase <- MCOtherCase
  Alphabet <- MCAlphabet
  Star = "*"
  MaxLen = 3
  Fixed <- MCFixed
  AddressBytes = 3
  Program0Lengths = {3}
  MinProgram = 2
  MaxProgram = 4
  KeyBytes = 2
  Order = 79
  Nibble = 3
  Main = 4
  Test = 7
  ProtectedMain = 3
  ProtectedTest = 5
  PkcsGroup = 2
  BlockBytes = 1
  BriefSalt = 1
  BriefHmac = 1
  PkcsSalt = 2
  EOL = 0
  BlkSize = 4
  FirstSize = 2
  MostSize = 4
  Fields <- MCFields
  Difficulty <- MCDifficulty
INVARIANTS TreeRight AddressesAsWritten PointsRight KernelFindsWhatHostAccepts PatternsAsMeant CodesReadBack
