SPECIFICATION StartupSpec
CONSTANTS
  None = None
  Paths <- MCPaths
  Libs <- MCLibs
  LibOf <- MCLibOf
  Complete <- MCComplete
  Instances = {i1, i2, i3, i4, i5}
  Dirs <- MCDirs
  Entries <- MCEntries
  NameOf <- MCNameOf
  NameOrder <- MCNameOrder
  Normal <- MCNormal
  MaxLoads = 3
  Files <- MCFiles
  Inherited <- MCInherited
  CommandLines <- MCCommandLines
  DefaultDirs <- MCDefaultDirs
  PlainFiles <- MCPlainFiles
SYMMETRY Symmetry
INVARIANTS
  StartupTypeOK
  LiveCodeMapped
  Balanced
  MirrorsHandles
  LookupFinds
  LastDirectoryWins
  AnalyzesWhatIsAsked
  ConfiguredAsWritten
