\* Two packets on a connection with two clients in turn; small instances of the
\* other parts, whose sets are in MCParts.
CONSTANTS
  Threads = {t1, t2}
  NoThread = NoThread
  Requests <- MCRequests
  Garbage <- MCGarbage
  MaxRequests = 2
  MaxClients = 2
  Bytes <- MCBytes
  Errors <- MCErrors
  MaxLen = 5
  Files <- MCFiles
  Names <- MCNames
  LineSize = 6
  ReadErrors = TRUE
  Chars <- MCChars
  Formats <- MCFormats
  Rooms <- MCRooms
  UintValues = 256
  Uint64Values = 65536
  PointerLen = 4
  Unit = 32
  MantissaValues = 65536
  MaxErrorStr = 12
  TextLengths <- MCTextLengths
  LogLevels <- MCLogLevels
  MaxLines = 2
  Starts <- MCStarts
  Ports <- MCPorts
  Daemons = {TRUE, FALSE}
SPECIFICATION PartsSpec
INVARIANTS
  PartsTypeOK AnswersRight ChecksumRight ConfigurationRight
  FormattingRight LogRight MasterRight
PROPERTIES ValidReplied LauncherTrue
\* Files, formats, packets and starts are used up.
CHECK_DEADLOCK FALSE
