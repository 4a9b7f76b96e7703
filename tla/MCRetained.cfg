SPECIFICATION Spec
CONSTANTS
  Nil = Nil
  Strings <- MCStringSet
  Size <- MCSize
  ValidUTF8 <- MCValidUTF8
  ValidCloudString <- MCValidCloudString
  ValidURIReference <- MCValidURIReference
  ValidAbsoluteURI <- MCValidAbsoluteURI
  ValidName <- MCValidName
  ValidTraceParent <- MCValidTraceParent
  ValidTraceState <- MCValidTraceState
  MediaClass <- MCMediaClass
  ParseTime <- MCParseTime
  Integer32 <- MCInteger32
  Base64 <- MCBase64
  Unbase64 <- MCUnbase64
  Base64Length <- MCBase64Length
  ValidJSON <- MCValidJSON
  TrimSpace <- MCTrimSpace
  Quote <- MCQuote
  Unquote <- MCUnquote
  JSONType <- MCJSONType
  JSONDepth <- MCJSONDepth
  Document <- MCDocument
  Escape <- MCEscape
  Unescape <- MCUnescape
  MaxInt = 1000000
  ParseID <- MCParseID
  ParseTenantID <- MCParseTenantID
  ParseUint8 <- MCParseUint8
  FormatUint <- MCFormatUint
  Outcomes = {1, 2, 3}
  ValidJob <- MCValidJob
  ValidEncodedEvent <- MCValidEncodedEvent
  ValidMessageID <- MCValidMessageID
  ValidHistory <- MCValidHistory
  RawURL <- MCRawURL
  RouteLimits <- MCRouteLimits
  Workloads <- MCWorkloads
INVARIANTS
  RestoresEnvelope
  LossesAreComplete
  NothingAdoptedUntrusted
  MispairedIsRefused
CHECK_DEADLOCK FALSE
