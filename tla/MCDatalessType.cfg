SPECIFICATION Spec
CONSTANTS
  Nil = Nil
  Strings <- MCBridgeStrings
  Size <- MCSize
  ValidUTF8 <- MCValidUTF8
  ValidCloudString <- MCValidCloudString
  ValidURIReference <- MCValidURIReference
  ValidAbsoluteURI <- MCValidAbsoluteURI
  ValidName <- MCValidName
  ValidTraceParent <- MCValidTraceParent
  ValidTraceState <- MCValidTraceState
  MediaClass <- MCMediaClass
  ParseTime <- MCParseTime
  Integer32 <- MCInteger32
  Base64 <- MCBase64
  Unbase64 <- MCUnbase64
  Base64Length <- MCBase64Length
  ValidJSON <- MCValidJSON
  TrimSpace <- MCTrimSpace
  Quote <- MCQuote
  Unquote <- MCUnquote
  JSONType <- MCJSONType
  JSONDepth <- MCJSONDepth
  Document <- MCDocument
  Escape <- MCEscape
  Unescape <- MCUnescape
  MaxInt = 1000000
  Workloads <- DatalessTypeLoad
INVARIANT
  StrictLosesNothing
CHECK_DEADLOCK FALSE
