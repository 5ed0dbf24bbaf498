SPECIFICATION MCSpec
CONSTANTS
    Formats = {"proto", "msgpack", "message", "leb", "bytes"}
    Words <- MCWords  Bytes <- MCBytes  ProtoFields <- MCFields  CodecItems = 2
    Lengths = {0, 1, 15, 16, 31, 32, 127, 128, 255, 256, 65535, 65536}
    JsonChars <- MCJsonChars  JsonMax = 2  JsonNodes = 2
    Pieces <- MCPieces  LexPieces = 2  StrMax = 4
    ExprContexts = 2  StmtContexts = 1  Styles = {"braces", "indent"}
    TomlKeys = {"version", "else"}  TomlValues = {"1", "2"}  TomlDeps = {"d", "e"}  TomlLines = 4
    VersionNums = {0, 1}  VersionTags = {0, 1, 2}  VersionBuilds = {0, 1}  ApiNames = {"x", "y", "z"}  ApiMax = 2  PkgCalls = 3
    BuiltinTypes = {"U32"}  ImportTypes <- MCImports  ActorNames = {"A", "B"}  ActorMembers <- MCMembers
    MembersMax = 2  DeclsMax = 2  ErrorsMax = 2
    TypeMax = 3  TypeParts = 2
    MethodBits = 3  MethodHeads <- MCHeads  MethodStmts <- MCStmts  MethodConds <- MCConds
    MethodSize = 3  MethodTurns = 9  WasmSteps = 300
INVARIANTS
    RoundTrips
    PackagesSound
    RefCountsExact
    FrontEndFaithful
    BackEndsFaithful
CHECK_DEADLOCK FALSE
