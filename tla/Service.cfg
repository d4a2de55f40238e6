SPECIFICATION MCSpec
CONSTANTS
    Listeners = {l1, l2}
    Notifies = {n1, n2}
    ChanSlots = 1
    Definitions <- MCDefinitions
    EmptyName = ""
    NoHandler = "none"
    PromptPageSize = 2
    PageSizes = {0, 1}
    MaxListed = 3
    ResourceURIs = {"u1", "u2", ""}
    EmptyURI = ""
    Metas = {"m1"}
    Bodies = {"b1"}
    NoBody = "none"
    Replacements <- MCReplacements
    Templates = {"t1"}
    Watchers = {"w1"}
    Absent = "absent"
    MaxResources = 3
    Files = {"f1", "f2"}
    Dirs = {"d1", "d2"}
    Root = "root"
    DirOf <- MCDirOf
    Parent <- MCParent
    MaxWrites <- MCMaxWrites
    FileSubs = {"s1"}
    Writers = {"w1", "w2"}
    NoResult = NoResult
    Supported = {"v1", "v2"}
    Latest = "v2"
    Unknown = {"w"}
    Mantissa = 2
    NumberIDs = {1, 4, 5}
    StringIDs = {""}
    Conns = {c1, c2}
    ClientObjects <- MCClientObjects
    Owner = "u1"
    Stranger = "u2"
    Tokens <- MCTokens
    Auds = {"", "a", "b"}
    Algs = {"RS256", "ES256"}
    DefaultAlg = "RS256"
    Leeways = {0, 1}
    DefaultLeeway = 1
    FutureIat = 1
    Scopes = {"r", "w"}
    MaxOptions = 2
    Names = {"a", "b"}
    Types <- MCTypes
    Structs <- MCStructs
    Contents <- MCContents
    BoundValues = {0, 2}
    Width = 2
    MaxEdits = 3
INVARIANTS NotifierPromise ListedIsServed ContentIsCurrent NoChangeUnseen AcceptedIsReturned InitializeKeepsItsWord AnsweredInKind StatusIsTrue VerdictAsDescribed AcceptMeansValid TruthfulAnswerIsDecoded
CHECK_DEADLOCK FALSE
