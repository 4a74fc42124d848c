SPECIFICATION PathSpec
CONSTANT Stages = {"door", "ask", "distil", "models", "query", "scroll", "graph"}
CONSTANTS
    Conns = {"c1", "c2"}
    DoorOf <- Doors
    Requests <- DoorRequests
    NodeSetups <- DoorNodes
    MaxRequests = 2
    MaxNow = 1
    Threads = {"t1", "t2"}
    Payloads <- AskPayloads
    Contexts = {"query"}
    MaxTextBytes = 5
    MaxFields = 3
    Growth = 2
    RescaleAt = 2
    Scale = 16
    Window = 2
    MaxObservations = 2
    MaxVersions = 1
    Terms <- AskTerms
    Docs = {"d1", "d2"}
    Query <- AskQuery
    RecallK = 1
    RerankK = 1
    TopContext = 2
    ReadyAt = 50
    PartialAt = 25
    MaxTurns = 2
    MaxRestarts = 1
    Texts = {"t1", "t2", "t3"}
    MaxTexts = 3
    Batch = 2
    Dims = {1, 2}
    Features = {"candle"}
    Score <- TextScore
    Tokens <- TextTokens
    MaxLen = 2
    DocKeys = {1, 2, 3, 4}
    PageLimits = {0, 2}
    MaxCommits = 3
    Ids = {1, 2, 3}
    Values <- Written
    Stored <- Corpus
    Members = {1, 3}
    Queries <- QueryRequests
    Dense <- DenseOf
    Lexical <- LexicalOf
    Sparse <- SparseOf
    TokenScores <- TokensOf
    Named <- NamedOf
    Agree <- AgreeOf
    STRATEGY_OVERFETCH = 2
    FILTER_OVERFETCH = 2
    EXACT_SCOPE_MAX = 2
    MAX_PREFETCH_DEPTH = 3
    MaxTopK = 4
    RRF_K = 60
    FusionScale = 238266
    MaxWrites = 1
    Setups <- GraphSetups
    Probes <- GraphProbes
    M = 2
    EfConstruction = 3
    EfSearch = 2
    PqTrainSize = 3
    PerPage = 2
    MaxLevel = 1
    MaxRemoves = 1
    MaxReopens = 1
INVARIANTS WritesAuthorized  TurnReadableInProcess MassAlwaysConserved 
INVARIANTS    ScrollComplete GraphSound SearchExact
CHECK_DEADLOCK FALSE
