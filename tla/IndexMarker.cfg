\* The index alone; the model is changed there and back.
SPECIFICATION TablesSpec
CONSTANTS
    v1 = v1
    v2 = v2
    big = big
    h1 = h1
    h2 = h2
    h3 = h3
    m1 = m1
    m2 = m2
    run = run
    go = go
    KLoad = KLoad
    load = load
    save = save
    File <- MCFile
    Version <- MCVersion
    Refused = {big}
    Name <- MCName
    Segment <- MCSegment
    Hint <- MCHint
    Parsed <- MCParsed
    NoFile = NoFile
    Provider = {m1, m2}
    NoProvider = NoProvider
    FirstUpload <- MCFirst
    MaxEdits = 0
    MaxFaults = 1
    MaxSwitches = 1
    header = header
    body = body
    small = small
    large = large
    Project = {p, q}
    Path = {header, body}
    Suffix <- MCSuffix
    Content = {small, large}
    Size <- MCSize
    MaxHeld = 3
    Batch <- MCBatch
    NoContent = NoContent
    MaxUploads = 3
    MaxStops = 1
    MaxAge = 1
    MaxLines = 2
    MaxChars = 4
    MaxToleratedMissing = 1
    SurveyTexts <- MCTexts
    SurveySources <- MCSources
    SurveyTrees <- MCTrees
    SurveyDocuments <- MCDocuments
    Models <- MCModels
    ModelAlias <- MCAlias
    Vendors <- MCVendors
    UnknownMax = 4
    Generic = "generic"
    MaxRounds = 2
    LocalSize = 2
    PostRetries = 1
    EmbedCalls <- MCEmbedCalls
INVARIANT
    MarkerTellsTruth
CHECK_DEADLOCK FALSE
