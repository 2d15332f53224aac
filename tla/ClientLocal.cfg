SPECIFICATION LocalSpec
CONSTANTS
    rich = rich
    plain = plain
    file = file
    image = image
    resampled = resampled
    picture = picture
    attachment = attachment
    text = text
    note = note
    theme = theme
    shortcut = shortcut
    Content = {rich, plain, file, image, resampled}
    Images = {image, resampled}
    Files = {file}
    Alike <- MCAlike
    PlainOf <- MCPlainOf
    CopyPlain = FALSE
    RecentLimit = 1
    MaxChanges = 2
    MaxPauses = 1
    Record = {1, 2, 3, 4}
    PayloadOf <- MCPayloadOf
    Pictures = {picture}
    Limits = {0, 4}
    MaxInserts = 3
    MaxMoves = 1
    MaxTroubles = 1
    Datum = {text, note}
    Kept = {note}
    MaxEdits = 1
    MaxJobs = 2
    MaxFaults = 1
    Thread = {1, 2}
    Request = {1}
    MaxShows = 1
    MaxHides = 2
    MaxMarks = 1
    Device = {1, 2}
    Meta = {"favorite"}
    Staged = {TRUE, FALSE}
    Interleaved = TRUE
    MaxOps = 3
    MaxJump = 1
    MaxCrash = 1
    Setting = {theme, shortcut}
    Value = {0, 1}
    Reset = {"reset"}
    MaxWrites = 3
    MaxFileFaults = 1
    Image = {picture}
    MaxVersion = 2
    Asker = {1, 2}
    Concurrency = 1
    CacheLimit = 1
    MaxMisfortunes = 1
    Folder = {1, 2}
    SizeLimit = 1
    LateTask = {"late", "again"}
    Permits = 1
    Unsized = {1}
    MaxFolderSteps = 2
    MaxSizeFaults = 1
INVARIANTS
    LocalTypeOK CurrentIsTrue PayloadsSurvive DataFollows ValueOfVersion OneEventPerVersion SentInOrder
    ConfigSound DerivedIsOfItsVersion
PROPERTIES
    TakesOnlyIdle EventuallyTidy
CHECK_DEADLOCK FALSE
