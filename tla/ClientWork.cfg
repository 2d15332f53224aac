SPECIFICATION WorkSpec
CONSTANTS
    key = key
    lock = lock
    editor = editor
    browser = browser
    small = small
    large = large
    file = file
    secret = secret
    ItemOf <- MCItemOf
    Needs <- MCNeeds
    KeyAt <- MCKeyAt
    IconOf <- MCIconOf
    note = note
    img = img
    base = base
    moved = moved
    store = store
    window = window
    old = old
    memo = memo
    VersionOf <- MCVersionOf
    AnchorOf <- MCAnchorOf
    Screen <- MCScreen
    PanelSize <- MCPanel
    OldItem <- MCOldItem
    RowsIn <- MCRowsIn
    Folders <- MCFolders
    FoundIn <- MCFoundIn
    PicturesIn <- MCPicturesIn
    TextFormats <- MCTextFormats
    CaptureChoice <- MCCaptureChoice
    OldArchive <- MCOldArchive
    SentKey <- MCSentKey
    Sending = {1, 2, 3}
    Payload = {small, large}
    UploadSlots = 2
    HubSlots = 1
    MaxStalls = 2
    Doc = {file, secret}
    Sensitive = {secret}
    Big = {file}
    Keeping = {secret}
    RemoteStamps = {3}
    MaxCopies = 2
    MaxOther = 1
    Favourable = {key, lock}
    OldEvent = {1, 2}
    Undecodable = {2}
    PlanPage = 1
    MaxToggles = 2
    MaxBreaks = 1
    SourceEvent = {1, 2}
    Icon = {editor, browser}
    NoIcon = none
    IconBatch = 1
    MaxMishaps = 1
    MaxRemovals = 1
    Artefact = {1, 2, 3}
    DownloadSlot = {1, 2}
    MaxPublished = 2
    MaxUpdateFaults = 1
    MaxWishes = 1
    PreviewThread = {1, 2}
    Previewed = {1, 2}
    NoPreview = 0
    Gap = 4
    Margin = 2
    MaxPreviewCalls = 3
    MaxPreviewFaults = 1
    Session = {1, 2}
    HookThread = {1, 2}
    HandoffCapacity = 1
    MaxKeys = 2
    MaxWindowCalls = 3
    OldRow = {1, 2, 3, 4}
    OldDatabase = {store, window, old}
    Unreadable = {window}
    Copied = {note, key}
    Secrets = {key}
    Oversized = {}
    MaxImports = 2
    MaxMeanwhile = 3
    Note = {memo}
    Attachment = {file}
    Root = {"here", "there", "old"}
    Received = {"shared", "sent"}
    MaxBackupSteps = 2
    MaxBackups = 4
    MaxBackupFaults = 1
INVARIANTS
    WorkTypeOK FlowSound DesktopSound
PROPERTIES
    SensitiveStays EventuallyFlows
CHECK_DEADLOCK FALSE
