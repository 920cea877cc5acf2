\* Two accounts of the list and batches of one: the count of a page, its rows, failures and batches interleave.
SPECIFICATION AccountsSpec
CONSTANTS
    Accounts = {1, 2}
    ARCHIVE_BATCH_SIZE = 1
    Files = {1, 2, 3}
    FileProvider <- SmallFileProvider
    CookieProviders = {"leonardo", "adobe"}
    MAX_BULK_COOKIE_FILES = 2
    COOKIE_IMPORT_CONCURRENCY = 2
    ConcurrencyMaximum <- SmallMaximum
    DefaultConcurrency = 1
    KeyIDs = {1}
    MaxDialogs = 2
    MaxLimit = 2
    MaxRevision = 2
    MaxSaves = 2
INVARIANTS
    AccountsTypeOK
    CookieForItsPlatform
    SendsOnlyShown
    EveryKeyShown
PROPERTIES
    ArchivesOnlyConfirmed
    ScanMissesFew
    ScanEnds
    ImportsOnce
    ImportEnds
    SavesOnlyEdits
