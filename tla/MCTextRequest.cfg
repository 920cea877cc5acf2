SPECIFICATION GenerationSpec
CONSTANTS
    Tasks = {1, 2}
    MediaKinds = {"image", "video"}
    Registry <- SmallRegistry
    Docs <- SmallDocs
    Links <- DocLinks
    CreativeFabricaModels = {"seedance_v2_5", "seedance_v2_mini", "heygen_avatar_5"}
    DocsRegistry <- AllRegistry
    DocsEnabled <- SomeEnabled
    FormKinds = {"image", "video", "audio", "chat"}
    MaxFiles = 2
    ListedTasks = {1, 2}
    CleanupTasks = {1, 2, 3}
    TASK_CLEANUP_BATCH_SIZE = 2
INVARIANT
    TextRequestsAccepted
