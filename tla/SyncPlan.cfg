\* Three providers, four models, two providers of models.dev in four mixes of offers and
\* one with a negative price; each of the other sources present or absent.
CONSTANTS
    Providers = {1, 2, 3}
    Models = {1, 2, 3, 4}
    Keys = {"a", "b"}
    SyncSource <- Knobs
    Subprocesses = {}
    BaseURL <- URLs
    SyncMirror <- MirrorOf
    Opencode = 1
    OpencodeGo = 2
    Aliases = {4}
    Name <- NameOf
    Short <- ShortOf
    LevelsOf <- SomeLevels
    Configs <- OneFile
    Catalogs <- AllCatalogs
    ProviderMax <- SomeMax
    Path <- Paths
    Margin = 50
    Bodies <- SomeBodies
    Prompts = {0, 1, 2}
    WithTools = {1}
    Multimodal = {2}
SPECIFICATION SyncSpec
INVARIANTS StaysValid Fixpoint NothingElseTouched OrderHasNoSay LimitsAgree EffortsAgree
