SPECIFICATION FairSpec
CONSTANTS
    Vps = "vps"
    Servers = {"server"}
    MaxVersion = 3
    NumFiles = 2
    FilesOf <- GrowingFiles
    Broken = {2}
    MaxFaults = 2
INVARIANTS
    TypeOK
    MixturesAreReplaced
    DoneOrUndone
    PublishedIsComplete
PROPERTIES
    UpdatesArrive
CHECK_DEADLOCK FALSE
