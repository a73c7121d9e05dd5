\* Documents and uploads to a cloud drive in two workers.
SPECIFICATION FilesSpec
CONSTANTS
    p1 = p1
    p2 = p2
    d1 = d1
    d2 = d2
    Process = {p1, p2}
    MaxServed = 3
    MaxKills = 1
    Doc = {d1, d2}
    MaxFiles = 2
    Path <- FolderPath
    Size = {2, 4, 5}
    MaxUploads = 2
    SmallOneDrive = 3
    ChunkOneDrive = 4
    ChunkDropbox = 2
SYMMETRY Symmetric
CHECK_DEADLOCK FALSE
INVARIANTS
    FilesTypeOK
    UploadIsWhole
    TrailComplete
    DownloadsAudited
    AnsweredIsWhole
    FailsOnlyOnFault
    LandsInPath
    NoStrayFolder
