SPECIFICATION FairJobSpec
CONSTANTS
    j1 = j1
    j2 = j2
    Jobs = {j1, j2}
    NoImage = NoImage
    MaxVersion = 2
    Names = {"i", "a", "b"}
    Inits <- MCInits
    Mains <- MCMains
    NoCode = NoCode
INVARIANTS
    JobTypeOK
    VolumesOutliveContainers
    CodesAreTheirs
PROPERTIES
    ImageComesBack
    ScriptsEnd
CHECK_DEADLOCK FALSE
