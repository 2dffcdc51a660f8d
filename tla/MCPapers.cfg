CONSTANTS
    Lower <- MCLower
    Text <- MCText
    Drafts <- MCDrafts
    FlagSets <- MCFlagSets
    Upstreams <- MCUpstreams
    Offers <- MCOffers
    Lateness <- MCLateness
    BlobDirs <- MCBlobDirs
    Checkouts <- MCCheckouts
    MaxTurns = 1
    MaxClock = 3
    Trees <- MCTrees
    Reserved = {}
    Shadow <- MCShadow
    IdentityName <- MCIdentityName
    Worlds <- MCWorlds
    DiffPairs <- MCDiffPairs
    Writes = {3, 6}
    Makings <- MCMakings
    RunFlags <- MCRunFlags
    Passwords = {1, 2}
    MaxBuilds = 2
    Top = 671088640
    MaxSlack = 67108864
    MaxShare = 9000
    Heads <- MCHeads
    Sizes <- MCSizes
    Lengths <- MCLengths
    Formatted <- MCFormatted
    Devices <- MCDevices
    Socs <- MCSocs
    Archs <- MCArchs
    ModuleKey <- MCModuleKey
    Methods <- MCMethods
    Kernels <- MCKernels
    Distros <- MCDistros
    Features <- MCFeatures
    Kmods <- MCKmods
    Base <- MCBase
    Requests <- MCRequests
    Shaped <- MCShaped
    Boards <- MCBoards
    DistroNames <- MCDistroNames
    Rels <- MCRels
    Holds <- MCHolds
    Revisions <- MCRevisions
    MaxEdits = 2
SPECIFICATION PapersSpec
INVARIANTS PapersTypeOK NoHybrid SurveyNamesWhatUpdatePins ListingIsTheFiles ReproducedMeansSame VerifiedIsDescribed QuietMeansSame LaidOutApart PreflightIsEnough EveryRequestCounts SelectionIsASet UnaffectedBuildsTheSame
PROPERTIES DateMovesWithContent
CHECK_DEADLOCK FALSE
