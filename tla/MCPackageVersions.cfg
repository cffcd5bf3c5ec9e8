CONSTANTS
    p1 = p1
    p2 = p2
    Publishers = {p1, p2}
    Files <- MCFiles
    Proposals <- MCProposals
    Versions <- MCVersions
    MaxPublications = 3
    MaxFailures = 1
    MaxDeletes = 1
    None = None
SPECIFICATION FairSpec
INVARIANT SameMajorKeeps
PROPERTIES ReplacedOnlyBySame EveryPublicationEnds ImplementsPublishedVersions
CHECK_DEADLOCK FALSE
