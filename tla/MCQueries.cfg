CONSTANTS
    Trees <- MCTrees
    Steps <- MCSteps
    SecondPaths <- MCSecondPaths
    Fetched <- MCFetched
    Given <- MCGiven
    GivenToFetch <- MCGivenToFetch
    MaxNodes = 4
SPECIFICATION Spec
INVARIANTS
    PathsYieldTheirNodeSets
    LocationPathsAreUnambiguous
    SortingFollowsTheDocument
    FirstDifferenceIsReported
    FetchedIsFound
    OnlyTheMissingBranchIsAdded
