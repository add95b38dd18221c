CONSTANTS
    ann = ann
    bob = bob
    sums = sums
    None = None
    Creators <- MCCreators
    GivenNames = {sums}
    MaxNumber = 2
    MaxProblems = 3
SYMMETRY MCSymmetry
SPECIFICATION Spec
INVARIANTS TypeOK UndisturbedCreation OldProblemsAreKept CreatedProblemStays
