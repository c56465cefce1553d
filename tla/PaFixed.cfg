CONSTANTS
    PerPage = 2
    AskedAtoms = 5
SPECIFICATION Spec
INVARIANTS ChainSound NothingLost
PROPERTY ElementsKept
