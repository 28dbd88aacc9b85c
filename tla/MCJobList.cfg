SPECIFICATION Spec
CONSTANTS
    Lists <- MCLists
    Texts = {0, 2}
    Tokens <- MCTokens
INVARIANTS
    TypeOK
    RowsAreTheJobs
    FilterIsApplied
PROPERTIES
    CursorStaysOnItsRow
