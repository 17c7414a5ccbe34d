SPECIFICATION Spec
CONSTANTS
    Name = {1, 2, 3, 4, 5, 6, 7}
    File <- MCFile
    Entry <- MCEntry
    Fails = TRUE
    Malformed = Malformed
INVARIANTS
    TypeOK
    HashIsFile
    EndsAsSpecified
    RestsOnThree
