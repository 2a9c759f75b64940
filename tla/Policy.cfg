CONSTANTS
    g1 = g1
    g2 = g2
    name = name
    MaxLines = 3
    Word <- Words
    Id = {g1, g2}
    Policies <- AllPolicies
SPECIFICATION FairSpec
INVARIANTS
    TypeOK
    ReadsRecords
    ReadsLineByLine
    OnlyOpenQuotesHide
PROPERTY
    Terminates
