CONSTANTS
    rb = rb
    crb = crb
    n1 = n1
    n2 = n2
    g1 = g1
    g2 = g2
    Controller = {rb, crb}
    Name = {n1, n2}
    Group = {g1}
    ObjectId <- SameGroup
    NumSP = 1
    Free = Free
SPECIFICATION Spec
INVARIANTS
    TypeOK
    BeliefHolds
    SteadyReferenceKept
