SPECIFICATION FairSpec
CONSTANTS
    p1 = p1
    p2 = p2
    Path = {p1, p2}
    Size = 3
    Win = 2
    AnyLoss = FALSE
    MaxLoss = 1
    MaxFlight = 2
    MaxAnswers = 1
INVARIANTS
    SequencesOrdered
    NeverStuck
PROPERTIES
    ImplementsReliableDelivery
    FlowCompletes
