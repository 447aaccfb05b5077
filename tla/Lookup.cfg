SPECIFICATION Spec
CONSTANTS
    W = 3
    Self <- OnesId
    Target <- ZeroId
    Limit = 3
    Alpha = 2
    MaxRounds = 3
    Seeds <- MCSeeds
    Answer <- AnyAnswer
INVARIANTS
    NearestHeardKept
    NothingLostWhileRoom
    NearestWereAsked
PROPERTIES
    NeverRetreats
    Termination
