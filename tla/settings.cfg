CONSTANTS
    factory = factory
    a = a
    h1 = h1
    h2 = h2
    Values <- TwoValues
    Factory = factory
    Handlers <- TwoHandlers
    Worlds <- SomeWorlds
SYMMETRY Symmetry
SPECIFICATION Spec
INVARIANTS RunsAsWritten NeverMixed RecordedIsApplied AnswerLasts
