CONSTANTS
    Majors <- SomeMajors
    Minors <- SomeMinors
SPECIFICATION Spec
INVARIANTS FormatMatches GoodOnesAreRead WarnedWhenUntested
