CONSTANTS
    Majors <- SomeMajors
    Minors <- SomeMinors
SPECIFICATION Spec
PROPERTIES SDCardIsRefused
