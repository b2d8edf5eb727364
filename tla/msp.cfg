CONSTANTS
    Samples <- SomeSamples
    Fields <- SomeFields
    Filler <- SomeFiller
    Short = 2
    MaxSize = 257
    MaxBytes = 2
    MaxChars = 3
SPECIFICATION MspSpec
INVARIANTS TypeOK DecodesWhatIsEncoded AttemptIsBounded InvertsEncoding NoInvalidCode
