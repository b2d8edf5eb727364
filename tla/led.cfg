SPECIFICATION FairLed
INVARIANTS NoChangeMissed QuietAfterStop
PROPERTIES LastStateIsShown StopCompletes
