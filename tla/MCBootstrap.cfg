CONSTANTS
    Deadline = 6
    Pause = 1
    MaxAttempt = 3
    MaxLate = 1
    BrokerUp <- MCBrokerUp
SPECIFICATION Spec
INVARIANTS ServesWhatItCan AttemptsEnd
PROPERTIES StartEnds TimelyBrokerFound
