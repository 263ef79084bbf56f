SPECIFICATION DialogueSpec
CONSTANTS
    p1 = p1  p2 = p2  y1 = y1
    Password = {p1, p2}
    YubiKey = {y1}
    Stored <- MCStored
    Sources <- MCSources
    Free = {15, 21, None}
    None = None
    MaxPartSequence = 2
    SplitSize = 10
    MaxSets = 3
    MaxRetries = 2
INVARIANTS KeysProven SecretsZeroed PasswordForItsKeys KeysAsPlanned PlanFits
PROPERTY DialogueEnds
