\* Required fields that three places of the game server leave out.
SPECIFICATION Spec
CONSTANTS
    MaxRepeated = 1
    MaxCount = 2
INVARIANT
    EverySentIsHandled
