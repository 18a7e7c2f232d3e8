\* The message contract between the processes.  MaxCount stands for 40: batches begin at MaxCount + 2.
SPECIFICATION Spec
CONSTANTS
    MaxRepeated = 2
    MaxCount = 2
INVARIANTS
    HandledIsWhatWasSent
    SentIsHandled
