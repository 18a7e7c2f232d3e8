SPECIFICATION Spec
CONSTANTS
    n1 = n1
    h1 = h1
    h2 = h2
    hero = hero
    Normal = normal
    None = None
    Queues <- TwoTypes
    Tasks = {n1, h1, h2}
    TypeOf <- TypeByName
    ThreadCount = 3
    QueueOf <- TwoAndOne
    MaxRetries = 1
INVARIANTS NoUseAfterRelease StopIsQuiet StoppedAfterLastTask
PROPERTY ImplementsTaskLife
