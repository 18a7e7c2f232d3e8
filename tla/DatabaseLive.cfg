SPECIFICATION FairSpec
CONSTANTS
    n1 = n1
    h1 = h1
    h2 = h2
    hero = hero
    Normal = normal
    None = None
    Queues <- TwoTypes
    Tasks = {n1, h1}
    TypeOf <- TypeByName
    ThreadCount = 2
    QueueOf <- OneEach
    MaxRetries = 1
PROPERTIES CallbackComes StopEnds
