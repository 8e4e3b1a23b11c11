SPECIFICATION FairSpec
CONSTANTS
    Terminals = {t1, t2}
    QueueMax = 2
    MaxLoads = 2
    MaxPosts = 3
INVARIANTS Attended OneAtATime OthersUnharmed
PROPERTIES Served
