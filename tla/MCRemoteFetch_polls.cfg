SPECIFICATION FairSpec
CONSTANTS
    NPaths = 2
    MaxInode = 2
    MaxSize = 2
    HeadBytes = 1
    Window = 1
    LineEnds = {1}
    QueueModes = {TRUE, FALSE}
    Modes = {"incremental", "seed", "timestamp", "full"}
    MaxAborts = 1
INVARIANT CheckpointHonest
PROPERTY CatchesUpUnlessCut
