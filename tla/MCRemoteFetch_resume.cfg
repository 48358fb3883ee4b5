SPECIFICATION FairSpec
CONSTANTS
    NPaths = 2
    MaxInode = 2
    MaxSize = 3
    HeadBytes = 1
    Window = 2
    LineEnds = {1}
    QueueModes = {TRUE}
    Modes = {"incremental"}
    MaxAborts = 1
PROPERTY EventuallyCaughtUp
