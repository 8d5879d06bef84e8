SPECIFICATION FairSpec
CONSTANTS
    Slots = {0, 1}
    CmdDepth = 1
    EvtDepth = 1
    NameSlots = {0}
    None = None
INVARIANTS AnswersOwn CacheTrue PendingFree NamesOwn AnswerTrue
PROPERTY TaskComesBack
