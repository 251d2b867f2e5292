SPECIFICATION FairSpec
CONSTANTS
    Procs = {p1, p2}
    Humans = {h1}
    MaxRequests = 3
    None = None
PROPERTIES AnswerTaken
CHECK_DEADLOCK FALSE
