SPECIFICATION FairSpec
CONSTANTS
    Setting <- Settings
    MaxEdits = 2
    MaxWrites = 2
    MaxUpsets = 1
INVARIANTS ShownAtLeastAcked PauseWithinOneCycle
PROPERTIES PollKeepsTyping 
