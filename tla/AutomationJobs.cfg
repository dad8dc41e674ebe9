\* One job and three workers; pushes may outlast their lease and one worker may die.
SPECIFICATION FairSpec
CONSTANTS
    Jobs = {j1}
    Workers = {w1, w2, w3}
    MaxCrashes = 1
    None = None
INVARIANTS
    OneHolder
    PushesBounded
PROPERTIES
    EveryJobEnds
