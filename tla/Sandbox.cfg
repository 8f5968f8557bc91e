SPECIFICATION FairSpec
CONSTANTS
    Nothing = Nothing
    Members = {jvm, executor}

INVARIANT ReturnedIsQuiet

PROPERTY Returns

\* Nothing is left to happen once the group has ended.
CHECK_DEADLOCK FALSE
