SPECIFICATION FairSpec
PROPERTY DialEnds
CHECK_DEADLOCK FALSE
