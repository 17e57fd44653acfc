SPECIFICATION FairSpec
CONSTANTS
    Sessions = {s1}
    Commands = {c1}
    NoFile = noFile
    Garbled = garbled
    NoAnswer = noAnswer
    Colocated = TRUE
INVARIANTS TypeOK ToldCommandStops StopLeavesNoMark EndIsReported
PROPERTIES StoppedIsKilled
