SPECIFICATION Spec
CONSTANT PIPE_CAPACITY = 2
INVARIANTS TypeOK NobodyAborts OneMessage NobodyBlocks
PROPERTY BothFinish
CHECK_DEADLOCK FALSE
