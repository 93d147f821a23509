SPECIFICATION Spec
CONSTANTS
    Files <- MCFiles
    TagOf <- MCTagOf
    Requests <- MCRequests
    MapFiles = {"none", "whole", "torn"}
    fbuff_size = 23
    FirstBuff = 16
    buff_limit = 23
    UserBuff = 8
    MaxRewinds = 1
INVARIANTS GivenOnce ReadLossIsKnown SparseFindsAll
CHECK_DEADLOCK FALSE
