SPECIFICATION Spec
CONSTANTS
    Values = {1, 3}
    IP_INFO_HEAD = 2
    IP_INFO_TAIL = 1
    Ones = 3
    ErasedSum = 16
    Default <- MCDefault
    Requests <- MCRequests
    Counts = {4}
INVARIANTS OnlyStoredAccepted SetIsStored
PROPERTY BootsStored
