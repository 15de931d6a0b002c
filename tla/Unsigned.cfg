SPECIFICATION Verification
CONSTANTS
    Missing = Missing
    MaxChanges = 2
INVARIANT UnsignedIsUnsigned
CHECK_DEADLOCK FALSE
