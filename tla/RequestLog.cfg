SPECIFICATION LogSpec
CONSTANTS
    e1 = e1
    e2 = e2
    e3 = e3
    Entries <- MCEntries
    Limits <- MCLimits
    Capacity = 3
    Blank = Blank
INVARIANT SlotsOK
PROPERTY ImplementsBoundedLog
