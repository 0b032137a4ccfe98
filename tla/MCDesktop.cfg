SPECIFICATION MCSpec
CONSTANTS
    WSpec <- WindowSpec
    WPlans <- Desks
    WCells = 5
    WInset = 1
    WQueue = 2
    WNone = WNone
    WCenter <- Center
    FProcs = {"p", "q"}
    FPlans <- FilePlans
    FTree <- Tree
    FDevices <- DeviceNames
    FMaxInode = 8
    FMaxSize = 4
    GCalls <- DrawCalls
    GGlyph <- GlyphDots
    ArWords <- Words
    ArPlans <- Archives
    MyPlans <- Programs
    MyContent <- Size43
    MyMaxFiles = 2
INVARIANTS WindowsInv   
PROPERTY DesktopProgress
CHECK_DEADLOCK FALSE
