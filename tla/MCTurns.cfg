SPECIFICATION Spec
CONSTANTS
    ControlLate = {"m1"} ControlReads = 1 ControlTries = 1 ControlStops = 1
    StdioOut = 1 StdioIn = 1 StdioPipe = 1 StdioSends = 2 StdioLines = 2
    Corrections <- TurnsCorrections
    SocketOut = 1 SocketIn = 1 SocketSends = 2 SocketFrames = 2
INVARIANTS InterruptIsExact FramesAreKept TurnsAreSeparate
           CorrectionIsExact
PROPERTIES ApprovalsAreKnown ResultIsOfTurn LinesAreKept ConsentIsOwn
CHECK_DEADLOCK FALSE
