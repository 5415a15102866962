SPECIFICATION Spec
CONSTANTS
    Exits = {e1}
    Protects = {p1}
    Autos = {a1}
    Buyers = {b1}
    Free = Free
    NoRow = NoRow
    NoWrite = NoWrite
    NoKey = NoKey
    Lot = 2
    MaxStop = 2
    MaxId = 2
PROPERTY TargetStaysExecuted
