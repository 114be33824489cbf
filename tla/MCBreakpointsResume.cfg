SPECIFICATION BpSpec
CONSTANTS
    Addr = {0, 1, 2}
    Key <- EvenOdd
    Vector = 0
    BP_MAX = 2
    MaxId = 4
PROPERTY RunningStops
