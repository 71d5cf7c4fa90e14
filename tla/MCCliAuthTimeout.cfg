CONSTANTS
    ClockMod = 16
    SessionTimeout = 3
    MaxLag = 2
    p1 = p1
    p2 = p2
    s1 = s1
    s2 = s2
    Pins = {p1}
    Salts = {s1}
    None = None
    BackoffUnit = 1
    MaxExponent = 2
    MaxBackoff = 3
    MaxFailures = 3
    CounterWritesFail = FALSE
    ReadsFail = FALSE
SPECIFICATION DocSpec
PROPERTY TimeoutStopsCommands
