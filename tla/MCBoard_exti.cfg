\* Two lines that share a vector.
CONSTANTS
    Clocks <- MCClocks
    Used = {"GPIOB"}
    Lines = {5, 6}
    IRQs = {23}
    Priorities = {1}
    Speeds = {100000}
    Bauds = {9600}
    LED <- MCLED
    MaxCalls = 3
SPECIFICATION Spec
PROPERTY OnlyTheGivenPin
CHECK_DEADLOCK FALSE
