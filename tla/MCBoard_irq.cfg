\* Two interrupts of one bank, SPI2's and USART1's.
CONSTANTS
    Clocks <- MCClocks
    Used = {"GPIOB"}
    Lines = {5}
    IRQs = {36, 37}
    Priorities = {1}
    Speeds = {100000}
    Bauds = {9600}
    LED <- MCLED
    MaxCalls = 3
SPECIFICATION Spec
INVARIANT EnabledAsAsked
CHECK_DEADLOCK FALSE
