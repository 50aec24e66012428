\* Two ports whose codes have no bit in common, GPIOG among them; two lines that
\* share a vector; an SPI whose reset hits another peripheral, and a USART whose
\* reset is not released; interrupts of three banks.
CONSTANTS
    Clocks <- MCClocks
    Used = {"GPIOB", "GPIOG", "SPI2", "I2C3", "USART1"}
    Lines = {5, 6}
    IRQs = {23, 36, 37, 72}
    Priorities = {6}
    Speeds = {100000, 400000}
    Bauds = {9600, 115200}
    LED <- MCLED
    MaxCalls = 3
SPECIFICATION Spec
INVARIANTS  LineRouted PinsAsWritten RatesAsAsked
CHECK_DEADLOCK FALSE
