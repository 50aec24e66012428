--------------------------------- MODULE Rcc ---------------------------------
(***************************************************************************)
(* The clock and reset macros of STM32F446xx.h and the functions of the    *)
(* drivers that select one of them: GPIO_, SPI_, I2C_ and USART_           *)
(* clock_control and deinit.  A peripheral's bits have the same place in   *)
(* the enable, the low-power enable and the reset register of its bus.     *)
(***************************************************************************)
EXTENDS Integers

VARIABLES
    enr,   \* the bits set in AHB1ENR, APB1ENR and APB2ENR
    lpenr, \* the bits the macros have set in the low-power enable registers
    rstr   \* the bits set in the reset registers

rcc == <<enr, lpenr, rstr>>

GPIO_BASEADDR_TO_CODE ==
    [GPIOA |-> 0, GPIOB |-> 1, GPIOC |-> 2, GPIOD |-> 3,
     GPIOE |-> 4, GPIOF |-> 5, GPIOG |-> 6, GPIOH |-> 7]

GPIOs == DOMAIN GPIO_BASEADDR_TO_CODE
I2Cs == {"I2C1", "I2C2", "I2C3"}
SPIs == {"SPI1", "SPI2", "SPI3", "SPI4"}
USARTs == {"USART1", "USART2", "USART3", "UART4", "UART5", "USART6"}
Peripherals == GPIOs \cup I2Cs \cup SPIs \cup USARTs \cup {"SYSCFG"}

\* The hardware: the bus a peripheral is on, and its bit.
Position ==
    [GPIOA |-> <<"AHB1", 0>>, GPIOB |-> <<"AHB1", 1>>, GPIOC |-> <<"AHB1", 2>>,
     GPIOD |-> <<"AHB1", 3>>, GPIOE |-> <<"AHB1", 4>>, GPIOF |-> <<"AHB1", 5>>,
     GPIOG |-> <<"AHB1", 6>>, GPIOH |-> <<"AHB1", 7>>,
     I2C1 |-> <<"APB1", 21>>, I2C2 |-> <<"APB1", 22>>, I2C3 |-> <<"APB1", 23>>,
     SPI1 |-> <<"APB2", 12>>, SPI2 |-> <<"APB1", 14>>, SPI3 |-> <<"APB1", 15>>,
     SPI4 |-> <<"APB2", 13>>, SYSCFG |-> <<"APB2", 14>>,
     USART1 |-> <<"APB2", 4>>, USART2 |-> <<"APB1", 17>>, USART3 |-> <<"APB1", 18>>,
     UART4 |-> <<"APB1", 19>>, UART5 |-> <<"APB1", 20>>, USART6 |-> <<"APB2", 5>>]

Clocked(x) == Position[x] \in enr
InReset(x) == Position[x] \in rstr

\* A store to a peripheral without a clock, or held in reset, is lost.
Writable(x) == Clocked(x) /\ ~InReset(x)

\* The bit that the _PCLK_EN macro sets and the _PCLK_DI macro clears.
GPIO_PCLK(x) == <<"AHB1", GPIO_BASEADDR_TO_CODE[x]>>

PCLK ==
    [I2C1 |-> <<"APB1", 21>>, I2C2 |-> <<"APB1", 22>>, I2C3 |-> <<"APB1", 23>>,
     SPI1 |-> <<"APB2", 12>>, SPI2 |-> <<"APB1", 14>>, SPI3 |-> <<"APB1", 15>>,
     SPI4 |-> <<"APB2", 13>>]

\* Those of the USARTs are in the low-power enable registers.
USART_PCLK ==
    [USART1 |-> <<"APB2", 4>>, USART2 |-> <<"APB1", 17>>, USART3 |-> <<"APB1", 18>>,
     UART4 |-> <<"APB1", 19>>, UART5 |-> <<"APB1", 20>>, USART6 |-> <<"APB2", 5>>]

SYSCFG_PCLK == <<"APB2", 14>>

\* The bits that the _REG_RESET macro sets, then clears.
GPIO_REG_RESET(x) == <<GPIO_PCLK(x), GPIO_PCLK(x)>>

SPI_REG_RESET ==
    [SPI1 |-> <<<<"APB2", 12>>, <<"APB2", 12>>>>, SPI2 |-> <<<<"APB2", 14>>, <<"APB2", 12>>>>,
     SPI3 |-> <<<<"APB2", 15>>, <<"APB2", 12>>>>, SPI4 |-> <<<<"APB2", 13>>, <<"APB2", 12>>>>]

I2C_REG_RESET(x) == <<PCLK[x], PCLK[x]>>

USART_REG_RESET ==
    [USART1 |-> <<<<"APB2", 4>>, <<"APB1", 4>>>>, USART2 |-> <<<<"APB1", 17>>, <<"APB1", 17>>>>,
     USART3 |-> <<<<"APB1", 18>>, <<"APB1", 18>>>>, UART4 |-> <<<<"APB1", 19>>, <<"APB1", 19>>>>,
     UART5 |-> <<<<"APB1", 20>>, <<"APB1", 20>>>>, USART6 |-> <<<<"APB2", 5>>, <<"APB1", 5>>>>]

\* The register assigned, not or-ed: the bus's other bits are cleared.
Set_Assigned(bits, bit, enable) ==
    IF enable THEN {b \in bits : b[1] # bit[1]} \cup {bit} ELSE bits \ {bit}

\* |= and &= ~.
Set(bits, bit, enable) == IF enable THEN bits \cup {bit} ELSE bits \ {bit}

\* The bits of the enable registers after the call.
GPIO_clock_control(x, enable) == IF x = "GPIOG" THEN enr ELSE Set(enr, GPIO_PCLK(x), enable)
SPI_clock_control(x, enable) == Set(enr, PCLK[x], enable)
I2C_clock_control(x, enable) == Set(enr, PCLK[x], enable)
USART_clock_control(x, enable) == Set(lpenr, USART_PCLK[x], enable)

\* The bits of the reset macro that deinit selects, if it does.
GPIO_deinit(x) == IF x = "GPIOG" THEN <<>> ELSE GPIO_REG_RESET(x)
SPI_deinit(x) == SPI_REG_RESET[x]
I2C_deinit(x) == I2C_REG_RESET(x)
USART_deinit(x) == USART_REG_RESET[x]
==============================================================================
