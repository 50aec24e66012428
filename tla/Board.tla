-------------------------------- MODULE Board --------------------------------
(***************************************************************************)
(* What the drivers share: the registers of the RCC, the NVIC, SYSCFG and  *)
(* EXTI, which each driver's set-up functions modify for its own           *)
(* peripheral, the GPIO driver, and the handler of a pin's interrupt.      *)
(*                                                                         *)
(* One thread calls the set-up functions, in any order.  Each is one step, *)
(* for the interrupt handler touches none of the registers it modifies;    *)
(* only ODR, which both modify, is loaded and stored in two steps.         *)
(***************************************************************************)
EXTENDS Rcc, ClockTree, FiniteSets

CONSTANTS
    Clocks,     \* the clock configurations CFGR may hold
    Used,       \* the peripherals the application uses
    Lines,      \* the pin numbers it uses
    IRQs,       \* the interrupt numbers it uses
    Priorities, \* and their priorities
    Speeds,     \* the values of I2C_CLK_speed
    Bauds,      \* the values of USART_baud
    LED,        \* the pin that the application's handler toggles
    MaxCalls    \* a bound: how many set-up calls the application makes

Pins == (Used \cap GPIOs) \X Lines

ASSUME BoardAssumption ==
    /\ Clocks \subseteq ClockConfigs
    /\ Used \subseteq Peripherals \ {"SYSCFG"}
    /\ Lines \subseteq 0..15
    /\ IRQs \subseteq 0..127
    /\ Priorities \subseteq 0..15
    /\ LED \in Pins
    /\ MaxCalls \in Nat

VARIABLES
    cfgr,   \* the clock configuration; the drivers only read it
    pin,    \* MODER, the output, pull-up and alternate function fields of a pin
    odr,    \* the pins whose bit in ODR is set
    spi,    \* the bits set in CR1 of the SPIs, and SSOE of CR2
    i2c,    \* CCR and TRISE of the I2Cs, with the speed asked for
    brr,    \* what USART_init computed, with the baud rate asked for
    on,     \* the peripherals whose SPE, PE or UE is set
    ack,    \* the I2Cs whose ACK is set
    exti,   \* the lines set in FTSR, RTSR, IMR and PR
    exticr, \* the bits of each line's field of SYSCFG->EXTICR
    iser,   \* the interrupts enabled in the NVIC
    ipr,    \* the bits of each interrupt's field of the NVIC's IPR
    isr,    \* the line whose handler runs, and where it is
    pr_reg, \* the register in which GPIO_IRQ_handler modifies PR
    odr_reg,\* the port whose ODR the thread has loaded, and the value to store
    calls,  \* set-up calls made
    asked   \* what the application has asked for so far

periph == <<pin, odr, spi, i2c, brr, on, ack>>
nvic == <<iser, ipr>>
handler == <<isr, pr_reg>>
vars == <<rcc, cfgr, periph, exti, exticr, nvic, handler, odr_reg, calls, asked>>

\* The bits of a value.
Bits(value) == {b \in 0..3 : (value \div 2^b) % 2 = 1}

\* The thread is not interrupted, and between two calls.
Running == isr.at = "none" /\ odr_reg.port = "none"

\* Its next call of a set-up function.
Call == Running /\ calls < MaxCalls /\ calls' = calls + 1

-----------------------------------------------------------------------------
(* Clocks and resets.                                                      *)

ClockControl(x, enable) ==
    /\ Call
    /\ IF x \in USARTs
       THEN lpenr' = USART_clock_control(x, enable) /\ UNCHANGED enr
       ELSE enr' = (IF x \in GPIOs THEN GPIO_clock_control(x, enable)
                    ELSE IF x \in SPIs THEN SPI_clock_control(x, enable)
                    ELSE I2C_clock_control(x, enable)) /\ UNCHANGED lpenr
    /\ asked' = [asked EXCEPT !.clocks = IF enable THEN @ \cup {x} ELSE @ \ {x}]
    /\ UNCHANGED <<rstr, cfgr, periph, exti, exticr, nvic, handler, odr_reg>>

ResetBits(x) ==
    IF x \in GPIOs THEN GPIO_deinit(x)
    ELSE IF x \in SPIs THEN SPI_deinit(x)
    ELSE IF x \in I2Cs THEN I2C_deinit(x)
    ELSE USART_deinit(x)

NoMode == [mode |-> "IN", out |-> 0, pupd |-> 0, alt |-> 0]
NoRate == [rate |-> 0]

\* The peripheral whose reset bit is set gets its registers' reset values.
Deinit(x) ==
    /\ Call
    /\ ResetBits(x) # <<>>
    /\ rstr' = (rstr \cup {ResetBits(x)[1]}) \ {ResetBits(x)[2]}
    /\ LET Hit(y) == y \in Peripherals /\ Position[y] = ResetBits(x)[1]
       IN  /\ pin' = [p \in Pins |-> IF Hit(p[1]) THEN NoMode ELSE pin[p]]
           /\ odr' = {p \in odr : ~Hit(p[1])}
           /\ spi' = [y \in SPIs |-> IF Hit(y) THEN {} ELSE spi[y]]
           /\ i2c' = [y \in I2Cs |-> IF Hit(y) THEN NoRate ELSE i2c[y]]
           /\ on' = {y \in on : ~Hit(y)}
           /\ ack' = {y \in ack : ~Hit(y)}
           /\ exticr' = [n \in Lines |-> IF Hit("SYSCFG") THEN {} ELSE exticr[n]]
    /\ asked' = [asked EXCEPT !.resets = @ \cup {x}, !.pins = {p \in @ : p[1] # x},
                              !.raced = @ /\ x # LED[1]]
    /\ UNCHANGED <<enr, lpenr, cfgr, brr, exti, nvic, handler, odr_reg>>

-----------------------------------------------------------------------------
(* The initialisation of the serial peripherals.                           *)

SPI_init(x, bits, bus) ==
    /\ Call
    /\ enr' = SPI_clock_control(x, TRUE)
    /\ UNCHANGED <<lpenr, rstr>>
    /\ spi' = IF Writable(x)'
              THEN [spi EXCEPT ![x] =
                       (@ \cap {"SSI", "SSOE"}) \cup bits
                           \cup (CASE bus = "FD" -> {}
                                   [] bus = "HD" -> {"BIDIMODE"}
                                   [] bus = "S_RXONLY" -> {"RXONLY"})]
              ELSE spi
    /\ asked' = [asked EXCEPT !.clocks = @ \cup {x}]
    /\ UNCHANGED <<cfgr, pin, odr, i2c, brr, on, ack, exti, exticr, nvic,
                   handler, odr_reg>>

I2C_init(x, speed, duty) ==
    /\ Call
    /\ enr' = I2C_clock_control(x, TRUE)
    /\ UNCHANGED <<lpenr, rstr>>
    /\ i2c' = IF Writable(x)'
              THEN [i2c EXCEPT ![x] =
                       [rate |-> speed, duty |-> duty,
                        ccr |-> I2C_CCR(RCC_get_pclk1(cfgr), speed, duty),
                        trise |-> I2C_TRISE(RCC_get_pclk1(cfgr), speed)]]
              ELSE i2c
    /\ asked' = [asked EXCEPT !.clocks = @ \cup {x}]
    /\ UNCHANGED <<cfgr, pin, odr, spi, brr, on, ack, exti, exticr, nvic,
                   handler, odr_reg>>

USART_pclk(x) ==
    IF x \in {"USART1", "USART6"} THEN RCC_get_pclk2(cfgr) ELSE RCC_get_pclk1(cfgr)

\* The clock is not enabled here.
USART_init(x, baud, over8) ==
    /\ Call
    /\ brr' = [brr EXCEPT ![x] =
                  [rate |-> baud, over8 |-> over8,
                   value |-> USART_BRR(USART_pclk(x), baud, over8)]]
    /\ UNCHANGED <<rcc, cfgr, pin, odr, spi, i2c, on, ack, exti, exticr, nvic, handler,
                   odr_reg, asked>>

\* SPI_, I2C_ and USART_periph_control; the I2C's also sets ACK as configured,
\* which the hardware keeps clear while PE is.
PeriphControl(x, enable, ack_control) ==
    /\ Call
    /\ on' = IF Writable(x) THEN (IF enable THEN on \cup {x} ELSE on \ {x}) ELSE on
    /\ ack' = IF x \in I2Cs /\ Writable(x)
              THEN (IF enable /\ ack_control THEN ack \cup {x} ELSE ack \ {x}) ELSE ack
    /\ UNCHANGED <<rcc, cfgr, pin, odr, spi, i2c, brr, exti, exticr, nvic, handler, odr_reg, asked>>

SPI_Bit(x, bit, enable) ==
    /\ Call
    /\ spi' = IF Writable(x) THEN [spi EXCEPT ![x] = IF enable THEN @ \cup {bit} ELSE @ \ {bit}]
              ELSE spi
    /\ UNCHANGED <<rcc, cfgr, pin, odr, i2c, brr, on, ack, exti, exticr, nvic, handler, odr_reg, asked>>

SPI_SSI_config(x, enable) == SPI_Bit(x, "SSI", enable)
SPI_SSOE_config(x, enable) == SPI_Bit(x, "SSOE", enable)

-----------------------------------------------------------------------------
(* The NVIC.  The four drivers have the same two functions.                *)

\* ICER reads as the enabled interrupts of its bank: |= disables them all.
IRQ_config(i, enable) ==
    /\ Call
    /\ iser' = IF enable THEN iser \cup {i} ELSE {j \in iser : j \div 32 # i \div 32}
    /\ asked' = [asked EXCEPT !.irqs = IF enable THEN @ \cup {i} ELSE @ \ {i}]
    /\ UNCHANGED <<rcc, cfgr, periph, exti, exticr, ipr, handler, odr_reg>>

\* |= leaves the bits of the priority before.
set_priority(i, priority) ==
    /\ Call
    /\ ipr' = [ipr EXCEPT ![i] = @ \cup Bits(priority)]
    /\ UNCHANGED <<rcc, cfgr, periph, exti, exticr, iser, handler, odr_reg, asked>>

GPIO_IRQ_config(i, enable) == i \in {6, 7, 8, 9, 10, 23, 40} /\ IRQ_config(i, enable)
SPI_IRQ_config(i, enable) == i \in {35, 36, 51, 84} /\ IRQ_config(i, enable)
I2C_IRQ_config(i, enable) == i \in {31, 32, 33, 34, 72, 73} /\ IRQ_config(i, enable)
USART_IRQ_config(i, enable) == i \in {37, 38, 39, 52, 53, 71} /\ IRQ_config(i, enable)

GPIO_set_priority(i, priority) == i \in {6, 7, 8, 9, 10, 23, 40} /\ set_priority(i, priority)
SPI_set_priority(i, priority) == i \in {35, 36, 51, 84} /\ set_priority(i, priority)
I2C_set_priority(i, priority) == i \in {31, 32, 33, 34, 72, 73} /\ set_priority(i, priority)
USART_set_priority(i, priority) == i \in {37, 38, 39, 52, 53, 71} /\ set_priority(i, priority)

-----------------------------------------------------------------------------
(* GPIO pins and their interrupts.                                         *)

InterruptModes == {"IT_FT", "IT_RT", "IT_RFT"}

\* The fields of a pin that GPIO_init writes in a mode.
Configure(p, mode) ==
    [mode |-> IF mode \in InterruptModes THEN "IN" ELSE mode,
     out |-> IF mode \in {"OUT", "ALTFUNC"} THEN 1 ELSE pin[p].out,
     pupd |-> 1,
     alt |-> IF mode = "ALTFUNC" THEN 1 ELSE pin[p].alt]

\* The other edge stays selected.
Edges_Kept(n, mode) ==
    [exti EXCEPT !.FTSR = IF mode = "IT_RT" THEN @ ELSE @ \cup {n},
                 !.RTSR = IF mode = "IT_FT" THEN @ ELSE @ \cup {n},
                 !.IMR = @ \cup {n}]

Edges(n, mode) ==
    [exti EXCEPT !.FTSR = IF mode = "IT_RT" THEN @ \ {n} ELSE @ \cup {n},
                 !.RTSR = IF mode = "IT_FT" THEN @ \ {n} ELSE @ \cup {n},
                 !.IMR = @ \cup {n}]

\* |= leaves the bits of the port that the line was connected to before.
GPIO_init(p, mode) ==
    LET port == p[1]
        n == p[2]
        it == mode \in InterruptModes
        gpio == GPIO_clock_control(port, TRUE)
    IN  /\ Call
        /\ enr' = IF it THEN Set(gpio, SYSCFG_PCLK, TRUE) ELSE gpio
        /\ UNCHANGED <<lpenr, rstr>>
        /\ pin' = IF Writable(port)' THEN [pin EXCEPT ![p] = Configure(p, mode)] ELSE pin
        /\ exti' = IF it THEN Edges(n, mode) ELSE exti
        /\ exticr' = IF it /\ Writable("SYSCFG")'
                     THEN [exticr EXCEPT ![n] = @ \cup Bits(GPIO_BASEADDR_TO_CODE[port])]
                     ELSE exticr
        /\ asked' = [asked EXCEPT !.clocks = @ \cup {port} \cup (IF it THEN {"SYSCFG"} ELSE {}),
                                  !.ports[n] = IF it THEN @ \cup {port} ELSE @,
                                  !.edges[n] = IF it THEN mode ELSE @]
        /\ UNCHANGED <<cfgr, odr, spi, i2c, brr, on, ack, nvic, handler, odr_reg>>

Toggle(set, p) == IF p \in set THEN set \ {p} ELSE set \cup {p}

\* Bits cleared by an and with the bit, not with its complement.
NewODR_NoComplement(port, op) ==
    LET old == {q \in odr : q[1] = port}
    IN  CASE op.what = "set" -> old \cup {op.pin}
          [] op.what = "reset" -> old \cap {op.pin}
          [] op.what = "toggle" -> Toggle(old, op.pin)

NewODR(port, op) ==
    LET old == {q \in odr : q[1] = port}
    IN  CASE op.what = "set" -> old \cup {op.pin}
          [] op.what = "reset" -> old \ {op.pin}
          [] op.what = "toggle" -> Toggle(old, op.pin)

\* GPIO_write_output_pin and GPIO_toggle_output_pin: the load and the change.
\* What is written to a port that cannot be written is not asked of it.
LoadODR(p, what) ==
    /\ Running
    /\ odr_reg' = [port |-> p[1], value |-> NewODR(p[1], [what |-> what, pin |-> p])]
    /\ asked' = IF ~Writable(p[1]) THEN asked
                ELSE [asked EXCEPT !.pins = CASE what = "set" -> @ \cup {p}
                                              [] what = "reset" -> @ \ {p}
                                              [] what = "toggle" -> Toggle(@, p),
                                    !.raced = @ /\ (p # LED \/ what = "toggle")]
    /\ UNCHANGED <<rcc, cfgr, periph, exti, exticr, nvic, handler, calls>>

StoreODR ==
    /\ isr.at = "none" /\ odr_reg.port # "none"
    /\ odr' = IF Writable(odr_reg.port)
              THEN {q \in odr : q[1] # odr_reg.port} \cup odr_reg.value ELSE odr
    /\ odr_reg' = [port |-> "none"]
    /\ UNCHANGED <<rcc, cfgr, pin, spi, i2c, brr, on, ack, exti, exticr, nvic, handler, calls, asked>>

GPIO_write_output_port(port, value) ==
    /\ Running
    /\ LET Written(set) == IF Writable(port) THEN {q \in set : q[1] # port} \cup value ELSE set
       IN  /\ odr' = Written(odr)
           /\ asked' = [asked EXCEPT !.pins = Written(@),
                                     !.raced = @ /\ ~(port = LED[1] /\ Writable(port))]
    /\ UNCHANGED <<rcc, cfgr, pin, spi, i2c, brr, on, ack, exti, exticr, nvic, handler, odr_reg,
                   calls>>

\* The hardware: an edge on the pin that a line is connected to.
Edge(p, edge) ==
    /\ exticr[p[2]] = Bits(GPIO_BASEADDR_TO_CODE[p[1]])
    /\ p[2] \in exti.IMR \cap exti[edge]
    /\ exti' = [exti EXCEPT !.PR = @ \cup {p[2]}]
    /\ UNCHANGED <<rcc, cfgr, periph, exticr, nvic, handler, odr_reg, calls, asked>>

\* The interrupt of a line.
Vector(n) ==
    IF n < 5 THEN 6 + n ELSE IF n < 10 THEN 23 ELSE 40

EnterHandler(n) ==
    /\ isr.at = "none"
    /\ n \in exti.PR /\ Vector(n) \in iser
    /\ isr' = [at |-> "toggle", line |-> n]
    /\ UNCHANGED <<rcc, cfgr, periph, exti, exticr, nvic, pr_reg, odr_reg, calls, asked>>

\* The application's handler toggles its LED.
ToggleLED ==
    /\ isr.at = "toggle"
    /\ isr' = [isr EXCEPT !.at = "test"]
    /\ odr' = IF Writable(LED[1]) THEN Toggle(odr, LED) ELSE odr
    /\ asked' = [asked EXCEPT !.pins = IF Writable(LED[1]) THEN Toggle(@, LED) ELSE @,
                              !.raced = @ \/ (odr_reg.port = LED[1] /\ Writable(LED[1]))]
    /\ UNCHANGED <<rcc, cfgr, pin, spi, i2c, brr, on, ack, exti, exticr, nvic, pr_reg,
                   odr_reg, calls>>

\* GPIO_IRQ_handler: the test of PR, then |=, a load and a store.
LoadPR ==
    /\ isr.at = "test"
    /\ IF isr.line \in exti.PR
       THEN isr' = [isr EXCEPT !.at = "store"] /\ pr_reg' = exti.PR \cup {isr.line}
       ELSE isr' = [at |-> "none"] /\ UNCHANGED pr_reg
    /\ UNCHANGED <<rcc, cfgr, periph, exti, exticr, nvic, odr_reg, calls, asked>>

\* Every bit written as one is cleared.
StorePR ==
    /\ isr.at = "store"
    /\ exti' = [exti EXCEPT !.PR = @ \ pr_reg]
    /\ pr_reg' = {}
    /\ isr' = [at |-> "none"]
    /\ UNCHANGED <<rcc, cfgr, periph, exticr, nvic, odr_reg, calls, asked>>

GPIO_IRQ_handler == LoadPR \/ StorePR

-----------------------------------------------------------------------------
Init ==
    /\ enr = {} /\ lpenr = {} /\ rstr = {}
    /\ cfgr \in Clocks
    /\ pin = [p \in Pins |-> NoMode] /\ odr = {}
    /\ spi = [x \in SPIs |-> {}]
    /\ i2c = [x \in I2Cs |-> NoRate] /\ brr = [x \in USARTs |-> NoRate]
    /\ on = {} /\ ack = {}
    /\ exti = [FTSR |-> {}, RTSR |-> {}, IMR |-> {}, PR |-> {}]
    /\ exticr = [n \in Lines |-> {}]
    /\ iser = {} /\ ipr = [i \in IRQs |-> {}]
    /\ isr = [at |-> "none"] /\ pr_reg = {} /\ odr_reg = [port |-> "none"]
    /\ calls = 0
    /\ asked = [clocks |-> {}, resets |-> {}, irqs |-> {},
                ports |-> [n \in Lines |-> {}], edges |-> [n \in Lines |-> "none"],
                pins |-> {}, raced |-> FALSE]

Setup ==
    \/ \E x \in Used, e \in BOOLEAN : ClockControl(x, e)
    \/ \E x \in Used : Deinit(x)
    \/ \E x \in Used \cap SPIs, bits \in {{"MSTR"}, {"SSM"}}, b \in {"FD", "HD", "S_RXONLY"} :
          SPI_init(x, bits, b)
    \/ \E x \in Used \cap I2Cs, s \in Speeds, d \in {0, 1} : I2C_init(x, s, d)
    \/ \E x \in Used \cap USARTs, b \in Bauds, o \in BOOLEAN : USART_init(x, b, o)
    \/ \E x \in Used \ GPIOs, e, a \in BOOLEAN : PeriphControl(x, e, a)
    \/ \E x \in Used \cap SPIs, e \in BOOLEAN : SPI_SSI_config(x, e) \/ SPI_SSOE_config(x, e)

Interrupts ==
    \E i \in IRQs :
        \/ \E e \in BOOLEAN : \/ GPIO_IRQ_config(i, e)
                              \/ SPI_IRQ_config(i, e)
                              \/ I2C_IRQ_config(i, e)
                              \/ USART_IRQ_config(i, e)
        \/ \E p \in Priorities : \/ GPIO_set_priority(i, p)
                                 \/ SPI_set_priority(i, p)
                                 \/ I2C_set_priority(i, p)
                                 \/ USART_set_priority(i, p)

GPIO ==
    \/ \E p \in Pins, m \in {"IN", "OUT", "ALTFUNC"} \cup InterruptModes : GPIO_init(p, m)
    \/ \E p \in Pins, what \in {"set", "reset", "toggle"} : LoadODR(p, what)
    \/ StoreODR
    \/ \E port \in Used \cap GPIOs : GPIO_write_output_port(port, {port} \X Lines)

Exti ==
    \/ \E p \in Pins, e \in {"FTSR", "RTSR"} : Edge(p, e)
    \/ \E n \in Lines : EnterHandler(n)
    \/ ToggleLED
    \/ GPIO_IRQ_handler

Next == Setup \/ Interrupts \/ GPIO \/ Exti

Spec == Init /\ [][Next]_vars

-----------------------------------------------------------------------------
(* Properties.                                                             *)

\* The peripherals that a deinit leaves in reset, its macro clearing another
\* bit than it has set: the note above the macros says they are released.
HeldByDeinit ==
    {<<"SPI2", "SYSCFG">>, <<"SPI4", "SPI4">>, <<"USART1", "USART1">>, <<"USART6", "USART6">>}

\* Whatever the order of the calls: a peripheral has its clock exactly if the
\* last call about it asked for it, but a USART and GPIOG have none even then,
\* for the macros of the USARTs set bits of the low-power registers and GPIOG
\* is missing from GPIO_clock_control; a peripheral is held in reset exactly
\* if a deinit of HeldByDeinit has been called, and then for good.  ACK is
\* never set without PE, as I2C relies on.
ReadyForUse ==
    /\ \A x \in Peripherals :
          /\ Clocked(x) <=> x \in asked.clocks /\ x \notin USARTs \cup {"GPIOG"}
          /\ InReset(x) <=> \E d \in asked.resets : <<d, x>> \in HeldByDeinit
    /\ ack \subseteq on

\* A line that GPIO_init has set up interrupts on the edges it was last set up
\* for, and on the port's pin, unless it was set up for two ports, whose codes
\* are or-ed, or SPI_deinit has reset SYSCFG.
LineRouted ==
    \A n \in Lines :
        asked.edges[n] # "none" =>
            /\ n \in exti.IMR
            /\ n \in exti.FTSR <=> asked.edges[n] \in {"IT_FT", "IT_RFT"}
            /\ n \in exti.RTSR <=> asked.edges[n] \in {"IT_RT", "IT_RFT"}
            /\ \A port \in GPIOs :
                  asked.ports[n] = {port} /\ "SPI2" \notin asked.resets =>
                      exticr[n] = Bits(GPIO_BASEADDR_TO_CODE[port])

\* An interrupt is enabled exactly if the last call about it enabled it.
EnabledAsAsked == iser = asked.irqs

\* Every pin of an output port but the LED has the value last written to it,
\* though the handler modifies ODR between the load and the store of a write.
\* The LED's own toggle is lost when it comes there; its pin is right again
\* from the next write that does not depend on its value (a set or reset of
\* the pin, a write of the port, a reset of the port).
PinsAsWritten ==
    odr_reg.port = "none" =>
        /\ odr \ {LED} = asked.pins \ {LED}
        /\ ~asked.raced => odr = asked.pins

MaxRise(speed) == IF speed <= I2C_CLK_SPEED_SM THEN 1000 ELSE 300

\* The divider of every baud rate is within one step of the exact one, SCL's
\* period is the longest multiple that is not too long, and TRISE is the
\* longest rise time of the mode, in nanoseconds, in periods of PCLK1, if
\* PCLK1 times 300 fits 32 bits: at the 16 MHz of the reset clock it does not.
RatesAsAsked ==
    /\ \A x \in USARTs :
          LET r == brr[x]
              p == USART_pclk(x)
          IN  r # NoRate /\ Oversampling(r.over8) * r.rate <= p =>
                  LET error == Divider(r.value, r.over8) * r.rate - p
                  IN  -r.rate < error /\ error < r.rate
    /\ \A x \in I2Cs :
          LET r == i2c[x]
              p == RCC_get_pclk1(cfgr)
              step == Periods(r.rate, r.duty) * r.rate
          IN  r # NoRate =>
                  /\ r.ccr * step <= p /\ p < (r.ccr + 1) * step
                  /\ r.rate <= I2C_CLK_SPEED_SM \/ p < 14316558 =>
                        r.trise = (MaxRise(r.rate) * (p \div 1000)) \div 1000000 + 1

\* The rates that the drivers' arithmetic can compute at these clocks.
RatesFit ==
    /\ Speeds \subseteq Nat \ {0} /\ Bauds \subseteq Nat \ {0}
    /\ \A c \in Clocks :
          /\ \A s \in Speeds, d \in {0, 1} : ~Truncated(RCC_get_pclk1(c), s, d)
          /\ \A p \in {RCC_get_pclk1(c), RCC_get_pclk2(c)}, b \in Bauds, o \in BOOLEAN :
                ~Carries(p, b, o)

\* GPIO_IRQ_handler clears the pending interrupt of the given pin.
OnlyTheGivenPin ==
    [][\A n \in exti.PR : n \notin exti'.PR => n = isr.line]_vars
==============================================================================
