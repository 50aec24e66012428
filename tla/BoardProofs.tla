----------------------------- MODULE BoardProofs -----------------------------
(***************************************************************************)
(* Proofs about Board: what holds after any number of calls, in any order, *)
(* about any peripherals, lines and interrupts.                            *)
(***************************************************************************)
EXTENDS Board, TLAPS

AskedFields ==
    [clocks : SUBSET Peripherals, resets : SUBSET Peripherals,
     irqs : SUBSET Int, ports : [Lines -> SUBSET GPIOs],
     edges : [Lines -> InterruptModes \cup {"none"}],
     pins : SUBSET Pins, raced : BOOLEAN]

Types ==
    /\ asked \in AskedFields
    /\ exti \in [FTSR : SUBSET Lines, RTSR : SUBSET Lines, IMR : SUBSET Lines, PR : SUBSET Lines]
    /\ exticr \in [Lines -> SUBSET (0..3)]
    /\ odr \subseteq Pins
    /\ \/ odr_reg = [port |-> "none"]
       \/ odr_reg \in [port : GPIOs, value : SUBSET Pins]

\* What each of the properties is about.
ClockState == <<enr, rstr, on, ack, asked.clocks, asked.resets>>
LineState == <<exti.FTSR, exti.RTSR, exti.IMR, exticr, asked.ports, asked.edges>>
PinState == <<odr, odr_reg, asked.pins, asked.raced>>

\* ReadyForUse, and only an I2C has an ACK.
ClockInv == ReadyForUse /\ ack \subseteq I2Cs

\* A line's field has the codes of all the ports it was set up for.
Routed ==
    "SPI2" \notin asked.resets =>
        \A n \in Lines :
            exticr[n] = UNION {Bits(GPIO_BASEADDR_TO_CODE[port]) : port \in asked.ports[n]}

EdgesSelected ==
    \A n \in Lines :
        asked.edges[n] # "none" =>
            /\ n \in exti.IMR
            /\ n \in exti.FTSR <=> asked.edges[n] \in {"IT_FT", "IT_RFT"}
            /\ n \in exti.RTSR <=> asked.edges[n] \in {"IT_RT", "IT_RFT"}

LineInv == Routed /\ EdgesSelected

\* What ODR holds once the thread has stored what it is about to.
Stored ==
    IF odr_reg.port # "none" /\ Writable(odr_reg.port)
    THEN {q \in odr : q[1] # odr_reg.port} \cup odr_reg.value
    ELSE odr

\* The pins that it then drives are those asked for, but the LED after a race.
PinInv ==
    /\ asked.pins \ {LED} = Stored \ {LED}
    /\ ~asked.raced => asked.pins = Stored

PinsOfPort == odr_reg.port # "none" => \A q \in odr_reg.value : q[1] = odr_reg.port

\* The inductive invariant.
IInv == Types /\ ClockInv /\ LineInv /\ PinInv /\ PinsOfPort

-----------------------------------------------------------------------------
(* The hardware's bits and the macros.                                     *)

\* No two peripherals share a bit.
LEMMA PositionInjective ==
  \A x, y \in Peripherals : Position[x] = Position[y] => x = y
BY SMTT(60) DEF Peripherals, GPIOs, GPIO_BASEADDR_TO_CODE, I2Cs, SPIs, USARTs, Position

\* The clock macros name their peripheral's bit.
LEMMA ClockMacros ==
  /\ \A x \in GPIOs : GPIO_PCLK(x) = Position[x]
  /\ \A x \in SPIs \cup I2Cs : PCLK[x] = Position[x]
  /\ SYSCFG_PCLK = Position["SYSCFG"]
BY DEF GPIOs, GPIO_BASEADDR_TO_CODE, GPIO_PCLK, I2Cs, SPIs, PCLK, SYSCFG_PCLK, Position

\* A USART's reset macro sets its own bit.
LEMMA USARTResets ==
  \A x \in USARTs : USART_REG_RESET[x][1] = Position[x]
<1>1. \A x \in USARTs : USART_REG_RESET[x][1] = USART_PCLK[x]
  BY DEF USARTs, USART_REG_RESET, USART_PCLK
<1>2. \A x \in USARTs : USART_PCLK[x] = Position[x]
  BY DEF USARTs, USART_PCLK, Position
<1> QED BY <1>1, <1>2

\* The kinds of peripheral.
LEMMA Kinds ==
  /\ GPIOs \cap (SPIs \cup I2Cs \cup USARTs \cup {"SYSCFG"}) = {}
  /\ SPIs \cap (I2Cs \cup USARTs \cup {"SYSCFG"}) = {}
  /\ I2Cs \cap (USARTs \cup {"SYSCFG"}) = {}
  /\ "SYSCFG" \notin USARTs
  /\ "none" \notin Peripherals
  /\ "GPIOG" \in GPIOs
  /\ GPIOs \subseteq Peripherals /\ SPIs \subseteq Peripherals
  /\ I2Cs \subseteq Peripherals /\ USARTs \subseteq Peripherals
  /\ "SYSCFG" \in Peripherals
  /\ Peripherals = GPIOs \cup SPIs \cup I2Cs \cup USARTs \cup {"SYSCFG"}
BY DEF Peripherals, GPIOs, GPIO_BASEADDR_TO_CODE, I2Cs, SPIs, USARTs

\* A reset macro hits its own peripheral, or none of those here, but SPI2's,
\* which hits SYSCFG; what it leaves set is listed.
LEMMA ResetMacros ==
  ASSUME NEW x \in Peripherals \ {"SYSCFG"}, ResetBits(x) # <<>>,
         NEW y \in Peripherals, Position[y] = ResetBits(x)[1]
  PROVE  /\ y \in GPIOs \/ y = "SYSCFG" => x = y \/ <<x, y>> = <<"SPI2", "SYSCFG">>
         /\ ResetBits(x)[1] # ResetBits(x)[2] => <<x, y>> \in HeldByDeinit
<1>1. CASE x \in GPIOs
  BY <1>1, PositionInjective, ClockMacros, Kinds DEF ResetBits, GPIO_deinit, GPIO_REG_RESET
<1>2. CASE x \in SPIs
  <2>1. ResetBits(x) = SPI_REG_RESET[x]
    BY <1>2, Kinds DEF ResetBits, SPI_deinit
  <2> QED BY <1>2, <2>1, SMTT(60)
        DEF SPIs, SPI_REG_RESET, Peripherals, GPIOs, GPIO_BASEADDR_TO_CODE, I2Cs, USARTs, Position,
            HeldByDeinit
<1>3. CASE x \in I2Cs
  BY <1>3, PositionInjective, ClockMacros, Kinds DEF ResetBits, I2C_deinit, I2C_REG_RESET
<1>4. CASE x \in USARTs
  <2>1. ResetBits(x) = USART_REG_RESET[x]
    BY <1>4, Kinds DEF ResetBits, USART_deinit
  <2>2. USART_REG_RESET[x][1] = Position[x]
    BY <1>4, USARTResets
  <2>3. y = x
    BY <2>1, <2>2, PositionInjective
  <2>4. USART_REG_RESET[x][1] # USART_REG_RESET[x][2] => x \in {"USART1", "USART6"}
    BY <1>4 DEF USARTs, USART_REG_RESET
  <2> QED BY <1>4, <2>1, <2>3, <2>4, Kinds DEF HeldByDeinit
<1> QED BY <1>1, <1>2, <1>3, <1>4, Kinds

\* What HeldByDeinit lists is what a macro sets and does not clear, and no other
\* macro clears it.
LEMMA HeldMacros ==
  ASSUME NEW x \in Peripherals \ {"SYSCFG"}, ResetBits(x) # <<>>, NEW y
  PROVE  /\ <<x, y>> \in HeldByDeinit =>
               Position[y] = ResetBits(x)[1] /\ ResetBits(x)[1] # ResetBits(x)[2]
         /\ (\E d : <<d, y>> \in HeldByDeinit) => Position[y] # ResetBits(x)[2]
<1> DEFINE Held == {"SYSCFG", "SPI4", "USART1", "USART6"}
<1>1. (\E d : <<d, y>> \in HeldByDeinit) => y \in Held
  BY DEF HeldByDeinit
<1>2. <<x, y>> \in HeldByDeinit => <<x, y>> \in
         {<<"SPI2", "SYSCFG">>, <<"SPI4", "SPI4">>, <<"USART1", "USART1">>, <<"USART6", "USART6">>}
  BY DEF HeldByDeinit
<1>3. /\ Position["SYSCFG"] = <<"APB2", 14>> /\ Position["SPI4"] = <<"APB2", 13>>
      /\ Position["USART1"] = <<"APB2", 4>> /\ Position["USART6"] = <<"APB2", 5>>
  BY DEF Position
<1>4. CASE x \in GPIOs
  <2>1. ResetBits(x)[2] = Position[x]
    BY <1>1, <1>4, ClockMacros DEF ResetBits, GPIO_deinit, GPIO_REG_RESET
  <2>2. Held \cap GPIOs = {} /\ Held \subseteq Peripherals
    BY DEF Peripherals, GPIOs, GPIO_BASEADDR_TO_CODE, SPIs, USARTs
  <2>3. {"SPI2", "SPI4", "USART1", "USART6"} \cap GPIOs = {}
    BY DEF GPIOs, GPIO_BASEADDR_TO_CODE
  <2> QED BY <1>1, <1>2, <1>4, <2>1, <2>2, <2>3, PositionInjective
<1>5. CASE x \in SPIs
  <2>1. ResetBits(x) = SPI_REG_RESET[x]
    BY <1>5, Kinds DEF ResetBits, SPI_deinit
  <2>2. ResetBits(x)[2] = <<"APB2", 12>>
    BY <1>5, <2>1 DEF SPIs, SPI_REG_RESET
  <2>3. /\ x = "SPI2" => ResetBits(x)[1] = <<"APB2", 14>>
        /\ x = "SPI4" => ResetBits(x)[1] = <<"APB2", 13>>
    BY <2>1 DEF SPI_REG_RESET
  <2>4. x \notin {"USART1", "USART6"}
    BY <1>5 DEF SPIs
  <2>5. (\E d : <<d, y>> \in HeldByDeinit) => Position[y] # ResetBits(x)[2]
    <3>1. y \in Held => Position[y][2] # 12
      BY <1>3
    <3>2. ResetBits(x)[2][2] = 12
      BY <2>2
    <3> HIDE DEF Held
    <3> QED BY <1>1, <3>1, <3>2
  <2>6. ASSUME <<x, y>> \in HeldByDeinit
        PROVE  Position[y] = ResetBits(x)[1] /\ ResetBits(x)[1] # ResetBits(x)[2]
    <3>1. (x = "SPI2" /\ y = "SYSCFG") \/ (x = "SPI4" /\ y = "SPI4")
      BY <1>2, <2>4, <2>6
    <3> QED BY <1>3, <2>2, <2>3, <3>1
  <2> QED BY <2>5, <2>6
<1>6. CASE x \in I2Cs
  <2>1. ResetBits(x)[2] = Position[x]
    BY <1>6, ClockMacros, Kinds DEF ResetBits, I2C_deinit, I2C_REG_RESET
  <2>2. Held \cap I2Cs = {} /\ Held \subseteq Peripherals
    BY DEF Peripherals, I2Cs, SPIs, USARTs
  <2>3. {"SPI2", "SPI4", "USART1", "USART6"} \cap I2Cs = {}
    BY DEF I2Cs
  <2> QED BY <1>1, <1>2, <1>6, <2>1, <2>2, <2>3, PositionInjective
<1>7. CASE x \in USARTs
  <2>1. ResetBits(x) = USART_REG_RESET[x]
    BY <1>7, Kinds DEF ResetBits, USART_deinit
  <2>2. ResetBits(x)[2][1] = "APB1"
    BY <1>7, <2>1 DEF USARTs, USART_REG_RESET
  <2>3. /\ x = "USART1" => ResetBits(x)[1] = <<"APB2", 4>>
        /\ x = "USART6" => ResetBits(x)[1] = <<"APB2", 5>>
    BY <2>1 DEF USART_REG_RESET
  <2>4. x \notin {"SPI2", "SPI4"}
    BY <1>7 DEF USARTs
  <2>5. (\E d : <<d, y>> \in HeldByDeinit) => Position[y] # ResetBits(x)[2]
    <3>1. y \in Held => Position[y][1] = "APB2"
      BY <1>3
    <3> QED BY <1>1, <2>2, <3>1
  <2>6. ASSUME <<x, y>> \in HeldByDeinit
        PROVE  Position[y] = ResetBits(x)[1] /\ ResetBits(x)[1] # ResetBits(x)[2]
    <3>1. (x = "USART1" /\ y = "USART1") \/ (x = "USART6" /\ y = "USART6")
      BY <1>2, <2>4, <2>6
    <3> QED BY <1>3, <2>2, <2>3, <3>1
  <2> QED BY <2>5, <2>6
<1> QED BY <1>4, <1>5, <1>6, <1>7, Kinds

\* The macro of SPI2 hits SYSCFG, and no other's does.
LEMMA SyscfgReset ==
  ASSUME NEW x \in Peripherals \ {"SYSCFG"}, ResetBits(x) # <<>>,
         Position["SYSCFG"] = ResetBits(x)[1]
  PROVE  x = "SPI2"
BY ResetMacros, Kinds

-----------------------------------------------------------------------------
(* What leaves a part of the invariant alone.                              *)

\* The peripherals whose clock macros are right.
Clockable == Peripherals \ (USARTs \cup {"GPIOG"})

\* The clock bits are those of the peripherals asked for, as far as their
\* macros are right.
Agree(bits, clocks) ==
    \A y \in Peripherals : Position[y] \in bits <=> y \in clocks \cap Clockable

LEMMA AgreeSet ==
  ASSUME NEW bits, NEW clocks, Agree(bits, clocks),
         NEW x \in Peripherals, NEW e \in BOOLEAN
  PROVE  /\ x \in Clockable =>
                Agree(Set(bits, Position[x], e), IF e THEN clocks \cup {x} ELSE clocks \ {x})
         /\ x \notin Clockable =>
                Agree(bits, IF e THEN clocks \cup {x} ELSE clocks \ {x})
BY PositionInjective DEF Agree, Set

LEMMA AgreeEnable ==
  ASSUME NEW bits, NEW clocks, Agree(bits, clocks), NEW x \in Peripherals
  PROVE  /\ x \in Clockable => Agree(bits \cup {Position[x]}, clocks \cup {x})
         /\ x \notin Clockable => Agree(bits, clocks \cup {x})
BY PositionInjective DEF Agree

LEMMA ClocksUnaffected ==
  ASSUME ClockInv, UNCHANGED ClockState
  PROVE  ClockInv'
BY DEF ClockInv, ReadyForUse, ClockState, Clocked, InReset

\* Only clocks are asked for.
LEMMA ClocksChange ==
  ASSUME ClockInv, UNCHANGED <<rstr, on, ack, asked.resets>>, Agree(enr', asked'.clocks)
  PROVE  ClockInv'
BY DEF ClockInv, ReadyForUse, InReset, Clocked, Agree, Clockable

LEMMA LinesUnaffected ==
  ASSUME LineInv, UNCHANGED <<LineState, asked.resets>>
  PROVE  LineInv'
<1>1. UNCHANGED <<exticr, asked.resets, asked.ports>>
  BY DEF LineState
<1>2. Routed'
  BY <1>1 DEF LineInv, Routed
<1>3. UNCHANGED <<exti.FTSR, exti.RTSR, exti.IMR, asked.edges>>
  BY DEF LineState
<1>4. EdgesSelected'
  BY <1>3 DEF LineInv, EdgesSelected
<1> QED BY <1>2, <1>4 DEF LineInv

LEMMA PinsUnaffected ==
  ASSUME PinInv, PinsOfPort, UNCHANGED PinState, odr_reg.port = "none" \/ UNCHANGED <<enr, rstr>>
  PROVE  PinInv' /\ PinsOfPort'
<1>1. UNCHANGED <<odr, odr_reg, asked.pins, asked.raced>>
  BY DEF PinState
<1> QED BY <1>1 DEF PinInv, Stored, PinsOfPort, Writable, Clocked, InReset

LEMMA InitInvariant ==
  ASSUME Init
  PROVE  IInv
<1>1. Types
  BY DEF Init, Types, AskedFields, InterruptModes
<1>2. ClockInv
  BY DEF Init, ClockInv, ReadyForUse, Clocked, InReset
<1>3. LineInv
  BY DEF Init, LineInv, Routed, EdgesSelected
<1>4. PinInv /\ PinsOfPort
  BY DEF Init, PinInv, Stored, PinsOfPort
<1> QED BY <1>1, <1>2, <1>3, <1>4 DEF IInv

-----------------------------------------------------------------------------
(* The steps.                                                              *)

LEMMA ClockControlStep ==
  ASSUME IInv, NEW x \in Used, NEW e \in BOOLEAN, ClockControl(x, e)
  PROVE  IInv'
<1> USE DEF IInv
<1>1. x \in Peripherals \ {"SYSCFG"} /\ x \in Used
  BY BoardAssumption
<1>2. asked' = [asked EXCEPT !.clocks = IF e THEN @ \cup {x} ELSE @ \ {x}]
  BY DEF ClockControl
<1>3. /\ asked' \in AskedFields
      /\ asked'.clocks = IF e THEN asked.clocks \cup {x} ELSE asked.clocks \ {x}
      /\ UNCHANGED <<asked.resets, asked.irqs, asked.ports, asked.edges,
                     asked.pins, asked.raced>>
  BY <1>1, <1>2 DEF Types, AskedFields
<1>4. Types'
  BY <1>3 DEF ClockControl, Types, periph, nvic
<1>5. ClockInv'
  <2>1. Agree(enr, asked.clocks)
    BY DEF ClockInv, ReadyForUse, Agree, Clockable, Clocked
  <2>2. enr' = IF x \in Clockable THEN Set(enr, Position[x], e) ELSE enr
    <3>1. CASE x \in GPIOs
      BY <1>1, <3>1, Kinds, ClockMacros DEF ClockControl, Clockable, GPIO_clock_control
    <3>2. CASE x \in SPIs
      BY <1>1, <3>2, Kinds, ClockMacros DEF ClockControl, Clockable, SPI_clock_control
    <3>3. CASE x \in I2Cs
      BY <1>1, <3>3, Kinds, ClockMacros DEF ClockControl, Clockable, I2C_clock_control
    <3>4. CASE x \in USARTs
      BY <1>1, <3>4, Kinds DEF ClockControl, Clockable
    <3> QED BY <1>1, <3>1, <3>2, <3>3, <3>4, Kinds
  <2>3. Agree(enr', asked'.clocks)
    <3> DEFINE clocks == IF e THEN asked.clocks \cup {x} ELSE asked.clocks \ {x}
    <3>1. /\ x \in Clockable => Agree(Set(enr, Position[x], e), clocks)
          /\ x \notin Clockable => Agree(enr, clocks)
      BY <1>1, <2>1, AgreeSet
    <3>2. asked'.clocks = clocks
      BY <1>3
    <3> HIDE DEF clocks
    <3>3. CASE x \in Clockable
      BY <2>2, <3>1, <3>2, <3>3
    <3>4. CASE x \notin Clockable
      BY <2>2, <3>1, <3>2, <3>4
    <3> QED BY <3>3, <3>4
  <2> QED BY <1>3, <2>3, ClocksChange DEF ClockControl, periph
<1>6. LineInv'
  BY <1>3, LinesUnaffected DEF ClockControl, LineState
<1>7. PinInv' /\ PinsOfPort'
  BY <1>3, PinsUnaffected DEF ClockControl, PinState, periph, Call, Running
<1> QED BY <1>4, <1>5, <1>6, <1>7

LEMMA DeinitStep ==
  ASSUME IInv, NEW x \in Used, Deinit(x)
  PROVE  IInv'
<1> USE DEF IInv
<1> DEFINE Hit(y) == y \in Peripherals /\ Position[y] = ResetBits(x)[1]
<1>1. x \in Peripherals \ {"SYSCFG"} /\ ResetBits(x) # <<>>
  BY BoardAssumption DEF Deinit
<1>2. asked' = [asked EXCEPT !.resets = @ \cup {x}, !.pins = {p \in @ : p[1] # x},
                                !.raced = @ /\ x # LED[1]]
  BY DEF Deinit
<1>3. /\ asked' \in AskedFields
      /\ asked'.resets = asked.resets \cup {x}
      /\ asked'.pins = {p \in asked.pins : p[1] # x}
      /\ asked'.raced = (asked.raced /\ x # LED[1])
      /\ UNCHANGED <<asked.clocks, asked.irqs, asked.ports, asked.edges>>
  <2> DEFINE Rest == {p \in asked.pins : p[1] # x}
             Raced == asked.raced /\ x # LED[1]
  <2>1. Rest \subseteq asked.pins /\ Raced \in BOOLEAN
    OBVIOUS
  <2>2. asked' = [asked EXCEPT !.resets = asked.resets \cup {x}, !.pins = Rest, !.raced = Raced]
    BY <1>2
  <2> HIDE DEF Rest, Raced
  <2>3. asked \in AskedFields /\ Rest \in SUBSET Pins
    BY <2>1 DEF Types, AskedFields
  <2>4. asked.resets \cup {x} \in SUBSET Peripherals
    BY <1>1, <2>3 DEF AskedFields
  <2>5. asked' \in AskedFields
    BY <2>1, <2>2, <2>3, <2>4 DEF AskedFields
  <2>6. /\ asked'.resets = asked.resets \cup {x} /\ asked'.pins = Rest /\ asked'.raced = Raced
        /\ UNCHANGED <<asked.clocks, asked.irqs, asked.ports, asked.edges>>
    BY <2>2, <2>3 DEF AskedFields
  <2> QED BY <2>5, <2>6 DEF Rest, Raced
<1>4. exticr' = [n \in Lines |-> IF Hit("SYSCFG") THEN {} ELSE exticr[n]]
  BY DEF Deinit
<1>5. odr' = {p \in odr : ~Hit(p[1])}
  BY DEF Deinit
<1>6. Types'
  BY <1>3, <1>4, <1>5 DEF Types, Deinit, nvic
<1>7. ClockInv'
  <2>1. ASSUME NEW y \in Peripherals
        PROVE  InReset(y)' <=> \E d \in asked'.resets : <<d, y>> \in HeldByDeinit
    <3>1. InReset(y)' <=>
             (InReset(y) \/ Position[y] = ResetBits(x)[1]) /\ Position[y] # ResetBits(x)[2]
      BY DEF Deinit, InReset
    <3>2. InReset(y) <=> \E d \in asked.resets : <<d, y>> \in HeldByDeinit
      BY DEF ClockInv, ReadyForUse
    <3>3. CASE <<x, y>> \in HeldByDeinit
      BY <1>1, <1>3, <3>1, <3>3, HeldMacros
    <3>4. CASE <<x, y>> \notin HeldByDeinit
      <4>1. InReset(y) => Position[y] # ResetBits(x)[2]
        BY <1>1, <3>2, HeldMacros
      <4>2. Position[y] = ResetBits(x)[1] => Position[y] = ResetBits(x)[2]
        BY <1>1, <3>4, ResetMacros
      <4>3. InReset(y)' <=> InReset(y)
        BY <3>1, <4>1, <4>2
      <4> QED BY <1>3, <3>2, <3>4, <4>3
    <3> QED BY <3>3, <3>4
  <2>2. on' = {y \in on : ~Hit(y)} /\ ack' = {y \in ack : ~Hit(y)}
    BY DEF Deinit
  <2>3. ack' \subseteq on' /\ ack' \subseteq I2Cs
    BY <2>2 DEF ClockInv, ReadyForUse
  <2>4. UNCHANGED <<enr, asked.clocks>>
    BY <1>3 DEF Deinit
  <2> QED BY <2>1, <2>3, <2>4 DEF ClockInv, ReadyForUse, Clocked
<1>8. LineInv'
  <2>1. "SPI2" \notin asked'.resets => UNCHANGED exticr /\ "SPI2" \notin asked.resets
    BY <1>1, <1>3, <1>4, SyscfgReset DEF Types
  <2>2. Routed'
    BY <1>3, <2>1 DEF LineInv, Routed
  <2>3. EdgesSelected'
    BY <1>3 DEF LineInv, EdgesSelected, Deinit
  <2> QED BY <2>2, <2>3 DEF LineInv
<1>9. PinInv' /\ PinsOfPort'
  <2>1. \A p \in Pins : p[1] \in GPIOs
    BY DEF Pins
  <2>2. \A y \in GPIOs : Hit(y) <=> y = x
    <3>1. ASSUME NEW y \in GPIOs, Hit(y)
          PROVE  y = x
      <4>1. y \in Peripherals /\ y # "SYSCFG"
        BY Kinds
      <4>2. x = y \/ <<x, y>> = <<"SPI2", "SYSCFG">>
        BY <1>1, <3>1, <4>1, ResetMacros
      <4> QED BY <4>1, <4>2
    <3>2. x \in GPIOs => Position[x] = ResetBits(x)[1]
      BY <1>1, ClockMacros DEF ResetBits, GPIO_deinit, GPIO_REG_RESET
    <3> QED BY <1>1, <3>1, <3>2
  <2>3. odr' = {p \in odr : p[1] # x}
    BY <1>5, <2>1, <2>2 DEF Types
  <2>4. odr_reg.port = "none" /\ UNCHANGED odr_reg
    BY DEF Deinit, Call, Running
  <2>5. LED \in Pins
    BY BoardAssumption
  <2>6. Stored = odr /\ Stored' = odr'
    BY <2>4 DEF Stored
  <2>7. CASE x = LED[1]
    BY <1>3, <2>3, <2>4, <2>5, <2>6, <2>7 DEF PinInv, PinsOfPort
  <2>8. CASE x # LED[1]
    BY <1>3, <2>3, <2>4, <2>6, <2>8 DEF PinInv, PinsOfPort
  <2> QED BY <2>7, <2>8
<1> QED BY <1>6, <1>7, <1>8, <1>9

\* SPI_init and I2C_init: the clock is enabled first.
LEMMA SerialInitStep ==
  ASSUME IInv, NEW x \in Used \cap (SPIs \cup I2Cs),
         enr' = Set(enr, PCLK[x], TRUE),
         asked' = [asked EXCEPT !.clocks = @ \cup {x}],
         UNCHANGED <<rstr, on, ack, odr, exti, exticr, nvic, odr_reg>>,
         odr_reg.port = "none"
  PROVE  IInv'
<1> USE DEF IInv
<1>1. x \in Peripherals /\ x \in Clockable /\ PCLK[x] = Position[x]
  BY Kinds, ClockMacros DEF Clockable
<1>2. /\ asked' \in AskedFields
      /\ asked'.clocks = asked.clocks \cup {x}
      /\ UNCHANGED <<asked.resets, asked.irqs, asked.ports, asked.edges,
                     asked.pins, asked.raced>>
  BY <1>1 DEF Types, AskedFields
<1>3. Types'
  BY <1>2 DEF Types, nvic
<1>4. ClockInv'
  <2>1. Agree(enr, asked.clocks)
    BY DEF ClockInv, ReadyForUse, Agree, Clockable, Clocked
  <2>2. Agree(enr \cup {Position[x]}, asked.clocks \cup {x})
    BY <1>1, <2>1, AgreeEnable
  <2>3. Agree(enr', asked'.clocks)
    BY <1>1, <1>2, <2>2 DEF Set
  <2> QED BY <1>2, <2>3, ClocksChange
<1>5. LineInv'
  BY <1>2, LinesUnaffected DEF LineState
<1>6. PinInv' /\ PinsOfPort'
  BY <1>2, PinsUnaffected DEF PinState
<1> QED BY <1>3, <1>4, <1>5, <1>6

LEMMA PeriphControlStep ==
  ASSUME IInv, NEW x, NEW enable \in BOOLEAN, NEW ack_control \in BOOLEAN,
         PeriphControl(x, enable, ack_control)
  PROVE  IInv'
<1> USE DEF IInv, PeriphControl, rcc, nvic
<1>1. Types'
  BY DEF Types
<1>2. ack' \subseteq on' /\ ack' \subseteq I2Cs
  BY DEF ClockInv, ReadyForUse
<1>3. ClockInv'
  BY <1>2 DEF ClockInv, ReadyForUse, Clocked, InReset
<1>4. LineInv'
  BY LinesUnaffected DEF LineState
<1>5. PinInv' /\ PinsOfPort'
  BY PinsUnaffected DEF PinState
<1> QED BY <1>1, <1>3, <1>4, <1>5

\* Steps that change nothing the invariant is about, but pending lines.
LEMMA StutterStep ==
  ASSUME IInv, UNCHANGED <<enr, rstr, on, ack, asked, exticr, odr, odr_reg>>,
         exti' \in [FTSR : SUBSET Lines, RTSR : SUBSET Lines, IMR : SUBSET Lines, PR : SUBSET Lines],
         UNCHANGED <<exti.FTSR, exti.RTSR, exti.IMR>>
  PROVE  IInv'
<1> USE DEF IInv, nvic
<1>1. Types'
  BY DEF Types
<1>2. ClockInv'
  BY ClocksUnaffected DEF ClockState
<1>3. LineInv'
  BY LinesUnaffected DEF LineState
<1>4. PinInv' /\ PinsOfPort'
  BY PinsUnaffected DEF PinState
<1> QED BY <1>1, <1>2, <1>3, <1>4

LEMMA IRQConfigStep ==
  ASSUME IInv, NEW i \in IRQs, NEW enable \in BOOLEAN, IRQ_config(i, enable)
  PROVE  IInv'
<1> USE DEF IInv, rcc, periph
<1>1. i \in Int
  BY BoardAssumption
<1>2. /\ asked' \in AskedFields
      /\ UNCHANGED <<asked.clocks, asked.resets, asked.ports, asked.edges, asked.pins,
                     asked.raced>>
  BY <1>1 DEF IRQ_config, Types, AskedFields
<1>3. Types'
  BY <1>2 DEF Types, IRQ_config
<1>4. ClockInv'
  BY <1>2, ClocksUnaffected DEF ClockState, IRQ_config
<1>5. LineInv'
  BY <1>2, LinesUnaffected DEF LineState, IRQ_config
<1>6. PinInv' /\ PinsOfPort'
  BY <1>2, PinsUnaffected DEF PinState, IRQ_config
<1> QED BY <1>3, <1>4, <1>5, <1>6

\* GPIO_init enables the clock of the port, and SYSCFG's for an interrupt.
LEMMA GPIOInitClocks ==
  ASSUME IInv, NEW p \in Pins, NEW mode, GPIO_init(p, mode),
         NEW clocks, clocks = asked.clocks \cup {p[1]}
                                  \cup (IF mode \in InterruptModes THEN {"SYSCFG"} ELSE {})
  PROVE  Agree(enr', clocks)
<1> USE DEF IInv
<1> DEFINE gpio == GPIO_clock_control(p[1], TRUE)
<1>1. p[1] \in GPIOs /\ p[1] \in Used /\ p[1] \in Peripherals
  BY Kinds DEF Pins
<1>2. Agree(enr, asked.clocks)
  BY DEF ClockInv, ReadyForUse, Agree, Clockable, Clocked
<1>3. Agree(gpio, asked.clocks \cup {p[1]})
  <2>1. CASE p[1] = "GPIOG"
    <3>1. p[1] \notin Clockable /\ gpio = enr
      BY <2>1 DEF Clockable, GPIO_clock_control
    <3> QED BY <1>1, <1>2, <3>1, AgreeEnable
  <2>2. CASE p[1] # "GPIOG"
    <3>1. p[1] \in Clockable /\ gpio = enr \cup {Position[p[1]]}
      BY <1>1, <2>2, Kinds, ClockMacros DEF Clockable, GPIO_clock_control, Set
    <3> HIDE DEF gpio
    <3> QED BY <1>1, <1>2, <3>1, AgreeEnable
  <2> QED BY <2>1, <2>2
<1> HIDE DEF gpio
<1>4. CASE mode \in InterruptModes
  <2>1. enr' = gpio \cup {Position["SYSCFG"]}
    BY <1>4, ClockMacros DEF GPIO_init, gpio, Set
  <2>2. clocks = (asked.clocks \cup {p[1]}) \cup {"SYSCFG"}
    BY <1>4
  <2>3. "SYSCFG" \in Clockable /\ "SYSCFG" \in Peripherals
    BY Kinds DEF Clockable
  <2> QED BY <1>3, <2>1, <2>2, <2>3, AgreeEnable
<1>5. CASE mode \notin InterruptModes
  BY <1>3, <1>5 DEF GPIO_init, gpio
<1> QED BY <1>4, <1>5

LEMMA GPIOInitStep ==
  ASSUME IInv, NEW p \in Pins, NEW mode \in {"IN", "OUT", "ALTFUNC"} \cup InterruptModes,
         GPIO_init(p, mode)
  PROVE  IInv'
<1> USE DEF IInv
<1> DEFINE it == mode \in InterruptModes
           n == p[2]
           port == p[1]
           clocks == asked.clocks \cup {port} \cup (IF it THEN {"SYSCFG"} ELSE {})
           ports == [asked.ports EXCEPT ![n] = IF it THEN @ \cup {port} ELSE @]
           edges == [asked.edges EXCEPT ![n] = IF it THEN mode ELSE @]
<1>1. port \in GPIOs /\ port \in Peripherals /\ n \in Lines /\ "SYSCFG" \in Peripherals
  BY Kinds DEF Pins
<1>2. asked' = [asked EXCEPT !.clocks = clocks, !.ports = ports, !.edges = edges]
  BY DEF GPIO_init, Types, AskedFields
<1>3. /\ clocks \in SUBSET Peripherals
      /\ ports \in [Lines -> SUBSET GPIOs]
      /\ edges \in [Lines -> InterruptModes \cup {"none"}]
  BY <1>1 DEF Types, AskedFields
<1>4. /\ asked' \in AskedFields
      /\ asked'.clocks = clocks /\ asked'.ports = ports /\ asked'.edges = edges
      /\ UNCHANGED <<asked.resets, asked.irqs, asked.pins,
                     asked.raced>>
  <2> HIDE DEF clocks, ports, edges
  <2> QED BY <1>2, <1>3 DEF Types, AskedFields
<1>5. /\ exti' = IF it THEN Edges(n, mode) ELSE exti
      /\ exticr' = IF it /\ Writable("SYSCFG")'
                   THEN [exticr EXCEPT ![n] = @ \cup Bits(GPIO_BASEADDR_TO_CODE[port])]
                   ELSE exticr
  BY DEF GPIO_init
<1>6. Types'
  <2>1. exti' \in [FTSR : SUBSET Lines, RTSR : SUBSET Lines, IMR : SUBSET Lines, PR : SUBSET Lines]
    BY <1>1, <1>5 DEF Types, Edges
  <2>2. exticr' \in [Lines -> SUBSET (0..3)]
    BY <1>1, <1>5 DEF Types, Bits
  <2> QED BY <1>4, <2>1, <2>2 DEF Types, GPIO_init, nvic
<1>7. Agree(enr', asked'.clocks)
  BY <1>4, GPIOInitClocks
<1>8. ClockInv'
  BY <1>4, <1>7, ClocksChange DEF GPIO_init
<1>9. EdgesSelected'
  <2>1. ASSUME it, NEW m \in Lines
        PROVE  /\ m \in exti'.IMR <=> m \in exti.IMR \/ m = n
               /\ m \in exti'.FTSR <=> IF m = n THEN mode # "IT_RT" ELSE m \in exti.FTSR
               /\ m \in exti'.RTSR <=> IF m = n THEN mode # "IT_FT" ELSE m \in exti.RTSR
    BY <1>5, <2>1 DEF Edges, Types
  <2>2. CASE it
    <3>1. \A m \in Lines : asked'.edges[m] = IF m = n THEN mode ELSE asked.edges[m]
      BY <1>4, <2>2 DEF Types, AskedFields
    <3>2. mode \in {"IT_FT", "IT_RT", "IT_RFT"}
      BY <2>2 DEF InterruptModes
    <3> HIDE DEF it
    <3> QED BY <2>1, <2>2, <3>1, <3>2 DEF LineInv, EdgesSelected
  <2>3. CASE ~it
    <3>1. \A m \in Lines : asked'.edges[m] = asked.edges[m]
      BY <1>4, <2>3 DEF Types, AskedFields
    <3> QED BY <1>5, <2>3, <3>1 DEF LineInv, EdgesSelected
  <2> QED BY <2>2, <2>3
<1>10. Routed'
  <2> SUFFICES ASSUME "SPI2" \notin asked.resets, NEW m \in Lines
               PROVE  exticr'[m] = UNION {Bits(GPIO_BASEADDR_TO_CODE[q]) : q \in asked'.ports[m]}
    BY <1>4 DEF Routed
  <2>1. exticr[m] = UNION {Bits(GPIO_BASEADDR_TO_CODE[q]) : q \in asked.ports[m]}
    BY DEF LineInv, Routed
  <2>2. CASE it /\ m = n
    <3>1. Writable("SYSCFG")'
      <4>1. "SYSCFG" \in asked'.clocks /\ "SYSCFG" \in Clockable
        BY <1>4, <2>2, Kinds DEF Clockable
      <4>2. Clocked("SYSCFG")'
        BY <1>7, <4>1, Kinds DEF Agree, Clocked
      <4>3. ~InReset("SYSCFG")
        BY Kinds DEF ClockInv, ReadyForUse, HeldByDeinit
      <4> QED BY <4>2, <4>3 DEF Writable, GPIO_init, InReset
    <3>2. exticr'[m] = exticr[m] \cup Bits(GPIO_BASEADDR_TO_CODE[port])
      BY <1>5, <2>2, <3>1 DEF Types
    <3>3. asked'.ports[m] = asked.ports[m] \cup {port}
      BY <1>4, <2>2 DEF Types, AskedFields
    <3> QED BY <2>1, <3>2, <3>3
  <2>3. CASE ~(it /\ m = n)
    <3>1. exticr'[m] = exticr[m]
      BY <1>5, <2>3 DEF Types
    <3>2. asked'.ports[m] = asked.ports[m]
      BY <1>4, <2>3 DEF Types, AskedFields
    <3> QED BY <2>1, <3>1, <3>2
  <2> QED BY <2>2, <2>3
<1>11. PinInv' /\ PinsOfPort'
  BY <1>4, PinsUnaffected DEF PinState, GPIO_init, Call, Running
<1> QED BY <1>6, <1>8, <1>9, <1>10, <1>11 DEF LineInv

-----------------------------------------------------------------------------
(* The output register.                                                    *)

LEMMA LoadODRStep ==
  ASSUME IInv, NEW p \in Pins, NEW what \in {"set", "reset", "toggle"}, LoadODR(p, what)
  PROVE  IInv'
<1> USE DEF IInv, rcc, periph, nvic
<1> DEFINE old == {q \in odr : q[1] = p[1]}
           Change(set) == CASE what = "set" -> set \cup {p}
                            [] what = "reset" -> set \ {p}
                            [] what = "toggle" -> Toggle(set, p)
           pins == IF Writable(p[1]) THEN Change(asked.pins) ELSE asked.pins
           raced == IF Writable(p[1]) THEN asked.raced /\ (p # LED \/ what = "toggle")
                    ELSE asked.raced
<1>1. p[1] \in GPIOs /\ p[1] # "none" /\ odr \subseteq Pins /\ asked.pins \subseteq Pins
  BY Kinds DEF Pins, Types, AskedFields
<1>2. odr_reg' = [port |-> p[1], value |-> Change(old)]
  BY DEF LoadODR, NewODR
<1>3. Change(old) \subseteq Pins /\ \A q \in Change(old) : q[1] = p[1]
  BY <1>1 DEF Toggle
<1>4. pins \in SUBSET Pins /\ raced \in BOOLEAN
  <2>1. pins \in SUBSET Pins
    BY <1>1 DEF Toggle
  <2>2. raced \in BOOLEAN
    <3>1. asked.raced \in BOOLEAN
      BY DEF Types, AskedFields
    <3> QED BY <3>1
  <2> HIDE DEF pins, raced
  <2> QED BY <2>1, <2>2
<1>5. asked' = [asked EXCEPT !.pins = pins, !.raced = raced]
  <2>1. CASE Writable(p[1])
    BY <2>1 DEF LoadODR, Types, AskedFields
  <2>2. CASE ~Writable(p[1])
    BY <2>2 DEF LoadODR, Types, AskedFields
  <2> QED BY <2>1, <2>2
<1>6. /\ asked' \in AskedFields /\ asked'.pins = pins /\ asked'.raced = raced
      /\ UNCHANGED <<asked.clocks, asked.resets, asked.irqs, asked.ports, asked.edges>>
  <2> HIDE DEF pins, raced
  <2> QED BY <1>4, <1>5 DEF Types, AskedFields
<1>7. Types'
  <2>1. odr_reg' \in [port : GPIOs, value : SUBSET Pins]
    <3> HIDE DEF Change
    <3> QED BY <1>1, <1>2, <1>3
  <2> QED BY <1>6, <2>1 DEF Types, LoadODR
<1>8. ClockInv'
  BY <1>6, ClocksUnaffected DEF ClockState, LoadODR
<1>9. LineInv'
  BY <1>6, LinesUnaffected DEF LineState, LoadODR
<1>10. PinsOfPort'
  <2> HIDE DEF Change
  <2> QED BY <1>2, <1>3 DEF PinsOfPort
<1>11. PinInv'
  <2>1. Stored = odr
    BY DEF LoadODR, Running, Stored
  <2>2. Stored' = IF Writable(p[1]) THEN {q \in odr : q[1] # p[1]} \cup Change(old) ELSE odr
    <3> HIDE DEF Change
    <3>1. odr_reg'.port = p[1] /\ odr_reg'.value = Change(old)
      BY <1>2
    <3>2. UNCHANGED odr /\ Writable(p[1])' = Writable(p[1])
      BY DEF LoadODR, Writable, Clocked, InReset
    <3> QED BY <1>1, <3>1, <3>2 DEF Stored
  <2>3. Change(odr) = {q \in odr : q[1] # p[1]} \cup Change(old)
    BY DEF Toggle
  <2>4. CASE ~Writable(p[1])
    BY <1>6, <2>1, <2>2, <2>4 DEF PinInv
  <2>5. CASE Writable(p[1])
    <3>1. asked'.pins = Change(asked.pins) /\ Stored' = Change(odr)
          /\ asked'.raced = (asked.raced /\ (p # LED \/ what = "toggle"))
      <4> HIDE DEF Change
      <4> QED BY <1>6, <2>2, <2>3, <2>5
    <3>2. Change(asked.pins) \ {LED} = Change(odr) \ {LED}
      BY <2>1 DEF PinInv, Toggle
    <3>3. ASSUME ~asked.raced
          PROVE  Change(asked.pins) = Change(odr)
      <4> HIDE DEF Change
      <4> QED BY <2>1, <3>3 DEF PinInv
    <3>4. ASSUME p = LED, what # "toggle"
          PROVE  Change(asked.pins) = Change(odr)
      BY <2>1, <3>4 DEF PinInv
    <3> HIDE DEF Change
    <3> QED BY <3>1, <3>2, <3>3, <3>4 DEF PinInv
  <2> QED BY <2>4, <2>5
<1> QED BY <1>7, <1>8, <1>9, <1>10, <1>11

LEMMA StoreODRStep ==
  ASSUME IInv, StoreODR
  PROVE  IInv'
<1> USE DEF IInv, rcc, nvic, StoreODR
<1>1. odr_reg \in [port : GPIOs, value : SUBSET Pins]
  BY DEF Types
<1>2. odr' = IF Writable(odr_reg.port)
             THEN {q \in odr : q[1] # odr_reg.port} \cup odr_reg.value ELSE odr
  OBVIOUS
<1>3. odr' \subseteq Pins
  BY <1>1, <1>2 DEF Types
<1>4. Types'
  BY <1>3 DEF Types
<1>5. ClockInv'
  BY ClocksUnaffected DEF ClockState
<1>6. LineInv'
  BY LinesUnaffected DEF LineState
<1>7. odr_reg'.port = "none" /\ UNCHANGED asked
  OBVIOUS
<1>8. PinInv' /\ PinsOfPort'
  <2>1. Stored' = Stored
    BY <1>1, <1>2, <1>7, Kinds DEF Stored
  <2> QED BY <1>7, <2>1 DEF PinInv, PinsOfPort
<1> QED BY <1>4, <1>5, <1>6, <1>8

LEMMA WritePortStep ==
  ASSUME IInv, NEW port \in Used \cap GPIOs, GPIO_write_output_port(port, {port} \X Lines)
  PROVE  IInv'
<1> USE DEF IInv, rcc, nvic
<1> DEFINE Written(set) ==
      IF Writable(port) THEN {q \in set : q[1] # port} \cup ({port} \X Lines) ELSE set
           raced == asked.raced /\ ~(port = LED[1] /\ Writable(port))
<1>1. /\ odr' = Written(odr)
      /\ asked' = [asked EXCEPT !.pins = Written(asked.pins), !.raced = raced]
  BY DEF GPIO_write_output_port, Types, AskedFields
<1>2. odr' \subseteq Pins /\ Written(asked.pins) \in SUBSET Pins
  BY <1>1 DEF Types, AskedFields, Pins
<1>3. /\ asked' \in AskedFields /\ asked'.pins = Written(asked.pins) /\ asked'.raced = raced
      /\ UNCHANGED <<asked.clocks, asked.resets, asked.irqs, asked.ports, asked.edges>>
  <2>1. raced \in BOOLEAN
    BY DEF Types, AskedFields
  <2> HIDE DEF Written, raced
  <2> QED BY <1>1, <1>2, <2>1 DEF Types, AskedFields
<1>4. Types'
  BY <1>2, <1>3 DEF Types, GPIO_write_output_port
<1>5. ClockInv'
  BY <1>3, ClocksUnaffected DEF ClockState, GPIO_write_output_port
<1>6. LineInv'
  BY <1>3, LinesUnaffected DEF LineState, GPIO_write_output_port
<1>7. odr_reg.port = "none" /\ UNCHANGED odr_reg
  BY DEF GPIO_write_output_port, Running
<1>8. PinInv' /\ PinsOfPort'
  <2>1. Stored = odr /\ Stored' = odr'
    BY <1>7 DEF Stored
  <2>2. Written(asked.pins) \ {LED} = Written(odr) \ {LED}
    BY <2>1 DEF PinInv
  <2>3. ASSUME ~asked.raced
        PROVE  Written(asked.pins) = Written(odr)
    <3> HIDE DEF Written
    <3> QED BY <2>1, <2>3 DEF PinInv
  <2>4. ASSUME port = LED[1], Writable(port)
        PROVE  Written(asked.pins) = Written(odr)
    BY <2>1, <2>4 DEF PinInv
  <2> HIDE DEF Written
  <2> QED BY <1>1, <1>3, <1>7, <2>1, <2>2, <2>3, <2>4 DEF PinInv, PinsOfPort
<1> QED BY <1>4, <1>5, <1>6, <1>8

LEMMA ToggleLEDStep ==
  ASSUME IInv, ToggleLED
  PROVE  IInv'
<1> USE DEF IInv, rcc, nvic
<1> DEFINE pins == IF Writable(LED[1]) THEN Toggle(asked.pins, LED) ELSE asked.pins
           raced == asked.raced \/ (odr_reg.port = LED[1] /\ Writable(LED[1]))
<1>1. LED \in Pins /\ LED[1] \in GPIOs
  BY BoardAssumption DEF Pins
<1>2. asked' = [asked EXCEPT !.pins = pins, !.raced = raced]
  BY DEF ToggleLED, Types, AskedFields
<1>3. pins \in SUBSET Pins /\ raced \in BOOLEAN
  BY <1>1 DEF Toggle, Types, AskedFields
<1>4. /\ asked' \in AskedFields /\ asked'.pins = pins /\ asked'.raced = raced
      /\ UNCHANGED <<asked.clocks, asked.resets, asked.irqs,
                     asked.ports, asked.edges>>
  <2> HIDE DEF pins, raced
  <2> QED BY <1>2, <1>3 DEF Types, AskedFields
<1>5. odr' = IF Writable(LED[1]) THEN Toggle(odr, LED) ELSE odr
  BY DEF ToggleLED
<1>6. Types'
  BY <1>1, <1>4, <1>5 DEF Types, ToggleLED, Toggle
<1>7. ClockInv'
  BY <1>4, ClocksUnaffected DEF ClockState, ToggleLED
<1>8. LineInv'
  BY <1>4, LinesUnaffected DEF LineState, ToggleLED
<1>9. PinsOfPort' /\ UNCHANGED <<odr_reg, enr, rstr>>
  BY DEF PinsOfPort, ToggleLED
<1>10. PinInv'
  <2>1. CASE ~Writable(LED[1])
    BY <1>4, <1>5, <1>9, <2>1 DEF PinInv, Stored, Writable, Clocked, InReset
  <2>2. CASE Writable(LED[1])
    <3>1. asked'.pins = Toggle(asked.pins, LED) /\ odr' = Toggle(odr, LED)
      BY <1>4, <1>5, <2>2
    <3>2. \A y : Writable(y)' = Writable(y)
      BY <1>9 DEF Writable, Clocked, InReset
    <3>3. CASE odr_reg.port = LED[1]
      <4>1. asked'.raced
        BY <1>4, <2>2, <3>3
      <4>2. {q \in odr' : q[1] # odr_reg.port} = {q \in odr : q[1] # odr_reg.port}
        BY <3>1, <3>3 DEF Toggle
      <4>3. Stored' = Stored
        BY <1>1, <1>9, <2>2, <3>2, <3>3, <4>2, Kinds DEF Stored
      <4>4. Toggle(asked.pins, LED) \ {LED} = asked.pins \ {LED}
        BY DEF Toggle
      <4> QED BY <3>1, <4>1, <4>3, <4>4 DEF PinInv
    <3>4. CASE odr_reg.port # LED[1]
      <4>1. Stored' = Toggle(Stored, LED)
        <5>1. CASE odr_reg.port # "none" /\ Writable(odr_reg.port)
          <6> DEFINE port == odr_reg.port
                     value == odr_reg.value
          <6>1. \A v \in value : v[1] = port
            BY <5>1 DEF PinsOfPort
          <6>2. Toggle({r \in odr : r[1] # port} \cup value, LED)
                    = {r \in Toggle(odr, LED) : r[1] # port} \cup value
            BY <3>4, <6>1 DEF Toggle
          <6>3. Stored = {r \in odr : r[1] # port} \cup value
            BY <5>1 DEF Stored
          <6>4. Stored' = {r \in odr' : r[1] # port} \cup value
            BY <1>9, <3>2, <5>1 DEF Stored
          <6> QED BY <3>1, <6>2, <6>3, <6>4
        <5>2. CASE ~(odr_reg.port # "none" /\ Writable(odr_reg.port))
          BY <1>9, <3>1, <3>2, <5>2 DEF Stored
        <5> QED BY <5>1, <5>2
      <4>2. Toggle(asked.pins, LED) \ {LED} = asked.pins \ {LED}
            /\ Toggle(Stored, LED) \ {LED} = Stored \ {LED}
        BY DEF Toggle
      <4>3. asked'.raced = asked.raced
        BY <1>4, <3>4 DEF Types, AskedFields
      <4> QED BY <3>1, <4>1, <4>2, <4>3 DEF PinInv
    <3> QED BY <3>3, <3>4
  <2> QED BY <2>1, <2>2
<1> QED BY <1>6, <1>7, <1>8, <1>9, <1>10

-----------------------------------------------------------------------------
(* The arithmetic of the clocks and the rates.                             *)

\* What \div leaves, and the order of products.
LEMMA Quotient ==
  ASSUME NEW a \in Nat, NEW b \in Nat \ {0}
  PROVE  /\ a \div b \in Nat
         /\ (a \div b) * b <= a /\ a < ((a \div b) + 1) * b
OBVIOUS

LEMMA Times ==
  ASSUME NEW a \in Int, NEW b \in Int, NEW c \in Nat, a <= b
  PROVE  a * c <= b * c
OBVIOUS

LEMMA HPREPrescalers ==
  ASSUME NEW f \in 0..15
  PROVE  Prescaler(f, 8) \in {1, 2, 4, 8, 16, 64, 128, 256, 512}
<1>1. f < 8 \/ f = 8 \/ f = 9 \/ f = 10 \/ f = 11 \/ f = 12 \/ f = 13 \/ f = 14 \/ f = 15
  OBVIOUS
<1> QED BY <1>1 DEF Prescaler, possible_pscals

LEMMA PPREPrescalers ==
  ASSUME NEW f \in 0..7
  PROVE  Prescaler(f, 4) \in {1, 2, 4, 8, 16}
<1>1. f < 4 \/ f = 4 \/ f = 5 \/ f = 6 \/ f = 7
  OBVIOUS
<1> QED BY <1>1 DEF Prescaler, possible_pscals

\* The frequencies that the AHB, and a peripheral bus, can have.
PclkValues ==
    {16000000, 8000000, 4000000, 2000000, 1000000, 500000, 250000, 125000, 62500,
     31250, 15625, 7812, 3906, 1953, 976}

Hclks ==
    {16000000, 8000000, 4000000, 2000000, 1000000, 500000, 250000, 125000, 62500, 31250, 15625}

LEMMA PclkRange ==
  ASSUME NEW c \in ClockConfigs, NEW f \in 0..7
  PROVE  Pclk(c, f) \in PclkValues
<1> DEFINE h == system_clk(c) \div Prescaler(c.HPRE, 8)
           d == Prescaler(f, 4)
<1>1. system_clk(c) \in {8000000, 16000000}
  BY DEF system_clk
<1>2. Prescaler(c.HPRE, 8) \in {1, 2, 4, 8, 16, 64, 128, 256, 512}
  <2>1. c.HPRE \in 0..15
    BY DEF ClockConfigs
  <2> QED BY <2>1, HPREPrescalers
<1>3. h \in Hclks
  <2>1. CASE system_clk(c) = 8000000
    BY <1>2, <2>1 DEF Hclks
  <2>2. CASE system_clk(c) = 16000000
    BY <1>2, <2>2 DEF Hclks
  <2> QED BY <1>1, <2>1, <2>2
<1>4. d \in {1, 2, 4, 8, 16}
  BY PPREPrescalers
<1> HIDE DEF h, d
<1>5. h \div d \in PclkValues
  BY <1>3, <1>4 DEF Hclks, PclkValues
<1> QED BY <1>5 DEF Pclk, h, d

\* CCR is right exactly if it fits its twelve bits (I2C_init).
LEMMA CCRExact ==
  ASSUME NEW p \in Nat, NEW speed \in Nat \ {0}, NEW duty \in {0, 1}
  PROVE  LET step == Periods(speed, duty) * speed
             ccr == I2C_CCR(p, speed, duty)
         IN  (ccr * step <= p /\ p < (ccr + 1) * step) <=> ~Truncated(p, speed, duty)
<1> DEFINE step == Periods(speed, duty) * speed
           q == p \div step
           ccr == q % 4096
<1>1. I2C_CCR(p, speed, duty) = ccr /\ (Truncated(p, speed, duty) <=> q >= 4096)
  <2>1. 2^12 = 4096
    OBVIOUS
  <2> QED BY <2>1 DEF I2C_CCR, Truncated
<1>2. step \in Nat \ {0}
  BY DEF Periods
<1> HIDE DEF step
<1>3. q \in Nat /\ q * step <= p /\ p < (q + 1) * step
  BY <1>2, Quotient
<1> HIDE DEF q
<1>4. CASE q < 4096
  <2>1. ccr = q
    BY <1>3, <1>4
  <2> QED BY <1>1, <1>3, <1>4, <2>1 DEF step
<1>5. CASE q >= 4096
  <2>1. ccr + 1 <= q /\ ccr + 1 \in Int
    BY <1>3, <1>5
  <2>2. (ccr + 1) * step <= q * step
    BY <1>2, <1>3, <2>1, Times
  <2>3. (ccr + 1) * step \in Int /\ q * step \in Int
    BY <1>2, <1>3, <2>1
  <2>4. ~(p < (ccr + 1) * step)
    BY <1>3, <2>2, <2>3
  <2> QED BY <1>1, <1>5, <2>4 DEF step
<1> QED BY <1>3, <1>4, <1>5

\* At each of the frequencies TRISE is the rise time of the mode, where the
\* product of 32 bits does not overflow (I2C_init).
LEMMA TRISE ==
  ASSUME NEW p \in PclkValues, NEW speed \in Nat \ {0},
         speed <= I2C_CLK_SPEED_SM \/ p < 14316558
  PROVE  I2C_TRISE(p, speed) = (MaxRise(speed) * (p \div 1000)) \div 1000000 + 1
<1>1. CASE speed <= I2C_CLK_SPEED_SM
  <2>1. I2C_TRISE(p, speed) = ((p \div 1000000) + 1) % 64 /\ MaxRise(speed) = 1000
    BY <1>1 DEF I2C_TRISE, MaxRise
  <2>2. ((p \div 1000000) + 1) % 64 = (1000 * (p \div 1000)) \div 1000000 + 1
    BY DEF PclkValues
  <2> QED BY <2>1, <2>2
<1>2. CASE ~(speed <= I2C_CLK_SPEED_SM)
  <2>1. I2C_TRISE(p, speed) = ((((p * 3) % 42949673) \div 10000000) + 1) % 64 /\ MaxRise(speed) = 300
    BY <1>2 DEF I2C_TRISE, MaxRise, Times300
  <2>2. p < 14316558
    BY <1>2
  <2>3. ((((p * 3) % 42949673) \div 10000000) + 1) % 64 = (300 * (p \div 1000)) \div 1000000 + 1
    BY <2>2 DEF PclkValues
  <2> QED BY <2>1, <2>3
<1> QED BY <1>1, <1>2

\* The divider is within one step of the exact one exactly if the rounding of
\* its fraction does not carry (USART_init).
LEMMA BRRExact ==
  ASSUME NEW p \in Nat, NEW baud \in Nat \ {0}, NEW over8 \in BOOLEAN
  PROVE  LET error == Divider(USART_BRR(p, baud, over8), over8) * baud - p
         IN  (-baud < error /\ error < baud) <=> ~Carries(p, baud, over8)
<1> DEFINE os == Oversampling(over8)
           div == usartdiv(p, baud, over8)
           M == div \div 100
           f == div % 100
           F == (f * os + 50) \div 100
<1>1. os \in {8, 16}
  BY DEF Oversampling
<1>2. os * baud \in Nat \ {0} /\ 100 * p \in Nat
  BY <1>1
<1>3. div \in Nat /\ div * (os * baud) <= 100 * p /\ 100 * p < (div + 1) * (os * baud)
  BY <1>2, Quotient DEF usartdiv
<1>4. M \in Nat /\ f \in 0..99 /\ div = 100 * M + f
  <2> HIDE DEF div
  <2> QED BY <1>3
<1>5. F \in 0..os /\ 100 * F <= f * os + 50 /\ f * os + 50 <= 100 * F + 99
  <2> HIDE DEF f, os
  <2>1. CASE os = 8
    BY <1>4, <2>1
  <2>2. CASE os = 16
    BY <1>4, <2>2
  <2> QED BY <1>1, <2>1, <2>2
<1>6. Carries(p, baud, over8) <=> F = os
  BY DEF Carries
<1> DEFINE K == IF F = os THEN 0 ELSE F
<1>7. F_part(div, over8) = K
  <2>1. F_part(div, over8) = F % os
    BY DEF F_part
  <2> HIDE DEF F, os
  <2> QED BY <1>1, <1>5, <2>1
<1>8. Divider(USART_BRR(p, baud, over8), over8) = M * os + K
  <2>1. USART_BRR(p, baud, over8) = M * 16 + K
    BY <1>7 DEF USART_BRR
  <2> HIDE DEF M, F, os
  <2>2. (M * 16 + K) \div 16 = M /\ (M * 16 + K) % 16 = K
    BY <1>1, <1>4, <1>5
  <2> QED BY <2>1, <2>2 DEF Divider, os
<1> HIDE DEF os, div, M, f, F
<1> DEFINE D == M * os + F
<1>9. 100 * D <= div * os + 50 /\ div * os <= 100 * D + 49
  <2>1. CASE os = 8
    BY <1>4, <1>5, <2>1
  <2>2. CASE os = 16
    BY <1>4, <1>5, <2>2
  <2> QED BY <1>1, <2>1, <2>2
<1>10. D \in Nat /\ div * os \in Nat
  BY <1>1, <1>3, <1>4, <1>5
<1> HIDE DEF D
<1>11. /\ (100 * D) * baud <= (div * os + 50) * baud
       /\ (div * os) * baud <= (100 * D + 49) * baud
  <2>1. 100 * D \in Int /\ div * os + 50 \in Int /\ 100 * D + 49 \in Int
    BY <1>10
  <2> QED BY <1>9, <1>10, <2>1, Times
<1>12. 100 * (D * baud) <= 100 * p + 50 * baud
  <2> DEFINE y == div * os
  <2>1. y * baud = div * (os * baud) /\ y \in Nat
    BY <1>1, <1>3
  <2>2. (100 * D) * baud <= (y + 50) * baud
    BY <1>11
  <2> HIDE DEF y
  <2>3. (100 * D) * baud = 100 * (D * baud) /\ (y + 50) * baud = y * baud + 50 * baud
    BY <1>10, <2>1
  <2> QED BY <1>3, <1>10, <2>1, <2>2, <2>3
<1>13. 100 * p < 100 * (D * baud) + 49 * baud + 16 * baud
  <2> DEFINE y == div * os
  <2>1. y * baud = div * (os * baud) /\ y \in Nat
    BY <1>1, <1>3
  <2>2. y * baud <= (100 * D + 49) * baud
    BY <1>11
  <2>3. (div + 1) * (os * baud) = div * (os * baud) + os * baud /\ os * baud <= 16 * baud
    BY <1>1, <1>3
  <2> HIDE DEF y
  <2>4. (100 * D + 49) * baud = 100 * (D * baud) + 49 * baud
    BY <1>10
  <2> QED BY <1>1, <1>3, <1>10, <2>1, <2>2, <2>3, <2>4
<1>14. CASE F # os
  <2>1. M * os + K = D
    BY <1>14 DEF D
  <2> DEFINE z == D * baud
  <2>2. z \in Nat
    BY <1>10
  <2> HIDE DEF z
  <2>3. -baud < z - p /\ z - p < baud
    BY <1>12, <1>13, <2>2 DEF z
  <2> QED BY <1>6, <1>8, <1>14, <2>1, <2>3 DEF z
<1>15. CASE F = os
  <2>1. M * os + K = D - os /\ D - os >= 0
    BY <1>1, <1>4, <1>15 DEF D
  <2>2. (D - os) * baud = D * baud - os * baud /\ os * baud >= 8 * baud /\ os * baud \in Nat
    BY <1>1, <1>10
  <2> DEFINE z == D * baud
             w == os * baud
  <2>3. z \in Nat
    BY <1>10
  <2> HIDE DEF z, w
  <2>4. z - w - p <= -baud
    BY <1>12, <2>2, <2>3 DEF z, w
  <2>5. ~(-baud < (D - os) * baud - p)
    <3>1. (D - os) * baud - p = z - w - p
      BY <2>2 DEF z, w
    <3> HIDE DEF z, w
    <3>2. z - w - p \in Int
      BY <2>2, <2>3 DEF w
    <3> QED BY <2>4, <3>1, <3>2
  <2> QED BY <1>6, <1>8, <1>15, <2>1, <2>5
<1> QED BY <1>14, <1>15

-----------------------------------------------------------------------------
(* The rates.                                                              *)

\* What the registers hold was computed from a rate that the application asked
\* for and from the clock configuration, which no driver changes.
RatesInv ==
    /\ cfgr \in Clocks
    /\ \A x \in USARTs :
          \/ brr[x] = NoRate
          \/ \E b \in Bauds, o \in BOOLEAN :
                brr[x] = [rate |-> b, over8 |-> o, value |-> USART_BRR(USART_pclk(x), b, o)]
    /\ \A x \in I2Cs :
          \/ i2c[x] = NoRate
          \/ \E s \in Speeds, d \in {0, 1} :
                i2c[x] = [rate |-> s, duty |-> d,
                          ccr |-> I2C_CCR(RCC_get_pclk1(cfgr), s, d),
                          trise |-> I2C_TRISE(RCC_get_pclk1(cfgr), s)]
    /\ DOMAIN brr = USARTs /\ DOMAIN i2c = I2Cs

\* Only I2C_init, USART_init and a reset write the rates.
LEMMA RatesStep ==
  ASSUME RatesInv, [Next]_vars
  PROVE  RatesInv'
<1>1. CASE UNCHANGED <<cfgr, i2c, brr>>
  BY <1>1 DEF RatesInv, USART_pclk
<1>2. ASSUME NEW x \in Used, Deinit(x)
      PROVE  RatesInv'
  <2>1. UNCHANGED <<cfgr, brr>> /\ DOMAIN i2c' = I2Cs
        /\ \A y \in I2Cs : i2c'[y] = NoRate \/ i2c'[y] = i2c[y]
    BY <1>2 DEF Deinit
  <2> QED BY <2>1 DEF RatesInv, USART_pclk
<1>3. ASSUME NEW x \in Used \cap I2Cs, NEW s \in Speeds, NEW d \in {0, 1}, I2C_init(x, s, d)
      PROVE  RatesInv'
  <2>1. UNCHANGED <<cfgr, brr>> /\ DOMAIN i2c' = I2Cs
        /\ \A y \in I2Cs :
              \/ i2c'[y] = i2c[y]
              \/ i2c'[y] = [rate |-> s, duty |-> d,
                            ccr |-> I2C_CCR(RCC_get_pclk1(cfgr), s, d),
                            trise |-> I2C_TRISE(RCC_get_pclk1(cfgr), s)]
    BY <1>3 DEF I2C_init, RatesInv
  <2> QED BY <2>1 DEF RatesInv, USART_pclk
<1>4. ASSUME NEW x \in Used \cap USARTs, NEW b \in Bauds, NEW o \in BOOLEAN, USART_init(x, b, o)
      PROVE  RatesInv'
  <2>1. UNCHANGED <<cfgr, i2c>> /\ DOMAIN brr' = USARTs
        /\ \A y \in USARTs :
              \/ brr'[y] = brr[y]
              \/ brr'[y] = [rate |-> b, over8 |-> o, value |-> USART_BRR(USART_pclk(y), b, o)]
    BY <1>4 DEF USART_init, RatesInv
  <2> QED BY <2>1 DEF RatesInv, USART_pclk
<1>5. CASE Setup
  BY <1>1, <1>2, <1>3, <1>4, <1>5
     DEF Setup, ClockControl, SPI_init, PeriphControl, SPI_SSI_config, SPI_SSOE_config, SPI_Bit,
         periph
<1>6. CASE Interrupts
  <2>1. ASSUME NEW i, NEW e, IRQ_config(i, e)
        PROVE  UNCHANGED <<cfgr, i2c, brr>>
    BY <2>1 DEF IRQ_config, periph
  <2>2. ASSUME NEW i, NEW p, set_priority(i, p)
        PROVE  UNCHANGED <<cfgr, i2c, brr>>
    BY <2>2 DEF set_priority, periph
  <2> QED BY <1>1, <1>6, <2>1, <2>2
     DEF Interrupts, GPIO_IRQ_config, SPI_IRQ_config, I2C_IRQ_config, USART_IRQ_config,
         GPIO_set_priority, SPI_set_priority, I2C_set_priority, USART_set_priority
<1>7. CASE GPIO
  BY <1>1, <1>7 DEF GPIO, GPIO_init, LoadODR, StoreODR, GPIO_write_output_port, periph
<1>8. CASE Exti
  BY <1>1, <1>8 DEF Exti, Edge, EnterHandler, ToggleLED, GPIO_IRQ_handler, LoadPR, StorePR, periph
<1>9. CASE UNCHANGED vars
  BY <1>1, <1>9 DEF vars, periph
<1> QED BY <1>5, <1>6, <1>7, <1>8, <1>9 DEF Next

\* Rates that were computed as RatesInv says are as asked.
LEMMA RatesComputed ==
  ASSUME RatesFit, RatesInv
  PROVE  RatesAsAsked
<1>1. cfgr \in Clocks /\ cfgr \in ClockConfigs
  BY BoardAssumption DEF RatesInv
<1>2. RCC_get_pclk1(cfgr) \in PclkValues /\ RCC_get_pclk2(cfgr) \in PclkValues
  <2>1. cfgr.PPRE1 \in 0..7 /\ cfgr.PPRE2 \in 0..7
    BY <1>1 DEF ClockConfigs
  <2> QED BY <1>1, <2>1, PclkRange DEF RCC_get_pclk1, RCC_get_pclk2
<1>3. PclkValues \subseteq Nat
  BY DEF PclkValues
<1>4. ASSUME NEW x \in USARTs, brr[x] # NoRate
      PROVE  LET error == Divider(brr[x].value, brr[x].over8) * brr[x].rate - USART_pclk(x)
             IN  -brr[x].rate < error /\ error < brr[x].rate
  <2>1. PICK b \in Bauds, o \in BOOLEAN :
           brr[x] = [rate |-> b, over8 |-> o, value |-> USART_BRR(USART_pclk(x), b, o)]
    BY <1>4 DEF RatesInv
  <2>2. USART_pclk(x) \in {RCC_get_pclk1(cfgr), RCC_get_pclk2(cfgr)}
    BY DEF USART_pclk
  <2>3. b \in Nat \ {0} /\ ~Carries(USART_pclk(x), b, o)
    BY <1>1, <2>2 DEF RatesFit
  <2>4. USART_pclk(x) \in Nat
    BY <1>2, <1>3, <2>2
  <2>5. LET error == Divider(USART_BRR(USART_pclk(x), b, o), o) * b - USART_pclk(x)
        IN  -b < error /\ error < b
    BY <2>3, <2>4, BRRExact
  <2> QED BY <2>1, <2>5
<1>5. ASSUME NEW x \in I2Cs, i2c[x] # NoRate
      PROVE  LET r == i2c[x]
                 p == RCC_get_pclk1(cfgr)
                 step == Periods(r.rate, r.duty) * r.rate
             IN  /\ r.ccr * step <= p /\ p < (r.ccr + 1) * step
                 /\ r.rate <= I2C_CLK_SPEED_SM \/ p < 14316558 =>
                       r.trise = (MaxRise(r.rate) * (p \div 1000)) \div 1000000 + 1
  <2>1. PICK s \in Speeds, d \in {0, 1} :
           i2c[x] = [rate |-> s, duty |-> d,
                     ccr |-> I2C_CCR(RCC_get_pclk1(cfgr), s, d),
                     trise |-> I2C_TRISE(RCC_get_pclk1(cfgr), s)]
    BY <1>5 DEF RatesInv
  <2>2. s \in Nat \ {0} /\ ~Truncated(RCC_get_pclk1(cfgr), s, d)
    BY <1>1 DEF RatesFit
  <2>3. LET step == Periods(s, d) * s
            ccr == I2C_CCR(RCC_get_pclk1(cfgr), s, d)
        IN  ccr * step <= RCC_get_pclk1(cfgr) /\ RCC_get_pclk1(cfgr) < (ccr + 1) * step
    BY <1>2, <1>3, <2>2, CCRExact
  <2>4. s <= I2C_CLK_SPEED_SM \/ RCC_get_pclk1(cfgr) < 14316558 =>
          I2C_TRISE(RCC_get_pclk1(cfgr), s)
            = (MaxRise(s) * (RCC_get_pclk1(cfgr) \div 1000)) \div 1000000 + 1
    BY <1>2, <2>2, TRISE
  <2> QED BY <2>1, <2>3, <2>4
<1> QED BY <1>4, <1>5 DEF RatesAsAsked

-----------------------------------------------------------------------------
(* The theorems.                                                           *)

LEMMA NextInvariant ==
  ASSUME IInv, [Next]_vars
  PROVE  IInv'
<1> USE DEF IInv
<1>1. CASE Setup
  <2>1. ASSUME NEW x \in Used, NEW e \in BOOLEAN, ClockControl(x, e)
        PROVE  IInv'
    BY <2>1, ClockControlStep
  <2>2. ASSUME NEW x \in Used, Deinit(x)
        PROVE  IInv'
    BY <2>2, DeinitStep
  <2>3. ASSUME NEW x \in Used \cap SPIs, NEW bits, NEW b, SPI_init(x, bits, b)
        PROVE  IInv'
    BY <2>3, SerialInitStep DEF SPI_init, SPI_clock_control, Call, Running, nvic
  <2>4. ASSUME NEW x \in Used \cap I2Cs, NEW s, NEW d, I2C_init(x, s, d)
        PROVE  IInv'
    BY <2>4, SerialInitStep DEF I2C_init, I2C_clock_control, Call, Running, nvic
  <2>5. ASSUME NEW x, NEW b, NEW o, USART_init(x, b, o)
        PROVE  IInv'
    BY <2>5, StutterStep DEF USART_init, Types, rcc
  <2>6. ASSUME NEW x \in Used \ GPIOs, NEW e \in BOOLEAN, NEW a \in BOOLEAN, PeriphControl(x, e, a)
        PROVE  IInv'
    BY <2>6, PeriphControlStep
  <2>7. ASSUME NEW x, NEW bit, NEW e, SPI_Bit(x, bit, e)
        PROVE  IInv'
    BY <2>7, StutterStep DEF SPI_Bit, Types, rcc
  <2> QED BY <1>1, <2>1, <2>2, <2>3, <2>4, <2>5, <2>6, <2>7
        DEF Setup, SPI_SSI_config, SPI_SSOE_config
<1>2. CASE Interrupts
  <2>1. ASSUME NEW i, NEW p, set_priority(i, p)
        PROVE  IInv'
    BY <2>1, StutterStep DEF set_priority, Types, rcc, periph
  <2> QED BY <1>2, <2>1, IRQConfigStep
       DEF Interrupts, GPIO_IRQ_config, SPI_IRQ_config, I2C_IRQ_config, USART_IRQ_config,
         GPIO_set_priority, SPI_set_priority, I2C_set_priority, USART_set_priority
<1>3. CASE GPIO
  BY <1>3, GPIOInitStep, LoadODRStep, StoreODRStep, WritePortStep DEF GPIO
<1>4. CASE Exti
  <2>1. ASSUME NEW p \in Pins, NEW e, Edge(p, e)
        PROVE  IInv'
    <3>1. p[2] \in Lines
      BY DEF Pins
    <3> QED BY <2>1, <3>1, StutterStep DEF Edge, Types, rcc, periph
  <2>2. ASSUME NEW n, EnterHandler(n)
        PROVE  IInv'
    BY <2>2, StutterStep DEF EnterHandler, Types, rcc, periph
  <2>3. CASE LoadPR
    BY <2>3, StutterStep DEF LoadPR, Types, rcc, periph
  <2>4. CASE StorePR
    BY <2>4, StutterStep DEF StorePR, Types, rcc, periph
  <2> QED BY <1>4, <2>1, <2>2, <2>3, <2>4, ToggleLEDStep DEF Exti, GPIO_IRQ_handler
<1>5. CASE UNCHANGED vars
  BY <1>5, StutterStep DEF vars, Types, rcc, periph
<1> QED BY <1>1, <1>2, <1>3, <1>4, <1>5 DEF Next

\* The inductive invariant holds after any number of calls, whichever of the
\* peripherals, lines and interrupts they are about.
THEOREM Invariance == Spec => []IInv
<1>1. Init => IInv
  BY InitInvariant
<1>2. IInv /\ [Next]_vars => IInv'
  BY NextInvariant
<1> QED BY <1>1, <1>2, PTL DEF Spec

\* Whatever the order of the calls of the clock_control, init and deinit
\* functions, a peripheral has its clock exactly if the last call about it
\* asked for it, except that no USART and not GPIOG ever gets one; and exactly
\* the deinits of SPI2, SPI4, USART1 and USART6 leave a peripheral in reset.
THEOREM ReadyForUseHolds == Spec => []ReadyForUse
<1>1. IInv => ReadyForUse
  BY DEF IInv, ClockInv
<1> QED BY <1>1, Invariance, PTL

\* GPIO_init routes a line to its pin's port and selects the edges, however
\* many lines and pins are set up in whatever order, but for the two cases
\* that LineRouted excepts.
THEOREM LineRoutedHolds == Spec => []LineRouted
<1>1. IInv => LineRouted
  <2> SUFFICES ASSUME IInv, NEW n \in Lines, asked.edges[n] # "none",
                      NEW port \in GPIOs, asked.ports[n] = {port}, "SPI2" \notin asked.resets
               PROVE  exticr[n] = Bits(GPIO_BASEADDR_TO_CODE[port])
    BY DEF IInv, LineInv, EdgesSelected, LineRouted
  <2>1. exticr[n] = UNION {Bits(GPIO_BASEADDR_TO_CODE[q]) : q \in {port}}
    BY DEF IInv, LineInv, Routed
  <2> QED BY <2>1
<1> QED BY <1>1, Invariance, PTL

\* Wherever a handler's toggle of its LED interrupts the read-modify-writes of
\* ODR, every other pin has the value last written to it; the toggle itself is
\* lost if it comes between a load and a store of the same port, and the LED
\* is right again from the next write that does not depend on its value.
THEOREM PinsAsWrittenHolds == Spec => []PinsAsWritten
<1>1. IInv => PinsAsWritten
  BY DEF IInv, PinInv, Stored, PinsAsWritten
<1> QED BY <1>1, Invariance, PTL

\* I2C_init and USART_init leave in CCR, TRISE and BRR what the rate asked for
\* needs at the clock that the bus has, for every clock configuration and
\* every rate whose CCR fits its field and whose fraction does not carry: by
\* CCRExact and BRRExact no other rate comes out right.
THEOREM RatesAsAskedHolds ==
  ASSUME RatesFit
  PROVE  Spec => []RatesAsAsked
<1>1. Init => RatesInv
  BY DEF Init, RatesInv
<1>2. RatesInv /\ [Next]_vars => RatesInv'
  BY RatesStep
<1>3. RatesInv => RatesAsAsked
  BY RatesComputed
<1> QED BY <1>1, <1>2, <1>3, PTL DEF Spec
=============================================================================
