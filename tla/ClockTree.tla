------------------------------ MODULE ClockTree ------------------------------
(***************************************************************************)
(* The arithmetic of drivers/rcc.c, of I2C_init and of USART_init: from    *)
(* the fields of RCC->CFGR to the frequencies of the two peripheral buses, *)
(* and from those to the registers that set the speed of a bus or a line.  *)
(***************************************************************************)
EXTENDS Integers, Sequences

\* A clock configuration: the fields SWS, HPRE, PPRE1 and PPRE2 of CFGR.
ClockConfigs == [SWS : 0..3, HPRE : 0..15, PPRE1 : 0..7, PPRE2 : 0..7]

possible_pscals == <<2, 4, 8, 16, 64, 128, 256, 512>>

system_clk(cfgr) == IF cfgr.SWS = 1 THEN 8000000 ELSE 16000000

\* A field below n does not divide.
Prescaler(field, n) == IF field < n THEN 1 ELSE possible_pscals[field - n + 1]

Pclk(cfgr, PPRE) == (system_clk(cfgr) \div Prescaler(cfgr.HPRE, 8)) \div Prescaler(PPRE, 4)

RCC_get_pclk1(cfgr) == Pclk(cfgr, cfgr.PPRE1)
RCC_get_pclk2(cfgr) == Pclk(cfgr, cfgr.PPRE2)

-----------------------------------------------------------------------------
(* I2C_init.                                                               *)

I2C_CLK_SPEED_SM == 100000

\* How many times CCR one period of SCL takes, in periods of PCLK1.
Periods(speed, duty) ==
    IF speed <= I2C_CLK_SPEED_SM THEN 2 ELSE IF duty = 1 THEN 25 ELSE 3

I2C_CCR(pclk, speed, duty) == (pclk \div (Periods(speed, duty) * speed)) % 2^12

\* The quotient has more than the twelve bits of CCR.
Truncated(pclk, speed, duty) == pclk \div (Periods(speed, duty) * speed) >= 2^12

\* PCLK1_freq_hz * 300 is a product of 32 bits; it is computed here in units
\* of a hundred.
Times300(pclk) == (pclk * 3) % 42949673

\* The rise time of the mode in periods of PCLK1, and one.
I2C_TRISE(pclk, speed) ==
    ((IF speed <= I2C_CLK_SPEED_SM
      THEN pclk \div 1000000
      ELSE Times300(pclk) \div 10000000) + 1) % 64

-----------------------------------------------------------------------------
(* USART_init.                                                             *)

Oversampling(over8) == IF over8 THEN 8 ELSE 16

\* A hundred times USARTDIV.
usartdiv(pclk, baud, over8) == (100 * pclk) \div (Oversampling(over8) * baud)

\* The fraction is taken as it is, in hundredths.
F_part_Hundredths(div, over8) == (div % 100) % Oversampling(over8)

\* The fraction in eighths or sixteenths, rounded; a carry is masked out.
F_part(div, over8) == (((div % 100) * Oversampling(over8) + 50) \div 100) % Oversampling(over8)

\* The fraction is rounded up to a whole.
Carries(pclk, baud, over8) ==
    ((usartdiv(pclk, baud, over8) % 100) * Oversampling(over8) + 50) \div 100
        = Oversampling(over8)

\* The mantissa in the bits above the four of the fraction.
USART_BRR(pclk, baud, over8) ==
    LET div == usartdiv(pclk, baud, over8)
    IN  (div \div 100) * 16 + F_part(div, over8)

\* The divider that the USART makes of BRR, times its oversampling.
Divider(brr, over8) == (brr \div 16) * Oversampling(over8) + (brr % 16)
==============================================================================
