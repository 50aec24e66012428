------------------------------- MODULE MCBoard -------------------------------
(* Board for TLC. *)
EXTENDS Board

\* The reset value of CFGR, and the external oscillator, divided on both buses.
MCClocks ==
    {[SWS |-> 0, HPRE |-> 0, PPRE1 |-> 0, PPRE2 |-> 0],
     [SWS |-> 1, HPRE |-> 8, PPRE1 |-> 4, PPRE2 |-> 5]}

\* The rates of the configuration are among those the arithmetic can compute.
ASSUME MCRatesFit == RatesFit

MCLED == <<"GPIOB", 5>>
==============================================================================
