-------------------------------- MODULE MCUSART --------------------------------
(* USART for TLC.  The constants are given in the .cfg files. *)
EXTENDS USART
==============================================================================
