--------------------------------- MODULE MCSPI ---------------------------------
(* SPI for TLC.  The constants are given in the .cfg files. *)
EXTENDS SPI
==============================================================================
