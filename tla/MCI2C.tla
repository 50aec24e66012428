---------------------------------- MODULE MCI2C ----------------------------------
(* I2C for TLC.  The constants are given in the .cfg files. *)
EXTENDS I2C
==============================================================================
