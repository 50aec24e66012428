------------------------------- MODULE Transfer -------------------------------
(***************************************************************************)
(* What an interrupt-driven transfer in one direction promises its caller: *)
(* a transfer is accepted only when none is in progress, moves its bytes   *)
(* one frame at a time, and is over when they have all been moved, no      *)
(* earlier and no later.                                                   *)
(*                                                                         *)
(* Each direction of SPI and of USART implements this module.              *)
(***************************************************************************)
EXTENDS Integers

CONSTANTS Lengths,  \* the numbers of bytes a transfer may be asked for
          Unit,     \* the bytes of a frame; each length is a multiple of it
          Last      \* what is left when a transfer ends: Unit if the last frame
                    \* ends it, 0 if it ends some time after that frame

VARIABLES busy,  \* a transfer is in progress
          moved, \* bytes it has moved; 0 when there is none
          left   \* bytes it has still to move; 0 when there is none

vars == <<busy, moved, left>>

Idle == ~busy /\ moved = 0 /\ left = 0

Init == Idle

Accept(n) ==
    /\ busy' = TRUE
    /\ moved' = 0
    /\ left' = n

Start == Idle /\ \E n \in Lengths : Accept(n)

Move ==
    /\ busy
    /\ left > Last
    /\ moved' = moved + Unit
    /\ left' = left - Unit
    /\ UNCHANGED busy

\* The last frame, or its confirmation: the caller is told, and may ask for another transfer at once.
Finish ==
    /\ busy
    /\ left = Last
    /\ \/ busy' = FALSE /\ moved' = 0 /\ left' = 0
       \/ \E n \in Lengths : Accept(n)

Next == Start \/ Move \/ Finish

Spec == Init /\ [][Next]_vars
==============================================================================
