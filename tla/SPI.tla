---------------------------------- MODULE SPI ----------------------------------
(***************************************************************************)
(* The transfers of drivers/SPI_driver.c: the thread that calls the        *)
(* blocking and the interrupt-driven functions, SPI_IRQ_handler, and the   *)
(* peripheral, which moves frames while both of them run.                  *)
(*                                                                         *)
(* The thread is interrupted between any two statements; the handler is    *)
(* not, but the peripheral changes SR between two of its reads of SR.  A   *)
(* frame is abstracted to its place in the caller's buffer.  The IRQ is    *)
(* enabled in the NVIC and the peripheral by SPE.                          *)
(*                                                                         *)
(* The handler takes the bits TXEIE, RXNEIE and ERRIE, 7, 6 and 5 of CR2,  *)
(* from SR, where bits 7, 6 and 5 are BSY, OVR and MODF.  It therefore     *)
(* serves a direction nobody has started, through a null pointer.  The     *)
(* addresses after NULL are one value here, NULL.                          *)
(***************************************************************************)
EXTENDS Integers

CONSTANTS Master,     \* SPI_device_mode is SPI_DEVICE_MODE_MASTER
          Unit,       \* bytes of a frame: 1, or 2 if DFF is set
          Lengths,    \* the values of len in the application's calls
          LenMod,     \* number of values of a length (2^32 in the code)
          Uses,       \* the directions in which it starts interrupt-driven
                      \* transfers; blocking calls it makes in both
          ModeFaults  \* another master may pull NSS low

ASSUME SPIAssumption ==
    /\ Master \in BOOLEAN /\ ModeFaults \in BOOLEAN
    /\ Uses \subseteq {"tx", "rx"}
    /\ Unit \in {1, 2}
    /\ LenMod \in Nat /\ LenMod > Unit
    /\ Lengths \subseteq 0 .. LenMod-1

VARIABLES
    state,   \* Tx_state and Rx_state of the handle
    buffer,  \* p_Tx_buffer and p_Rx_buffer: offset in the caller's buffer
    len,     \* Tx_len and Rx_len
    cr2,     \* TXEIE and RXNEIE
    txe,     \* SR.TXE: the transmit buffer is empty
    rxne,    \* SR.RXNE: the receive buffer holds a frame
    bsy,     \* SR.BSY: a frame is on the wire
    ovr,     \* SR.OVR: a frame came in while the receive buffer was full
    armed,   \* DR has been read since OVR was set: the next read of SR clears it
    modf,    \* SR.MODF; the peripheral has cleared SPE
    isr,     \* the read of SR that SPI_IRQ_handler makes next, or "none"
    temp1,   \* SPI_IRQ_handler's temp1
    pc,      \* where the thread is
    dir,     \* the direction of the thread's call
    arg,     \* its len
    cr2_reg, \* the register in which it modifies CR2
    asked,   \* for the directions in Uses, the len of the last transfer
    due      \* and the transfers accepted less the completions reported

handle == <<state, buffer, len>>
flags == <<txe, rxne, bsy, ovr, armed, modf>>
handler == <<isr, temp1>>
thread == <<pc, dir, arg, cr2_reg>>
history == <<asked, due>>
vars == <<handle, cr2, flags, handler, thread, history>>

Dirs == {"tx", "rx"}
READY == "READY"
BUSY == "BUSY"
NULL == -1

IsrLabels == {"none", "TXE", "TXEIE", "RXNE", "RXNEIE", "OVR", "ERRIE"}
Starting == {"buffer", "len", "state", "read_cr2", "write_cr2"}
Polling == {"send_poll", "send_write", "recieve_poll", "recieve_read"}

\* A length declared as a signed integer.
Less_Signed(n) == n - Unit

\* A length less one frame, as unsigned arithmetic computes it.
Less(n) == IF n >= Unit THEN n - Unit ELSE n - Unit + LenMod

\* A pointer after a frame has been read or written there.
Advance(p) == IF p = NULL THEN NULL ELSE p + Unit

-----------------------------------------------------------------------------
(* The peripheral.                                                         *)

\* A frame goes on the wire: a master's when it has one to send, a slave's
\* when the master at the other end clocks it.
StartFrame ==
    /\ ~bsy /\ ~modf
    /\ Master => ~txe
    /\ bsy' = TRUE
    /\ txe' = TRUE
    /\ UNCHANGED <<handle, cr2, rxne, ovr, armed, modf, handler, thread, history>>

\* The frame is over and the one that came in with it is received or lost.  A
\* master with another frame to send goes on without clearing BSY.
EndFrame ==
    /\ bsy
    /\ rxne' = TRUE
    /\ ovr' = (ovr \/ rxne)
    /\ bsy' = (Master /\ ~txe)
    /\ txe' = (txe \/ Master)
    /\ UNCHANGED <<handle, cr2, armed, modf, handler, thread, history>>

\* NSS is pulled low: the peripheral disables itself.
ModeFault ==
    /\ Master /\ ModeFaults /\ ~modf
    /\ modf' = TRUE
    /\ bsy' = FALSE
    /\ UNCHANGED <<handle, cr2, txe, rxne, ovr, armed, handler, thread, history>>

\* A read of SR, the second half of the sequence that clears OVR.
ReadSR ==
    /\ ovr' = (ovr /\ ~armed)
    /\ armed' = FALSE

Peripheral == StartFrame \/ EndFrame \/ ModeFault

-----------------------------------------------------------------------------
(* SPI_IRQ_handler.                                                        *)

\* The interrupt line of the peripheral.  ERRIE is never set.
Requested == (cr2["tx"] /\ txe) \/ (cr2["rx"] /\ rxne)

EnterHandler ==
    /\ isr = "none" /\ Requested
    /\ isr' = "TXE"
    /\ UNCHANGED <<handle, cr2, flags, temp1, thread, history>>

\* temp1 is read from one bit of SR; the bit of temp2 is read from SR next.
ReadTemp1(at, to, flag) ==
    /\ isr = at
    /\ isr' = to
    /\ temp1' = flag
    /\ ReadSR
    /\ UNCHANGED <<handle, cr2, txe, rxne, bsy, modf, thread, history>>

\* SPI_close_transmission and SPI_close_reception.
Close(d) ==
    /\ state' = [state EXCEPT ![d] = READY]
    /\ buffer' = [buffer EXCEPT ![d] = NULL]
    /\ len' = [len EXCEPT ![d] = 0]
    /\ cr2' = [cr2 EXCEPT ![d] = FALSE]

\* The callback made before the channel is closed: the channel is still busy
\* and refuses the next transfer, or frees it without having moved a byte.
CloseAndReport_CallbackFirst(d) ==
    /\ Close(d)
    /\ \E restarted \in {0, 1} : due' = [due EXCEPT ![d] = @ - 1 + restarted]
    /\ UNCHANGED asked

\* A close that leaves the interrupt enabled.
CloseAndReport_StillEnabled(d) ==
    /\ state' = [state EXCEPT ![d] = READY]
    /\ buffer' = [buffer EXCEPT ![d] = NULL]
    /\ len' = [len EXCEPT ![d] = 0]
    /\ due' = IF d \in Uses THEN [due EXCEPT ![d] = @ - 1] ELSE due
    /\ UNCHANGED <<cr2, asked>>

\* The channel is closed, then SPI_event_callback reports the completion; in
\* it the application may start its next transfer in this direction.
CloseAndReport(d) ==
    \/ /\ Close(d)
       /\ due' = IF d \in Uses THEN [due EXCEPT ![d] = @ - 1] ELSE due
       /\ UNCHANGED asked
    \/ \E n \in Lengths :
       /\ d \in Uses
       /\ state' = [state EXCEPT ![d] = BUSY]
       /\ buffer' = [buffer EXCEPT ![d] = 0]
       /\ len' = [len EXCEPT ![d] = n]
       /\ cr2' = [cr2 EXCEPT ![d] = TRUE]
       /\ asked' = [asked EXCEPT ![d] = n]
       /\ UNCHANGED due

\* The length counted down by bytes, the pointer moved on by frames.
FrameMoved_CountBytes(d) ==
    IF len[d] = 1 THEN CloseAndReport(d)
    ELSE /\ len' = [len EXCEPT ![d] = IF @ = 0 THEN LenMod-1 ELSE @ - 1]
         /\ buffer' = [buffer EXCEPT ![d] = Advance(@)]
         /\ UNCHANGED <<state, cr2, history>>

\* The bookkeeping of SPI_TXEIE_Handle and SPI_RXNEIE_Handle.
FrameMoved(d) ==
    IF Less(len[d]) = 0 THEN CloseAndReport(d)
    ELSE /\ len' = [len EXCEPT ![d] = Less(@)]
         /\ buffer' = [buffer EXCEPT ![d] = Advance(@)]
         /\ UNCHANGED <<state, cr2, history>>

\* temp2 comes from SR bit 7, BSY, because TXEIE is bit 7 of CR2.
SPI_TXEIE_Handle ==
    /\ isr = "TXEIE" /\ temp1 /\ bsy
    /\ isr' = "RXNE"
    /\ ReadSR
    /\ txe' = FALSE
    /\ FrameMoved("tx")
    /\ UNCHANGED <<rxne, bsy, modf, temp1, thread>>

SkipTx ==
    /\ isr = "TXEIE" /\ ~(temp1 /\ bsy)
    /\ isr' = "RXNE"
    /\ ReadSR
    /\ UNCHANGED <<handle, cr2, txe, rxne, bsy, modf, temp1, thread, history>>

\* temp2 comes from SR bit 6, OVR, because RXNEIE is bit 6 of CR2.
SPI_RXNEIE_Handle ==
    /\ isr = "RXNEIE" /\ temp1 /\ ovr
    /\ isr' = "OVR"
    /\ ovr' = (ovr /\ ~armed)
    /\ armed' = ovr'
    /\ rxne' = FALSE
    /\ FrameMoved("rx")
    /\ UNCHANGED <<txe, bsy, modf, temp1, thread>>

SkipRx ==
    /\ isr = "RXNEIE" /\ ~(temp1 /\ ovr)
    /\ isr' = "OVR"
    /\ ReadSR
    /\ UNCHANGED <<handle, cr2, txe, rxne, bsy, modf, temp1, thread, history>>

\* temp2 comes from SR bit 5, MODF.  SPI_clear_OVR_flag reads DR, whose frame
\* is lost, then SR.
SPI_OVR_Handle ==
    /\ isr = "ERRIE" /\ temp1 /\ modf
    /\ isr' = "none"
    /\ IF state["tx"] # BUSY
       THEN rxne' = FALSE /\ ovr' = FALSE /\ armed' = FALSE
       ELSE ReadSR /\ UNCHANGED rxne
    /\ temp1' = FALSE
    /\ UNCHANGED <<handle, cr2, txe, bsy, modf, thread, history>>

SkipOvr ==
    /\ isr = "ERRIE" /\ ~(temp1 /\ modf)
    /\ isr' = "none"
    /\ temp1' = FALSE
    /\ ReadSR
    /\ UNCHANGED <<handle, cr2, txe, rxne, bsy, modf, thread, history>>

SPI_IRQ_handler ==
    \/ EnterHandler
    \/ ReadTemp1("TXE", "TXEIE", txe)
    \/ SPI_TXEIE_Handle
    \/ SkipTx
    \/ ReadTemp1("RXNE", "RXNEIE", rxne)
    \/ SPI_RXNEIE_Handle
    \/ SkipRx
    \/ ReadTemp1("OVR", "ERRIE", ovr)
    \/ SPI_OVR_Handle
    \/ SkipOvr

-----------------------------------------------------------------------------
(* The thread.  It runs when no interrupt is requested or being handled.   *)

At(from, to) ==
    /\ isr = "none" /\ ~Requested
    /\ pc = from
    /\ pc' = to

Returned == arg' = 0 /\ dir' = "tx"

\* SPI_send_IT without its test of Tx_state.
Call_IT_Unchecked(d, n) ==
    /\ At("app", "buffer")
    /\ dir' = d
    /\ arg' = n
    /\ UNCHANGED <<handle, cr2, flags, handler, cr2_reg, history>>

\* SPI_send_IT and SPI_recieve_IT return at once from a busy channel.
Call_IT(d, n) ==
    /\ state[d] # BUSY
    /\ At("app", "buffer")
    /\ dir' = d
    /\ arg' = n
    /\ UNCHANGED <<handle, cr2, flags, handler, cr2_reg, history>>

SetBuffer ==
    /\ At("buffer", "len")
    /\ buffer' = [buffer EXCEPT ![dir] = 0]
    /\ UNCHANGED <<state, len, cr2, flags, handler, dir, arg, cr2_reg, history>>

SetLen ==
    /\ At("len", "state")
    /\ len' = [len EXCEPT ![dir] = arg]
    /\ UNCHANGED <<state, buffer, cr2, flags, handler, dir, arg, cr2_reg, history>>

SetState ==
    /\ At("state", "read_cr2")
    /\ state' = [state EXCEPT ![dir] = BUSY]
    /\ asked' = [asked EXCEPT ![dir] = arg]
    /\ due' = [due EXCEPT ![dir] = @ + 1]
    /\ UNCHANGED <<buffer, len, cr2, flags, handler, dir, arg, cr2_reg>>

\* CR2 |= ... is a load, an or, and a store.
ReadCR2 ==
    /\ At("read_cr2", "write_cr2")
    /\ cr2_reg' = [cr2 EXCEPT ![dir] = TRUE]
    /\ UNCHANGED <<handle, cr2, flags, handler, dir, arg, history>>

WriteCR2 ==
    /\ At("write_cr2", "app")
    /\ cr2' = cr2_reg
    /\ cr2_reg' = [d \in Dirs |-> FALSE]
    /\ Returned
    /\ UNCHANGED <<handle, flags, handler, history>>

\* SPI_send and SPI_recieve do not look at the handle: that no transfer is in
\* progress in this direction is left to the application.
CallBlocking(d, n) ==
    /\ state[d] = READY
    /\ n > 0
    /\ At("app", IF d = "tx" THEN "send_poll" ELSE "recieve_poll")
    /\ dir' = d
    /\ arg' = n
    /\ UNCHANGED <<handle, cr2, flags, handler, cr2_reg, history>>

\* One SPI_get_flag_status of the wait for TXE or RXNE.
Poll(from, to, flag) ==
    /\ At(from, IF flag THEN to ELSE from)
    /\ ReadSR
    /\ UNCHANGED <<handle, cr2, txe, rxne, bsy, modf, handler, dir, arg, cr2_reg,
                   history>>

\* The loop without its len--.
NextFrame_NoCount(poll, from) ==
    /\ At(from, poll)
    /\ UNCHANGED <<handle, cr2, bsy, modf, handler, dir, arg, cr2_reg, history>>

\* The loop of SPI_send and SPI_recieve after a frame.
NextFrame(poll, from) ==
    /\ At(from, IF Less(arg) = 0 THEN "app" ELSE poll)
    /\ IF Less(arg) = 0 THEN Returned ELSE arg' = Less(arg) /\ UNCHANGED dir
    /\ UNCHANGED <<handle, cr2, bsy, modf, handler, cr2_reg, history>>

WriteDR ==
    /\ NextFrame("send_poll", "send_write")
    /\ txe' = FALSE
    /\ UNCHANGED <<rxne, ovr, armed>>

ReadDR ==
    /\ NextFrame("recieve_poll", "recieve_read")
    /\ rxne' = FALSE
    /\ armed' = ovr
    /\ UNCHANGED <<txe, ovr>>

SPI_send == Poll("send_poll", "send_write", txe) \/ WriteDR

SPI_recieve == Poll("recieve_poll", "recieve_read", rxne) \/ ReadDR

Start_IT == SetBuffer \/ SetLen \/ SetState \/ ReadCR2 \/ WriteCR2

Application ==
    \E n \in Lengths :
        \/ \E d \in Uses : Call_IT(d, n)
        \/ \E d \in Dirs : CallBlocking(d, n)

-----------------------------------------------------------------------------
Init ==
    /\ state = [d \in Dirs |-> READY]
    /\ buffer = [d \in Dirs |-> NULL]
    /\ len = [d \in Dirs |-> 0]
    /\ cr2 = [d \in Dirs |-> FALSE]
    /\ txe = TRUE
    /\ rxne = FALSE /\ bsy = FALSE /\ ovr = FALSE /\ armed = FALSE /\ modf = FALSE
    /\ isr = "none"
    /\ temp1 = FALSE
    /\ pc = "app"
    /\ dir = "tx"
    /\ arg = 0
    /\ cr2_reg = [d \in Dirs |-> FALSE]
    /\ asked = [d \in Dirs |-> 0]
    /\ due = [d \in Dirs |-> 0]

Next == Peripheral \/ SPI_IRQ_handler \/ Application \/ Start_IT \/ SPI_send \/ SPI_recieve

Spec == Init /\ [][Next]_vars

\* Frames on the wire end; a master sends what it has and, for a slave, the
\* master at the other end goes on clocking; the processor goes on.  The
\* application need not make another call.
Fairness ==
    /\ WF_vars(StartFrame)
    /\ WF_vars(EndFrame)
    /\ WF_vars(SPI_IRQ_handler)
    /\ WF_vars(Start_IT \/ SPI_send \/ SPI_recieve)

FairSpec == Spec /\ Fairness

-----------------------------------------------------------------------------
(* Properties.                                                             *)

\* Type correctness of the handle, the flags and the program counters.
TypeOK ==
    /\ state \in [Dirs -> {READY, BUSY}]
    /\ buffer \in [Dirs -> NULL .. LenMod-1]
    /\ len \in [Dirs -> 0 .. LenMod-1]
    /\ cr2 \in [Dirs -> BOOLEAN]
    /\ txe \in BOOLEAN /\ rxne \in BOOLEAN /\ bsy \in BOOLEAN
    /\ ovr \in BOOLEAN /\ armed \in BOOLEAN /\ modf \in BOOLEAN
    /\ temp1 \in BOOLEAN
    /\ isr \in IsrLabels
    /\ pc \in {"app"} \cup Starting \cup Polling
    /\ dir \in Dirs
    /\ arg \in 0 .. LenMod-1
    /\ cr2_reg \in [Dirs -> BOOLEAN]
    /\ asked \in [Dirs -> 0 .. LenMod-1]
    /\ due \in [Dirs -> {0, 1}]

\* The handler stays inside the caller's buffer: while a transfer is in
\* progress at least one frame is left, and what has been moved and what is
\* left make up what was asked for.
WithinBuffer ==
    \A d \in Uses : state[d] = BUSY =>
        /\ len[d] >= Unit
        /\ buffer[d] >= 0
        /\ buffer[d] + len[d] = asked[d]

\* Every accepted transfer is reported complete once, when its channel becomes
\* free, also when the callback starts the next one.
ReportedOnce == \A d \in Uses : due[d] = (IF state[d] = BUSY THEN 1 ELSE 0)

\* The interrupt of a direction is enabled exactly while a transfer is in
\* progress: a finished one leaves no interrupt to move frames through a null
\* pointer, and a running one has the interrupt that will move its frames.
EnabledWhileBusy ==
    \A d \in Uses :
        cr2[d] <=> state[d] = BUSY /\ ~(pc \in {"read_cr2", "write_cr2"} /\ dir = d)

\* A call of SPI_send_IT or SPI_recieve_IT in progress: the channel is the
\* caller's alone, and no interrupt comes until CR2 is written.
StartInProgress ==
    pc \in Starting =>
        /\ isr = "none"
        /\ dir \in Uses
        /\ arg \in Lengths
        /\ \A d \in Dirs : ~cr2[d]
        /\ state[dir] = IF pc \in {"read_cr2", "write_cr2"} THEN BUSY ELSE READY
        /\ pc \in {"len", "state"} => buffer[dir] = 0
        /\ pc = "state" => len[dir] = arg
        /\ pc = "write_cr2" => cr2_reg = [d \in Dirs |-> d = dir]

\* The handler reaches the direction in use only while its transfer is in
\* progress.
HandlerFindsBusy ==
    \A d \in Uses :
        isr \in {"TXE", "TXEIE"} \/ (isr \in {"RXNE", "RXNEIE"} /\ d = "rx")
            => state[d] = BUSY

\* The other direction is never opened.
UnusedClosed ==
    \A d \in Dirs \ Uses : state[d] = READY /\ ~cr2[d] /\ buffer[d] = NULL

\* What is left of a transfer is a number of whole frames.
WholeFrames == \A d \in Uses : state[d] = BUSY => len[d] % Unit = 0

\* The inductive invariant of the safety proofs, for one direction in use.
IInv ==
    /\ TypeOK
    /\ WithinBuffer
    /\ ReportedOnce
    /\ EnabledWhileBusy
    /\ StartInProgress
    /\ HandlerFindsBusy
    /\ UnusedClosed
    /\ WholeFrames

\* The direction the application uses implements Transfer: a transfer is
\* accepted only when there is none, and over when all its bytes have been
\* moved.
Dir == CHOOSE d \in Uses : TRUE

Channel ==
    INSTANCE Transfer WITH
        busy <- state[Dir] = BUSY,
        moved <- IF state[Dir] = BUSY THEN buffer[Dir] ELSE 0,
        left <- IF state[Dir] = BUSY THEN len[Dir] ELSE 0,
        Last <- Unit

ImplementsTransfer == Channel!Spec

\* SPI_send returns, unless a mode fault disables the peripheral: it is called
\* while no transmission by interrupt is in progress, and TXE comes back.
SendReturns == pc \in {"send_poll", "send_write"} ~> pc = "app" \/ modf

\* A transmission started by SPI_send_IT is completed by the handler.
TransmissionCompletes == state["tx"] = BUSY ~> state["tx"] = READY
==============================================================================
