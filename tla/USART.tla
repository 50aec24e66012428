--------------------------------- MODULE USART ---------------------------------
(***************************************************************************)
(* The transfers of drivers/USART_driver.c: the thread that calls the      *)
(* blocking and the interrupt-driven functions, USART_IRQ_handling, and    *)
(* the peripheral, full duplex, with a peer that sends whenever it likes.  *)
(*                                                                         *)
(* The thread is interrupted between any two statements; the handler is    *)
(* not, but the peripheral changes SR between two of its steps.  A frame   *)
(* is abstracted to its place in the caller's buffer.  The IRQ is enabled  *)
(* in the NVIC.  The driver sets no interrupt enable but TXEIE, TCIE and   *)
(* RXNEIE, so the handler's branches for CTS, IDLE, NF and FE are not      *)
(* taken.                                                                  *)
(***************************************************************************)
EXTENDS Integers

CONSTANTS Unit,     \* bytes of a frame: 2 if it has 9 bits and no parity, else 1
          Lengths,  \* the values of len in the application's calls
          LenMod,   \* number of values of a length (2^32 in the code)
          Uses      \* the directions in which it starts interrupt-driven
                    \* transfers; blocking calls it makes in both

ASSUME USARTAssumption ==
    /\ Unit \in {1, 2}
    /\ LenMod \in Nat /\ LenMod > Unit
    /\ Lengths \subseteq 0 .. LenMod-1
    /\ Uses \subseteq {"tx", "rx"}

VARIABLES
    state,    \* Tx_state and Rx_state of the handle
    buffer,   \* p_Tx_buffer and p_Rx_buffer: offset in the caller's buffer
    len,      \* Tx_len and Rx_len
    cr1,      \* the interrupt enables set in CR1
    txe,      \* SR.TXE: the transmit data register is empty
    tc,       \* SR.TC
    shifting, \* a frame is being shifted out
    rxne,     \* SR.RXNE: the receive data register holds a frame
    ore,      \* SR.ORE: a frame came in while it did
    isr,      \* the place in USART_IRQ_handling, or "none"
    sr_reg,   \* RXNE as loaded by SR &= ~(1 << USART_SR_TC)
    pc,       \* where the thread is
    dir,      \* the direction of the thread's call
    arg,      \* its len
    cr1_reg,  \* the register in which it modifies CR1
    asked,    \* for each direction, the len of the last interrupt-driven transfer
    due       \* and the transfers accepted less the completions reported

handle == <<state, buffer, len>>
flags == <<txe, tc, shifting, rxne, ore>>
handler == <<isr, sr_reg>>
thread == <<pc, dir, arg, cr1_reg>>
history == <<asked, due>>
vars == <<handle, cr1, flags, handler, thread, history>>

Dirs == {"tx", "rx"}
READY == "READY"
BUSY == "BUSY"
NULL == -1

Enables == {"TXEIE", "TCIE", "RXNEIE"}
IsrLabels == {"none", "TC", "clear_TC", "close", "TXE", "RXNE", "ORE"}
Starting == {"buffer", "len", "state", "read_cr1", "write_cr1", "read_TCIE", "write_TCIE"}
Polling == {"send_poll", "send_write", "send_TC", "receive_poll", "receive_read"}

\* A length less one frame, as unsigned arithmetic computes it.
Less(n) == IF n >= Unit THEN n - Unit ELSE n - Unit + LenMod

\* The interrupt that USART_send_IT and USART_receive_IT enable first.
FirstEnable(d) == IF d = "tx" THEN "TXEIE" ELSE "RXNEIE"

-----------------------------------------------------------------------------
(* The peripheral.                                                         *)

\* DR is loaded into the idle shift register.
StartFrame ==
    /\ ~txe /\ ~shifting
    /\ shifting' = TRUE
    /\ txe' = TRUE
    /\ UNCHANGED <<handle, cr1, tc, rxne, ore, handler, thread, history>>

\* A frame has been shifted out: the next follows, or transmission is complete.
EndFrame ==
    /\ shifting
    /\ shifting' = ~txe
    /\ tc' = (tc \/ txe)
    /\ txe' = TRUE
    /\ UNCHANGED <<handle, cr1, rxne, ore, handler, thread, history>>

\* The peer's frame is received, or lost if the one before has not been read.
FrameReceived ==
    /\ rxne' = TRUE
    /\ ore' = (ore \/ rxne)
    /\ UNCHANGED <<handle, cr1, txe, tc, shifting, handler, thread, history>>

\* A write of DR, after a read of SR.
WriteDR ==
    /\ txe' = FALSE
    /\ tc' = FALSE
    /\ UNCHANGED <<shifting, rxne, ore>>

\* A read of DR, after a read of SR.
ReadDR ==
    /\ rxne' = FALSE
    /\ ore' = FALSE
    /\ UNCHANGED <<txe, tc, shifting>>

Requested ==
    \/ "TXEIE" \in cr1 /\ txe
    \/ "TCIE" \in cr1 /\ tc
    \/ "RXNEIE" \in cr1 /\ (rxne \/ ore)

Peripheral == StartFrame \/ EndFrame \/ FrameReceived

-----------------------------------------------------------------------------
(* USART_IRQ_handling.                                                     *)

EnterHandler ==
    /\ isr = "none" /\ Requested
    /\ isr' = "TC"
    /\ UNCHANGED <<handle, cr1, flags, sr_reg, thread, history>>

\* The test without Tx_len == 0.
TransmissionOver_AnyLength == tc /\ "TCIE" \in cr1 /\ state["tx"] = BUSY

TransmissionOver == tc /\ "TCIE" \in cr1 /\ state["tx"] = BUSY /\ len["tx"] = 0

CheckTC ==
    /\ isr = "TC"
    /\ isr' = IF TransmissionOver THEN "clear_TC" ELSE "TXE"
    /\ UNCHANGED <<handle, cr1, flags, sr_reg, thread, history>>

\* SR &= ~(1 << USART_SR_TC) is a load and a store.  The store writes RXNE back
\* as it was loaded, which clears it if it was 0 then.
LoadSR ==
    /\ isr = "clear_TC"
    /\ isr' = "close"
    /\ sr_reg' = rxne
    /\ UNCHANGED <<handle, cr1, flags, thread, history>>

\* The completion is reported before the transmission is closed: the transfer
\* that the callback starts is refused, or closed without having sent a byte.
CloseAndReport_CallbackFirst(d, rest) ==
    /\ state' = [state EXCEPT ![d] = READY]
    /\ buffer' = [buffer EXCEPT ![d] = IF d = "tx" THEN NULL ELSE rest]
    /\ len' = [len EXCEPT ![d] = 0]
    /\ cr1' = cr1 \ {IF d = "tx" THEN "TCIE" ELSE "RXNEIE"}
    /\ \E restarted \in {0, 1} : due' = [due EXCEPT ![d] = @ - 1 + restarted]
    /\ UNCHANGED asked

\* The interrupt that reports the end of a transfer is disabled, the channel is
\* free, then the callback reports the completion; in it the application may
\* start its next transfer in this direction.  A reception leaves its pointer.
CloseAndReport(d, rest) ==
    \/ /\ state' = [state EXCEPT ![d] = READY]
       /\ buffer' = [buffer EXCEPT ![d] = IF d = "tx" THEN NULL ELSE rest]
       /\ len' = [len EXCEPT ![d] = 0]
       /\ cr1' = cr1 \ {IF d = "tx" THEN "TCIE" ELSE "RXNEIE"}
       /\ due' = [due EXCEPT ![d] = @ - 1]
       /\ UNCHANGED asked
    \/ \E n \in Lengths :
       /\ state' = [state EXCEPT ![d] = BUSY]
       /\ buffer' = [buffer EXCEPT ![d] = 0]
       /\ len' = [len EXCEPT ![d] = n]
       /\ cr1' = cr1 \cup (IF d = "tx" THEN {"TXEIE", "TCIE"} ELSE {"RXNEIE"})
       /\ asked' = [asked EXCEPT ![d] = n]
       /\ UNCHANGED due

CloseTransmission ==
    /\ isr = "close"
    /\ isr' = "TXE"
    /\ tc' = FALSE
    /\ rxne' = (rxne /\ sr_reg)
    /\ sr_reg' = FALSE
    /\ CloseAndReport("tx", NULL)
    /\ UNCHANGED <<txe, shifting, ore, thread>>

\* The pointer moved on by frames, the length counted down by bytes.
MoveFrame_CountBytes(d) ==
    /\ len' = [len EXCEPT ![d] = @ - 1]
    /\ buffer' = [buffer EXCEPT ![d] = @ + Unit]

\* The next frame to send, or the next place for one received.
MoveFrame(d) ==
    /\ len' = [len EXCEPT ![d] = Less(@)]
    /\ buffer' = [buffer EXCEPT ![d] = @ + Unit]

SendFrame ==
    /\ isr = "TXE" /\ txe /\ "TXEIE" \in cr1 /\ state["tx"] = BUSY
    /\ isr' = "RXNE"
    /\ IF len["tx"] > 0
       THEN WriteDR /\ MoveFrame("tx")
       ELSE UNCHANGED <<flags, buffer, len>>
    /\ cr1' = IF len'["tx"] = 0 THEN cr1 \ {"TXEIE"} ELSE cr1
    /\ UNCHANGED <<state, sr_reg, thread, history>>

SkipTx ==
    /\ isr = "TXE" /\ ~(txe /\ "TXEIE" \in cr1 /\ state["tx"] = BUSY)
    /\ isr' = "RXNE"
    /\ UNCHANGED <<handle, cr1, flags, sr_reg, thread, history>>

FrameToStore == rxne /\ "RXNEIE" \in cr1 /\ state["rx"] = BUSY /\ len["rx"] > 0

\* The last frame recognised before it has been counted.
StoreFrame_TestFirst ==
    /\ isr = "RXNE" /\ rxne /\ "RXNEIE" \in cr1 /\ state["rx"] = BUSY
    /\ isr' = "ORE"
    /\ ReadDR
    /\ IF len["rx"] = 0
       THEN CloseAndReport("rx", buffer["rx"])
       ELSE MoveFrame("rx") /\ UNCHANGED <<state, cr1, history>>
    /\ UNCHANGED <<sr_reg, thread>>

StoreFrame ==
    /\ isr = "RXNE" /\ FrameToStore
    /\ isr' = "ORE"
    /\ ReadDR
    /\ IF Less(len["rx"]) = 0
       THEN CloseAndReport("rx", buffer["rx"] + Unit)
       ELSE MoveFrame("rx") /\ UNCHANGED <<state, cr1, history>>
    /\ UNCHANGED <<sr_reg, thread>>

SkipRx ==
    /\ isr = "RXNE" /\ ~FrameToStore
    /\ isr' = "ORE"
    /\ UNCHANGED <<handle, cr1, flags, sr_reg, thread, history>>

\* SR and DR are read, and the application is told.
ReportOverrun ==
    /\ isr = "ORE" /\ ore /\ "RXNEIE" \in cr1
    /\ isr' = "none"
    /\ ReadDR
    /\ UNCHANGED <<handle, cr1, sr_reg, thread, history>>

NoOverrun ==
    /\ isr = "ORE" /\ ~(ore /\ "RXNEIE" \in cr1)
    /\ isr' = "none"
    /\ UNCHANGED <<handle, cr1, flags, sr_reg, thread, history>>

USART_IRQ_handling ==
    \/ EnterHandler
    \/ CheckTC
    \/ LoadSR
    \/ CloseTransmission
    \/ SendFrame
    \/ SkipTx
    \/ StoreFrame
    \/ SkipRx
    \/ ReportOverrun
    \/ NoOverrun

-----------------------------------------------------------------------------
(* The thread.  It runs when no interrupt is requested or being handled.   *)

At(from, to) ==
    /\ isr = "none" /\ ~Requested
    /\ pc = from
    /\ pc' = to

Returned == arg' = 0 /\ dir' = "tx"

\* USART_send_IT without its test of Tx_state.
Call_IT_Unchecked(d, n) ==
    /\ At("app", "buffer")
    /\ dir' = d
    /\ arg' = n
    /\ UNCHANGED <<handle, cr1, flags, handler, cr1_reg, history>>

\* USART_send_IT and USART_receive_IT return at once from a busy channel.
Call_IT(d, n) ==
    /\ state[d] = READY
    /\ At("app", "buffer")
    /\ dir' = d
    /\ arg' = n
    /\ UNCHANGED <<handle, cr1, flags, handler, cr1_reg, history>>

SetBuffer ==
    /\ At("buffer", "len")
    /\ buffer' = [buffer EXCEPT ![dir] = 0]
    /\ UNCHANGED <<state, len, cr1, flags, handler, dir, arg, cr1_reg, history>>

SetLen ==
    /\ At("len", "state")
    /\ len' = [len EXCEPT ![dir] = arg]
    /\ UNCHANGED <<state, buffer, cr1, flags, handler, dir, arg, cr1_reg, history>>

SetState ==
    /\ At("state", "read_cr1")
    /\ state' = [state EXCEPT ![dir] = BUSY]
    /\ asked' = [asked EXCEPT ![dir] = arg]
    /\ due' = [due EXCEPT ![dir] = @ + 1]
    /\ UNCHANGED <<buffer, len, cr1, flags, handler, dir, arg, cr1_reg>>

\* CR1 |= ... is a load, an or, and a store; USART_send_IT does it twice.
ReadCR1(from, to, enable) ==
    /\ At(from, to)
    /\ cr1_reg' = cr1 \cup {enable}
    /\ UNCHANGED <<handle, cr1, flags, handler, dir, arg, history>>

WriteCR1(from, to) ==
    /\ At(from, to)
    /\ cr1' = cr1_reg
    /\ cr1_reg' = {}
    /\ IF to = "app" THEN Returned ELSE UNCHANGED <<dir, arg>>
    /\ UNCHANGED <<handle, flags, handler, history>>

Start_IT ==
    \/ SetBuffer
    \/ SetLen
    \/ SetState
    \/ ReadCR1("read_cr1", "write_cr1", FirstEnable(dir))
    \/ WriteCR1("write_cr1", IF dir = "tx" THEN "read_TCIE" ELSE "app")
    \/ ReadCR1("read_TCIE", "write_TCIE", "TCIE")
    \/ WriteCR1("write_TCIE", "app")

\* USART_send and USART_receive do not look at the handle: that no transfer is
\* in progress in this direction is left to the application.
CallBlocking(d, n) ==
    /\ state[d] = READY
    /\ n > 0
    /\ At("app", IF d = "tx" THEN "send_poll" ELSE "receive_poll")
    /\ dir' = d
    /\ arg' = n
    /\ UNCHANGED <<handle, cr1, flags, handler, cr1_reg, history>>

\* One USART_get_flag_status of the waits for TXE and RXNE.
Poll(from, to, flag) ==
    /\ At(from, IF flag THEN to ELSE from)
    /\ UNCHANGED <<handle, cr1, flags, handler, dir, arg, cr1_reg, history>>

\* The for loops: len counts frames here, whatever a frame's size.
NextFrame(from, poll, after) ==
    /\ At(from, IF arg = 1 THEN after ELSE poll)
    /\ IF arg = 1 /\ after = "app" THEN Returned ELSE arg' = arg - 1 /\ UNCHANGED dir
    /\ UNCHANGED <<handle, cr1, handler, cr1_reg, history>>

WaitTC ==
    /\ At("send_TC", IF tc THEN "app" ELSE "send_TC")
    /\ UNCHANGED <<handle, cr1, flags, handler, dir, arg, cr1_reg, history>>

USART_send ==
    \/ Poll("send_poll", "send_write", txe)
    \/ NextFrame("send_write", "send_poll", "send_TC") /\ WriteDR
    \/ WaitTC

USART_receive ==
    \/ Poll("receive_poll", "receive_read", rxne)
    \/ NextFrame("receive_read", "receive_poll", "app") /\ ReadDR

Application ==
    \E n \in Lengths :
        \/ \E d \in Uses : Call_IT(d, n)
        \/ \E d \in Dirs : CallBlocking(d, n)

-----------------------------------------------------------------------------
Init ==
    /\ state = [d \in Dirs |-> READY]
    /\ buffer = [d \in Dirs |-> NULL]
    /\ len = [d \in Dirs |-> 0]
    /\ cr1 = {}
    /\ txe = TRUE /\ tc = TRUE /\ shifting = FALSE
    /\ rxne = FALSE /\ ore = FALSE
    /\ isr = "none"
    /\ sr_reg = FALSE
    /\ pc = "app"
    /\ dir = "tx"
    /\ arg = 0
    /\ cr1_reg = {}
    /\ asked = [d \in Dirs |-> 0]
    /\ due = [d \in Dirs |-> 0]

Next ==
    \/ Peripheral
    \/ USART_IRQ_handling
    \/ Application
    \/ Start_IT
    \/ USART_send
    \/ USART_receive

Spec == Init /\ [][Next]_vars

\* Frames end, the peer goes on sending, and the processor goes on.  The
\* application need not make another call.
Fairness ==
    /\ WF_vars(StartFrame)
    /\ WF_vars(EndFrame)
    /\ WF_vars(FrameReceived)
    /\ WF_vars(USART_IRQ_handling)
    /\ WF_vars(Start_IT \/ USART_send \/ USART_receive)

FairSpec == Spec /\ Fairness

-----------------------------------------------------------------------------
(* Properties.                                                             *)

\* Type correctness of the handle, the registers and the program counters.
TypeOK ==
    /\ state \in [Dirs -> {READY, BUSY}]
    /\ buffer \in [Dirs -> NULL .. LenMod-1]
    /\ len \in [Dirs -> 0 .. LenMod-1]
    /\ cr1 \subseteq Enables
    /\ txe \in BOOLEAN /\ tc \in BOOLEAN /\ shifting \in BOOLEAN
    /\ rxne \in BOOLEAN /\ ore \in BOOLEAN
    /\ isr \in IsrLabels
    /\ sr_reg \in BOOLEAN
    /\ pc \in {"app"} \cup Starting \cup Polling
    /\ dir \in Dirs
    /\ arg \in 0 .. LenMod-1
    /\ cr1_reg \subseteq Enables
    /\ asked \in [Dirs -> 0 .. LenMod-1]
    /\ due \in [Dirs -> {0, 1}]

\* The handler stays inside the caller's buffers, whatever the thread and the
\* other direction do to CR1 meanwhile: what has been moved and what is left
\* make up what was asked for, and a reception in progress has room for a frame.
WithinBuffer ==
    \A d \in Dirs : state[d] = BUSY =>
        /\ buffer[d] >= 0
        /\ buffer[d] + len[d] = asked[d]
        /\ d = "rx" => len[d] >= Unit

\* Every accepted transfer is reported complete once, when its channel becomes
\* free, also when the callback starts the next one.
ReportedOnce == \A d \in Dirs : due[d] = (IF state[d] = BUSY THEN 1 ELSE 0)

\* The handler closes a transmission only when its last frame has left the
\* shift register, although TC may also be set between two frames.
AllSentWhenClosed ==
    isr \in {"clear_TC", "close"} => len["tx"] = 0 /\ txe /\ ~shifting

\* TXE, once USART_send has tested it, is still set when it writes DR: the
\* handler, which also writes DR, does not come between.
TxeStillSet == pc = "send_write" => txe

\* The peripheral's side of it: TC is set only when nothing is left to shift out.
TCMeansOut == tc => txe /\ ~shifting

\* The transmission that the handler is closing is one in progress.
ClosesBusy == isr \in {"clear_TC", "close"} => state["tx"] = BUSY

\* A call of USART_send_IT or USART_receive_IT in progress: until it sets the
\* state, the channel is the caller's alone.
StartInProgress ==
    pc \in Starting =>
        /\ arg \in Lengths
        /\ pc \in {"buffer", "len", "state"} => state[dir] = READY
        /\ pc \in {"len", "state"} => buffer[dir] = 0
        /\ pc = "state" => len[dir] = arg

\* A call of USART_send or USART_receive in progress: there are frames left to
\* move, and no transmission by interrupt competes with USART_send for DR.
BlockingInProgress ==
    /\ pc \in Polling \ {"send_TC"} => arg > 0
    /\ pc \in {"send_poll", "send_write"} => state["tx"] = READY

\* What is left of a transfer is a number of whole frames.
WholeFrames == \A d \in Dirs : state[d] = BUSY => len[d] % Unit = 0

\* The inductive invariant of the safety proofs.
IInv ==
    /\ TypeOK
    /\ WithinBuffer
    /\ ReportedOnce
    /\ AllSentWhenClosed
    /\ TxeStillSet
    /\ TCMeansOut
    /\ ClosesBusy
    /\ StartInProgress
    /\ BlockingInProgress
    /\ WholeFrames

\* Both directions implement Transfer at once: a transfer is accepted only when
\* there is none, moves its bytes in order, and is over when they have all been
\* moved; a transmission's end is reported later than its last frame is written.
Moved(d) == IF state[d] = BUSY THEN buffer[d] ELSE 0
Left(d) == IF state[d] = BUSY THEN len[d] ELSE 0

Transmission ==
    INSTANCE Transfer WITH
        busy <- state["tx"] = BUSY, moved <- Moved("tx"), left <- Left("tx"),
        Last <- 0

Reception ==
    INSTANCE Transfer WITH
        busy <- state["rx"] = BUSY, moved <- Moved("rx"), left <- Left("rx"),
        Last <- Unit

\* USART_send_IT and the handler's TXE and TC branches implement Transfer.
TransmissionImplementsTransfer == Transmission!Spec

\* USART_receive_IT and the handler's RXNE branch implement Transfer.
ReceptionImplementsTransfer == Reception!Spec
==============================================================================
