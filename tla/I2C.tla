---------------------------------- MODULE I2C ----------------------------------
(***************************************************************************)
(* The controller's transfers of drivers/I2C_driver.c: the thread that     *)
(* calls the blocking and the interrupt-driven functions, the event and    *)
(* the error handler, the peripheral and the bus, with one target.         *)
(*                                                                         *)
(* The thread is interrupted between any two statements; the handlers have *)
(* one priority and do not interrupt each other, but the peripheral        *)
(* changes its registers between two of their steps.  A read-modify-write  *)
(* of CR1 or CR2 is two steps where a bit that someone else clears may be  *)
(* set in it.  A byte is abstracted to its place in the transfer.          *)
(*                                                                         *)
(* Both IRQs are enabled in the NVIC, PE is set and ACK is configured, as  *)
(* in the sample applications.  The callback does what theirs do: nothing, *)
(* or, on a missing acknowledge, I2C_close_send and I2C_generate_stop.     *)
(* Target mode is not modelled, so STOPF is never set.                     *)
(***************************************************************************)
EXTENDS Integers, Sequences

CONSTANTS Lengths,  \* the values of len in the application's calls
          Faults    \* the error flags the peripheral raises

ErrorFlags == <<"BERR", "ARLO", "AF">>

ASSUME I2CAssumption ==
    /\ Lengths \subseteq Nat \ {0}
    /\ Faults \subseteq {"BERR", "ARLO", "AF"}

VARIABLES
    state,   \* TxRxstate of the handle
    len,     \* Tx_len and Rx_len
    buffer,  \* p_Tx_buffer and p_Rx_buffer: offset in the caller's buffer
    size,    \* Rx_size
    rs,      \* repeated_start of the handle or of the blocking call
    cr1,     \* START, STOP and ACK of CR1
    cr2,     \* the interrupt enables of CR2
    sr1,     \* the flags of SR1
    bus,     \* what the bus is doing; the MSL flag is set unless it is "idle"
    shift,   \* a byte is being shifted out or in
    more,    \* the target was acknowledged and will send another byte
    isr,     \* the place in the handlers, or "none"
    enabled, \* the handler's copies of CR2's bits, temp1 and temp2
    error,   \* which of ErrorFlags the error handler is at
    isr_reg, \* the register in which the handler modifies CR1 or SR1
    pc,      \* where the thread is
    dir,     \* the direction of the transfer the thread has asked for
    arg,     \* len of the blocking call, counted down
    reg,     \* the register in which the thread modifies CR1 or CR2
    want,    \* len of the last transfer asked for
    onbus,   \* bytes the bus has moved for it
    due,     \* interrupt-driven transfers accepted less completions reported
    mishap   \* what has gone wrong so far: see Mishaps

handle == <<state, len, buffer, size, rs>>
line == <<bus, shift, more>>
handler == <<isr, enabled, error, isr_reg>>
thread == <<pc, dir, arg, reg>>
history == <<want, onbus, due, mishap>>
vars == <<handle, cr1, cr2, sr1, line, handler, thread, history>>

READY == "READY"
BUSY(d) == IF d = "tx" THEN "BUSY_TX" ELSE "BUSY_RX"
NULL == -1
Dirs == {"tx", "rx"}
Errors == {"BERR", "ARLO", "AF"}
MSL == bus # "idle"

\* "late": a byte ended before the software had dealt with the one before it;
\* "early": the handler took the last transfer's BTF for the new one's;
\* "fault": the peripheral raised an error flag; "stale": a read-modify-write
\* set a bit again that had been cleared since the read.
Mishaps == {"late", "early", "fault", "stale"}

Note(kind, happened) == mishap' = IF happened THEN mishap \cup {kind} ELSE mishap

-----------------------------------------------------------------------------
(* The peripheral and the bus.                                             *)

\* A start condition when the bus is free, or a repeated one between two bytes.
StartCondition ==
    /\ "START" \in cr1
    /\ bus = "idle" \/ (bus \in {"tx", "rx", "nack"} /\ ~shift /\ "STOP" \notin cr1)
    /\ bus' = "start"
    /\ cr1' = cr1 \ {"START"}
    /\ sr1' = (sr1 \ {"TxE", "BTF"}) \cup {"SB"}
    /\ more' = FALSE
    /\ UNCHANGED <<handle, cr2, shift, handler, thread, history>>

\* A stop condition, after the byte or the start condition under way.
StopCondition ==
    /\ "STOP" \in cr1
    /\ bus \in {"start", "tx", "rx", "nack"} /\ ~shift
    /\ bus' = "idle"
    /\ cr1' = cr1 \ {"STOP"}
    /\ sr1' = sr1 \ (IF bus = "rx" THEN {} ELSE {"SB", "TxE", "BTF"})
    /\ UNCHANGED <<handle, cr2, shift, more, handler, thread, history>>

\* The target answers to the address.
AddressSent ==
    /\ bus \in {"address_tx", "address_rx"}
    /\ sr1' = sr1 \cup {"ADDR"}
    /\ bus' = IF bus = "address_tx" THEN "addressed_tx" ELSE "addressed_rx"
    /\ UNCHANGED <<handle, cr1, cr2, shift, more, handler, thread, history>>

\* A bound: one error flag is raised in a behaviour.
NoFaultYet == "fault" \notin mishap

\* Nobody acknowledges the address, or the target refuses a byte.
Refused ==
    /\ "AF" \in Faults /\ NoFaultYet
    /\ bus \in {"address_tx", "address_rx"} \/ (bus = "tx" /\ shift)
    /\ sr1' = sr1 \cup {"AF"}
    /\ bus' = "nack"
    /\ shift' = FALSE
    /\ Note("fault", TRUE)
    /\ UNCHANGED <<handle, cr1, cr2, more, handler, thread, want, onbus, due>>

\* What is left to write to DR.
LeftToSend == IF state = BUSY("tx") THEN len["tx"] ELSE arg

\* A byte has been sent; the one in DR follows, or the clock is stretched.
ByteSent ==
    /\ bus = "tx" /\ shift
    /\ onbus' = onbus + 1
    /\ shift' = ("TxE" \notin sr1)
    /\ sr1' = sr1 \cup {IF "TxE" \in sr1 THEN "BTF" ELSE "TxE"}
    /\ Note("late", "TxE" \in sr1 /\ LeftToSend > 0)
    /\ UNCHANGED <<handle, cr1, cr2, bus, more, handler, thread, want, due>>

\* A byte has been received, and acknowledged if ACK is set.  If DR is full it
\* stays in the shift register and the clock is stretched.
ByteReceived ==
    /\ bus = "rx" /\ shift
    /\ onbus' = onbus + 1
    /\ more' = ("ACK" \in cr1)
    /\ shift' = ("ACK" \in cr1 /\ "RxNE" \notin sr1)
    /\ sr1' = sr1 \cup {IF "RxNE" \in sr1 THEN "BTF" ELSE "RxNE"}
    /\ Note("late", "RxNE" \in sr1 \/ isr = "disable_ACK")
    /\ UNCHANGED <<handle, cr1, cr2, bus, handler, thread, want, due>>

\* Arbitration lost: the bus is another controller's.  A bus error changes
\* nothing else.
BusFault ==
    \E e \in Faults \ {"AF"} :
        /\ MSL /\ NoFaultYet
        /\ sr1' = (IF e = "ARLO" THEN sr1 \ {"SB", "ADDR", "TxE", "BTF"} ELSE sr1) \cup {e}
        /\ bus' = IF e = "ARLO" THEN "idle" ELSE bus
        /\ shift' = (shift /\ e # "ARLO")
        /\ Note("fault", TRUE)
        /\ UNCHANGED <<handle, cr1, cr2, more, handler, thread, want, onbus, due>>

Peripheral ==
    \/ StartCondition
    \/ StopCondition
    \/ AddressSent
    \/ Refused
    \/ ByteSent
    \/ ByteReceived
    \/ BusFault

\* The address is written to DR after SR1 has been read with SB set.
WriteAddress(d) ==
    /\ sr1' = sr1 \ {"SB"}
    /\ bus' = IF bus # "start" THEN bus ELSE IF d = "tx" THEN "address_tx" ELSE "address_rx"
    /\ UNCHANGED <<shift, more>>

\* SR2 is read after SR1 has been read with ADDR set: the clock is released.
ReadSR2 ==
    /\ sr1' = IF bus = "addressed_tx" THEN (sr1 \ {"ADDR"}) \cup {"TxE"} ELSE sr1 \ {"ADDR"}
    /\ bus' = IF bus = "addressed_tx" THEN "tx" ELSE IF bus = "addressed_rx" THEN "rx" ELSE bus
    /\ shift' = (shift \/ bus = "addressed_rx")
    /\ UNCHANGED more

\* A byte written to DR goes on to the shift register if that is free.
WriteDR ==
    /\ sr1' = sr1 \ (IF bus = "tx" /\ ~shift THEN {"BTF"} ELSE {"BTF", "TxE"})
    /\ shift' = (shift \/ bus = "tx")
    /\ UNCHANGED <<bus, more>>

\* A byte read from DR makes room for the one in the shift register.
ReadDR ==
    /\ sr1' = sr1 \ {IF "BTF" \in sr1 THEN "BTF" ELSE "RxNE"}
    /\ shift' = (shift \/ (bus = "rx" /\ "BTF" \in sr1 /\ more))
    /\ UNCHANGED <<bus, more>>

EventRequested ==
    /\ "ITEVTEN" \in cr2
    /\ \/ sr1 \cap {"SB", "ADDR", "BTF"} # {}
       \/ "ITBUFEN" \in cr2 /\ sr1 \cap {"TxE", "RxNE"} # {}

ErrorRequested == "ITERREN" \in cr2 /\ sr1 \cap Errors # {}

-----------------------------------------------------------------------------
(* I2C_EV_IRQ_handling.                                                    *)

Step(from, to) == isr = from /\ isr' = to

EnterEventHandler ==
    /\ EventRequested
    /\ Step("none", "SB")
    /\ enabled' = cr2
    /\ UNCHANGED <<handle, cr1, cr2, sr1, line, error, isr_reg, thread, history>>

\* SB: the address phase, in the direction of the transfer in progress.
SendAddress ==
    /\ Step("SB", "ADDR")
    /\ IF "SB" \in sr1 /\ state # READY
       THEN \E d \in Dirs : state = BUSY(d) /\ WriteAddress(d)
       ELSE UNCHANGED <<sr1, line>>
    /\ UNCHANGED <<handle, cr1, cr2, enabled, error, isr_reg, thread, history>>

\* ADDR that is cleared in the branch of the single byte only.
CheckADDR_NotCleared ==
    /\ isr = "ADDR"
    /\ isr' = IF "ADDR" \in sr1 /\ MSL /\ state = BUSY("rx") /\ size = 1
              THEN "disable_ACK" ELSE "BTF"
    /\ IF isr' = "disable_ACK" THEN ReadSR2 ELSE UNCHANGED <<sr1, line>>
    /\ UNCHANGED <<handle, cr1, cr2, enabled, error, isr_reg, thread, history>>

\* ADDR: the test of MSL reads SR2, which clears ADDR.
CheckADDR ==
    /\ isr = "ADDR"
    /\ isr' = IF "ADDR" \in sr1 /\ MSL /\ state = BUSY("rx") /\ size = 1
              THEN "disable_ACK" ELSE "BTF"
    /\ IF "ADDR" \in sr1 THEN ReadSR2 ELSE UNCHANGED <<sr1, line>>
    /\ UNCHANGED <<handle, cr1, cr2, enabled, error, isr_reg, thread, history>>

\* A single byte is to be received: no acknowledge.
DisableACK ==
    /\ Step("disable_ACK", "BTF")
    /\ cr1' = cr1 \ {"ACK"}
    /\ UNCHANGED <<handle, cr2, sr1, line, enabled, error, isr_reg, thread, history>>

\* I2C_close_send and I2C_close_receive, up to their last statement.
Close(d) ==
    /\ cr2' = cr2 \ {"ITBUFEN", "ITEVTEN"}
    /\ state' = READY
    /\ buffer' = [buffer EXCEPT ![d] = NULL]
    /\ len' = [len EXCEPT ![d] = 0]
    /\ size' = IF d = "rx" THEN 0 ELSE size
    /\ UNCHANGED rs

\* The transmission closed as soon as DR is empty.
TransmissionOver_TxE == "TxE" \in sr1 /\ state = BUSY("tx") /\ len["tx"] = 0

TransmissionOver == "BTF" \in sr1 /\ "TxE" \in sr1 /\ state = BUSY("tx")

\* The stop condition after a transfer, unless a repeated start follows.
StopAfter == IF rs THEN {} ELSE {"STOP"}

\* BTF: the transmission is closed, whatever is left of it.
CloseTransmission ==
    /\ isr = "BTF" /\ TransmissionOver
    /\ isr' = "reack_tx"
    /\ cr1' = IF len["tx"] = 0 THEN cr1 \cup StopAfter ELSE cr1
    /\ isr_reg' = cr1'
    /\ Close("tx")
    /\ Note("early", "START" \in cr1)
    /\ UNCHANGED <<sr1, line, enabled, error, thread, want, onbus, due>>

SkipBTF ==
    /\ ~TransmissionOver
    /\ Step("BTF", "TXE")
    /\ UNCHANGED <<handle, cr1, cr2, sr1, line, enabled, error, isr_reg, thread, history>>

\* The transfer's ACK setting is restored, by a store to CR1, and the
\* application told.
ReenableACK(d) ==
    /\ isr = (IF d = "tx" THEN "reack_tx" ELSE "reack_rx")
    /\ isr' = (IF d = "tx" THEN "TXE" ELSE "none")
    /\ cr1' = isr_reg \cup {"ACK"}
    /\ isr_reg' = {}
    /\ due' = due - 1
    /\ Note("stale", ~(isr_reg \subseteq cr1))
    /\ UNCHANGED <<handle, cr2, sr1, line, enabled, error, thread, want, onbus>>

\* TXE that sends without a test of Tx_len.
SendByte_Unchecked ==
    /\ Step("TXE", "RXNE")
    /\ IF "ITBUFEN" \in enabled /\ "TxE" \in sr1 /\ MSL /\ state = BUSY("tx")
       THEN /\ WriteDR
            /\ len' = [len EXCEPT !["tx"] = @ - 1]
            /\ buffer' = [buffer EXCEPT !["tx"] = @ + 1]
       ELSE UNCHANGED <<len, buffer, sr1, line>>
    /\ UNCHANGED <<state, size, rs, cr1, cr2, enabled, error, isr_reg, thread, history>>

\* TXE: I2C_controller_TXE_handler.
SendByte ==
    /\ Step("TXE", "RXNE")
    /\ IF "ITBUFEN" \in enabled /\ "TxE" \in sr1 /\ MSL /\ state = BUSY("tx") /\ len["tx"] > 0
       THEN /\ WriteDR
            /\ len' = [len EXCEPT !["tx"] = @ - 1]
            /\ buffer' = [buffer EXCEPT !["tx"] = @ + 1]
       ELSE UNCHANGED <<len, buffer, sr1, line>>
    /\ UNCHANGED <<state, size, rs, cr1, cr2, enabled, error, isr_reg, thread, history>>

ByteToStore == "ITBUFEN" \in enabled /\ "RxNE" \in sr1 /\ MSL /\ state = BUSY("rx")

\* The acknowledge that is withdrawn one byte too late.
AckFor_LastByte == IF size > 1 /\ len["rx"] = 1 THEN cr1 \ {"ACK"} ELSE cr1

\* The last byte but one is in DR: the one being received is the last.
AckFor == IF size > 1 /\ len["rx"] = 2 THEN cr1 \ {"ACK"} ELSE cr1

\* RXNE: I2C_controller_RXNE_handler.
StoreByte ==
    /\ isr = "RXNE" /\ ByteToStore
    /\ ReadDR
    /\ IF len["rx"] = 1
       THEN /\ isr' = "reack_rx"
            /\ cr1' = AckFor \cup StopAfter
            /\ isr_reg' = cr1'
            /\ Close("rx")
       ELSE /\ isr' = "none"
            /\ cr1' = AckFor
            /\ len' = [len EXCEPT !["rx"] = @ - 1]
            /\ buffer' = [buffer EXCEPT !["rx"] = @ + 1]
            /\ UNCHANGED <<state, size, rs, cr2, isr_reg>>
    /\ UNCHANGED <<enabled, error, thread, history>>

SkipRXNE ==
    /\ ~ByteToStore
    /\ Step("RXNE", "none")
    /\ UNCHANGED <<handle, cr1, cr2, sr1, line, enabled, error, isr_reg, thread, history>>

I2C_EV_IRQ_handling ==
    \/ EnterEventHandler
    \/ SendAddress
    \/ CheckADDR
    \/ DisableACK
    \/ CloseTransmission
    \/ SkipBTF
    \/ \E d \in Dirs : ReenableACK(d)
    \/ SendByte
    \/ StoreByte
    \/ SkipRXNE

-----------------------------------------------------------------------------
(* I2C_ER_IRQ_handling.                                                    *)

EnterErrorHandler ==
    /\ ErrorRequested
    /\ Step("none", "error")
    /\ error' = 1
    /\ UNCHANGED <<handle, cr1, cr2, sr1, line, enabled, isr_reg, thread, history>>

NextError == isr' = IF error < Len(ErrorFlags) THEN "error" ELSE "none"

\* A flag is tested; SR1 is read again to clear it.
CheckError ==
    /\ isr = "error"
    /\ IF ErrorFlags[error] \in sr1
       THEN isr' = "clear" /\ isr_reg' = sr1 \cap Errors /\ UNCHANGED error
       ELSE NextError /\ error' = (error % Len(ErrorFlags)) + 1 /\ UNCHANGED isr_reg
    /\ UNCHANGED <<handle, cr1, cr2, sr1, line, enabled, thread, history>>

\* The store clears every error flag that was not set when SR1 was read, then
\* the application is told.  On AF it may close the transfer and ask for a stop
\* condition.
ClearError ==
    /\ isr = "clear"
    /\ sr1' = sr1 \ (Errors \ (isr_reg \ {ErrorFlags[error]}))
    /\ isr_reg' = {}
    /\ NextError
    /\ error' = (error % Len(ErrorFlags)) + 1
    /\ \/ UNCHANGED <<handle, cr1, cr2, due>>
       \/ /\ ErrorFlags[error] = "AF"
          /\ Close("tx")
          /\ cr1' = cr1 \cup {"ACK", "STOP"}
          /\ due' = IF state = READY THEN due ELSE due - 1
    /\ UNCHANGED <<line, enabled, thread, want, onbus, mishap>>

I2C_ER_IRQ_handling == EnterErrorHandler \/ CheckError \/ ClearError

-----------------------------------------------------------------------------
(* The thread.  It runs when no interrupt is requested or being handled.   *)

At(from, to) ==
    /\ isr = "none" /\ ~EventRequested /\ ~ErrorRequested
    /\ pc = from
    /\ pc' = to

\* CR1 |= ... and CR2 |= ...: a load and an or, then a store.
Load(from, to, value, bit) ==
    /\ At(from, to)
    /\ reg' = value \cup {bit}
    /\ UNCHANGED <<handle, cr1, cr2, sr1, line, handler, dir, arg, history>>

StoreCR1(from, to) ==
    /\ At(from, to)
    /\ cr1' = reg
    /\ reg' = {}
    /\ Note("stale", ~(reg \ {"START", "ACK"} \subseteq cr1))
    /\ UNCHANGED <<handle, cr2, sr1, line, handler, dir, arg, want, onbus, due>>

StoreCR2(from, to, bit) ==
    /\ At(from, to)
    /\ cr2' = reg
    /\ reg' = {}
    /\ Note("stale", ~(reg \ {bit} \subseteq cr2))
    /\ UNCHANGED <<handle, cr1, sr1, line, handler, dir, arg, want, onbus, due>>

\* I2C_controller_send_IT without its test of TxRxstate.
Call_IT_Unchecked(d, n, r) ==
    /\ At("app", "load_START_IT")
    /\ state' = BUSY(d)
    /\ buffer' = [buffer EXCEPT ![d] = 0]
    /\ len' = [len EXCEPT ![d] = n]
    /\ size' = IF d = "rx" THEN n ELSE size
    /\ rs' = r
    /\ dir' = d
    /\ want' = n /\ onbus' = 0 /\ due' = due + 1
    /\ UNCHANGED <<cr1, cr2, sr1, line, handler, arg, reg, mishap>>

\* I2C_controller_send_IT and I2C_controller_receive_IT return at once while a
\* transfer is in progress.  The event handler, the only other user of the
\* handle, is disabled while its fields are set.
Call_IT(d, n, r) ==
    /\ state = READY
    /\ At("app", "load_START_IT")
    /\ state' = BUSY(d)
    /\ buffer' = [buffer EXCEPT ![d] = 0]
    /\ len' = [len EXCEPT ![d] = n]
    /\ size' = IF d = "rx" THEN n ELSE size
    /\ rs' = r
    /\ dir' = d
    /\ want' = n /\ onbus' = 0 /\ due' = due + 1
    /\ UNCHANGED <<cr1, cr2, sr1, line, handler, arg, reg, mishap>>

Start_IT ==
    \/ Load("load_START_IT", "store_START_IT", cr1, "START")
    \/ StoreCR1("store_START_IT", "load_ITBUFEN")
    \/ Load("load_ITBUFEN", "store_ITBUFEN", cr2, "ITBUFEN")
    \/ StoreCR2("store_ITBUFEN", "load_ITEVTEN", "ITBUFEN")
    \/ Load("load_ITEVTEN", "store_ITEVTEN", cr2, "ITEVTEN")
    \/ StoreCR2("store_ITEVTEN", "load_ITERREN", "ITEVTEN")
    \/ Load("load_ITERREN", "store_ITERREN", cr2, "ITERREN")
    \/ StoreCR2("store_ITERREN", "app", "ITERREN")

\* I2C_controller_send and I2C_controller_receive do not look at TxRxstate:
\* that no transfer is in progress is left to the application.
CallBlocking(d, n, r) ==
    /\ state = READY
    /\ At("app", "load_START")
    /\ dir' = d
    /\ arg' = n
    /\ rs' = r
    /\ want' = n /\ onbus' = 0
    /\ UNCHANGED <<state, len, buffer, size, cr1, cr2, sr1, line, handler, reg, due, mishap>>

\* while(I2C_get_flag_status(...) == 0);
Wait(from, to, flag) ==
    /\ flag \in sr1
    /\ At(from, to)
    /\ UNCHANGED <<handle, cr1, cr2, sr1, line, handler, dir, arg, reg, history>>

\* A single store to CR1 that the peripheral does not interfere with.
SetCR1(from, to, value) ==
    /\ At(from, to)
    /\ cr1' = value
    /\ UNCHANGED <<handle, cr2, sr1, line, handler, dir, arg, reg, history>>

Address ==
    \/ Load("load_START", "store_START", cr1, "START")
    \/ StoreCR1("store_START", "wait_SB")
    \/ Wait("wait_SB", "address", "SB")
    \/ /\ At("address", "wait_ADDR")
       /\ WriteAddress(dir)
       /\ UNCHANGED <<handle, cr1, cr2, handler, dir, arg, reg, history>>
    \/ Wait("wait_ADDR", IF dir = "rx" /\ arg = 1 THEN "single_NACK" ELSE "clear_ADDR", "ADDR")
    \/ SetCR1("single_NACK", "clear_ADDR", cr1 \ {"ACK"})
    \/ /\ At("clear_ADDR", IF dir = "tx" THEN "wait_TxE" ELSE "wait_RxNE")
       /\ ReadSR2
       /\ UNCHANGED <<handle, cr1, cr2, handler, dir, arg, reg, history>>

\* The stop condition asked for before BTF is set.
I2C_controller_send_NoBTF ==
    \/ Wait("wait_TxE", IF arg > 0 THEN "write" ELSE "stop_tx", "TxE")
    \/ /\ At("write", "wait_TxE")
       /\ WriteDR
       /\ arg' = arg - 1
       /\ UNCHANGED <<handle, cr1, cr2, handler, dir, reg, history>>
    \/ SetCR1("stop_tx", "app", cr1 \cup StopAfter)

I2C_controller_send ==
    \/ Wait("wait_TxE", IF arg > 0 THEN "write" ELSE "wait_BTF", "TxE")
    \/ /\ At("write", "wait_TxE")
       /\ WriteDR
       /\ arg' = arg - 1
       /\ UNCHANGED <<handle, cr1, cr2, handler, dir, reg, history>>
    \/ Wait("wait_BTF", "stop_tx", "BTF")
    \/ SetCR1("stop_tx", "app", cr1 \cup StopAfter)

\* One more byte is waited for than was asked for.
I2C_controller_receive_OffByOne ==
    \/ Wait("wait_RxNE", IF want = 1 THEN "stop_rx" ELSE IF arg = 2 THEN "NACK" ELSE "read", "RxNE")
    \/ SetCR1("NACK", "stop_rx", cr1 \ {"ACK"})
    \/ SetCR1("stop_rx", "read", cr1 \cup StopAfter)
    \/ /\ At("read", IF arg = 0 THEN "load_ACK" ELSE "wait_RxNE")
       /\ ReadDR
       /\ arg' = arg - 1
       /\ UNCHANGED <<handle, cr1, cr2, handler, dir, reg, history>>
    \/ Load("load_ACK", "store_ACK", cr1, "ACK")
    \/ StoreCR1("store_ACK", "app")

I2C_controller_receive ==
    \/ Wait("wait_RxNE", IF want = 1 THEN "stop_rx" ELSE IF arg = 2 THEN "NACK" ELSE "read", "RxNE")
    \/ SetCR1("NACK", "stop_rx", cr1 \ {"ACK"})
    \/ SetCR1("stop_rx", "read", cr1 \cup StopAfter)
    \/ /\ At("read", IF arg = 1 THEN "load_ACK" ELSE "wait_RxNE")
       /\ ReadDR
       /\ arg' = arg - 1
       /\ UNCHANGED <<handle, cr1, cr2, handler, dir, reg, history>>
    \/ Load("load_ACK", "store_ACK", cr1, "ACK")
    \/ StoreCR1("store_ACK", "app")

\* A bound: once a transfer has gone wrong for another reason than an error
\* flag, it is the last.
Application ==
    /\ mishap \subseteq {"fault"}
    /\ \E n \in Lengths, d \in Dirs, r \in BOOLEAN : Call_IT(d, n, r) \/ CallBlocking(d, n, r)

Driver == Start_IT \/ Address \/ I2C_controller_send \/ I2C_controller_receive

-----------------------------------------------------------------------------
Init ==
    /\ state = READY
    /\ len = [d \in Dirs |-> 0]
    /\ buffer = [d \in Dirs |-> NULL]
    /\ size = 0
    /\ rs = FALSE
    /\ cr1 = {"ACK"}
    /\ cr2 = {}
    /\ sr1 = {}
    /\ bus = "idle" /\ shift = FALSE /\ more = FALSE
    /\ isr = "none" /\ enabled = {} /\ error = 1 /\ isr_reg = {}
    /\ pc = "app" /\ dir = "tx" /\ arg = 0 /\ reg = {}
    /\ want = 0 /\ onbus = 0 /\ due = 0
    /\ mishap = {}

Next ==
    \/ Peripheral
    \/ I2C_EV_IRQ_handling
    \/ I2C_ER_IRQ_handling
    \/ Application
    \/ Driver

Spec == Init /\ [][Next]_vars

\* The bus and the target go on, and so does the processor.  Faults need not
\* happen, and the application need not make another call.
Fairness ==
    /\ WF_vars(StartCondition)
    /\ WF_vars(StopCondition)
    /\ WF_vars(AddressSent)
    /\ WF_vars(ByteSent)
    /\ WF_vars(ByteReceived)
    /\ WF_vars(I2C_EV_IRQ_handling)
    /\ WF_vars(I2C_ER_IRQ_handling)
    /\ WF_vars(Driver)

FairSpec == Spec /\ Fairness

-----------------------------------------------------------------------------
(* Properties.                                                             *)

Max == CHOOSE n \in Lengths : \A m \in Lengths : m <= n

\* The types; the unsigned lengths are never decremented below zero.
TypeOK ==
    /\ state \in {READY, "BUSY_TX", "BUSY_RX"}
    /\ len \in [Dirs -> 0..Max]
    /\ buffer \in [Dirs -> -1..Max]
    /\ size \in {0} \cup Lengths
    /\ rs \in BOOLEAN
    /\ cr1 \in SUBSET {"START", "STOP", "ACK"}
    /\ cr2 \in SUBSET {"ITBUFEN", "ITEVTEN", "ITERREN"}
    /\ sr1 \in SUBSET ({"SB", "ADDR", "BTF", "TxE", "RxNE"} \cup Faults)
    /\ bus \in {"idle", "start", "address_tx", "address_rx", "addressed_tx",
               "addressed_rx", "tx", "rx", "nack"}
    /\ shift \in BOOLEAN /\ more \in BOOLEAN
    /\ error \in 1..Len(ErrorFlags)
    /\ dir \in Dirs
    /\ arg \in 0..Max
    /\ want \in 0..Max
    /\ onbus \in Nat
    /\ due \in {0, 1}
    /\ mishap \in SUBSET Mishaps

\* The handlers and the calls agree on the caller's buffer: what has been moved
\* and what is left make up the transfer asked for, and a byte is stored only
\* where one is left, even when a fault makes the transfer's callback close it
\* (I2C_controller_TXE_handler, I2C_controller_RXNE_handler).
WithinBuffer ==
    \A d \in Dirs :
        state = BUSY(d) =>
            /\ buffer[d] \in 0..want
            /\ buffer[d] + len[d] = want
            /\ d = "rx" => len[d] > 0

\* A transfer that was accepted is reported once, and until then no other is
\* accepted (the test of TxRxstate, and the callbacks).
ReportedOnce ==
    due = IF state # READY \/ isr \in {"reack_tx", "reack_rx"} THEN 1 ELSE 0

\* The target never sends a byte that nobody asked for, if the software keeps
\* up with the bus: ACK is withdrawn before the last byte ends (the notes in
\* I2C_controller_receive).
NoUnwantedByte == dir = "rx" /\ onbus > want => mishap # {}

\* If nothing has gone wrong, all bytes have been on the bus when the transfer
\* is reported: TxE alone does not say so (BTF in I2C_EV_IRQ_handling).
WholeTransferReported ==
    isr \in {"reack_tx", "reack_rx"} /\ mishap = {} => onbus = want

\* All bytes have been sent when the transmission is reported, as the comments
\* in the branch of BTF say.
EveryByteSentWhenReported == isr = "reack_tx" => onbus = want

\* If nothing has gone wrong, a stop condition is asked for when no repeated
\* start is to follow and no byte but the one being received is missing
\* (I2C_generate_stop in the blocking calls and in the handlers).
StopOnlyAtEnd ==
    [][ "STOP" \notin cr1 /\ "STOP" \in cr1' /\ mishap' = {} =>
            ~rs /\ onbus >= (IF dir = "tx" THEN want ELSE want - 1) ]_vars

\* An interrupt-driven transfer comes to its end unless something goes wrong:
\* the flags, the enables and the handler never wait for each other.
TransferCompletes == state # READY ~> state = READY \/ mishap # {}

\* A blocking call returns unless something goes wrong: every flag it waits for
\* is raised by what it has done before.
CallReturns == pc # "app" ~> pc = "app" \/ mishap # {}

==============================================================================
