------------------------------- MODULE I2CProofs -------------------------------
(***************************************************************************)
(* Proofs about I2C, for every bounded set of lengths and every set of     *)
(* error flags: first what holds however late the handler is and whatever  *)
(* goes wrong, then what the bus does as long as nothing has gone wrong.   *)
(***************************************************************************)
EXTENDS I2C, TLAPS

\* The lengths of the application's calls are bounded.
Usage == \E n \in Lengths : \A m \in Lengths : m <= n

CR1Bits == {"START", "STOP", "ACK"}
CR2Bits == {"ITBUFEN", "ITEVTEN", "ITERREN"}

Reporting == {"reack_tx", "reack_rx"}

\* Where the thread holds a value of CR1, or of CR2, in its register.
StoringCR1 == {"store_START_IT", "store_START", "store_ACK"}
StoringCR2 == {"store_ITBUFEN", "store_ITEVTEN", "store_ITERREN"}

\* Where a blocking call has bytes left to move.
Addressing ==
    {"load_START", "store_START", "wait_SB", "address", "wait_ADDR", "single_NACK", "clear_ADDR"}
Receiving == {"wait_RxNE", "NACK", "stop_rx", "read"}

\* The handle and the history of the transfer it describes.
TransferTypes ==
    /\ state \in {READY, "BUSY_TX", "BUSY_RX"}
    /\ len \in [Dirs -> 0..Max]
    /\ buffer \in [Dirs -> -1..Max]
    /\ want \in 0..Max
    /\ due \in {0, 1}

\* The types of the rest of TypeOK.
ControlTypes ==
    /\ size \in {0} \cup Lengths
    /\ rs \in BOOLEAN
    /\ cr1 \in SUBSET {"START", "STOP", "ACK"}
    /\ cr2 \in SUBSET {"ITBUFEN", "ITEVTEN", "ITERREN"}
    /\ sr1 \in SUBSET ({"SB", "ADDR", "BTF", "TxE", "RxNE"} \cup Faults)
    /\ bus \in {"idle", "start", "address_tx", "address_rx", "addressed_tx",
               "addressed_rx", "tx", "rx", "nack"}
    /\ shift \in BOOLEAN /\ more \in BOOLEAN
    /\ error \in 1..Len(ErrorFlags)
    /\ onbus \in Nat
    /\ mishap \in SUBSET Mishaps

\* A transfer is closed before it is reported (the last statements of
\* I2C_close_send and I2C_close_receive, then the callback).
ClosedWhenReported == isr \in Reporting => state = READY

TransferOK == TransferTypes /\ WithinBuffer /\ ReportedOnce /\ ClosedWhenReported

\* What is loaded from CR1, CR2 and SR1 is what is stored there.
RegistersOK ==
    /\ isr \in Reporting => isr_reg \subseteq CR1Bits
    /\ pc \in StoringCR1 => reg \subseteq CR1Bits
    /\ pc \in StoringCR2 => reg \subseteq CR2Bits

\* A blocking call counts down to zero and no further.
CountDown ==
    /\ dir \in Dirs
    /\ arg \in 0..Max
    /\ pc \in Addressing \cup Receiving \cup {"write"} => arg >= 1

\* The inductive invariant.
IInv == TransferOK /\ ControlTypes /\ RegistersOK /\ CountDown

-----------------------------------------------------------------------------
\* The greatest length.
LEMMA MaxFacts ==
  ASSUME Usage
  PROVE  Max \in Lengths /\ Max \in Nat \ {0} /\ Lengths \subseteq 1..Max
<1>1. PICK n \in Lengths : \A m \in Lengths : m <= n
  BY DEF Usage
<1>2. Max \in Lengths /\ \A m \in Lengths : m <= Max
  BY <1>1 DEF Max
<1> QED BY <1>2, I2CAssumption

\* The error handler looks at three flags.
LEMMA ThreeErrors == Len(ErrorFlags) = 3 /\ \A i \in 1..3 : ErrorFlags[i] \in Errors
BY DEF ErrorFlags, Errors

LEMMA InitInvariant ==
  ASSUME Usage, Init
  PROVE  IInv
<1> USE MaxFacts
<1>1. TransferOK
  BY DEF Init, TransferOK, TransferTypes, WithinBuffer, ReportedOnce, ClosedWhenReported,
         Reporting, Dirs, READY, BUSY, NULL
<1>2. ControlTypes
  <2>1. error \in 1..Len(ErrorFlags)
    BY ThreeErrors DEF Init
  <2>2. rs \in BOOLEAN /\ shift \in BOOLEAN /\ more \in BOOLEAN
    BY DEF Init
  <2>3. onbus \in Nat
    BY DEF Init
  <2> QED BY <2>1, <2>2, <2>3 DEF Init, ControlTypes
<1>3. RegistersOK
  BY DEF Init, RegistersOK, Reporting, StoringCR1, StoringCR2
<1>4. CountDown
  BY DEF Init, CountDown, Dirs, Addressing, Receiving
<1> QED BY <1>1, <1>2, <1>3, <1>4 DEF IInv

\* Nothing of a transfer changes.
LEMMA TransferStutters ==
  ASSUME TransferOK,
         UNCHANGED <<state, len, buffer, want, due>>,
         isr' \in Reporting <=> isr \in Reporting
  PROVE  TransferOK'
BY DEF TransferOK, TransferTypes, WithinBuffer, ReportedOnce, ClosedWhenReported, Reporting,
       Dirs, BUSY

\* A transfer is closed.
LEMMA TransferCloses ==
  ASSUME Usage, TransferOK, NEW d \in Dirs, Close(d),
         want' = want,
         \/ state # READY /\ isr' \in Reporting /\ due' = due
         \/ /\ isr \notin Reporting /\ isr' \notin Reporting
            /\ due' = IF state = READY THEN due ELSE due - 1
  PROVE  TransferOK'
<1> USE MaxFacts DEF Dirs, READY, BUSY, NULL
<1>1. TransferTypes' /\ ClosedWhenReported'
  BY DEF TransferOK, TransferTypes, ClosedWhenReported, ReportedOnce, Close, Reporting
<1>2. WithinBuffer'
  BY DEF Close, WithinBuffer
<1>3. ReportedOnce'
  BY DEF TransferOK, TransferTypes, ClosedWhenReported, ReportedOnce, Close, Reporting
<1> QED BY <1>1, <1>2, <1>3 DEF TransferOK

\* A byte is moved, and it is not the last one of a reception.
LEMMA ByteMoved ==
  ASSUME Usage, TransferOK, NEW d \in Dirs,
         state = BUSY(d), len[d] > 0, d = "rx" => len[d] # 1,
         len' = [len EXCEPT ![d] = @ - 1],
         buffer' = [buffer EXCEPT ![d] = @ + 1],
         UNCHANGED <<state, want, due>>,
         isr \notin Reporting, isr' \notin Reporting
  PROVE  TransferOK'
<1> USE MaxFacts DEF Dirs, READY, BUSY
<1>1. len[d] \in 1..Max /\ buffer[d] \in 0..want /\ want \in 0..Max /\ buffer[d] + len[d] = want
  BY DEF TransferOK, TransferTypes, WithinBuffer
<1>2. TransferTypes'
  BY <1>1 DEF TransferOK, TransferTypes
<1>3. WithinBuffer'
  BY <1>1 DEF TransferOK, TransferTypes, WithinBuffer
<1>4. ReportedOnce' /\ ClosedWhenReported'
  BY DEF TransferOK, ReportedOnce, ClosedWhenReported, Reporting
<1> QED BY <1>2, <1>3, <1>4 DEF TransferOK

-----------------------------------------------------------------------------
(* The event handler.                                                      *)

LEMMA EventTransfer ==
  ASSUME Usage, IInv, I2C_EV_IRQ_handling
  PROVE  TransferOK'
<1> USE DEF handle, thread, history, line
<1>1. TransferOK
  BY DEF IInv
<1>2. CASE \/ EnterEventHandler \/ SendAddress \/ CheckADDR \/ DisableACK \/ SkipBTF \/ SkipRXNE
  BY <1>1, <1>2, TransferStutters
     DEF EnterEventHandler, SendAddress, CheckADDR, DisableACK, SkipBTF, SkipRXNE, Step, Reporting
<1>3. CASE CloseTransmission
  <2>1. "tx" \in Dirs /\ Close("tx") /\ state # READY /\ isr' \in Reporting
        /\ UNCHANGED <<want, due>>
    BY <1>3 DEF CloseTransmission, TransmissionOver, Dirs, READY, BUSY, Reporting
  <2> QED BY <1>1, <2>1, TransferCloses
<1>4. CASE \E d \in Dirs : ReenableACK(d)
  BY <1>1, <1>4 DEF ReenableACK, TransferOK, TransferTypes, WithinBuffer, ReportedOnce,
                    ClosedWhenReported, Reporting, Dirs, BUSY, READY
<1>5. CASE SendByte
  <2>1. isr = "TXE" /\ isr' = "RXNE"
    BY <1>5 DEF SendByte, Step
  <2>2. CASE UNCHANGED <<len, buffer>>
    BY <1>1, <1>5, <2>1, <2>2, TransferStutters DEF SendByte, Reporting
  <2>3. CASE ~UNCHANGED <<len, buffer>>
    <3>1. /\ state = BUSY("tx") /\ len["tx"] > 0
          /\ len' = [len EXCEPT !["tx"] = @ - 1]
          /\ buffer' = [buffer EXCEPT !["tx"] = @ + 1]
          /\ UNCHANGED <<state, want, due>>
      BY <1>5, <2>3 DEF SendByte
    <3> QED BY <1>1, <2>1, <3>1, ByteMoved DEF Dirs, Reporting
  <2> QED BY <2>2, <2>3
<1>6. CASE StoreByte
  <2>1. isr = "RXNE" /\ state = BUSY("rx") /\ "rx" \in Dirs /\ UNCHANGED <<want, due>>
    BY <1>6 DEF StoreByte, ByteToStore, Dirs
  <2>2. len["rx"] > 0
    BY <1>1, <2>1 DEF TransferOK, WithinBuffer
  <2>3. CASE len["rx"] = 1
    BY <1>1, <1>6, <2>1, <2>3, TransferCloses DEF StoreByte, Reporting, READY, BUSY
  <2>4. CASE len["rx"] # 1
    <3>1. /\ len' = [len EXCEPT !["rx"] = @ - 1]
          /\ buffer' = [buffer EXCEPT !["rx"] = @ + 1]
          /\ state' = state /\ isr' = "none"
      BY <1>6, <2>4 DEF StoreByte
    <3> QED BY <1>1, <2>1, <2>2, <2>4, <3>1, ByteMoved DEF Reporting
  <2> QED BY <2>3, <2>4
<1> QED
  BY <1>2, <1>3, <1>4, <1>5, <1>6 DEF I2C_EV_IRQ_handling

LEMMA ErrorTransfer ==
  ASSUME Usage, IInv, I2C_ER_IRQ_handling
  PROVE  TransferOK'
<1> USE DEF handle, thread, history, line
<1>1. TransferOK
  BY DEF IInv
<1>2. CASE EnterErrorHandler \/ CheckError
  BY <1>1, <1>2, TransferStutters
     DEF EnterErrorHandler, CheckError, NextError, Step, Reporting
<1>3. CASE ClearError
  <2>1. isr = "clear" /\ isr' \in {"error", "none"} /\ want' = want
    BY <1>3 DEF ClearError, NextError
  <2>2. CASE UNCHANGED <<handle, due>>
    BY <1>1, <2>1, <2>2, TransferStutters DEF Reporting
  <2>3. CASE Close("tx") /\ due' = IF state = READY THEN due ELSE due - 1
    BY <1>1, <2>1, <2>3, TransferCloses DEF Reporting, Dirs
  <2> QED BY <1>3, <2>2, <2>3 DEF ClearError
<1> QED BY <1>2, <1>3 DEF I2C_ER_IRQ_handling

-----------------------------------------------------------------------------
(* The thread and the bus.                                                 *)

\* No step of the driver in the thread but the first one of a call touches the
\* transfer that the handle describes.
LEMMA DriverKeeps ==
  ASSUME Driver
  PROVE  UNCHANGED <<state, len, buffer, size, rs, want, due, isr>>
<1> USE DEF handle, handler, history, At, Load, StoreCR1, StoreCR2, Wait, SetCR1
<1>1. CASE Start_IT
  BY <1>1 DEF Start_IT
<1>2. CASE Address
  BY <1>2 DEF Address
<1>3. CASE I2C_controller_send
  BY <1>3 DEF I2C_controller_send
<1>4. CASE I2C_controller_receive
  BY <1>4 DEF I2C_controller_receive
<1> QED BY <1>1, <1>2, <1>3, <1>4 DEF Driver

LEMMA PeripheralKeeps ==
  ASSUME Peripheral
  PROVE  UNCHANGED <<state, len, buffer, size, rs, want, due, isr, isr_reg, error, pc, dir, arg, reg>>
BY DEF Peripheral, StartCondition, StopCondition, AddressSent, Refused, ByteSent, ByteReceived,
       BusFault, handle, handler, thread, history, Note

LEMMA CallTransfer ==
  ASSUME Usage, IInv, Application
  PROVE  TransferOK'
<1> USE MaxFacts DEF handler
<1>1. TransferOK /\ isr = "none"
  BY DEF IInv, Application, Call_IT, CallBlocking, At
<1>2. PICK n \in Lengths, d \in Dirs, r \in BOOLEAN : Call_IT(d, n, r) \/ CallBlocking(d, n, r)
  BY DEF Application
<1>3. state = READY /\ isr' = "none" /\ n \in 1..Max /\ want' = n
  BY <1>1, <1>2 DEF Call_IT, CallBlocking
<1>4. CASE Call_IT(d, n, r)
  BY <1>1, <1>3, <1>4
     DEF Call_IT, TransferOK, TransferTypes, WithinBuffer, ReportedOnce, ClosedWhenReported,
         Reporting, Dirs, BUSY, READY
<1>5. CASE CallBlocking(d, n, r)
  BY <1>1, <1>3, <1>5
     DEF CallBlocking, TransferOK, TransferTypes, WithinBuffer, ReportedOnce,
         ClosedWhenReported, Reporting, BUSY, READY, Dirs
<1> QED BY <1>2, <1>4, <1>5

LEMMA TransferStep ==
  ASSUME Usage, IInv, [Next]_vars
  PROVE  TransferOK'
<1>1. CASE Driver \/ Peripheral \/ UNCHANGED vars
  BY <1>1, DriverKeeps, PeripheralKeeps, TransferStutters
     DEF IInv, vars, handle, handler, history
<1> QED
  BY <1>1, EventTransfer, ErrorTransfer, CallTransfer DEF Next

-----------------------------------------------------------------------------
(* Types, the registers of the handlers and the thread, and the countdown. *)

\* The peripheral's reaction to an access keeps the types.
LEMMA AccessTypes ==
  ASSUME ControlTypes,
         \/ \E d \in Dirs : WriteAddress(d)
         \/ ReadSR2 \/ WriteDR \/ ReadDR
         \/ UNCHANGED <<sr1, line>>
  PROVE  (/\ sr1 \in SUBSET ({"SB", "ADDR", "BTF", "TxE", "RxNE"} \cup Faults)
          /\ bus \in {"idle", "start", "address_tx", "address_rx", "addressed_tx",
                       "addressed_rx", "tx", "rx", "nack"}
          /\ shift \in BOOLEAN /\ more \in BOOLEAN)'
BY DEF ControlTypes, WriteAddress, ReadSR2, WriteDR, ReadDR, line, Dirs

LEMMA EventControl ==
  ASSUME Usage, IInv, I2C_EV_IRQ_handling
  PROVE  ControlTypes' /\ RegistersOK' /\ CountDown'
<1> USE DEF handle, thread, history, line
<1>1. ControlTypes /\ RegistersOK /\ CountDown
  BY DEF IInv
<1>2. /\ UNCHANGED <<pc, dir, arg, reg, error, onbus>>
      /\ cr2' = cr2 \/ cr2' = cr2 \ {"ITBUFEN", "ITEVTEN"}
      /\ size' = size \/ size' = 0
      /\ rs' = rs
  BY DEF I2C_EV_IRQ_handling, EnterEventHandler, SendAddress, CheckADDR, DisableACK, SkipBTF,
         SkipRXNE, CloseTransmission, ReenableACK, SendByte, StoreByte, Close
<1>3. CountDown'
  BY <1>1, <1>2 DEF CountDown
<1>4. cr1' \subseteq CR1Bits /\ (isr' \in Reporting => isr_reg' \subseteq CR1Bits)
  BY <1>1 DEF I2C_EV_IRQ_handling, EnterEventHandler, SendAddress, CheckADDR, DisableACK, SkipBTF,
         SkipRXNE, CloseTransmission, ReenableACK, SendByte, StoreByte, Step, StopAfter, AckFor,
         ControlTypes, RegistersOK, CR1Bits, Reporting, Dirs
<1>5. mishap' \in SUBSET Mishaps
  BY <1>1 DEF I2C_EV_IRQ_handling, EnterEventHandler, SendAddress, CheckADDR, DisableACK, SkipBTF,
         SkipRXNE, CloseTransmission, ReenableACK, SendByte, StoreByte, Note, ControlTypes, Mishaps
<1>6. \/ \E d \in Dirs : WriteAddress(d)
      \/ ReadSR2 \/ WriteDR \/ ReadDR
      \/ UNCHANGED <<sr1, line>>
  BY DEF I2C_EV_IRQ_handling, EnterEventHandler, SendAddress, CheckADDR, DisableACK, SkipBTF,
         SkipRXNE, CloseTransmission, ReenableACK, SendByte, StoreByte
<1>7. ControlTypes'
  BY <1>1, <1>2, <1>4, <1>5, <1>6, AccessTypes DEF ControlTypes, CR1Bits
<1>8. RegistersOK'
  BY <1>1, <1>2, <1>4 DEF RegistersOK
<1> QED BY <1>3, <1>7, <1>8

LEMMA ErrorControl ==
  ASSUME Usage, IInv, I2C_ER_IRQ_handling
  PROVE  ControlTypes' /\ RegistersOK' /\ CountDown'
<1> USE ThreeErrors DEF handle, thread, history, line
<1>1. ControlTypes /\ RegistersOK /\ CountDown
  BY DEF IInv
<1>2. UNCHANGED <<pc, dir, arg, reg, onbus, size, rs, mishap, line>> /\ isr' \notin Reporting
  BY DEF I2C_ER_IRQ_handling, EnterErrorHandler, CheckError, ClearError, NextError, Step, Close,
         Reporting
<1>3. error' \in 1..3 /\ sr1' \subseteq sr1
  BY <1>1 DEF I2C_ER_IRQ_handling, EnterErrorHandler, CheckError, ClearError, ControlTypes
<1>4. cr1' \subseteq cr1 \cup {"ACK", "STOP"} /\ cr2' \subseteq cr2
  BY DEF I2C_ER_IRQ_handling, EnterErrorHandler, CheckError, ClearError, Close
<1>5. ControlTypes'
  BY <1>1, <1>2, <1>3, <1>4 DEF ControlTypes
<1> QED BY <1>1, <1>2, <1>5 DEF RegistersOK, CountDown

LEMMA PeripheralControl ==
  ASSUME Usage, IInv, Peripheral
  PROVE  ControlTypes' /\ RegistersOK' /\ CountDown'
<1>1. ControlTypes /\ RegistersOK /\ CountDown
  BY DEF IInv
<1> USE DEF Peripheral, StartCondition, StopCondition, AddressSent, Refused, ByteSent,
            ByteReceived, BusFault
<1>2. UNCHANGED <<size, rs, cr2, error>> /\ cr1' \subseteq cr1
  BY DEF handle, handler
<1>5. onbus' \in Nat
  <2>1. onbus' = onbus \/ onbus' = onbus + 1
    BY DEF history
  <2> QED BY <1>1, <2>1 DEF ControlTypes
<1>6. mishap' \in SUBSET Mishaps
  BY <1>1 DEF history, Note, ControlTypes, Mishaps
<1>7. shift' \in BOOLEAN /\ more' \in BOOLEAN
  <2>1. shift \in BOOLEAN /\ more \in BOOLEAN
    BY <1>1 DEF ControlTypes
  <2>2. CASE StartCondition \/ StopCondition \/ AddressSent
    BY <2>1, <2>2
  <2>3. CASE Refused
    BY <2>1, <2>3
  <2>4. CASE ByteSent
    BY <2>1, <2>4
  <2>5. CASE ByteReceived
    BY <2>5
  <2>6. CASE BusFault
    BY <2>1, <2>6
  <2> QED BY <2>2, <2>3, <2>4, <2>5, <2>6
<1>3. /\ sr1' \in SUBSET ({"SB", "ADDR", "BTF", "TxE", "RxNE"} \cup Faults)
      /\ bus' \in {"idle", "start", "address_tx", "address_rx", "addressed_tx",
                   "addressed_rx", "tx", "rx", "nack"}
  BY <1>1 DEF ControlTypes
<1>4. ControlTypes'
  BY <1>1, <1>2, <1>3, <1>5, <1>6, <1>7 DEF ControlTypes
<1> QED BY <1>1, <1>4, PeripheralKeeps DEF RegistersOK, CountDown

LEMMA CallControl ==
  ASSUME Usage, IInv, Application
  PROVE  ControlTypes' /\ RegistersOK' /\ CountDown'
<1> USE MaxFacts DEF handler, line, history
<1>1. ControlTypes /\ RegistersOK /\ CountDown /\ isr = "none"
  BY DEF IInv, Application, Call_IT, CallBlocking, At
<1>2. PICK n \in Lengths, d \in Dirs, r \in BOOLEAN : Call_IT(d, n, r) \/ CallBlocking(d, n, r)
  BY DEF Application
<1>3. /\ UNCHANGED <<cr1, cr2, sr1, bus, shift, more, isr, isr_reg, error, mishap>>
      /\ size' \in {n, size} /\ rs' = r /\ onbus' = 0 /\ dir' = d
      /\ \/ pc' = "load_START_IT" /\ arg' = arg
         \/ pc' = "load_START" /\ arg' = n
  BY <1>2 DEF Call_IT, CallBlocking, At
<1>4. ControlTypes'
  BY <1>1, <1>3 DEF ControlTypes
<1>5. RegistersOK'
  BY <1>1, <1>3 DEF RegistersOK, StoringCR1, StoringCR2, Reporting
<1>6. CountDown'
  BY <1>1, <1>3 DEF CountDown, Addressing, Receiving
<1> QED BY <1>4, <1>5, <1>6

LEMMA DriverControl ==
  ASSUME Usage, IInv, Driver
  PROVE  ControlTypes' /\ RegistersOK' /\ CountDown'
<1> USE DEF At, Load, StoreCR1, StoreCR2, Wait, SetCR1, handler
<1>1. ControlTypes /\ RegistersOK /\ CountDown
  BY DEF IInv
<1>2. UNCHANGED <<size, rs, error, onbus, isr, isr_reg, dir>>
  BY DEF Driver, Start_IT, Address, I2C_controller_send, I2C_controller_receive, handle, history
<1>3. mishap' \in SUBSET Mishaps
  BY <1>1 DEF Driver, Start_IT, Address, I2C_controller_send, I2C_controller_receive, history,
              Note, ControlTypes, Mishaps
<1>4. /\ cr1' \subseteq CR1Bits
      /\ pc' \in StoringCR1 => reg' \subseteq CR1Bits
  BY <1>1 DEF Driver, Start_IT, Address, I2C_controller_send, I2C_controller_receive,
              ControlTypes, RegistersOK, CR1Bits, StopAfter, StoringCR1
<1>5. /\ cr2' \subseteq CR2Bits
      /\ pc' \in StoringCR2 => reg' \subseteq CR2Bits
  BY <1>1 DEF Driver, Start_IT, Address, I2C_controller_send, I2C_controller_receive,
              ControlTypes, RegistersOK, CR2Bits, StoringCR2
<1>6. \/ \E d \in Dirs : WriteAddress(d)
      \/ ReadSR2 \/ WriteDR \/ ReadDR
      \/ UNCHANGED <<sr1, line>>
  BY <1>1 DEF Driver, Start_IT, Address, I2C_controller_send, I2C_controller_receive, CountDown
<1>7. ControlTypes'
  BY <1>1, <1>2, <1>3, <1>4, <1>5, <1>6, AccessTypes DEF ControlTypes, CR1Bits, CR2Bits
<1>8. RegistersOK'
  BY <1>1, <1>2, <1>4, <1>5 DEF RegistersOK
<1>9. CountDown'
  <2> USE MaxFacts DEF CountDown, Addressing, Receiving
  <2>1. CASE Start_IT
    BY <1>1, <2>1 DEF Start_IT
  <2>2. CASE Address
    BY <1>1, <2>2 DEF Address
  <2>3. CASE I2C_controller_send
    BY <1>1, <2>3 DEF I2C_controller_send
  <2>4. CASE I2C_controller_receive
    BY <1>1, <2>4 DEF I2C_controller_receive
  <2> QED BY <2>1, <2>2, <2>3, <2>4 DEF Driver
<1> QED BY <1>7, <1>8, <1>9

-----------------------------------------------------------------------------
LEMMA NextInvariant ==
  ASSUME Usage, IInv, [Next]_vars
  PROVE  IInv'
<1>1. TransferOK'
  BY TransferStep
<1>2. CASE UNCHANGED vars
  <2> USE <1>2 DEF IInv, vars, handle, line, handler, thread, history
  <2>1. ControlTypes'
    BY DEF ControlTypes
  <2>2. RegistersOK' /\ CountDown'
    BY DEF RegistersOK, CountDown
  <2> QED BY <1>1, <2>1, <2>2
<1>3. CASE I2C_EV_IRQ_handling
  BY <1>1, <1>3, EventControl DEF IInv
<1>4. CASE I2C_ER_IRQ_handling
  BY <1>1, <1>4, ErrorControl DEF IInv
<1>5. CASE Peripheral
  BY <1>1, <1>5, PeripheralControl DEF IInv
<1>6. CASE Application
  BY <1>1, <1>6, CallControl DEF IInv
<1>7. CASE Driver
  BY <1>1, <1>7, DriverControl DEF IInv
<1> QED BY <1>2, <1>3, <1>4, <1>5, <1>6, <1>7 DEF Next

\* In every reachable state of the driver, the handlers and the bus.
THEOREM Invariance ==
  ASSUME Usage
  PROVE  Spec => []IInv
<1>1. Init => IInv
  BY InitInvariant
<1>2. IInv /\ [Next]_vars => IInv'
  BY NextInvariant
<1> QED BY <1>1, <1>2, PTL DEF Spec

\* The types; no length is ever decremented below zero, in the thread or in a
\* handler.
THEOREM TypeCorrect ==
  ASSUME Usage
  PROVE  Spec => []TypeOK
<1>1. IInv => TypeOK
  BY DEF IInv, TransferOK, TransferTypes, ControlTypes, CountDown, TypeOK
<1> QED BY <1>1, Invariance, PTL

\* The handlers and the calls agree on the caller's buffer, whatever goes wrong
\* (I2C_controller_TXE_handler, I2C_controller_RXNE_handler).
THEOREM WithinBufferHolds ==
  ASSUME Usage
  PROVE  Spec => []WithinBuffer
<1>1. IInv => WithinBuffer
  BY DEF IInv, TransferOK
<1> QED BY <1>1, Invariance, PTL

\* A transfer that was accepted is reported once, also after an error.
THEOREM ReportedOnceHolds ==
  ASSUME Usage
  PROVE  Spec => []ReportedOnce
<1>1. IInv => ReportedOnce
  BY DEF IInv, TransferOK
<1> QED BY <1>1, Invariance, PTL

-----------------------------------------------------------------------------
(* The bus, while nothing has gone wrong: what has been on it, what the     *)
(* software has dealt with and what is left make up the transfer.           *)

\* Where the thread asks for an interrupt-driven transfer, enables its
\* interrupts, and leaves it to the handler; where a blocking call is until
\* its last byte has been dealt with.
Requesting == {"load_START_IT", "store_START_IT", "load_START", "store_START"}
Enabling == {"load_ITBUFEN", "store_ITBUFEN", "load_ITEVTEN", "store_ITEVTEN"}
Served == {"app", "load_ITERREN", "store_ITERREN"}
Sending == {"wait_TxE", "write", "wait_BTF", "stop_tx"}
Blocking == Addressing \cup Sending \cup Receiving

\* A transfer is in progress; it has been asked for, but its start condition
\* has not come and the bus is as the transfer before has left it.
Active == state # READY \/ pc \in Blocking
NotStarted == pc \in Requesting \/ "START" \in cr1

\* What is left of it, and a flag as a number.
LeftOver == IF state # READY THEN len[dir] ELSE arg
One(flag) == IF flag THEN 1 ELSE 0

\* The flags of SR1 say what the bus is doing.
FlagsOK ==
    /\ sr1 \cap Errors = {} /\ bus # "nack"
    /\ "SB" \in sr1 <=> bus = "start"
    /\ "ADDR" \in sr1 <=> bus \in {"addressed_tx", "addressed_rx"}
    /\ "TxE" \in sr1 => bus = "tx"
    /\ "BTF" \in sr1 => "TxE" \in sr1 /\ ~shift
    /\ bus = "tx" /\ ~shift => "TxE" \in sr1
    /\ shift => bus \in {"tx", "rx"}

\* The thread serves the transfer, or the handler does once it is enabled.
ServedByOne ==
    /\ state # READY => state = BUSY(dir) /\ pc \in Requesting \cup Enabling \cup Served
    /\ state = BUSY("rx") => size = want
    /\ pc \in Blocking \cup {"load_ACK", "store_ACK"} => state = READY
    /\ pc \notin Blocking => arg = 0
    /\ pc \in {"load_START_IT", "store_START_IT"} \cup Enabling => state # READY
    /\ "ITEVTEN" \in cr2 => state # READY /\ pc \in Served
    /\ pc = "store_ITBUFEN" => "ITEVTEN" \notin reg
    /\ isr # "none" => pc \in Served
    /\ isr \in {"SB", "ADDR", "disable_ACK", "BTF"} => state # READY
    /\ isr \notin {"error", "clear"}

\* The start condition is asked for once, by the thread.
StartOK ==
    /\ pc \in Requesting => "START" \notin cr1
    /\ "START" \in cr1 => isr \notin Reporting /\ (state # READY \/ pc = "wait_SB")
    /\ pc \in {"store_START_IT", "store_START"} => "START" \in reg
    /\ pc = "store_ACK" => "START" \notin reg
    /\ isr \in Reporting => "START" \notin isr_reg

ControlPart == FlagsOK /\ ServedByOne /\ StartOK

\* Where a blocking call is, there the bus is.
CallOK ==
    /\ pc = "wait_SB" => "START" \in cr1 \/ bus = "start"
    /\ pc = "address" => bus = "start"
    /\ pc = "wait_ADDR" =>
          bus \in IF dir = "tx" THEN {"address_tx", "addressed_tx"}
                  ELSE {"address_rx", "addressed_rx"}
    /\ pc \in {"single_NACK", "clear_ADDR"} =>
          bus = IF dir = "tx" THEN "addressed_tx" ELSE "addressed_rx"
    /\ pc = "clear_ADDR" /\ dir = "rx" /\ arg = 1 => "ACK" \notin cr1
    /\ pc \in Sending => bus = "tx" /\ dir = "tx"
    /\ pc = "write" => "TxE" \in sr1
    /\ pc \in {"wait_BTF", "stop_tx"} => arg = 0
    /\ pc = "stop_tx" => "BTF" \in sr1
    /\ pc \in Receiving => dir = "rx" /\ bus \in {"rx", "idle"}
    /\ pc \in Receiving \ {"wait_RxNE"} => "RxNE" \in sr1
    /\ pc = "NACK" => arg = 2
    /\ pc = "stop_rx" => arg \in {1, 2}
    /\ pc \in {"stop_rx", "read"} /\ arg = 2 => "ACK" \notin cr1

\* A blocking reception asks for the stop condition before it reads its last
\* two bytes, or its only one.
StopAskedFor == (pc = "read" /\ arg <= 2) \/ (pc = "wait_RxNE" /\ arg = 1 /\ want > 1)

\* A stop condition is on its way only at the end of a transfer or after it.
StopOK ==
    /\ "STOP" \in cr1 => bus \in {"tx", "rx"} /\ (NotStarted \/ ~Active \/ StopAskedFor)
    /\ pc \in Receiving /\ ~StopAskedFor => bus = "rx"

\* Nothing of the transfer has been on the bus.
Unmoved ==
    Active /\ onbus = 0 /\ LeftOver = want /\ want >= 1 /\ "RxNE" \notin sr1 /\ ~shift

\* Between two transfers the bus is free, or a repeated start will follow the
\* last byte, which has been sent; the handler sends none before that.
BeforeStart ==
    /\ NotStarted => Unmoved /\ bus \in {"idle", "tx", "rx"}
    /\ bus = "tx" /\ (NotStarted \/ ~Active) => "BTF" \in sr1
    /\ isr = "TXE" /\ state = BUSY("tx") /\ bus = "tx" => ~NotStarted

PlacePart == CallOK /\ StopOK /\ BeforeStart

\* The address follows the start condition, before any byte.
AddressPhase ==
    /\ bus \in {"start", "address_tx", "addressed_tx", "address_rx", "addressed_rx"} =>
          ~NotStarted /\ Unmoved
    /\ bus \in {"address_tx", "addressed_tx"} => dir = "tx"
    /\ bus \in {"address_rx", "addressed_rx"} => dir = "rx"

\* Every byte of a transmission has been sent, is being sent, is in DR or is
\* left; the clock is stretched only after the last.
SendPhase ==
    bus = "tx" /\ ~NotStarted =>
        /\ dir = "tx"
        /\ want = onbus + One(shift) + One("TxE" \notin sr1) + LeftOver
        /\ "BTF" \in sr1 => LeftOver = 0

\* Every byte of a reception has been read, is in DR or is left, and one is
\* being received only if it is left: ACK has been withdrawn for the last.
ReceivePhase ==
    /\ bus = "rx" /\ ~NotStarted => dir = "rx"
    /\ dir = "rx" /\ bus \in {"rx", "idle"} /\ ~NotStarted =>
        /\ onbus + LeftOver = want + One("RxNE" \in sr1)
        /\ LeftOver >= One("RxNE" \in sr1) + One(shift)
        /\ LeftOver <= want
        /\ shift /\ LeftOver = 1 /\ isr # "disable_ACK" => "ACK" \notin cr1
    /\ "RxNE" \in sr1 => ~NotStarted /\ dir = "rx" /\ bus \in {"rx", "idle"}

\* A transfer is reported when all its bytes have been on the bus.
Whole == isr \in Reporting => onbus = want

CountPart == AddressPhase /\ SendPhase /\ ReceivePhase /\ Whole

\* The invariant of the bus, and the inductive one.
Healthy == ControlPart /\ PlacePart /\ CountPart
BusInv == mishap = {} => Healthy

-----------------------------------------------------------------------------
(* The definitions used everywhere below.                                  *)
USE DEF handle, line, handler, thread, history, READY, BUSY, Dirs, Note, Step, At,
        Reporting, Addressing, Receiving, Requesting, Enabling, Served, Sending, Blocking

\* The types that the counting needs.
LEMMA Numbers ==
  ASSUME Usage, IInv
  PROVE  /\ onbus \in Nat /\ want \in Nat /\ arg \in Nat /\ len \in [Dirs -> Nat]
         /\ dir \in Dirs /\ state \in {READY, "BUSY_TX", "BUSY_RX"} /\ shift \in BOOLEAN
         /\ pc \in Addressing \cup Receiving \cup {"write"} => arg >= 1
BY MaxFacts DEF IInv, TransferOK, TransferTypes, ControlTypes, CountDown

LEMMA InitHealthy ==
  ASSUME Init
  PROVE  Healthy
<1> USE DEF Init, Active, NotStarted, LeftOver, One, StopAskedFor, Unmoved
<1>1. ControlPart
  BY DEF ControlPart, FlagsOK, ServedByOne, StartOK, Errors
<1>2. PlacePart
  BY DEF PlacePart, CallOK, StopOK, BeforeStart
<1>3. CountPart
  BY DEF CountPart, AddressPhase, SendPhase, ReceivePhase, Whole
<1> QED BY <1>1, <1>2, <1>3 DEF Healthy

\* What has gone wrong is not forgotten.
LEMMA Remembered ==
  ASSUME [Next]_vars, mishap' = {}
  PROVE  mishap = {}
<1>1. CASE UNCHANGED vars
  BY <1>1 DEF vars
<1>2. CASE Peripheral
  BY <1>2 DEF Peripheral, StartCondition, StopCondition, AddressSent, Refused, ByteSent,
              ByteReceived, BusFault
<1>3. CASE I2C_EV_IRQ_handling
  BY <1>3 DEF I2C_EV_IRQ_handling, EnterEventHandler, SendAddress, CheckADDR, DisableACK,
              CloseTransmission, SkipBTF, ReenableACK, SendByte, StoreByte, SkipRXNE
<1>4. CASE I2C_ER_IRQ_handling
  BY <1>4 DEF I2C_ER_IRQ_handling, EnterErrorHandler, CheckError, ClearError
<1>5. CASE Application
  BY <1>5 DEF Application, Call_IT, CallBlocking
<1>6. CASE Driver
  BY <1>6 DEF Driver, Start_IT, Address, I2C_controller_send, I2C_controller_receive,
              Load, StoreCR1, StoreCR2, Wait, SetCR1
<1> QED BY <1>1, <1>2, <1>3, <1>4, <1>5, <1>6 DEF Next

-----------------------------------------------------------------------------
(* The peripheral and the bus.                                             *)

\* A byte has been sent: the next one follows from DR or the clock is stretched.
LEMMA ByteSentFlags ==
  ASSUME Healthy, ByteSent
  PROVE  FlagsOK'
<1>1. /\ bus = "tx" /\ shift /\ bus' = bus
      /\ shift' = ("TxE" \notin sr1)
      /\ sr1' = sr1 \cup {IF "TxE" \in sr1 THEN "BTF" ELSE "TxE"}
  BY DEF ByteSent
<1>2. FlagsOK
  BY DEF Healthy, ControlPart
<1>3. CASE "TxE" \in sr1
  <2>1. "TxE" \in sr1' /\ ~shift'
    BY <1>1, <1>3
  <2> QED BY <1>1, <1>2, <1>3, <2>1 DEF FlagsOK, Errors
<1>4. CASE "TxE" \notin sr1
  <2>1. "TxE" \in sr1' /\ "BTF" \notin sr1' /\ shift'
    BY <1>1, <1>2, <1>4 DEF FlagsOK
  <2> QED BY <1>1, <1>2, <1>4, <2>1 DEF FlagsOK, Errors
<1> QED BY <1>3, <1>4

\* A byte has been sent: what is still to be sent is one less.
LEMMA ByteSentCounts ==
  ASSUME Usage, IInv, Healthy, mishap' = {}, ByteSent
  PROVE  SendPhase'
<1> USE DEF One
<1>1. /\ bus = "tx" /\ shift /\ bus' = bus
      /\ UNCHANGED <<cr1, pc, state, dir, arg, len, want>>
      /\ onbus' = onbus + 1 /\ shift' = ("TxE" \notin sr1)
      /\ sr1' = sr1 \cup {IF "TxE" \in sr1 THEN "BTF" ELSE "TxE"}
      /\ ~("TxE" \in sr1 /\ LeftToSend > 0)
  BY DEF ByteSent
<1>2. LeftOver' = LeftOver /\ NotStarted' = NotStarted
  BY <1>1 DEF LeftOver, NotStarted
<1> SUFFICES ASSUME ~NotStarted
             PROVE  SendPhase'
  BY <1>2 DEF SendPhase
<1>3. /\ dir = "tx" /\ LeftOver \in Nat /\ onbus \in Nat /\ want \in Nat
      /\ want = onbus + 1 + One("TxE" \notin sr1) + LeftOver
  BY <1>1, Numbers DEF Healthy, CountPart, SendPhase, LeftOver
<1>4. LeftToSend = LeftOver
  <2>1. state = READY \/ state = BUSY("tx")
    BY <1>3 DEF Healthy, ControlPart, ServedByOne
  <2> QED BY <2>1, <1>3 DEF LeftToSend, LeftOver
<1>5. CASE "TxE" \in sr1
  <2>1. LeftOver = 0 /\ want = onbus + 1
    BY <1>1, <1>3, <1>4, <1>5
  <2>2. "TxE" \in sr1' /\ ~shift'
    BY <1>1, <1>5
  <2> QED BY <1>1, <1>2, <1>3, <2>1, <2>2 DEF SendPhase
<1>6. CASE "TxE" \notin sr1
  <2>1. want = onbus + 2 + LeftOver
    BY <1>3, <1>6
  <2>2. "TxE" \in sr1' /\ "BTF" \notin sr1' /\ shift'
    BY <1>1, <1>6 DEF Healthy, ControlPart, FlagsOK
  <2> QED BY <1>1, <1>2, <1>3, <2>1, <2>2 DEF SendPhase
<1> QED BY <1>5, <1>6

\* A byte has been received, and the next one follows only if it is wanted.
LEMMA ByteReceivedCounts ==
  ASSUME Usage, IInv, Healthy, mishap' = {}, ByteReceived
  PROVE  ReceivePhase'
<1> USE DEF One
<1>1. /\ bus = "rx" /\ shift /\ bus' = bus
      /\ UNCHANGED <<cr1, pc, isr, state, dir, arg, len, want>>
      /\ onbus' = onbus + 1 /\ shift' = ("ACK" \in cr1 /\ "RxNE" \notin sr1)
      /\ "RxNE" \notin sr1 /\ isr # "disable_ACK" /\ sr1' = sr1 \cup {"RxNE"}
  BY DEF ByteReceived
<1>2. LeftOver' = LeftOver /\ NotStarted' = NotStarted
  BY <1>1 DEF LeftOver, NotStarted
<1>3. ~NotStarted
  BY <1>1 DEF Healthy, PlacePart, BeforeStart, Unmoved
<1>4. /\ dir = "rx" /\ LeftOver \in Nat /\ onbus \in Nat /\ want \in Nat
      /\ onbus + LeftOver = want /\ LeftOver >= 1 /\ LeftOver <= want
      /\ LeftOver = 1 => "ACK" \notin cr1
  BY <1>1, <1>3, Numbers DEF Healthy, CountPart, ReceivePhase, LeftOver
<1>5. onbus' + LeftOver = want + 1
  BY <1>1, <1>4
<1>6. CASE "ACK" \in cr1
  <2>1. shift' /\ LeftOver # 1
    BY <1>1, <1>4, <1>6
  <2>2. LeftOver >= 2
    BY <1>4, <2>1
  <2> QED BY <1>1, <1>2, <1>3, <1>4, <1>5, <1>6, <2>1, <2>2 DEF ReceivePhase
<1>7. CASE "ACK" \notin cr1
  <2>1. ~shift'
    BY <1>1, <1>7
  <2> QED BY <1>1, <1>2, <1>3, <1>4, <1>5, <1>7, <2>1 DEF ReceivePhase
<1> QED BY <1>6, <1>7

\* The peripheral's steps.
LEMMA PeripheralHealthy ==
  ASSUME Usage, IInv, Healthy, mishap' = {}, Peripheral
  PROVE  Healthy'
<1> USE Numbers, SMTT(30) DEF Healthy, ControlPart, PlacePart, CountPart, FlagsOK, ServedByOne,
        StartOK, CallOK, StopOK, BeforeStart, AddressPhase, SendPhase, ReceivePhase, Whole,
        Active, NotStarted, LeftOver, One, StopAskedFor, Unmoved, Errors
<1>1. CASE StartCondition
  <2> USE <1>1 DEF StartCondition
  <2>1. ~shift /\ "RxNE" \notin sr1 /\ "STOP" \notin cr1 /\ "ADDR" \notin sr1
    OBVIOUS
  <2>2. FlagsOK'
    BY <2>1
  <2>3. ServedByOne' /\ StartOK' /\ PlacePart'
    OBVIOUS
  <2>4. CountPart'
    OBVIOUS
  <2> QED BY <2>2, <2>3, <2>4
<1>2. CASE StopCondition
  <2> USE <1>2 DEF StopCondition
  <2>1. ControlPart' /\ PlacePart'
    OBVIOUS
  <2>2. CountPart'
    OBVIOUS
  <2> QED BY <2>1, <2>2
<1>3. CASE AddressSent
  <2> USE <1>3 DEF AddressSent
  <2>1. ControlPart' /\ PlacePart'
    OBVIOUS
  <2>2. CountPart'
    OBVIOUS
  <2> QED BY <2>1, <2>2
<1>4. CASE Refused \/ BusFault
  BY <1>4 DEF Refused, BusFault
<1>5. CASE ByteSent
  <2> USE <1>5 DEF ByteSent
  <2>1. ControlPart'
    <3>1. FlagsOK'
      BY ByteSentFlags
    <3>2. ServedByOne' /\ StartOK'
      OBVIOUS
    <3> QED BY <3>1, <3>2
  <2>2. PlacePart'
    OBVIOUS
  <2>3. SendPhase'
    BY ByteSentCounts
  <2>4. AddressPhase' /\ ReceivePhase' /\ Whole'
    OBVIOUS
  <2> QED BY <2>1, <2>2, <2>3, <2>4
<1>6. CASE ByteReceived
  <2> USE <1>6 DEF ByteReceived
  <2>1. ControlPart' /\ PlacePart'
    OBVIOUS
  <2>2. ReceivePhase'
    BY ByteReceivedCounts
  <2>3. AddressPhase' /\ SendPhase' /\ Whole'
    OBVIOUS
  <2> QED BY <2>1, <2>2, <2>3
<1> QED BY <1>1, <1>2, <1>3, <1>4, <1>5, <1>6 DEF Peripheral

-----------------------------------------------------------------------------
(* The handlers.                                                           *)

\* A byte has been written to DR: what is still to be sent is the same.
LEMMA WriteCounts ==
  ASSUME Usage, IInv, Healthy, WriteDR, "TxE" \in sr1,
         UNCHANGED <<cr1, dir, want, onbus>>, pc' \notin Requesting, ~NotStarted,
         LeftOver' = LeftOver - 1
  PROVE  SendPhase'
<1> USE DEF One
<1>1. bus = "tx" /\ bus' = bus
  BY DEF Healthy, ControlPart, FlagsOK, WriteDR
<1>2. /\ dir = "tx" /\ LeftOver \in Nat /\ onbus \in Nat /\ want \in Nat /\ shift \in BOOLEAN
      /\ want = onbus + One(shift) + LeftOver
  BY <1>1, Numbers DEF Healthy, CountPart, SendPhase, LeftOver
<1>3. "BTF" \notin sr1'
  BY <1>1 DEF WriteDR
<1>4. CASE shift
  <2>1. "TxE" \notin sr1' /\ shift'
    BY <1>1, <1>4 DEF WriteDR
  <2> QED BY <1>1, <1>2, <1>3, <1>4, <2>1 DEF SendPhase
<1>5. CASE ~shift
  <2>1. "TxE" \in sr1' /\ shift'
    BY <1>1, <1>5 DEF WriteDR
  <2> QED BY <1>1, <1>2, <1>3, <1>5, <2>1 DEF SendPhase
<1> QED BY <1>4, <1>5

\* The event handler's steps.
LEMMA EventHealthy ==
  ASSUME Usage, IInv, Healthy, mishap' = {}, I2C_EV_IRQ_handling
  PROVE  Healthy'
<1> USE Numbers, SMTT(30) DEF Healthy, ControlPart, PlacePart, CountPart, FlagsOK, ServedByOne,
        StartOK, CallOK, StopOK, BeforeStart, AddressPhase, SendPhase, ReceivePhase, Whole,
        Active, NotStarted, LeftOver, One, StopAskedFor, Unmoved, Errors, MSL,
        WriteAddress, ReadSR2, Close, StopAfter
<1>1. CASE EnterEventHandler \/ SendAddress \/ SkipBTF \/ SkipRXNE
  <2> USE <1>1 DEF EnterEventHandler, SendAddress, SkipBTF, SkipRXNE, EventRequested,
                   TransmissionOver, ByteToStore
  <2>1. ControlPart'
    OBVIOUS
  <2>2. PlacePart'
    OBVIOUS
  <2>3. CountPart'
    OBVIOUS
  <2> QED BY <2>1, <2>2, <2>3
<1>2. CASE CheckADDR \/ DisableACK
  <2> USE <1>2 DEF CheckADDR, DisableACK
  <2>1. ControlPart'
    OBVIOUS
  <2>2. PlacePart'
    OBVIOUS
  <2>3. CountPart'
    OBVIOUS
  <2> QED BY <2>1, <2>2, <2>3
<1>3. CASE CloseTransmission
  <2> USE <1>3 DEF CloseTransmission, TransmissionOver
  <2>1. ControlPart'
    OBVIOUS
  <2>2. PlacePart'
    OBVIOUS
  <2>3. CountPart'
    OBVIOUS
  <2> QED BY <2>1, <2>2, <2>3
<1>4. CASE \E d \in Dirs : ReenableACK(d)
  <2> USE <1>4 DEF ReenableACK
  <2>1. ControlPart'
    OBVIOUS
  <2>2. PlacePart'
    OBVIOUS
  <2>3. CountPart'
    OBVIOUS
  <2> QED BY <2>1, <2>2, <2>3
<1>5. CASE SendByte
  <2> USE <1>5 DEF SendByte, WriteDR
  <2>1. ControlPart'
    OBVIOUS
  <2>2. PlacePart'
    OBVIOUS
  <2>3. SendPhase'
    BY WriteCounts
  <2>4. AddressPhase' /\ ReceivePhase' /\ Whole'
    OBVIOUS
  <2> QED BY <2>1, <2>2, <2>3, <2>4
<1>6. CASE StoreByte
  <2> USE <1>6 DEF StoreByte, ByteToStore, ReadDR, AckFor
  <2>1. ControlPart'
    OBVIOUS
  <2>2. PlacePart'
    OBVIOUS
  <2>3. CountPart'
    OBVIOUS
  <2> QED BY <2>1, <2>2, <2>3
<1> QED BY <1>1, <1>2, <1>3, <1>4, <1>5, <1>6 DEF I2C_EV_IRQ_handling

\* The error handler is not entered.
LEMMA ErrorHealthy ==
  ASSUME Healthy, I2C_ER_IRQ_handling
  PROVE  FALSE
BY DEF I2C_ER_IRQ_handling, EnterErrorHandler, CheckError, ClearError, ErrorRequested, Healthy,
       ControlPart, FlagsOK, ServedByOne

-----------------------------------------------------------------------------
(* The thread.                                                             *)

\* A call that the application makes.
LEMMA CallHealthy ==
  ASSUME Usage, IInv, Healthy, mishap' = {}, Application
  PROVE  Healthy'
<1>1. PICK n \in Lengths, d \in Dirs, r \in BOOLEAN : Call_IT(d, n, r) \/ CallBlocking(d, n, r)
  BY DEF Application
<1>2. /\ state = READY /\ pc = "app" /\ isr = "none" /\ n \in Nat \ {0}
      /\ UNCHANGED <<cr1, cr2, sr1, bus, shift, more, isr, isr_reg, reg>>
      /\ want' = n /\ onbus' = 0 /\ dir' = d
  BY <1>1, I2CAssumption DEF Call_IT, CallBlocking
<1>3. /\ "START" \notin cr1 /\ "RxNE" \notin sr1 /\ "SB" \notin sr1 /\ "ADDR" \notin sr1
      /\ bus \in {"idle", "tx", "rx"} /\ ~shift
  <2> USE <1>2, Numbers DEF Healthy, ControlPart, PlacePart, CountPart, Active, NotStarted,
                            LeftOver, One
  <2>1. ~Active /\ "START" \notin cr1 /\ arg = 0 /\ LeftOver = 0
    BY DEF ServedByOne, StartOK
  <2>2. bus \in {"idle", "tx", "rx"} /\ "SB" \notin sr1 /\ "ADDR" \notin sr1
    BY <2>1 DEF FlagsOK, AddressPhase, Unmoved, IInv, ControlTypes
  <2>3. "RxNE" \notin sr1
    BY <2>1 DEF ReceivePhase
  <2>4. ~shift
    BY <2>1, <2>2 DEF FlagsOK, ReceivePhase, BeforeStart
  <2> QED BY <2>1, <2>2, <2>3, <2>4
<1> USE Numbers, SMTT(30) DEF Healthy, ControlPart, PlacePart, CountPart, FlagsOK, ServedByOne,
        StartOK, CallOK, StopOK, BeforeStart, AddressPhase, SendPhase, ReceivePhase, Whole,
        Active, NotStarted, LeftOver, One, StopAskedFor, Unmoved, Errors
<1>4. CASE Call_IT(d, n, r)
  <2> USE <1>2, <1>3, <1>4 DEF Call_IT
  <2>1. ControlPart'
    OBVIOUS
  <2>2. PlacePart'
    OBVIOUS
  <2>3. CountPart'
    OBVIOUS
  <2> QED BY <2>1, <2>2, <2>3
<1>5. CASE CallBlocking(d, n, r)
  <2> USE <1>2, <1>3, <1>5 DEF CallBlocking
  <2>1. ControlPart'
    OBVIOUS
  <2>2. PlacePart'
    OBVIOUS
  <2>3. CountPart'
    OBVIOUS
  <2> QED BY <2>1, <2>2, <2>3
<1> QED BY <1>1, <1>4, <1>5

\* The first statements of an interrupt-driven transfer.
LEMMA StartHealthy ==
  ASSUME Usage, IInv, Healthy, mishap' = {}, Start_IT
  PROVE  Healthy'
<1> USE Numbers, SMTT(30) DEF Healthy, ControlPart, PlacePart, CountPart, FlagsOK, ServedByOne,
        StartOK, CallOK, StopOK, BeforeStart, AddressPhase, SendPhase, ReceivePhase, Whole,
        Active, NotStarted, LeftOver, One, StopAskedFor, Unmoved, Errors,
        Start_IT, Load, StoreCR1, StoreCR2
<1>1. ControlPart'
  OBVIOUS
<1>2. PlacePart'
  OBVIOUS
<1>3. CountPart'
  OBVIOUS
<1> QED BY <1>1, <1>2, <1>3

\* The start condition and the address of a blocking call.
LEMMA AddressHealthy ==
  ASSUME Usage, IInv, Healthy, mishap' = {}, Address
  PROVE  Healthy'
<1> USE Numbers, SMTT(30) DEF Healthy, ControlPart, PlacePart, CountPart, FlagsOK, ServedByOne,
        StartOK, CallOK, StopOK, BeforeStart, AddressPhase, SendPhase, ReceivePhase, Whole,
        Active, NotStarted, LeftOver, One, StopAskedFor, Unmoved, Errors,
        Address, Load, StoreCR1, Wait, SetCR1, WriteAddress, ReadSR2
<1>1. ControlPart'
  OBVIOUS
<1>2. PlacePart'
  OBVIOUS
<1>3. CountPart'
  OBVIOUS
<1> QED BY <1>1, <1>2, <1>3

\* The bytes of a blocking transmission.
LEMMA SendHealthy ==
  ASSUME Usage, IInv, Healthy, mishap' = {}, I2C_controller_send
  PROVE  Healthy'
<1> USE Numbers, SMTT(30) DEF Healthy, ControlPart, PlacePart, CountPart, FlagsOK, ServedByOne,
        StartOK, CallOK, StopOK, BeforeStart, AddressPhase, SendPhase, ReceivePhase, Whole,
        Active, NotStarted, LeftOver, One, StopAskedFor, Unmoved, Errors,
        I2C_controller_send, Wait, SetCR1, WriteDR, StopAfter
<1>1. ControlPart'
  OBVIOUS
<1>2. PlacePart'
  OBVIOUS
<1>3. SendPhase'
  <2>1. CASE pc = "write"
    BY <2>1, WriteCounts
  <2>2. CASE pc # "write"
    BY <2>2
  <2> QED BY <2>1, <2>2
<1>4. AddressPhase' /\ ReceivePhase' /\ Whole'
  OBVIOUS
<1> QED BY <1>1, <1>2, <1>3, <1>4

\* The bytes of a blocking reception.
LEMMA ReceiveHealthy ==
  ASSUME Usage, IInv, Healthy, mishap' = {}, I2C_controller_receive
  PROVE  Healthy'
<1> USE Numbers, SMTT(30) DEF Healthy, ControlPart, PlacePart, CountPart, FlagsOK, ServedByOne,
        StartOK, CallOK, StopOK, BeforeStart, AddressPhase, SendPhase, ReceivePhase, Whole,
        Active, NotStarted, LeftOver, One, StopAskedFor, Unmoved, Errors,
        I2C_controller_receive, Load, StoreCR1, Wait, SetCR1, ReadDR, StopAfter
<1>1. ControlPart'
  OBVIOUS
<1>2. PlacePart'
  OBVIOUS
<1>3. CountPart'
  OBVIOUS
<1> QED BY <1>1, <1>2, <1>3

-----------------------------------------------------------------------------
\* No step makes the software and the bus disagree, unless it is noted.
LEMMA BusInvStep ==
  ASSUME Usage, IInv, BusInv, [Next]_vars
  PROVE  BusInv'
<1> SUFFICES ASSUME mishap' = {}
             PROVE  Healthy'
  BY DEF BusInv
<1>1. Healthy
  BY Remembered DEF BusInv
<1>2. CASE UNCHANGED vars
  <2> USE <1>1, <1>2 DEF vars, Healthy, Active, NotStarted, LeftOver, One, StopAskedFor, Unmoved
  <2>1. ControlPart'
    BY DEF ControlPart, FlagsOK, ServedByOne, StartOK
  <2>2. PlacePart'
    BY DEF PlacePart, CallOK, StopOK, BeforeStart
  <2>3. CountPart'
    BY DEF CountPart, AddressPhase, SendPhase, ReceivePhase, Whole
  <2> QED BY <2>1, <2>2, <2>3
<1>3. CASE Peripheral
  BY <1>1, <1>3, PeripheralHealthy
<1>4. CASE I2C_EV_IRQ_handling
  BY <1>1, <1>4, EventHealthy
<1>5. CASE I2C_ER_IRQ_handling
  BY <1>1, <1>5, ErrorHealthy
<1>6. CASE Application
  BY <1>1, <1>6, CallHealthy
<1>7. CASE Driver
  BY <1>1, <1>7, StartHealthy, AddressHealthy, SendHealthy, ReceiveHealthy DEF Driver
<1> QED BY <1>2, <1>3, <1>4, <1>5, <1>6, <1>7 DEF Next

\* In every reachable state in which nothing has gone wrong, the software and
\* the bus agree on the transfer.
THEOREM BusInvariance ==
  ASSUME Usage
  PROVE  Spec => []BusInv
<1>1. Init => BusInv
  BY InitHealthy DEF BusInv
<1>2. IInv /\ BusInv /\ [Next]_vars => BusInv'
  BY BusInvStep
<1> QED BY <1>1, <1>2, Invariance, PTL DEF Spec

\* The target never sends a byte that nobody asked for, for any lengths, as
\* long as the software keeps up with the bus: ACK is withdrawn before the last
\* byte ends (I2C_controller_receive, I2C_controller_RXNE_handler).
THEOREM NoUnwantedByteHolds ==
  ASSUME Usage
  PROVE  Spec => []NoUnwantedByte
<1>1. IInv /\ BusInv => NoUnwantedByte
  <2> SUFFICES ASSUME IInv, Healthy, dir = "rx"
               PROVE  onbus <= want
    BY Numbers DEF BusInv, NoUnwantedByte, IInv
  <2> USE Numbers DEF Healthy, CountPart
  <2>1. CASE NotStarted
    BY <2>1 DEF PlacePart, BeforeStart, Unmoved
  <2>2. CASE ~NotStarted /\ bus \in {"rx", "idle"}
    BY <2>2 DEF ReceivePhase, One, LeftOver
  <2>3. CASE ~NotStarted /\ bus \notin {"rx", "idle"}
    BY <2>3 DEF AddressPhase, Unmoved, SendPhase, ControlPart, FlagsOK, IInv, ControlTypes
  <2> QED BY <2>1, <2>2, <2>3
<1> QED BY <1>1, Invariance, BusInvariance, PTL

\* All bytes of a transfer have been on the bus when it is reported (BTF in
\* I2C_EV_IRQ_handling, the last byte in I2C_controller_RXNE_handler).
THEOREM WholeTransferReportedHolds ==
  ASSUME Usage
  PROVE  Spec => []WholeTransferReported
<1>1. BusInv => WholeTransferReported
  BY DEF BusInv, Healthy, CountPart, Whole, WholeTransferReported
<1> QED BY <1>1, BusInvariance, PTL

\* A step that asks for the stop condition when none is pending.
LEMMA StopStep ==
  ASSUME Usage, IInv, Healthy, [Next]_vars,
         "STOP" \notin cr1, "STOP" \in cr1', mishap' = {}
  PROVE  ~rs /\ onbus >= (IF dir = "tx" THEN want ELSE want - 1)
<1> USE Numbers DEF Healthy, ControlPart, CountPart, LeftOver, One, NotStarted
<1>1. ~Peripheral /\ ~Application /\ ~Start_IT /\ ~Address /\ ~UNCHANGED vars
  BY DEF vars, Peripheral, StartCondition, StopCondition, AddressSent, Refused, ByteSent,
         ByteReceived, BusFault, Application, Call_IT, CallBlocking, Start_IT, Address, Load,
         StoreCR1, StoreCR2, Wait, SetCR1
<1>2. ~I2C_ER_IRQ_handling
  BY ErrorHealthy
<1>3. CASE I2C_EV_IRQ_handling
  <2>1. CloseTransmission \/ StoreByte
    BY <1>3 DEF I2C_EV_IRQ_handling, EnterEventHandler, SendAddress, CheckADDR, DisableACK,
                SkipBTF, ReenableACK, SendByte, SkipRXNE
  <2>2. CASE CloseTransmission
    <3>1. /\ state = BUSY("tx") /\ "TxE" \in sr1 /\ "BTF" \in sr1
          /\ isr = "BTF" /\ ~rs /\ "START" \notin cr1
      BY <2>2 DEF CloseTransmission, StopAfter, TransmissionOver
    <3>2. dir = "tx" /\ bus = "tx" /\ ~shift /\ ~NotStarted
      BY <3>1 DEF FlagsOK, ServedByOne
    <3>3. want = onbus
      BY <3>1, <3>2 DEF SendPhase
    <3> QED BY <3>1, <3>3
  <2>3. CASE StoreByte
    BY <2>3 DEF StoreByte, ByteToStore, StopAfter, AckFor, ReceivePhase, ServedByOne
  <2> QED BY <2>1, <2>2, <2>3
<1>4. CASE I2C_controller_send
  BY <1>4 DEF I2C_controller_send, Wait, SetCR1, StopAfter, SendPhase, FlagsOK, ServedByOne,
              PlacePart, CallOK, StartOK
<1>5. CASE I2C_controller_receive
  BY <1>5 DEF I2C_controller_receive, Wait, SetCR1, Load, StoreCR1, StopAfter, ReceivePhase,
              PlacePart, CallOK, StartOK, ServedByOne
<1> QED BY <1>1, <1>2, <1>3, <1>4, <1>5 DEF Next, Driver

\* A stop condition is asked for only when no repeated start is to follow, and
\* no byte but the one being received is missing (I2C_generate_stop in the
\* blocking calls and in the handlers).
THEOREM StopOnlyAtEndHolds ==
  ASSUME Usage
  PROVE  Spec => StopOnlyAtEnd
<1> DEFINE StopAtEnd ==
       "STOP" \notin cr1 /\ "STOP" \in cr1' /\ mishap' = {} =>
         ~rs /\ onbus >= (IF dir = "tx" THEN want ELSE want - 1)
<1>1. IInv /\ BusInv /\ [Next]_vars => StopAtEnd
  BY StopStep, Remembered DEF BusInv
<1>2. IInv /\ BusInv /\ [Next]_vars => [StopAtEnd]_vars
  BY <1>1
<1> HIDE DEF StopAtEnd
<1>3. Spec => [][StopAtEnd]_vars
  BY <1>2, Invariance, BusInvariance, PTL DEF Spec
<1> QED BY <1>3 DEF StopAtEnd, StopOnlyAtEnd
==============================================================================
