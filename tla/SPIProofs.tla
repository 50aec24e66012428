------------------------------- MODULE SPIProofs -------------------------------
(***************************************************************************)
(* Proofs about SPI, for every set of lengths, width of the length and     *)
(* frame size, when the application uses the interrupt-driven transfers of *)
(* one direction and asks for whole frames.  With both directions the CR2  *)
(* race, with a length of zero the wrapped length, breaks these theorems.  *)
(***************************************************************************)
EXTENDS SPI, TLAPS

\* How the application uses the driver.
Usage ==
    /\ \E d \in Dirs : Uses = {d}
    /\ \A n \in Lengths : n >= Unit /\ n % Unit = 0

-----------------------------------------------------------------------------
\* A number of whole frames less one is zero or a number of whole frames.
LEMMA LessFrames ==
  ASSUME NEW n \in 0 .. LenMod-1, n >= Unit, n % Unit = 0
  PROVE  /\ Less(n) = n - Unit
         /\ Less(n) \in 0 .. LenMod-1
         /\ Less(n) # 0 => Less(n) >= Unit
         /\ Less(n) % Unit = 0
<1> USE SPIAssumption
<1>1. Less(n) = n - Unit
  BY DEF Less
<1>2. CASE Unit = 1
  BY <1>1, <1>2
<1>3. CASE Unit = 2
  <2>1. n % 2 = 0 /\ n >= 2 /\ n \in Nat
    BY <1>3
  <2>2. (n - 2) % 2 = 0 /\ (n - 2 # 0 => n - 2 >= 2)
    BY <2>1
  <2> QED BY <1>1, <1>3, <2>1, <2>2
<1> QED BY <1>2, <1>3

\* Unsigned subtraction stays in range, also when it wraps.
LEMMA LessInRange ==
  ASSUME NEW n \in 0 .. LenMod-1
  PROVE  Less(n) \in 0 .. LenMod-1
BY SPIAssumption DEF Less

\* The constants of a length in use.
LEMMA LengthFacts ==
  ASSUME Usage, NEW n \in Lengths
  PROVE  n \in 1 .. LenMod-1 /\ n >= Unit /\ n % Unit = 0
BY SPIAssumption DEF Usage

-----------------------------------------------------------------------------
(* The inductive invariant.                                                *)

LEMMA InitIInv ==
  ASSUME Usage, Init
  PROVE  IInv
<1> USE SPIAssumption DEF Init, Dirs, READY, BUSY, NULL
<1>1. TypeOK
  <2>1. cr2 \in [Dirs -> BOOLEAN] /\ cr2_reg \in [Dirs -> BOOLEAN]
    OBVIOUS
  <2>2. state \in [Dirs -> {READY, BUSY}]
    OBVIOUS
  <2>3. /\ buffer \in [Dirs -> NULL .. LenMod-1]
        /\ len \in [Dirs -> 0 .. LenMod-1]
        /\ arg \in 0 .. LenMod-1
        /\ asked \in [Dirs -> 0 .. LenMod-1]
        /\ due \in [Dirs -> {0, 1}]
    OBVIOUS
  <2>4. /\ txe \in BOOLEAN /\ rxne \in BOOLEAN /\ bsy \in BOOLEAN
        /\ ovr \in BOOLEAN /\ armed \in BOOLEAN /\ modf \in BOOLEAN
        /\ temp1 \in BOOLEAN
    OBVIOUS
  <2>5. isr \in IsrLabels /\ pc \in {"app"} \cup Starting \cup Polling /\ dir \in Dirs
    BY DEF IsrLabels, Starting, Polling
  <2> QED BY <2>1, <2>2, <2>3, <2>4, <2>5 DEF TypeOK
<1>2. WithinBuffer /\ ReportedOnce /\ EnabledWhileBusy /\ WholeFrames /\ HandlerFindsBusy
  BY DEF Usage, WithinBuffer, ReportedOnce, EnabledWhileBusy, WholeFrames, HandlerFindsBusy
<1>3. StartInProgress /\ UnusedClosed
  BY DEF StartInProgress, UnusedClosed, Starting
<1> QED BY <1>1, <1>2, <1>3 DEF IInv

\* The peripheral touches nothing but its flags.
LEMMA PeripheralStep ==
  ASSUME IInv, Peripheral
  PROVE  IInv'
<1> USE DEF handle, flags, handler, thread, history
<1>1. TypeOK'
  BY DEF IInv, TypeOK, Peripheral, StartFrame, EndFrame, ModeFault
<1>2. UNCHANGED <<handle, cr2, handler, thread, history>>
  BY DEF Peripheral, StartFrame, EndFrame, ModeFault
<1>3. WithinBuffer' /\ ReportedOnce' /\ EnabledWhileBusy' /\ WholeFrames'
  BY <1>2 DEF IInv, WithinBuffer, ReportedOnce, EnabledWhileBusy, WholeFrames
<1>4. StartInProgress' /\ HandlerFindsBusy' /\ UnusedClosed'
  BY <1>2 DEF IInv, StartInProgress, HandlerFindsBusy, UnusedClosed
<1> QED BY <1>1, <1>3, <1>4 DEF IInv

\* The types of the handle, CR2 and the history.
HandleTypes ==
    /\ state \in [Dirs -> {READY, BUSY}]
    /\ buffer \in [Dirs -> NULL .. LenMod-1]
    /\ len \in [Dirs -> 0 .. LenMod-1]
    /\ cr2 \in [Dirs -> BOOLEAN]
    /\ asked \in [Dirs -> 0 .. LenMod-1]
    /\ due \in [Dirs -> {0, 1}]

\* A frame of the direction in use: the transfer goes on, is closed, or is
\* followed by the next one.
LEMMA UsedFrame ==
  ASSUME Usage, IInv, NEW d \in Uses, state[d] = BUSY, cr2[d], FrameMoved(d)
  PROVE  /\ HandleTypes'
         /\ WithinBuffer' /\ ReportedOnce' /\ WholeFrames' /\ UnusedClosed'
         /\ cr2'[d] <=> state'[d] = BUSY
<1> USE SPIAssumption
<1>1. Uses = {d} /\ d \in Dirs
  BY DEF Usage
<1>2. HandleTypes /\ due[d] = 1
  BY <1>1 DEF IInv, TypeOK, HandleTypes, ReportedOnce
<1>3. len[d] \in 0 .. LenMod-1 /\ len[d] >= Unit /\ len[d] % Unit = 0
  BY <1>1, <1>2 DEF HandleTypes, IInv, WithinBuffer, WholeFrames
<1>4. buffer[d] \in 0 .. LenMod-1 /\ buffer[d] + len[d] = asked[d] /\ asked[d] \in 0 .. LenMod-1
  BY <1>1, <1>2 DEF HandleTypes, IInv, WithinBuffer, NULL
<1>5. /\ Less(len[d]) = len[d] - Unit
      /\ Less(len[d]) \in 0 .. LenMod-1
      /\ Less(len[d]) # 0 => Less(len[d]) >= Unit
      /\ Less(len[d]) % Unit = 0
  BY <1>3, LessFrames
<1>6. CASE Less(len[d]) # 0
  <2>1. /\ len' = [len EXCEPT ![d] = Less(len[d])]
        /\ buffer' = [buffer EXCEPT ![d] = Advance(buffer[d])]
        /\ UNCHANGED <<state, cr2, asked, due>>
    BY <1>6 DEF FrameMoved, history
  <2>2. Advance(buffer[d]) = buffer[d] + Unit /\ buffer[d] + Unit \in 0 .. LenMod-1
    BY <1>3, <1>4, <1>5, <1>6 DEF Advance, NULL
  <2>3. len'[d] = Less(len[d]) /\ buffer'[d] = buffer[d] + Unit
    BY <1>1, <1>2, <2>1, <2>2 DEF HandleTypes
  <2>4. HandleTypes'
    <3>1. buffer' \in [Dirs -> NULL .. LenMod-1]
      BY <1>1, <1>2, <2>1, <2>2 DEF HandleTypes, NULL
    <3>2. len' \in [Dirs -> 0 .. LenMod-1]
      BY <1>1, <1>2, <1>5, <2>1 DEF HandleTypes
    <3> QED BY <1>1, <1>2, <2>1, <3>1, <3>2 DEF HandleTypes
  <2>5. WithinBuffer' /\ WholeFrames'
    BY <1>1, <1>3, <1>4, <1>5, <1>6, <2>1, <2>3 DEF WithinBuffer, WholeFrames
  <2>6. ReportedOnce'
    BY <2>1 DEF IInv, ReportedOnce
  <2>7. UnusedClosed'
    BY <1>1, <1>2, <2>1 DEF IInv, UnusedClosed, HandleTypes
  <2> QED BY <2>1, <2>4, <2>5, <2>6, <2>7
<1>7. CASE Less(len[d]) = 0
  <2>1. CASE Close(d) /\ due' = [due EXCEPT ![d] = due[d] - 1] /\ UNCHANGED asked
    <3>1. state'[d] = READY /\ due'[d] = 0 /\ ~cr2'[d]
      BY <1>1, <1>2, <2>1 DEF HandleTypes, Close
    <3>2. HandleTypes'
      <4>1. cr2' \in [Dirs -> BOOLEAN] /\ state' \in [Dirs -> {READY, BUSY}]
        BY <1>1, <1>2, <2>1 DEF HandleTypes, Close
      <4>2. buffer' \in [Dirs -> NULL .. LenMod-1]
        BY <1>1, <1>2, <2>1 DEF HandleTypes, Close, NULL
      <4>3. len' \in [Dirs -> 0 .. LenMod-1] /\ asked' \in [Dirs -> 0 .. LenMod-1]
        BY <1>1, <1>2, <2>1 DEF HandleTypes, Close
      <4>4. due' \in [Dirs -> {0, 1}]
        BY <1>1, <1>2, <2>1 DEF HandleTypes
      <4> QED BY <4>1, <4>2, <4>3, <4>4 DEF HandleTypes
    <3>3. WithinBuffer' /\ WholeFrames' /\ ReportedOnce'
      BY <1>1, <3>1 DEF WithinBuffer, WholeFrames, ReportedOnce, READY, BUSY
    <3>4. UnusedClosed'
      BY <1>1, <1>2, <2>1 DEF IInv, UnusedClosed, HandleTypes, Close
    <3> QED BY <3>1, <3>2, <3>3, <3>4 DEF READY, BUSY
  <2>2. ASSUME NEW n \in Lengths,
               /\ state' = [state EXCEPT ![d] = BUSY]
               /\ buffer' = [buffer EXCEPT ![d] = 0]
               /\ len' = [len EXCEPT ![d] = n]
               /\ cr2' = [cr2 EXCEPT ![d] = TRUE]
               /\ asked' = [asked EXCEPT ![d] = n]
               /\ UNCHANGED due
        PROVE  /\ HandleTypes'
               /\ WithinBuffer' /\ ReportedOnce' /\ WholeFrames' /\ UnusedClosed'
               /\ cr2'[d] <=> state'[d] = BUSY
    <3>1. n \in 1 .. LenMod-1 /\ n >= Unit /\ n % Unit = 0
      BY LengthFacts
    <3>2. /\ state'[d] = BUSY /\ buffer'[d] = 0 /\ len'[d] = n /\ asked'[d] = n
          /\ due'[d] = 1 /\ cr2'[d]
      BY <1>1, <1>2, <2>2 DEF HandleTypes
    <3>3. HandleTypes'
      <4>1. cr2' \in [Dirs -> BOOLEAN] /\ state' \in [Dirs -> {READY, BUSY}]
        BY <1>1, <1>2, <2>2 DEF HandleTypes
      <4>2. buffer' \in [Dirs -> NULL .. LenMod-1]
        BY <1>1, <1>2, <2>2 DEF HandleTypes, NULL
      <4>3. len' \in [Dirs -> 0 .. LenMod-1] /\ asked' \in [Dirs -> 0 .. LenMod-1]
        BY <1>1, <1>2, <2>2, <3>1 DEF HandleTypes
      <4>4. due' \in [Dirs -> {0, 1}]
        BY <1>1, <1>2, <2>2 DEF HandleTypes
      <4> QED BY <4>1, <4>2, <4>3, <4>4 DEF HandleTypes
    <3>4. WithinBuffer' /\ WholeFrames' /\ ReportedOnce'
      BY <1>1, <3>1, <3>2 DEF WithinBuffer, WholeFrames, ReportedOnce
    <3>5. UnusedClosed'
      BY <1>1, <1>2, <2>2 DEF IInv, UnusedClosed, HandleTypes
    <3> QED BY <3>2, <3>3, <3>4, <3>5
  <2> QED
    BY <1>7, <2>1, <2>2 DEF FrameMoved, CloseAndReport
<1> QED BY <1>6, <1>7

\* A frame of the other direction, which the handler serves by mistake: it
\* leaves the one in use alone.
LEMMA UnusedFrame ==
  ASSUME Usage, IInv, NEW d \in Dirs \ Uses, FrameMoved(d)
  PROVE  /\ HandleTypes'
         /\ WithinBuffer' /\ ReportedOnce' /\ WholeFrames' /\ UnusedClosed'
         /\ UNCHANGED <<state, cr2>>
<1> USE SPIAssumption
<1>1. HandleTypes /\ state[d] = READY /\ ~cr2[d] /\ buffer[d] = NULL
  BY DEF IInv, TypeOK, HandleTypes, UnusedClosed
<1>2. UNCHANGED <<state, cr2, buffer, asked, due>>
  <2>1. CASE Less(len[d]) # 0
    <3>1. buffer' = [buffer EXCEPT ![d] = NULL]
      BY <1>1, <2>1 DEF FrameMoved, Advance
    <3> QED BY <1>1, <2>1, <3>1 DEF FrameMoved, history, HandleTypes
  <2>2. CASE Less(len[d]) = 0
    <3>1. Close(d) /\ UNCHANGED <<asked, due>>
      BY <2>2 DEF FrameMoved, CloseAndReport
    <3>2. UNCHANGED state /\ UNCHANGED buffer
      BY <1>1, <3>1 DEF Close, HandleTypes
    <3>3. UNCHANGED cr2
      <4>1. cr2' = [cr2 EXCEPT ![d] = FALSE] /\ cr2 \in [Dirs -> BOOLEAN] /\ cr2[d] = FALSE
        BY <1>1, <3>1 DEF Close, HandleTypes
      <4> QED BY <4>1
    <3> QED BY <3>1, <3>2, <3>3
  <2> QED BY <2>1, <2>2
<1>3. \E n \in 0 .. LenMod-1 : len' = [len EXCEPT ![d] = n]
  <2>1. Less(len[d]) \in 0 .. LenMod-1
    BY <1>1, LessInRange DEF HandleTypes
  <2> QED BY <2>1 DEF FrameMoved, CloseAndReport, Close
<1>4. HandleTypes'
  BY <1>1, <1>2, <1>3 DEF HandleTypes
<1>5. \A e \in Uses : len'[e] = len[e]
  BY <1>1, <1>3 DEF HandleTypes, Usage
<1>6. WithinBuffer' /\ WholeFrames' /\ ReportedOnce' /\ UnusedClosed'
  BY <1>2, <1>5 DEF IInv, WithinBuffer, WholeFrames, ReportedOnce, UnusedClosed
<1> QED BY <1>2, <1>4, <1>6

\* A step of the handler that leaves the handle and CR2 alone.
LEMMA QuietHandlerStep ==
  ASSUME IInv, UNCHANGED <<handle, cr2, thread, history>>,
         isr # "none",
         isr' \in IsrLabels \ {"TXE"}, isr' = "TXEIE" => isr = "TXE",
         isr' = "RXNE" => isr \in {"TXE", "TXEIE"}, isr' = "RXNEIE" => isr = "RXNE",
         TypeOK'
  PROVE  IInv'
<1> USE DEF handle, thread, history
<1>1. WithinBuffer' /\ ReportedOnce' /\ EnabledWhileBusy' /\ WholeFrames' /\ UnusedClosed'
  BY DEF IInv, WithinBuffer, ReportedOnce, EnabledWhileBusy, WholeFrames, UnusedClosed
<1>2. StartInProgress'
  BY DEF IInv, StartInProgress
<1>3. HandlerFindsBusy'
  BY DEF IInv, HandlerFindsBusy
<1> QED BY <1>1, <1>2, <1>3 DEF IInv

\* Every step of SPI_IRQ_handler preserves the invariant.
LEMMA HandlerStep ==
  ASSUME Usage, IInv, SPI_IRQ_handler
  PROVE  IInv'
<1> USE DEF handle, flags, handler, thread, history
<1>1. CASE EnterHandler
  <2>1. UNCHANGED <<handle, cr2, flags, temp1, thread, history>> /\ isr = "none" /\ isr' = "TXE"
    BY <1>1 DEF EnterHandler
  <2>2. TypeOK'
    BY <2>1 DEF IInv, TypeOK, IsrLabels
  <2>3. WithinBuffer' /\ ReportedOnce' /\ EnabledWhileBusy' /\ WholeFrames' /\ UnusedClosed'
    BY <2>1 DEF IInv, WithinBuffer, ReportedOnce, EnabledWhileBusy, WholeFrames, UnusedClosed
  <2>4. \A d \in Uses : cr2[d]
    BY <1>1 DEF EnterHandler, Requested, Usage, IInv, UnusedClosed, Dirs
  <2>5. HandlerFindsBusy' /\ StartInProgress'
    BY <2>1, <2>4 DEF IInv, HandlerFindsBusy, StartInProgress, EnabledWhileBusy, Usage
  <2> QED BY <2>2, <2>3, <2>5 DEF IInv
<1>2. CASE ReadTemp1("TXE", "TXEIE", txe) \/ ReadTemp1("RXNE", "RXNEIE", rxne)
           \/ ReadTemp1("OVR", "ERRIE", ovr)
  <2>1. TypeOK'
    BY <1>2 DEF IInv, TypeOK, ReadTemp1, ReadSR, IsrLabels
  <2> QED
    BY <1>2, <2>1, QuietHandlerStep DEF ReadTemp1, IsrLabels
<1>3. CASE SkipTx \/ SkipRx \/ SkipOvr
  <2>1. TypeOK'
    BY <1>3 DEF IInv, TypeOK, SkipTx, SkipRx, SkipOvr, ReadSR, IsrLabels
  <2> QED
    BY <1>3, <2>1, QuietHandlerStep DEF SkipTx, SkipRx, SkipOvr, IsrLabels
<1>4. CASE SPI_OVR_Handle
  <2>1. TypeOK'
    BY <1>4 DEF IInv, TypeOK, SPI_OVR_Handle, ReadSR, IsrLabels
  <2> QED
    BY <1>4, <2>1, QuietHandlerStep DEF SPI_OVR_Handle, IsrLabels
<1>5. ASSUME NEW d \in Dirs, FrameMoved(d), UNCHANGED thread,
             d = "tx" => isr = "TXEIE" /\ isr' = "RXNE",
             d = "rx" => isr = "RXNEIE" /\ isr' = "OVR",
             txe' \in BOOLEAN /\ rxne' \in BOOLEAN /\ bsy' \in BOOLEAN,
             ovr' \in BOOLEAN /\ armed' \in BOOLEAN /\ modf' \in BOOLEAN,
             temp1' \in BOOLEAN
      PROVE  IInv'
  <2>1. pc \notin Starting /\ isr # "none"
    BY <1>5 DEF IInv, StartInProgress, Dirs
  <2>2. CASE d \in Uses
    <3>1. state[d] = BUSY
      BY <1>5, <2>2 DEF IInv, HandlerFindsBusy, Dirs
    <3>2. cr2[d]
      BY <2>1, <2>2, <3>1 DEF IInv, EnabledWhileBusy, Starting
    <3>3. /\ HandleTypes'
          /\ WithinBuffer' /\ ReportedOnce' /\ WholeFrames' /\ UnusedClosed'
          /\ cr2'[d] <=> state'[d] = BUSY
      BY <1>5, <2>2, <3>1, <3>2, UsedFrame
    <3>4. TypeOK'
      BY <1>5, <3>3 DEF IInv, TypeOK, HandleTypes, IsrLabels, Dirs
    <3>5. EnabledWhileBusy'
      BY <1>5, <2>1, <2>2, <3>3 DEF EnabledWhileBusy, Usage, Starting
    <3>6. StartInProgress' /\ HandlerFindsBusy'
      BY <1>5, <2>1, <2>2 DEF StartInProgress, HandlerFindsBusy, Usage, Dirs
    <3> QED BY <3>3, <3>4, <3>5, <3>6 DEF IInv
  <2>3. CASE d \notin Uses
    <3>1. /\ HandleTypes'
          /\ WithinBuffer' /\ ReportedOnce' /\ WholeFrames' /\ UnusedClosed'
          /\ UNCHANGED <<state, cr2>>
      BY <1>5, <2>3, UnusedFrame
    <3>2. TypeOK'
      BY <1>5, <3>1 DEF IInv, TypeOK, HandleTypes, IsrLabels, Dirs
    <3>3. EnabledWhileBusy'
      BY <1>5, <3>1 DEF IInv, EnabledWhileBusy
    <3>4. StartInProgress' /\ HandlerFindsBusy'
      BY <1>5, <2>1, <3>1 DEF IInv, StartInProgress, HandlerFindsBusy, Dirs
    <3> QED BY <3>1, <3>2, <3>3, <3>4 DEF IInv
  <2> QED BY <2>2, <2>3
<1>6. CASE SPI_TXEIE_Handle
  <2>1. /\ txe' \in BOOLEAN /\ rxne' \in BOOLEAN /\ bsy' \in BOOLEAN
        /\ ovr' \in BOOLEAN /\ armed' \in BOOLEAN /\ modf' \in BOOLEAN
        /\ temp1' \in BOOLEAN
    BY <1>6 DEF IInv, TypeOK, SPI_TXEIE_Handle, ReadSR
  <2> QED BY <1>5, <1>6, <2>1 DEF SPI_TXEIE_Handle, Dirs
<1>7. CASE SPI_RXNEIE_Handle
  <2>1. /\ txe' \in BOOLEAN /\ rxne' \in BOOLEAN /\ bsy' \in BOOLEAN
        /\ ovr' \in BOOLEAN /\ armed' \in BOOLEAN /\ modf' \in BOOLEAN
        /\ temp1' \in BOOLEAN
    BY <1>7 DEF IInv, TypeOK, SPI_RXNEIE_Handle, ReadSR
  <2> QED BY <1>5, <1>7, <2>1 DEF SPI_RXNEIE_Handle, Dirs
<1> QED
  BY <1>1, <1>2, <1>3, <1>4, <1>6, <1>7 DEF SPI_IRQ_handler

\* A call of an interrupt-driven function, up to the write of CR2.
LEMMA StartStep ==
  ASSUME Usage, IInv, Start_IT
  PROVE  IInv'
<1> USE SPIAssumption DEF handle, flags, handler, thread, history
<1>1. /\ pc \in Starting /\ isr = "none" /\ isr' = "none"
      /\ dir \in Uses /\ arg \in Lengths /\ Uses = {dir} /\ dir \in Dirs
      /\ \A d \in Dirs : ~cr2[d]
      /\ UNCHANGED flags
  BY DEF Start_IT, SetBuffer, SetLen, SetState, ReadCR2, WriteCR2, At, Starting,
         IInv, StartInProgress, Usage
<1>2. HandlerFindsBusy'
  BY <1>1 DEF HandlerFindsBusy
<1>3. TypeOK
  BY DEF IInv
<1>4. CASE SetBuffer
  <2>1. /\ pc = "buffer" /\ pc' = "len" /\ buffer' = [buffer EXCEPT ![dir] = 0]
        /\ state[dir] = READY
        /\ UNCHANGED <<state, len, cr2, flags, handler, dir, arg, cr2_reg, history>>
    BY <1>1, <1>4 DEF SetBuffer, At, IInv, StartInProgress
  <2>2. buffer' \in [Dirs -> NULL .. LenMod-1] /\ buffer'[dir] = 0
    BY <1>1, <1>3, <2>1 DEF TypeOK, NULL
  <2>3. TypeOK'
    BY <1>3, <2>1, <2>2 DEF TypeOK, Starting
  <2>4. WithinBuffer' /\ ReportedOnce' /\ EnabledWhileBusy' /\ WholeFrames'
    BY <1>1, <2>1 DEF IInv, WithinBuffer, ReportedOnce, EnabledWhileBusy, WholeFrames, READY, BUSY
  <2>5. UnusedClosed'
    BY <1>1, <1>3, <2>1 DEF IInv, UnusedClosed, TypeOK
  <2>6. StartInProgress'
    BY <1>1, <2>1, <2>2 DEF StartInProgress
  <2> QED BY <1>2, <2>3, <2>4, <2>5, <2>6 DEF IInv
<1>5. CASE SetLen
  <2>1. /\ pc = "len" /\ pc' = "state" /\ len' = [len EXCEPT ![dir] = arg]
        /\ state[dir] = READY /\ buffer[dir] = 0
        /\ UNCHANGED <<state, buffer, cr2, flags, handler, dir, arg, cr2_reg, history>>
    BY <1>1, <1>5 DEF SetLen, At, IInv, StartInProgress
  <2>2. len' \in [Dirs -> 0 .. LenMod-1] /\ len'[dir] = arg
    BY <1>1, <1>3, <2>1 DEF TypeOK
  <2>3. TypeOK'
    BY <1>3, <2>1, <2>2 DEF TypeOK, Starting
  <2>4. WithinBuffer' /\ ReportedOnce' /\ EnabledWhileBusy' /\ WholeFrames'
    BY <1>1, <2>1 DEF IInv, WithinBuffer, ReportedOnce, EnabledWhileBusy, WholeFrames, READY, BUSY
  <2>5. UnusedClosed'
    BY <1>1, <2>1 DEF IInv, UnusedClosed
  <2>6. StartInProgress'
    BY <1>1, <2>1, <2>2 DEF StartInProgress
  <2> QED BY <1>2, <2>3, <2>4, <2>5, <2>6 DEF IInv
<1>6. CASE SetState
  <2>1. /\ pc = "state" /\ pc' = "read_cr2"
        /\ state' = [state EXCEPT ![dir] = BUSY]
        /\ asked' = [asked EXCEPT ![dir] = arg]
        /\ due' = [due EXCEPT ![dir] = due[dir] + 1]
        /\ state[dir] = READY /\ buffer[dir] = 0 /\ len[dir] = arg
        /\ UNCHANGED <<buffer, len, cr2, flags, handler, dir, arg, cr2_reg>>
    BY <1>1, <1>6 DEF SetState, At, IInv, StartInProgress
  <2>2. due[dir] = 0
    BY <1>1, <2>1 DEF IInv, ReportedOnce, READY, BUSY
  <2>3. /\ state' \in [Dirs -> {READY, BUSY}] /\ state'[dir] = BUSY
        /\ asked' \in [Dirs -> 0 .. LenMod-1] /\ asked'[dir] = arg
        /\ due' \in [Dirs -> {0, 1}] /\ due'[dir] = 1
    BY <1>1, <1>3, <2>1, <2>2 DEF TypeOK
  <2>4. TypeOK'
    BY <1>3, <2>1, <2>3 DEF TypeOK, Starting
  <2>5. arg >= Unit /\ arg % Unit = 0 /\ arg \in 1 .. LenMod-1
    BY <1>1, LengthFacts
  <2>6. WithinBuffer' /\ ReportedOnce' /\ WholeFrames'
    BY <1>1, <2>1, <2>3, <2>5 DEF WithinBuffer, ReportedOnce, WholeFrames
  <2>7. EnabledWhileBusy'
    BY <1>1, <2>1 DEF EnabledWhileBusy
  <2>8. UnusedClosed'
    BY <1>1, <1>3, <2>1 DEF IInv, UnusedClosed, TypeOK
  <2>9. StartInProgress'
    BY <1>1, <2>1, <2>3 DEF StartInProgress
  <2> QED BY <1>2, <2>4, <2>6, <2>7, <2>8, <2>9 DEF IInv
<1>7. CASE ReadCR2
  <2>1. /\ pc = "read_cr2" /\ pc' = "write_cr2" /\ cr2_reg' = [cr2 EXCEPT ![dir] = TRUE]
        /\ state[dir] = BUSY
        /\ UNCHANGED <<handle, cr2, flags, handler, dir, arg, history>>
    BY <1>1, <1>7 DEF ReadCR2, At, IInv, StartInProgress
  <2>2. cr2 \in [Dirs -> BOOLEAN]
    BY <1>3 DEF TypeOK
  <2>3. cr2_reg' \in [Dirs -> BOOLEAN]
    BY <2>1, <2>2
  <2>4. cr2_reg' = [d \in Dirs |-> d = dir]
    <3>1. \A d \in Dirs : cr2[d] = FALSE
      BY <1>1, <2>2
    <3> QED BY <1>1, <2>1, <2>2, <3>1
  <2>5. TypeOK'
    BY <1>3, <2>1, <2>3 DEF TypeOK, Starting
  <2>6. WithinBuffer' /\ ReportedOnce' /\ WholeFrames' /\ UnusedClosed'
    BY <2>1 DEF IInv, WithinBuffer, ReportedOnce, WholeFrames, UnusedClosed
  <2>7. EnabledWhileBusy'
    BY <1>1, <2>1 DEF EnabledWhileBusy
  <2>8. StartInProgress'
    BY <1>1, <2>1, <2>4 DEF StartInProgress
  <2> QED BY <1>2, <2>5, <2>6, <2>7, <2>8 DEF IInv
<1>8. CASE WriteCR2
  <2>1. /\ pc = "write_cr2" /\ pc' = "app" /\ cr2' = cr2_reg
        /\ cr2_reg = [d \in Dirs |-> d = dir] /\ state[dir] = BUSY
        /\ cr2_reg' = [d \in Dirs |-> FALSE]
        /\ arg' = 0 /\ dir' = "tx"
        /\ UNCHANGED <<handle, flags, handler, history>>
    BY <1>1, <1>8 DEF WriteCR2, Returned, At, IInv, StartInProgress
  <2>2. cr2' \in [Dirs -> BOOLEAN] /\ cr2_reg' \in [Dirs -> BOOLEAN]
    BY <1>3, <2>1 DEF TypeOK
  <2>3. \A d \in Dirs : cr2'[d] <=> d = dir
    BY <2>1
  <2>4. TypeOK'
    BY <1>3, <2>1, <2>2 DEF TypeOK, Dirs
  <2>5. WithinBuffer' /\ ReportedOnce' /\ WholeFrames'
    BY <2>1 DEF IInv, WithinBuffer, ReportedOnce, WholeFrames
  <2>6. UnusedClosed' /\ EnabledWhileBusy'
    BY <1>1, <2>1, <2>3 DEF IInv, UnusedClosed, EnabledWhileBusy
  <2>7. StartInProgress'
    BY <2>1 DEF StartInProgress, Starting
  <2> QED BY <1>2, <2>4, <2>5, <2>6, <2>7 DEF IInv
<1> QED BY <1>4, <1>5, <1>6, <1>7, <1>8 DEF Start_IT

\* A thread step that leaves the handle and CR2 alone and is in no call of an
\* interrupt-driven function.
LEMMA QuietThreadStep ==
  ASSUME Usage, IInv, UNCHANGED <<handle, cr2, handler, cr2_reg, history>>,
         pc \notin Starting,
         pc' \in {"app"} \cup Polling, dir' \in Dirs, arg' \in 0 .. LenMod-1,
         txe' \in BOOLEAN /\ rxne' \in BOOLEAN /\ bsy' \in BOOLEAN,
         ovr' \in BOOLEAN /\ armed' \in BOOLEAN /\ modf' \in BOOLEAN
  PROVE  IInv'
<1> USE DEF handle, handler, history
<1>1. pc' \notin Starting /\ pc' \notin {"read_cr2", "write_cr2"} /\ pc \notin {"read_cr2", "write_cr2"}
  BY DEF Starting, Polling
<1>2. TypeOK'
  BY DEF IInv, TypeOK
<1>3. WithinBuffer' /\ ReportedOnce' /\ WholeFrames' /\ UnusedClosed' /\ HandlerFindsBusy'
  BY DEF IInv, WithinBuffer, ReportedOnce, WholeFrames, UnusedClosed, HandlerFindsBusy
<1>4. EnabledWhileBusy' /\ StartInProgress'
  BY <1>1 DEF IInv, EnabledWhileBusy, StartInProgress
<1> QED BY <1>2, <1>3, <1>4 DEF IInv

\* The calls of the application and the blocking functions.
LEMMA ThreadStep ==
  ASSUME Usage, IInv, Application \/ SPI_send \/ SPI_recieve
  PROVE  IInv'
<1> USE SPIAssumption DEF handle, flags, handler, thread, history
<1>1. CASE \E n \in Lengths, d \in Uses : Call_IT(d, n)
  <2>1. PICK n \in Lengths, d \in Uses : Call_IT(d, n)
    BY <1>1
  <2>2. /\ state[d] # BUSY /\ isr = "none" /\ ~Requested /\ pc = "app" /\ pc' = "buffer"
        /\ dir' = d /\ arg' = n
        /\ UNCHANGED <<handle, cr2, flags, handler, cr2_reg, history>>
    BY <2>1 DEF Call_IT, At
  <2>3. d \in Dirs /\ Uses = {d} /\ n \in 0 .. LenMod-1
    BY LengthFacts DEF Usage
  <2>4. TypeOK'
    BY <2>2, <2>3 DEF IInv, TypeOK, Starting
  <2>5. WithinBuffer' /\ ReportedOnce' /\ WholeFrames' /\ UnusedClosed' /\ HandlerFindsBusy'
    BY <2>2 DEF IInv, WithinBuffer, ReportedOnce, WholeFrames, UnusedClosed, HandlerFindsBusy
  <2>6. state[d] = READY /\ \A e \in Dirs : ~cr2[e]
    BY <2>2, <2>3 DEF IInv, TypeOK, EnabledWhileBusy, UnusedClosed
  <2>7. EnabledWhileBusy' /\ StartInProgress'
    BY <2>2, <2>3, <2>6 DEF IInv, EnabledWhileBusy, StartInProgress
  <2> QED BY <2>4, <2>5, <2>7 DEF IInv
<1>2. CASE \E n \in Lengths, d \in Dirs : CallBlocking(d, n)
  <2>1. PICK n \in Lengths, d \in Dirs : CallBlocking(d, n)
    BY <1>2
  <2>2. n \in 0 .. LenMod-1
    BY LengthFacts
  <2> QED
    BY <2>1, <2>2, QuietThreadStep DEF CallBlocking, At, Starting, Polling, IInv, TypeOK
<1>3. CASE Poll("send_poll", "send_write", txe) \/ Poll("recieve_poll", "recieve_read", rxne)
  <2>1. ovr' \in BOOLEAN /\ armed' \in BOOLEAN
    BY <1>3 DEF Poll, ReadSR
  <2> QED
    BY <1>3, <2>1, QuietThreadStep DEF Poll, At, Starting, Polling, IInv, TypeOK
<1>4. CASE WriteDR \/ ReadDR
  <2>1. arg \in 0 .. LenMod-1 /\ Less(arg) \in 0 .. LenMod-1
    BY LessInRange DEF IInv, TypeOK
  <2>2. pc \notin Starting /\ pc' \in {"app"} \cup Polling
    BY <1>4 DEF WriteDR, ReadDR, NextFrame, At, Starting, Polling
  <2>3. dir' \in Dirs /\ arg' \in 0 .. LenMod-1
    BY <1>4, <2>1 DEF WriteDR, ReadDR, NextFrame, Returned, IInv, TypeOK, Dirs
  <2>4. UNCHANGED <<handle, cr2, handler, cr2_reg, history>>
    BY <1>4 DEF WriteDR, ReadDR, NextFrame
  <2>5. txe' \in BOOLEAN /\ rxne' \in BOOLEAN /\ bsy' \in BOOLEAN
        /\ ovr' \in BOOLEAN /\ armed' \in BOOLEAN /\ modf' \in BOOLEAN
    BY <1>4 DEF WriteDR, ReadDR, NextFrame, IInv, TypeOK
  <2> QED BY <2>2, <2>3, <2>4, <2>5, QuietThreadStep
<1> QED
  BY <1>1, <1>2, <1>3, <1>4 DEF Application, SPI_send, SPI_recieve

-----------------------------------------------------------------------------
(* Theorems.                                                               *)

\* The invariant holds in every reachable state.
THEOREM Invariance ==
  ASSUME Usage
  PROVE  Spec => []IInv
<1>1. Init => IInv
  BY InitIInv
<1>2. IInv /\ [Next]_vars => IInv'
  <2>1. ASSUME IInv, Next
        PROVE  IInv'
    BY <2>1, PeripheralStep, HandlerStep, StartStep, ThreadStep DEF Next
  <2>2. ASSUME IInv, UNCHANGED vars
        PROVE  IInv'
    <3> USE DEF vars, handle, flags, handler, thread, history
    <3>1. TypeOK'
      BY <2>2 DEF IInv, TypeOK
    <3>2. WithinBuffer' /\ ReportedOnce' /\ EnabledWhileBusy' /\ WholeFrames'
      BY <2>2 DEF IInv, WithinBuffer, ReportedOnce, EnabledWhileBusy, WholeFrames
    <3>3. StartInProgress' /\ HandlerFindsBusy' /\ UnusedClosed'
      BY <2>2 DEF IInv, StartInProgress, HandlerFindsBusy, UnusedClosed
    <3> QED BY <3>1, <3>2, <3>3 DEF IInv
  <2> QED BY <2>1, <2>2
<1> QED BY <1>1, <1>2, PTL DEF Spec

\* The types of the handle, the flags and the program counters.
THEOREM TypeCorrect ==
  ASSUME Usage
  PROVE  Spec => []TypeOK
<1>1. IInv => TypeOK
  BY DEF IInv
<1> QED BY <1>1, Invariance, PTL

\* The interrupt handler stays inside the caller's buffer.
THEOREM WithinBufferHolds ==
  ASSUME Usage
  PROVE  Spec => []WithinBuffer
<1>1. IInv => WithinBuffer
  BY DEF IInv
<1> QED BY <1>1, Invariance, PTL

\* Every accepted transfer is reported complete once.
THEOREM ReportedOnceHolds ==
  ASSUME Usage
  PROVE  Spec => []ReportedOnce
<1>1. IInv => ReportedOnce
  BY DEF IInv
<1> QED BY <1>1, Invariance, PTL

\* The interrupt is enabled exactly while a transfer is in progress.
THEOREM EnabledWhileBusyHolds ==
  ASSUME Usage
  PROVE  Spec => []EnabledWhileBusy
<1>1. IInv => EnabledWhileBusy
  BY DEF IInv
<1> QED BY <1>1, Invariance, PTL

-----------------------------------------------------------------------------
(* The transfer of the direction in use implements Transfer.               *)

\* The one direction in use.
LEMMA DirInUse ==
  ASSUME Usage
  PROVE  Dir \in Dirs /\ Uses = {Dir}
<1>1. \E d \in Uses : TRUE
  BY DEF Usage
<1>2. Dir \in Uses
  BY <1>1 DEF Dir
<1> QED BY <1>2 DEF Usage

\* A step that leaves the channel alone is a stutter.
LEMMA ChannelStutters ==
  ASSUME state'[Dir] = state[Dir], buffer'[Dir] = buffer[Dir], len'[Dir] = len[Dir]
  PROVE  UNCHANGED Channel!vars
BY DEF Channel!vars

\* The handler's frames: the channel moves a frame or finishes.
LEMMA FrameRefines ==
  ASSUME Usage, IInv, NEW d \in Dirs, FrameMoved(d), d \in Uses => state[d] = BUSY /\ cr2[d]
  PROVE  Channel!Next \/ UNCHANGED Channel!vars
<1> USE SPIAssumption
<1>1. Dir \in Dirs /\ Uses = {Dir}
  BY DirInUse
<1>2. HandleTypes
  BY DEF IInv, TypeOK, HandleTypes
<1>3. CASE d # Dir
  <2>1. buffer'[Dir] = buffer[Dir] /\ len'[Dir] = len[Dir] /\ state'[Dir] = state[Dir]
    BY <1>1, <1>2, <1>3 DEF FrameMoved, CloseAndReport, Close, HandleTypes
  <2> QED BY <2>1, ChannelStutters
<1>4. CASE d = Dir
  <2>1. state[Dir] = BUSY
    BY <1>1, <1>4
  <2>2. len[Dir] \in 0 .. LenMod-1 /\ len[Dir] >= Unit /\ len[Dir] % Unit = 0
        /\ buffer[Dir] \in Nat
    BY <1>1, <1>2, <2>1 DEF IInv, WithinBuffer, WholeFrames, HandleTypes, NULL
  <2>3. /\ Less(len[Dir]) = len[Dir] - Unit
        /\ Less(len[Dir]) # 0 => Less(len[Dir]) >= Unit
    BY <2>2, LessFrames
  <2>4. CASE Less(len[Dir]) # 0
    <3>1. len'[Dir] = len[Dir] - Unit /\ buffer'[Dir] = buffer[Dir] + Unit /\ state'[Dir] = BUSY
      BY <1>1, <1>2, <1>4, <2>1, <2>2, <2>3, <2>4 DEF FrameMoved, Advance, HandleTypes, NULL
    <3>2. len[Dir] > Unit
      BY <2>2, <2>3, <2>4
    <3>3. Channel!Move
      BY <2>1, <3>1, <3>2 DEF Channel!Move
    <3> QED BY <3>3 DEF Channel!Next
  <2>5. CASE Less(len[Dir]) = 0
    <3>1. len[Dir] = Unit
      BY <2>2, <2>3, <2>5
    <3>2. CASE Close(Dir)
      <4>1. state'[Dir] = READY
        BY <1>1, <1>2, <3>2 DEF Close, HandleTypes
      <4>2. Channel!Finish
        BY <2>1, <3>1, <4>1 DEF Channel!Finish, READY, BUSY
      <4> QED BY <4>2 DEF Channel!Next
    <3>3. ASSUME NEW n \in Lengths,
                 state' = [state EXCEPT ![Dir] = BUSY],
                 buffer' = [buffer EXCEPT ![Dir] = 0],
                 len' = [len EXCEPT ![Dir] = n]
          PROVE  Channel!Next
      <4>1. state'[Dir] = BUSY /\ buffer'[Dir] = 0 /\ len'[Dir] = n
        BY <1>1, <1>2, <3>3 DEF HandleTypes
      <4>2. Channel!Accept(n)
        BY <4>1 DEF Channel!Accept
      <4>3. Channel!Finish
        BY <2>1, <3>1, <4>2 DEF Channel!Finish
      <4> QED BY <4>3 DEF Channel!Next
    <3> QED
      BY <1>4, <2>5, <3>2, <3>3 DEF FrameMoved, CloseAndReport
  <2> QED BY <2>4, <2>5
<1> QED BY <1>3, <1>4

\* Each step of SPI is a step of the transfer or leaves it alone.
LEMMA NextRefines ==
  ASSUME Usage, IInv, Next
  PROVE  Channel!Next \/ UNCHANGED Channel!vars
<1> USE SPIAssumption DEF handle, flags, handler, thread, history
<1>1. Dir \in Dirs /\ Uses = {Dir}
  BY DirInUse
<1>2. HandleTypes
  BY DEF IInv, TypeOK, HandleTypes
<1>3. CASE UNCHANGED handle
  BY <1>3, ChannelStutters
<1>4. ASSUME NEW d \in Dirs, FrameMoved(d),
             d = "tx" => isr = "TXEIE",
             d = "rx" => isr = "RXNEIE"
      PROVE  Channel!Next \/ UNCHANGED Channel!vars
  <2>1. ASSUME d \in Uses
        PROVE  state[d] = BUSY /\ cr2[d]
    <3>1. state[d] = BUSY
      BY <1>4, <2>1 DEF IInv, HandlerFindsBusy, Dirs
    <3>2. pc \notin Starting
      BY <1>4 DEF IInv, StartInProgress, Dirs
    <3> QED BY <2>1, <3>1, <3>2 DEF IInv, EnabledWhileBusy, Starting
  <2> QED BY <1>4, <2>1, FrameRefines
<1>5. CASE SPI_TXEIE_Handle
  BY <1>4, <1>5 DEF SPI_TXEIE_Handle, Dirs
<1>6. CASE SPI_RXNEIE_Handle
  BY <1>4, <1>6 DEF SPI_RXNEIE_Handle, Dirs
<1>7. CASE SetBuffer \/ SetLen
  <2>1. dir = Dir /\ state[Dir] = READY /\ state' = state
    BY <1>1, <1>7 DEF SetBuffer, SetLen, At, IInv, StartInProgress, Starting
  <2>2. UNCHANGED Channel!vars
    BY <2>1 DEF Channel!vars, READY, BUSY
  <2> QED BY <2>2
<1>8. CASE SetState
  <2>1. dir = Dir /\ state[Dir] = READY /\ arg \in Lengths /\ buffer[Dir] = 0 /\ len[Dir] = arg
    BY <1>1, <1>8 DEF SetState, At, IInv, StartInProgress, Starting
  <2>2. state'[Dir] = BUSY /\ buffer'[Dir] = 0 /\ len'[Dir] = arg
    BY <1>1, <1>2, <1>8, <2>1 DEF SetState, HandleTypes
  <2>3. Channel!Idle
    BY <2>1 DEF Channel!Idle, READY, BUSY
  <2>4. Channel!Accept(arg)
    BY <2>2 DEF Channel!Accept
  <2>5. Channel!Start
    BY <2>1, <2>3, <2>4 DEF Channel!Start
  <2> QED BY <2>5 DEF Channel!Next
<1>9. \/ UNCHANGED handle \/ SPI_TXEIE_Handle \/ SPI_RXNEIE_Handle
      \/ SetBuffer \/ SetLen \/ SetState
  BY DEF Next, Peripheral, StartFrame, EndFrame, ModeFault, SPI_IRQ_handler, EnterHandler,
         ReadTemp1, SkipTx, SkipRx, SkipOvr, SPI_OVR_Handle, Application, Call_IT,
         CallBlocking, Start_IT, ReadCR2, WriteCR2, SPI_send, SPI_recieve, Poll, WriteDR,
         ReadDR, NextFrame
<1> QED BY <1>3, <1>5, <1>6, <1>7, <1>8, <1>9

\* A transfer of the direction in use is accepted only when there is none, and
\* is over when all its bytes have been moved.
THEOREM SPIImplementsTransfer ==
  ASSUME Usage
  PROVE  Spec => ImplementsTransfer
<1>1. Init => Channel!Init
  <2>1. ASSUME Init
        PROVE  state[Dir] = READY
    BY <2>1, DirInUse DEF Init
  <2> QED BY <2>1 DEF Channel!Init, Channel!Idle, READY, BUSY
<1>2. IInv /\ [Next]_vars => [Channel!Next]_(Channel!vars)
  <2>1. ASSUME UNCHANGED vars
        PROVE  UNCHANGED Channel!vars
    BY <2>1, ChannelStutters DEF vars, handle
  <2> QED BY <2>1, NextRefines
<1> QED BY <1>1, <1>2, Invariance, PTL DEF Spec, ImplementsTransfer, Channel!Spec

==============================================================================
