------------------------------ MODULE USARTProofs ------------------------------
(***************************************************************************)
(* Proofs about USART in full duplex, for every set of lengths, width of   *)
(* the length and frame size, when the application asks for whole frames.  *)
(* The stale interrupt enables that the races on CR1 leave do not matter   *)
(* here: the handler looks at the state and the length as well.            *)
(***************************************************************************)
EXTENDS USART, TLAPS

\* How the application uses the driver.
Usage == \A n \in Lengths : n >= Unit /\ n % Unit = 0

\* The types of the handle and the history.
HandleTypes ==
    /\ state \in [Dirs -> {READY, BUSY}]
    /\ buffer \in [Dirs -> NULL .. LenMod-1]
    /\ len \in [Dirs -> 0 .. LenMod-1]
    /\ asked \in [Dirs -> 0 .. LenMod-1]
    /\ due \in [Dirs -> {0, 1}]

\* The types of the rest.
ControlTypes ==
    /\ cr1 \subseteq Enables
    /\ txe \in BOOLEAN /\ tc \in BOOLEAN /\ shifting \in BOOLEAN
    /\ rxne \in BOOLEAN /\ ore \in BOOLEAN
    /\ isr \in IsrLabels
    /\ sr_reg \in BOOLEAN
    /\ pc \in {"app"} \cup Starting \cup Polling
    /\ dir \in Dirs
    /\ arg \in 0 .. LenMod-1
    /\ cr1_reg \subseteq Enables

\* The conjuncts of IInv about the channels.
ChannelsOK == HandleTypes /\ WithinBuffer /\ ReportedOnce /\ WholeFrames

\* The conjuncts of IInv about the shift register.
ShiftOK == AllSentWhenClosed /\ TxeStillSet /\ TCMeansOut /\ ClosesBusy

\* The other direction is left alone.
OnlyChanges(d) ==
    \A e \in Dirs \ {d} :
        state'[e] = state[e] /\ buffer'[e] = buffer[e] /\ len'[e] = len[e]

-----------------------------------------------------------------------------
\* A number of whole frames less one is zero or a number of whole frames.
LEMMA LessFrames ==
  ASSUME NEW n \in 1 .. LenMod-1, n % Unit = 0
  PROVE  /\ n >= Unit
         /\ Less(n) = n - Unit
         /\ Less(n) \in 0 .. LenMod-1
         /\ Less(n) # 0 => Less(n) >= Unit
         /\ Less(n) % Unit = 0
<1> USE USARTAssumption
<1>1. CASE Unit = 1
  BY <1>1 DEF Less
<1>2. CASE Unit = 2
  <2>1. n % 2 = 0 /\ n \in Nat /\ n > 0
    BY <1>2
  <2>2. n >= 2 /\ (n - 2) % 2 = 0 /\ (n - 2 # 0 => n - 2 >= 2)
    BY <2>1
  <2>3. Less(n) = n - 2
    BY <1>2, <2>1, <2>2 DEF Less
  <2> QED BY <1>2, <2>1, <2>2, <2>3
<1> QED BY <1>1, <1>2

\* The constants of a length in use.
LEMMA LengthFacts ==
  ASSUME Usage, NEW n \in Lengths
  PROVE  n \in 1 .. LenMod-1 /\ n >= Unit /\ n % Unit = 0
BY USARTAssumption DEF Usage

\* The invariant by its groups.
LEMMA IInvGroups ==
  IInv <=> ControlTypes /\ ChannelsOK /\ ShiftOK /\ StartInProgress /\ BlockingInProgress
<1>1. TypeOK <=> ControlTypes /\ HandleTypes
  BY DEF TypeOK, ControlTypes, HandleTypes
<1> QED BY <1>1 DEF IInv, ChannelsOK, ShiftOK

\* And after a step.
LEMMA GroupsIInv ==
  ASSUME ControlTypes', ChannelsOK', ShiftOK', StartInProgress', BlockingInProgress'
  PROVE  IInv'
BY DEF ControlTypes, ChannelsOK, HandleTypes, ShiftOK, TypeOK, IInv

-----------------------------------------------------------------------------
(* What the handler does to a channel.                                     *)

\* A frame that does not end a reception.
LEMMA FrameMoved ==
  ASSUME ChannelsOK, NEW d \in Dirs, state[d] = BUSY, len[d] > 0,
         d = "rx" => Less(len[d]) # 0,
         MoveFrame(d), UNCHANGED <<state, history>>
  PROVE  ChannelsOK' /\ OnlyChanges(d) /\ len'[d] = len[d] - Unit
                     /\ buffer'[d] = buffer[d] + Unit
<1> USE USARTAssumption
<1>1. HandleTypes
  BY DEF ChannelsOK
<1>2. /\ len[d] \in 1 .. LenMod-1 /\ len[d] % Unit = 0
      /\ buffer[d] \in 0 .. LenMod-1 /\ buffer[d] + len[d] = asked[d]
      /\ asked[d] \in 0 .. LenMod-1
  BY <1>1 DEF ChannelsOK, HandleTypes, WithinBuffer, WholeFrames, NULL
<1>3. /\ len[d] >= Unit /\ Less(len[d]) = len[d] - Unit
      /\ Less(len[d]) \in 0 .. LenMod-1
      /\ Less(len[d]) # 0 => Less(len[d]) >= Unit
      /\ Less(len[d]) % Unit = 0
  BY <1>2, LessFrames
<1>4. /\ len' = [len EXCEPT ![d] = Less(len[d])]
      /\ buffer' = [buffer EXCEPT ![d] = buffer[d] + Unit]
      /\ UNCHANGED <<state, asked, due>>
  BY DEF MoveFrame, history
<1>5. buffer[d] + Unit \in 0 .. LenMod-1
  BY <1>2, <1>3
<1>6. len'[d] = Less(len[d]) /\ buffer'[d] = buffer[d] + Unit
  BY <1>1, <1>4 DEF HandleTypes
<1>7. HandleTypes'
  <2>1. buffer' \in [Dirs -> NULL .. LenMod-1]
    BY <1>1, <1>4, <1>5 DEF HandleTypes, NULL
  <2>2. len' \in [Dirs -> 0 .. LenMod-1]
    BY <1>1, <1>3, <1>4 DEF HandleTypes
  <2> QED BY <1>1, <1>4, <2>1, <2>2 DEF HandleTypes
<1>8. OnlyChanges(d)
  BY <1>1, <1>4 DEF HandleTypes, OnlyChanges
<1>9. WithinBuffer' /\ WholeFrames' /\ ReportedOnce'
  <2>1. \A e \in Dirs \ {d} : state'[e] = state[e] /\ buffer'[e] = buffer[e] /\ len'[e] = len[e]
    BY <1>8 DEF OnlyChanges
  <2>2. buffer'[d] >= 0 /\ buffer'[d] + len'[d] = asked[d] /\ (d = "rx" => len'[d] >= Unit)
    BY <1>2, <1>3, <1>6
  <2>3. WithinBuffer'
    BY <1>4, <2>1, <2>2 DEF ChannelsOK, WithinBuffer
  <2>4. WholeFrames'
    BY <1>3, <1>4, <1>6, <2>1 DEF ChannelsOK, WholeFrames
  <2>5. ReportedOnce'
    BY <1>4 DEF ChannelsOK, ReportedOnce
  <2> QED BY <2>3, <2>4, <2>5
<1> QED BY <1>3, <1>6, <1>7, <1>8, <1>9 DEF ChannelsOK

\* The end of a transfer, and perhaps the start of the next.
LEMMA ChannelClosed ==
  ASSUME Usage, ChannelsOK, NEW d \in Dirs, state[d] = BUSY,
         NEW rest \in NULL .. LenMod-1, CloseAndReport(d, rest)
  PROVE  /\ ChannelsOK' /\ OnlyChanges(d)
         /\ \/ state'[d] = READY
            \/ state'[d] = BUSY /\ buffer'[d] = 0 /\ len'[d] \in Lengths
<1> USE USARTAssumption
<1>1. HandleTypes /\ due[d] = 1
  BY DEF ChannelsOK, HandleTypes, ReportedOnce
<1>2. ASSUME HandleTypes',
             \A e \in Dirs \ {d} : /\ state'[e] = state[e] /\ buffer'[e] = buffer[e]
                                   /\ len'[e] = len[e] /\ due'[e] = due[e]
                                   /\ asked'[e] = asked[e],
             state'[d] = BUSY => /\ buffer'[d] = 0 /\ len'[d] = asked'[d]
                                 /\ len'[d] >= Unit /\ len'[d] % Unit = 0,
             due'[d] = IF state'[d] = BUSY THEN 1 ELSE 0
      PROVE  ChannelsOK' /\ OnlyChanges(d)
  <2>1. WithinBuffer'
    <3>1. ASSUME NEW e \in Dirs, state'[e] = BUSY
          PROVE  /\ buffer'[e] >= 0 /\ buffer'[e] + len'[e] = asked'[e]
                 /\ e = "rx" => len'[e] >= Unit
      <4>1. CASE e = d
        <5>1. len'[d] \in 0 .. LenMod-1
          BY <1>2 DEF HandleTypes
        <5> QED BY <1>2, <3>1, <4>1, <5>1
      <4>2. CASE e # d
        BY <1>2, <3>1, <4>2 DEF ChannelsOK, WithinBuffer
      <4> QED BY <4>1, <4>2
    <3> QED BY <3>1 DEF WithinBuffer
  <2>2. WholeFrames' /\ ReportedOnce'
    BY <1>2 DEF ChannelsOK, WholeFrames, ReportedOnce
  <2> QED BY <1>2, <2>1, <2>2 DEF ChannelsOK, OnlyChanges
<1>3. CASE /\ state' = [state EXCEPT ![d] = READY]
           /\ buffer' = [buffer EXCEPT ![d] = IF d = "tx" THEN NULL ELSE rest]
           /\ len' = [len EXCEPT ![d] = 0]
           /\ due' = [due EXCEPT ![d] = due[d] - 1]
           /\ UNCHANGED asked
  <2>1. state' \in [Dirs -> {READY, BUSY}] /\ len' \in [Dirs -> 0 .. LenMod-1]
    BY <1>1, <1>3 DEF HandleTypes
  <2>2. buffer' \in [Dirs -> NULL .. LenMod-1]
    BY <1>1, <1>3 DEF HandleTypes, NULL
  <2>3. due' \in [Dirs -> {0, 1}] /\ due'[d] = 0
    BY <1>1, <1>3 DEF HandleTypes
  <2>4. HandleTypes'
    BY <1>1, <1>3, <2>1, <2>2, <2>3 DEF HandleTypes
  <2>5. \A e \in Dirs \ {d} : /\ state'[e] = state[e] /\ buffer'[e] = buffer[e]
                              /\ len'[e] = len[e] /\ due'[e] = due[e]
                              /\ asked'[e] = asked[e]
    BY <1>1, <1>3 DEF HandleTypes
  <2>6. state'[d] = READY /\ state'[d] # BUSY
    BY <1>1, <1>3 DEF HandleTypes, READY, BUSY
  <2> QED BY <1>2, <2>3, <2>4, <2>5, <2>6
<1>4. ASSUME NEW n \in Lengths,
             state' = [state EXCEPT ![d] = BUSY],
             buffer' = [buffer EXCEPT ![d] = 0],
             len' = [len EXCEPT ![d] = n],
             asked' = [asked EXCEPT ![d] = n],
             UNCHANGED due
      PROVE  ChannelsOK' /\ OnlyChanges(d) /\ state'[d] = BUSY /\ buffer'[d] = 0 /\ len'[d] = n
  <2>1. n \in 1 .. LenMod-1 /\ n >= Unit /\ n % Unit = 0
    BY LengthFacts
  <2>2. state' \in [Dirs -> {READY, BUSY}] /\ len' \in [Dirs -> 0 .. LenMod-1]
    BY <1>1, <1>4, <2>1 DEF HandleTypes
  <2>3. buffer' \in [Dirs -> NULL .. LenMod-1] /\ asked' \in [Dirs -> 0 .. LenMod-1]
    BY <1>1, <1>4, <2>1 DEF HandleTypes, NULL
  <2>4. HandleTypes'
    BY <1>1, <1>4, <2>2, <2>3 DEF HandleTypes
  <2>5. \A e \in Dirs \ {d} : /\ state'[e] = state[e] /\ buffer'[e] = buffer[e]
                              /\ len'[e] = len[e] /\ due'[e] = due[e]
                              /\ asked'[e] = asked[e]
    BY <1>1, <1>4 DEF HandleTypes
  <2>6. /\ state'[d] = BUSY /\ buffer'[d] = 0 /\ len'[d] = n /\ asked'[d] = n
        /\ due'[d] = 1
    BY <1>1, <1>4 DEF HandleTypes
  <2> QED BY <1>2, <2>1, <2>4, <2>5, <2>6
<1> QED BY <1>3, <1>4 DEF CloseAndReport

\* CR1 after the end of a transfer.
LEMMA ClosedEnables ==
  ASSUME cr1 \subseteq Enables, NEW d \in Dirs, NEW rest, CloseAndReport(d, rest)
  PROVE  cr1' \subseteq Enables
BY DEF CloseAndReport, Enables

\* The calls in progress do not notice what the handler does to a busy channel.
LEMMA HandlerKeepsThread ==
  ASSUME IInv, NEW d \in Dirs, state[d] = BUSY, OnlyChanges(d), UNCHANGED thread
  PROVE  StartInProgress' /\ BlockingInProgress'
<1> USE DEF thread
<1>1. READY # BUSY /\ "tx" \in Dirs
  BY DEF READY, BUSY, Dirs
<1>2. StartInProgress'
  <2>1. dir \in Dirs /\ StartInProgress
    BY DEF IInv, TypeOK
  <2>2. CASE dir = d
    BY <1>1, <2>1, <2>2 DEF StartInProgress
  <2>3. CASE dir # d
    BY <2>1, <2>3 DEF StartInProgress, OnlyChanges
  <2> QED BY <2>2, <2>3
<1>3. BlockingInProgress'
  <2>1. BlockingInProgress
    BY DEF IInv
  <2>2. CASE d = "tx"
    BY <1>1, <2>1, <2>2 DEF BlockingInProgress
  <2>3. CASE d # "tx"
    BY <1>1, <2>1, <2>3 DEF BlockingInProgress, OnlyChanges
  <2> QED BY <2>2, <2>3
<1> QED BY <1>2, <1>3

\* The calls in progress when nothing of theirs changes.
LEMMA ThreadUntouched ==
  ASSUME IInv, UNCHANGED <<handle, thread>>
  PROVE  StartInProgress' /\ BlockingInProgress'
BY DEF IInv, StartInProgress, BlockingInProgress, handle, thread

\* The channels when nothing of theirs changes.
LEMMA ChannelsUntouched ==
  ASSUME IInv, UNCHANGED <<handle, history>>
  PROVE  ChannelsOK'
<1>1. ChannelsOK
  BY IInvGroups
<1> QED
  BY <1>1 DEF ChannelsOK, HandleTypes, WithinBuffer, ReportedOnce, WholeFrames, handle, history

-----------------------------------------------------------------------------
(* The inductive invariant.                                                *)

LEMMA InitIInv ==
  ASSUME Init
  PROVE  IInv
<1> USE USARTAssumption DEF Init, Dirs, READY, BUSY, NULL
<1>1. HandleTypes
  BY DEF HandleTypes
<1>2. ControlTypes
  <2>1. isr \in IsrLabels /\ pc \in {"app"} \cup Starting \cup Polling /\ dir \in Dirs
    BY DEF IsrLabels
  <2>2. cr1 \subseteq Enables /\ cr1_reg \subseteq Enables /\ arg \in 0 .. LenMod-1
    OBVIOUS
  <2>3. /\ txe \in BOOLEAN /\ tc \in BOOLEAN /\ shifting \in BOOLEAN
        /\ rxne \in BOOLEAN /\ ore \in BOOLEAN /\ sr_reg \in BOOLEAN
    OBVIOUS
  <2> QED BY <2>1, <2>2, <2>3 DEF ControlTypes
<1>3. WithinBuffer /\ ReportedOnce /\ WholeFrames
  BY DEF WithinBuffer, ReportedOnce, WholeFrames
<1>4. ShiftOK
  BY DEF ShiftOK, AllSentWhenClosed, TxeStillSet, TCMeansOut, ClosesBusy
<1>5. StartInProgress /\ BlockingInProgress
  BY DEF StartInProgress, BlockingInProgress, Starting, Polling
<1> QED BY <1>1, <1>2, <1>3, <1>4, <1>5, IInvGroups DEF ChannelsOK

\* The peripheral: TC is set only by the end of a frame that no other follows.
LEMMA PeripheralStep ==
  ASSUME IInv, Peripheral
  PROVE  IInv'
<1>1. ControlTypes /\ ShiftOK
  BY IInvGroups
<1>2. UNCHANGED <<handle, cr1, handler, thread, history>>
  BY DEF Peripheral, StartFrame, EndFrame, FrameReceived
<1>3. ControlTypes'
  BY <1>1, <1>2
  DEF ControlTypes, Peripheral, StartFrame, EndFrame, FrameReceived, handler, thread
<1>4. ShiftOK'
  BY <1>1, <1>2
  DEF ControlTypes, ShiftOK, AllSentWhenClosed, TxeStillSet, TCMeansOut, ClosesBusy,
      Peripheral, StartFrame, EndFrame, FrameReceived, handle, handler, thread
<1>5. ChannelsOK' /\ StartInProgress' /\ BlockingInProgress'
  BY <1>2, ThreadUntouched, ChannelsUntouched
<1> QED BY <1>3, <1>4, <1>5, GroupsIInv

\* Every step of USART_IRQ_handling preserves the invariant.
LEMMA HandlerStep ==
  ASSUME Usage, IInv, USART_IRQ_handling
  PROVE  IInv'
<1>1. /\ ControlTypes /\ ChannelsOK /\ ShiftOK
      /\ StartInProgress /\ BlockingInProgress
  BY IInvGroups
<1>2. "tx" \in Dirs /\ "rx" \in Dirs /\ READY # BUSY /\ "tx" # "rx"
  BY DEF Dirs, READY, BUSY
<1>3. CASE EnterHandler \/ CheckTC \/ LoadSR \/ SkipTx \/ SkipRx \/ ReportOverrun \/ NoOverrun
  <2>1. /\ UNCHANGED <<handle, cr1, txe, tc, shifting, thread, history>>
        /\ isr' \in {"TC", "clear_TC", "close", "TXE", "RXNE", "ORE", "none"}
        /\ isr' = "clear_TC" => TransmissionOver
        /\ isr' = "close" => isr = "clear_TC"
    BY <1>3 DEF EnterHandler, CheckTC, LoadSR, SkipTx, SkipRx, ReportOverrun, NoOverrun,
                ReadDR, flags
  <2>2. rxne' \in BOOLEAN /\ ore' \in BOOLEAN /\ sr_reg' \in BOOLEAN
    BY <1>1, <1>3
    DEF ControlTypes, EnterHandler, CheckTC, LoadSR, SkipTx, SkipRx, ReportOverrun, NoOverrun,
        ReadDR, flags
  <2>3. ControlTypes'
    BY <1>1, <2>1, <2>2 DEF ControlTypes, IsrLabels, thread
  <2>4. ShiftOK'
    BY <1>1, <2>1
    DEF ShiftOK, AllSentWhenClosed, TxeStillSet, TCMeansOut, ClosesBusy, TransmissionOver,
        handle, thread
  <2> QED BY <2>1, <2>3, <2>4, ThreadUntouched, ChannelsUntouched, GroupsIInv
<1>4. CASE CloseTransmission
  <2>1. /\ isr = "close" /\ isr' = "TXE" /\ tc' = FALSE /\ sr_reg' = FALSE
        /\ rxne' = (rxne /\ sr_reg)
        /\ CloseAndReport("tx", NULL)
        /\ UNCHANGED <<txe, shifting, ore, thread>>
    BY <1>4 DEF CloseTransmission
  <2>2. state["tx"] = BUSY
    BY <1>1, <2>1 DEF ShiftOK, ClosesBusy
  <2>3. NULL \in NULL .. LenMod-1
    BY USARTAssumption DEF NULL
  <2>4. ChannelsOK' /\ OnlyChanges("tx")
    BY <1>1, <1>2, <2>1, <2>2, <2>3, ChannelClosed
  <2>5. cr1' \subseteq Enables
    BY <1>1, <1>2, <2>1, ClosedEnables DEF ControlTypes
  <2>6. ControlTypes'
    BY <1>1, <2>1, <2>5 DEF ControlTypes, IsrLabels, thread
  <2>7. ShiftOK'
    BY <1>1, <2>1
    DEF ShiftOK, AllSentWhenClosed, TxeStillSet, TCMeansOut, ClosesBusy, thread
  <2>8. StartInProgress' /\ BlockingInProgress'
    BY <1>2, <2>1, <2>2, <2>4, HandlerKeepsThread
  <2> QED BY <2>4, <2>6, <2>7, <2>8, GroupsIInv
<1>5. CASE SendFrame
  <2>1. /\ isr = "TXE" /\ isr' = "RXNE" /\ txe /\ state["tx"] = BUSY
        /\ cr1' \in {cr1, cr1 \ {"TXEIE"}}
        /\ UNCHANGED <<state, sr_reg, thread, history, rxne, ore, shifting>>
    BY <1>5 DEF SendFrame, WriteDR, flags
  <2>2. txe' \in BOOLEAN /\ tc' \in BOOLEAN
    BY <1>1, <1>5 DEF ControlTypes, SendFrame, WriteDR, flags
  <2>3. ControlTypes'
    BY <1>1, <2>1, <2>2 DEF ControlTypes, IsrLabels, thread
  <2>4. pc # "send_write"
    BY <1>1, <1>2, <2>1 DEF BlockingInProgress
  <2>5. ShiftOK'
    <3>1. TCMeansOut'
      BY <1>1, <1>5, <2>1 DEF ShiftOK, TCMeansOut, SendFrame, WriteDR, flags
    <3> QED
      BY <2>1, <2>4, <3>1 DEF ShiftOK, AllSentWhenClosed, TxeStillSet, ClosesBusy, thread
  <2>6. ChannelsOK' /\ OnlyChanges("tx")
    <3>1. CASE len["tx"] > 0
      <4>1. MoveFrame("tx")
        BY <1>5, <3>1 DEF SendFrame
      <4> QED BY <1>1, <1>2, <2>1, <3>1, <4>1, FrameMoved
    <3>2. CASE ~(len["tx"] > 0)
      <4>1. UNCHANGED <<handle, history>>
        BY <1>5, <3>2 DEF SendFrame, handle
      <4> QED BY <4>1, ChannelsUntouched DEF OnlyChanges, handle
    <3> QED BY <3>1, <3>2
  <2>7. StartInProgress' /\ BlockingInProgress'
    BY <1>2, <2>1, <2>6, HandlerKeepsThread
  <2> QED BY <2>3, <2>5, <2>6, <2>7, GroupsIInv
<1>6. CASE StoreFrame
  <2>1. /\ isr = "RXNE" /\ isr' = "ORE" /\ state["rx"] = BUSY /\ len["rx"] > 0
        /\ rxne' = FALSE /\ ore' = FALSE
        /\ UNCHANGED <<txe, tc, shifting, sr_reg, thread>>
    BY <1>6 DEF StoreFrame, FrameToStore, ReadDR
  <2>2. ChannelsOK' /\ OnlyChanges("rx") /\ cr1' \subseteq Enables
    <3>1. CASE Less(len["rx"]) # 0
      <4>1. MoveFrame("rx") /\ UNCHANGED <<state, cr1, history>>
        BY <1>6, <3>1 DEF StoreFrame
      <4> QED BY <1>1, <1>2, <2>1, <3>1, <4>1, FrameMoved DEF ControlTypes
    <3>2. CASE Less(len["rx"]) = 0
      <4>1. CloseAndReport("rx", buffer["rx"] + Unit)
        BY <1>6, <3>2 DEF StoreFrame
      <4>2. buffer["rx"] + Unit \in NULL .. LenMod-1
        BY <1>1, <1>2, <2>1, USARTAssumption
        DEF ChannelsOK, HandleTypes, WithinBuffer, NULL
      <4> QED BY <1>1, <1>2, <2>1, <4>1, <4>2, ChannelClosed, ClosedEnables DEF ControlTypes
    <3> QED BY <3>1, <3>2
  <2>3. ControlTypes'
    BY <1>1, <2>1, <2>2 DEF ControlTypes, IsrLabels, thread
  <2>4. ShiftOK'
    BY <1>1, <2>1
    DEF ShiftOK, AllSentWhenClosed, TxeStillSet, TCMeansOut, ClosesBusy, thread
  <2>5. StartInProgress' /\ BlockingInProgress'
    BY <1>2, <2>1, <2>2, HandlerKeepsThread
  <2> QED BY <2>2, <2>3, <2>4, <2>5, GroupsIInv
<1> QED BY <1>3, <1>4, <1>5, <1>6 DEF USART_IRQ_handling

\* A call of an interrupt-driven function, up to its last write of CR1.
LEMMA StartStep ==
  ASSUME Usage, IInv, Start_IT
  PROVE  IInv'
<1>1. ControlTypes /\ ChannelsOK /\ ShiftOK /\ StartInProgress
  BY IInvGroups
<1>2. /\ pc \in Starting /\ pc' \in Starting \cup {"app"} /\ isr = "none" /\ isr' = "none"
      /\ arg \in Lengths /\ dir \in Dirs
      /\ UNCHANGED <<flags, sr_reg>>
      /\ pc' # "app" => UNCHANGED <<dir, arg>>
      /\ pc' = "app" => Returned
  BY <1>1
  DEF Start_IT, SetBuffer, SetLen, SetState, ReadCR1, WriteCR1, At, Starting,
      StartInProgress, ControlTypes, handler
<1>3. READY # BUSY /\ "tx" \in Dirs
  BY DEF READY, BUSY, Dirs
<1>4. ShiftOK'
  BY <1>1, <1>2
  DEF ShiftOK, AllSentWhenClosed, TxeStillSet, TCMeansOut, ClosesBusy, Starting, flags
<1>5. BlockingInProgress'
  BY <1>2 DEF BlockingInProgress, Starting, Polling
<1>6. dir' \in Dirs /\ arg' \in 0 .. LenMod-1
  BY <1>1, <1>2, <1>3, USARTAssumption DEF ControlTypes, Returned
<1>7. cr1' \subseteq Enables /\ cr1_reg' \subseteq Enables
  BY <1>1
  DEF Start_IT, SetBuffer, SetLen, SetState, ReadCR1, WriteCR1, ControlTypes, Enables, FirstEnable
<1>8. ControlTypes'
  BY <1>1, <1>2, <1>6, <1>7 DEF ControlTypes, flags, IsrLabels
<1>9. ChannelsOK' /\ StartInProgress'
  <2>1. HandleTypes
    BY <1>1 DEF ChannelsOK
  <2>2. CASE SetBuffer
    <3>1. /\ pc = "buffer" /\ pc' = "len" /\ state[dir] = READY
          /\ buffer' = [buffer EXCEPT ![dir] = 0]
          /\ UNCHANGED <<state, len, dir, arg, asked, due>>
      BY <1>1, <1>2, <2>2 DEF SetBuffer, At, StartInProgress, history
    <3>2. buffer' \in [Dirs -> NULL .. LenMod-1] /\ buffer'[dir] = 0
      BY <1>2, <2>1, <3>1, USARTAssumption DEF HandleTypes, NULL
    <3>3. \A d \in Dirs : state[d] = BUSY => buffer'[d] = buffer[d]
      BY <1>3, <2>1, <3>1 DEF HandleTypes
    <3>4. ChannelsOK'
      BY <1>1, <3>1, <3>2, <3>3
      DEF ChannelsOK, HandleTypes, WithinBuffer, ReportedOnce, WholeFrames
    <3>5. StartInProgress'
      BY <1>2, <3>1, <3>2 DEF StartInProgress
    <3> QED BY <3>4, <3>5
  <2>3. CASE SetLen
    <3>1. /\ pc = "len" /\ pc' = "state" /\ state[dir] = READY /\ buffer[dir] = 0
          /\ len' = [len EXCEPT ![dir] = arg]
          /\ UNCHANGED <<state, buffer, dir, arg, asked, due>>
      BY <1>1, <1>2, <2>3 DEF SetLen, At, StartInProgress, history
    <3>2. len' \in [Dirs -> 0 .. LenMod-1] /\ len'[dir] = arg
      BY <1>1, <1>2, <2>1, <3>1 DEF HandleTypes, ControlTypes
    <3>3. \A d \in Dirs : state[d] = BUSY => len'[d] = len[d]
      BY <1>3, <2>1, <3>1 DEF HandleTypes
    <3>4. ChannelsOK'
      BY <1>1, <3>1, <3>2, <3>3
      DEF ChannelsOK, HandleTypes, WithinBuffer, ReportedOnce, WholeFrames
    <3>5. StartInProgress'
      BY <1>2, <3>1, <3>2 DEF StartInProgress
    <3> QED BY <3>4, <3>5
  <2>4. CASE SetState
    <3>1. /\ pc = "state" /\ pc' = "read_cr1" /\ state[dir] = READY
          /\ buffer[dir] = 0 /\ len[dir] = arg
          /\ state' = [state EXCEPT ![dir] = BUSY]
          /\ asked' = [asked EXCEPT ![dir] = arg]
          /\ due' = [due EXCEPT ![dir] = due[dir] + 1]
          /\ UNCHANGED <<buffer, len, dir, arg>>
      BY <1>1, <1>2, <2>4 DEF SetState, At, StartInProgress
    <3>2. arg \in 1 .. LenMod-1 /\ arg >= Unit /\ arg % Unit = 0
      BY <1>2, LengthFacts
    <3>3. due[dir] = 0
      BY <1>1, <1>2, <1>3, <3>1 DEF ChannelsOK, ReportedOnce
    <3>4. /\ state' \in [Dirs -> {READY, BUSY}] /\ state'[dir] = BUSY
          /\ asked' \in [Dirs -> 0 .. LenMod-1] /\ asked'[dir] = arg
          /\ due' \in [Dirs -> {0, 1}] /\ due'[dir] = 1
      BY <1>2, <2>1, <3>1, <3>2, <3>3 DEF HandleTypes
    <3>5. \A d \in Dirs \ {dir} : state'[d] = state[d] /\ asked'[d] = asked[d] /\ due'[d] = due[d]
      BY <2>1, <3>1 DEF HandleTypes
    <3>6. HandleTypes'
      BY <2>1, <3>1, <3>4 DEF HandleTypes
    <3>7. WithinBuffer' /\ ReportedOnce' /\ WholeFrames'
      BY <1>1, <3>1, <3>2, <3>4, <3>5
      DEF ChannelsOK, WithinBuffer, ReportedOnce, WholeFrames
    <3>8. StartInProgress'
      BY <1>2, <3>1, <3>4 DEF StartInProgress
    <3> QED BY <3>6, <3>7, <3>8 DEF ChannelsOK
  <2>5. CASE UNCHANGED <<handle, history>> /\ pc' \notin {"buffer", "len", "state"}
    <3>1. StartInProgress'
      BY <1>2, <2>5 DEF StartInProgress, Starting
    <3> QED BY <2>5, <3>1, ChannelsUntouched
  <2>6. CASE \/ ReadCR1("read_cr1", "write_cr1", FirstEnable(dir))
             \/ WriteCR1("write_cr1", IF dir = "tx" THEN "read_TCIE" ELSE "app")
             \/ ReadCR1("read_TCIE", "write_TCIE", "TCIE")
             \/ WriteCR1("write_TCIE", "app")
    <3>1. UNCHANGED <<handle, history>>
      BY <2>6 DEF ReadCR1, WriteCR1
    <3>2. pc' \notin {"buffer", "len", "state"}
      BY <2>6 DEF ReadCR1, WriteCR1, At
    <3> QED BY <2>5, <3>1, <3>2
  <2> QED
    BY <2>2, <2>3, <2>4, <2>6 DEF Start_IT
<1> QED BY <1>4, <1>5, <1>8, <1>9, GroupsIInv

\* A thread step that leaves the handle and CR1 alone.
LEMMA QuietThreadStep ==
  ASSUME IInv, UNCHANGED <<handle, cr1, shifting, handler, cr1_reg, history>>, isr = "none",
         pc' \in {"app", "buffer"} \cup Polling, dir' \in Dirs, arg' \in 0 .. LenMod-1,
         txe' \in BOOLEAN /\ tc' \in BOOLEAN /\ rxne' \in BOOLEAN /\ ore' \in BOOLEAN,
         tc' => tc /\ txe', pc' = "send_write" => txe',
         StartInProgress', BlockingInProgress'
  PROVE  IInv'
<1>1. ControlTypes /\ ShiftOK
  BY IInvGroups
<1>2. ControlTypes'
  BY <1>1 DEF ControlTypes, handler, Starting
<1>3. ShiftOK'
  BY <1>1
  DEF ShiftOK, AllSentWhenClosed, TxeStillSet, TCMeansOut, ClosesBusy, handle, handler
<1>4. ChannelsOK'
  BY ChannelsUntouched
<1> QED BY <1>2, <1>3, <1>4, GroupsIInv

\* The calls of the application and the blocking functions.
LEMMA ThreadStep ==
  ASSUME Usage, IInv, Application \/ USART_send \/ USART_receive
  PROVE  IInv'
<1>1. ControlTypes /\ ShiftOK /\ BlockingInProgress
  BY IInvGroups
<1> USE DEF flags, handle
<1>2. CASE \E n \in Lengths, d \in Uses : Call_IT(d, n)
  <2>1. PICK n \in Lengths, d \in Uses : Call_IT(d, n)
    BY <1>2
  <2>2. n \in 0 .. LenMod-1 /\ d \in Dirs
    BY USARTAssumption DEF Dirs
  <2>3. /\ isr = "none" /\ pc' = "buffer" /\ state'[dir'] = READY
        /\ dir' \in Dirs /\ arg' \in Lengths /\ arg' \in 0 .. LenMod-1
        /\ UNCHANGED <<handle, cr1, flags, handler, cr1_reg, history>>
    BY <2>1, <2>2 DEF Call_IT, At
  <2>4. StartInProgress' /\ BlockingInProgress'
    BY <2>3 DEF StartInProgress, BlockingInProgress, Polling
  <2>5. /\ txe' \in BOOLEAN /\ tc' \in BOOLEAN /\ rxne' \in BOOLEAN /\ ore' \in BOOLEAN
        /\ tc' => tc /\ txe'
    BY <1>1, <2>3 DEF ControlTypes, ShiftOK, TCMeansOut
  <2> QED BY <2>3, <2>4, <2>5, QuietThreadStep
<1>3. CASE \E n \in Lengths, d \in Dirs : CallBlocking(d, n)
  <2>1. PICK n \in Lengths, d \in Dirs : CallBlocking(d, n)
    BY <1>3
  <2>2. /\ isr = "none" /\ pc' \in {"send_poll", "receive_poll"}
        /\ pc' = "send_poll" => state'["tx"] = READY
        /\ dir' \in Dirs /\ arg' \in 0 .. LenMod-1 /\ arg' > 0
        /\ UNCHANGED <<handle, cr1, flags, handler, cr1_reg, history>>
    BY <2>1, USARTAssumption DEF CallBlocking, At, Dirs
  <2>3. StartInProgress' /\ BlockingInProgress'
    BY <2>2 DEF StartInProgress, BlockingInProgress, Starting, Polling
  <2>4. /\ txe' \in BOOLEAN /\ tc' \in BOOLEAN /\ rxne' \in BOOLEAN /\ ore' \in BOOLEAN
        /\ tc' => tc /\ txe'
    BY <1>1, <2>2 DEF ControlTypes, ShiftOK, TCMeansOut
  <2>5. pc' \in {"app", "buffer"} \cup Polling /\ pc' # "send_write"
    BY <2>2 DEF Polling
  <2> QED BY <2>2, <2>3, <2>4, <2>5, QuietThreadStep
<1>4. CASE \/ Poll("send_poll", "send_write", txe)
           \/ Poll("receive_poll", "receive_read", rxne)
           \/ WaitTC
  <2>1. /\ isr = "none" /\ UNCHANGED <<handle, cr1, flags, handler, dir, arg, cr1_reg, history>>
        /\ pc' \in {"app"} \cup Polling
        /\ pc' = "send_write" => txe
        /\ pc' \in {"send_poll", "send_write"} => pc \in {"send_poll", "send_write"}
        /\ pc' \in Polling \ {"send_TC"} => pc \in Polling \ {"send_TC"}
    BY <1>4 DEF Poll, WaitTC, At, Polling
  <2>2. StartInProgress'
    BY <2>1 DEF StartInProgress, Starting, Polling
  <2>3. BlockingInProgress'
    BY <1>1, <2>1 DEF BlockingInProgress
  <2>4. /\ txe' \in BOOLEAN /\ tc' \in BOOLEAN /\ rxne' \in BOOLEAN /\ ore' \in BOOLEAN
        /\ tc' => tc /\ txe'
        /\ dir' \in Dirs /\ arg' \in 0 .. LenMod-1
    BY <1>1, <2>1 DEF ControlTypes, ShiftOK, TCMeansOut
  <2> QED BY <2>1, <2>2, <2>3, <2>4, QuietThreadStep
<1>5. CASE \/ NextFrame("send_write", "send_poll", "send_TC") /\ WriteDR
           \/ NextFrame("receive_read", "receive_poll", "app") /\ ReadDR
  <2>1. /\ isr = "none" /\ pc \in {"send_write", "receive_read"}
        /\ UNCHANGED <<handle, cr1, shifting, handler, cr1_reg, history>>
        /\ pc' \in {"app", "send_poll", "send_TC", "receive_poll"}
        /\ pc' = "send_poll" => pc = "send_write"
        /\ pc' \in {"send_poll", "receive_poll"} => arg # 1
        /\ pc' = "app" \/ arg' = arg - 1
        /\ pc' = "app" => arg' \in {0, arg - 1}
        /\ dir' \in {dir, "tx"}
        /\ tc' => tc /\ txe' = txe
    BY <1>5 DEF NextFrame, At, Returned, WriteDR, ReadDR
  <2>2. arg \in 1 .. LenMod-1
    BY <1>1, <2>1 DEF ControlTypes, BlockingInProgress, Polling
  <2>3. arg' \in 0 .. LenMod-1 /\ dir' \in Dirs
    <3>1. arg' \in 0 .. LenMod-1
      <4>1. arg' = arg - 1 \/ arg' = 0
        BY <2>1
      <4> QED BY <2>2, <4>1, USARTAssumption
    <3>2. dir' \in Dirs
      BY <1>1, <2>1 DEF ControlTypes, Dirs
    <3> QED BY <3>1, <3>2
  <2>4. pc' \in {"send_poll", "receive_poll"} => arg' > 0
    BY <2>1, <2>2
  <2>5. StartInProgress' /\ BlockingInProgress'
    BY <1>1, <2>1, <2>4 DEF StartInProgress, BlockingInProgress, Starting, Polling
  <2>6. txe' \in BOOLEAN /\ tc' \in BOOLEAN /\ rxne' \in BOOLEAN /\ ore' \in BOOLEAN
    BY <1>1, <1>5 DEF ControlTypes, WriteDR, ReadDR
  <2>7. tc' => tc /\ txe'
    BY <1>1, <2>1 DEF ShiftOK, TCMeansOut
  <2>8. pc' \in {"app", "buffer"} \cup Polling /\ pc' # "send_write"
    BY <2>1 DEF Polling
  <2> QED BY <2>1, <2>3, <2>5, <2>6, <2>7, <2>8, QuietThreadStep
<1> QED
  BY <1>2, <1>3, <1>4, <1>5 DEF Application, USART_send, USART_receive

\* A step that changes nothing.
LEMMA StutterStep ==
  ASSUME IInv, UNCHANGED vars
  PROVE  IInv'
<1> USE DEF vars, handle, flags, handler, thread, history
<1>1. ControlTypes /\ ShiftOK
  BY IInvGroups
<1>2. ControlTypes'
  BY <1>1 DEF ControlTypes
<1>3. ShiftOK'
  BY <1>1 DEF ShiftOK, AllSentWhenClosed, TxeStillSet, TCMeansOut, ClosesBusy
<1> QED BY <1>2, <1>3, ThreadUntouched, ChannelsUntouched, GroupsIInv

-----------------------------------------------------------------------------
(* Theorems.                                                               *)

\* The invariant holds in every reachable state.
THEOREM Invariance ==
  ASSUME Usage
  PROVE  Spec => []IInv
<1>1. Init => IInv
  BY InitIInv
<1>2. IInv /\ [Next]_vars => IInv'
  BY PeripheralStep, HandlerStep, StartStep, ThreadStep, StutterStep DEF Next
<1> QED BY <1>1, <1>2, PTL DEF Spec

\* The types of the handle, the registers and the program counters.
THEOREM TypeCorrect ==
  ASSUME Usage
  PROVE  Spec => []TypeOK
<1>1. IInv => TypeOK
  BY DEF IInv
<1> QED BY <1>1, Invariance, PTL

\* The interrupt handler stays inside the caller's buffers.
THEOREM WithinBufferHolds ==
  ASSUME Usage
  PROVE  Spec => []WithinBuffer
<1>1. IInv => WithinBuffer
  BY DEF IInv
<1> QED BY <1>1, Invariance, PTL

\* Every accepted transfer, in either direction, is reported complete once.
THEOREM ReportedOnceHolds ==
  ASSUME Usage
  PROVE  Spec => []ReportedOnce
<1>1. IInv => ReportedOnce
  BY DEF IInv
<1> QED BY <1>1, Invariance, PTL

\* A transmission is closed only after its last frame has been shifted out.
THEOREM AllSentWhenClosedHolds ==
  ASSUME Usage
  PROVE  Spec => []AllSentWhenClosed
<1>1. IInv => AllSentWhenClosed
  BY DEF IInv
<1> QED BY <1>1, Invariance, PTL

-----------------------------------------------------------------------------
(* Each direction implements Transfer.                                     *)

\* A step that leaves a channel alone is a stutter of its transfer.
LEMMA ChannelStutters ==
  /\ UNCHANGED <<state["tx"], buffer["tx"], len["tx"]>> => UNCHANGED Transmission!vars
  /\ UNCHANGED <<state["rx"], buffer["rx"], len["rx"]>> => UNCHANGED Reception!vars
BY DEF Transmission!vars, Reception!vars, Moved, Left

\* A channel that is free before and after a step is idle in both.
LEMMA FreeStutters ==
  /\ state["tx"] = READY /\ state' = state => UNCHANGED Transmission!vars
  /\ state["rx"] = READY /\ state' = state => UNCHANGED Reception!vars
BY DEF Transmission!vars, Reception!vars, Moved, Left, READY, BUSY

\* The start of a transfer.
LEMMA SetStateRefines ==
  ASSUME IInv, SetState
  PROVE  /\ dir = "tx" => Transmission!Next
         /\ dir = "rx" => Reception!Next
         /\ OnlyChanges(dir)
<1>1. /\ state[dir] = READY /\ buffer[dir] = 0 /\ len[dir] = arg /\ arg \in Lengths
      /\ dir \in Dirs /\ HandleTypes
  BY DEF SetState, At, IInv, TypeOK, HandleTypes, StartInProgress, Starting
<1>2. /\ state'[dir] = BUSY /\ buffer'[dir] = 0 /\ len'[dir] = arg
      /\ OnlyChanges(dir)
  BY <1>1 DEF SetState, HandleTypes, OnlyChanges
<1>3. READY # BUSY
  BY DEF READY, BUSY
<1>4. ASSUME dir = "tx"
      PROVE  Transmission!Next
  <2>1. Transmission!Idle /\ Transmission!Accept(arg)
    BY <1>1, <1>2, <1>3, <1>4 DEF Transmission!Idle, Transmission!Accept, Moved, Left
  <2> QED BY <1>1, <2>1 DEF Transmission!Next, Transmission!Start
<1>5. ASSUME dir = "rx"
      PROVE  Reception!Next
  <2>1. Reception!Idle /\ Reception!Accept(arg)
    BY <1>1, <1>2, <1>3, <1>5 DEF Reception!Idle, Reception!Accept, Moved, Left
  <2> QED BY <1>1, <2>1 DEF Reception!Next, Reception!Start
<1> QED BY <1>2, <1>4, <1>5

\* What the handler does to a transmission.
LEMMA TransmissionRefines ==
  ASSUME Usage, IInv, SendFrame \/ CloseTransmission
  PROVE  /\ Transmission!Next \/ UNCHANGED Transmission!vars
         /\ OnlyChanges("tx")
<1>1. ChannelsOK /\ ShiftOK
  BY IInvGroups
<1>2. "tx" \in Dirs /\ READY # BUSY
  BY DEF Dirs, READY, BUSY
<1>3. CASE SendFrame
  <2>1. state["tx"] = BUSY /\ UNCHANGED <<state, history>>
    BY <1>3 DEF SendFrame
  <2>2. CASE len["tx"] > 0
    <3>1. MoveFrame("tx")
      BY <1>3, <2>2 DEF SendFrame
    <3>2. OnlyChanges("tx") /\ len'["tx"] = len["tx"] - Unit /\ buffer'["tx"] = buffer["tx"] + Unit
      BY <1>1, <1>2, <2>1, <2>2, <3>1, FrameMoved
    <3>3. Transmission!Move
      BY <2>1, <2>2, <3>2 DEF Transmission!Move, Moved, Left
    <3> QED BY <3>2, <3>3 DEF Transmission!Next
  <2>3. CASE ~(len["tx"] > 0)
    <3>1. UNCHANGED handle
      BY <1>3, <2>3 DEF SendFrame, handle
    <3> QED BY <3>1, ChannelStutters DEF OnlyChanges, handle
  <2> QED BY <2>2, <2>3
<1>4. CASE CloseTransmission
  <2>1. CloseAndReport("tx", NULL) /\ state["tx"] = BUSY /\ len["tx"] = 0
    BY <1>1, <1>4 DEF CloseTransmission, ShiftOK, ClosesBusy, AllSentWhenClosed
  <2>2. NULL \in NULL .. LenMod-1
    BY USARTAssumption DEF NULL
  <2>3. /\ OnlyChanges("tx")
        /\ \/ state'["tx"] = READY
           \/ state'["tx"] = BUSY /\ buffer'["tx"] = 0 /\ len'["tx"] \in Lengths
    BY <1>1, <1>2, <2>1, <2>2, ChannelClosed
  <2>4. Transmission!Finish
    BY <1>2, <2>1, <2>3 DEF Transmission!Finish, Transmission!Accept, Moved, Left
  <2> QED BY <2>3, <2>4 DEF Transmission!Next
<1> QED BY <1>3, <1>4

\* What the handler does to a reception.
LEMMA ReceptionRefines ==
  ASSUME Usage, IInv, StoreFrame
  PROVE  Reception!Next /\ OnlyChanges("rx")
<1>1. ChannelsOK
  BY IInvGroups
<1>2. "rx" \in Dirs /\ READY # BUSY
  BY DEF Dirs, READY, BUSY
<1>3. state["rx"] = BUSY /\ len["rx"] > 0
  BY DEF StoreFrame, FrameToStore
<1>4. /\ len["rx"] \in 1 .. LenMod-1 /\ len["rx"] % Unit = 0
      /\ buffer["rx"] + Unit \in NULL .. LenMod-1
  BY <1>1, <1>2, <1>3, USARTAssumption
  DEF ChannelsOK, HandleTypes, WithinBuffer, WholeFrames, NULL
<1>5. Less(len["rx"]) = len["rx"] - Unit /\ len["rx"] >= Unit
  BY <1>4, LessFrames
<1>6. CASE Less(len["rx"]) # 0
  <2>1. MoveFrame("rx") /\ UNCHANGED <<state, history>>
    BY <1>6 DEF StoreFrame
  <2>2. OnlyChanges("rx") /\ len'["rx"] = len["rx"] - Unit /\ buffer'["rx"] = buffer["rx"] + Unit
    BY <1>1, <1>2, <1>3, <1>6, <2>1, FrameMoved
  <2>3. len["rx"] > Unit
    BY <1>4, <1>5, <1>6, USARTAssumption
  <2>4. Reception!Move
    BY <1>3, <2>1, <2>2, <2>3 DEF Reception!Move, Moved, Left
  <2> QED BY <2>2, <2>4 DEF Reception!Next
<1>7. CASE Less(len["rx"]) = 0
  <2>1. CloseAndReport("rx", buffer["rx"] + Unit)
    BY <1>7 DEF StoreFrame
  <2>2. /\ OnlyChanges("rx")
        /\ \/ state'["rx"] = READY
           \/ state'["rx"] = BUSY /\ buffer'["rx"] = 0 /\ len'["rx"] \in Lengths
    BY <1>1, <1>2, <1>3, <1>4, <2>1, ChannelClosed
  <2>3. len["rx"] = Unit
    BY <1>4, <1>5, <1>7, USARTAssumption
  <2>4. Reception!Finish
    BY <1>2, <1>3, <2>2, <2>3 DEF Reception!Finish, Reception!Accept, Moved, Left
  <2> QED BY <2>2, <2>4 DEF Reception!Next
<1> QED BY <1>6, <1>7

\* Each step of USART is a step of a transfer, or leaves it alone, in both
\* directions.
LEMMA NextRefines ==
  ASSUME Usage, IInv, [Next]_vars
  PROVE  /\ Transmission!Next \/ UNCHANGED Transmission!vars
         /\ Reception!Next \/ UNCHANGED Reception!vars
<1> USE DEF handle
<1>1. "tx" \in Dirs /\ "rx" \in Dirs /\ "tx" # "rx"
  BY DEF Dirs
<1>2. CASE UNCHANGED handle
  BY <1>2, ChannelStutters
<1>3. CASE SetBuffer \/ SetLen
  <2>1. dir \in Dirs /\ state[dir] = READY /\ state' = state /\ HandleTypes
    BY <1>3 DEF SetBuffer, SetLen, At, IInv, StartInProgress, Starting, TypeOK, HandleTypes
  <2>2. \A d \in Dirs \ {dir} : buffer'[d] = buffer[d] /\ len'[d] = len[d]
    BY <1>3, <2>1 DEF SetBuffer, SetLen, HandleTypes
  <2>3. CASE dir = "tx"
    BY <1>1, <2>1, <2>2, <2>3, ChannelStutters, FreeStutters
  <2>4. CASE dir = "rx"
    BY <1>1, <2>1, <2>2, <2>4, ChannelStutters, FreeStutters
  <2> QED BY <2>1, <2>3, <2>4 DEF Dirs
<1>4. CASE SetState
  <2>1. dir \in Dirs
    BY DEF IInv, TypeOK
  <2>2. /\ dir = "tx" => Transmission!Next
        /\ dir = "rx" => Reception!Next
        /\ OnlyChanges(dir)
    BY <1>4, SetStateRefines
  <2>3. CASE dir = "tx"
    BY <1>1, <2>2, <2>3, ChannelStutters DEF OnlyChanges
  <2>4. CASE dir = "rx"
    BY <1>1, <2>2, <2>4, ChannelStutters DEF OnlyChanges
  <2> QED BY <2>1, <2>3, <2>4 DEF Dirs
<1>5. CASE SendFrame \/ CloseTransmission
  BY <1>1, <1>5, TransmissionRefines, ChannelStutters DEF OnlyChanges
<1>6. CASE StoreFrame
  BY <1>1, <1>6, ReceptionRefines, ChannelStutters DEF OnlyChanges
<1>7. \/ UNCHANGED handle
      \/ SetBuffer \/ SetLen \/ SetState
      \/ SendFrame \/ CloseTransmission \/ StoreFrame
  BY DEF Next, vars, Peripheral, StartFrame, EndFrame, FrameReceived, USART_IRQ_handling,
         EnterHandler, CheckTC, LoadSR, SkipTx, SkipRx, ReportOverrun, NoOverrun, Application,
         Call_IT, CallBlocking, Start_IT, ReadCR1, WriteCR1, USART_send, USART_receive, Poll,
         NextFrame, WaitTC
<1> QED BY <1>2, <1>3, <1>4, <1>5, <1>6, <1>7

\* USART_send_IT and the TXE and TC branches of the handler implement Transfer,
\* whatever is received meanwhile.
THEOREM USARTTransmissionImplementsTransfer ==
  ASSUME Usage
  PROVE  Spec => TransmissionImplementsTransfer
<1>1. Init => Transmission!Init
  BY DEF Init, Transmission!Init, Transmission!Idle, Moved, Left, Dirs, READY, BUSY
<1>2. IInv /\ [Next]_vars => [Transmission!Next]_(Transmission!vars)
  BY NextRefines
<1> QED
  BY <1>1, <1>2, Invariance, PTL DEF Spec, TransmissionImplementsTransfer, Transmission!Spec

\* USART_receive_IT and the RXNE branch of the handler implement Transfer,
\* whatever is sent meanwhile.
THEOREM USARTReceptionImplementsTransfer ==
  ASSUME Usage
  PROVE  Spec => ReceptionImplementsTransfer
<1>1. Init => Reception!Init
  BY DEF Init, Reception!Init, Reception!Idle, Moved, Left, Dirs, READY, BUSY
<1>2. IInv /\ [Next]_vars => [Reception!Next]_(Reception!vars)
  BY NextRefines
<1> QED
  BY <1>1, <1>2, Invariance, PTL DEF Spec, ReceptionImplementsTransfer, Reception!Spec
==============================================================================
