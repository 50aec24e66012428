# A TLA+ verification of Custom-Mini-RTOS-Kernel

This directory models the repository *Custom-Mini-RTOS-Kernel*: a preemptive
task scheduler for an STM32F446 (Cortex-M4), and a set of register-level
peripheral drivers for the same chip.  The modules are checked with TLC on
small instances; the theorems are proved with TLAPS for every value of the
constants.  `PROJECT.json` lists the components, the runs, the source lines
every definition stands for, the hazards and the theorems.

    tlc -workers 2 -config MCRoundRobin.cfg MCRoundRobin   # a run
    tlapm SchedulerProofs.tla                              # the proofs

Paths below are relative to `src/`.

## 1. Inventory

### Kernel (`task_scheduler/`)

| Component | State | Operations | What is hard | What makes it correct |
|---|---|---|---|---|
| Scheduler (`scheduler.c`) | `user_tasks[].current_state`, `.block_count`, `current_task`, `g_tick_count`; PRIMASK and the two pending bits of ICSR | `task_delay`, `schedule`, `unblock_tasks`, `update_next_task`, `SysTick_Handler`, `PendSV_Handler` | exceptions between any two instructions of `task_delay`; the tick wraps; wake-up by equality | no wake-up is missed; a blocked task does not run; every sleep has the length asked for; every ready task is reached |
| Context switch and start (`scheduler.c`, `main.c`) | PSP, MSP, CONTROL.SPSEL, the registers, six stacks, `user_tasks[].psp_value` | `init_task_stack`, `init_systick_timer`, `switch_sp_to_psp`, exception entry, the save and restore of `PendSV_Handler` | the order of the calls in `PendSV_Handler`; EXC_RETURN in LR; the state in which the first exception finds the processor | a task gets back its registers and its place; stacks are not mixed up |
| Task handlers (`main.c`) | none | print, then `task_delay`, for ever | shared `printf` | - |
| Fault handlers (`scheduler.c`) | none | print and loop | - | - |
| Start-up (`startup.c`, linker script) | `.data`, `.bss` | `Reset_Handler` | - | `.data` copied and `.bss` cleared before `main` |
| C library glue (`sysmem.c`, `syscalls.c`) | heap end, ITM FIFO | `_sbrk`, `ITM_SendChar`, `_write` | heap and stacks meet; two tasks in the FIFO loop | heap below every stack; characters not lost |

The tasks call `task_delay`; `task_delay` and `SysTick_Handler` pend PendSV
through ICSR; `PendSV_Handler` calls `update_next_task`.  Threads and handlers
share `user_tasks`, `current_task` and `g_tick_count`; the only protection is
PRIMASK.

### Drivers (`STM32F446xx_peripheral_drivers/drivers/`)

| Component | State | Operations | What is hard | What makes it correct |
|---|---|---|---|---|
| SPI (`SPI_driver.c`) | the handle's buffers, lengths and TX/RX states; CR2, SR, DR | blocking and interrupt-driven send and receive, `SPI_IRQ_handler`, close, error clearing | the thread and the handler both modify CR2; each reads and clears flags the other waits for; odd lengths with 16-bit frames | a transfer ends, once, with every byte moved; a free channel has its interrupt disabled |
| I2C (`I2C_driver.c`) | handle state, lengths; CR1/CR2, SR1/SR2 | controller and target transfers, event and error handlers, `TRISE`/`CCR` arithmetic | flags cleared by sequences of reads; ACK and STOP must be set before a flag is cleared; the peripheral clears bits of CR1 that the driver modifies; the clock waits for a late handler, the flags change meanwhile | a transfer ends, is reported once, stays in its buffer, and has all its bytes on the bus when it is reported; no byte is received that nobody asked for |
| USART (`USART_driver.c`) | handle states, lengths; CR1, SR, BRR | blocking and interrupt-driven transfers, handler, baud rate | flags cleared by writing the others back; shared CR1 | as SPI; the baud rate is the nearest one |
| GPIO (`GPIO_driver.c`) | the ports' registers; EXTI, SYSCFG and NVIC, which are shared | init, interrupt configuration, output, `GPIO_IRQ_handler` | write-one-to-clear and write-one-to-disable registers modified with `\|=`; ODR modified in the thread and in a handler | one line's interrupt does not disturb the others; a pin keeps what was written to it |
| RCC (`rcc.c`) | - | PCLK1/PCLK2 from the RCC registers | prescaler tables; 32-bit products | the clock tree's arithmetic |
| Register header (`STM32F446xx.h`) | - | clock-enable and reset macros | wrong register or bit | each macro acts on its own peripheral |
| Sample applications | flags set by callbacks | - | a flag reset after the operation that sets it was started | the wait ends |

The drivers do not use the kernel: they are a library for bare-metal programs,
with a main thread, interrupt handlers that call the driver's `*_IRQ_handler`,
and callbacks from the driver to the application.

## 2. Modules

    Delay  <-- Scheduler  <-- ContextSwitch          (<-- : is implemented by)
                  ^
          RoundRobin (adds a history variable)
          UpdateNextTask (the loop behind one operator of Scheduler)

    Transfer  <-- SPI
    Transfer  <-- USART (twice: transmission and reception)

    I2C
    Board  extends  Rcc (clock and reset bits), ClockTree (arithmetic)

**`Delay`** is what the kernel promises its tasks: `Sleep(n)`, `Tick`,
`Dispatch`.  A sleeper has a number of ticks left; a tick takes one off; the
processor goes to an awake task, to idle only if no other is awake.  No
wrapping tick, no pending bits.

**`Scheduler`** is `scheduler.c`'s C code.  The state is the global variables
of `scheduler.c`, PRIMASK, the two pending bits and, per task, a program
counter in `task_delay`, the argument and the register that holds
`g_tick_count + tick_count`.  The actions:

| action | code |
|---|---|
| `Call` | a handler of `main.c` calls `task_delay(n)` |
| `INTERRUPT_DISABLE`, `CheckTask`, `ReadTick`, `SetBlockCount`, `SetBlocked`, `schedule`, `INTERRUPT_ENABLE`, `Return` | the statements of `task_delay` in their order; the assignment to `block_count` is two steps, a load and a store |
| `TimerExpires` | the SysTick counter reaches zero and sets PENDSTSET; nothing happens if it was set |
| `SysTick_Handler` | increment, `unblock_tasks`, pend PendSV |
| `PendSV_Handler` | `update_next_task` |

A thread step is possible only when no unmasked exception is pending, so that
exceptions come between any two statements of `task_delay`.  A handler is one
step: SysTick and PendSV have the same priority (the code never writes the
system handler priority registers, their reset value is 0), no other interrupt
is enabled, so nothing can observe a state inside a handler.  When both are
pending PendSV goes first, by its exception number (14 against 15).

**`UpdateNextTask`** is the loop of `update_next_task`, one iteration a step,
and `LoopFindsNextTask` relates it to the operator of `Scheduler`.

**`RoundRobin`** adds to `Scheduler` a history variable that counts the
context switches since each task was last the current one.

**`ContextSwitch`** is the machine below `Scheduler`: one set of registers, two
stack pointers, stacks of words.  Registers are abstracted to what their loss
would show: `pc` and the working registers, by what the task holds in them.
Exception entry stacks a hardware frame on the stack in use, `PendSV_Handler` adds the software frame, saves PSP
in `user_tasks[current_task]`, and restores that of the task
`update_next_task` chooses, call by call; exception return unstacks.  `main`'s
boot path runs on MSP until `switch_sp_to_psp`.  Its refinement mapping to
`Scheduler` reads a task's program counter from the processor when the task is
running and from the frame on its stack when it is not.

**`Transfer`** is what an interrupt-driven transfer in one direction promises:
accepted only when none is in progress, moved frame by frame, over when all its
bytes have been moved, with the last frame or with a later confirmation of it
(`Last`).  The I2C driver does not implement it: it closes transfers early (see below).

**`SPI`** is `SPI_driver.c` with the application's thread, the interrupt handler
and the peripheral:

| action | code |
|---|---|
| `Call_IT`, `SetBuffer`, `SetLen`, `SetState`, `ReadCR2`, `WriteCR2` | `SPI_send_IT` and `SPI_recieve_IT`, statement by statement; `CR2 \|=` is two steps |
| `CallBlocking`, `Poll`, `WriteDR`, `ReadDR` | `SPI_send` and `SPI_recieve` |
| `EnterHandler`, `ReadTemp1`, `Skip*`, `SPI_TXEIE_Handle`, `SPI_RXNEIE_Handle`, `SPI_OVR_Handle` | `SPI_IRQ_handler`, one step for each read of SR, since the flags change between them |
| `StartFrame`, `EndFrame`, `ModeFault` | the peripheral: BSY, TXE, RXNE, OVR, MODF |

The two directions are the same code twice; `state`, `buffer`, `len` and `cr2` are
functions of the direction.  A frame is its place in the caller's buffer, a
pointer an offset or NULL.  The callback of a completed transfer may start the next.

**`USART`** is `USART_driver.c` in the same way, in full duplex:

| action | code |
|---|---|
| `Call_IT`, `SetBuffer`, `SetLen`, `SetState`, `ReadCR1`, `WriteCR1` | `USART_send_IT` and `USART_receive_IT`; `CR1 \|=` is two steps, and `USART_send_IT` does it twice |
| `CallBlocking`, `Poll`, `NextFrame`, `WaitTC` | `USART_send` and `USART_receive` |
| `EnterHandler`, `CheckTC`, `LoadSR`, `CloseTransmission`, `SendFrame`, `StoreFrame`, `ReportOverrun`, `Skip*`, `NoOverrun` | `USART_IRQ_handling`, branch by branch; `SR &=` is two steps, since the peripheral may set RXNE in between |
| `StartFrame`, `EndFrame`, `FrameReceived` | the peripheral: data and shift register, TXE, TC, RXNE, ORE |

`USART_send_IT`'s transfer ends with the TC that follows its last frame, a
reception's with its last frame.  The branches for CTS, IDLE, NF and FE are left
out: no function of the driver and no sample enables their interrupts.

**`I2C`** is the controller's side of `I2C_driver.c`, with a bus and a target:

| action | code |
|---|---|
| `Call_IT`, `Start_IT` | `I2C_controller_send_IT`, `I2C_controller_receive_IT`; each `CR1 \|=` and `CR2 \|=` is two steps (`Load`, `StoreCR1`, `StoreCR2`) |
| `CallBlocking`, `Address`, `I2C_controller_send`, `I2C_controller_receive` | the blocking calls, one step per statement; `Wait` is the loop on a flag |
| `EnterEventHandler`, `SendAddress`, `CheckADDR`, `DisableACK`, `CloseTransmission`, `SkipBTF`, `SendByte`, `StoreByte`, `SkipRXNE`, `ReenableACK` | `I2C_EV_IRQ_handling`, branch by branch, with `I2C_controller_TXE_handler`, `I2C_controller_RXNE_handler`, `I2C_close_send` and `I2C_close_receive` |
| `EnterErrorHandler`, `CheckError`, `ClearError` | `I2C_ER_IRQ_handling`, one step per flag tested and one per flag cleared: `SR1 &=` writes back what was read |
| `StartCondition`, `StopCondition`, `AddressSent`, `ByteSent`, `ByteReceived`, `Refused`, `BusFault` | the peripheral and the target: SB, ADDR, TxE, RxNE, BTF and the error flags, clock stretching, the acknowledge |

The peripheral goes on between any two statements, and between any two branches
of the handler.  Four things can go wrong from outside, and `mishap` records
them, so that a property can say whether it holds in spite of them: a byte ends
before the software has dealt with the one before (`late`), the flags of a
transfer closed with a repeated start are taken for those of the next
(`early`), the peripheral raises an error flag (`fault`), a store to CR1 sets a
bit again that the peripheral has cleared since the load (`stale`).  The callback
returns, having done nothing or, on AF, what the sample's does: close the
transfer and ask for a stop condition.

**`Rcc`** is the clock and reset macros of `STM32F446xx.h`, each as the register and
bit it names, and the `*_clock_control` and `*_deinit` functions.  **`ClockTree`**
is `rcc.c` and the arithmetic of `I2C_init` and `USART_init`.  **`Board`** puts
them together with what the four drivers share: the RCC, NVIC, SYSCFG and EXTI
registers, and ODR:

| action | code |
|---|---|
| `ClockControl`, `Deinit` | `GPIO_`, `SPI_`, `I2C_`, `USART_clock_control` and `_deinit` |
| `SPI_init`, `I2C_init`, `USART_init`, `PeriphControl`, `SPI_SSI_config`, `SPI_SSOE_config` | the functions of these names; a store to a peripheral without a clock, or held in reset, is lost |
| `*_IRQ_config`, `*_set_priority` | the same two functions in four drivers, each for its own interrupt numbers |
| `GPIO_init`, `LoadODR`, `StoreODR`, `GPIO_write_output_port` | the GPIO driver; `ODR \|=`, `&=` and `^=` are two steps |
| `Edge`, `EnterHandler`, `ToggleLED`, `LoadPR`, `StorePR` | an edge on a pin, the sample's handler, `GPIO_IRQ_handler` |

The variable `asked` records what the application has asked for; the properties
compare the registers with it.

**`SchedulerProofs`**, **`RoundRobinProofs`**, **`UpdateNextTaskProofs`**,
**`ContextSwitchProofs`**, **`SPIProofs`**, **`USARTProofs`**, **`I2CProofs`**,
**`BoardProofs`** hold the theorems; the **`MC*`** modules and the
`.cfg` files the instances for TLC.

Code that is not in the repository, modelled from how the code uses it: the
Cortex-M exception model (pending bits, PRIMASK, priority, stacking, tail
chaining, EXC_RETURN), the SPI peripheral (flags, the sequence that clears
OVR, the interrupt line) and the USART (flags, the sequences that clear TC and
ORE, the interrupt line), the I2C peripheral, the bus and the target, the
hardware's bit positions in RCC, EXTI and the NVIC.

## 3. Runs

| run | what it asks | bounds |
|---|---|---|
| `scheduler` | Do all interleavings of `task_delay` with the two handlers keep the wake-ups (`NoMissedWakeup`), keep blocked tasks off the processor (`BlockedNeverRuns`), pair PRIMASK (`CriticalSectionMasked`), give each task the sleep it asked for (`ImplementsDelay`), and pass over a ready task at most once for each other task (`BoundedBypass`)? | idle and three tasks, tick counter of 3 values, delays 1 and 2, idle calls `task_delay` too |
| `update_next_task` | Is the loop the operator `Scheduler` uses? | all the inputs for the repository's five tasks |
| `context_switch` | Does the machine with one register set implement `Scheduler`? Is a stack written only by its own task? Does the handler return? Does every sleeper wake (`ImplementsFairDelay`), every ready task get the processor (`ReadyEventuallyDispatched`)? | idle and two tasks, counter of 3, delays 1 and 2, stacks of 5 units |
| `spi` | Does a transmission by interrupt stay in its buffer, is it reported once, does it leave its interrupt disabled, does it implement `Transfer`? Does `SPI_send` return? | master, 16-bit frames, lengths of one to three frames, blocking calls in between, mode faults |
| `spi_stall` | (violated) Is a transmission by interrupt completed? | master, lengths 1 and 2 |
| `usart` | In full duplex, does the handler stay in both buffers, is every transfer reported once, is a transmission closed only when it is out, do both directions implement `Transfer`, all in spite of the races on CR1? | 9-bit frames, lengths of one and two frames, both directions by interrupt, blocking calls in between |
| `i2c` | Do the calls and the handlers agree on the buffer, is each transfer reported once, are all bytes on the bus when it is, is no unwanted byte received, does a stop condition come only at the end, do transfers end and calls return? | lengths 1, 2 and 3, both directions, blocking and by interrupt, with and without repeated start, one error flag per behaviour |
| `i2c_early_close` | (violated) Have all bytes been sent when the transmission is reported? | lengths 1 and 3, no error flags |
| `board` | After any three set-up calls, any writes of pins, and a pin's interrupts among them: which clocks and resets are as asked for and which are not (`ReadyForUse`), has each line the port and edge asked for (`LineRouted`), each pin its value (`PinsAsWritten`), each bus its rate (`RatesAsAsked`)? | two ports, two lines with one vector, an SPI, an I2C, a USART; two clock configurations; interrupts of three NVIC banks |
| `irq_bank_disabled` | (violated) Is an interrupt enabled exactly if the last call about it enabled it? | one port, two interrupts of one bank |
| `exti_lost_edge` | (violated) Does `GPIO_IRQ_handler` clear only the pin it is given? | one port, two lines |
| `scheduler_zero_delay` | (violated) Does a task that delays by zero keep to its delay? | as `scheduler`, with delay 0 |

Why the bounds are enough.  The tick counter of the code has 2^32 values; what
matters is that it wraps while a task sleeps, that tasks sleep across the wrap
with equal and with different `block_count`s, and that a delay can be the
longest the counter allows (`TickMod-1`): three values do that.  Three tasks
besides idle are enough for two to compete for the processor while one sleeps,
and for the one that wakes to be on either side of the current task in the round robin.  In any case, the safety part of `scheduler`, `update_next_task` and all of
`context_switch` are proved for all values, as are the safety parts of the drivers' runs under
the assumptions of section 4.  In `context_switch` three tasks
give two that alternate and idle between them; five units of eight words hold task 1's
two dummy frames, a frame of `task_delay` and the two halves of a context, and
nothing more, so that overlapping stacks are seen.  The liveness properties are
checked on this machine, so that its instructions, and not only the statements of
`task_delay`, are between a ready task and the processor: with two tasks one can
be starved by the other, and with a counter of three both sleep across its wrap.

In `spi` a frame is the first, the last, both, or neither: lengths of one to
three frames have all of these.
`LenMod` is just above the longest length, so that a length that wraps is in
range and is seen.

In `usart` a length of one frame makes the first frame the last, one of two
frames has a frame after which the transfer goes on; the two directions are
independent except for CR1, SR and the thread, so that more frames add nothing.

In `i2c` the driver distinguishes transfers of one, two and more bytes: three is
the least of "more".  A second transfer follows the first in every way; after a
mishap other than an error flag the application makes no further call, since what the driver
does then is the subject of `i2c_early_close` and of the hazards.  In `board`
three set-up calls are an initialisation, something that disturbs it, and something
that shows it; `MaxCalls` bounds these only, since the writes of pins, the edges and the
handler repeat as often as they like (the pins' values are finite).  The two ports' codes, 1 and 6, have no bit in common, so that
their union is neither; the peripherals are some of those whose macros differ (SPI2's
reset hits SYSCFG, USART1's holds it in reset, GPIOG has no clock) and
others whose macros are right.  The clocks are that of the reset value of CFGR and a
divided one.  The proofs of `Board` hold for all peripherals and any number of calls.

Five runs have a counterexample, each a statement of the repository about
itself that the code does not keep:

* `task_delay(0)` (`scheduler.c:145`).  `block_count` becomes the current tick,
  which `unblock_tasks` has already looked at; it is next equal after the
  counter has gone all the way round.  No handler of `main.c` does this.
* `I2C_driver.c:565`: the branch of BTF closes a transmission whatever is left of it.
  BTF is set when the handler is late by one byte, so a longer interrupt or a
  callback is enough: the rest is never sent, no stop condition is
  asked for, and the application is told that all is done (`i2c_early_close`).
* `GPIO_driver.c:400`: `EXTI->PR |=` clears all pending lines, not only the one given
  (`exti_lost_edge`); the edge of another line is lost.
* `GPIO_driver.c:348`: ICER reads as the enabled interrupts, so that `ICER |=`
  disables all of the bank, not only the one given (`irq_bank_disabled`); the other
  three drivers have the same function.
* `SPI_IRQ_handler` reads the bits TXEIE, RXNEIE and ERRIE from SR instead of
  CR2 (`SPI_driver.c:428`, `:437`, `:446`), where the same positions hold BSY,
  OVR and MODF.  `spi_stall`: an idle master has BSY clear and never sends.
  An interrupt of the reception that finds TXE and BSY set sends, through the
  null pointer, for a transmission nobody started (`UnusedFrame` in the proofs).

Others the models have, though no run is spent on them:

* `README.md:89` "PendSV has lower priority, so it only gets executed after all
  other interrupts".  The priority is never set, so PendSV goes before a
  pending SysTick.  The consequence is benign: the task that is switched to is
  switched away from again by the tick's own PendSV before it executes.
* `SPI_driver.c:298` and `:331`: the read-modify-write of CR2 loses the change a
  completion in the other direction makes in between.  And `SPI_driver.c:204` tests TXE
  before it writes DR: during a reception by interrupt the handler can write DR in between,
  since it takes BSY for TXEIE.  Both need the direction that the runs of `SPI` leave out.
* `USART_driver.c:415` is a read-modify-write of CR1 that the handler can
  interrupt.  If the handler sends the last frame in between,
  the TXEIE it has cleared is set again; with the transmission closed, nothing
  clears it, and the thread does not run any more.  It takes a frame that is out
  by the time the handler is back: a high baud rate, or another
  interrupt in between.
* `USART_driver.c:655`: the RXNE branch's read of DR clears ORE before the ORE
  branch looks at it.
* The `USART*_PCLK_EN` macros (`STM32F446xx.h:270`) set bits of the low-power enable
  registers: the USARTs never get a clock from `USART_clock_control`.
* `STM32F446xx.h:336`-`:338`, `:350`, `:355`: these reset macros clear another bit than they
  have set, and leave a peripheral in reset, in spite of the note at line 322; SPI2's resets SYSCFG.
* `GPIO_clock_control` and `GPIO_deinit` do nothing for GPIOG.
* Priorities and EXTICR are or-ed to what is there: an interrupt that is given a second
  priority, or a line set up for a second port, gets the union of the two codes.
* `ODR |=`, `&=` and `^=` lose the toggle of a handler that comes between the load and the
  store: of the pin the handler toggles only, and until the next set or reset of that
  pin.  `PinsAsWritten` says so, for all other pins without exception.
* `I2C_driver.c:146`: PCLK1 times 300 overflows at the reset clock of 16 MHz, so that TRISE is
  1 instead of 5 in fast mode.  A fast bus on a slow clock gets a CCR of zero.
* `USART_driver.h:47` defines `USART_STD_BAUD_2400` as 400.

Because of the two faults of the SPI driver, what holds of its interrupt-driven transfers
holds for an application that uses one direction by interrupt: `spi` is about
a transmission, and the theorems about a transmission or a reception, while the handler does
go through the other direction by mistake.  The USART's handler looks at the
state and the length before it moves a frame, so that its safety holds in full
duplex; only its liveness suffers.

Two smaller disagreements have no run.  A transmission of length zero
(`SPI_driver.c:539`) sends a byte and wraps the length, where the comment at 543
says that a length of zero closes it.  The comment at `scheduler.c:191` says
that `current_task` is 0 to 3; with five tasks it is 0 to 4.

Each property of a passing run has a mutant in `PROJECT.json`: a plausible
bug in one definition (a missing INTERRUPT_DISABLE, a search that starts at
task 1, a tick counted after the wake-ups) which the run must find.  The mutated
forms stand beside the definitions they mutate.

### Fairness

`FairSpec` of `ContextSwitch` assumes weak fairness of `main`'s boot path, of the
timer, of the processor's exceptions and the statements of the handlers, and of the
statements of `task_delay`.  The SysTick counter reloads by itself
(`init_systick_timer` never stops it); the processor takes a pending unmasked
exception, and goes on with the code it is in.  A task's own code has no fairness: a task may
compute for ever and never call.  Liveness therefore holds without cooperation of the tasks,
which is what "preemptive" means here.  A state machine of this kind has no
clock: that a tick leaves the processor enough time for a task's statements
between two ticks is not assumed, and no property needs it, because a blocked
task is woken, and a ready one switched to, by the handlers alone.

`FairSpec` of `SPI` assumes weak fairness of the frames (a frame on the wire
ends; the peer goes on clocking), of the handler and of the driver's thread
steps; the application need not make another call.  `SendReturns` needs the
frames to end; that `SPI_recieve` returns depends on the peer, as its note
says.  `spi_stall` shows that even with all of this fairness a transmission by
interrupt does not end.  `FairSpec` of `USART` assumes the same of its frames,
its handler and the driver's steps.  No liveness of the transfers is claimed for
it: a lost RXNE, an enable written back or a storm of the handler can each stop
one.

`FairSpec` of `I2C` assumes weak fairness of the peripheral (it makes the
conditions it is asked for, and moves the byte it has), of the target (it
acknowledges), of both handlers and of the driver's statements.  The application
need not call, no error need occur, and a late handler is no assumption: the byte may
end first.  `TransferCompletes` and `CallReturns` are claimed as long as
`mishap` is empty, since the driver has no timeout with which to recover.

`Board` states no fairness; its properties are about safety.

## 4. Proofs

`SchedulerProofs` assumes `SchedulerAssumption`: at least two tasks, a counter
of at least two values, delays that fit in it.  TLC evaluates the assumption in
every run.

* `IInv` is the inductive invariant: `TypeOK`, `IdleNeverBlocks`,
  `CriticalSectionMasked`, `CallInProgress` and `SwitchPending`.
  None of the conjuncts is inductive alone.  That `BlockedNeverRuns` holds needs that, between `SetBlocked` and
  `schedule`, PRIMASK is set (`CriticalSectionMasked`), which needs that
  `PendSV_Handler` cannot switch inside a critical section; that idle never blocks needs
  that idle never gets past `CheckTask` (`CallInProgress`).  `Invariance` is
  `Spec => []IInv`; `TypeCorrect`, `BlockedNeverRunsHolds`,
  `CriticalSectionMaskedHolds` and `IdleNeverBlocksHolds` follow.
* `NoMissedWakeupHolds` assumes in addition that no delay is zero, which the
  first finding shows to be necessary.  The step that matters is
  `SysTick_Handler`: a task with one tick left is the one whose `block_count`
  equals the new tick, and every other sleeper comes one tick nearer;
  `SetBlocked` establishes the bound because, by `CallInProgress`, no tick has
  come since `ReadTick`.
* `SchedulerImplementsDelay`, under the same assumption: `SetBlocked` is
  `Sleep`, `SysTick_Handler` is `Tick`, `PendSV_Handler` is `Dispatch`, and all
  other actions are stutters.  It needs that `update_next_task` yields a ready
  task, and idle only if there is no other; `CHOOSE` of the first `k` is
  justified by the least-number principle, derived from well-foundedness of
  the naturals.
* `BoundedBypassHolds` (`RoundRobinProofs`): the switches since a task was last
  current never exceed its distance from `current_task` in the round robin.
* `LoopCorrect` (`UpdateNextTaskProofs`): the loop invariant says that no task
  visited so far was eligible.

* `SPIProofs` assumes `Usage`: one direction is used by interrupt, and lengths
  are positive and whole frames.  Its `IInv` adds to the properties that a call in progress
  has the channel to itself (`StartInProgress`: no interrupt is enabled yet),
  that the handler reaches the direction in use only while it is busy
  (`HandlerFindsBusy`), that the other one is never opened
  (`UnusedClosed`), and that whole frames are left (`WholeFrames`).  `UsedFrame` and `UnusedFrame` treat a frame in
  either direction; every step of the handler is one of them or touches flags
  only.  `SPIImplementsTransfer` maps `SetState` to `Start`, a frame in the
  direction in use to `Move` or `Finish`, and all else to stutters.

* `USARTProofs` assumes only that lengths are positive and whole frames.  `IInv`
  says nothing about CR1: the handler's tests of state and length suffice.
  It adds that TC means that nothing is left to shift out (`TCMeansOut`), that
  the handler closes a busy transmission (`ClosesBusy`), that a call in progress
  has its channel to itself until it sets the state (`StartInProgress`), and that
  no transmission competes with `USART_send` (`BlockingInProgress`).
  `FrameMoved` and `ChannelClosed` say what the handler may do to a channel;
  each leaves the other direction alone (`OnlyChanges`), which makes the two
  refinements independent.

* `I2CProofs` assumes that the lengths are bounded (`Usage`), and in its first part nothing
  about the peripheral: the flags may come in any order the model has, the handlers be
  as late as they like, errors occur anywhere.  `IInv` is `TransferOK` (the
  lengths and offsets, `WithinBuffer`, `ReportedOnce`, and that a transfer is
  closed before it is reported), the types, that what was loaded from CR1 and
  CR2 is a value of these registers (`RegistersOK`: a read-modify-write spans two
  steps), and that a blocking call counts down to zero and no further (`CountDown`).
  `ReportedOnce` alone is not inductive: a close from the error callback leaves
  nothing owed only because every other close is followed at once by its
  report.  `WithinBuffer` needs it in turn, because the handler moves bytes by the state alone.
  `TransferCloses`, `ByteMoved` and `TransferStutters` are the three things a
  step can do to a transfer.

  The second part is about the bus as long as `mishap` is empty.  The properties
  say what has been on the bus at one moment (`NoUnwantedByte`, `WholeTransferReported`,
  `StopOnlyAtEnd`); what makes them inductive is `BusInv`, an account of every
  byte at every moment.  Of a transmission, the bytes sent, the one being
  shifted, the one in DR and those left are the transfer (`SendPhase`); of a
  reception, those received are those read and the one in DR, and a byte is received
  only if it is left to read, ACK having been withdrawn for the last (`ReceivePhase`).  That
  needs to know where the bus is when the thread or the handler is at each of its
  statements (`PlacePart`), that the flags of SR1 say what the bus does
  (`FlagsOK`), that the start condition is asked for once (`StartOK`), and that the thread and
  the handler do not both serve a transfer (`ServedByOne`: the event interrupt is
  enabled last).  Between two transfers with a repeated start the bus still is where the
  first has left it, which is why every count is of a transfer that has started
  (`NotStarted`).  Each action keeps the three parts (`PeripheralHealthy`,
  `EventHealthy`, `CallHealthy`, ...); what the counting rests on is in `ByteSentCounts`,
  `ByteReceivedCounts` and `WriteCounts`.  TLC has checked `BusInv` with the
  constants of the run `i2c`.  `StopOnlyAtEndHolds` then looks at the steps that set
  STOP: `CloseTransmission`, `StoreByte` and the calls' own statements; all the others
  clear it, leave it, or write back a stale value, which `mishap` records.

* `ContextSwitchProofs` assumes `ContextSwitchAssumption`: stacks of at least five units,
  what the dummy frames, a frame of `task_delay` and a context take, and as many
  tasks of as many stacks as one likes.  `IInv` says where everything is.  The
  address of a task's context is determined by the task and by where it is in its
  code (`Top`, `Frame`); while its thread runs, the registers are these
  (`ThreadInv`); while a handler runs, half of the context is where PSP points
  (`InterruptedInv`); the contexts of the other tasks are where `user_tasks` says,
  whole (`SuspendedInv`); in a handler the main stack holds at most the LR that
  `PendSV_Handler` has pushed (`HandlerInv`); until task 1 runs nothing is pending, and
  every stack holds its dummy frames (`BootInv`).  `Stacks` shows, from the
  definitions of `main.h`, that stacks have no address in common; so what
  the running task and the handlers push leaves the other contexts alone
  (`OthersNotWritten`).  `TypeCorrect`, `RunsItsOwnTaskHolds`,
  `ReturnsFromHandlerHolds` and `StackWrittenByItsTaskHolds` follow.
* `ContextSwitchImplementsScheduler` rests on that invariant.  `Views` says what
  the mapping shows of a task, wherever its context is at the time;
  saving it, choosing another task and restoring it show nothing (`SaveContextSimulates`,
  `UpdateNextTaskSimulates`, `RestoreContextSimulates`), since `Scheduler` has switched
  when the exception was taken (`AcknowledgeSimulates`); a statement of the running
  thread is that statement of that task (`ThreadSimulates`).  The theorems of
  `SchedulerProofs` are then taken over under the same mapping (`K`, an instance of that
  module; `SameScheduler` and `SameDelay` show that it speaks of the same specifications):
  `BlockedNeverRunsOnProcessor`, `NoMissedWakeupOnProcessor` and, from the
  instructions of `PendSV_Handler` to the promise of `task_delay`, `ContextSwitchImplementsDelay`.

* `BoardProofs` assumes `BoardAssumption` (the peripherals, lines, interrupts and
  priorities exist) and holds for any number of calls, where the run has three.
  `IInv` says of each register what the calls so far have left in it:
  `ClockInv`, bit for bit, with the resets that were asked for; `LineInv`, EXTICR as the
  union of the codes of the ports a line was set up for (`Routed`) and the edges last selected;
  `PinInv`, what ODR holds once the thread has stored what it has loaded (`Stored`).  The unions are the strengthening
  that is needed: that a line set up once is routed as asked says
  nothing about what the next set-up finds.  In `PinInv` the handler's toggle of the LED
  between a load and a store changes neither `Stored` nor what is asked of any other pin.
  `ReadyForUseHolds` is exact: it says which clocks and resets the macros get wrong
  (`HeldMacros`) and that they get no other wrong.  What the macros hit comes from
  the positions of the bits, which are all different (`PositionInjective`).
* `RatesAsAskedHolds` (`BoardProofs`) is about all clock configurations and assumes
  `RatesFit`: at each of the clocks CCR fits its twelve bits, and the
  rounding of BRR's fraction does not carry.  TLC evaluates `RatesFit` for
  the constants of `board`.  It is no more than is needed: `CCRExact` and
  `BRRExact` show that the register is within one step of the exact divider if and only
  if its computation does not truncate, or carry.  `TRISE` shows, for each of
  the frequencies that the clock tree can give (`PclkValues`, `PclkRange`), that the
  product of 32 bits in `I2C_init` is right below 14.3 MHz.

Only model-checked: the liveness properties (`ReadyEventuallyDispatched`,
`SendReturns`, `TransferCompletes`, `CallReturns`) and `ImplementsFairDelay`, since the
prover has no ENABLED.  Every safety property and every action property of a
passing run is a theorem.

## 5. What the models leave out

* Time.  A tick that expires while the previous one is still pending is lost,
  in the model as in the machine, but how often this can happen depends on
  the length of the critical section and of the handlers against the tick
  period.  Sleeps are counted in `SysTick_Handler` calls.
* The first tick is assumed not to expire before `switch_sp_to_psp` and the
  call of `task1_handler` are done (`init_systick_timer` loads 1 ms;
  the path is some tens of instructions).  The mutant
  `TimerExpires_DuringBoot` shows what would happen.
* The read-modify-write of ICSR is one step: PENDSTSET and PENDSVSET are
  write-one-to-set, and writing back a pending SysTick bit that has been
  taken since cannot happen with the interrupts masked or in a handler of the
  same priority.
* The floating-point frame (no task uses the FPU), the fault handlers, output.
* The contents of SPI frames, CRC, and DMA; in `SPI`, SPE is set and the
  IRQ enabled before the first transfer, as the sample applications do.  The
  addresses after NULL, through which the handler of an unused direction
  moves, are one value.
* The contents of USART frames, parity, and the branches of the
  handler for CTS, IDLE, NF and FE.
* In `I2C`: the target's side (`I2C_target_send` and `_receive` and the branch of STOPF),
  transfers of length zero, the error branches for OVR, PECERR, TIMEOUT and SMBALERT (the
  same code as BERR's), a callback that does not return (the sample's loops
  after AF), arbitration between controllers, the variables of the sample.
* In `Board`: the fields of CR1 to CR3 that are copied from the configuration and not read
  again, the pins' modes other than the interrupt edges, reads of pins.  A
  set-up function is one step: no handler of the repository touches what it writes, except
  ODR and PR, whose accesses are separate steps.
* The PLL: `rcc.c` takes it for HSI, and so does `ClockTree`.

Not modelled: the fault handlers (they loop), `Reset_Handler` (a
sequential copy without interrupts), `syscalls.c` and `sysmem.c` (the preempted
`ITM_SendChar` and a heap that meets the stacks are in the plan; nothing in the
kernel calls `malloc` itself, only `printf` may), the wiring and delay loops of the samples.

## 6. Plan

Done in this order: the scheduler and its promise; its proofs; the loop;
bounded waiting; the context switch; the SPI transfers and their proofs; the USART
transfers and their proofs; the I2C controller and the proofs of its handle; the clock
tree, the reset and clock bits, and the shared registers (`Board`) and their proofs; the
proofs of the context switch; the proofs of I2C's bus, of the rates, and of the kernel from
`PendSV_Handler` to `Delay`.  Next:

1. `SPISample`: the sample application that sends, discards what came in,
   and fetches the answer, with frame contents; the I2C sample's flags.
2. I2C's target side, and the USART's branches for CTS, IDLE, NF and FE.
3. `Console` and `Heap`: preempted `ITM_SendChar`, and `_sbrk` against the stacks.
