----------------------------- MODULE Z80Control -----------------------------
(***************************************************************************)
(* How the AVR and the Z80 share one bus: hardware/bus.c (request, release *)
(* and their time-outs), hardware/z80.c (reset, run, debug), and           *)
(* iorq_dispatch of hardware/io.c, which serves the Z80's I/O requests and *)
(* runs the DMA a request may have queued.                                 *)
(*                                                                         *)
(* The AVR program is sequential: pc is where it stands.  The Z80 is       *)
(* external; it is modelled by the machine cycle it is in and by the pins  *)
(* the firmware reads.  While the PWM clock runs it moves by itself;       *)
(* otherwise it moves only when the AVR toggles its clock.                 *)
(***************************************************************************)
EXTENDS Integers

CONSTANT
  Timeout     \* clock toggles before bus_request or bus_release gives up

\* A request that finds the Z80 in reset needs two machine cycles to succeed.
ASSUME BusAssumption == Timeout \in Nat /\ Timeout > 2

VARIABLES
  pc,       \* where the AVR program stands
  ret,      \* where bus_request or bus_release returns to
  back,     \* where iorq_dispatch returns to
  left,     \* toggles left before the bus loop times out
  ok,       \* result of the last bus_request
  busrq,    \* BUSRQ is low
  clk,      \* the PWM clock runs
  avr,      \* the AVR drives address, IORQ, MREQ, RD and WR
  dout,     \* the AVR drives the data bus
  dma,      \* dma_function is set
  watch,    \* watch_flag: the halt key was received
  mask,     \* halt_mask
  armed,    \* CTRLX_GPINTEN: the pins that raise an interrupt when low
  intr,     \* the pins captured in CTRLX_INTCAP; {} when IOXINT is high
  why,      \* why z80_run stopped
  z80,      \* what the Z80 is doing
  dir,      \* direction of its current I/O cycle
  served,   \* times the current I/O cycle was given to its device
  halted,   \* HALT is low
  button,   \* somebody holds RESET low
  pressed,  \* somebody ever did
  low       \* pins that have been low since z80_run last started

avrVars == <<pc, ret, back, left, ok>>
z80Vars == <<z80, dir, served, halted>>
busVars == <<busrq, clk, avr, dout, dma>>
intVars == <<mask, armed, intr, why>>
userVars == <<watch, button, pressed>>
vars == <<avrVars, z80Vars, busVars, intVars, userVars, low>>

Pins == {"RESET", "HALT"}

\* The pins that are low when h says HALT is and b says RESET is.
LowPins(h, b) ==
  (IF h THEN {"HALT"} ELSE {}) \cup (IF b THEN {"RESET"} ELSE {})

\* The expander latches the first interrupt and keeps it until INTCAP is read.
Latched(pins) == IF intr # {} THEN intr ELSE
                 IF pins \cap armed # {} THEN pins ELSE {}

\* What bus.h reads from the lines.
BusAck  == z80 = "ack"              \* !GET_BUSACK
WaitLow == z80 = "io" /\ ~ busrq    \* !GET_WAIT: external logic holds the Z80

Init ==
  /\ pc = "boot" /\ ret = "cli" /\ back = "runKey"
  /\ left = Timeout /\ ok = FALSE
  /\ busrq = FALSE /\ clk = FALSE /\ avr = FALSE /\ dout = FALSE
  /\ dma = FALSE /\ watch = FALSE
  /\ mask = Pins /\ armed = {} /\ intr = {} /\ why = "none"
  /\ z80 = "reset" /\ dir = "rd" /\ served = 0 /\ halted = FALSE
  /\ button = FALSE /\ pressed = FALSE /\ low = {}

-----------------------------------------------------------------------------
(* The Z80 (external): one step is the rest of one machine cycle. *)

\* A memory cycle or an internal one follows, the HALT state with its NOPs, or
\* an I/O cycle, which a halted processor does not start.
NextCycle ==
  \/ /\ z80' = "mem" /\ halted' \in {halted, TRUE}
     /\ served' = 0 /\ UNCHANGED dir
  \/ /\ ~ halted /\ z80' = "io" /\ dir' \in {"rd", "wr"}
     /\ served' = 0 /\ UNCHANGED halted

\* BUSRQ is sampled at the end of each cycle; an I/O cycle cannot end while
\* WAIT is low; RESET is noticed at a clock edge.  BUSACK rises before the next
\* cycle's strobes fall, so no I/O cycle starts in the clock that ends "ack".
MachineCycle ==
  /\ \/ /\ button
        /\ z80' = "reset" /\ halted' = FALSE /\ served' = 0 /\ UNCHANGED dir
     \/ /\ ~ button /\ (z80 = "reset" \/ (BusAck /\ ~ busrq))
        /\ z80' = "mem" /\ UNCHANGED <<dir, served, halted>>
     \/ /\ ~ button /\ z80 \in {"mem", "io"} /\ busrq
        /\ z80' = "ack" /\ UNCHANGED <<dir, served, halted>>
     \/ /\ ~ button /\ z80 = "mem" /\ ~ busrq
        /\ NextCycle
     \/ /\ ~ button /\ (WaitLow \/ (BusAck /\ busrq))
        /\ UNCHANGED z80Vars
  /\ intr' = Latched(LowPins(halted', button))
  /\ low' = low \cup LowPins(halted', button)

Z80Step ==
  /\ clk
  /\ MachineCycle
  /\ UNCHANGED <<avrVars, busVars, mask, armed, why, userVars>>

\* CLK_TOGGLE as part of an AVR step.  While the PWM drives the clock pin it
\* changes nothing.
Toggle ==
  IF clk THEN UNCHANGED <<z80Vars, intr, low>> ELSE MachineCycle

-----------------------------------------------------------------------------
(* hardware/bus.c *)

Goto(from, to) == pc = from /\ pc' = to

\* Entering bus_request and bus_release; label is where they return to.
BusRequest(label) ==
  /\ pc' = "request" /\ ret' = label /\ left' = Timeout
  /\ busrq' = TRUE

BusRelease(label) ==
  /\ pc' = "release" /\ ret' = label /\ left' = Timeout
  /\ avr' = FALSE /\ dout' = FALSE
  /\ busrq' = FALSE

RequestGranted ==
  /\ pc = "request" /\ BusAck
  /\ pc' = ret /\ ok' = TRUE
  /\ avr' = TRUE /\ dout' = FALSE
  /\ UNCHANGED <<ret, back, left, busrq, clk, dma, z80Vars, intVars, userVars, low>>

\* With the PWM clock running the toggles of a loop change nothing, and its 256
\* turns take longer than any machine cycle at every setting of clkdiv: they
\* count only while the Z80 is kept in reset.
TurnCounts == clk => z80 = "reset"

\* i-- == 0
LastTurn == left = 1

\* BUSRQ_HI; return 0;
GiveUp == pc' = ret /\ ok' = FALSE /\ busrq' = FALSE

\* One turn of the loop.  BUSACK is not looked at again after the last one.
RequestLoop ==
  /\ pc = "request" /\ ~ BusAck
  /\ TurnCounts
  /\ Toggle
  /\ IF LastTurn
     THEN GiveUp /\ UNCHANGED left
     ELSE /\ left' = left - 1
          /\ UNCHANGED <<pc, ok, busrq>>
  /\ UNCHANGED <<ret, back, clk, avr, dout, dma, mask, armed, why, userVars>>

ReleaseDone ==
  /\ pc = "release" /\ ~ BusAck
  /\ pc' = ret
  /\ UNCHANGED <<ret, back, left, ok, busVars, z80Vars, intVars, userVars, low>>

\* Callers ignore the result of bus_release, so a time-out is a return.
ReleaseLoop ==
  /\ pc = "release" /\ BusAck
  /\ TurnCounts
  /\ Toggle
  /\ IF LastTurn
     THEN pc' = ret /\ UNCHANGED left
     ELSE left' = left - 1 /\ UNCHANGED pc
  /\ UNCHANGED <<ret, back, ok, busVars, mask, armed, why, userVars>>

\* RESET is pulled low for three clocks.
PulseReset ==
  /\ z80' = "reset" /\ halted' = FALSE /\ served' = 0 /\ UNCHANGED dir
  /\ intr' = Latched({"RESET"})
  /\ low' = low \cup {"RESET"}

\* bus_init: reset the processor, then start out in control of the bus.
BusInit ==
  /\ pc = "boot"
  /\ PulseReset
  /\ BusRequest("cli")
  /\ UNCHANGED <<back, ok, clk, avr, dout, dma, mask, armed, why, userVars>>

-----------------------------------------------------------------------------
(* iorq_dispatch *)

\* Who owns the addressed port decides what the handler does: an internal
\* device answers a read; a DMA mailbox may queue a transfer on a write and
\* cancels it on a read; other ports leave everything alone.
Decode ==
  \/ UNCHANGED <<dout, dma>>
  \/ dir = "rd" /\ dout' = TRUE /\ dma' \in {dma, FALSE}
  \/ dir = "wr" /\ dma' = TRUE /\ UNCHANGED dout

\* RD or WR is low as long as the Z80 waits in its I/O cycle.
Dispatch ==
  /\ pc = "dispatch"
  /\ IF z80 = "io"
     THEN Decode /\ served' = IF served < 2 THEN served + 1 ELSE served
     ELSE UNCHANGED <<dout, dma, served>>
  /\ IF dma'
     THEN BusRequest("dmaReady")
     ELSE pc' = "finish" /\ busrq' = TRUE /\ UNCHANGED <<ret, left>>
  /\ UNCHANGED <<back, ok, clk, avr, z80, dir, halted, intVars, userVars, low>>

\* Without DMA: BUSRQ releases WAIT, and the data stay on the bus until BUSACK
\* tells that the cycle is over.  This loop has no time-out.
FinishLoop ==
  /\ pc = "finish" /\ ~ BusAck
  /\ ~ clk
  /\ Toggle
  /\ UNCHANGED <<avrVars, busVars, mask, armed, why, userVars>>

\* DATA_INPUT; BUSRQ_HI;
LetGoOfBusrq == UNCHANGED dout /\ busrq' = FALSE   \* mistake for NoContention
LetGo == dout' = FALSE /\ busrq' = FALSE

Finish ==
  /\ pc = "finish" /\ pc' = back
  /\ LetGo
  /\ UNCHANGED <<ret, back, left, ok, clk, avr, dma, z80Vars, intVars, userVars, low>>

FinishEarly == Finish           \* mistake for ServedOnce
FinishDone == BusAck /\ Finish

\* With DMA: run it if the bus was granted, forget it either way.
DmaReady ==
  /\ pc = "dmaReady"
  /\ IF ok
     THEN pc' = "dmaRun" /\ UNCHANGED <<ret, left, busVars>>
     ELSE dma' = FALSE /\ BusRelease(back) /\ UNCHANGED clk
  /\ UNCHANGED <<back, ok, z80Vars, intVars, userVars, low>>

DmaRunAgain ==      \* mistake for DmaIsConfined
  /\ pc = "dmaRun"
  /\ BusRelease(back)
  /\ UNCHANGED <<back, ok, clk, dma, z80Vars, intVars, userVars, low>>

DmaRun ==
  /\ pc = "dmaRun"
  /\ dma' = FALSE
  /\ BusRelease(back)
  /\ UNCHANGED <<back, ok, clk, z80Vars, intVars, userVars, low>>

-----------------------------------------------------------------------------
(* hardware/z80.c *)

SetHaltMask ==
  /\ pc = "cli"
  /\ mask' \in {Pins, {"RESET"}, {"HALT"}, {}}
  /\ UNCHANGED <<avrVars, z80Vars, busVars, armed, intr, why, userVars, low>>

\* z80_reset
Reset ==
  /\ pc = "cli"
  /\ BusRelease("pulse")
  /\ UNCHANGED <<back, ok, clk, dma, z80Vars, intVars, userVars, low>>

ResetPulse ==
  /\ pc = "pulse"
  /\ PulseReset
  /\ BusRequest("cli")
  /\ UNCHANGED <<back, ok, clk, avr, dout, dma, mask, armed, why, userVars>>

\* Reading INTCAP clears it; a pin that is still low latches again.
Intcap(pins, enabled) == IF pins \cap enabled # {} THEN pins ELSE {}
IntcapUnread(pins, enabled) ==      \* mistake for StopHasCause
  intr' = IF intr # {} THEN intr ELSE Intcap(pins, enabled)
ReadIntcap(pins, enabled) == intr' = Intcap(pins, enabled)

\* z80_run: arm the expander, clear what it latched earlier, forget an old halt
\* key, and let the Z80 go.
Run ==
  /\ pc = "cli"
  /\ armed' = mask
  /\ ReadIntcap(LowPins(halted, button), mask)
  /\ low' = LowPins(halted, button)
  /\ watch' = FALSE
  /\ why' = "none"
  /\ BusRelease("clkRun")
  /\ UNCHANGED <<back, ok, clk, dma, z80Vars, mask, button, pressed>>

ClkRun ==
  /\ Goto("clkRun", "runWait")
  /\ clk' = TRUE
  /\ UNCHANGED <<ret, back, left, ok, busrq, avr, dout, dma, z80Vars, intVars, userVars, low>>

\* One turn of the run loop samples WAIT, the halt key and IOXINT, in three
\* steps with the Z80 running between them.
RunWait ==
  /\ pc = "runWait"
  /\ IF WaitLow THEN pc' = "dispatch" /\ back' = "runKey"
                ELSE pc' = "runKey" /\ UNCHANGED back
  /\ UNCHANGED <<ret, left, ok, busVars, z80Vars, intVars, userVars, low>>

KeySeen == watch

RunKey ==
  /\ pc = "runKey"
  /\ IF KeySeen THEN pc' = "clkStop" /\ why' = "key"
                ELSE pc' = "runHalt" /\ UNCHANGED why
  /\ UNCHANGED <<ret, back, left, ok, busVars, z80Vars, mask, armed, intr, userVars, low>>

\* (xflags & halt_mask) != halt_mask
AllSeen == mask \subseteq intr       \* mistake for StopsWhenTold
SignalSeen == intr \cap mask # {}

\* INTCAP holds the pins as they were at the interrupt.
RunHalt ==
  /\ pc = "runHalt"
  /\ IF mask = {} \/ intr = {}
     THEN pc' = "runWait" /\ UNCHANGED <<intr, why>>
     ELSE /\ ReadIntcap(LowPins(halted, button), armed)
          /\ IF SignalSeen
             THEN pc' = "clkStop" /\ why' = "signal"
             ELSE pc' = "runWait" /\ UNCHANGED why
  /\ UNCHANGED <<ret, back, left, ok, busVars, z80Vars, mask, armed, userVars, low>>

ClkStopOnly ==      \* mistake for CliOwnsBus
  /\ Goto("clkStop", "cli")
  /\ clk' = FALSE
  /\ UNCHANGED <<ret, back, left, ok, busrq, avr, dout, dma, z80Vars, intVars, userVars, low>>

ClkStop ==
  /\ pc = "clkStop"
  /\ clk' = FALSE
  /\ BusRequest("stopped")
  /\ UNCHANGED <<back, ok, avr, dout, dma, z80Vars, intVars, userVars, low>>

\* while (!bus_request());
Stopped ==
  /\ pc = "stopped"
  /\ IF ok THEN pc' = "cli" /\ UNCHANGED <<ret, left, busrq>>
           ELSE BusRequest("stopped")
  /\ UNCHANGED <<back, ok, clk, avr, dout, dma, z80Vars, intVars, userVars, low>>

\* z80_debug clocks the Z80 itself.
Debug ==
  /\ pc = "cli"
  /\ watch' = FALSE
  /\ BusRelease("debugClk")
  /\ UNCHANGED <<back, ok, clk, dma, z80Vars, intVars, button, pressed, low>>

\* One clock.  RD or WR falls when an I/O cycle begins; it falls in most
\* memory cycles, and in no internal one.
DebugClk ==
  /\ pc = "debugClk"
  /\ Toggle
  /\ \/ z80' = "io" /\ z80 # "io" /\ pc' = "debugEdge"
     \/ z80' = "mem" /\ pc' = "debugEdge"
     \/ ~ (z80' = "io" /\ z80 # "io") /\ UNCHANGED pc
  /\ UNCHANGED <<ret, back, left, ok, busVars, mask, armed, why, userVars>>

ReadSeen == z80 = "io" /\ dir = "rd"  \* mistake for NothingHangs
IoSeen == z80 = "io"

\* On a falling edge: stop for the halt key or a low pin, serve an I/O request,
\* or look at a memory cycle, where an opfetch watch borrows the bus.
DebugEdge ==
  /\ pc = "debugEdge"
  /\ IF watch \/ LowPins(halted, button) \cap mask # {}
     THEN pc' = "debugStop" /\ UNCHANGED <<ret, back, left, busrq>>
     ELSE IF IoSeen
          THEN /\ pc' = "dispatch" /\ back' = "debugBreak"
               /\ UNCHANGED <<ret, left, busrq>>
          ELSE \/ pc' = "debugBreak" /\ UNCHANGED <<ret, back, left, busrq>>
               \/ BusRequest("debugFetch") /\ UNCHANGED back
  /\ UNCHANGED <<ok, clk, avr, dout, dma, z80Vars, intVars, userVars, low>>

\* After the disassembly: an opfetch breakpoint leaves with the bus in hand.
DebugFetch ==
  /\ pc = "debugFetch"
  /\ \/ pc' = "debugStop" /\ UNCHANGED <<ret, left, avr, dout, busrq>>
     \/ BusRelease("debugBreak")
  /\ UNCHANGED <<back, ok, clk, dma, z80Vars, intVars, userVars, low>>

\* A breakpoint matches, and its count has run out, or not.
DebugBreak ==
  /\ pc = "debugBreak"
  /\ pc' \in {"debugStop", "debugClk"}
  /\ UNCHANGED <<ret, back, left, ok, busVars, z80Vars, intVars, userVars, low>>

DebugStop ==
  /\ pc = "debugStop"
  /\ BusRequest("stopped")
  /\ UNCHANGED <<back, ok, clk, avr, dout, dma, z80Vars, intVars, userVars, low>>

-----------------------------------------------------------------------------
(* The outside *)

\* The receive handler of uart.c sees the halt key.
HaltKey ==
  /\ ~ watch /\ watch' = TRUE
  /\ UNCHANGED <<avrVars, z80Vars, busVars, intVars, button, pressed, low>>

PressReset ==
  /\ ~ button /\ pc # "boot"
  /\ button' = TRUE /\ pressed' = TRUE
  /\ intr' = Latched(LowPins(halted, TRUE))
  /\ low' = low \cup {"RESET"}
  /\ UNCHANGED <<avrVars, z80Vars, busVars, mask, armed, why, watch>>

LetGoReset ==
  /\ button
  /\ button' = FALSE
  /\ UNCHANGED <<avrVars, z80Vars, busVars, intVars, watch, pressed, low>>

-----------------------------------------------------------------------------

Command == SetHaltMask \/ Reset \/ Run \/ Debug

AvrStep ==
  \/ BusInit \/ RequestGranted \/ RequestLoop \/ ReleaseDone \/ ReleaseLoop
  \/ Dispatch \/ FinishLoop \/ FinishDone \/ DmaReady \/ DmaRun
  \/ ResetPulse \/ ClkRun \/ RunWait \/ RunKey \/ RunHalt \/ ClkStop \/ Stopped
  \/ DebugClk \/ DebugEdge \/ DebugFetch \/ DebugBreak \/ DebugStop

Next ==
  \/ Command
  \/ AvrStep
  \/ Z80Step
  \/ HaltKey \/ PressReset \/ LetGoReset

Spec == Init /\ [][Next]_vars

\* The AVR program and the PWM clock keep going, and nobody holds RESET down
\* for ever.
Fairness ==
  /\ WF_vars(AvrStep)
  /\ WF_vars(Z80Step)
  /\ WF_vars(LetGoReset)

FairSpec == Spec /\ Fairness

-----------------------------------------------------------------------------
(* Properties *)

\* The AVR and the Z80 never drive the same lines.  Address and control belong
\* to the AVR only while the Z80 acknowledges its request; the data lines also
\* while the Z80 reads from an I/O port.  This is what the order of BUSRQ_HI,
\* DATA_INPUT and the loops on BUSACK in bus.c and iorq_dispatch is for.  (RESET
\* ends BUSACK without asking, so it must not have been pressed.)
NoContention ==
  ~ pressed =>
  /\ avr => z80 \notin {"mem", "io"}
  /\ dout => z80 = "ack" \/ (z80 = "io" /\ dir = "rd")

\* A command of the monitor finds the bus in the AVR's hands, the Z80 holding
\* still and its clock stopped, whichever way the last run, debug session or
\* reset ended.  When RESET was pressed a request can time out, and then the AVR
\* drives nothing.
CliOwnsBus ==
  pc = "cli" => /\ ~ clk /\ ~ dout
                /\ ~ pressed => avr
                /\ IF avr THEN BusAck /\ busrq ELSE ~ busrq

\* A queued DMA never outlives the dispatch that queued it, and runs only with
\* the bus in hand: a later, unrelated I/O request cannot set it off.
DmaIsConfined ==
  /\ dma => \/ pc = "request" /\ ret = "dmaReady"
            \/ pc \in {"dmaReady", "dmaRun"}
  /\ pc = "dmaRun" => avr /\ (BusAck \/ pressed)

\* No I/O cycle is given to its device twice, and one that ends was given to it
\* once, except when the Z80 is being stopped: BUSRQ then frees it from WAIT
\* before anyone has looked at the request.
ServedOnce ==
  [][/\ served' < 2
     /\ z80 = "io" /\ z80' = "ack" =>
          \/ served = 1
          \/ served = 0 /\ pc = "request" /\ ret = "stopped"]_vars

\* z80_run stops for a signal only if that signal was low since it started: an
\* interrupt latched before does not count.
StopHasCause ==
  why = "signal" => low \cap armed # {}

Running == {"runWait", "runKey", "runHalt"}

\* A run can be stopped only once nobody presses RESET any more: a processor
\* that is being reset does not answer BUSRQ.
Quiet == <>[] ~ button

\* The halt key stops a running Z80, whatever it does, and so does a pin that
\* halt_mask selects.
StopsWhenTold ==
  Quiet => ((watch \/ intr \cap mask # {}) /\ pc \in Running ~> pc = "cli")

\* The Z80 is never left waiting in an I/O cycle, not by the dispatch, not by a
\* run or debug loop that ends; and stopping, which polls bus_request until it
\* succeeds, ends.
NothingHangs ==
  /\ z80 = "io" ~> z80 # "io"
  /\ Quiet => (pc = "clkStop" \/ pc = "debugStop" ~> pc = "cli")
=============================================================================
