-------------------------- MODULE Z80ControlProofs --------------------------
(***************************************************************************)
(* Who drives the bus: NoContention, CliOwnsBus, DmaIsConfined,            *)
(* StopHasCause and ServedOnce hold for every time-out of more than two    *)
(* clock toggles.                                                          *)
(*                                                                         *)
(* None of them is inductive.  What each step relies on is what the steps  *)
(* before it left: whether BUSRQ is low, whether the clock runs, whether   *)
(* the last request was granted and who drives what at each place of the   *)
(* program.  Inv says so, place by place.                                  *)
(*                                                                         *)
(* The parts at the end are about the I/O cycles that are dispatched: which *)
(* device gets them (PortMap), and what the DMA ports make of them         *)
(* (Mailbox).                                                              *)
(***************************************************************************)
EXTENDS Z80Control, PortMap, Mailbox, TLAPS

Places ==
  {"boot", "cli", "request", "release", "dispatch", "finish", "dmaReady", "dmaRun",
   "pulse", "clkRun", "runWait", "runKey", "runHalt", "clkStop", "stopped",
   "debugClk", "debugEdge", "debugFetch", "debugBreak", "debugStop"}

Requesters == {"cli", "dmaReady", "stopped", "debugFetch"}
Releasers == {"pulse", "clkRun", "debugClk", "runKey", "debugBreak"}

\* Where the program stands and where it returns to.
PlaceOK ==
  /\ pc \in Places /\ back \in {"runKey", "debugBreak"}
  /\ pc = "request" => ret \in Requesters
  /\ pc = "release" => ret \in Releasers
  /\ left \in 1 .. Timeout

LinesOK ==
  /\ ok \in BOOLEAN /\ busrq \in BOOLEAN /\ clk \in BOOLEAN /\ avr \in BOOLEAN
  /\ dout \in BOOLEAN /\ dma \in BOOLEAN /\ watch \in BOOLEAN /\ halted \in BOOLEAN
  /\ button \in BOOLEAN /\ pressed \in BOOLEAN /\ (button => pressed)
  /\ z80 \in {"reset", "mem", "io", "ack"} /\ dir \in {"rd", "wr"}
  /\ served \in {0, 1}

TypeOK == PlaceOK /\ LinesOK

\* Is the program in bus_request, to return to label?
Requests(label) == pc = "request" /\ ret = label

\* z80_run, and what it calls.
InRun ==
  \/ pc \in {"runWait", "runKey", "runHalt", "clkStop"}
  \/ (pc \in {"dispatch", "finish", "dmaReady", "dmaRun"} \/ Requests("dmaReady"))
       /\ back = "runKey"
  \/ pc = "release" /\ ret = "runKey"

\* The PWM clock runs in z80_run and nowhere else.
ClockKnown == clk = InRun

\* BUSRQ at each place; after a request it is low just if that was granted.
BusrqKnown ==
  /\ pc \in {"boot", "release", "pulse", "clkRun", "runWait", "runKey", "runHalt",
             "clkStop", "dispatch", "debugClk", "debugEdge", "debugBreak"} => ~ busrq
  /\ pc \in {"request", "finish", "dmaRun"} => busrq
  /\ pc \in {"dmaReady", "stopped", "debugFetch"} => busrq = ok
  /\ pc = "cli" => busrq = avr

\* Who drives what at each place.  Where RESET was not pressed the AVR drives
\* the bus only as long as the Z80 acknowledges its request.
DriversKnown ==
  /\ avr => \/ pc \in {"cli", "dmaReady", "dmaRun", "debugFetch", "debugStop", "stopped"}
            \/ Requests("stopped")
  /\ pc \in {"dmaReady", "debugFetch"} => avr = ok
  /\ pc = "dmaRun" => avr
  /\ avr /\ ~ pressed => BusAck /\ busrq
  /\ dout => pc = "finish"
  /\ dout /\ ~ pressed => BusAck \/ (z80 = "io" /\ dir = "rd")

\* What the monitor relies on.  A request after a reset has the toggles it
\* needs; one that was granted with the clock stopped stays granted.
StopsKnown ==
  /\ Requests("cli") /\ ~ pressed =>
       /\ z80 # "io"
       /\ z80 = "reset" => left > 2
       /\ z80 = "mem" => left > 1
  /\ pc = "stopped" /\ ok => avr /\ BusAck
  /\ pc = "cli" => /\ avr => BusAck
                   /\ ~ pressed => avr

\* An I/O cycle has been given to its device when, and only when, the dispatch
\* that did so is waiting for its end.  BUSRQ ends no other, but to stop.
CyclesKnown ==
  /\ z80 = "io" => served = IF pc = "finish" \/ Requests("dmaReady") THEN 1 ELSE 0
  /\ z80 = "io" /\ busrq => pc = "finish" \/ Requests("dmaReady") \/ Requests("stopped")
  /\ z80 = "io" /\ Requests("dmaReady") => left = Timeout

DmaKnown == dma => Requests("dmaReady") \/ pc \in {"dmaReady", "dmaRun"}

\* Whatever the expander has latched has been low since z80_run started, and it
\* watches the pins of halt_mask then.
SignalsKnown ==
  /\ intr \subseteq low
  /\ LowPins(halted, button) \subseteq low
  /\ InRun \/ pc = "clkRun" \/ (pc = "release" /\ ret = "clkRun") => armed = mask
  /\ StopHasCause

Inv ==
  /\ TypeOK /\ ClockKnown /\ BusrqKnown /\ DriversKnown
  /\ StopsKnown /\ CyclesKnown /\ DmaKnown /\ SignalsKnown

-----------------------------------------------------------------------------
(* The Z80 *)

\* What one machine cycle does, as far as the firmware relies on it.  With BUSRQ
\* low no I/O cycle starts, one that there is ends, and the Z80 is on its way to
\* acknowledge the request, unless it is reset.
Cycled ==
  /\ z80' \in {"reset", "mem", "io", "ack"} /\ dir' \in {"rd", "wr"}
  /\ served' \in {0, served} /\ halted' \in BOOLEAN
  /\ z80' = "io" => (z80 = "io" /\ served' = served) \/ served' = 0
  /\ z80' = "ack" => busrq
  /\ busrq => /\ dir' = dir /\ z80' # "io"
              /\ ~ button => z80' = IF z80 = "reset" THEN "mem" ELSE "ack"

LEMMA CycleDoes ==
  ASSUME LinesOK, MachineCycle
  PROVE  Cycled
  BY DEF LinesOK, MachineCycle, NextCycle, Cycled, BusAck, WaitLow, z80Vars

\* CLK_TOGGLE clocks the Z80 or, while the PWM does, changes nothing.
LEMMA ToggleDoes ==
  ASSUME LinesOK, Toggle
  PROVE  IF clk THEN UNCHANGED z80Vars ELSE Cycled
  BY CycleDoes DEF Toggle

\* The expander latches no pin that is not low.
LEMMA SignalsOfCycle ==
  ASSUME intr \subseteq low, MachineCycle
  PROVE  /\ intr' \subseteq low' /\ low \subseteq low'
         /\ LowPins(halted', button) \subseteq low'
  BY DEF MachineCycle, Latched

\* iorq_dispatch drives the data bus for a read, and queues a transfer for a
\* write, never both; and nothing at all if the I/O cycle is gone.
LEMMA DispatchDoes ==
  ASSUME Inv, Dispatch
  PROVE  /\ dout' \in BOOLEAN /\ dma' \in BOOLEAN
         /\ served' = IF z80 = "io" THEN 1 ELSE served
         /\ dout' => z80 = "io" /\ dir = "rd" /\ ~ dma'
         /\ dma' => z80 = "io"
<1>1. dout = FALSE /\ dma = FALSE /\ (z80 = "io" => served = 0)
  BY DEF Inv, TypeOK, LinesOK, DriversKnown, DmaKnown, CyclesKnown, Requests, Dispatch
<1>2. CASE z80 = "io"
  <2>1. Decode
    BY <1>2 DEF Dispatch
  <2>2. served' = 1
    BY <1>1, <1>2 DEF Dispatch
  <2>3. CASE UNCHANGED <<dout, dma>>
    BY <1>1, <1>2, <2>2, <2>3
  <2>4. CASE dir = "rd" /\ dout' = TRUE /\ dma' = FALSE
    BY <1>2, <2>2, <2>4
  <2>5. CASE dma' = TRUE /\ UNCHANGED dout
    BY <1>1, <1>2, <2>2, <2>5
  <2>. QED  BY <1>1, <2>1, <2>3, <2>4, <2>5 DEF Decode
<1>3. CASE z80 # "io"
  BY <1>1, <1>3 DEF Dispatch, Inv, TypeOK, LinesOK
<1>. QED  BY <1>2, <1>3

-----------------------------------------------------------------------------
(* The steps, conjunct by conjunct of Inv *)

\* The program goes to a place there is, with a label to return to.
LEMMA PlaceOKKept ==
  ASSUME Inv, Next
  PROVE  PlaceOK'
<1>. USE BusAssumption DEF Inv, TypeOK, PlaceOK, Places, Requesters, Releasers,
           avrVars, z80Vars, busVars, intVars, userVars
<1>1. CASE BusInit
  BY <1>1 DEF BusInit, PulseReset, BusRequest
<1>2. CASE RequestGranted
  BY <1>2 DEF RequestGranted
<1>3. CASE RequestLoop
  BY <1>3, ToggleDoes DEF RequestLoop, LastTurn, GiveUp, TurnCounts
<1>4. CASE ReleaseDone
  BY <1>4 DEF ReleaseDone
<1>5. CASE ReleaseLoop
  BY <1>5, ToggleDoes DEF ReleaseLoop, LastTurn
<1>6. CASE Dispatch
  BY <1>6, DispatchDoes DEF Dispatch, BusRequest
<1>7. CASE FinishLoop
  BY <1>7, ToggleDoes DEF FinishLoop
<1>8. CASE FinishDone
  BY <1>8 DEF FinishDone, Finish, LetGo
<1>9. CASE DmaReady
  BY <1>9 DEF DmaReady, BusRelease
<1>10. CASE DmaRun
  BY <1>10 DEF DmaRun, BusRelease
<1>11. CASE ResetPulse
  BY <1>11 DEF ResetPulse, PulseReset, BusRequest
<1>12. CASE ClkRun
  BY <1>12 DEF ClkRun, Goto
<1>13. CASE RunWait
  BY <1>13 DEF RunWait
<1>14. CASE RunKey
  BY <1>14 DEF RunKey
<1>15. CASE RunHalt
  BY <1>15 DEF RunHalt
<1>16. CASE ClkStop
  BY <1>16 DEF ClkStop, BusRequest
<1>17. CASE Stopped
  BY <1>17 DEF Stopped, BusRequest
<1>18. CASE DebugClk
  BY <1>18, ToggleDoes DEF DebugClk
<1>19. CASE DebugEdge
  BY <1>19 DEF DebugEdge, BusRequest, IoSeen
<1>20. CASE DebugFetch
  BY <1>20 DEF DebugFetch, BusRelease
<1>21. CASE DebugBreak
  BY <1>21 DEF DebugBreak
<1>22. CASE DebugStop
  BY <1>22 DEF DebugStop, BusRequest
<1>23. CASE SetHaltMask
  BY <1>23 DEF SetHaltMask
<1>24. CASE Reset
  BY <1>24 DEF Reset, BusRelease
<1>25. CASE Run
  BY <1>25 DEF Run, BusRelease
<1>26. CASE Debug
  BY <1>26 DEF Debug, BusRelease
<1>27. CASE Z80Step
  BY <1>27, CycleDoes DEF Z80Step
<1>28. CASE HaltKey
  BY <1>28 DEF HaltKey
<1>29. CASE PressReset
  BY <1>29 DEF PressReset
<1>30. CASE LetGoReset
  BY <1>30 DEF LetGoReset
<1>. QED  BY <1>1, <1>2, <1>3, <1>4, <1>5, <1>6, <1>7, <1>8, <1>9, <1>10, <1>11, <1>12,
       <1>13, <1>14, <1>15, <1>16, <1>17, <1>18, <1>19, <1>20, <1>21, <1>22, <1>23, <1>24,
       <1>25, <1>26, <1>27, <1>28, <1>29, <1>30 DEF Next, Command, AvrStep

\* Lines and flags are Boolean, and no I/O cycle is served twice.
LEMMA LinesOKKept ==
  ASSUME Inv, Next
  PROVE  LinesOK'
<1>. USE BusAssumption DEF Inv, TypeOK, LinesOK,
           avrVars, z80Vars, busVars, intVars, userVars
<1>1. CASE BusInit
  BY <1>1 DEF BusInit, PulseReset, BusRequest
<1>2. CASE RequestGranted
  BY <1>2 DEF RequestGranted
<1>3. CASE RequestLoop
  BY <1>3, ToggleDoes DEF RequestLoop, LastTurn, GiveUp, TurnCounts, Cycled
<1>4. CASE ReleaseDone
  BY <1>4 DEF ReleaseDone
<1>5. CASE ReleaseLoop
  BY <1>5, ToggleDoes DEF ReleaseLoop, LastTurn, Cycled
<1>6. CASE Dispatch
  BY <1>6, DispatchDoes DEF Dispatch, BusRequest
<1>7. CASE FinishLoop
  BY <1>7, ToggleDoes DEF FinishLoop, Cycled
<1>8. CASE FinishDone
  BY <1>8 DEF FinishDone, Finish, LetGo
<1>9. CASE DmaReady
  BY <1>9 DEF DmaReady, BusRelease
<1>10. CASE DmaRun
  BY <1>10 DEF DmaRun, BusRelease
<1>11. CASE ResetPulse
  BY <1>11 DEF ResetPulse, PulseReset, BusRequest
<1>12. CASE ClkRun
  BY <1>12 DEF ClkRun, Goto
<1>13. CASE RunWait
  BY <1>13 DEF RunWait
<1>14. CASE RunKey
  BY <1>14 DEF RunKey
<1>15. CASE RunHalt
  BY <1>15 DEF RunHalt
<1>16. CASE ClkStop
  BY <1>16 DEF ClkStop, BusRequest
<1>17. CASE Stopped
  BY <1>17 DEF Stopped, BusRequest
<1>18. CASE DebugClk
  <2>. Toggle /\ UNCHANGED <<ok, busVars, userVars>>
    BY <1>18 DEF DebugClk
  <2>. QED  BY ToggleDoes DEF Cycled
<1>19. CASE DebugEdge
  BY <1>19 DEF DebugEdge, BusRequest, IoSeen
<1>20. CASE DebugFetch
  <2>1. CASE pc' = "debugStop" /\ UNCHANGED <<ret, left, avr, dout, busrq>>
    BY <1>20, <2>1 DEF DebugFetch
  <2>2. CASE BusRelease("debugBreak")
    BY <1>20, <2>2 DEF DebugFetch, BusRelease
  <2>. QED  BY <1>20, <2>1, <2>2 DEF DebugFetch
<1>21. CASE DebugBreak
  BY <1>21 DEF DebugBreak
<1>22. CASE DebugStop
  BY <1>22 DEF DebugStop, BusRequest
<1>23. CASE SetHaltMask
  BY <1>23 DEF SetHaltMask
<1>24. CASE Reset
  BY <1>24 DEF Reset, BusRelease
<1>25. CASE Run
  BY <1>25 DEF Run, BusRelease
<1>26. CASE Debug
  BY <1>26 DEF Debug, BusRelease
<1>27. CASE Z80Step
  BY <1>27, CycleDoes DEF Z80Step, Cycled
<1>28. CASE HaltKey
  BY <1>28 DEF HaltKey
<1>29. CASE PressReset
  BY <1>29 DEF PressReset
<1>30. CASE LetGoReset
  BY <1>30 DEF LetGoReset
<1>. QED  BY <1>1, <1>2, <1>3, <1>4, <1>5, <1>6, <1>7, <1>8, <1>9, <1>10, <1>11, <1>12,
       <1>13, <1>14, <1>15, <1>16, <1>17, <1>18, <1>19, <1>20, <1>21, <1>22, <1>23, <1>24,
       <1>25, <1>26, <1>27, <1>28, <1>29, <1>30 DEF Next, Command, AvrStep

\* The PWM clock is switched where z80_run begins and ends.
LEMMA ClockKnownKept ==
  ASSUME Inv, Next
  PROVE  ClockKnown'
<1>. USE BusAssumption DEF Inv, TypeOK, ClockKnown, InRun, Requests, PlaceOK, LinesOK,
           Releasers, Requesters,
           avrVars, z80Vars, busVars, intVars, userVars
<1>1. CASE BusInit
  BY <1>1 DEF BusInit, PulseReset, BusRequest
<1>2. CASE RequestGranted
  BY <1>2 DEF RequestGranted
<1>3. CASE RequestLoop
  BY <1>3, ToggleDoes DEF RequestLoop, LastTurn, GiveUp, TurnCounts
<1>4. CASE ReleaseDone
  BY <1>4 DEF ReleaseDone
<1>5. CASE ReleaseLoop
  BY <1>5, ToggleDoes DEF ReleaseLoop, LastTurn
<1>6. CASE Dispatch
  BY <1>6, DispatchDoes DEF Dispatch, BusRequest
<1>7. CASE FinishLoop
  BY <1>7, ToggleDoes DEF FinishLoop
<1>8. CASE FinishDone
  BY <1>8 DEF FinishDone, Finish, LetGo
<1>9. CASE DmaReady
  BY <1>9 DEF DmaReady, BusRelease
<1>10. CASE DmaRun
  BY <1>10 DEF DmaRun, BusRelease
<1>11. CASE ResetPulse
  BY <1>11 DEF ResetPulse, PulseReset, BusRequest
<1>12. CASE ClkRun
  BY <1>12 DEF ClkRun, Goto
<1>13. CASE RunWait
  BY <1>13 DEF RunWait
<1>14. CASE RunKey
  BY <1>14 DEF RunKey
<1>15. CASE RunHalt
  BY <1>15 DEF RunHalt
<1>16. CASE ClkStop
  BY <1>16 DEF ClkStop, BusRequest
<1>17. CASE Stopped
  BY <1>17 DEF Stopped, BusRequest
<1>18. CASE DebugClk
  BY <1>18, ToggleDoes DEF DebugClk
<1>19. CASE DebugEdge
  BY <1>19 DEF DebugEdge, BusRequest, IoSeen
<1>20. CASE DebugFetch
  BY <1>20 DEF DebugFetch, BusRelease
<1>21. CASE DebugBreak
  BY <1>21 DEF DebugBreak
<1>22. CASE DebugStop
  BY <1>22 DEF DebugStop, BusRequest
<1>23. CASE SetHaltMask
  BY <1>23 DEF SetHaltMask
<1>24. CASE Reset
  BY <1>24 DEF Reset, BusRelease
<1>25. CASE Run
  BY <1>25 DEF Run, BusRelease
<1>26. CASE Debug
  BY <1>26 DEF Debug, BusRelease
<1>27. CASE Z80Step
  BY <1>27, CycleDoes DEF Z80Step
<1>28. CASE HaltKey
  BY <1>28 DEF HaltKey
<1>29. CASE PressReset
  BY <1>29 DEF PressReset
<1>30. CASE LetGoReset
  BY <1>30 DEF LetGoReset
<1>. QED  BY <1>1, <1>2, <1>3, <1>4, <1>5, <1>6, <1>7, <1>8, <1>9, <1>10, <1>11, <1>12,
       <1>13, <1>14, <1>15, <1>16, <1>17, <1>18, <1>19, <1>20, <1>21, <1>22, <1>23, <1>24,
       <1>25, <1>26, <1>27, <1>28, <1>29, <1>30 DEF Next, Command, AvrStep

\* Each call of bus_request and bus_release leaves BUSRQ as its caller knows it.
LEMMA BusrqKnownKept ==
  ASSUME Inv, Next
  PROVE  BusrqKnown'
<1>. USE BusAssumption DEF Inv, TypeOK, BusrqKnown, DriversKnown, StopsKnown, Requests,
           PlaceOK, LinesOK, Releasers, Requesters,
           avrVars, z80Vars, busVars, intVars, userVars
<1>1. CASE BusInit
  BY <1>1 DEF BusInit, PulseReset, BusRequest
<1>2. CASE RequestGranted
  BY <1>2 DEF RequestGranted
<1>3. CASE RequestLoop
  BY <1>3, ToggleDoes DEF RequestLoop, LastTurn, GiveUp, TurnCounts
<1>4. CASE ReleaseDone
  BY <1>4 DEF ReleaseDone
<1>5. CASE ReleaseLoop
  BY <1>5, ToggleDoes DEF ReleaseLoop, LastTurn
<1>6. CASE Dispatch
  BY <1>6, DispatchDoes DEF Dispatch, BusRequest
<1>7. CASE FinishLoop
  BY <1>7, ToggleDoes DEF FinishLoop
<1>8. CASE FinishDone
  BY <1>8 DEF FinishDone, Finish, LetGo
<1>9. CASE DmaReady
  BY <1>9 DEF DmaReady, BusRelease
<1>10. CASE DmaRun
  BY <1>10 DEF DmaRun, BusRelease
<1>11. CASE ResetPulse
  BY <1>11 DEF ResetPulse, PulseReset, BusRequest
<1>12. CASE ClkRun
  BY <1>12 DEF ClkRun, Goto
<1>13. CASE RunWait
  BY <1>13 DEF RunWait
<1>14. CASE RunKey
  BY <1>14 DEF RunKey
<1>15. CASE RunHalt
  BY <1>15 DEF RunHalt
<1>16. CASE ClkStop
  BY <1>16 DEF ClkStop, BusRequest
<1>17. CASE Stopped
  BY <1>17 DEF Stopped, BusRequest
<1>18. CASE DebugClk
  BY <1>18, ToggleDoes DEF DebugClk
<1>19. CASE DebugEdge
  BY <1>19 DEF DebugEdge, BusRequest, IoSeen
<1>20. CASE DebugFetch
  BY <1>20 DEF DebugFetch, BusRelease
<1>21. CASE DebugBreak
  BY <1>21 DEF DebugBreak
<1>22. CASE DebugStop
  BY <1>22 DEF DebugStop, BusRequest
<1>23. CASE SetHaltMask
  BY <1>23 DEF SetHaltMask
<1>24. CASE Reset
  BY <1>24 DEF Reset, BusRelease
<1>25. CASE Run
  BY <1>25 DEF Run, BusRelease
<1>26. CASE Debug
  BY <1>26 DEF Debug, BusRelease
<1>27. CASE Z80Step
  BY <1>27, CycleDoes DEF Z80Step
<1>28. CASE HaltKey
  BY <1>28 DEF HaltKey
<1>29. CASE PressReset
  BY <1>29 DEF PressReset
<1>30. CASE LetGoReset
  BY <1>30 DEF LetGoReset
<1>. QED  BY <1>1, <1>2, <1>3, <1>4, <1>5, <1>6, <1>7, <1>8, <1>9, <1>10, <1>11, <1>12,
       <1>13, <1>14, <1>15, <1>16, <1>17, <1>18, <1>19, <1>20, <1>21, <1>22, <1>23, <1>24,
       <1>25, <1>26, <1>27, <1>28, <1>29, <1>30 DEF Next, Command, AvrStep

\* The AVR begins to drive the bus when BUSACK is low, and lets go of it first.
LEMMA DriversKnownKept ==
  ASSUME Inv, Next
  PROVE  DriversKnown'
<1>. USE BusAssumption DEF Inv, TypeOK, BusrqKnown, DriversKnown, DmaKnown, CyclesKnown,
           Requests, PlaceOK, LinesOK, Releasers, Requesters, BusAck, Cycled,
           avrVars, z80Vars, busVars, intVars, userVars
<1>1. CASE BusInit
  BY <1>1 DEF BusInit, PulseReset, BusRequest
<1>2. CASE RequestGranted
  BY <1>2 DEF RequestGranted
<1>3. CASE RequestLoop
  BY <1>3, ToggleDoes DEF RequestLoop, LastTurn, GiveUp, TurnCounts
<1>4. CASE ReleaseDone
  BY <1>4 DEF ReleaseDone
<1>5. CASE ReleaseLoop
  BY <1>5, ToggleDoes DEF ReleaseLoop, LastTurn
<1>6. CASE Dispatch
  BY <1>6, DispatchDoes DEF Dispatch, BusRequest
<1>7. CASE FinishLoop
  BY <1>7, ToggleDoes DEF FinishLoop
<1>8. CASE FinishDone
  BY <1>8 DEF FinishDone, Finish, LetGo
<1>9. CASE DmaReady
  BY <1>9 DEF DmaReady, BusRelease
<1>10. CASE DmaRun
  BY <1>10 DEF DmaRun, BusRelease
<1>11. CASE ResetPulse
  BY <1>11 DEF ResetPulse, PulseReset, BusRequest
<1>12. CASE ClkRun
  BY <1>12 DEF ClkRun, Goto
<1>13. CASE RunWait
  BY <1>13 DEF RunWait, WaitLow
<1>14. CASE RunKey
  BY <1>14 DEF RunKey
<1>15. CASE RunHalt
  BY <1>15 DEF RunHalt
<1>16. CASE ClkStop
  BY <1>16 DEF ClkStop, BusRequest
<1>17. CASE Stopped
  BY <1>17 DEF Stopped, BusRequest
<1>18. CASE DebugClk
  BY <1>18, ToggleDoes DEF DebugClk
<1>19. CASE DebugEdge
  BY <1>19 DEF DebugEdge, BusRequest, IoSeen
<1>20. CASE DebugFetch
  BY <1>20 DEF DebugFetch, BusRelease
<1>21. CASE DebugBreak
  BY <1>21 DEF DebugBreak
<1>22. CASE DebugStop
  BY <1>22 DEF DebugStop, BusRequest
<1>23. CASE SetHaltMask
  BY <1>23 DEF SetHaltMask
<1>24. CASE Reset
  BY <1>24 DEF Reset, BusRelease
<1>25. CASE Run
  BY <1>25 DEF Run, BusRelease
<1>26. CASE Debug
  BY <1>26 DEF Debug, BusRelease
<1>27. CASE Z80Step
  BY <1>27, CycleDoes DEF Z80Step
<1>28. CASE HaltKey
  BY <1>28 DEF HaltKey
<1>29. CASE PressReset
  BY <1>29 DEF PressReset
<1>30. CASE LetGoReset
  BY <1>30 DEF LetGoReset
<1>. QED  BY <1>1, <1>2, <1>3, <1>4, <1>5, <1>6, <1>7, <1>8, <1>9, <1>10, <1>11, <1>12,
       <1>13, <1>14, <1>15, <1>16, <1>17, <1>18, <1>19, <1>20, <1>21, <1>22, <1>23, <1>24,
       <1>25, <1>26, <1>27, <1>28, <1>29, <1>30 DEF Next, Command, AvrStep

\* A reset leaves the request that follows enough toggles to be granted.
LEMMA StopsKnownKept ==
  ASSUME Inv, Next
  PROVE  StopsKnown'
<1>. USE BusAssumption DEF Inv, TypeOK, BusrqKnown, DriversKnown, StopsKnown, ClockKnown,
           InRun, Requests, PlaceOK, LinesOK, Releasers, Requesters, BusAck, Cycled,
           avrVars, z80Vars, busVars, intVars, userVars
<1>1. CASE BusInit
  BY <1>1 DEF BusInit, PulseReset, BusRequest
<1>2. CASE RequestGranted
  BY <1>2 DEF RequestGranted
<1>3. CASE RequestLoop
  <2>. ~ BusAck /\ busrq /\ left \in Nat /\ (clk => z80 = "reset")
    BY <1>3 DEF RequestLoop, TurnCounts
  <2>1. CASE LastTurn
    <3>1. pc' = ret /\ ok' = FALSE /\ busrq' = FALSE /\ avr' = avr
      BY <1>3, <2>1 DEF RequestLoop, GiveUp
    <3>. QED  BY <1>3, <2>1, <3>1 DEF RequestLoop, LastTurn
  <2>2. CASE ~ LastTurn
    <3>1. pc' = pc /\ ret' = ret /\ left' = left - 1 /\ pressed' = pressed
      BY <1>3, <2>2 DEF RequestLoop
    <3>. QED  BY <1>3, <2>2, <3>1, ToggleDoes DEF RequestLoop
  <2>. QED  BY <2>1, <2>2
<1>4. CASE ReleaseDone
  BY <1>4 DEF ReleaseDone
<1>5. CASE ReleaseLoop
  BY <1>5, ToggleDoes DEF ReleaseLoop, LastTurn
<1>6. CASE Dispatch
  BY <1>6, DispatchDoes DEF Dispatch, BusRequest
<1>7. CASE FinishLoop
  BY <1>7, ToggleDoes DEF FinishLoop
<1>8. CASE FinishDone
  BY <1>8 DEF FinishDone, Finish, LetGo
<1>9. CASE DmaReady
  BY <1>9 DEF DmaReady, BusRelease
<1>10. CASE DmaRun
  BY <1>10 DEF DmaRun, BusRelease
<1>11. CASE ResetPulse
  BY <1>11 DEF ResetPulse, PulseReset, BusRequest
<1>12. CASE ClkRun
  BY <1>12 DEF ClkRun, Goto
<1>13. CASE RunWait
  BY <1>13 DEF RunWait, WaitLow
<1>14. CASE RunKey
  BY <1>14 DEF RunKey
<1>15. CASE RunHalt
  BY <1>15 DEF RunHalt
<1>16. CASE ClkStop
  BY <1>16 DEF ClkStop, BusRequest
<1>17. CASE Stopped
  BY <1>17 DEF Stopped, BusRequest
<1>18. CASE DebugClk
  BY <1>18, ToggleDoes DEF DebugClk
<1>19. CASE DebugEdge
  BY <1>19 DEF DebugEdge, BusRequest, IoSeen
<1>20. CASE DebugFetch
  BY <1>20 DEF DebugFetch, BusRelease
<1>21. CASE DebugBreak
  BY <1>21 DEF DebugBreak
<1>22. CASE DebugStop
  BY <1>22 DEF DebugStop, BusRequest
<1>23. CASE SetHaltMask
  BY <1>23 DEF SetHaltMask
<1>24. CASE Reset
  BY <1>24 DEF Reset, BusRelease
<1>25. CASE Run
  BY <1>25 DEF Run, BusRelease
<1>26. CASE Debug
  BY <1>26 DEF Debug, BusRelease
<1>27. CASE Z80Step
  BY <1>27, CycleDoes DEF Z80Step
<1>28. CASE HaltKey
  BY <1>28 DEF HaltKey
<1>29. CASE PressReset
  BY <1>29 DEF PressReset
<1>30. CASE LetGoReset
  BY <1>30 DEF LetGoReset
<1>. QED  BY <1>1, <1>2, <1>3, <1>4, <1>5, <1>6, <1>7, <1>8, <1>9, <1>10, <1>11, <1>12,
       <1>13, <1>14, <1>15, <1>16, <1>17, <1>18, <1>19, <1>20, <1>21, <1>22, <1>23, <1>24,
       <1>25, <1>26, <1>27, <1>28, <1>29, <1>30 DEF Next, Command, AvrStep

\* One dispatch gives one I/O cycle to its device, and waits for its end.
LEMMA CyclesKnownKept ==
  ASSUME Inv, Next
  PROVE  CyclesKnown'
<1>. USE BusAssumption DEF Inv, TypeOK, BusrqKnown, DriversKnown, CyclesKnown, ClockKnown,
           InRun, Requests, PlaceOK, LinesOK, Releasers, Requesters, BusAck, Cycled,
           avrVars, z80Vars, busVars, intVars, userVars
<1>1. CASE BusInit
  BY <1>1 DEF BusInit, PulseReset, BusRequest
<1>2. CASE RequestGranted
  BY <1>2 DEF RequestGranted
<1>3. CASE RequestLoop
  BY <1>3, ToggleDoes DEF RequestLoop, LastTurn, GiveUp, TurnCounts
<1>4. CASE ReleaseDone
  BY <1>4 DEF ReleaseDone
<1>5. CASE ReleaseLoop
  BY <1>5, ToggleDoes DEF ReleaseLoop, LastTurn
<1>6. CASE Dispatch
  BY <1>6, DispatchDoes DEF Dispatch, BusRequest
<1>7. CASE FinishLoop
  BY <1>7, ToggleDoes DEF FinishLoop
<1>8. CASE FinishDone
  BY <1>8 DEF FinishDone, Finish, LetGo
<1>9. CASE DmaReady
  BY <1>9 DEF DmaReady, BusRelease
<1>10. CASE DmaRun
  BY <1>10 DEF DmaRun, BusRelease
<1>11. CASE ResetPulse
  BY <1>11 DEF ResetPulse, PulseReset, BusRequest
<1>12. CASE ClkRun
  BY <1>12 DEF ClkRun, Goto
<1>13. CASE RunWait
  BY <1>13 DEF RunWait, WaitLow
<1>14. CASE RunKey
  BY <1>14 DEF RunKey
<1>15. CASE RunHalt
  BY <1>15 DEF RunHalt
<1>16. CASE ClkStop
  BY <1>16 DEF ClkStop, BusRequest
<1>17. CASE Stopped
  BY <1>17 DEF Stopped, BusRequest
<1>18. CASE DebugClk
  BY <1>18, ToggleDoes DEF DebugClk
<1>19. CASE DebugEdge
  BY <1>19 DEF DebugEdge, BusRequest, IoSeen
<1>20. CASE DebugFetch
  BY <1>20 DEF DebugFetch, BusRelease
<1>21. CASE DebugBreak
  BY <1>21 DEF DebugBreak
<1>22. CASE DebugStop
  BY <1>22 DEF DebugStop, BusRequest
<1>23. CASE SetHaltMask
  BY <1>23 DEF SetHaltMask
<1>24. CASE Reset
  BY <1>24 DEF Reset, BusRelease
<1>25. CASE Run
  BY <1>25 DEF Run, BusRelease
<1>26. CASE Debug
  BY <1>26 DEF Debug, BusRelease
<1>27. CASE Z80Step
  BY <1>27, CycleDoes DEF Z80Step
<1>28. CASE HaltKey
  BY <1>28 DEF HaltKey
<1>29. CASE PressReset
  BY <1>29 DEF PressReset
<1>30. CASE LetGoReset
  BY <1>30 DEF LetGoReset
<1>. QED  BY <1>1, <1>2, <1>3, <1>4, <1>5, <1>6, <1>7, <1>8, <1>9, <1>10, <1>11, <1>12,
       <1>13, <1>14, <1>15, <1>16, <1>17, <1>18, <1>19, <1>20, <1>21, <1>22, <1>23, <1>24,
       <1>25, <1>26, <1>27, <1>28, <1>29, <1>30 DEF Next, Command, AvrStep

\* dma_function is set between a dispatch and its end only.
LEMMA DmaKnownKept ==
  ASSUME Inv, Next
  PROVE  DmaKnown'
<1>. USE BusAssumption DEF Inv, TypeOK, DmaKnown, Requests, PlaceOK,
           avrVars, z80Vars, busVars, intVars, userVars
<1>1. CASE BusInit
  BY <1>1 DEF BusInit, PulseReset, BusRequest
<1>2. CASE RequestGranted
  BY <1>2 DEF RequestGranted
<1>3. CASE RequestLoop
  BY <1>3, ToggleDoes DEF RequestLoop, LastTurn, GiveUp, TurnCounts
<1>4. CASE ReleaseDone
  BY <1>4 DEF ReleaseDone
<1>5. CASE ReleaseLoop
  BY <1>5, ToggleDoes DEF ReleaseLoop, LastTurn
<1>6. CASE Dispatch
  BY <1>6, DispatchDoes DEF Dispatch, BusRequest
<1>7. CASE FinishLoop
  BY <1>7, ToggleDoes DEF FinishLoop
<1>8. CASE FinishDone
  BY <1>8 DEF FinishDone, Finish, LetGo
<1>9. CASE DmaReady
  BY <1>9 DEF DmaReady, BusRelease
<1>10. CASE DmaRun
  BY <1>10 DEF DmaRun, BusRelease
<1>11. CASE ResetPulse
  BY <1>11 DEF ResetPulse, PulseReset, BusRequest
<1>12. CASE ClkRun
  BY <1>12 DEF ClkRun, Goto
<1>13. CASE RunWait
  BY <1>13 DEF RunWait
<1>14. CASE RunKey
  BY <1>14 DEF RunKey
<1>15. CASE RunHalt
  BY <1>15 DEF RunHalt
<1>16. CASE ClkStop
  BY <1>16 DEF ClkStop, BusRequest
<1>17. CASE Stopped
  BY <1>17 DEF Stopped, BusRequest
<1>18. CASE DebugClk
  BY <1>18, ToggleDoes DEF DebugClk
<1>19. CASE DebugEdge
  BY <1>19 DEF DebugEdge, BusRequest, IoSeen
<1>20. CASE DebugFetch
  BY <1>20 DEF DebugFetch, BusRelease
<1>21. CASE DebugBreak
  BY <1>21 DEF DebugBreak
<1>22. CASE DebugStop
  BY <1>22 DEF DebugStop, BusRequest
<1>23. CASE SetHaltMask
  BY <1>23 DEF SetHaltMask
<1>24. CASE Reset
  BY <1>24 DEF Reset, BusRelease
<1>25. CASE Run
  BY <1>25 DEF Run, BusRelease
<1>26. CASE Debug
  BY <1>26 DEF Debug, BusRelease
<1>27. CASE Z80Step
  BY <1>27, CycleDoes DEF Z80Step
<1>28. CASE HaltKey
  BY <1>28 DEF HaltKey
<1>29. CASE PressReset
  BY <1>29 DEF PressReset
<1>30. CASE LetGoReset
  BY <1>30 DEF LetGoReset
<1>. QED  BY <1>1, <1>2, <1>3, <1>4, <1>5, <1>6, <1>7, <1>8, <1>9, <1>10, <1>11, <1>12,
       <1>13, <1>14, <1>15, <1>16, <1>17, <1>18, <1>19, <1>20, <1>21, <1>22, <1>23, <1>24,
       <1>25, <1>26, <1>27, <1>28, <1>29, <1>30 DEF Next, Command, AvrStep

\* INTCAP is read when z80_run starts, so what it holds later is new.
LEMMA SignalsKnownKept ==
  ASSUME Inv, Next
  PROVE  SignalsKnown'
<1>. USE BusAssumption DEF Inv, TypeOK, SignalsKnown, StopHasCause, InRun, Requests,
           PlaceOK, Releasers, Requesters,
           avrVars, z80Vars, busVars, intVars, userVars
<1>1. CASE BusInit
  BY <1>1 DEF BusInit, PulseReset, Latched, BusRequest, LowPins
<1>2. CASE RequestGranted
  BY <1>2 DEF RequestGranted
<1>3. CASE RequestLoop
  BY <1>3, SignalsOfCycle DEF RequestLoop, LastTurn, GiveUp, Toggle, TurnCounts
<1>4. CASE ReleaseDone
  BY <1>4 DEF ReleaseDone
<1>5. CASE ReleaseLoop
  BY <1>5, SignalsOfCycle DEF ReleaseLoop, LastTurn, Toggle
<1>6. CASE Dispatch
  BY <1>6, DispatchDoes DEF Dispatch, BusRequest
<1>7. CASE FinishLoop
  BY <1>7, SignalsOfCycle DEF FinishLoop, Toggle
<1>8. CASE FinishDone
  BY <1>8 DEF FinishDone, Finish, LetGo
<1>9. CASE DmaReady
  BY <1>9 DEF DmaReady, BusRelease
<1>10. CASE DmaRun
  BY <1>10 DEF DmaRun, BusRelease
<1>11. CASE ResetPulse
  BY <1>11 DEF ResetPulse, PulseReset, Latched, BusRequest, LowPins
<1>12. CASE ClkRun
  BY <1>12 DEF ClkRun, Goto
<1>13. CASE RunWait
  BY <1>13 DEF RunWait
<1>14. CASE RunKey
  BY <1>14 DEF RunKey
<1>15. CASE RunHalt
  BY <1>15 DEF RunHalt, ReadIntcap, Intcap, SignalSeen
<1>16. CASE ClkStop
  BY <1>16 DEF ClkStop, BusRequest
<1>17. CASE Stopped
  BY <1>17 DEF Stopped, BusRequest
<1>18. CASE DebugClk
  BY <1>18, SignalsOfCycle DEF DebugClk, Toggle
<1>19. CASE DebugEdge
  BY <1>19 DEF DebugEdge, BusRequest, IoSeen
<1>20. CASE DebugFetch
  BY <1>20 DEF DebugFetch, BusRelease
<1>21. CASE DebugBreak
  BY <1>21 DEF DebugBreak
<1>22. CASE DebugStop
  BY <1>22 DEF DebugStop, BusRequest
<1>23. CASE SetHaltMask
  BY <1>23 DEF SetHaltMask
<1>24. CASE Reset
  BY <1>24 DEF Reset, BusRelease
<1>25. CASE Run
  BY <1>25 DEF Run, ReadIntcap, Intcap, LowPins, BusRelease
<1>26. CASE Debug
  BY <1>26 DEF Debug, BusRelease
<1>27. CASE Z80Step
  BY <1>27, SignalsOfCycle DEF Z80Step
<1>28. CASE HaltKey
  BY <1>28 DEF HaltKey
<1>29. CASE PressReset
  BY <1>29 DEF PressReset, Latched, LowPins
<1>30. CASE LetGoReset
  BY <1>30 DEF LetGoReset, LowPins
<1>. QED  BY <1>1, <1>2, <1>3, <1>4, <1>5, <1>6, <1>7, <1>8, <1>9, <1>10, <1>11, <1>12,
       <1>13, <1>14, <1>15, <1>16, <1>17, <1>18, <1>19, <1>20, <1>21, <1>22, <1>23, <1>24,
       <1>25, <1>26, <1>27, <1>28, <1>29, <1>30 DEF Next, Command, AvrStep

-----------------------------------------------------------------------------
(* The theorems *)

\* Power-on.
LEMMA InitInv == Init => Inv
<1>. SUFFICES ASSUME Init PROVE Inv
  OBVIOUS
<1>1. PlaceOK /\ LinesOK
  <2>1. PlaceOK
    BY BusAssumption DEF Init, PlaceOK, Places
  <2>2. LinesOK
    BY DEF Init, LinesOK
  <2>. QED  BY <2>1, <2>2
<1>2. ClockKnown /\ BusrqKnown /\ DriversKnown /\ StopsKnown
  BY DEF Init, ClockKnown, InRun, Requests, BusrqKnown, DriversKnown, StopsKnown
<1>3. CyclesKnown /\ DmaKnown
  BY DEF Init, CyclesKnown, DmaKnown
<1>4. SignalsKnown
  BY DEF Init, SignalsKnown, StopHasCause, LowPins, InRun, Requests
<1>. QED  BY <1>1, <1>2, <1>3, <1>4 DEF Inv, TypeOK

\* No step breaks the invariant.
LEMMA StepInv == Inv /\ [Next]_vars => Inv'
<1>. SUFFICES ASSUME Inv, [Next]_vars PROVE Inv'
  OBVIOUS
<1>1. CASE Next
  BY <1>1, PlaceOKKept, LinesOKKept, ClockKnownKept, BusrqKnownKept, DriversKnownKept,
     StopsKnownKept, CyclesKnownKept, DmaKnownKept, SignalsKnownKept DEF Inv, TypeOK
<1>2. CASE UNCHANGED vars
  BY <1>2 DEF vars, avrVars, z80Vars, busVars, intVars, userVars, Inv, TypeOK, PlaceOK,
     LinesOK,
     ClockKnown, InRun, Requests, BusrqKnown, DriversKnown, BusAck, StopsKnown, CyclesKnown,
     DmaKnown, SignalsKnown, StopHasCause, LowPins
<1>. QED  BY <1>1, <1>2

\* Everything the program relies on at each place holds there, however the Z80,
\* the halt key and the RESET button interleave with it.
THEOREM Invariance == Spec => []Inv
  BY InitInv, StepInv, PTL DEF Spec

\* Every variable keeps its type; in particular no I/O cycle is given to its
\* device more than once (iorq_dispatch).
THEOREM TypeCorrect == Spec => []TypeOK
<1>1. Inv => TypeOK
  BY DEF Inv
<1>. QED  BY <1>1, Invariance, PTL

\* The AVR and the Z80 never drive the same lines (bus_request, bus_release and
\* iorq_dispatch), unless RESET has ended BUSACK.
THEOREM NoTwoDrivers == Spec => []NoContention
<1>1. Inv => NoContention
  BY DEF Inv, TypeOK, LinesOK, DriversKnown, NoContention, BusAck
<1>. QED  BY <1>1, Invariance, PTL

\* A command of the monitor finds the bus in the AVR's hands, or drives nothing
\* (bus_init, z80_reset, and the ends of z80_run and z80_debug).
THEOREM MonitorOwnsBus == Spec => []CliOwnsBus
<1>1. Inv => CliOwnsBus
  BY DEF Inv, TypeOK, LinesOK, ClockKnown, InRun, Requests, BusrqKnown, DriversKnown,
     StopsKnown,
     CliOwnsBus
<1>. QED  BY <1>1, Invariance, PTL

\* A queued transfer ends with the dispatch that queued it, and runs with the bus
\* in hand only (iorq_dispatch).
THEOREM DmaEndsWithDispatch == Spec => []DmaIsConfined
<1>1. Inv => DmaIsConfined
  BY DEF Inv, TypeOK, LinesOK, DmaKnown, DriversKnown, Requests, DmaIsConfined
<1>. QED  BY <1>1, Invariance, PTL

\* z80_run stops for a signal only if that was low since it started.
THEOREM SignalsAreNew == Spec => []StopHasCause
<1>1. Inv => StopHasCause
  BY DEF Inv, SignalsKnown
<1>. QED  BY <1>1, Invariance, PTL

\* The Z80 ends an I/O cycle only where BUSRQ lets it.
LEMMA CyclesEndOnRequest ==
  ASSUME Inv, Next, z80 = "io", z80' = "ack"
  PROVE  busrq
<1>. USE DEF Inv, TypeOK, Cycled
<1>1. CASE RequestLoop
  BY <1>1, ToggleDoes DEF RequestLoop, z80Vars
<1>2. CASE ReleaseLoop
  BY <1>2, ToggleDoes DEF ReleaseLoop, z80Vars
<1>3. CASE FinishLoop
  BY <1>3, ToggleDoes DEF FinishLoop, z80Vars
<1>4. CASE DebugClk
  BY <1>4, ToggleDoes DEF DebugClk, z80Vars
<1>5. CASE Z80Step
  BY <1>5, CycleDoes DEF Z80Step, z80Vars
<1>6. CASE BusInit \/ ResetPulse
  BY <1>6 DEF BusInit, ResetPulse, PulseReset
<1>7. ASSUME UNCHANGED z80 PROVE FALSE
  BY <1>7
<1>. QED  BY <1>1, <1>2, <1>3, <1>4, <1>5, <1>6, <1>7 DEF Next, Command, AvrStep, z80Vars,
       RequestGranted, ReleaseDone, Dispatch, FinishDone, DmaReady, DmaRun, ClkRun, RunWait,
       RunKey, RunHalt, ClkStop, Stopped, DebugEdge, DebugFetch, DebugBreak, DebugStop,
       SetHaltMask, Reset, Run, Debug, HaltKey, PressReset, LetGoReset, Finish

\* No I/O cycle is given to its device twice, and one that ends was given to it,
\* unless the Z80 is being stopped (iorq_dispatch, z80_run, z80_debug).
THEOREM EachCycleOnce == Spec => ServedOnce
<1>1. Inv /\ Inv' /\ [Next]_vars =>
        [/\ served' < 2
         /\ z80 = "io" /\ z80' = "ack" =>
              \/ served = 1
              \/ served = 0 /\ pc = "request" /\ ret = "stopped"]_vars
  BY CyclesEndOnRequest DEF Inv, TypeOK, LinesOK, PlaceOK, CyclesKnown, Requests
<1>. QED  BY <1>1, Invariance, PTL DEF Spec, ServedOnce

-----------------------------------------------------------------------------
(* Where the bytes of an I/O cycle go: the port map of PortMap is right for any *)
(* ports, defaults, expanders and values.  OneReadDriver speaks of the last    *)
(* step only.  What makes it true for the next one is ScanIsKept: the read     *)
(* side of a port where external hardware was found keeps an external owner.   *)

ScanIsKept == boot = "scanned" => \A p \in present : readPort[p] \in External

MapInv == MapTypeOK /\ ScanIsKept /\ OneReadDriver

\* The two kinds of device share no name.
LEMMA MapKinds == /\ Internal \cap External = {}
               /\ Devices = Internal \cup External
               /\ "none" \in Internal /\ "extern" \in External
               /\ "tmsram" \in External /\ "tmsreg" \in External
  BY DEF Internal, External, Devices, Z8c

\* The map that iorq_init builds gives every external port an external owner.
LEMMA ScannedMap ==
  ASSUME present \subseteq Ports
  PROVE  /\ WithDefaults(Scanned) \in [Ports -> Devices]
         /\ \A p \in present : WithDefaults(Scanned)[p] = "extern"
  <1>1. \A p \in Ports : WithDefaults(Scanned)[p] \in Devices
    BY PortAssumption, MapKinds DEF WithDefaults, Scanned
  <1>2. \A p \in present : WithDefaults(Scanned)[p] = "extern"
    BY DEF WithDefaults, Scanned
  <1>. QED  BY <1>1, <1>2 DEF WithDefaults

\* So does the map with a TMS9918A on it.
LEMMA TmsMap ==
  ASSUME NEW map \in [Ports -> Devices], NEW S \in SUBSET Ports,
         \A p \in S : map[p] \in External
  PROVE  /\ WithTms(map) \in [Ports -> Devices]
         /\ \A p \in S : WithTms(map)[p] \in External
  BY PortAssumption, MapKinds DEF WithTms

\* iorq_init changes nothing before it runs, and keeps what it finds.
LEMMA MapInitStep ==
  ASSUME MapInv, IorqInit
  PROVE  /\ readPort' \in [Ports -> Devices] /\ writePort' = readPort'
         /\ boot' = "scanned" => \A p \in present : readPort'[p] \in External
  <1>. present \subseteq Ports /\ readPort \in [Ports -> Devices]
    BY DEF MapInv, MapTypeOK
  <1>. writePort' = readPort'
    BY DEF IorqInit
  <1>1. CASE boot' = "scanned" /\ readPort' = WithDefaults(Scanned)
    BY <1>1, ScannedMap, MapKinds
  <1>2. CASE boot' = "scanned" /\ readPort' = WithTms(WithDefaults(Scanned))
    BY <1>2, ScannedMap, TmsMap, MapKinds
  <1>3. CASE boot' = "blind" /\ UNCHANGED readPort
    BY <1>3
  <1>. QED  BY <1>1, <1>2, <1>3 DEF IorqInit

\* An assignment gives a port of external hardware to external hardware only.
LEMMA MapAssignStep ==
  ASSUME MapInv, NEW p \in Ports, NEW mode \in Modes, NEW device \in Devices,
         IorqAssign(p, mode, device)
  PROVE  MapInv'
  <1>. USE DEF IorqAssign, MapInv
  <1>1. readPort' \in [Ports -> Devices] /\ writePort' \in [Ports -> Devices]
    BY DEF MapTypeOK
  <1>2. MapTypeOK'
    BY <1>1 DEF MapTypeOK
  <1>3. ScanIsKept'
    BY MapKinds DEF ScanIsKept, MapTypeOK, AssignRefuses
  <1>4. OneReadDriver'
    BY DEF OneReadDriver
  <1>. QED  BY <1>2, <1>3, <1>4

\* A read: what drives the bus, and that an undefined value is still a byte.
LEMMA MapReadStep ==
  ASSUME MapInv, NEW p \in Ports, IoRead(p)
  PROVE  MapInv'
  <1>1. gpio' \in [Chips -> [Regs -> Data]]
    BY DEF IoRead, ReadFunction, z8c_setlo, MapInv, MapTypeOK
  <1>2. MapTypeOK'
    BY <1>1 DEF IoRead, Outside, MapInv, MapTypeOK
  <1>3. ScanIsKept'
    BY DEF IoRead, MapInv, ScanIsKept
  <1>4. OneReadDriver'
    <2>1. CASE boot = "scanned" /\ p \in present
      <3>1. readPort[p] \notin Internal
        BY <2>1, MapKinds DEF MapInv, ScanIsKept
      <3>2. bus' = {"external"}
        BY <2>1, <3>1 DEF IoRead, Outside
      <3>. QED  BY <3>2 DEF OneReadDriver
    <2>2. CASE p \notin present
      BY <2>2 DEF IoRead, Outside, OneReadDriver
    <2>3. CASE boot # "scanned"
      BY <2>3 DEF IoRead, OneReadDriver
    <2>. QED  BY <2>1, <2>2, <2>3
  <1>. QED  BY <1>2, <1>3, <1>4 DEF MapInv

\* A write drives nothing and moves only the two selection registers.
LEMMA MapWriteStep ==
  ASSUME MapInv, NEW p \in Ports, NEW value \in Data, IoWrite(p, value)
  PROVE  MapInv'
  BY DEF IoWrite, WriteFunction, MapInv, MapTypeOK, ScanIsKept, OneReadDriver

\* The invariant holds at power-on.
LEMMA MapInvInit == MapInit => MapInv
  BY PortAssumption, MapKinds DEF MapInit, MapInv, MapTypeOK, ScanIsKept, OneReadDriver

\* Every operation keeps it.
LEMMA MapInvNext == MapInv /\ [MapNext]_mapVars => MapInv'
  <1>. SUFFICES ASSUME MapInv, [MapNext]_mapVars PROVE MapInv'
    OBVIOUS
  <1>1. CASE IorqInit
    <2>1. MapTypeOK'
      BY <1>1, MapInitStep DEF IorqInit, MapInv, MapTypeOK
    <2>2. ScanIsKept'
      BY <1>1, MapInitStep DEF IorqInit, ScanIsKept
    <2>3. OneReadDriver'
      BY <1>1 DEF IorqInit, OneReadDriver
    <2>. QED  BY <2>1, <2>2, <2>3 DEF MapInv
  <1>2. CASE \E p \in Ports, mode \in Modes, device \in Devices :
               IorqAssign(p, mode, device)
    BY <1>2, MapAssignStep
  <1>3. CASE \E p \in Ports : IoRead(p)
    BY <1>3, MapReadStep
  <1>4. CASE \E p \in Ports, value \in Data : IoWrite(p, value)
    BY <1>4, MapWriteStep
  <1>5. CASE UNCHANGED mapVars
    BY <1>5 DEF mapVars, MapInv, MapTypeOK, ScanIsKept, OneReadDriver
  <1>. QED  BY <1>1, <1>2, <1>3, <1>4, <1>5 DEF MapNext

\* No step of hardware/io.c leaves the invariant.
THEOREM MapInvariance == MapSpec => []MapInv
  BY MapInvInit, MapInvNext, PTL DEF MapSpec

\* Every variable of the port map keeps its type.
THEOREM MapTypeCorrect == MapSpec => []MapTypeOK
  <1>1. MapInv => MapTypeOK  BY DEF MapInv
  <1>. QED  BY <1>1, MapInvariance, PTL

\* An internal device and external hardware never answer the same read,
\* whatever the monitor assigned between iorq_init and iorq_dispatch.
THEOREM SingleReader == MapSpec => []OneReadDriver
  <1>1. MapInv => OneReadDriver  BY DEF MapInv
  <1>. QED  BY <1>1, MapInvariance, PTL

\* The defaults of iorq_init never displace hardware that its scan found.
THEOREM BootIsKept == MapSpec => BootKeepsExternal
  <1>1. MapInv /\ [MapNext]_mapVars =>
          [boot' = "scanned" /\ boot = "off" =>
             \A p \in present : readPort'[p] \in External
                                /\ writePort'[p] = readPort'[p]]_mapVars
    <2>. SUFFICES ASSUME MapInv, [MapNext]_mapVars, boot' = "scanned", boot = "off"
         PROVE  \A p \in present : readPort'[p] \in External
                                   /\ writePort'[p] = readPort'[p]
      OBVIOUS
    <2>1. IorqInit
      BY DEF MapNext, mapVars, IorqAssign, IoRead, IoWrite
    <2>. QED  BY <2>1, MapInitStep
  <1>. QED  BY <1>1, MapInvariance, PTL DEF MapSpec, BootKeepsExternal

-----------------------------------------------------------------------------
(* The mailbox of a DMA port: what the firmware takes for the address and the *)
(* commands is what the running program means by them.                       *)

MailTypeOK ==
  /\ status \in [Mailboxes -> 0 .. 2]
  /\ mailbox \in [Mailboxes -> Halves \X Halves]
  /\ framed \subseteq Mailboxes
  /\ told \in [Mailboxes -> Seq(Bytes)]
  /\ ran \in Orders \union {None}

\* A program that has read a port has written as much of the address as the port
\* has, and only after both halves of it a command.
ToldKnown(d) ==
  /\ Len(told[d]) <= 3
  /\ status[d] = 0 => told[d] = <<>>
  /\ status[d] = 1 => Len(told[d]) = 1 /\ mailbox[d][1] = told[d][1]
  /\ status[d] = 2 => /\ Len(told[d]) \in {2, 3}
                      /\ mailbox[d][1] = told[d][1] /\ mailbox[d][2] = told[d][2]

MailInv == MailTypeOK /\ \A d \in framed : ToldKnown(d)

LEMMA MailInvInit == MailInit => MailInv
  BY DEF MailInit, MailInv, MailTypeOK, Halves

LEMMA HeardByte ==
  ASSUME NEW said \in Seq(Bytes), NEW byte \in Bytes, Len(said) <= 3
  PROVE  /\ Heard(said, byte) \in Seq(Bytes)
         /\ Len(said) < 3 => /\ Len(Heard(said, byte)) = Len(said) + 1
                             /\ Heard(said, byte)[Len(said) + 1] = byte
         /\ Len(said) = 3 => Len(Heard(said, byte)) = 3 /\ Heard(said, byte)[3] = byte
         /\ \A i \in 1 .. 2 : i <= Len(said) => Heard(said, byte)[i] = said[i]
  <1>0. /\ Len(said) \in Nat /\ said \in [1 .. Len(said) -> Bytes]
        /\ \A i \in 1 .. Len(said) : said[i] \in Bytes
    OBVIOUS
  <1>1. CASE Len(said) < 3
    <2>1. Heard(said, byte) = Append(said, byte)
      BY <1>1 DEF Heard
    <2>2. /\ Append(said, byte) \in Seq(Bytes) /\ Len(Append(said, byte)) = Len(said) + 1
          /\ Append(said, byte)[Len(said) + 1] = byte
          /\ \A i \in 1 .. Len(said) : Append(said, byte)[i] = said[i]
      OBVIOUS
    <2>. QED  BY <1>0, <1>1, <2>1, <2>2
  <1>2. CASE Len(said) = 3
    <2>1. said \in [1 .. 3 -> Bytes]
      BY <1>0, <1>2
    <2>2. Heard(said, byte) = [said EXCEPT ![3] = byte]
      BY <1>2 DEF Heard
    <2>3. Heard(said, byte) \in [1 .. 3 -> Bytes]
      BY <2>1, <2>2
    <2>4. Heard(said, byte) \in Seq(Bytes) /\ Len(Heard(said, byte)) = 3
      <3>1. ASSUME NEW q \in [1 .. 3 -> Bytes] PROVE q \in Seq(Bytes) /\ Len(q) = 3
        <4>1. q = [i \in 1 .. 3 |-> q[i]] /\ \A i \in 1 .. 3 : q[i] \in Bytes
          BY <3>1
        <4>2. [i \in 1 .. 3 |-> q[i]] \in Seq(Bytes) /\ Len([i \in 1 .. 3 |-> q[i]]) = 3
          BY <4>1
        <4>. QED  BY <4>1, <4>2
      <3>. QED  BY <2>3, <3>1
    <2>. QED  BY <1>0, <1>2, <2>1, <2>2, <2>4
  <1>. QED  BY <1>0, <1>1, <1>2

LEMMA MailReadStep ==
  ASSUME MailInv, NEW d \in Mailboxes, ReadMailbox(d)
  PROVE  MailInv'
  <1>1. MailTypeOK'
    BY DEF MailInv, MailTypeOK, ReadMailbox, DmaReset, Halves
  <1>2. ASSUME NEW e \in framed' PROVE ToldKnown(e)'
    <2>1. CASE e = d
      BY <2>1 DEF MailInv, MailTypeOK, ReadMailbox, DmaReset, ToldKnown
    <2>2. CASE e # d
      BY <2>2, <1>2 DEF MailInv, MailTypeOK, ReadMailbox, DmaReset, ToldKnown
    <2>. QED  BY <2>1, <2>2
  <1>. QED  BY <1>1, <1>2 DEF MailInv

\* What a write does to a port that the program has read: it is told one byte more,
\* and a third byte is a command for the mailbox that the first two name.
LEMMA WriteIsHeard ==
  ASSUME MailInv, NEW d \in framed, NEW byte \in Bytes, WriteMailbox(d, byte)
  PROVE  /\ ToldKnown(d)' /\ told'[d] # <<>>
         /\ IF Len(told'[d]) = 3
            THEN /\ ran' # None
                 /\ ran'.device = d
                 /\ <<ran'.mailbox[1], ran'.mailbox[2], ran'.command>> = told'[d]
            ELSE ran' = None
  <1>0. d \in Mailboxes /\ told[d] \in Seq(Bytes) /\ status[d] \in 0 .. 2 /\ ToldKnown(d)
        /\ mailbox[d] \in Halves \X Halves
    BY DEF MailInv, MailTypeOK
  <1>1. told'[d] = Heard(told[d], byte)
    BY <1>0 DEF MailInv, MailTypeOK, WriteMailbox
  <1>2. /\ told'[d] \in Seq(Bytes)
        /\ Len(told[d]) < 3 => /\ Len(told'[d]) = Len(told[d]) + 1
                               /\ told'[d][Len(told[d]) + 1] = byte
        /\ Len(told[d]) = 3 => Len(told'[d]) = 3 /\ told'[d][3] = byte
        /\ \A i \in 1 .. 2 : i <= Len(told[d]) => told'[d][i] = told[d][i]
    <2>1. Len(told[d]) <= 3
      BY <1>0 DEF ToldKnown
    <2>2. PICK said \in Seq(Bytes) : said = told[d]
      BY <1>0
    <2>3. Len(said) <= 3
      BY <2>1, <2>2
    <2>. QED  BY <1>1, <2>2, <2>3, HeardByte
  <1>3. CASE status[d] = 0
    <2>1. told[d] = <<>> /\ Len(told[d]) = 0
      BY <1>0, <1>3 DEF ToldKnown
    <2>2. /\ ran' = None /\ status'[d] = 1 /\ mailbox'[d] = <<byte, 0>>
      BY <1>0, <1>3 DEF WriteMailbox, DmaCommand, MailInv, MailTypeOK
    <2>3. Len(told'[d]) = 1 /\ told'[d][1] = byte
      BY <1>2, <2>1
    <2>. QED  BY <2>2, <2>3 DEF ToldKnown
  <1>4. CASE status[d] = 1
    <2>1. Len(told[d]) = 1 /\ mailbox[d][1] = told[d][1]
      BY <1>0, <1>4 DEF ToldKnown
    <2>2. /\ ran' = None /\ status'[d] = 2 /\ mailbox'[d] = <<mailbox[d][1], byte>>
      BY <1>0, <1>4 DEF WriteMailbox, DmaCommand, MailInv, MailTypeOK
    <2>3. Len(told'[d]) = 2 /\ told'[d][2] = byte /\ told'[d][1] = told[d][1]
      BY <1>2, <2>1
    <2>. QED  BY <2>1, <2>2, <2>3 DEF ToldKnown
  <1>5. CASE status[d] = 2
    <2>1. /\ Len(told[d]) \in {2, 3}
          /\ mailbox[d][1] = told[d][1] /\ mailbox[d][2] = told[d][2]
      BY <1>0, <1>5 DEF ToldKnown
    <2>2. PICK granted \in BOOLEAN :
            /\ ran' = [device |-> d, mailbox |-> mailbox[d], command |-> byte,
                       granted |-> granted]
            /\ status' = status /\ mailbox' = mailbox
      BY <1>0, <1>5 DEF WriteMailbox, DmaCommand, ports
    <2>3. ran' \in Orders
      BY <1>0, <2>2 DEF Orders
    <2>4. /\ told'[d] \in Seq(Bytes) /\ Len(told'[d]) = 3 /\ told'[d][3] = byte
          /\ told'[d][1] = told[d][1] /\ told'[d][2] = told[d][2]
      <3>1. CASE Len(told[d]) = 2
        BY <1>2, <3>1
      <3>2. CASE Len(told[d]) = 3
        BY <1>2, <3>2
      <3>. QED  BY <2>1, <3>1, <3>2
    <2>5. told'[d] = <<told'[d][1], told'[d][2], told'[d][3]>>
      BY <2>4
    <2>6. /\ ran' # None /\ ran'.device = d
          /\ ran'.mailbox[1] = told'[d][1] /\ ran'.mailbox[2] = told'[d][2]
          /\ ran'.command = told'[d][3]
      BY <2>1, <2>2, <2>3, <2>4, MailboxAssumption
    <2>. QED  BY <1>5, <2>1, <2>2, <2>4, <2>5, <2>6 DEF ToldKnown
  <1>. QED  BY <1>0, <1>3, <1>4, <1>5

LEMMA MailWriteStep ==
  ASSUME MailInv, NEW d \in Mailboxes, NEW byte \in Bytes, WriteMailbox(d, byte)
  PROVE  MailInv'
  <1>1. status' \in [Mailboxes -> 0 .. 2] /\ mailbox' \in [Mailboxes -> Halves \X Halves]
    <2>1. byte \in Halves /\ 0 \in Halves
      BY DEF Halves
    <2>2. CASE status[d] = 0
      <3>1. <<byte, 0>> \in Halves \X Halves
        BY <2>1
      <3>2. mailbox' = [mailbox EXCEPT ![d] = <<byte, 0>>]
            /\ status' = [status EXCEPT ![d] = 1]
        BY <2>2 DEF WriteMailbox, DmaCommand
      <3>. QED  BY <3>1, <3>2 DEF MailInv, MailTypeOK
    <2>3. CASE status[d] = 1
      <3>1. <<mailbox[d][1], byte>> \in Halves \X Halves
        BY <2>1 DEF MailInv, MailTypeOK
      <3>2. mailbox' = [mailbox EXCEPT ![d] = <<mailbox[d][1], byte>>]
            /\ status' = [status EXCEPT ![d] = 2]
        BY <2>3 DEF MailInv, MailTypeOK, WriteMailbox, DmaCommand
      <3>. QED  BY <3>1, <3>2 DEF MailInv, MailTypeOK
    <2>4. CASE status[d] = 2
      BY <2>4 DEF MailInv, MailTypeOK, WriteMailbox, DmaCommand, ports
    <2>. QED  BY <2>2, <2>3, <2>4 DEF MailInv, MailTypeOK
  <1>2. told' \in [Mailboxes -> Seq(Bytes)]
    <2>1. CASE d \in framed
      <3>1. Heard(told[d], byte) \in Seq(Bytes)
        BY <2>1, HeardByte DEF MailInv, MailTypeOK, ToldKnown
      <3>. QED  BY <2>1, <3>1 DEF MailInv, MailTypeOK, WriteMailbox
    <2>2. CASE d \notin framed
      BY <2>2 DEF MailInv, MailTypeOK, WriteMailbox
    <2>. QED  BY <2>1, <2>2
  <1>3. ran' \in Orders \union {None}
    BY DEF MailInv, MailTypeOK, WriteMailbox, DmaCommand, Orders
  <1>4. ASSUME NEW e \in framed' PROVE ToldKnown(e)'
    <2>1. e \in framed /\ e \in Mailboxes
      BY <1>4 DEF WriteMailbox, MailInv, MailTypeOK
    <2>2. CASE e = d
      BY <2>1, <2>2, WriteIsHeard
    <2>3. CASE e # d
      <3>1. status'[e] = status[e] /\ mailbox'[e] = mailbox[e] /\ told'[e] = told[e]
        BY <2>1, <2>3 DEF MailInv, MailTypeOK, WriteMailbox, DmaCommand, ports
      <3>. QED  BY <2>1, <3>1 DEF MailInv, ToldKnown
    <2>. QED  BY <2>2, <2>3
  <1>. QED  BY <1>1, <1>2, <1>3, <1>4 DEF MailInv, MailTypeOK, WriteMailbox

LEMMA MailInvNext == MailInv /\ [MailNext]_mailVars => MailInv'
  <1>. SUFFICES ASSUME MailInv, [MailNext]_mailVars PROVE MailInv'
    OBVIOUS
  <1>1. CASE \E d \in Mailboxes : ReadMailbox(d)
    BY <1>1, MailReadStep
  <1>2. CASE \E d \in Mailboxes, byte \in Bytes : WriteMailbox(d, byte)
    BY <1>2, MailWriteStep
  <1>3. CASE NewProgram
    BY <1>3 DEF NewProgram, ports, MailInv, MailTypeOK
  <1>4. CASE Look
    BY <1>4 DEF Look, ports, MailInv, MailTypeOK, ToldKnown
  <1>5. CASE UNCHANGED mailVars
    BY <1>5 DEF mailVars, MailInv, MailTypeOK, ToldKnown
  <1>. QED  BY <1>1, <1>2, <1>3, <1>4, <1>5 DEF MailNext

\* A program that has read a DMA port has each of its commands carried out at once, at
\* the mailbox it named, and nothing else, whatever programs before it have left there
\* and whatever the other port is told.
THEOREM MailboxesAsTold == MailSpec => CommandsAsTold
<1>1. MailInv /\ [MailNext]_mailVars =>
        [\A d \in framed :
           \/ told'[d] # told[d] /\ told'[d] # <<>>
           \/ ran' # None /\ ran'.device = d
           => IF Len(told'[d]) = 3
              THEN /\ ran' # None
                   /\ ran'.device = d
                   /\ <<ran'.mailbox[1], ran'.mailbox[2], ran'.command>> = told'[d]
              ELSE ran' = None]_<<told, ran>>
  <2>. SUFFICES ASSUME MailInv, [MailNext]_mailVars, ~ UNCHANGED <<told, ran>>,
                       NEW d \in framed,
                       \/ told'[d] # told[d] /\ told'[d] # <<>>
                       \/ ran' # None /\ ran'.device = d
                PROVE  IF Len(told'[d]) = 3
                       THEN /\ ran' # None
                            /\ ran'.device = d
                            /\ <<ran'.mailbox[1], ran'.mailbox[2], ran'.command>> = told'[d]
                       ELSE ran' = None
    OBVIOUS
  <2>1. d \in Mailboxes
    BY DEF MailInv, MailTypeOK
  <2>2. CASE \E e \in Mailboxes : ReadMailbox(e)
    BY <2>1, <2>2 DEF ReadMailbox, MailInv, MailTypeOK
  <2>3. CASE NewProgram \/ Look
    BY <2>1, <2>3 DEF NewProgram, Look
  <2>4. ASSUME NEW e \in Mailboxes, NEW byte \in Bytes, WriteMailbox(e, byte)
        PROVE  e = d
    <3>. SUFFICES ASSUME e # d PROVE FALSE
      OBVIOUS
    <3>1. told'[d] = told[d]
      BY <2>1, <2>4 DEF WriteMailbox, MailInv, MailTypeOK
    <3>2. ran' # None /\ ran'.device = d
      BY <3>1
    <3>3. PICK granted \in BOOLEAN :
            ran' = [device |-> e, mailbox |-> mailbox[e], command |-> byte,
                    granted |-> granted]
      BY <2>4, <3>2 DEF WriteMailbox, DmaCommand
    <3>. QED  BY <3>2, <3>3
  <2>5. CASE \E e \in Mailboxes, byte \in Bytes : WriteMailbox(e, byte)
    BY <2>4, <2>5, WriteIsHeard
  <2>. QED  BY <2>2, <2>3, <2>5 DEF MailNext, mailVars
<1>. QED  BY <1>1, MailInvInit, MailInvNext, PTL DEF MailSpec, CommandsAsTold
=============================================================================
