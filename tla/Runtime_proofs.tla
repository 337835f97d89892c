--------------------------- MODULE Runtime_proofs ---------------------------
(***************************************************************************)
(* Machine-checked proofs about Runtime: the invariant IInv is inductive,  *)
(* so that the safety properties hold for every number of slots, of flash  *)
(* pages, of bodies and of periods.                                        *)
(***************************************************************************)
EXTENDS Runtime, SequenceTheorems, TLAPS

(***************************************************************************)
(* Pointers                                                                *)
(***************************************************************************)
\* is_in_flash tells stored script code from C functions: the four pointers of C
\* code are handlers that are not in flash.
LEMMA HandlerKinds ==
    /\ \A h \in {None, LedTask, ConditionsCheck, Torn} :
          h \in Handlers /\ h \notin Stored /\ ~IsInFlash(h)
    /\ Stored \subseteq Handlers
    /\ \A h \in Handlers : IsInFlash(h) <=> h \in Stored
    /\ \A h \in Stored : /\ h.page \in Pages /\ h.code \in Exprs
                         /\ PagesOf[h.code] \in Nat \ {0}
    /\ \A n \in Pages, e \in Exprs : [page |-> n, code |-> e] \in Stored
    /\ \A e \in Exprs : ~IsInFlash(Ram(e)) /\ Ram(e).code = e
<1> USE SizesAssumption, ExprsAssumption
    DEF None, LedTask, ConditionsCheck, Torn, Ram, IsInFlash
<1>1. \A h \in Stored : /\ h.page \in Pages /\ h.code \in Exprs
                        /\ PagesOf[h.code] \in Nat \ {0} /\ IsInFlash(h)
  BY DEF Stored, Pages
<1>2. \A h \in {None, LedTask, ConditionsCheck, Torn} : h \in Handlers /\ ~IsInFlash(h)
  BY DEF Handlers
<1>3. \A n \in Pages, e \in Exprs : [page |-> n, code |-> e] \in Stored
  BY DEF Stored
<1>4. QED
  BY <1>1, <1>2, <1>3 DEF Handlers

\* add_triggered_task keeps the queue a queue, and what is in it was there before
\* or is the handler that is added.
LEMMA AddTriggeredType ==
    ASSUME triggered \in [Queue -> Stored \cup {None}], NEW h \in Stored, AddTriggered(h)
    PROVE  /\ triggered' \in [Queue -> Stored \cup {None}]
           /\ \A i \in Queue : triggered'[i] \in {triggered[i], h}
BY DEF AddTriggered, First, FreeEntries

\* lio_stop leaves nothing but led_task, whatever was installed.
LEMMA LioStopHalts ==
    ASSUME TypeOK, LioStop
    PROVE  /\ Halted' /\ stopped' /\ ie'
           /\ tasks' \in [Slots -> [handler : Handlers, every : Nat]]
           /\ triggered' \in [Queue -> Stored \cup {None}]
           /\ conditions' = <<>> /\ devices' = {} /\ references' = {}
           /\ current' = 1 /\ current' \in Pages
<1> USE HandlerKinds
<1>1. tasks' \in [Slots -> [handler : Handlers, every : Nat]]
  BY PeriodsAssumption DEF LioStop, ClearedTasks, TypeOK, TablesOK
<1>2. \A i \in Slots : tasks'[i].handler = IF i = 1 THEN LedTask ELSE None
  BY DEF LioStop, ClearedTasks, TypeOK, TablesOK
<1>3. QED
  BY <1>1, <1>2, SizesAssumption DEF LioStop, Halted, ClearReferences, Pages, Queue

-----------------------------------------------------------------------------
(***************************************************************************)
(* Types                                                                   *)
(***************************************************************************)
LEMMA InitIInv == Init => IInv
<1> SUFFICES ASSUME Init PROVE IInv
  OBVIOUS
<1> USE SizesAssumption
<1>1. TablesOK
  <2>1. tasks \in [Slots -> [handler : Handlers, every : Nat]]
    BY HandlerKinds, PeriodsAssumption DEF Init
  <2>2. triggered \in [Queue -> Stored \cup {None}]
    BY DEF Init
  <2>3. conditions \in Seq(Stored \cup {Torn})
    BY DEF Init
  <2>4. current \in Pages
    BY DEF Init, Pages
  <2>5. QED
    BY <2>1, <2>2, <2>3, <2>4 DEF Init, TablesOK
<1>2. flash \in [Pages -> [body : Exprs \cup {"none"}, part : Nat]]
  BY DEF Init, Part
<1>3. frame \in Frames
  BY HandlerKinds DEF Init, NoFrame, Frames
<1>4. InterruptOK /\ EvalOK /\ HostOK /\ HistoryOK /\ pc \in Points
  <2>1. InterruptOK
    BY DEF Init, InterruptOK
  <2>2. 0 \in 0..MaxImports /\ 0 \in 0..(RunawayLimit + 1) /\ 0 \in 0..(Debounce + 1)
    OBVIOUS
  <2>3. EvalOK /\ HostOK
    BY <2>2 DEF Init, EvalOK, HostOK
  <2>4. HistoryOK /\ pc \in Points
    BY DEF Init, HistoryOK, Points
  <2>5. QED
    BY <2>1, <2>3, <2>4
<1>5. TypeOK
  BY <1>1, <1>2, <1>3, <1>4 DEF TypeOK
<1>6. FrameWellFormed
  BY DEF Init, FrameWellFormed, MainPoints
<1>7. HandlersKept
  BY DEF Init, HandlersKept, Installed, Conditions, NoFrame, None, LedTask, Ram, IsInFlash
<1>8. Shielded /\ FailedRunHalts /\ NothingAfterFailure
  BY DEF Init, Shielded, FailedRunHalts, NothingAfterFailure, InRun
<1>9. QED
  BY <1>5, <1>6, <1>7, <1>8 DEF IInv

\* The tables stay tables: the queue, the conditions, the devices and the functions
\* only ever hold stored code, and current stays inside the flash area.
LEMMA TablesStep ==
    ASSUME TypeOK, FrameWellFormed, Next
    PROVE  TablesOK'
<1> USE DEF TypeOK
<1>a. CASE UNCHANGED tables
  BY <1>a DEF tables, TablesOK
<1>b. CASE LioStop
  BY <1>b, LioStopHalts DEF LioStop, TablesOK
<1>1. CASE TimerSlot
  <2>1. triggered' \in [Queue -> Stored \cup {None}]
    BY <1>1, AddTriggeredType, HandlerKinds DEF TimerSlot, TablesOK, InterruptOK, Slots
  <2>2. QED
    BY <1>1, <2>1 DEF TimerSlot, TablesOK
<1>2. CASE TimerCondition
  <2>1. conditions[icond] \in Stored \cup {Torn}
    BY <1>2 DEF TimerCondition, TablesOK, InterruptOK, FrameWellFormed
  <2>2. triggered' \in [Queue -> Stored \cup {None}]
    BY <1>2, <2>1, AddTriggeredType, HandlerKinds DEF TimerCondition, TablesOK
  <2>3. QED
    BY <1>2, <2>2 DEF TimerCondition, TablesOK
<1>3. CASE Boot
  BY <1>3, <1>b DEF Boot, TablesOK
<1>4. CASE StartRun
  BY <1>4 DEF StartRun, Cli, TablesOK
<1>5. CASE PerformTriggeredTask
  BY <1>5 DEF PerformTriggeredTask, Sei, TablesOK
<1>6. CASE ReadAdc
  BY <1>6 DEF ReadAdc, TablesOK
<1>7. CASE LinkCondition
  BY <1>7 DEF LinkCondition, TablesOK
<1>8. CASE StoreBody
  <2>1. ASSUME NEW f, StoreExpression(f), f.body.code \in Exprs PROVE TablesOK'
    <3>1. CASE IsInFlash(f.body)
      BY <2>1, <3>1, <1>a DEF StoreExpression, tables
    <3>2. CASE ~IsInFlash(f.body) /\ ~Fits(f.body.code)
      BY <2>1, <3>2, <1>b DEF StoreExpression
    <3>3. CASE ~IsInFlash(f.body) /\ Fits(f.body.code)
      <4>1. current' = Advance(f.body.code) /\ UNCHANGED <<tasks, triggered, conditions,
               devices, references, stopped, ie>>
        BY <2>1, <3>3 DEF StoreExpression
      <4>2. Advance(f.body.code) \in Pages
        BY <2>1, <3>3, ExprsAssumption, SizesAssumption
        DEF Fits, Advance, TablesOK, Pages
      <4>3. QED
        BY <4>1, <4>2 DEF TablesOK
    <3>4. QED
      BY <3>1, <3>2, <3>3
  <2>2. \A h \in Bodies : h.code \in Exprs
    BY HandlerKinds DEF Bodies, Resident, EvalOK, TablesOK
  <2>3. QED
    BY <1>8, <2>1, <2>2 DEF StoreBody, FrameWellFormed, At
<1>9. CASE FillCondition
  <2>1. frame.body \in Stored \cup {Torn}
    BY <1>9 DEF FillCondition, FrameWellFormed, At
  <2>2. ASSUME conditions # <<>>
        PROVE  [conditions EXCEPT ![Len(conditions)] = frame.body] \in Seq(Stored \cup {Torn})
    BY <2>1, <2>2, ExceptSeq, EmptySeq DEF TablesOK
  <2>3. conditions' \in Seq(Stored \cup {Torn})
    BY <1>9, <2>2 DEF FillCondition, TablesOK
  <2>4. QED
    BY <1>9, <2>3 DEF FillCondition, TablesOK
<1>10. CASE AttachDeviceHandler \/ Defvar
  BY <1>10 DEF AttachDeviceHandler, Defvar, TablesOK, FrameWellFormed, At
<1>11. CASE Every \/ FinishRun
  <2>1. Torn \in Handlers
    BY HandlerKinds
  <2>2. tasks' = tasks \/ \E i \in Slots : tasks' = [tasks EXCEPT ![i].handler = Torn]
    BY <1>11 DEF Every, FinishRun, SchedulerAdd, First, FreeSlots
  <2>3. tasks' \in [Slots -> [handler : Handlers, every : Nat]]
    BY <2>1, <2>2 DEF TablesOK
  <2>4. QED
    BY <1>11, <2>3 DEF Every, FinishRun, SchedulerAdd, TablesOK
<1>12. CASE DeleteSchedule
  <2>1. Torn \in Handlers
    BY HandlerKinds
  <2>2. tasks' \in [Slots -> [handler : Handlers, every : Nat]]
    BY <1>12, <2>1 DEF DeleteSchedule, TablesOK
  <2>3. QED
    BY <1>12, <2>2 DEF DeleteSchedule, TablesOK
<1>13. CASE WriteHandler
  BY <1>13 DEF WriteHandler, TablesOK, FrameWellFormed, At
<1>14. CASE WriteEvery
  BY <1>14 DEF WriteEvery, TablesOK, Frames
<1>15. CASE Close
  BY <1>15, <1>a, <1>b DEF Close, CloseRun, CloseHandler, StopAgain, TablesOK
<1>16. QED
  <2>1. CheckRunfileChanged \/ Failure \/ RunawayStop => LioStop \/ UNCHANGED tables
    BY DEF CheckRunfileChanged, Failure, RunawayStop
  <2>2. TimerInterrupt \/ UsbTask \/ TextEnd \/ EvalEnd \/ RunfileWritten \/ DeviceFile
        \/ NextExpression \/ While \/ WhileEnd \/ Import => UNCHANGED tables
    BY DEF TimerInterrupt, UsbTask, TextEnd, EvalEnd, RunfileWritten, DeviceFile,
           NextExpression, While, WhileEnd, Import
  <2>3. QED
    BY <1>a, <1>b, <1>1, <1>2, <1>3, <1>4, <1>5, <1>6, <1>7, <1>8, <1>9, <1>10, <1>11,
       <1>12, <1>13, <1>14, <1>15, <2>1, <2>2 DEF Next, Interrupt, Control, Install, Choice

\* What store_expression does with the list of a builtin: nothing if it is in flash,
\* else it programs pages from current on and either moves current or stops.
LEMMA StoreExpressionCases ==
    ASSUME TypeOK, NEW f, StoreExpression(f)
    PROVE  \/ IsInFlash(f.body) /\ frame' = f /\ UNCHANGED <<tables, flash>>
           \/ /\ ~IsInFlash(f.body)
              /\ frame' = [f EXCEPT !.body = [page |-> current, code |-> f.body.code]]
              /\ flash' = Programmed(f.body.code)
              /\ LioStop \/ /\ current + PagesOf[f.body.code] <= NumPages
                            /\ current' = current + PagesOf[f.body.code]
                            /\ UNCHANGED <<tasks, triggered, conditions, devices,
                                           references, stopped, ie>>
BY DEF StoreExpression, Fits, Advance

\* Every builtin that stores a body has a list in RAM or a stored list at hand.
LEMMA StoreBodyArguments ==
    ASSUME TypeOK, FrameWellFormed, StoreBody
    PROVE  \E f \in Frames : /\ StoreExpression(f) /\ f.body.code \in Exprs
                             /\ f.body \in Resident \cup {Ram(e) : e \in Exprs} \cup {frame.body}
                             /\ ~stopped \/ f.body = frame.body
<1>1. CASE At("linked") /\ StoreExpression(frame)
  BY <1>1 DEF FrameWellFormed, At, TypeOK
<1>2. ASSUME NEW k \in Kinds, NEW b \in Bodies, NEW p \in Periods \cup {0}, Call(k),
             StoreExpression([kind |-> k, body |-> b, every |-> p, slot |-> 0])
      PROVE  \E f \in Frames : /\ StoreExpression(f) /\ f.body.code \in Exprs
                               /\ f.body \in Resident \cup {Ram(e) : e \in Exprs}
                               /\ ~stopped
  <2>1. b \in Resident \cup {Ram(e) : e \in Exprs}
    BY DEF Bodies
  <2>2. b.code \in Exprs /\ b \in Handlers \cup {Ram(e) : e \in Exprs}
    BY <2>1, HandlerKinds DEF Resident, TypeOK, EvalOK, TablesOK
  <2>3. [kind |-> k, body |-> b, every |-> p, slot |-> 0] \in Frames
    BY <2>2, PeriodsAssumption, SizesAssumption DEF Frames
  <2>4. QED
    BY <1>2, <2>1, <2>2, <2>3 DEF Call
<1>3. QED
  BY <1>1, <1>2 DEF StoreBody

\* The flash area only ever holds parts of bodies.
LEMMA FlashStep ==
    ASSUME TypeOK, FrameWellFormed, Next
    PROVE  flash' \in [Pages -> [body : Exprs \cup {"none"}, part : Nat]]
<1> USE DEF TypeOK
<1>1. CASE UNCHANGED flash
  BY <1>1
<1>2. CASE StoreBody
  <2>1. PICK f \in Frames : StoreExpression(f) /\ f.body.code \in Exprs
    BY <1>2, StoreBodyArguments
  <2>2. CASE flash' = Programmed(f.body.code)
    BY <2>1, <2>2 DEF Programmed, Part, TablesOK, Pages
  <2>3. QED
    BY <2>1, <2>2, <1>1, StoreExpressionCases
<1>3. QED
  BY <1>1, <1>2 DEF Next, Interrupt, Control, Install, Choice, TimerInterrupt, TimerSlot,
     TimerCondition, Boot, UsbTask, CheckRunfileChanged, StartRun, PerformTriggeredTask,
     Evaluate, TextEnd, EvalEnd, RunawayStop, Close, CloseRun, CloseHandler, FillCondition,
     AttachDeviceHandler, Defvar, Every, FinishRun, SchedulerAdd, WriteHandler, WriteEvery,
     RunfileWritten, DeviceFile, NextExpression, Failure, While, WhileEnd, ReadAdc, Import,
     LinkCondition, DeleteSchedule

\* The scan of the timer interrupt stays inside the schedule.
LEMMA InterruptStep ==
    ASSUME TypeOK, Next
    PROVE  InterruptOK'
<1> USE SizesAssumption DEF TypeOK
<1>1. CASE UNCHANGED interrupt
  BY <1>1 DEF interrupt, InterruptOK
<1>2. CASE TimerInterrupt
  BY <1>2 DEF TimerInterrupt, InterruptOK
<1>3. CASE TimerSlot
  BY <1>3 DEF TimerSlot, NextSlot, InterruptOK
<1>4. CASE TimerCondition
  BY <1>4 DEF TimerCondition, NextSlot, InterruptOK
<1>5. QED
  BY <1>1, <1>2, <1>3, <1>4 DEF Next, Interrupt, Control, Install, Choice, 
     Boot, UsbTask, CheckRunfileChanged, StartRun, PerformTriggeredTask,
     Evaluate, TextEnd, EvalEnd, RunawayStop, Close, CloseRun, CloseHandler, FillCondition,
     AttachDeviceHandler, Defvar, Every, FinishRun, SchedulerAdd, WriteHandler, WriteEvery,
     RunfileWritten, DeviceFile, NextExpression, Failure, While, WhileEnd, ReadAdc, Import,
     LinkCondition, DeleteSchedule, StoreBody, StoreExpression

\* The registers of the evaluation keep their types: what is evaluated is stored code.
LEMMA EvalStep ==
    ASSUME TypeOK, FrameWellFormed, Next
    PROVE  EvalOK'
<1> USE SizesAssumption DEF TypeOK
<1>0. 0 \in 0..(RunawayLimit + 1)
  OBVIOUS
<1>1. CASE UNCHANGED eval
  BY <1>1 DEF eval, EvalOK
<1>2. CASE TimerInterrupt
  BY <1>2 DEF TimerInterrupt, EvalOK
<1>3. CASE Boot \/ CheckRunfileChanged
  BY <1>3 DEF Boot, CheckRunfileChanged, EvalOK
<1>4. CASE PerformTriggeredTask
  <2>1. UNCHANGED eval \/ \E i \in Queue : triggered[i] # None /\ Evaluate(triggered[i], "task")
    BY <1>4 DEF PerformTriggeredTask, First, FreeEntries, eval
  <2>2. QED
    BY <2>1, <1>0, <1>1 DEF Evaluate, StartGuard, EvalOK, TablesOK
<1>5. CASE DeviceFile
  BY <1>5 DEF DeviceFile, Evaluate, StartGuard, EvalOK, TablesOK
<1>6. CASE NextExpression
  BY <1>6 DEF NextExpression, StartGuard, EvalOK
<1>7. CASE TextEnd
  BY <1>7 DEF TextEnd, EvalOK
<1>8. CASE EvalEnd
  BY <1>0, <1>8 DEF EvalEnd, DropGuard, EvalOK
<1>9. CASE Import
  BY <1>9 DEF Import, EvalOK
<1>10. CASE Close
  BY <1>10 DEF Close, EvalOK
<1>11. QED
  BY <1>1, <1>2, <1>3, <1>4, <1>5, <1>6, <1>7, <1>8, <1>9, <1>10
  DEF Next, Interrupt, Control, Install, Choice, TimerSlot, TimerCondition, UsbTask,
     StartRun, RunawayStop, FillCondition, AttachDeviceHandler, Defvar, Every, FinishRun,
     SchedulerAdd, WriteHandler, WriteEvery, RunfileWritten, Failure, While, WhileEnd,
     ReadAdc, LinkCondition, DeleteSchedule, StoreBody, StoreExpression

\* So do the host's registers and the history variables.
LEMMA HostStep ==
    ASSUME TypeOK, Next
    PROVE  HostOK' /\ HistoryOK'
<1> USE SizesAssumption DEF TypeOK
<1>0. 0 \in 0..(Debounce + 1)
  OBVIOUS
<1>1. CASE UNCHANGED host /\ UNCHANGED history
  BY <1>1 DEF host, history, HostOK, HistoryOK
<1>2. CASE TimerInterrupt
  BY <1>2 DEF TimerInterrupt, history, HostOK, HistoryOK
<1>3. CASE TimerSlot \/ TimerCondition
  BY <1>3 DEF TimerSlot, TimerCondition, host, HostOK, HistoryOK
<1>4. CASE RunfileWritten
  BY <1>4 DEF RunfileWritten, history, HostOK, HistoryOK
<1>5. CASE StartRun \/ ReadAdc
  BY <1>5 DEF StartRun, ReadAdc, host, HostOK, HistoryOK
<1>6. CASE Close
  <2>1. HostOK'
    BY <1>0, <1>6 DEF Close, CloseRun, CloseHandler, host, HostOK
  <2>2. HistoryOK'
    BY <1>6 DEF Close, CloseRun, CloseHandler, HistoryOK
  <2>3. QED
    BY <2>1, <2>2
<1>7. QED
  BY <1>1, <1>2, <1>3, <1>4, <1>5, <1>6
  DEF Next, Interrupt, Control, Install, Choice, Boot, UsbTask, CheckRunfileChanged,
     PerformTriggeredTask, Evaluate, TextEnd, EvalEnd, RunawayStop, FillCondition,
     AttachDeviceHandler, Defvar, Every, FinishRun, SchedulerAdd, WriteHandler, WriteEvery,
     DeviceFile, NextExpression, Failure, While, WhileEnd, Import, LinkCondition,
     DeleteSchedule, StoreBody, StoreExpression

-----------------------------------------------------------------------------
(***************************************************************************)
(* The builtin in progress                                                 *)
(***************************************************************************)
\* The frame is typed, and each point of a builtin has what its next step needs.
LEMMA FrameStep ==
    ASSUME TypeOK, FrameWellFormed, Next
    PROVE  pc' \in Points /\ frame' \in Frames
<1> USE SizesAssumption DEF TypeOK
<1>1. pc' \in Points
  BY DEF Points, Next, Interrupt, Control, Install, Choice, TimerInterrupt, TimerSlot,
     TimerCondition, Boot, UsbTask, CheckRunfileChanged, StartRun, PerformTriggeredTask,
     Evaluate, TextEnd, EvalEnd, RunawayStop, Close, CloseRun, CloseHandler, FillCondition,
     AttachDeviceHandler, Defvar, Every, FinishRun, SchedulerAdd, AfterSchedule,
     WriteHandler, WriteEvery, RunfileWritten, DeviceFile, NextExpression, Failure, While,
     WhileEnd, ReadAdc, Import, LinkCondition, DeleteSchedule, StoreBody, StoreExpression
<1>0. SUFFICES frame' \in Frames
  BY <1>1
<1>2. NoFrame \in Frames
  BY HandlerKinds DEF NoFrame, Frames
<1>3. CASE frame' \in {frame, NoFrame}
  BY <1>2, <1>3
<1>4. CASE StoreBody
  <2>1. PICK f \in Frames : StoreExpression(f) /\ f.body.code \in Exprs
    BY <1>4, StoreBodyArguments
  <2>2. CASE frame' = [f EXCEPT !.body = [page |-> current, code |-> f.body.code]]
    <3>1. [page |-> current, code |-> f.body.code] \in Handlers
      BY <2>1, HandlerKinds DEF TablesOK
    <3>2. QED
      BY <2>2, <3>1 DEF Frames
  <2>3. QED
    BY <2>1, <2>2, StoreExpressionCases
<1>5. CASE LinkCondition
  <2>1. PICK h \in Bodies :
          frame' = [kind |-> "condition", body |-> h, every |-> 0, slot |-> 0]
    BY <1>5 DEF LinkCondition
  <2>2. h \in Handlers \cup {Ram(e) : e \in Exprs}
    BY <2>1, HandlerKinds DEF Bodies, Resident, EvalOK, TablesOK
  <2>3. QED
    BY <2>1, <2>2 DEF Frames, Kinds
<1>6. CASE Every \/ FinishRun
  <2>1. PICK f \in Frames : SchedulerAdd(f)
    BY <1>6, HandlerKinds, PeriodsAssumption DEF Every, FinishRun, Frames
  <2>2. frame' = NoFrame \/ \E i \in Slots : frame' = [f EXCEPT !.slot = i]
    BY <2>1 DEF SchedulerAdd, First, FreeSlots
  <2>3. QED
    BY <1>2, <2>2 DEF Frames, Slots
<1>7. CASE DeleteSchedule
  BY <1>7, HandlerKinds DEF DeleteSchedule, Frames, Slots
<1>8. QED
  BY <1>3, <1>4, <1>5, <1>6, <1>7
  DEF Next, Interrupt, Control, Install, Choice, TimerInterrupt, TimerSlot,
     TimerCondition, Boot, UsbTask, CheckRunfileChanged, StartRun, PerformTriggeredTask,
     Evaluate, TextEnd, EvalEnd, RunawayStop, Close, FillCondition,
     AttachDeviceHandler, Defvar, WriteHandler, WriteEvery, RunfileWritten, DeviceFile,
     NextExpression, Failure, While, WhileEnd, ReadAdc, Import

\* Every action of the two threads keeps the types, given the point the main loop is
\* at tells which registers are in use.
THEOREM TypeStep == ASSUME TypeOK, FrameWellFormed, Next PROVE TypeOK'
BY TablesStep, FlashStep, InterruptStep, EvalStep, HostStep, FrameStep DEF TypeOK

\* Each point of the main loop has the registers that its next step needs.
LEMMA PointsStep ==
    ASSUME TypeOK, FrameWellFormed, Next
    PROVE  /\ pc' \notin {"linked", "stored", "half", "period"} => frame' = NoFrame
           /\ pc' \in MainPoints <=> ctx' = "none"
           /\ pc' \in MainPoints \cup {"armed"} => running' = None
<1> USE DEF TypeOK, FrameWellFormed, MainPoints, At
<1>1. CASE Interrupt
  BY <1>1 DEF Interrupt, TimerInterrupt, TimerSlot, TimerCondition, eval
<1>2. CASE Boot \/ UsbTask \/ CheckRunfileChanged \/ StartRun \/ PerformTriggeredTask
  BY <1>2 DEF Boot, UsbTask, CheckRunfileChanged, StartRun, PerformTriggeredTask, Evaluate,
     eval
<1>3. CASE TextEnd \/ EvalEnd \/ RunawayStop \/ NextExpression \/ Failure \/ While
           \/ WhileEnd \/ ReadAdc \/ Import
  BY <1>3 DEF TextEnd, EvalEnd, RunawayStop, NextExpression, Failure, While, WhileEnd,
     ReadAdc, Import, Call, eval
<1>4. CASE Close
  BY <1>4 DEF Close, CloseRun, CloseHandler, InRun
<1>5. CASE StoreBody
  <2>1. pc \in {"eval", "linked"}
    BY <1>5 DEF StoreBody, Call
  <2>2. PICK f \in Frames : StoreExpression(f)
    BY <1>5, StoreBodyArguments
  <2>3. pc' = "stored" /\ ctx' = ctx
    BY <2>2 DEF StoreExpression, eval
  <2>4. QED
    BY <2>1, <2>3
<1>6. CASE FillCondition \/ AttachDeviceHandler \/ Defvar
  BY <1>6 DEF FillCondition, AttachDeviceHandler, Defvar, eval
<1>7. CASE Every \/ FinishRun \/ WriteHandler \/ WriteEvery \/ DeleteSchedule
  BY <1>7 DEF Every, FinishRun, SchedulerAdd, AfterSchedule, WriteHandler, WriteEvery,
     DeleteSchedule, Call, eval
<1>8. CASE RunfileWritten \/ DeviceFile \/ LinkCondition
  BY <1>8 DEF RunfileWritten, DeviceFile, Evaluate, LinkCondition, Call, eval
<1>9. QED
  BY <1>1, <1>2, <1>3, <1>4, <1>5, <1>6, <1>7, <1>8 DEF Next, Control, Install, Choice

\* What is inside a builtin has a body that its next step can use, and the timer
\* interrupt runs only when interrupts were on and looks at a condition there is.
LEMMA BodiesStep ==
    ASSUME TypeOK, FrameWellFormed, Next
    PROVE  /\ pc' = "linked" => frame'.body.code \in Exprs
           /\ pc' = "stored" => frame'.body \in Stored
           /\ pc' = "half" => frame'.body \in Handlers
<1> USE DEF FrameWellFormed, At
<1>1. CASE StoreBody
  <2>1. PICK f \in Frames : StoreExpression(f) /\ f.body.code \in Exprs
    BY <1>1, StoreBodyArguments
  <2>2. f.body \in Handlers \cup {Ram(e) : e \in Exprs}
    BY DEF Frames
  <2>3. CASE IsInFlash(f.body) /\ frame' = f
    BY <2>1, <2>2, <2>3, HandlerKinds DEF StoreExpression
  <2>4. CASE frame' = [f EXCEPT !.body = [page |-> current, code |-> f.body.code]]
    <3>1. frame'.body = [page |-> current, code |-> f.body.code]
      BY <2>4 DEF Frames
    <3>2. QED
      BY <2>1, <3>1, HandlerKinds DEF StoreExpression, TypeOK, TablesOK
  <2>5. QED
    BY <2>1, <2>3, <2>4, StoreExpressionCases
<1>2. CASE LinkCondition
  <2>1. PICK h \in Bodies :
          frame' = [kind |-> "condition", body |-> h, every |-> 0, slot |-> 0]
    BY <1>2 DEF LinkCondition
  <2>2. h.code \in Exprs
    BY HandlerKinds DEF Bodies, Resident, TypeOK, EvalOK, TablesOK
  <2>3. QED
    BY <1>2, <2>1, <2>2 DEF LinkCondition
<1>3. CASE Every \/ FinishRun
  <2>1. PICK f \in Frames : SchedulerAdd(f) /\ f.body \in Handlers
    BY <1>3, HandlerKinds, PeriodsAssumption, SizesAssumption
    DEF Every, FinishRun, Frames, TypeOK
  <2>2. pc' \in {"close", "eval"} \/ \E i \in Slots : frame' = [f EXCEPT !.slot = i]
    BY <2>1 DEF SchedulerAdd, AfterSchedule, First, FreeSlots
  <2>3. pc' \notin {"linked", "stored"}
    BY <2>1 DEF SchedulerAdd, AfterSchedule
  <2>4. QED
    BY <2>1, <2>2, <2>3 DEF Frames
<1>4. CASE DeleteSchedule
  BY <1>4, HandlerKinds DEF DeleteSchedule
<1>5. CASE UNCHANGED <<pc, frame>>
  BY <1>5
<1>6. CASE pc' \notin {"linked", "stored", "half"}
  BY <1>6
<1>7. QED
  BY <1>1, <1>2, <1>3, <1>4, <1>5, <1>6
  DEF Next, Interrupt, Control, Install, Choice, TimerInterrupt, TimerSlot,
     TimerCondition, Boot, UsbTask, CheckRunfileChanged, StartRun, PerformTriggeredTask,
     Evaluate, TextEnd, EvalEnd, RunawayStop, Close, CloseRun, CloseHandler, FillCondition,
     AttachDeviceHandler, Defvar, WriteHandler, WriteEvery, AfterSchedule, RunfileWritten,
     DeviceFile, NextExpression, Failure, While, WhileEnd, ReadAdc, Import

\* The interrupt runs only with interrupts on, and conditions_check looks only at
\* conditions there are: the main loop cannot change the list under it.
LEMMA ScanStep ==
    ASSUME TypeOK, FrameWellFormed, Next
    PROVE  /\ icond' > 0 => isr' > 0 /\ icond' <= Len(conditions')
           /\ isr' > 0 => ie'
<1> USE DEF FrameWellFormed
<1>1. CASE TimerInterrupt
  BY <1>1 DEF TimerInterrupt, tables
<1>2. CASE TimerSlot
  <2>1. conditions # <<>> => Len(conditions) >= 1
    BY EmptySeq DEF TypeOK, TablesOK
  <2>2. QED
    BY <1>2, <2>1 DEF TimerSlot, NextSlot, TypeOK, InterruptOK
<1>3. CASE TimerCondition
  <2>1. Len(conditions) \in Nat
    BY DEF TypeOK, TablesOK
  <2>2. QED
    BY <1>3, <2>1 DEF TimerCondition, NextSlot, TypeOK, InterruptOK
<1>4. CASE isr = 0 /\ UNCHANGED interrupt
  BY <1>4 DEF interrupt, TypeOK, InterruptOK
<1>5. QED
  BY <1>1, <1>2, <1>3, <1>4
  DEF Next, Interrupt, Control, Install, Choice, At, Call, Boot, UsbTask,
     CheckRunfileChanged, StartRun, PerformTriggeredTask, Evaluate, TextEnd, EvalEnd,
     RunawayStop, Close, FillCondition, AttachDeviceHandler, Defvar, Every, FinishRun,
     SchedulerAdd, WriteHandler, WriteEvery, RunfileWritten, DeviceFile, NextExpression,
     Failure, While, WhileEnd, ReadAdc, Import, LinkCondition, DeleteSchedule, StoreBody,
     StoreExpression

\* The registers a point of the main loop uses are there whenever it is reached: a
\* builtin in progress has a body, and nothing runs on main's own points.
THEOREM FrameWellFormedStep ==
    ASSUME TypeOK, FrameWellFormed, Next
    PROVE  FrameWellFormed'
BY PointsStep, BodiesStep, ScanStep DEF FrameWellFormed, MainPoints

-----------------------------------------------------------------------------
(***************************************************************************)
(* The two threads of control                                              *)
(***************************************************************************)
\* runfile_changed's cli holds until read_adc or lio_stop ends it.
LEMMA ShieldedStep ==
    ASSUME TypeOK, FrameWellFormed, Shielded, Next
    PROVE  Shielded'
<1> USE DEF Shielded, InRun
<1>1. CASE LioStop
  BY <1>1 DEF LioStop
<1>2. CASE Interrupt
  BY <1>2 DEF Interrupt, TimerInterrupt, TimerSlot, TimerCondition, tables, eval, history
<1>3. CASE StartRun
  BY <1>3 DEF StartRun, Cli
<1>4. CASE ReadAdc
  BY <1>4 DEF ReadAdc
<1>5. CASE Close
  BY <1>5 DEF Close
<1>6. CASE PerformTriggeredTask \/ DeviceFile \/ Boot
  BY <1>6 DEF PerformTriggeredTask, DeviceFile, Boot, Evaluate, FrameWellFormed, MainPoints,
     LioStop, At, eval
<1>7. CASE UNCHANGED <<ctx, stopped, ie, adcRead>>
  BY <1>7
<1>8. CASE StoreBody
  <2>1. PICK f \in Frames : StoreExpression(f)
    BY <1>8, StoreBodyArguments
  <2>2. LioStop \/ UNCHANGED <<ctx, stopped, ie, adcRead>>
    BY <2>1 DEF StoreExpression, tables, eval, history
  <2>3. QED
    BY <2>2, <1>1, <1>7
<1>9. QED
  BY <1>1, <1>2, <1>3, <1>4, <1>5, <1>6, <1>7, <1>8
  DEF Next, Control, Install, Choice, UsbTask, CheckRunfileChanged, TextEnd, EvalEnd,
     RunawayStop, FillCondition, AttachDeviceHandler, Defvar, Every, FinishRun,
     SchedulerAdd, WriteHandler, WriteEvery, RunfileWritten, NextExpression,
     Failure, While, WhileEnd, Import, LinkCondition, DeleteSchedule, tables, eval, history

\* After a failed run, and between lio_stop(0) and the next run, nothing is
\* installed: the led task is all that the interrupt can find.
LEMMA HaltStep ==
    ASSUME TypeOK, FrameWellFormed, FailedRunHalts, NothingAfterFailure, Next
    PROVE  FailedRunHalts' /\ NothingAfterFailure'
<1> USE DEF FailedRunHalts, NothingAfterFailure, FrameWellFormed, MainPoints
<1>1. ASSUME LioStop, ctx' \in {ctx, "none", "boot", "run"}, lastRun' = lastRun \/ ctx' = "none"
      PROVE  FailedRunHalts' /\ NothingAfterFailure'
  BY <1>1, LioStopHalts
<1>2. CASE Interrupt
  <2>1. ASSUME Halted PROVE Halted'
    <3>1. \A i \in Slots : ~IsInFlash(tasks[i].handler)
      BY <2>1, HandlerKinds DEF Halted
    <3>2. CASE TimerInterrupt
      BY <2>1, <3>2 DEF TimerInterrupt, Halted, tables
    <3>3. CASE TimerSlot
      <4>1. triggered' = triggered
        BY <3>1, <3>3 DEF TimerSlot, TypeOK, InterruptOK, Slots
      <4>2. QED
        BY <2>1, <3>3, <4>1 DEF TimerSlot, Halted
    <3>4. CASE TimerCondition
      <4>1. Len(conditions) = 0
        BY <2>1 DEF Halted
      <4>2. QED
        BY <3>4, <4>1 DEF TimerCondition, TypeOK, InterruptOK
    <3>5. QED
      BY <1>2, <3>2, <3>3, <3>4 DEF Interrupt
  <2>2. UNCHANGED <<pc, ctx, lastRun>>
    BY <1>2 DEF Interrupt, TimerInterrupt, TimerSlot, TimerCondition, eval, history
  <2>3. QED
    BY <2>1, <2>2
<1>3. CASE Boot \/ CheckRunfileChanged
  BY <1>1, <1>3 DEF Boot, CheckRunfileChanged, At, host, history, tables, Halted
<1>4. CASE StartRun
  BY <1>4 DEF StartRun, At, eval
<1>5. CASE Close
  <2>1. CASE stopped /\ CloseRun
    BY <1>5, <2>1, LioStopHalts DEF Close, CloseRun, StopAgain
  <2>2. CASE ~stopped /\ CloseRun
    BY <1>5, <2>2 DEF Close, CloseRun
  <2>3. CASE CloseHandler
    BY <1>5, <2>3 DEF Close, CloseHandler, At, InRun, TypeOK, EvalOK
  <2>4. QED
    BY <1>5, <2>1, <2>2, <2>3 DEF Close
<1>6. CASE DeviceFile
  BY <1>6 DEF DeviceFile, At, Halted, Evaluate, history
<1>7. CASE PerformTriggeredTask
  <2>1. CASE FreeEntries = Queue
    BY <1>7, <2>1 DEF PerformTriggeredTask, At, Halted, eval, history, First, FreeEntries
  <2>2. CASE FreeEntries # Queue
    BY <1>7, <2>2 DEF PerformTriggeredTask, At, Halted, Evaluate, history, First, FreeEntries
  <2>3. QED
    BY <2>1, <2>2
<1>8. CASE UsbTask \/ RunfileWritten
  BY <1>8 DEF UsbTask, RunfileWritten, At, tables, eval, history, Halted
<1>9. ASSUME ctx \notin {"none"}, pc # "armed", pc' # "armed", UNCHANGED <<ctx, lastRun>>
      PROVE  FailedRunHalts' /\ NothingAfterFailure'
  BY <1>9
<1>10. CASE TextEnd \/ EvalEnd \/ RunawayStop \/ NextExpression \/ Failure \/ While
            \/ WhileEnd \/ ReadAdc \/ Import
  BY <1>9, <1>10 DEF TextEnd, EvalEnd, RunawayStop, NextExpression, Failure, While, WhileEnd,
     ReadAdc, Import, At, Call, eval, history
<1>11. CASE FillCondition \/ AttachDeviceHandler \/ Defvar \/ Every \/ FinishRun
            \/ WriteHandler \/ WriteEvery \/ LinkCondition \/ DeleteSchedule
  BY <1>9, <1>11 DEF FillCondition, AttachDeviceHandler, Defvar, Every, FinishRun,
     SchedulerAdd, AfterSchedule, WriteHandler, WriteEvery, LinkCondition, DeleteSchedule,
     At, Call, eval, history
<1>12. CASE StoreBody
  <2>1. pc \in {"eval", "linked"}
    BY <1>12 DEF StoreBody, Call, At
  <2>2. PICK f \in Frames : StoreExpression(f)
    BY <1>12, StoreBodyArguments
  <2>3. QED
    BY <1>9, <2>1, <2>2 DEF StoreExpression, eval, history
<1>13. QED
  BY <1>2, <1>3, <1>4, <1>5, <1>6, <1>7, <1>8, <1>10, <1>11, <1>12
  DEF Next, Control, Install, Choice

-----------------------------------------------------------------------------
(***************************************************************************)
(* The flash area                                                          *)
(***************************************************************************)
\* Programming pages from current on does not touch what lies below current.
LEMMA KeptStable ==
    ASSUME TypeOK, NEW h \in Stored, Kept(h), current' \in Nat, current <= current',
           \A p \in Pages : p < current => flash'[p] = flash[p]
    PROVE  Kept(h)'
<1>1. h.page \in Nat /\ PagesOf[h.code] \in Nat /\ current \in Nat
  BY HandlerKinds DEF TypeOK, TablesOK, Pages
<1>2. h.page + PagesOf[h.code] <= current'
  BY <1>1 DEF Kept
<1>3. ASSUME NEW p \in Pages, p >= h.page, p < h.page + PagesOf[h.code]
      PROVE  flash'[p] = Part(h.code, p - h.page + 1)
  <2>1. p < current
    BY <1>1, <1>3 DEF Kept, Pages
  <2>2. QED
    BY <1>3, <2>1 DEF Kept, Intact
<1>4. QED
  BY <1>2, <1>3 DEF Kept, Intact

\* A body that store_expression has just programmed is kept.
LEMMA ProgrammedKept ==
    ASSUME TypeOK, NEW e \in Exprs, current + PagesOf[e] <= NumPages,
           flash' = Programmed(e), current' = current + PagesOf[e],
           NEW h, h = [page |-> current, code |-> e]
    PROVE  Kept(h)'
<1>1. current \in Nat /\ PagesOf[e] \in Nat
  BY ExprsAssumption DEF TypeOK, TablesOK, Pages
<1>2. \A p \in Pages : p >= current /\ p < current + PagesOf[e]
                     => flash'[p] = Part(e, p - current + 1)
  BY DEF Programmed
<1>3. QED
  BY <1>1, <1>2 DEF Kept, Intact

\* If all that is installed was installed before, it is as intact as before.
LEMMA SameHandlers ==
    ASSUME TypeOK, HandlersKept, ~stopped, UNCHANGED <<flash, current>>,
           \A h \in Installed' : IsInFlash(h) => h \in Installed
    PROVE  HandlersKept'
BY DEF HandlersKept, Kept, Intact

\* What is installed and in flash is stored code.
LEMMA InstalledInFlash ==
    ASSUME TypeOK, NEW h \in Installed, IsInFlash(h)
    PROVE  h \in Handlers \cup {Ram(e) : e \in Exprs} /\ h \in Stored
<1>1. \A i \in DOMAIN conditions : conditions[i] \in Stored \cup {Torn}
  BY DEF TypeOK, TablesOK
<1>2. Conditions \subseteq Stored \cup {Torn}
  BY <1>1 DEF Conditions
<1>3. h \in Handlers \cup {Ram(e) : e \in Exprs}
  BY <1>2, HandlerKinds DEF Installed, TypeOK, TablesOK, EvalOK, Frames
<1>4. QED
  BY <1>3, HandlerKinds

\* No action lets an installed handler lie above current, or be programmed over: a
\* page below current is not written until lio_stop has emptied every table.
LEMMA HandlersKeptStep ==
    ASSUME TypeOK, FrameWellFormed, HandlersKept, FailedRunHalts, Next
    PROVE  HandlersKept'
<1> USE DEF FrameWellFormed, At
<1>1. SUFFICES ASSUME ~stopped' PROVE HandlersKept'
  BY DEF HandlersKept
<1>2. CASE StartRun
  <2>1. Halted /\ running = None /\ frame = NoFrame
    BY <1>2 DEF StartRun, FailedRunHalts
  <2>2. \A h \in Installed' : h \in {None, LedTask}
    BY <1>2, <2>1 DEF StartRun, Installed, Conditions, Halted, NoFrame, eval, Queue
  <2>3. QED
    BY <2>2, HandlerKinds DEF HandlersKept
<1>3. CASE TimerInterrupt \/ UsbTask \/ TextEnd \/ EvalEnd \/ RunfileWritten \/ While
           \/ WhileEnd \/ NextExpression \/ Import
  <2>1. UNCHANGED <<tables, flash, running, frame>>
    BY <1>3 DEF TimerInterrupt, UsbTask, TextEnd, EvalEnd, RunfileWritten, While, WhileEnd,
       NextExpression, Import, eval
  <2>2. QED
    BY <2>1 DEF HandlersKept, Installed, Conditions, Kept, Intact, tables
<1>4. CASE TimerSlot
  <2>1. tasks[isr].handler \in Handlers /\ tasks[isr].handler \in Installed
    BY <1>4 DEF TimerSlot, TypeOK, TablesOK, InterruptOK, Slots, Installed
  <2>2. triggered' # triggered => /\ IsInFlash(tasks[isr].handler)
                                 /\ AddTriggered(tasks[isr].handler)
    BY <1>4 DEF TimerSlot
  <2>3. \A i \in Queue : triggered'[i] \in Installed
    BY <2>1, <2>2, AddTriggeredType, HandlerKinds DEF Installed, TypeOK, TablesOK
  <2>4. Installed' \subseteq Installed
    BY <1>4, <2>3 DEF TimerSlot, Installed, Conditions, eval
  <2>5. QED
    BY <1>1, <1>4, <2>4, SameHandlers DEF TimerSlot
<1>5. CASE TimerCondition
  <2>1. icond \in DOMAIN conditions
    BY <1>5 DEF TimerCondition, TypeOK, TablesOK, InterruptOK
  <2>2. conditions[icond] \in Installed
    BY <2>1 DEF Installed, Conditions
  <2>3. triggered' # triggered => /\ IsInFlash(conditions[icond])
                                 /\ AddTriggered(conditions[icond])
    BY <1>5 DEF TimerCondition
  <2>4. \A i \in Queue : triggered'[i] \in Installed
    BY <2>2, <2>3, AddTriggeredType, InstalledInFlash DEF Installed, TypeOK, TablesOK
  <2>5. Installed' \subseteq Installed
    BY <1>5, <2>4 DEF TimerCondition, Installed, Conditions, eval
  <2>6. QED
    BY <1>1, <1>5, <2>5, SameHandlers DEF TimerCondition
<1>6. CASE Boot \/ CheckRunfileChanged \/ Failure \/ RunawayStop \/ ReadAdc
  <2>1. CASE LioStop
    BY <1>1, <2>1 DEF LioStop
  <2>2. CASE ~LioStop
    <3>1. UNCHANGED <<tasks, triggered, conditions, devices, references, current, stopped,
                      flash, running, frame>>
      BY <1>6, <2>2 DEF Boot, CheckRunfileChanged, Failure, RunawayStop, ReadAdc, tables, eval
    <3>2. QED
      BY <3>1 DEF HandlersKept, Installed, Conditions, Kept, Intact
  <2>3. QED
    BY <2>1, <2>2
<1>7. CASE PerformTriggeredTask
  <2>1. UNCHANGED <<triggered, eval>> \/ \E i \in Queue : /\ triggered' = [triggered EXCEPT ![i] = None]
                                                       /\ running' = triggered[i]
    BY <1>7 DEF PerformTriggeredTask, First, FreeEntries, Evaluate
  <2>2. running' \in Installed /\ \A i \in Queue : triggered'[i] \in Installed \cup {None}
    BY <2>1 DEF Installed, TypeOK, TablesOK, eval
  <2>3. Installed' \subseteq Installed \cup {None}
    BY <1>7, <2>2 DEF PerformTriggeredTask, Evaluate, Installed, Conditions
  <2>4. ~stopped /\ UNCHANGED <<flash, current>>
    BY <1>1, <1>7 DEF PerformTriggeredTask, Evaluate
  <2>5. QED
    BY <2>3, <2>4, SameHandlers, HandlerKinds
<1>8. CASE DeviceFile
  <2>1. Installed' \subseteq Installed
    BY <1>8 DEF DeviceFile, Evaluate, Installed, Conditions, tables
  <2>2. QED
    BY <1>1, <1>8, <2>1, SameHandlers DEF DeviceFile, Evaluate, tables
<1>9. CASE LinkCondition
  <2>1. frame'.body \in Bodies
    BY <1>9 DEF LinkCondition
  <2>2. \A i \in DOMAIN conditions' : conditions'[i] \in Conditions \cup {Torn}
    BY <1>9 DEF LinkCondition, Conditions, TypeOK, TablesOK
  <2>3. \A h \in Installed' : IsInFlash(h) => h \in Installed
    BY <1>9, <2>1, <2>2, HandlerKinds
    DEF LinkCondition, Installed, Conditions, Bodies, Resident, eval
  <2>4. QED
    BY <1>1, <1>9, <2>3, SameHandlers DEF LinkCondition
<1>10. CASE FillCondition \/ AttachDeviceHandler \/ Defvar
  <2>1. Installed' \subseteq Installed \cup {None}
    BY <1>10 DEF FillCondition, AttachDeviceHandler, Defvar, Installed, Conditions, NoFrame,
       TypeOK, TablesOK, eval
  <2>2. QED
    BY <1>1, <1>10, <2>1, SameHandlers, HandlerKinds
    DEF FillCondition, AttachDeviceHandler, Defvar
<1>11. CASE Every \/ FinishRun
  <2>1. PICK f \in {frame, [kind |-> "check", body |-> ConditionsCheck,
                            every |-> CheckPeriod, slot |-> 0]} : SchedulerAdd(f)
    BY <1>11 DEF Every, FinishRun
  <2>2. tasks' = tasks \/ \E i \in Slots : tasks' = [tasks EXCEPT ![i].handler = Torn]
    BY <2>1 DEF SchedulerAdd, First, FreeSlots
  <2>3. \A i \in Slots : tasks'[i].handler \in {tasks[i].handler, Torn}
    BY <2>2 DEF TypeOK, TablesOK
  <2>4. frame' = NoFrame \/ \E i \in Slots : frame' = [f EXCEPT !.slot = i]
    BY <2>1 DEF SchedulerAdd, First, FreeSlots
  <2>5. frame'.body \in {None, f.body}
    BY <2>1, <2>4 DEF NoFrame, TypeOK, Frames
  <2>6. Installed' \subseteq Installed \cup {None, Torn, ConditionsCheck}
    BY <2>1, <2>3, <2>5 DEF SchedulerAdd, Installed, Conditions, eval
  <2>7. QED
    BY <1>1, <2>1, <2>6, SameHandlers, HandlerKinds DEF SchedulerAdd
<1>12. CASE DeleteSchedule
  <2>1. \A i \in Slots : tasks'[i].handler \in {tasks[i].handler, Torn}
    BY <1>12 DEF DeleteSchedule, TypeOK, TablesOK
  <2>2. Installed' \subseteq Installed \cup {None, Torn}
    BY <1>12, <2>1 DEF DeleteSchedule, Installed, Conditions, eval
  <2>3. QED
    BY <1>1, <1>12, <2>2, SameHandlers, HandlerKinds DEF DeleteSchedule
<1>13. CASE WriteHandler \/ WriteEvery
  <2>1. \A i \in Slots : tasks'[i].handler \in {tasks[i].handler, frame.body}
    <3>1. CASE WriteHandler
      BY <3>1 DEF WriteHandler, TypeOK, TablesOK
    <3>2. CASE WriteEvery
      BY <3>2 DEF WriteEvery, TypeOK, TablesOK
    <3>3. QED
      BY <1>13, <3>1, <3>2
  <2>2. Installed' \subseteq Installed \cup {None}
    BY <1>13, <2>1 DEF WriteHandler, WriteEvery, Installed, Conditions, NoFrame, eval
  <2>3. QED
    BY <1>1, <1>13, <2>2, SameHandlers, HandlerKinds DEF WriteHandler, WriteEvery
<1>14. CASE Close
  <2>1. CASE LioStop
    BY <1>1, <2>1 DEF LioStop
  <2>2. CASE ~LioStop
    <3>1. UNCHANGED <<tasks, triggered, conditions, devices, references, current, stopped,
                      flash, frame>> /\ running' = None
      BY <1>14, <2>2 DEF Close, CloseRun, CloseHandler, StopAgain, tables
    <3>2. Installed' \subseteq Installed \cup {None}
      BY <3>1 DEF Installed, Conditions
    <3>3. QED
      BY <1>1, <3>1, <3>2, SameHandlers, HandlerKinds
  <2>3. QED
    BY <2>1, <2>2
<1>15. CASE StoreBody
  <2>1. PICK f \in Frames :
          /\ StoreExpression(f) /\ f.body.code \in Exprs
          /\ f.body \in Resident \cup {Ram(e) : e \in Exprs} \cup {frame.body}
    BY <1>15, StoreBodyArguments
  <2>2. CASE IsInFlash(f.body) /\ frame' = f /\ UNCHANGED <<tables, flash>>
    <3>1. f.body \in Installed
      BY <2>1, <2>2, HandlerKinds DEF Resident, Installed
    <3>2. Installed' \subseteq Installed
      BY <2>1, <2>2, <3>1 DEF StoreExpression, Installed, Conditions, tables, eval
    <3>3. QED
      BY <1>1, <2>2, <3>2, SameHandlers DEF tables
  <2>3. CASE LioStop
    BY <1>1, <2>3 DEF LioStop
  <2>4. CASE /\ frame' = [f EXCEPT !.body = [page |-> current, code |-> f.body.code]]
             /\ flash' = Programmed(f.body.code)
             /\ current + PagesOf[f.body.code] <= NumPages
             /\ current' = current + PagesOf[f.body.code]
             /\ UNCHANGED <<tasks, triggered, conditions, devices, references, stopped>>
    <3>1. frame'.body = [page |-> current, code |-> f.body.code]
      BY <2>4 DEF Frames
    <3>2. Installed' \subseteq Installed \cup {frame'.body}
      BY <2>1, <2>4 DEF StoreExpression, Installed, Conditions, eval
    <3>3. current \in Nat /\ current' \in Nat /\ current <= current'
      BY <2>1, <2>4, ExprsAssumption DEF TypeOK, TablesOK, Pages
    <3>4. \A p \in Pages : p < current => flash'[p] = flash[p]
      BY <2>4, <3>3 DEF Programmed, Pages
    <3>5. ASSUME NEW h \in Installed, IsInFlash(h) PROVE Kept(h)'
      BY <1>1, <2>4, <3>3, <3>4, <3>5, InstalledInFlash, KeptStable DEF HandlersKept
    <3>6. Kept(frame.body)'
      BY <2>1, <2>4, <3>1, ProgrammedKept
    <3>7. QED
      BY <3>2, <3>5, <3>6 DEF HandlersKept
  <2>5. QED
    BY <2>1, <2>2, <2>3, <2>4, StoreExpressionCases
<1>16. QED
  BY <1>2, <1>3, <1>4, <1>5, <1>6, <1>7, <1>8, <1>9, <1>10, <1>11, <1>12, <1>13, <1>14,
     <1>15 DEF Next, Interrupt, Control, Install, Choice

-----------------------------------------------------------------------------
(***************************************************************************)
(* The theorems                                                            *)
(***************************************************************************)
\* A step that changes nothing keeps the invariant.
LEMMA IInvStutter == IInv /\ UNCHANGED vars => IInv'
<1> SUFFICES ASSUME IInv, UNCHANGED vars PROVE IInv'
  OBVIOUS
<1> USE DEF vars, tables, interrupt, eval, host, history
<1>1. TypeOK'
  BY DEF IInv, TypeOK, TablesOK, InterruptOK, EvalOK, HostOK, HistoryOK
<1>2. FrameWellFormed' /\ Shielded' /\ NothingAfterFailure'
  BY DEF IInv, FrameWellFormed, Shielded, NothingAfterFailure, InRun
<1>3. HandlersKept' /\ FailedRunHalts'
  BY DEF IInv, HandlersKept, Installed, Conditions, Kept, Intact, FailedRunHalts, Halted
<1>4. QED
  BY <1>1, <1>2, <1>3 DEF IInv

\* IInv is an invariant of the runtime, whatever the sizes of its tables.
THEOREM Invariance == Spec => []IInv
<1>1. IInv /\ [Next]_vars => IInv'
  <2>1. ASSUME IInv, Next PROVE IInv'
    BY <2>1, TypeStep, FrameWellFormedStep, ShieldedStep, HaltStep, HandlersKeptStep DEF IInv
  <2>2. QED
    BY <2>1, IInvStutter
<1>2. QED
  BY InitIInv, <1>1, PTL DEF Spec

\* Every variable keeps its type; in particular the trigger queue, the devices and
\* the functions never hold anything but stored code.
THEOREM TypeCorrect == Spec => []TypeOK
BY Invariance, PTL DEF IInv

\* store_expression never programs a page that an installed handler of the script
\* in force still uses: NoStaleHandler holds for every flash size and every mix of
\* bodies, runs, failures, imports and interrupts.
THEOREM StoredCodeIntact == Spec => []NoStaleHandler
<1>1. IInv => NoStaleHandler
  BY DEF IInv, HandlersKept, Kept, NoStaleHandler
<1>2. QED
  BY <1>1, Invariance, PTL

\* A failed run leaves lio halted, as the comment in runfile_changed promises.
THEOREM FailureHalts == Spec => []FailedRunHalts
BY Invariance, PTL DEF IInv

\* A torn pointer can be used only outside the cli of runfile_changed.
THEOREM TornUseUnshielded == Spec => TornOnlyUnshielded
<1>1. IInv /\ [Next]_vars => [wild' /\ ~wild => ~InRun \/ adcRead \/ stopped]_vars
  <2>1. ASSUME IInv, Next, wild' # wild PROVE isr > 0
    BY <2>1 DEF Next, Interrupt, Control, Install, Choice, TimerInterrupt, TimerSlot,
       TimerCondition, Boot, UsbTask, CheckRunfileChanged, StartRun, PerformTriggeredTask,
       Evaluate, TextEnd, EvalEnd, RunawayStop, Close, CloseRun, CloseHandler,
       FillCondition, AttachDeviceHandler, Defvar, Every, FinishRun, SchedulerAdd,
       WriteHandler, WriteEvery, RunfileWritten, DeviceFile, NextExpression, Failure, While,
       WhileEnd, ReadAdc, Import, LinkCondition, DeleteSchedule, StoreBody,
       StoreExpression, history
  <2>2. ASSUME IInv, isr > 0 PROVE ~InRun \/ adcRead \/ stopped
    BY <2>2 DEF IInv, FrameWellFormed, Shielded
  <2>3. QED
    BY <2>1, <2>2
<1>2. QED
  BY <1>1, Invariance, PTL DEF Spec, TornOnlyUnshielded

\* add_triggered_task fills a free entry or drops the trigger: no entry changes that
\* was in use.
LEMMA AddTriggeredKeeps ==
    ASSUME triggered \in [Queue -> Stored \cup {None}], NEW h, AddTriggered(h),
           NEW i \in Queue, triggered[i] # None
    PROVE  triggered'[i] = triggered[i]
BY DEF AddTriggered, First, FreeEntries

\* No trigger is lost once it is in the queue, for every size of the queue.
THEOREM TriggersKept == Spec => PendingKept
<1>1. ASSUME IInv, Next, NEW i \in Queue, triggered[i] # None
      PROVE  \/ triggered'[i] = triggered[i]
             \/ triggered'[i] = None /\ (running' = triggered[i] \/ stopped')
  <2> USE <1>1
  <2>1. triggered \in [Queue -> Stored \cup {None}]
    BY DEF IInv, TypeOK, TablesOK
  <2>2. CASE LioStop
    BY <2>2 DEF LioStop
  <2>3. CASE TimerSlot
    BY <2>1, <2>3, AddTriggeredKeeps DEF TimerSlot
  <2>4. CASE TimerCondition
    BY <2>1, <2>4, AddTriggeredKeeps DEF TimerCondition
  <2>5. CASE PerformTriggeredTask
    BY <2>1, <2>5 DEF PerformTriggeredTask, Evaluate
  <2>6. CASE UNCHANGED triggered
    BY <2>6
  <2>7. QED
    BY <2>2, <2>3, <2>4, <2>5, <2>6
    DEF Next, Interrupt, Control, Install, Choice, TimerInterrupt, Boot, UsbTask,
       CheckRunfileChanged, StartRun, TextEnd, EvalEnd, RunawayStop, Close, CloseRun,
       CloseHandler, StopAgain, FillCondition, AttachDeviceHandler, Defvar, Every,
       FinishRun, SchedulerAdd, WriteHandler, WriteEvery, RunfileWritten, DeviceFile,
       NextExpression, Failure, While, WhileEnd, ReadAdc, Import, LinkCondition,
       DeleteSchedule, StoreBody, StoreExpression, tables
<1>2. IInv /\ [Next]_vars
      => [\A i \in Queue : triggered[i] # None =>
             \/ triggered'[i] = triggered[i]
             \/ triggered'[i] = None /\ (running' = triggered[i] \/ stopped')]_vars
  BY <1>1
<1>3. QED
  BY <1>2, Invariance, PTL DEF Spec, PendingKept
=============================================================================
