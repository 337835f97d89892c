------------------------------- MODULE Runtime -------------------------------
(***************************************************************************)
(* The lio runtime of phatIO: the RUN.LIO life cycle (lio_run.c), the      *)
(* handlers a script installs (scheduler.c, lio_conditions.c, disk.c), the *)
(* flash area their code is kept in, and the two threads of control that   *)
(* share them: the main loop of phatio.c and the 1 ms timer interrupt.     *)
(*                                                                         *)
(* A script is any sequence of builtin calls: the model does not parse it, *)
(* it lets every evaluation call any builtin of Builtins, fail at any      *)
(* point, and end at any point.                                            *)
(***************************************************************************)
EXTENDS Naturals, Sequences, FiniteSets

CONSTANTS
    MaxScheduled,   \* MAX_SCHEDULED, slots of the schedule
    MaxTriggered,   \* MAX_TRIGGERED, slots of the trigger queue
    NumPages,       \* SPM pages between START_FLASH and END_FLASH
    Exprs,          \* the bodies a script can install
    PagesOf,        \* PagesOf[e]: SPM pages that body e takes
    Periods,        \* periods (ms) a script passes to (every)
    LedPeriod,      \* period of led_task
    CheckPeriod,    \* period of conditions_check
    ClockMod,       \* bound: _timeSinceStart counted modulo a common multiple
    RunawayLimit,   \* ms a guarded evaluation may take
    Debounce,       \* ms without a write before RUN.LIO is run
    MaxConditions,  \* bound on the conditions the heap has room for
    MaxImports,     \* bound on the nesting of (import)
    Builtins        \* the builtins scripts call

Kinds == {"every", "condition", "driver", "defvar"}

ASSUME SizesAssumption ==
    /\ MaxScheduled \in Nat \ {0, 1} /\ MaxTriggered \in Nat \ {0}
    /\ NumPages \in Nat \ {0} /\ ClockMod \in Nat \ {0}
    /\ RunawayLimit \in Nat /\ Debounce \in Nat
    /\ MaxConditions \in Nat /\ MaxImports \in Nat
ASSUME ExprsAssumption ==
    /\ PagesOf \in [Exprs -> Nat \ {0}]
    /\ Exprs \cap {"none", "led", "check", "torn"} = {}
ASSUME PeriodsAssumption ==
    /\ Periods \subseteq Nat
    /\ LedPeriod \in Nat \ {0} /\ CheckPeriod \in Nat \ {0}

(***************************************************************************)
(* A handler is a C pointer: is_in_flash (page > 0) tells stored script    *)
(* code from a C function. Torn is a pointer of which only one byte has    *)
(* been stored, or the pointer of a condition not yet filled in.           *)
(***************************************************************************)
Pages == 1..NumPages
Ram(e) == [page |-> 0, code |-> e]
None == Ram("none")
LedTask == Ram("led")
ConditionsCheck == Ram("check")
Torn == Ram("torn")
Stored == [page : Pages, code : Exprs]
Handlers == Stored \cup {None, LedTask, ConditionsCheck, Torn}
IsInFlash(h) == h.page > 0

Slots == 1..MaxScheduled
Queue == 1..MaxTriggered
Part(e, k) == [body |-> e, part |-> k]
NoFrame == [kind |-> "none", body |-> None, every |-> 0, slot |-> 0]

VARIABLES
    tasks,          \* slot -> [handler, every]; every survives scheduler_clear
    triggered,      \* triggered_tasks
    conditions,     \* the actions of the pin conditions, in list order
    devices,        \* the handlers of the device files
    references,     \* the bodies of the script's functions
    flash,          \* page -> the part of the body it holds
    current,        \* next free page
    stopped,        \* lio_stopped
    ie,             \* the I flag: interrupts enabled
    isr,            \* 0, or the slot the timer interrupt looks at
    icond,          \* 0, or the condition conditions_check looks at
    clock,          \* _timeSinceStart % ClockMod
    pc,             \* where the main loop is
    ctx,            \* what it evaluates: "none", "boot", "run", "task", "device"
    running,        \* the stored handler it evaluates, or None
    frame,          \* the builtin in progress
    imports,        \* nesting of (import)
    guarded,        \* time_started # 0
    elapsed,        \* ms since time_started, up to RunawayLimit + 1
    cluster,        \* runfile_cluster # 0
    runfile_triggered,
    sinceWrite,     \* ms since last_write, up to Debounce + 1
    adcRead,        \* history: the run in progress has called read_adc
    wild,           \* history: an interrupt has used a torn pointer
    lastRun         \* history: "none", "ok" or "failed"

tables == <<tasks, triggered, conditions, devices, references, current, stopped, ie>>
interrupt == <<isr, icond, clock>>
eval == <<ctx, running, imports, guarded, elapsed>>
host == <<cluster, runfile_triggered, sinceWrite>>
history == <<adcRead, wild, lastRun>>
vars == <<tables, flash, interrupt, pc, frame, eval, host, history>>

(***************************************************************************)
(* The main loop is at one of these points:                                *)
(*   usb, check, perform    the three calls of main()'s loop               *)
(*   armed                  between lio_stop(0) and cli() of runfile_changed *)
(*   text                   between two top-level expressions of a file    *)
(*   eval                   between two builtin calls of an evaluation     *)
(*   linked, stored         inside a builtin: condition linked, body stored *)
(*   half, period           inside scheduler_add or scheduler_remove       *)
(*   spin                   in the loop of (while)                         *)
(*   finish, close          after the text of RUN.LIO                      *)
(***************************************************************************)
Points == {"boot", "usb", "check", "perform", "armed", "text", "eval",
           "linked", "stored", "half", "period", "spin", "finish", "close"}

Frames == [kind : Kinds \cup {"none", "delete", "check"},
           body : Handlers \cup {Ram(e) : e \in Exprs},
           every : Nat, slot : 0..MaxScheduled]

TablesOK ==
    /\ tasks \in [Slots -> [handler : Handlers, every : Nat]]
    /\ triggered \in [Queue -> Stored \cup {None}]
    /\ conditions \in Seq(Stored \cup {Torn})
    /\ devices \subseteq Stored /\ references \subseteq Stored
    /\ current \in Pages /\ stopped \in BOOLEAN /\ ie \in BOOLEAN

InterruptOK == isr \in 0..MaxScheduled /\ icond \in Nat /\ clock \in 0..(ClockMod - 1)

EvalOK ==
    /\ ctx \in {"none", "boot", "run", "task", "device"}
    /\ running \in Stored \cup {None}
    /\ imports \in 0..MaxImports
    /\ guarded \in BOOLEAN /\ elapsed \in 0..(RunawayLimit + 1)

HostOK ==
    /\ cluster \in BOOLEAN /\ runfile_triggered \in BOOLEAN
    /\ sinceWrite \in 0..(Debounce + 1)

HistoryOK ==
    adcRead \in BOOLEAN /\ wild \in BOOLEAN /\ lastRun \in {"none", "ok", "failed"}

TypeOK ==
    /\ TablesOK /\ InterruptOK /\ EvalOK /\ HostOK /\ HistoryOK
    /\ flash \in [Pages -> [body : Exprs \cup {"none"}, part : Nat]]
    /\ pc \in Points
    /\ frame \in Frames

Init ==
    /\ tasks = [i \in Slots |-> IF i = 1 THEN [handler |-> LedTask, every |-> LedPeriod]
                                         ELSE [handler |-> None, every |-> 0]]
    /\ triggered = [i \in Queue |-> None]
    /\ conditions = <<>> /\ devices = {} /\ references = {}
    /\ flash = [p \in Pages |-> Part("none", 0)]
    /\ current = 1 /\ stopped = FALSE /\ ie = FALSE
    /\ isr = 0 /\ icond = 0 /\ clock = 0
    /\ pc = "boot" /\ ctx = "none" /\ running = None /\ frame = NoFrame
    /\ imports = 0 /\ guarded = FALSE /\ elapsed = 0
    /\ cluster \in BOOLEAN /\ runfile_triggered = FALSE /\ sinceWrite = 0
    /\ adcRead = FALSE /\ wild = FALSE /\ lastRun = "none"

-----------------------------------------------------------------------------
(***************************************************************************)
(* scheduler.c and lio_run.c: the helpers                                  *)
(***************************************************************************)
Due(i) == /\ tasks[i].handler # None
          /\ tasks[i].every > 0  \* libgcc: n % 0 = n, which is not 0
          /\ (clock + (i - 1)) % tasks[i].every = 0

FreeSlots == {i \in Slots : tasks[i].handler = None}
FreeEntries == {i \in Queue : triggered[i] = None}
First(S) == {i \in S : \A j \in S : i <= j}

\* mutant: a trigger that finds no free entry replaces the first pending one
AddReplacing(h) ==
    \/ FreeEntries = {} /\ triggered' = [triggered EXCEPT ![1] = h]
    \/ \E i \in First(FreeEntries) : triggered' = [triggered EXCEPT ![i] = h]
\* add_triggered_task: the first free entry, or nothing when the queue is full
AddTriggered(h) ==
    \/ FreeEntries = {} /\ UNCHANGED triggered
    \/ \E i \in First(FreeEntries) : triggered' = [triggered EXCEPT ![i] = h]

\* scheduler_clear: the handlers go, the periods stay, led_task takes slot 1
ClearedTasks ==
    [i \in Slots |-> IF i = 1 THEN [handler |-> LedTask, every |-> LedPeriod]
                              ELSE [handler |-> None, every |-> tasks[i].every]]

ClearNothing == UNCHANGED references   \* mutant: references_clear is forgotten
ClearReferences == references' = {}

LioStop ==
    /\ stopped' = TRUE /\ current' = 1
    /\ devices' = {} /\ conditions' = <<>> /\ ClearReferences
    /\ triggered' = [i \in Queue |-> None]
    /\ tasks' = ClearedTasks
    /\ ie' = TRUE

\* store_expression of a body in RAM: its pages from current on, as far as
\* the flash area reaches; a body that ends at END_FLASH is refused too
FitsExactly(e) == current + PagesOf[e] <= NumPages + 1   \* mutant: > for >=
Fits(e) == current + PagesOf[e] <= NumPages
AdvanceOne(e) == current + 1   \* mutant: one page whatever the size
Advance(e) == current + PagesOf[e]
Programmed(e) ==
    [p \in Pages |-> IF p >= current /\ p < current + PagesOf[e]
                     THEN Part(e, p - current + 1) ELSE flash[p]]

Resident == references \cup ({running} \ {None})
InRam == ctx \in {"boot", "run"} \/ imports > 0
\* what store_expression may be called with: a list being evaluated from RAM,
\* or a list inside stored code that is being evaluated
Bodies == Resident \cup (IF InRam THEN {Ram(e) : e \in Exprs} ELSE {})

InRun == ctx \in {"boot", "run"}
NoRunaway == FALSE   \* mutant: the clock is never looked at
Runaway == guarded /\ elapsed > RunawayLimit
\* main runs only when no interrupt does
At(p) == pc = p /\ isr = 0
Call(b) == At("eval") /\ b \in Builtins /\ ~stopped /\ ~Runaway

StartGuard == guarded' = TRUE /\ elapsed' = 0
DropGuard == guarded' = FALSE /\ elapsed' = 0

-----------------------------------------------------------------------------
(***************************************************************************)
(* The timer interrupt: _timeSinceStart++, then the slots in order.  The   *)
(* main loop stands still while isr > 0.                                   *)
(***************************************************************************)
TimerInterrupt ==
    /\ isr = 0 /\ ie
    /\ isr' = 1
    /\ clock' = (clock + 1) % ClockMod
    /\ elapsed' = IF guarded /\ elapsed <= RunawayLimit THEN elapsed + 1 ELSE elapsed
    /\ sinceWrite' = IF runfile_triggered /\ sinceWrite <= Debounce
                     THEN sinceWrite + 1 ELSE sinceWrite
    /\ UNCHANGED <<tables, flash, icond, pc, frame, ctx, running, imports, guarded,
                   cluster, runfile_triggered, history>>

NextSlot == isr' = IF isr = MaxScheduled THEN 0 ELSE isr + 1

TimerSlot ==
    /\ isr > 0 /\ icond = 0
    /\ LET h == tasks[isr].handler
           checks == Due(isr) /\ h = ConditionsCheck /\ conditions # <<>>
       IN  /\ IF Due(isr) /\ IsInFlash(h) THEN AddTriggered(h) ELSE UNCHANGED triggered
           /\ wild' = (wild \/ (Due(isr) /\ h = Torn))
           /\ icond' = IF checks THEN 1 ELSE 0
           /\ IF checks THEN isr' = isr ELSE NextSlot
    /\ UNCHANGED <<tasks, conditions, devices, references, current, stopped, ie, flash,
                   clock, pc, frame, eval, host, adcRead, lastRun>>

\* conditions_check, one condition: its pin has done what it waits for, or not
TimerCondition ==
    /\ isr > 0 /\ icond > 0
    /\ LET h == conditions[icond]
       IN  \/ /\ IsInFlash(h)
              /\ AddTriggered(h)
              /\ UNCHANGED wild
           \/ /\ h = Torn
              /\ wild' = TRUE
              /\ UNCHANGED triggered
           \/ UNCHANGED <<triggered, wild>>
    /\ icond' = IF icond = Len(conditions) THEN 0 ELSE icond + 1
    /\ IF icond = Len(conditions) THEN NextSlot ELSE isr' = isr
    /\ UNCHANGED <<tasks, conditions, devices, references, current, stopped, ie, flash,
                   clock, pc, frame, eval, host, adcRead, lastRun>>

Interrupt == TimerInterrupt \/ TimerSlot \/ TimerCondition

-----------------------------------------------------------------------------
(***************************************************************************)
(* phatio.c and disk.c: start-up and the main loop                         *)
(***************************************************************************)
\* main: execute_runfile when the card was there, then usb_setup's sei
Boot ==
    /\ At("boot")
    /\ \/ /\ LioStop
          /\ pc' = "armed" /\ ctx' = "boot"
       \/ /\ pc' = "usb" /\ ie' = TRUE
          /\ UNCHANGED <<tasks, triggered, conditions, devices, references, current,
                         stopped, ctx>>
    /\ UNCHANGED <<flash, interrupt, frame, running, imports, guarded, elapsed, host,
                   history>>

UsbTask ==
    /\ At("usb") /\ pc' = "check"
    /\ UNCHANGED <<tables, flash, interrupt, frame, eval, host, history>>

\* write_blocks of the io directory: has_watcher finds that RUN.LIO changed
RunfileWritten ==
    /\ At("usb") /\ pc' = "check"
    /\ runfile_triggered' = TRUE /\ cluster' = TRUE /\ sinceWrite' = 0
    /\ UNCHANGED <<tables, flash, interrupt, frame, eval, history>>

\* safe_evalexpressions of a stored handler
Evaluate(h, c) ==
    /\ pc' = "eval" /\ ctx' = c /\ running' = h /\ StartGuard
    /\ UNCHANGED <<flash, interrupt, frame, imports, host, history>>

\* has_handler: the host reads or writes a device file
DeviceFile ==
    /\ At("usb")
    /\ \E h \in devices : Evaluate(h, "device")
    /\ UNCHANGED tables

CheckRunfileOnce ==   \* mutant: the trigger is reset while the host still writes
    /\ At("check")
    /\ runfile_triggered' = FALSE
    /\ IF runfile_triggered /\ sinceWrite > Debounce
       THEN LioStop /\ pc' = "armed" /\ ctx' = "run"
       ELSE UNCHANGED <<tables, ctx>> /\ pc' = "perform"
    /\ UNCHANGED <<flash, interrupt, frame, running, imports, guarded, elapsed, cluster,
                   sinceWrite, history>>

CheckRunfileChanged ==
    /\ At("check")
    /\ IF runfile_triggered /\ sinceWrite > Debounce
       THEN LioStop /\ pc' = "armed" /\ ctx' = "run"
       ELSE UNCHANGED <<tables, ctx>> /\ pc' = "perform"
    /\ UNCHANGED <<flash, interrupt, frame, running, imports, guarded, elapsed, host,
                   history>>

NoCli == UNCHANGED ie   \* mutant: runfile_changed evaluates with interrupts on
Cli == ie' = FALSE

\* runfile_changed: cli, lio_stopped = false, and the text if there is a file
StartRun ==
    /\ At("armed")
    /\ Cli /\ stopped' = FALSE /\ adcRead' = FALSE
    /\ pc' = IF cluster THEN "text" ELSE "close"
    /\ UNCHANGED <<tasks, triggered, conditions, devices, references, current, flash,
                   interrupt, frame, eval, host, wild, lastRun>>

NoSei == UNCHANGED ie   \* mutant: no sei after the queue has been read
Sei == ie' = TRUE

PerformTriggeredTask ==
    /\ At("perform") /\ Sei
    /\ \/ /\ FreeEntries = Queue
          /\ pc' = "usb"
          /\ UNCHANGED <<triggered, flash, interrupt, frame, eval, host, history>>
       \/ \E i \in First(Queue \ FreeEntries) :
             /\ triggered' = [triggered EXCEPT ![i] = None]
             /\ Evaluate(triggered[i], "task")
    /\ UNCHANGED <<tasks, conditions, devices, references, current, stopped>>

-----------------------------------------------------------------------------
(***************************************************************************)
(* lio.c: the evaluation of a text and of a stored handler                 *)
(***************************************************************************)
\* eval_text: the next expression is read and safe_eval called
NextExpression ==
    /\ At("text") /\ ~stopped
    /\ pc' = "eval" /\ StartGuard
    /\ UNCHANGED <<tables, flash, interrupt, frame, ctx, running, imports, host, history>>

\* eval_text: end of file, or next_expression returns 0 because of a stop
TextEnd ==
    /\ At("text")
    /\ IF imports > 0 THEN imports' = imports - 1 /\ pc' = "eval"
                      ELSE pc' = "finish" /\ UNCHANGED imports
    /\ UNCHANGED <<tables, flash, interrupt, frame, ctx, running, guarded, elapsed, host,
                   history>>

\* the expression is done: safe_eval clears time_started
EvalEnd ==
    /\ At("eval") /\ DropGuard
    /\ pc' = IF InRam THEN "text" ELSE "close"
    /\ UNCHANGED <<tables, flash, interrupt, frame, ctx, running, imports, host, history>>

\* lio_stop(message) out of a builtin, an argument of one, the reader or the parser
Failure ==
    /\ \E p \in {"text", "eval", "linked", "stored"} : At(p)
    /\ ~stopped
    /\ pc = "stored" => frame.kind \in {"every", "driver"}
    /\ LioStop
    /\ UNCHANGED <<flash, interrupt, pc, frame, eval, host, history>>

\* continue_evaluating: more than RunawayLimit ms since time_started
RunawayStop ==
    /\ At("eval") \/ At("spin")
    /\ Runaway
    /\ LioStop /\ pc' = "eval"
    /\ UNCHANGED <<flash, interrupt, frame, eval, host, history>>

\* (while): the loop's test and body only compute
While ==
    /\ Call("while") /\ pc' = "spin"
    /\ UNCHANGED <<tables, flash, interrupt, frame, eval, host, history>>

WhileEnd ==
    /\ At("spin") /\ pc' = "eval"
    /\ UNCHANGED <<tables, flash, interrupt, frame, eval, host, history>>

\* read_adc: sei after a conversion, but not on the return for a pin without one
ReadAdc ==
    /\ \/ Call("adc")
       \/ /\ At("linked") \/ (At("stored") /\ frame.kind \in {"every", "driver"})
          /\ "adc" \in Builtins /\ ~stopped
    /\ ie' \in BOOLEAN
    /\ adcRead' = TRUE
    /\ UNCHANGED <<tasks, triggered, conditions, devices, references, current, stopped,
                   flash, interrupt, pc, frame, eval, host, wild, lastRun>>

\* (import): eval_text on another file, inside the present expression
Import ==
    /\ Call("import") /\ imports < MaxImports
    /\ imports' = imports + 1 /\ pc' = "text"
    /\ UNCHANGED <<tables, flash, interrupt, frame, ctx, running, guarded, elapsed, host,
                   history>>

-----------------------------------------------------------------------------
(***************************************************************************)
(* The builtins that install a handler                                     *)
(***************************************************************************)
\* new_digital_condition: the condition is linked before its action is stored
LinkCondition ==
    /\ Call("condition") /\ Len(conditions) < MaxConditions
    /\ conditions' = Append(conditions, Torn)
    /\ \E b \in Bodies : frame' = [kind |-> "condition", body |-> b, every |-> 0,
                                   slot |-> 0]
    /\ pc' = "linked"
    /\ UNCHANGED <<tasks, triggered, devices, references, current, stopped, ie, flash,
                   interrupt, eval, host, history>>

\* store_expression(f.body)
StoreExpression(f) ==
    /\ pc' = "stored"
    /\ IF IsInFlash(f.body)
       THEN frame' = f /\ UNCHANGED <<tables, flash>>
       ELSE LET e == f.body.code
            IN  /\ frame' = [f EXCEPT !.body = [page |-> current, code |-> e]]
                /\ flash' = Programmed(e)
                /\ IF Fits(e)
                   THEN /\ current' = Advance(e)
                        /\ UNCHANGED <<tasks, triggered, conditions, devices, references,
                                       stopped, ie>>
                   ELSE LioStop
    /\ UNCHANGED <<interrupt, eval, host, history>>

\* every, driver and defvar store the body first; a condition's is stored now
StoreBody ==
    \/ \E k \in Kinds \ {"condition"}, b \in Bodies :
          \E p \in (IF k = "every" THEN Periods ELSE {0}) :
             /\ Call(k)
             /\ StoreExpression([kind |-> k, body |-> b, every |-> p, slot |-> 0])
    \/ At("linked") /\ StoreExpression(frame)

\* condition->action, unless a stop has emptied the list since it was linked
FillCondition ==
    /\ At("stored") /\ frame.kind = "condition"
    /\ conditions' = IF conditions = <<>> THEN conditions
                     ELSE [conditions EXCEPT ![Len(conditions)] = frame.body]
    /\ pc' = "eval" /\ frame' = NoFrame
    /\ UNCHANGED <<tasks, triggered, devices, references, current, stopped, ie, flash,
                   interrupt, eval, host, history>>

AttachDeviceHandler ==
    /\ At("stored") /\ frame.kind = "driver"
    /\ devices' = devices \cup {frame.body}
    /\ pc' = "eval" /\ frame' = NoFrame
    /\ UNCHANGED <<tasks, triggered, conditions, references, current, stopped, ie, flash,
                   interrupt, eval, host, history>>

Defvar ==
    /\ At("stored") /\ frame.kind = "defvar"
    /\ references' = references \cup {frame.body}
    /\ pc' = "eval" /\ frame' = NoFrame
    /\ UNCHANGED <<tasks, triggered, conditions, devices, current, stopped, ie, flash,
                   interrupt, eval, host, history>>

-----------------------------------------------------------------------------
(***************************************************************************)
(* scheduler_add and scheduler_remove, one AVR store at a time             *)
(***************************************************************************)
AfterSchedule(f) == IF f.kind = "check" THEN "close" ELSE "eval"

\* the first free slot gets the first byte of the pointer, or the table is full
SchedulerAdd(f) ==
    /\ \/ /\ FreeSlots = {}
          /\ pc' = AfterSchedule(f)
          /\ frame' = NoFrame /\ UNCHANGED tasks
       \/ \E i \in First(FreeSlots) :
             /\ pc' = "half"
             /\ frame' = [f EXCEPT !.slot = i]
             /\ tasks' = [tasks EXCEPT ![i].handler = Torn]
    /\ UNCHANGED <<triggered, conditions, devices, references, current, stopped, ie, flash,
                   interrupt, eval, host, history>>

Every == At("stored") /\ frame.kind = "every" /\ SchedulerAdd(frame)

\* end of runfile_changed's text: scheduler_add(5, conditions_check)
FinishRun ==
    /\ At("finish")
    /\ SchedulerAdd([kind |-> "check", body |-> ConditionsCheck, every |-> CheckPeriod,
                     slot |-> 0])

\* scheduler_remove(i + 1): the first byte of the pointer goes
DeleteSchedule ==
    /\ Call("delete")
    /\ \E i \in Slots :
          /\ frame' = [kind |-> "delete", body |-> None, every |-> 0, slot |-> i]
          /\ tasks' = IF tasks[i].handler = None THEN tasks
                      ELSE [tasks EXCEPT ![i].handler = Torn]
    /\ pc' = "half"
    /\ UNCHANGED <<triggered, conditions, devices, references, current, stopped, ie, flash,
                   interrupt, eval, host, history>>

WriteHandler ==
    /\ At("half")
    /\ tasks' = [tasks EXCEPT ![frame.slot].handler = frame.body]
    /\ pc' = "period"
    /\ UNCHANGED <<triggered, conditions, devices, references, current, stopped, ie, flash,
                   interrupt, frame, eval, host, history>>

WriteEvery ==
    /\ At("period")
    /\ tasks' = [tasks EXCEPT ![frame.slot].every = frame.every]
    /\ pc' = AfterSchedule(frame) /\ frame' = NoFrame
    /\ UNCHANGED <<triggered, conditions, devices, references, current, stopped, ie, flash,
                   interrupt, eval, host, history>>

StopIgnored ==   \* mutant: runfile_changed does not look at lio_stopped
    UNCHANGED <<tasks, triggered, conditions, devices, references, current, stopped>>
StopAgain ==
    IF stopped THEN LioStop
    ELSE UNCHANGED <<tasks, triggered, conditions, devices, references, current, stopped>>

\* the end of runfile_changed: a run that was stopped is stopped once more
CloseRun ==
    /\ InRun /\ ie' = TRUE
    /\ StopAgain
    /\ lastRun' = IF stopped THEN "failed" ELSE "ok"
    /\ runfile_triggered' = (runfile_triggered /\ ctx = "boot")
    /\ pc' = IF ctx = "boot" THEN "usb" ELSE "perform"
    /\ sinceWrite' = 0
    /\ UNCHANGED <<flash, cluster, wild>>

\* the end of safe_evalexpressions: back in has_handler or in main's loop
CloseHandler ==
    /\ ~InRun
    /\ pc' = IF ctx = "device" THEN "check" ELSE "usb"
    /\ UNCHANGED <<tables, flash, host, wild, lastRun>>

Close ==
    /\ At("close")
    /\ CloseRun \/ CloseHandler
    /\ ctx' = "none" /\ running' = None /\ adcRead' = FALSE
    /\ UNCHANGED <<interrupt, frame, imports, guarded, elapsed>>

-----------------------------------------------------------------------------
Control == Boot \/ UsbTask \/ CheckRunfileChanged \/ StartRun \/ PerformTriggeredTask
           \/ TextEnd \/ EvalEnd \/ RunawayStop \/ Close
Install == StoreBody \/ FillCondition \/ AttachDeviceHandler \/ Defvar
           \/ Every \/ FinishRun \/ WriteHandler \/ WriteEvery
Choice == RunfileWritten \/ DeviceFile \/ NextExpression \/ Failure \/ While \/ WhileEnd
          \/ ReadAdc \/ Import \/ LinkCondition \/ DeleteSchedule

Next == Interrupt \/ Control \/ Install \/ Choice

Spec == Init /\ [][Next]_vars

-----------------------------------------------------------------------------
(***************************************************************************)
(* Safety                                                                  *)
(***************************************************************************)
Conditions == {conditions[i] : i \in DOMAIN conditions}
Installed == {tasks[i].handler : i \in Slots} \cup {triggered[i] : i \in Queue}
             \cup Conditions \cup devices \cup references \cup {running, frame.body}
Intact(h) == \A p \in Pages : p >= h.page /\ p < h.page + PagesOf[h.code]
                              => flash[p] = Part(h.code, p - h.page + 1)

\* While lio runs, every pointer into the flash area that the schedule, the queue,
\* the conditions, the devices, the functions, the running handler or the builtin
\* in progress holds points at the code that was stored for it: store_expression
\* never programs a page that a handler of this script still uses.
NoStaleHandler == ~stopped => \A h \in Installed : IsInFlash(h) => Intact(h)

Halted ==
    /\ stopped /\ current = 1
    /\ \A i \in Slots : tasks[i].handler = IF i = 1 THEN LedTask ELSE None
    /\ \A i \in Queue : triggered[i] = None
    /\ conditions = <<>> /\ devices = {} /\ references = {}

\* "ensure lio halted if evaluation fails": after a run of RUN.LIO that failed, and
\* when the next one begins, nothing of the old script is installed, whatever the
\* builtin that failed went on to install after its lio_stop.
FailedRunHalts == pc = "armed" \/ (lastRun = "failed" /\ ctx = "none") => Halted

\* The timer interrupt uses a half-written pointer only outside the protection of
\* runfile_changed's cli: in a handler, after read_adc's sei or after lio_stop's.
TornOnlyUnshielded == [][wild' /\ ~wild => ~InRun \/ adcRead \/ stopped]_vars

\* A queued trigger leaves the queue only by being evaluated or by a stop, and is
\* never replaced by another.
PendingKept ==
    [][\A i \in Queue : triggered[i] # None =>
          \/ triggered'[i] = triggered[i]
          \/ triggered'[i] = None /\ (running' = triggered[i] \/ stopped')]_vars

(***************************************************************************)
(* The inductive invariant of Runtime_proofs                               *)
(***************************************************************************)
\* The reason for NoStaleHandler: all that is installed lies below current.
Kept(h) == h.page + PagesOf[h.code] <= current /\ Intact(h)
HandlersKept == ~stopped => \A h \in Installed : IsInFlash(h) => Kept(h)

\* Where the registers of the evaluation are in use.
MainPoints == {"boot", "usb", "check", "perform"}
FrameWellFormed ==
    /\ pc \notin {"linked", "stored", "half", "period"} => frame = NoFrame
    /\ pc \in MainPoints <=> ctx = "none"
    /\ pc \in MainPoints \cup {"armed"} => running = None
    /\ pc = "linked" => frame.body.code \in Exprs
    /\ pc = "stored" => frame.body \in Stored
    /\ pc = "half" => frame.body \in Handlers
    /\ icond > 0 => isr > 0 /\ icond <= Len(conditions)
    /\ isr > 0 => ie

\* runfile_changed's cli covers the run until read_adc or lio_stop end it.
Shielded == InRun /\ ~stopped /\ ~adcRead => ~ie

\* After a failed run there is no handler left that could run.
NothingAfterFailure == lastRun = "failed" => ctx \notin {"task", "device"}

IInv == /\ TypeOK /\ FrameWellFormed /\ HandlersKept /\ Shielded
        /\ FailedRunHalts /\ NothingAfterFailure

(***************************************************************************)
(* Liveness.  Texts and handlers are finite, so an evaluation that is not  *)
(* in a (while) ends; the interrupt is latched, so that it is taken after  *)
(* a sei; and it takes less than the millisecond between two of them, so   *)
(* that the main loop is not starved.                                      *)
(***************************************************************************)
Fairness ==
    /\ SF_vars(Control \/ Install)
    /\ \A n \in 0..MaxImports :
          SF_vars(TextEnd /\ imports = n) /\ SF_vars(EvalEnd /\ imports = n)
    /\ SF_vars(TimerInterrupt) /\ WF_vars(TimerSlot \/ TimerCondition)

FairSpec == Spec /\ Fairness

\* A (while) under continue_evaluating's clock is stopped, if the interrupts that
\* advance the clock are on.
LoopStopped == (pc = "spin" /\ guarded /\ ie) ~> (pc # "spin")

\* Every (while) of a script ends: continue_evaluating stops a script that has run
\* for more than two seconds as "possible runaway script".
EveryLoopStopped == (pc = "spin") ~> (pc # "spin")

\* Interrupts that read_adc or runfile_changed turned off come back on, unless the
\* script loops.
InterruptsReturn == (~ie) ~> (ie \/ pc = "spin")

\* A change of RUN.LIO is followed by a run once the host stops writing, unless a
\* handler loops for ever.
RunfileRuns ==
    <>[][~RunfileWritten]_vars => (runfile_triggered ~> (ctx = "run" \/ pc = "spin"))
=============================================================================
