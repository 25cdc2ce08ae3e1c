-------------------------------- MODULE Timers --------------------------------
(***************************************************************************)
(* One of the three root counters (timers.rs) on the event queue, and the  *)
(* part of the main loop (main.rs) that drives both: at most one event is  *)
(* handled, then the guest runs a block, whose loads and stores see the    *)
(* clock stand still, then the clock advances by the length of the block.  *)
(*                                                                         *)
(* A counter is only brought up to date when it is accessed or a blanking  *)
(* interval starts; its interrupt is an event in the queue, predicted from *)
(* the counter whenever it is stored to and, for counter 0, whenever a     *)
(* horizontal blank ends.  The events of other devices, which take up      *)
(* rounds of their own, are left out.                                      *)
(***************************************************************************)
EXTENDS Scheduler

CONSTANTS
    Which,         \* which counter, 0 to 2
    Regular,       \* the blanking intervals' tasks, as init leaves them
    Top,           \* 0xFFFF
    Word,          \* 2^32, what a u32 wraps at
    Line,          \* LINE_DURATION
    DotDivider,    \* gpu.get_clock_divider
    CpuDivider,    \* the 8 of CpuDiv8
    Modes,         \* the modes the guest stores
    Stored,        \* the words it stores to the counter and the target
    Blocks,        \* how many cycles a block takes
    HBlankBound,   \* hblanks stops counting here
    ElapsedBound   \* no block ends later after the last update

ModeRecord == [sync_enabled : BOOLEAN, sync_mode : 0..3, reset_to_target : BOOLEAN,
               irq_target : BOOLEAN, irq_end : BOOLEAN, irq_repeat : BOOLEAN,
               irq_toggle : BOOLEAN, clock_src : 0..3, irq_disabled : BOOLEAN]

Blanks == {"HBlankStart", "HBlankEnd", "VBlankStart", "VBlankEnd"}
Events == Blanks \cup {"TimerPulse", "TimerToggle"}
TaskRecords == [event : Events, due : Int, repeat : Nat \cup {OneShot}]

ASSUME TimersAssumption ==
    /\ Which \in 0..2
    /\ Top \in Nat \ {0} /\ Word \in Nat /\ 2 * Top < Word
    /\ Line \in Nat \ {0} /\ DotDivider \in Nat \ {0} /\ CpuDivider \in Nat \ {0}
    /\ Stored \subseteq 0..(Word - 1) /\ Blocks \subseteq Nat \ {0}
    /\ HBlankBound \in Nat /\ ElapsedBound \in Nat
    /\ Modes \subseteq ModeRecord
    /\ Regular \in Seq([event : Blanks, due : Int, repeat : Nat])
    /\ \A i, j \in DOMAIN Regular : i < j =>
          Regular[i].due <= Regular[j].due /\ Regular[i].event # Regular[j].event

VARIABLES
    tasks,     \* the event queue
    counter, target, mode,
    elapsed,   \* cycles since the counter was brought up to date (last_read)
    in_hsync, in_vsync,
    hblanks,   \* horizontal blanks not yet counted
    guest,     \* is it the guest's turn
    overran    \* history: the last prediction was out of range

timerVars == <<counter, target, mode, elapsed>>
syncVars  == <<in_hsync, in_vsync, hblanks>>
vars == <<tasks, timerVars, syncVars, guest, overran>>

\* Mode(0).
NoMode == [sync_enabled |-> FALSE, sync_mode |-> 0, reset_to_target |-> FALSE,
           irq_target |-> FALSE, irq_end |-> FALSE, irq_repeat |-> FALSE,
           irq_toggle |-> FALSE, clock_src |-> 0, irq_disabled |-> FALSE]

Init ==
    /\ tasks = Regular
    /\ counter = 0 /\ target = 0 /\ mode = NoMode /\ elapsed = 0
    /\ in_hsync = FALSE /\ in_vsync = FALSE /\ hblanks = 0
    /\ guest = FALSE /\ overran = FALSE

-----------------------------------------------------------------------------
(* Modes and clocks.                                                       *)

SyncModeMatrix ==
    <<<<"PauseOnHSync", "ResetOnHSync", "HSyncOnly", "StartOnNextLine">>,
      <<"PauseOnVSync", "ResetOnVSync", "VSyncOnly", "StartOnNextFrame">>,
      <<"Paused", "FreeRun", "FreeRun", "Paused">>>>

SyncModeOf(m) ==
    IF m.sync_enabled THEN SyncModeMatrix[Which + 1][m.sync_mode + 1] ELSE "FreeRun"
SyncMode == SyncModeOf(mode)

ClockSourceMatrix ==
    <<<<"Cpu", "Dot", "Cpu", "Dot">>,
      <<"Cpu", "HBlank", "Cpu", "HBlank">>,
      <<"Cpu", "Cpu", "CpuDiv8", "CpuDiv8">>>>

ClockSource == ClockSourceMatrix[Which + 1][mode.clock_src + 1]

TicksToCycles(ticks) ==
    CASE ClockSource = "Cpu"     -> ticks
      [] ClockSource = "CpuDiv8" -> ticks * CpuDivider
      [] ClockSource = "Dot"     -> ticks * DotDivider
      [] ClockSource = "HBlank"  -> ticks * Line

\* The ticks to count: what a division leaves over is lost.
Delta ==
    CASE ClockSource = "Cpu"     -> elapsed
      [] ClockSource = "CpuDiv8" -> elapsed \div CpuDivider
      [] ClockSource = "Dot"     -> elapsed \div DotDivider
      [] ClockSource = "HBlank"  -> hblanks

Stopped(sync) ==
    \/ sync = "Paused"
    \/ sync = "PauseOnHSync" /\ in_hsync
    \/ sync = "PauseOnVSync" /\ in_vsync
    \/ sync = "HSyncOnly" /\ ~in_hsync
    \/ sync = "VSyncOnly" /\ ~in_vsync

Period(m, t) == (IF m.reset_to_target THEN t ELSE Top) + 1

\* update_value: the counter and the blanks left to count.  The flags that tell
\* the guest what the counter reached are left out: nothing else reads them.
Updated ==
    IF Stopped(SyncMode) THEN [counter |-> counter, hblanks |-> hblanks]
    ELSE [counter |-> (counter + Delta) % Period(mode, target),
          hblanks |-> IF ClockSource = "HBlank" THEN 0 ELSE hblanks]

\* A counter stored beyond its period: the prediction will underflow.
Overrun(c, m, t) == c > Period(m, t) + t

\* get_ticks_to_value, in u32 arithmetic.
TicksTo(value) ==
    CASE counter < value -> value - counter
      [] counter = value -> Period(mode, target)
      [] counter > value -> (Period(mode, target) - counter + value) % Word

TimerEvent == IF mode.irq_toggle THEN "TimerToggle" ELSE "TimerPulse"

TimerTask(value) ==
    Task(TimerEvent, TicksToCycles(TicksTo(value)),
         IF mode.irq_repeat THEN TicksToCycles(value) ELSE OneShot)

\* The interrupt the counter is heading for, if it is running and one is
\* enabled; of two, the sooner, and Top's when they fall together.
Prediction ==
    LET soonest(a, b) == IF a.due < b.due THEN a ELSE b IN
    CASE Stopped(SyncMode) \/ ~(mode.irq_target \/ mode.irq_end) -> {}
      [] OTHER ->
           {IF ~mode.irq_end THEN TimerTask(target)
            ELSE IF ~mode.irq_target THEN TimerTask(Top)
            ELSE soonest(TimerTask(target), TimerTask(Top))}

\* reschedule_interrupt_if_needed: without a prediction the queue keeps what
\* was predicted before.
Reschedule(queue, prediction) ==
    \/ prediction = {} /\ tasks' = queue
    \/ \E task \in prediction :
          tasks' = Schedule(queue, task.event, task.due, task.repeat)

-----------------------------------------------------------------------------
(* The events.                                                             *)

\* The task at the head is taken off the queue and its event handled.
Take(event) ==
    /\ ~guest /\ IsDue(tasks) /\ Head(tasks).event = event
    /\ guest' = TRUE

EnterVSync ==
    /\ Take("VBlankStart")
    /\ in_vsync' = TRUE
    /\ IF Which = 1
       THEN /\ counter' = IF SyncMode \in {"ResetOnVSync", "VSyncOnly"} THEN 0 ELSE Updated.counter
            /\ hblanks' = Updated.hblanks /\ elapsed' = 0
       ELSE UNCHANGED <<counter, hblanks, elapsed>>
    /\ tasks' = AfterNext(tasks)
    /\ UNCHANGED <<target, mode, in_hsync, overran>>

ExitVSync ==
    /\ Take("VBlankEnd")
    /\ in_vsync' = FALSE
    /\ mode' = IF SyncMode = "StartOnNextFrame" THEN [mode EXCEPT !.sync_enabled = FALSE] ELSE mode
    /\ tasks' = AfterNext(tasks)
    /\ UNCHANGED <<counter, target, elapsed, in_hsync, hblanks, overran>>

EnterHSync ==
    /\ Take("HBlankStart")
    /\ in_hsync' = TRUE
    /\ hblanks' = IF hblanks < HBlankBound THEN hblanks + 1 ELSE hblanks
    /\ IF Which = 0
       THEN /\ counter' = IF SyncMode \in {"ResetOnHSync", "HSyncOnly"} THEN 0 ELSE Updated.counter
            /\ elapsed' = 0
       ELSE UNCHANGED <<counter, elapsed>>
    /\ tasks' = AfterNext(tasks)
    /\ UNCHANGED <<target, mode, in_vsync, overran>>

\* Mutant: the interrupt is not predicted anew.
ExitHSyncForgetful ==
    /\ Take("HBlankEnd")
    /\ in_hsync' = FALSE
    /\ mode' = IF SyncMode = "StartOnNextLine" THEN [mode EXCEPT !.sync_enabled = FALSE] ELSE mode
    /\ elapsed' = IF Which = 0 THEN 0 ELSE elapsed
    /\ tasks' = AfterNext(tasks)
    /\ UNCHANGED <<counter, target, in_vsync, hblanks, overran>>

\* Counter 0 is not brought up to date here: the blank is lost to it.
ExitHSync ==
    /\ Take("HBlankEnd")
    /\ in_hsync' = FALSE
    /\ mode' = IF SyncMode = "StartOnNextLine" THEN [mode EXCEPT !.sync_enabled = FALSE] ELSE mode
    /\ elapsed' = IF Which = 0 THEN 0 ELSE elapsed
    /\ UNCHANGED <<counter, target, in_vsync, hblanks>>
    /\ IF Which = 0
       THEN \E queue \in {AfterNext(tasks)} : Reschedule(queue, Prediction')
       ELSE tasks' = AfterNext(tasks)
    /\ overran' = IF Which = 0 THEN Overrun(counter, mode', target) ELSE overran

\* process_interrupt: a toggling timer requests its interrupt every other
\* time; the request itself goes to the interrupt controller and is left out.
ProcessInterrupt ==
    /\ Take("TimerPulse") \/ Take("TimerToggle")
    /\ mode' = [mode EXCEPT !.irq_disabled =
                                 Head(tasks).event = "TimerToggle" => ~mode.irq_disabled]
    /\ tasks' = AfterNext(tasks)
    /\ UNCHANGED <<counter, target, elapsed, syncVars, overran>>

\* A round without an event.
NoEvent ==
    /\ ~guest /\ ~IsDue(tasks)
    /\ guest' = TRUE
    /\ UNCHANGED <<tasks, timerVars, syncVars, overran>>

-----------------------------------------------------------------------------
(* The guest's block.                                                      *)

\* Every access brings the counter up to date first.
Load ==
    /\ guest
    /\ counter' = Updated.counter /\ hblanks' = Updated.hblanks /\ elapsed' = 0
    /\ UNCHANGED <<tasks, target, mode, in_hsync, in_vsync, guest, overran>>

\* Only the target is cut to 16 bits.
StoreCounter(v) == counter' = v /\ UNCHANGED <<target, mode>>

StoreTarget(v) ==
    /\ target' = v % (Top + 1)
    /\ counter' = Updated.counter /\ UNCHANGED mode

\* set_mode
StoreMode(m) ==
    /\ mode' = [m EXCEPT !.irq_disabled = TRUE]
    /\ counter' = 0 /\ UNCHANGED target

Store ==
    /\ guest
    /\ \/ \E v \in Stored : StoreCounter(v) \/ StoreTarget(v)
       \/ \E m \in Modes : StoreMode(m)
    /\ hblanks' = Updated.hblanks /\ elapsed' = 0
    /\ UNCHANGED <<in_hsync, in_vsync, guest>>
    /\ Reschedule(tasks, Prediction')
    /\ overran' = Overrun(counter', mode', target')

EndBlock ==
    /\ guest
    /\ \E n \in Blocks :
          /\ elapsed + n <= ElapsedBound
          /\ elapsed' = elapsed + n
          /\ tasks' = Advance(tasks, n)
    /\ guest' = FALSE
    /\ UNCHANGED <<counter, target, mode, syncVars, overran>>

Handle ==
    \/ EnterVSync \/ ExitVSync \/ EnterHSync \/ ExitHSync
    \/ ProcessInterrupt \/ NoEvent

Next == Handle \/ Load \/ Store \/ EndBlock

\* The main loop keeps going: it handles what is due and every block ends.
Spec == Init /\ [][Next]_vars /\ WF_vars(Handle) /\ WF_vars(EndBlock)

-----------------------------------------------------------------------------
(* Properties.                                                             *)

\* The target is 16 bits, no update is later than ElapsedBound, and the tasks
\* are those of this model.
TypeOK ==
    /\ tasks \in Seq(TaskRecords)
    /\ counter \in 0..(Word - 1) /\ target \in 0..Top /\ mode \in ModeRecord
    /\ elapsed \in 0..ElapsedBound
    /\ in_hsync \in BOOLEAN /\ in_vsync \in BOOLEAN /\ hblanks \in 0..HBlankBound
    /\ guest \in BOOLEAN /\ overran \in BOOLEAN

\* The queue is sorted, holds every repeating event exactly once and no event
\* twice, so that it cannot outgrow its room: the events are fewer.  Counter
\* and target keep their width.
QueueSound ==
    /\ TypeOK
    /\ \A i, j \in DOMAIN tasks : i < j =>
          tasks[i].due <= tasks[j].due /\ tasks[i].event # tasks[j].event
    /\ \A i \in DOMAIN Regular : \E j \in DOMAIN tasks : tasks[j].event = Regular[i].event
    /\ Len(tasks) <= MaxTasks

\* Whatever brought the counter up to date in between: when a one-shot
\* interrupt at the target of a free running counter on the system clock
\* falls due, the counter will read the target.  The exception is a prediction
\* that underflowed, from a counter stored beyond its period: 2^32 is no
\* multiple of every period.
FreeRunning == ~mode.sync_enabled /\ ClockSource = "Cpu"

TargetOnTime ==
    FreeRunning /\ mode.irq_target /\ ~mode.irq_end /\ ~mode.irq_repeat /\ ~overran =>
        \A i \in DOMAIN tasks :
            tasks[i].event = TimerEvent =>
                (counter + elapsed + tasks[i].due) % Period(mode, target) = target

\* Every repeating event is handled again and again, although a round handles
\* one event only, however late it is.
EventsRecur ==
    \A i \in DOMAIN Regular : []<><<Take(Regular[i].event)>>_vars

=============================================================================
