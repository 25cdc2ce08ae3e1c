------------------------------ MODULE Scheduler ------------------------------
(***************************************************************************)
(* The event queue (scheduler.rs) as operators on the sequence of its      *)
(* tasks, soonest first.  A task's due time is kept relative to the cycle  *)
(* counter: time passes by subtracting, and a task whose due is not        *)
(* positive is overdue.  The queue has room for 32 tasks and panics beyond.*)
(***************************************************************************)
EXTENDS Integers, Sequences

MaxTasks == 32

\* repeat is a number of cycles, or OneShot.  Zero is a legal period.
OneShot == -1
Task(event, due, repeat) == [event |-> event, due |-> due, repeat |-> repeat]

\* Without the event: kept[n] is what stays of the first n tasks.
Unschedule(tasks, event) ==
    LET kept[n \in 0..Len(tasks)] ==
            IF n = 0 THEN << >>
            ELSE IF tasks[n].event = event THEN kept[n - 1] ELSE Append(kept[n - 1], tasks[n])
    IN  kept[Len(tasks)]

\* Behind every task that is due no later.
Insert(tasks, task) ==
    LET n == Len(tasks)
        later == {i \in 1..n : tasks[i].due > task.due}
        pos == IF later = {} THEN n + 1 ELSE CHOOSE i \in later : \A j \in later : i <= j
    IN  SubSeq(tasks, 1, pos - 1) \o <<task>> \o SubSeq(tasks, pos, n)

\* Mutant: the event may be queued already.
ScheduleTwice(tasks, event, cycles, repeat) == Insert(tasks, Task(event, cycles, repeat))

Schedule(tasks, event, cycles, repeat) ==
    Insert(Unschedule(tasks, event), Task(event, cycles, repeat))

\* get_next_event: what is due, and the queue it leaves behind.
IsDue(tasks) == tasks # <<>> /\ tasks[1].due <= 0

\* Mutant: the repeated task is queued before the first one is removed.
AfterNextSwapped(tasks) ==
    LET task == Head(tasks) IN
    IF task.repeat = OneShot THEN Tail(tasks)
    ELSE Tail(Schedule(tasks, task.event, task.repeat, task.repeat))

\* A repeated task counts from when it is handled, not from when it was due.
AfterNext(tasks) ==
    LET task == Head(tasks) IN
    IF task.repeat = OneShot THEN Tail(tasks)
    ELSE Schedule(Tail(tasks), task.event, task.repeat, task.repeat)

Advance(tasks, cycles) ==
    [i \in 1..Len(tasks) |-> [tasks[i] EXCEPT !.due = @ - cycles]]
=============================================================================
