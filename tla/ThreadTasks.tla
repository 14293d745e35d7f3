----------------------------- MODULE ThreadTasks -----------------------------
(* The task queue of a worker thread (threaddata.cpp:1180-1222, 420-435,       *)
(* 1072-1083, 1362; threadloop.cpp:86-112) and its delayed tasks              *)
(* (queuedtasks.cpp).  Threads push a task under the lock of the queue and    *)
(* wake the loop, addImmediateTask only when the queue was empty.  The loop    *)
(* waits for its event fd, resets it, takes all tasks and performs them; it    *)
(* stops after a batch in which it was told to quit.                          *)
EXTENDS Integers, FiniteSets, Sequences, SequencesExt

CONSTANTS
    Adders,     \* other threads
    MaxTasks,   \* bound on the tasks
    TaskDelays, \* delays of delayed tasks
    MaxTaskIds, \* 2^32: ids of delayed tasks are below it, 0 is none
    MaxDelayed, \* bound on the delayed tasks
    MaxTicks    \* bound on the time

ASSUME TaskBoundsAssumption == {MaxTasks, MaxDelayed, MaxTicks} \subseteq Nat
ASSUME TaskIdsAssumption == MaxTaskIds \in Nat /\ MaxTaskIds > 1
ASSUME TaskDelaysAssumption == TaskDelays \subseteq Nat \ {0}

VARIABLES
    taskQueue,      \* tasks that were pushed
    eventFd,        \* is taskEventFd readable?
    adder,          \* thread -> what it still has to do
    pushed,         \* how many tasks were pushed
    loop,           \* where the loop is, and the tasks it has taken
    performed,      \* tasks that were performed, in order
    ticks,          \* the time
    queuedTasks,    \* delayed tasks by their time
    tasks,          \* id -> the delayed task that has it, 0 for none
    nextId,
    delayedMade,    \* how many delayed tasks were made
    erased,         \* delayed tasks that were erased
    due,            \* delayed tasks that are about to be performed
    fired           \* delayed task -> how often it was performed

taskVars == <<taskQueue, eventFd, adder, pushed, loop, performed, ticks, queuedTasks, tasks,
              nextId, delayedMade, erased, due, fired>>
delayedVars == <<ticks, queuedTasks, tasks, nextId, delayedMade, erased, due, fired>>
immediateVars == <<taskQueue, eventFd, adder, pushed, loop, performed>>

-----------------------------------------------------------------------------
TaskIds == 1..(MaxTaskIds - 1)

TasksTypeOK ==
    /\ taskQueue \in Seq(1..MaxTasks) /\ eventFd \in BOOLEAN
    /\ adder \in [Adders -> {"outside", "wakes"}]
    /\ pushed \in 0..MaxTasks
    /\ loop \in [at : {"epoll", "takes", "performs", "stopped"}, batch : Seq(1..MaxTasks),
                 running : BOOLEAN]
    /\ performed \in Seq(1..MaxTasks)
    /\ queuedTasks \subseteq [n : 1..MaxDelayed, id : TaskIds, at : Nat, repeat : BOOLEAN,
                              interval : TaskDelays]
    /\ tasks \in [TaskIds -> 0..MaxDelayed]
    /\ nextId \in 0..(MaxTaskIds - 1)
    /\ delayedMade \in 0..MaxDelayed
    /\ erased \subseteq 1..MaxDelayed /\ due \subseteq 1..MaxDelayed
    /\ fired \in [1..MaxDelayed -> Nat]

TasksInit ==
    /\ taskQueue = <<>> /\ eventFd = FALSE
    /\ adder = [a \in Adders |-> "outside"]
    /\ pushed = 0
    /\ loop = [at |-> "epoll", batch |-> <<>>, running |-> TRUE]
    /\ performed = <<>>
    /\ ticks = 0 /\ queuedTasks = {}
    /\ tasks = [i \in TaskIds |-> 0]
    /\ nextId = 1 /\ delayedMade = 0 /\ erased = {} /\ due = {}
    /\ fired = [n \in 1..MaxDelayed |-> 0]

-----------------------------------------------------------------------------
(* Immediate tasks.                                                          *)
Push ==
    /\ pushed < MaxTasks
    /\ pushed' = pushed + 1
    /\ taskQueue' = Append(taskQueue, pushed + 1)

\* addImmediateTask; queueQuit and most others wake the thread in any case.
PushTask(a) ==
    /\ adder[a] = "outside"
    /\ Push
    /\ \E always \in BOOLEAN :
          adder' = [adder EXCEPT ![a] = IF always \/ taskQueue = <<>> THEN "wakes" ELSE @]
    /\ UNCHANGED <<eventFd, loop, performed, delayedVars>>

\* wakeUpThread, without the lock.
WakeUp(a) ==
    /\ adder[a] = "wakes"
    /\ adder' = [adder EXCEPT ![a] = "outside"]
    /\ eventFd' = TRUE
    /\ UNCHANGED <<taskQueue, pushed, loop, performed, delayedVars>>

\* performAllImmediateTasks: the event fd is reset before the queue is locked.
ResetEventFd ==
    /\ loop.at = "epoll" /\ loop.running /\ eventFd
    /\ eventFd' = FALSE
    /\ loop' = [loop EXCEPT !.at = "takes"]
    /\ UNCHANGED <<taskQueue, adder, pushed, performed, delayedVars>>

TakeTasks ==
    /\ loop.at = "takes"
    /\ loop' = [loop EXCEPT !.at = "performs", !.batch = taskQueue]
    /\ taskQueue' = <<>>
    /\ UNCHANGED <<eventFd, adder, pushed, performed, delayedVars>>

\* A task may push one itself, with the loop's own thread, or be quit.
PerformOne ==
    /\ loop.at = "performs" /\ loop.batch # <<>>
    /\ performed' = Append(performed, Head(loop.batch))
    /\ \/ UNCHANGED <<taskQueue, eventFd, pushed>> /\ \E quits \in {FALSE, TRUE} :
             loop' = [loop EXCEPT !.batch = Tail(@), !.running = @ /\ ~quits]
       \/ /\ Push
          /\ eventFd' = (eventFd \/ taskQueue = <<>>)
          /\ loop' = [loop EXCEPT !.batch = Tail(@)]
    /\ UNCHANGED <<adder, delayedVars>>

\* Mutant: the event fd is reset after the tasks.
EndOfBatchThenReset ==
    /\ loop.at = "performs" /\ loop.batch = <<>>
    /\ loop' = [loop EXCEPT !.at = IF loop.running THEN "epoll" ELSE "stopped"]
    /\ eventFd' = FALSE
    /\ UNCHANGED <<taskQueue, adder, pushed, performed, delayedVars>>

\* An exception in a task ends that task only.
EndOfBatch ==
    /\ loop.at = "performs" /\ loop.batch = <<>>
    /\ loop' = [loop EXCEPT !.at = IF loop.running THEN "epoll" ELSE "stopped"]
    /\ UNCHANGED <<taskQueue, eventFd, adder, pushed, performed, delayedVars>>

-----------------------------------------------------------------------------
(* Delayed tasks, in the loop's own thread; a task may add and erase others.   *)

\* Ids wrap, and those in use are skipped.
FreeAfter(i) ==
    LET id(k) == (i + k) % MaxTaskIds
        steps == {k \in 1..MaxTaskIds : id(k) # 0 /\ tasks[id(k)] = 0}
    IN  id(CHOOSE k \in steps : \A j \in steps : k <= j)

addTask(delay, repeat) ==
    LET n == delayedMade + 1
        id == FreeAfter(nextId)
    IN
    /\ delayedMade < MaxDelayed
    /\ \E i \in TaskIds : tasks[i] = 0
    /\ delayedMade' = n
    /\ nextId' = id
    /\ tasks' = [tasks EXCEPT ![id] = n]
    /\ queuedTasks' = queuedTasks \cup
           {[n |-> n, id |-> id, at |-> ticks + delay, repeat |-> repeat, interval |-> delay]}
    /\ UNCHANGED <<ticks, erased, due, fired, immediateVars>>

\* The entry in queuedTasks stays.
eraseTask(id) ==
    /\ tasks[id] # 0
    /\ erased' = erased \cup {tasks[id]}
    /\ tasks' = [tasks EXCEPT ![id] = 0]
    /\ UNCHANGED <<ticks, queuedTasks, nextId, delayedMade, due, fired, immediateVars>>

\* Mutant: the entry keeps its function alive.
FunctionsOfEntry(q) == {q.n}

\* An id may be another task's by now: the pointers are compared.
Functions(q) == {tasks[q.id]} \cap {q.n}

\* performAll: the functions are collected first, and then performed.
CollectDue ==
    LET over == {q \in queuedTasks : q.at <= ticks}
        live == {q \in over : Functions(q) # {}}
    IN
    /\ due = {} /\ over # {}
    /\ due' = UNION {Functions(q) : q \in over}
    /\ queuedTasks' = (queuedTasks \ over) \cup
           {[q EXCEPT !.at = ticks + q.interval] : q \in {r \in live : r.repeat}}
    /\ tasks' = [i \in TaskIds |->
                    IF \E q \in live : q.id = i /\ ~q.repeat THEN 0 ELSE tasks[i]]
    /\ UNCHANGED <<ticks, nextId, delayedMade, erased, fired, immediateVars>>

PerformDue(n) ==
    /\ n \in due
    /\ due' = due \ {n}
    /\ fired' = [fired EXCEPT ![n] = @ + 1]
    /\ UNCHANGED <<ticks, queuedTasks, tasks, nextId, delayedMade, erased, immediateVars>>

TimePasses ==
    /\ ticks < MaxTicks /\ due = {}
    /\ ticks' = ticks + 1
    /\ UNCHANGED <<queuedTasks, tasks, nextId, delayedMade, erased, due, fired, immediateVars>>

LoopGoesOn == ResetEventFd \/ TakeTasks \/ PerformOne \/ EndOfBatch

ImmediateNext ==
    \/ \E a \in Adders : PushTask(a) \/ WakeUp(a)
    \/ LoopGoesOn
DelayedNext ==
    \/ \E d \in TaskDelays, repeat \in BOOLEAN : addTask(d, repeat)
    \/ \E id \in TaskIds : eraseTask(id)
    \/ CollectDue
    \/ \E n \in 1..MaxDelayed : PerformDue(n)
    \/ TimePasses
TasksNext == ImmediateNext \/ DelayedNext

TasksSpec == TasksInit /\ [][TasksNext]_taskVars
TasksFairness ==
    /\ WF_taskVars(LoopGoesOn)
    /\ \A a \in Adders : WF_taskVars(WakeUp(a))

-----------------------------------------------------------------------------
(* Every task is performed once, in the order in which they were pushed, by    *)
(* whatever threads.                                                         *)
TasksInOrder == performed \o loop.batch \o taskQueue = [i \in 1..pushed |-> i]

(* A task never waits for one that is pushed later: as long as there are some,*)
(* the loop will be woken, or is about to look (threaddata.cpp:1184, 1199).   *)
NoLostWakeup ==
    taskQueue # <<>> =>
        eventFd \/ loop.at = "takes" \/ \E a \in Adders : adder[a] = "wakes"

(* An id that is given to another task does not bring that one forward:        *)
(* what waits in queuedTasks has not been performed, and a task that           *)
(* was not erased waits, is about to be performed or was (queuedtasks.cpp:73). *)
OnceAtItsTime ==
    /\ \A q \in queuedTasks : ~q.repeat => fired[q.n] = 0 /\ q.n \notin due
    /\ \A n \in (1..delayedMade) \ erased :
          \/ fired[n] > 0 \/ n \in due
          \/ \E q \in queuedTasks : q.n = n /\ tasks[q.id] = n

(* No task is lost, early, or done twice (threaddata.cpp:1180, queuedtasks.cpp:65). *)
TasksAreKept == TasksInOrder /\ NoLostWakeup /\ OnceAtItsTime

(* A task that was erased becomes due: a step that no behaviour may take      *)
(* (queuedtasks.cpp eraseTask). One that was due before it was erased is      *)
(* still performed.                                                          *)
PerformsErased == \E n \in erased : n \in due' /\ n \notin due

(* Every task is performed in the end, unless the thread stops.               *)
TasksArePerformed ==
    \A i \in 1..MaxTasks : pushed >= i ~> (Len(performed) >= i \/ ~loop.running)
=============================================================================
