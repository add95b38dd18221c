----------------------------- MODULE WorkerPool -----------------------------
(***************************************************************************)
(* WorkerManager and its workers (worker.rs), without the database.  Each  *)
(* accepted submission has a task that runs test_submission; for each of   *)
(* its tests the task loads the atomic queue size of every worker, one     *)
(* after the other, increments the smallest and sends the test down that   *)
(* worker's bounded channel.  A worker receives, executes, decrements its  *)
(* queue size and then reports the test as done.                           *)
(*                                                                         *)
(* A job is one test of one submission.  The manager has at least one      *)
(* worker: with none, execute_test returns the error "No workers" to every *)
(* task before it touches any of this state.                               *)
(***************************************************************************)
EXTENDS Integers, Sequences, FiniteSets

CONSTANTS Senders,     \* the tasks running test_submission
          Jobs,        \* all tests of all their submissions
          JobsOf,      \* the tests each task has to hand over
          NumWorkers,
          BUFFER_SIZE, \* capacity of a worker's channel
          None

Workers == 0..(NumWorkers - 1)

MaxI32 == 2147483647

ASSUME WorkersAssumption == NumWorkers \in Nat \ {0}
ASSUME BufferAssumption == BUFFER_SIZE \in Nat \ {0}
ASSUME SendersAssumption == IsFiniteSet(Senders)
\* The counters are i32; no server has 2^31 submissions in its memory.
ASSUME CounterAssumption == BUFFER_SIZE + Cardinality(Senders) < MaxI32
ASSUME JobsAssumption ==
    /\ JobsOf \in [Senders -> SUBSET Jobs]
    /\ \A s \in Senders : IsFiniteSet(JobsOf[s])
    /\ \A r, s \in Senders : r # s => JobsOf[r] \cap JobsOf[s] = {}
    /\ None \notin Jobs

VARIABLES
    todo,       \* tests a task has still to hand over
    task,       \* local state of execute_test, per task
    queue_size, \* the AtomicI32 of each worker
    channel,    \* the mpsc channel of each worker
    worker,     \* control state of each worker and the job in its hands
    finished    \* jobs reported by worker_test_is_done

vars == <<todo, task, queue_size, channel, worker, finished>>

\* Local variables of execute_test: the job, the scan's position and its
\* minimum so far.
Idle ==
    [pc |-> "next", job |-> None, i |-> 0,
     min_queue_size |-> MaxI32, min_queue_index |-> 0]

Init ==
    /\ todo = JobsOf
    /\ task = [s \in Senders |-> Idle]
    /\ queue_size = [w \in Workers |-> 0]
    /\ channel = [w \in Workers |-> <<>>]
    /\ worker = [w \in Workers |-> [pc |-> "receive", job |-> None]]
    /\ finished = {}

-----------------------------------------------------------------------------
\* test_submission: `for test in tests`, in the order the SELECT returned.
NextTest(s) ==
    /\ task[s].pc = "next"
    /\ \E j \in todo[s] :
          /\ todo' = [todo EXCEPT ![s] = @ \ {j}]
          /\ task' = [task EXCEPT ![s] = [Idle EXCEPT !.pc = "scan", !.job = j]]
    /\ UNCHANGED <<queue_size, channel, worker, finished>>

\* Mutants: the minimum is kept without its index; the index is off by one,
\* and the last of the smallest wins.
BugLoadKeepsIndex(s) ==
    LET t == task[s]
        less == queue_size[t.i] < t.min_queue_size
    IN  /\ t.pc = "scan"
        /\ t.i < NumWorkers
        /\ task' = [task EXCEPT ![s] =
               [t EXCEPT !.i = t.i + 1,
                         !.min_queue_size =
                             IF less THEN queue_size[t.i] ELSE @]]
        /\ UNCHANGED <<todo, queue_size, channel, worker, finished>>

BugLoadOffByOne(s) ==
    LET t == task[s]
        less == queue_size[t.i] <= t.min_queue_size
    IN  /\ t.pc = "scan"
        /\ t.i < NumWorkers
        /\ task' = [task EXCEPT ![s] =
               [t EXCEPT !.i = t.i + 1,
                         !.min_queue_size =
                             IF less THEN queue_size[t.i] ELSE @,
                         !.min_queue_index = IF less THEN t.i + 1 ELSE @]]
        /\ UNCHANGED <<todo, queue_size, channel, worker, finished>>

\* One turn of the loop over the workers: the first of the smallest wins.
LoadQueueSize(s) ==
    LET t == task[s]
        less == queue_size[t.i] < t.min_queue_size
    IN  /\ t.pc = "scan"
        /\ t.i < NumWorkers
        /\ task' = [task EXCEPT ![s] =
               [t EXCEPT !.i = t.i + 1,
                         !.min_queue_size =
                             IF less THEN queue_size[t.i] ELSE @,
                         !.min_queue_index = IF less THEN t.i ELSE @]]
        /\ UNCHANGED <<todo, queue_size, channel, worker, finished>>

FetchAdd(s) ==
    /\ task[s].pc = "scan"
    /\ task[s].i = NumWorkers
    /\ queue_size' = [queue_size EXCEPT ![task[s].min_queue_index] = @ + 1]
    /\ task' = [task EXCEPT ![s].pc = "send"]
    /\ UNCHANGED <<todo, channel, worker, finished>>

\* sender.send(..).await waits for a free place in the channel.
Send(s) ==
    LET w == task[s].min_queue_index
    IN  /\ task[s].pc = "send"
        /\ Len(channel[w]) < BUFFER_SIZE
        /\ channel' = [channel EXCEPT ![w] = Append(@, task[s].job)]
        /\ task' = [task EXCEPT ![s] = Idle]
        /\ UNCHANGED <<todo, queue_size, worker, finished>>

-----------------------------------------------------------------------------
\* Mutant: the job stays at the head of the channel.
BugReceiveKeeps(w) ==
    /\ worker[w].pc = "receive"
    /\ channel[w] # <<>>
    /\ worker' = [worker EXCEPT ![w] =
                     [pc |-> "testing", job |-> Head(channel[w])]]
    /\ UNCHANGED <<todo, task, queue_size, channel, finished>>

Receive(w) ==
    /\ worker[w].pc = "receive"
    /\ channel[w] # <<>>
    /\ worker' = [worker EXCEPT ![w] =
                     [pc |-> "testing", job |-> Head(channel[w])]]
    /\ channel' = [channel EXCEPT ![w] = Tail(@)]
    /\ UNCHANGED <<todo, task, queue_size, finished>>

\* Mutant: the counter of the queue is never decremented.
BugFetchSubForgets(w) ==
    /\ worker[w].pc = "testing"
    /\ worker' = [worker EXCEPT ![w].pc = "reporting"]
    /\ UNCHANGED <<todo, task, queue_size, channel, finished>>

\* worker_do_test has returned, with or without an error; the first thing
\* worker_test_is_done does is queue_size.fetch_sub(1).
FetchSub(w) ==
    /\ worker[w].pc = "testing"
    /\ queue_size' = [queue_size EXCEPT ![w] = @ - 1]
    /\ worker' = [worker EXCEPT ![w].pc = "reporting"]
    /\ UNCHANGED <<todo, task, channel, finished>>

\* Mutant: an error of worker_test_is_done ends the worker's loop.
BugReportStops(w) ==
    /\ worker[w].pc = "reporting"
    /\ finished' = finished \cup {worker[w].job}
    /\ \E pc \in {"receive", "stopped"} :
          worker' = [worker EXCEPT ![w] = [pc |-> pc, job |-> None]]
    /\ UNCHANGED <<todo, task, queue_size, channel>>

\* The rest of worker_test_is_done; its errors are ignored.
Report(w) ==
    /\ worker[w].pc = "reporting"
    /\ finished' = finished \cup {worker[w].job}
    /\ worker' = [worker EXCEPT ![w] = [pc |-> "receive", job |-> None]]
    /\ UNCHANGED <<todo, task, queue_size, channel>>

\* Everything handed over and reported: the server waits for submissions.
AllReported ==
    /\ finished = UNION {JobsOf[s] : s \in Senders}
    /\ UNCHANGED vars

TaskStep(s) == NextTest(s) \/ LoadQueueSize(s) \/ FetchAdd(s) \/ Send(s)

WorkerStep(w) == Receive(w) \/ FetchSub(w) \/ Report(w)

Next ==
    \/ \E s \in Senders : TaskStep(s)
    \/ \E w \in Workers : WorkerStep(w)
    \/ AllReported

\* tokio polls every task that can make progress, and a permit of a channel
\* is given to the tasks waiting for it in order.  That a worker leaves
\* "testing" assumes that the tester returns.
Fairness ==
    /\ \A s \in Senders : WF_vars(TaskStep(s))
    /\ \A w \in Workers : WF_vars(WorkerStep(w))

Safe == Init /\ [][Next]_vars

Spec == Safe /\ Fairness

-----------------------------------------------------------------------------
TypeOK ==
    /\ todo \in [Senders -> SUBSET Jobs]
    /\ task \in [Senders -> [pc : {"next", "scan", "send"},
                             job : Jobs \cup {None},
                             i : 0..NumWorkers,
                             min_queue_size : Int,
                             min_queue_index : Workers]]
    /\ queue_size \in [Workers -> Int]
    /\ channel \in [Workers -> Seq(Jobs)]
    /\ worker \in [Workers -> [pc : {"receive", "testing", "reporting"},
                               job : Jobs \cup {None}]]
    /\ finished \subseteq Jobs

\* Tasks that have counted themselves at worker w and wait to send to it.
SendingTo(w) ==
    {s \in Senders : task[s].pc = "send" /\ task[s].min_queue_index = w}

(***************************************************************************)
(* The atomic counter, updated by every task and by the worker at moments  *)
(* of their own, always equals the load it stands for: what is in the      *)
(* channel, what is about to be sent, and the test being executed.         *)
(***************************************************************************)
QueueSizeExact ==
    \A w \in Workers :
        queue_size[w] = Len(channel[w]) + Cardinality(SendingTo(w))
                            + (IF worker[w].pc = "testing" THEN 1 ELSE 0)

(***************************************************************************)
(* A test handed to the manager is in exactly one place: still to hand     *)
(* over, in a task's hands, once in one channel, in one worker's hands, or *)
(* reported.  None is lost and none is executed twice.                     *)
(***************************************************************************)
Places(j) ==
    {<<"todo", s>> : s \in {s \in Senders : j \in todo[s]}}
    \cup {<<"task", s>> : s \in {s \in Senders : task[s].job = j}}
    \cup {<<"channel", p>> : p \in
             {p \in Workers \X (1..BUFFER_SIZE) :
                 p[2] <= Len(channel[p[1]]) /\ channel[p[1]][p[2]] = j}}
    \cup {<<"worker", w>> : w \in {w \in Workers : worker[w].job = j}}
    \cup (IF j \in finished THEN {<<"finished">>} ELSE {})

EachJobInOnePlace ==
    \A s \in Senders : \A j \in JobsOf[s] : Cardinality(Places(j)) = 1

(***************************************************************************)
(* The scan reads the counters one by one and the increment comes later,   *)
(* so concurrent tasks may pick the same worker.  The damage is bounded:   *)
(* no worker is ever loaded beyond its even share of all the tests by more *)
(* than one test per other task.                                           *)
(***************************************************************************)
AllJobs == UNION {JobsOf[s] : s \in Senders}

EvenShare == (Cardinality(AllJobs) + NumWorkers - 1) \div NumWorkers

LoadBalanced ==
    \A w \in Workers :
        queue_size[w] <= EvenShare + Cardinality(Senders) - 1

\* Every test that a task has to hand over is reported in the end, however
\* full the channels get.
EveryTestReported == \A s \in Senders : \A j \in JobsOf[s] : <>(j \in finished)

\* The jobs in the channel of worker w.
Queued(w) == {channel[w][n] : n \in 1..Len(channel[w])}

\* The worker pool implements the job pool the judge is modelled with.
JP == INSTANCE JobPool
          WITH Jobs <- AllJobs,
               pool <- UNION {Queued(w) : w \in Workers},
               executing <- [w \in Workers |-> worker[w].job]

JobPoolSpec == JP!Spec
=============================================================================
