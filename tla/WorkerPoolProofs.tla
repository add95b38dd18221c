-------------------------- MODULE WorkerPoolProofs --------------------------
(***************************************************************************)
(* The worker pool for any number of tasks, tests and workers and any      *)
(* channel capacity: its variables keep their types, and the atomic queue  *)
(* size of a worker is exact in every interleaving.                        *)
(***************************************************************************)
EXTENDS WorkerPool, DataTheorems

TaskType ==
    [pc : {"next", "scan", "send"}, job : Jobs \cup {None}, i : 0..NumWorkers,
     min_queue_size : Int, min_queue_index : Workers]

LEMMA WorkersFacts == 0 \in Workers /\ Workers \subseteq Int
BY WorkersAssumption DEF Workers

LEMMA IdleType == Idle \in TaskType
BY WorkersFacts, WorkersAssumption DEF Idle, TaskType, MaxI32

\* A task that scans or sends has a job in its hands, a worker that tests
\* or reports too.
HasJob ==
    /\ \A s \in Senders : task[s].pc # "next" => task[s].job \in Jobs
    /\ \A w \in Workers : worker[w].pc # "receive" => worker[w].job \in Jobs

TInv == TypeOK /\ HasJob

LEMMA TInvInit == Init => TInv
BY IdleType, JobsAssumption DEF Init, TInv, TypeOK, HasJob, TaskType, Idle

LEMMA TInvStep == TInv /\ [Next]_vars => TInv'
<1> SUFFICES ASSUME TInv, [Next]_vars PROVE TInv'
  OBVIOUS
<1> USE DEF TInv, TypeOK, HasJob
<1>1. ASSUME NEW s \in Senders, NextTest(s) PROVE TInv'
  <2>1. PICK j \in todo[s] :
           /\ todo' = [todo EXCEPT ![s] = @ \ {j}]
           /\ task' = [task EXCEPT ![s] = [Idle EXCEPT !.pc = "scan", !.job = j]]
    BY <1>1 DEF NextTest
  <2>2. j \in Jobs
    BY <2>1
  <2>3. /\ [Idle EXCEPT !.pc = "scan", !.job = j] \in TaskType
        /\ [Idle EXCEPT !.pc = "scan", !.job = j].job = j
    BY <2>2, IdleType DEF TaskType
  <2>4. task' \in [Senders -> TaskType]
    BY <2>1, <2>3 DEF TaskType
  <2> QED BY <1>1, <2>1, <2>2, <2>3, <2>4 DEF NextTest, TaskType
<1>2. ASSUME NEW s \in Senders, LoadQueueSize(s) PROVE TInv'
  <2>1. task[s] \in TaskType /\ task[s].i \in Workers
    BY <1>2, WorkersAssumption DEF LoadQueueSize, TaskType, Workers
  <2> DEFINE less == queue_size[task[s].i] < task[s].min_queue_size
             size == IF less THEN queue_size[task[s].i] ELSE task[s].min_queue_size
             index == IF less THEN task[s].i ELSE task[s].min_queue_index
             t == [task[s] EXCEPT !.i = task[s].i + 1, !.min_queue_size = size,
                                  !.min_queue_index = index]
  <2>a. task' = [task EXCEPT ![s] = t]
    BY <1>2 DEF LoadQueueSize
  <2>b. /\ task[s].i + 1 \in 0..NumWorkers
        /\ size \in Int
        /\ index \in Workers
    BY <2>1, WorkersAssumption DEF TaskType, Workers
  <2>c. t \in TaskType /\ t.pc = task[s].pc /\ t.job = task[s].job
    <3> HIDE DEF size, index
    <3> QED BY <2>1, <2>b DEF TaskType
  <2>2. /\ task'[s] \in TaskType
        /\ task'[s].pc = task[s].pc
        /\ task'[s].job = task[s].job
    BY <2>a, <2>c
  <2>3. task' \in [Senders -> TaskType]
    BY <1>2, <2>2 DEF LoadQueueSize, TaskType
  <2>4. \A r \in Senders : r # s => task'[r] = task[r]
    BY <1>2 DEF LoadQueueSize
  <2>5. UNCHANGED <<todo, queue_size, channel, worker, finished>>
    BY <1>2 DEF LoadQueueSize
  <2>6. TypeOK'
    BY <2>3, <2>5 DEF TaskType
  <2>7. HasJob'
    BY <2>2, <2>4, <2>5
  <2> QED BY <2>6, <2>7
<1>3. ASSUME NEW s \in Senders, FetchAdd(s) PROVE TInv'
  <2>1. task[s] \in TaskType /\ task[s].min_queue_index \in Workers
    BY DEF TaskType
  <2>2. /\ task' = [task EXCEPT ![s].pc = "send"]
        /\ queue_size' =
               [queue_size EXCEPT ![task[s].min_queue_index] = @ + 1]
        /\ UNCHANGED <<todo, channel, worker, finished>>
        /\ task[s].job \in Jobs
    BY <1>3 DEF FetchAdd
  <2>3. task' \in [Senders -> TaskType]
    BY <2>1, <2>2 DEF TaskType
  <2>4. queue_size' \in [Workers -> Int]
    BY <2>1, <2>2
  <2>5. HasJob'
    BY <2>2, <2>3
  <2> QED BY <2>2, <2>3, <2>4, <2>5, ZenonT(30) DEF TaskType
<1>4. ASSUME NEW s \in Senders, Send(s) PROVE TInv'
  BY <1>4, IdleType DEF Send, TaskType, Idle
<1>5. ASSUME NEW w \in Workers, Receive(w) PROVE TInv'
  <2>1. channel[w] \in Seq(Jobs) /\ channel[w] # <<>>
    BY <1>5 DEF Receive
  <2>2. Head(channel[w]) \in Jobs /\ Tail(channel[w]) \in Seq(Jobs)
    BY <2>1
  <2>3. channel' \in [Workers -> Seq(Jobs)]
    BY <1>5, <2>2 DEF Receive
  <2>4. /\ worker' = [worker EXCEPT ![w] =
                         [pc |-> "testing", job |-> Head(channel[w])]]
        /\ UNCHANGED <<todo, task, queue_size, finished>>
    BY <1>5 DEF Receive
  <2> QED BY <2>2, <2>3, <2>4
<1>6. ASSUME NEW w \in Workers, FetchSub(w) PROVE TInv'
  <2>1. /\ queue_size' = [queue_size EXCEPT ![w] = @ - 1]
        /\ worker' = [worker EXCEPT ![w].pc = "reporting"]
        /\ UNCHANGED <<todo, task, channel, finished>>
        /\ worker[w].job \in Jobs
    BY <1>6 DEF FetchSub
  <2>2. queue_size' \in [Workers -> Int]
    BY <2>1
  <2>3. /\ worker' \in [Workers -> [pc : {"receive", "testing", "reporting"},
                                    job : Jobs \cup {None}]]
        /\ \A x \in Workers : worker'[x].job = worker[x].job
        /\ \A x \in Workers : x # w => worker'[x].pc = worker[x].pc
    <3> DEFINE R == [pc : {"receive", "testing", "reporting"}, job : Jobs \cup {None}]
               r == [worker[w] EXCEPT !.pc = "reporting"]
    <3>1. worker[w] \in R /\ worker' = [worker EXCEPT ![w] = r]
      BY <2>1
    <3>2. r \in R
      BY <3>1
    <3> HIDE DEF R, r
    <3>3. worker' \in [Workers -> R]
      BY <3>1, <3>2 DEF R
    <3> USE DEF R
    <3>4. ASSUME NEW x \in Workers
          PROVE  /\ worker'[x].job = worker[x].job
                 /\ x # w => worker'[x].pc = worker[x].pc
      BY <2>1
    <3> QED BY <3>3, <3>4
  <2>4. HasJob'
    BY <2>1, <2>3
  <2> QED BY <2>1, <2>2, <2>3, <2>4
<1>7. ASSUME NEW w \in Workers, Report(w) PROVE TInv'
  <2>1. worker[w].job \in Jobs
    BY <1>7 DEF Report
  <2>2. /\ finished' = finished \cup {worker[w].job}
        /\ worker' = [worker EXCEPT ![w] = [pc |-> "receive", job |-> None]]
        /\ UNCHANGED <<todo, task, queue_size, channel>>
    BY <1>7 DEF Report
  <2> QED BY <2>1, <2>2
<1>8. CASE UNCHANGED vars
  BY <1>8 DEF vars
<1> QED
  BY <1>1, <1>2, <1>3, <1>4, <1>5, <1>6, <1>7, <1>8
  DEF Next, TaskStep, WorkerStep, AllReported

\* The variables keep their types, whatever the numbers of tasks, tests and
\* workers: the scan never leaves the vector of workers (worker.rs).
THEOREM TypeCorrect == Safe => []TypeOK
<1>1. TInv => TypeOK
  BY DEF TInv
<1> QED BY <1>1, TInvInit, TInvStep, PTL DEF Safe

-----------------------------------------------------------------------------
\* The set of tasks counted at w and about to send is finite, so that it can
\* be counted.
LEMMA SendingFinite ==
    ASSUME NEW w \in Workers
    PROVE  /\ IsFiniteSet(SendingTo(w))
           /\ Cardinality(SendingTo(w)) \in Nat
<1>1. SendingTo(w) \subseteq Senders
  BY DEF SendingTo
<1> QED BY <1>1, SendersAssumption, FS_Subset, FS_CardinalityType

Load(w) ==
    Len(channel[w]) + Cardinality(SendingTo(w))
        + (IF worker[w].pc = "testing" THEN 1 ELSE 0)

LEMMA ExactStep == TInv /\ QueueSizeExact /\ [Next]_vars => QueueSizeExact'
<1> SUFFICES ASSUME TInv, QueueSizeExact, [Next]_vars,
                    NEW v \in Workers
             PROVE  queue_size'[v] = Load(v)'
  BY DEF QueueSizeExact, Load
<1>0. queue_size[v] = Load(v)
  BY DEF QueueSizeExact, Load
<1> USE DEF TInv, TypeOK, Load
<1>1. ASSUME NEW s \in Senders, NextTest(s) PROVE queue_size'[v] = Load(v)'
  <2>1. SendingTo(v)' = SendingTo(v)
    BY <1>1 DEF NextTest, SendingTo, Idle
  <2> QED BY <1>0, <1>1, <2>1 DEF NextTest
<1>2. ASSUME NEW s \in Senders, LoadQueueSize(s) PROVE queue_size'[v] = Load(v)'
  <2>1. SendingTo(v)' = SendingTo(v)
    BY <1>2 DEF LoadQueueSize, SendingTo
  <2> QED BY <1>0, <1>2, <2>1 DEF LoadQueueSize
<1>3. ASSUME NEW s \in Senders, FetchAdd(s) PROVE queue_size'[v] = Load(v)'
  <2>1. /\ s \notin SendingTo(v)
        /\ task[s].min_queue_index \in Workers
        /\ worker' = worker /\ channel' = channel
    BY <1>3 DEF FetchAdd, SendingTo
  <2>2. CASE task[s].min_queue_index = v
    <3>1. SendingTo(v)' = SendingTo(v) \cup {s}
      BY <1>3, <2>2 DEF FetchAdd, SendingTo
    <3>2. Cardinality(SendingTo(v)') = Cardinality(SendingTo(v)) + 1
      BY <2>1, <3>1, SendingFinite, FS_AddElement
    <3>3. queue_size'[v] = queue_size[v] + 1
      BY <1>3, <2>2 DEF FetchAdd
    <3> QED BY <1>0, <2>1, <3>2, <3>3, SendingFinite
  <2>3. CASE task[s].min_queue_index # v
    <3>1. SendingTo(v)' = SendingTo(v)
      BY <1>3, <2>3 DEF FetchAdd, SendingTo
    <3>2. queue_size'[v] = queue_size[v]
      BY <1>3, <2>3 DEF FetchAdd
    <3> QED BY <1>0, <2>1, <3>1, <3>2
  <2> QED BY <2>2, <2>3
<1>4. ASSUME NEW s \in Senders, Send(s) PROVE queue_size'[v] = Load(v)'
  <2>1. worker' = worker /\ queue_size' = queue_size
    BY <1>4 DEF Send
  <2>2. CASE task[s].min_queue_index = v
    <3>1. s \in SendingTo(v) /\ SendingTo(v)' = SendingTo(v) \ {s}
      BY <1>4, <2>2 DEF Send, SendingTo, Idle
    <3>2. Cardinality(SendingTo(v)') = Cardinality(SendingTo(v)) - 1
      BY <3>1, SendingFinite, FS_RemoveElement
    <3>3. Len(channel'[v]) = Len(channel[v]) + 1
      BY <1>4, <2>2 DEF Send, HasJob
    <3> QED BY <1>0, <2>1, <3>2, <3>3, SendingFinite
  <2>3. CASE task[s].min_queue_index # v
    <3>1. SendingTo(v)' = SendingTo(v)
      BY <1>4, <2>3 DEF Send, SendingTo, Idle
    <3>2. channel'[v] = channel[v]
      BY <1>4, <2>3 DEF Send
    <3> QED BY <1>0, <2>1, <3>1, <3>2
  <2> QED BY <2>2, <2>3
<1>5. ASSUME NEW w \in Workers, Receive(w) PROVE queue_size'[v] = Load(v)'
  <2>1. SendingTo(v)' = SendingTo(v) /\ queue_size' = queue_size
    BY <1>5 DEF Receive, SendingTo
  <2>2. CASE w = v
    <3>1. Len(channel'[v]) = Len(channel[v]) - 1
      BY <1>5, <2>2 DEF Receive
    <3>2. worker[v].pc = "receive" /\ worker'[v].pc = "testing"
      BY <1>5, <2>2 DEF Receive
    <3> QED BY <1>0, <2>1, <3>1, <3>2, SendingFinite
  <2>3. CASE w # v
    <3>1. channel'[v] = channel[v] /\ worker'[v] = worker[v]
      BY <1>5, <2>3 DEF Receive
    <3> QED BY <1>0, <2>1, <3>1
  <2> QED BY <2>2, <2>3
<1>6. ASSUME NEW w \in Workers, FetchSub(w) PROVE queue_size'[v] = Load(v)'
  <2>1. SendingTo(v)' = SendingTo(v) /\ channel' = channel
    BY <1>6 DEF FetchSub, SendingTo
  <2>2. CASE w = v
    <3>1. /\ worker[v].pc = "testing" /\ worker'[v].pc = "reporting"
          /\ queue_size'[v] = queue_size[v] - 1
      BY <1>6, <2>2 DEF FetchSub
    <3> QED BY <1>0, <2>1, <3>1, SendingFinite
  <2>3. CASE w # v
    <3>1. queue_size'[v] = queue_size[v] /\ worker'[v] = worker[v]
      BY <1>6, <2>3 DEF FetchSub
    <3> QED BY <1>0, <2>1, <3>1
  <2> QED BY <2>2, <2>3
<1>7. ASSUME NEW w \in Workers, Report(w) PROVE queue_size'[v] = Load(v)'
  <2>1. /\ SendingTo(v)' = SendingTo(v)
        /\ channel' = channel /\ queue_size' = queue_size
    BY <1>7 DEF Report, SendingTo
  <2>2. (worker'[v].pc = "testing") <=> (worker[v].pc = "testing")
    BY <1>7 DEF Report
  <2> QED BY <1>0, <2>1, <2>2
<1>8. CASE UNCHANGED vars
  <2>1. SendingTo(v)' = SendingTo(v)
    BY <1>8 DEF vars, SendingTo
  <2> QED BY <1>0, <1>8, <2>1 DEF vars
<1> QED
  BY <1>1, <1>2, <1>3, <1>4, <1>5, <1>6, <1>7, <1>8
  DEF Next, TaskStep, WorkerStep, AllReported

\* In every interleaving of tasks and workers the atomic queue size of a
\* worker equals its load (fetch_add in execute_test, fetch_sub in
\* worker_test_is_done).
THEOREM QueueSizesExact == Safe => []QueueSizeExact
<1>1. Init => QueueSizeExact
  <2> SUFFICES ASSUME Init, NEW w \in Workers
               PROVE  queue_size[w] = Load(w)
    BY DEF QueueSizeExact, Load
  <2>1. SendingTo(w) = {}
    BY DEF Init, SendingTo, Idle
  <2> QED BY <2>1, FS_EmptySet DEF Init, Load
<1> QED BY <1>1, TInvInit, TInvStep, ExactStep, PTL DEF Safe

-----------------------------------------------------------------------------
(***************************************************************************)
(* Where a job is.                                                         *)
(***************************************************************************)
InTodo(j) == {s \in Senders : j \in todo[s]}

InTask(j) == {s \in Senders : task[s].job = j}

InChannel(j) ==
    {p \in Workers \X (1..BUFFER_SIZE) :
        p[2] <= Len(channel[p[1]]) /\ channel[p[1]][p[2]] = j}

InWorker(j) == {w \in Workers : worker[w].job = j}

\* Exactly one of the five places has the job, and once.
Single(X) == \E x : X = {x}

OnePlace(j) ==
    \/ /\ Single(InTodo(j)) /\ InTask(j) = {} /\ InChannel(j) = {}
       /\ InWorker(j) = {} /\ j \notin finished
    \/ /\ InTodo(j) = {} /\ Single(InTask(j)) /\ InChannel(j) = {}
       /\ InWorker(j) = {} /\ j \notin finished
    \/ /\ InTodo(j) = {} /\ InTask(j) = {} /\ Single(InChannel(j))
       /\ InWorker(j) = {} /\ j \notin finished
    \/ /\ InTodo(j) = {} /\ InTask(j) = {} /\ InChannel(j) = {}
       /\ Single(InWorker(j)) /\ j \notin finished
    \/ /\ InTodo(j) = {} /\ InTask(j) = {} /\ InChannel(j) = {}
       /\ InWorker(j) = {} /\ j \in finished

\* A task handles its own jobs, has none between two of them, nor has a worker
\* that waits for one; no channel holds more than its capacity.
Hands ==
    /\ \A s \in Senders :
          /\ todo[s] \subseteq JobsOf[s]
          /\ task[s].pc = "next" => task[s].job = None
          /\ task[s].pc # "next" => task[s].job \in JobsOf[s]
    /\ \A w \in Workers :
          /\ worker[w].pc = "receive" => worker[w].job = None
          /\ Len(channel[w]) <= BUFFER_SIZE

PInv ==
    /\ TInv
    /\ Hands
    /\ \A j \in AllJobs : OnePlace(j)

LEMMA OneNotNone == \A j \in AllJobs : j \in Jobs /\ j # None
BY JobsAssumption DEF AllJobs

LEMMA OnePlaceOnly ==
    ASSUME NEW j, OnePlace(j)
    PROVE  /\ InTodo(j) # {} =>
                 /\ Single(InTodo(j)) /\ InTask(j) = {} /\ InChannel(j) = {}
                 /\ InWorker(j) = {} /\ j \notin finished
           /\ InTask(j) # {} =>
                 /\ InTodo(j) = {} /\ Single(InTask(j)) /\ InChannel(j) = {}
                 /\ InWorker(j) = {} /\ j \notin finished
           /\ InChannel(j) # {} =>
                 /\ InTodo(j) = {} /\ InTask(j) = {} /\ Single(InChannel(j))
                 /\ InWorker(j) = {} /\ j \notin finished
           /\ InWorker(j) # {} =>
                 /\ InTodo(j) = {} /\ InTask(j) = {} /\ InChannel(j) = {}
                 /\ Single(InWorker(j)) /\ j \notin finished
BY DEF OnePlace, Single

LEMMA HandsStep ==
    ASSUME TInv, Hands, [Next]_vars PROVE Hands'
<1> USE DEF TInv, TypeOK, Hands
<1>1. ASSUME NEW s \in Senders, NextTest(s) PROVE Hands'
  <2>1. PICK j \in todo[s] :
           /\ todo' = [todo EXCEPT ![s] = @ \ {j}]
           /\ task' = [task EXCEPT ![s] = [Idle EXCEPT !.pc = "scan", !.job = j]]
    BY <1>1 DEF NextTest
  <2>2. task'[s].pc = "scan" /\ task'[s].job = j
    BY <2>1 DEF Idle
  <2>3. \A r \in Senders : r # s => task'[r] = task[r] /\ todo'[r] = todo[r]
    BY <2>1
  <2>4. j \in JobsOf[s] /\ todo'[s] \subseteq JobsOf[s]
    BY <2>1
  <2> QED BY <1>1, <2>2, <2>3, <2>4 DEF NextTest
<1>2. ASSUME NEW s \in Senders, LoadQueueSize(s) PROVE Hands'
  <2>1. PICK i, size, index :
           task' = [task EXCEPT ![s] = [task[s] EXCEPT !.i = i,
                        !.min_queue_size = size, !.min_queue_index = index]]
    BY <1>2 DEF LoadQueueSize
  <2>2. \A r \in Senders : task'[r].pc = task[r].pc /\ task'[r].job = task[r].job
    BY <2>1
  <2> QED BY <1>2, <2>2 DEF LoadQueueSize
<1>3. ASSUME NEW s \in Senders, FetchAdd(s) PROVE Hands'
  <2>1. \A r \in Senders : task'[r].job = task[r].job
                             /\ (task'[r].pc = "next" <=> task[r].pc = "next")
    BY <1>3 DEF FetchAdd
  <2> QED BY <1>3, <2>1 DEF FetchAdd
<1>4. ASSUME NEW s \in Senders, Send(s) PROVE Hands'
  <2> DEFINE w == task[s].min_queue_index
  <2>1. w \in Workers /\ task[s].job \in Jobs /\ Len(channel[w]) < BUFFER_SIZE
    BY <1>4 DEF Send, HasJob
  <2>2. Len(channel'[w]) = Len(channel[w]) + 1
    BY <1>4, <2>1 DEF Send
  <2>3. Len(channel'[w]) <= BUFFER_SIZE
    BY <2>1, <2>2, BufferAssumption
  <2>4. \A v \in Workers : v # w => channel'[v] = channel[v]
    BY <1>4, <2>1 DEF Send
  <2>5. \A r \in Senders : task'[r] = task[r] \/ (task'[r].pc = "next" /\ task'[r].job = None)
    BY <1>4 DEF Send, Idle
  <2> QED BY <1>4, <2>3, <2>4, <2>5 DEF Send
<1>5. ASSUME NEW w \in Workers, Receive(w) PROVE Hands'
  <2>1. channel[w] \in Seq(Jobs) /\ channel[w] # <<>>
    BY <1>5 DEF Receive
  <2>2. Len(Tail(channel[w])) = Len(channel[w]) - 1
    BY <2>1
  <2>3. \A v \in Workers : Len(channel'[v]) <= BUFFER_SIZE
    BY <1>5, <2>2, BufferAssumption DEF Receive
  <2> QED BY <1>5, <2>3 DEF Receive
<1>6. ASSUME NEW w \in Workers, FetchSub(w) \/ Report(w) PROVE Hands'
  <2>1. UNCHANGED <<todo, task, channel>>
    BY <1>6 DEF FetchSub, Report
  <2>2. \A v \in Workers : worker'[v].pc = "receive" => worker'[v].job = None
    <3>1. CASE FetchSub(w)
      BY <3>1 DEF FetchSub
    <3>2. CASE Report(w)
      BY <3>2 DEF Report
    <3> QED BY <1>6, <3>1, <3>2
  <2> QED BY <2>1, <2>2
<1>7. CASE UNCHANGED vars
  BY <1>7 DEF vars
<1> QED BY <1>1, <1>2, <1>3, <1>4, <1>5, <1>6, <1>7
        DEF Next, TaskStep, WorkerStep, AllReported

LEMMA SendMoves ==
    ASSUME PInv, NEW s \in Senders, Send(s), NEW j \in AllJobs
    PROVE  OnePlace(j)'
<1> DEFINE k == task[s].job
           w == task[s].min_queue_index
           n == Len(channel[w]) + 1
<1>0. TInv /\ TypeOK /\ Hands /\ OnePlace(j) /\ j \in Jobs /\ j # None
  BY OneNotNone DEF PInv, TInv
<1>1. k \in Jobs /\ w \in Workers /\ Len(channel[w]) < BUFFER_SIZE
  BY <1>0 DEF Send, TInv, HasJob, TypeOK
<1>2. channel[w] \in Seq(Jobs) /\ n \in 1..BUFFER_SIZE
  BY <1>0, <1>1, BufferAssumption DEF TypeOK
<1>3. /\ Len(channel'[w]) = n /\ channel'[w][n] = k
      /\ \A m \in 1..Len(channel[w]) : channel'[w][m] = channel[w][m]
      /\ \A v \in Workers : v # w => channel'[v] = channel[v]
  BY <1>0, <1>1, <1>2 DEF Send, TypeOK
<1>4. InTodo(j)' = InTodo(j) /\ InWorker(j)' = InWorker(j) /\ finished' = finished
  BY DEF Send, InTodo, InWorker
<1>5. CASE j = k
  <2>1. s \in InTask(j)
    BY <1>5 DEF InTask
  <2>2. /\ InTodo(j) = {} /\ InTask(j) = {s} /\ InChannel(j) = {}
        /\ InWorker(j) = {} /\ j \notin finished
    BY <1>0, <2>1, OnePlaceOnly DEF Single
  <2>3. InTask(j)' = {}
    BY <1>0, <2>2 DEF Send, InTask, Idle, TypeOK
  <2>4. <<w, n>> \in InChannel(j)'
    BY <1>1, <1>2, <1>3, <1>5 DEF InChannel
  <2>5. ASSUME NEW p \in InChannel(j)' PROVE p = <<w, n>>
    <3>1. /\ p \in Workers \X (1..BUFFER_SIZE)
          /\ p[2] <= Len(channel'[p[1]]) /\ channel'[p[1]][p[2]] = j
      BY DEF InChannel
    <3>2. p \notin InChannel(j)
      BY <2>2
    <3>3. p[1] = w
      BY <1>3, <3>1, <3>2 DEF InChannel
    <3>4. p[2] = n
      <4>1. p[2] \in Int /\ 1 <= p[2] /\ p[2] <= n /\ Len(channel[w]) \in Nat
        BY <1>2, <1>3, <3>1, <3>3, BufferAssumption
      <4>2. CASE p[2] <= Len(channel[w])
        <5>1. p[2] \in 1..Len(channel[w])
          BY <4>1, <4>2
        <5>2. channel[w][p[2]] = j
          BY <1>3, <3>1, <3>3, <5>1
        <5> QED BY <3>1, <3>2, <3>3, <4>2, <5>2 DEF InChannel
      <4> QED BY <4>1, <4>2
    <3> QED BY <3>1, <3>3, <3>4
  <2>6. Single(InChannel(j)')
    BY <2>4, <2>5 DEF Single
  <2> QED BY <1>4, <2>2, <2>3, <2>6 DEF OnePlace, Single
<1>6. CASE j # k
  <2>1. InTask(j)' = InTask(j)
    BY <1>0, <1>6 DEF Send, InTask, Idle, TypeOK
  <2>2. InChannel(j)' = InChannel(j)
    <3>1. ASSUME NEW p \in Workers \X (1..BUFFER_SIZE)
          PROVE  p \in InChannel(j)' <=> p \in InChannel(j)
      <4>1. CASE p[1] # w
        BY <1>3, <4>1 DEF InChannel
      <4>2. CASE p[1] = w
        <5>1. p[2] \in Int /\ 1 <= p[2] /\ Len(channel[w]) \in Nat
          BY <1>2, BufferAssumption
        <5>2. CASE p[2] <= Len(channel[w])
          <6>1. p[2] \in 1..Len(channel[w]) /\ p[2] <= n
            BY <5>1, <5>2
          <6>2. channel'[w][p[2]] = channel[w][p[2]] /\ p[2] <= Len(channel'[w])
            BY <1>3, <6>1
          <6> QED BY <4>2, <5>2, <6>2 DEF InChannel
        <5>3. CASE p[2] > Len(channel[w])
          <6>1. p[2] <= Len(channel'[w]) => p[2] = n
            BY <1>3, <5>1, <5>3
          <6>2. p \notin InChannel(j)
            BY <4>2, <5>1, <5>3 DEF InChannel
          <6>3. p \notin InChannel(j)'
            BY <1>3, <1>6, <4>2, <6>1 DEF InChannel
          <6> QED BY <6>2, <6>3
        <5> QED BY <5>1, <5>2, <5>3
      <4> QED BY <4>1, <4>2
    <3> QED BY <3>1 DEF InChannel
  <2> QED BY <1>0, <1>4, <2>1, <2>2 DEF OnePlace, Single
<1> QED BY <1>5, <1>6

\* The other jobs of the channel move up by one.
LEMMA ReceiveMoves ==
    ASSUME PInv, NEW w \in Workers, Receive(w), NEW j \in AllJobs
    PROVE  OnePlace(j)'
<1> DEFINE k == Head(channel[w])
<1>0. TInv /\ TypeOK /\ Hands /\ OnePlace(j) /\ j \in Jobs /\ j # None
  BY OneNotNone DEF PInv, TInv
<1>1. channel[w] \in Seq(Jobs) /\ channel[w] # <<>> /\ Len(channel[w]) \in 1..BUFFER_SIZE
  <2>1. channel[w] \in Seq(Jobs) /\ channel[w] # <<>> /\ Len(channel[w]) <= BUFFER_SIZE
    BY <1>0 DEF Receive, TypeOK, Hands
  <2> QED BY <2>1, BufferAssumption
<1>2. /\ channel[w][1] = k
      /\ Len(channel'[w]) = Len(channel[w]) - 1
      /\ \A m \in 1..(Len(channel[w]) - 1) : channel'[w][m] = channel[w][m + 1]
      /\ \A v \in Workers : v # w => channel'[v] = channel[v]
  BY <1>0, <1>1 DEF Receive, TypeOK
<1>3. InTodo(j)' = InTodo(j) /\ InTask(j)' = InTask(j) /\ finished' = finished
  BY DEF Receive, InTodo, InTask
<1>4. /\ worker[w].job = None /\ worker'[w].job = k
      /\ \A v \in Workers : v # w => worker'[v] = worker[v]
  BY <1>0 DEF Receive, Hands, TypeOK
<1>5. ASSUME NEW p \in InChannel(j)'
      PROVE  \/ p[1] # w /\ p \in InChannel(j)
             \/ p[1] = w /\ p[2] + 1 \in 1..BUFFER_SIZE /\ <<w, p[2] + 1>> \in InChannel(j)
  <2>1. /\ p \in Workers \X (1..BUFFER_SIZE)
        /\ p[2] <= Len(channel'[p[1]]) /\ channel'[p[1]][p[2]] = j
    BY DEF InChannel
  <2>2. CASE p[1] # w
    BY <1>2, <2>1, <2>2 DEF InChannel
  <2>3. CASE p[1] = w
    <3>1. p[2] \in 1..(Len(channel[w]) - 1) /\ p[2] + 1 \in 1..BUFFER_SIZE
      <4>1. p[2] \in Int /\ 1 <= p[2] /\ p[2] <= Len(channel[w]) - 1
              /\ Len(channel[w]) \in Int /\ Len(channel[w]) <= BUFFER_SIZE
        BY <1>1, <1>2, <2>1, <2>3, BufferAssumption
      <4> QED BY <4>1, BufferAssumption
    <3>2. channel[w][p[2] + 1] = j
      BY <1>2, <2>1, <2>3, <3>1
    <3> QED BY <1>1, <2>3, <3>1, <3>2 DEF InChannel
  <2> QED BY <2>2, <2>3
<1>6. CASE j = k
  <2>1. <<w, 1>> \in InChannel(j)
    <3>1. 1 \in 1..BUFFER_SIZE /\ 1 <= Len(channel[w])
      BY <1>1, BufferAssumption
    <3> QED BY <1>2, <1>6, <3>1 DEF InChannel
  <2>2. /\ InTodo(j) = {} /\ InTask(j) = {} /\ InChannel(j) = {<<w, 1>>}
        /\ InWorker(j) = {} /\ j \notin finished
    BY <1>0, <2>1, OnePlaceOnly DEF Single
  <2>3. InChannel(j)' = {}
    <3> SUFFICES ASSUME NEW p \in InChannel(j)' PROVE FALSE
      OBVIOUS
    <3>1. p \in Workers \X (1..BUFFER_SIZE)
      BY DEF InChannel
    <3>2. CASE p[1] # w /\ p \in InChannel(j)
      BY <2>2, <3>2
    <3>3. CASE p[1] = w /\ <<w, p[2] + 1>> \in InChannel(j)
      <4>1. p[2] + 1 = 1
        BY <2>2, <3>3
      <4> QED BY <3>1, <4>1
    <3> QED BY <1>5, <3>2, <3>3
  <2>4. InWorker(j)' = {w}
    BY <1>4, <1>6, <2>2 DEF InWorker
  <2> QED BY <1>3, <2>2, <2>3, <2>4 DEF OnePlace, Single
<1>7. CASE j # k
  <2>1. InWorker(j)' = InWorker(j)
    BY <1>0, <1>4, <1>7 DEF InWorker
  <2>2. CASE InChannel(j) = {}
    <3>1. InChannel(j)' = {}
      BY <1>5, <2>2
    <3> QED BY <1>0, <1>3, <2>1, <2>2, <3>1 DEF OnePlace, Single
  <2>3. CASE InChannel(j) # {}
    <3>1. /\ InTodo(j) = {} /\ InTask(j) = {} /\ Single(InChannel(j))
          /\ InWorker(j) = {} /\ j \notin finished
      BY <1>0, <2>3, OnePlaceOnly
    <3>2. PICK q : InChannel(j) = {q}
      BY <3>1 DEF Single
    <3>3. /\ q \in Workers \X (1..BUFFER_SIZE)
          /\ q[2] <= Len(channel[q[1]]) /\ channel[q[1]][q[2]] = j
      <4>1. q \in InChannel(j)
        BY <3>2
      <4> QED BY <4>1 DEF InChannel
    <3>4. Single(InChannel(j)')
      <4>1. CASE q[1] # w
        <5>1. q \in InChannel(j)'
          BY <1>2, <3>3, <4>1 DEF InChannel
        <5>2. ASSUME NEW p \in InChannel(j)' PROVE p = q
          <6>1. p \in InChannel(j) \/ <<w, p[2] + 1>> \in InChannel(j)
            BY <1>5
          <6>2. <<w, p[2] + 1>> # q
            BY <4>1
          <6> QED BY <3>2, <6>1, <6>2
        <5> QED BY <5>1, <5>2 DEF Single
      <4>2. CASE q[1] = w
        <5>1. q[2] # 1
          BY <1>2, <1>7, <3>3, <4>2
        <5>2. q[2] \in 2..Len(channel[w]) /\ q[2] - 1 \in 1..BUFFER_SIZE
                /\ q[2] - 1 \in 1..(Len(channel[w]) - 1)
          <6>1. q[2] \in Int /\ 1 <= q[2] /\ q[2] <= Len(channel[w])
                  /\ Len(channel[w]) \in Int /\ Len(channel[w]) <= BUFFER_SIZE
            BY <1>1, <3>3, <4>2, BufferAssumption
          <6> QED BY <5>1, <6>1, BufferAssumption
        <5>3. channel'[w][q[2] - 1] = j
          <6>1. channel'[w][q[2] - 1] = channel[w][(q[2] - 1) + 1]
            BY <1>2, <5>2
          <6>2. (q[2] - 1) + 1 = q[2]
            BY <5>2
          <6> QED BY <3>3, <4>2, <6>1, <6>2
        <5>4. <<w, q[2] - 1>> \in InChannel(j)'
          BY <1>2, <5>2, <5>3 DEF InChannel
        <5>5. ASSUME NEW p \in InChannel(j)' PROVE p = <<w, q[2] - 1>>
          <6>1. p \in Workers \X (1..BUFFER_SIZE)
            BY DEF InChannel
          <6>2. CASE p[1] # w /\ p \in InChannel(j)
            BY <3>2, <4>2, <6>2
          <6>3. CASE p[1] = w /\ <<w, p[2] + 1>> \in InChannel(j)
            <7>1. <<w, p[2] + 1>> = q
              BY <3>2, <6>3
            <7>2. q[2] = p[2] + 1
              BY <7>1
            <7>3. p[2] = q[2] - 1
              BY <6>1, <7>2
            <7> QED BY <6>1, <6>3, <7>3
          <6> QED BY <1>5, <6>2, <6>3
        <5> QED BY <5>4, <5>5 DEF Single
      <4> QED BY <4>1, <4>2
    <3> QED BY <1>3, <2>1, <3>1, <3>4 DEF OnePlace, Single
  <2> QED BY <2>2, <2>3
<1> QED BY <1>6, <1>7

LEMMA OnePlaceStep ==
    ASSUME PInv, [Next]_vars, NEW j \in AllJobs
    PROVE  OnePlace(j)'
<1>0. TInv /\ TypeOK /\ Hands /\ OnePlace(j) /\ j \in Jobs /\ j # None
  BY OneNotNone DEF PInv, TInv
<1>1. ASSUME NEW s \in Senders, NextTest(s) PROVE OnePlace(j)'
  <2>1. PICK k \in todo[s] :
           /\ todo' = [todo EXCEPT ![s] = @ \ {k}]
           /\ task' = [task EXCEPT ![s] = [Idle EXCEPT !.pc = "scan", !.job = k]]
    BY <1>1 DEF NextTest
  <2>2. /\ InChannel(j)' = InChannel(j) /\ InWorker(j)' = InWorker(j)
        /\ finished' = finished
    BY <1>1 DEF NextTest, InChannel, InWorker
  <2>3. task[s].job = None /\ task'[s].job = k
    BY <1>0, <1>1, <2>1 DEF NextTest, Hands, Idle, TypeOK
  <2>4. CASE j = k
    <3>1. s \in InTodo(j)
      BY <2>1, <2>4 DEF InTodo
    <3>2. /\ InTodo(j) = {s} /\ InTask(j) = {} /\ InChannel(j) = {}
          /\ InWorker(j) = {} /\ j \notin finished
      BY <1>0, <3>1, OnePlaceOnly DEF Single
    <3>3. InTodo(j)' = {} /\ InTask(j)' = {s}
      BY <1>0, <2>1, <2>3, <2>4, <3>2 DEF InTodo, InTask, TypeOK
    <3> QED BY <2>2, <3>2, <3>3 DEF OnePlace, Single
  <2>5. CASE j # k
    <3>1. InTodo(j)' = InTodo(j) /\ InTask(j)' = InTask(j)
      BY <1>0, <2>1, <2>3, <2>5 DEF InTodo, InTask, TypeOK
    <3> QED BY <1>0, <2>2, <3>1 DEF OnePlace, Single
  <2> QED BY <2>4, <2>5
<1>2. ASSUME NEW s \in Senders, LoadQueueSize(s) \/ FetchAdd(s) PROVE OnePlace(j)'
  <2>1. \A r \in Senders : task'[r].job = task[r].job
    <3>1. CASE LoadQueueSize(s)
      <4>1. PICK i, size, index :
               task' = [task EXCEPT ![s] = [task[s] EXCEPT !.i = i,
                            !.min_queue_size = size, !.min_queue_index = index]]
        BY <3>1 DEF LoadQueueSize
      <4> QED BY <1>0, <4>1 DEF TypeOK
    <3>2. CASE FetchAdd(s)
      BY <1>0, <3>2 DEF FetchAdd, TypeOK
    <3> QED BY <1>2, <3>1, <3>2
  <2>2. UNCHANGED <<todo, channel, worker, finished>>
    BY <1>2 DEF LoadQueueSize, FetchAdd
  <2>3. /\ InTodo(j)' = InTodo(j) /\ InTask(j)' = InTask(j)
        /\ InChannel(j)' = InChannel(j) /\ InWorker(j)' = InWorker(j)
    BY <2>1, <2>2 DEF InTodo, InTask, InChannel, InWorker
  <2> QED BY <1>0, <2>2, <2>3 DEF OnePlace, Single
<1>3. ASSUME NEW w \in Workers, FetchSub(w) PROVE OnePlace(j)'
  <2>1. \A v \in Workers : worker'[v].job = worker[v].job
    BY <1>0, <1>3 DEF FetchSub, TypeOK
  <2>2. /\ InTodo(j)' = InTodo(j) /\ InTask(j)' = InTask(j)
        /\ InChannel(j)' = InChannel(j) /\ InWorker(j)' = InWorker(j)
        /\ finished' = finished
    BY <1>3, <2>1 DEF FetchSub, InTodo, InTask, InChannel, InWorker
  <2> QED BY <1>0, <2>2 DEF OnePlace, Single
<1>4. ASSUME NEW w \in Workers, Report(w) PROVE OnePlace(j)'
  <2>1. /\ InTodo(j)' = InTodo(j) /\ InTask(j)' = InTask(j) /\ InChannel(j)' = InChannel(j)
        /\ finished' = finished \cup {worker[w].job}
    BY <1>4 DEF Report, InTodo, InTask, InChannel
  <2>2. /\ worker'[w].job = None
        /\ \A v \in Workers : v # w => worker'[v] = worker[v]
    BY <1>0, <1>4 DEF Report, TypeOK
  <2>3. CASE j = worker[w].job
    <3>1. w \in InWorker(j)
      BY <2>3 DEF InWorker
    <3>2. /\ InTodo(j) = {} /\ InTask(j) = {} /\ InChannel(j) = {} /\ InWorker(j) = {w}
      BY <1>0, <3>1, OnePlaceOnly DEF Single
    <3>3. InWorker(j)' = {} /\ j \in finished'
      BY <1>0, <2>1, <2>2, <2>3, <3>2 DEF InWorker
    <3> QED BY <2>1, <3>2, <3>3 DEF OnePlace
  <2>4. CASE j # worker[w].job
    <3>1. InWorker(j)' = InWorker(j) /\ (j \in finished' <=> j \in finished)
      BY <1>0, <2>1, <2>2, <2>4 DEF InWorker
    <3> QED BY <1>0, <2>1, <3>1 DEF OnePlace, Single
  <2> QED BY <2>3, <2>4
<1>5. CASE UNCHANGED vars
  <2>1. /\ InTodo(j)' = InTodo(j) /\ InTask(j)' = InTask(j)
        /\ InChannel(j)' = InChannel(j) /\ InWorker(j)' = InWorker(j)
        /\ finished' = finished
    BY <1>5 DEF vars, InTodo, InTask, InChannel, InWorker
  <2> QED BY <1>0, <2>1 DEF OnePlace, Single
<1> QED BY <1>1, <1>2, <1>3, <1>4, <1>5, SendMoves, ReceiveMoves
        DEF Next, TaskStep, WorkerStep, AllReported

LEMMA PInvInit == Init => PInv
<1> SUFFICES ASSUME Init PROVE PInv
  OBVIOUS
<1>1. TInv
  BY TInvInit
<1>2. Hands
  BY BufferAssumption DEF Init, Hands, Idle
<1>3. ASSUME NEW j \in AllJobs PROVE OnePlace(j)
  <2>1. PICK s \in Senders : j \in JobsOf[s]
    BY DEF AllJobs
  <2>2. InTodo(j) = {s}
    BY <2>1, JobsAssumption DEF Init, InTodo
  <2>3. InTask(j) = {} /\ InWorker(j) = {} /\ InChannel(j) = {} /\ j \notin finished
    <3>1. InTask(j) = {} /\ InWorker(j) = {}
      BY <1>3, OneNotNone DEF Init, InTask, InWorker, Idle
    <3>2. InChannel(j) = {}
      BY BufferAssumption DEF Init, InChannel
    <3> QED BY <3>1, <3>2 DEF Init
  <2> QED BY <2>2, <2>3 DEF OnePlace, Single
<1> QED BY <1>1, <1>2, <1>3 DEF PInv

LEMMA PInvStep == PInv /\ [Next]_vars => PInv'
BY TInvStep, HandsStep, OnePlaceStep DEF PInv, AllJobs

LEMMA PInvInvariant == Safe => []PInv
BY PInvInit, PInvStep, PTL DEF Safe

LEMMA PlacesOfParts ==
    ASSUME NEW j
    PROVE  Places(j) = {<<"todo", s>> : s \in InTodo(j)}
                         \cup {<<"task", s>> : s \in InTask(j)}
                         \cup {<<"channel", p>> : p \in InChannel(j)}
                         \cup {<<"worker", w>> : w \in InWorker(j)}
                         \cup (IF j \in finished THEN {<<"finished">>} ELSE {})
BY DEF Places, InTodo, InTask, InChannel, InWorker

\* A test is in one place from the moment its task starts to hand tests over
\* until a worker reports it (execute_test, worker, worker_test_is_done).
THEOREM JobsAreInOnePlace == Safe => []EachJobInOnePlace
<1>1. PInv => EachJobInOnePlace
  <2> SUFFICES ASSUME PInv, NEW s \in Senders, NEW j \in JobsOf[s]
               PROVE  Cardinality(Places(j)) = 1
    BY DEF EachJobInOnePlace
  <2>1. OnePlace(j)
    BY DEF PInv, AllJobs
  <2>2. \E x : Places(j) = {x}
    <3>1. CASE Single(InTodo(j)) /\ InTask(j) = {} /\ InChannel(j) = {}
                 /\ InWorker(j) = {} /\ j \notin finished
      <4>1. PICK s1 : InTodo(j) = {s1}
        BY <3>1 DEF Single
      <4>2. Places(j) = {<<"todo", s1>>}
        BY <3>1, <4>1, PlacesOfParts
      <4> QED BY <4>2
    <3>2. CASE InTodo(j) = {} /\ Single(InTask(j)) /\ InChannel(j) = {}
                 /\ InWorker(j) = {} /\ j \notin finished
      <4>1. PICK s1 : InTask(j) = {s1}
        BY <3>2 DEF Single
      <4>2. Places(j) = {<<"task", s1>>}
        BY <3>2, <4>1, PlacesOfParts
      <4> QED BY <4>2
    <3>3. CASE InTodo(j) = {} /\ InTask(j) = {} /\ Single(InChannel(j))
                 /\ InWorker(j) = {} /\ j \notin finished
      <4>1. PICK p : InChannel(j) = {p}
        BY <3>3 DEF Single
      <4>2. Places(j) = {<<"channel", p>>}
        BY <3>3, <4>1, PlacesOfParts
      <4> QED BY <4>2
    <3>4. CASE InTodo(j) = {} /\ InTask(j) = {} /\ InChannel(j) = {}
                 /\ Single(InWorker(j)) /\ j \notin finished
      <4>1. PICK w : InWorker(j) = {w}
        BY <3>4 DEF Single
      <4>2. Places(j) = {<<"worker", w>>}
        BY <3>4, <4>1, PlacesOfParts
      <4> QED BY <4>2
    <3>5. CASE InTodo(j) = {} /\ InTask(j) = {} /\ InChannel(j) = {}
                 /\ InWorker(j) = {} /\ j \in finished
      BY <3>5, PlacesOfParts
    <3> QED BY <2>1, <3>1, <3>2, <3>3, <3>4, <3>5 DEF OnePlace
  <2> QED BY <2>2, FS_Singleton
<1> QED BY <1>1, PInvInvariant, PTL

-----------------------------------------------------------------------------
(***************************************************************************)
(* The worker pool implements the job pool.                                *)
(***************************************************************************)
\* Only tests of the submissions are sent to workers.
Known == \A w \in Workers : channel[w] \in Seq(AllJobs)

LEMMA KnownStep ==
    ASSUME TInv, Hands, Known, [Next]_vars PROVE Known'
<1>1. ASSUME NEW s \in Senders, Send(s) PROVE Known'
  <2> DEFINE k == task[s].job
             w == task[s].min_queue_index
  <2>1. k \in AllJobs /\ w \in Workers
    <3>1. k \in JobsOf[s] /\ w \in Workers
      BY <1>1 DEF Hands, Send, TInv, TypeOK
    <3> QED BY <3>1 DEF AllJobs
  <2>2. \A v \in Workers : channel'[v] = channel[v] \/ channel'[v] = Append(channel[v], k)
    BY <1>1 DEF Send, TInv, TypeOK
  <2> HIDE DEF k
  <2>a. \A q \in Seq(AllJobs) : Append(q, k) \in Seq(AllJobs)
    BY <2>1
  <2>3. \A v \in Workers : channel'[v] \in Seq(AllJobs)
    BY <2>2, <2>a DEF Known
  <2> QED BY <2>3 DEF Known, AllJobs
<1>2. ASSUME NEW w \in Workers, Receive(w) PROVE Known'
  <2>1. channel[w] # <<>>
    BY <1>2 DEF Receive
  <2>2. \A v \in Workers : channel'[v] = channel[v] \/ (v = w /\ channel'[v] = Tail(channel[v]))
    BY <1>2 DEF Receive, TInv, TypeOK
  <2>3. \A v \in Workers : channel'[v] \in Seq(AllJobs)
    <3>1. Tail(channel[w]) \in Seq(AllJobs)
      BY <2>1 DEF Known
    <3> QED BY <2>2, <3>1 DEF Known
  <2> QED BY <2>3 DEF Known, AllJobs
<1>3. CASE UNCHANGED channel
  BY <1>3 DEF Known, AllJobs
<1> QED BY <1>1, <1>2, <1>3 DEF Next, TaskStep, WorkerStep, AllReported, vars,
           NextTest, LoadQueueSize, FetchAdd, FetchSub, Report

LEMMA KnownInvariant == Safe => []Known
<1>1. Init => Known
  BY DEF Init, Known
<1> QED BY <1>1, PInvInit, PInvStep, KnownStep, PTL DEF Safe, PInv

\* The jobs in all the channels.
InChannels == UNION {Queued(w) : w \in Workers}

LEMMA InChannelsElements ==
    ASSUME NEW x
    PROVE  x \in InChannels <=>
             \E w \in Workers : \E n \in 1..Len(channel[w]) : channel[w][n] = x
BY DEF InChannels, Queued

LEMMA SendHandsOver ==
    ASSUME PInv, NEW s \in Senders, Send(s)
    PROVE  JP!HandOver(task[s].job) /\ task[s].job \in AllJobs
<1> DEFINE k == task[s].job
           w == task[s].min_queue_index
<1>0. TInv /\ TypeOK /\ Hands
  BY DEF PInv, TInv
<1>1. k \in AllJobs /\ w \in Workers
  BY <1>0 DEF Send, Hands, AllJobs, TypeOK
<1>2. /\ InTodo(k) = {} /\ InChannel(k) = {} /\ InWorker(k) = {} /\ k \notin finished
  <2>1. s \in InTask(k)
    BY DEF InTask
  <2> QED BY <1>1, <2>1, OnePlaceOnly DEF PInv
<1>3. k \notin InChannels
  <2> SUFFICES ASSUME NEW v \in Workers, NEW n \in 1..Len(channel[v]),
                      channel[v][n] = k
               PROVE  FALSE
    BY InChannelsElements
  <2>1. n \in 1..BUFFER_SIZE
    BY <1>0, BufferAssumption DEF Hands, TypeOK
  <2>2. <<v, n>> \in InChannel(k)
    BY <2>1 DEF InChannel
  <2> QED BY <1>2, <2>2
<1>4. channel[w] \in Seq(Jobs) /\ k \in Jobs
  BY <1>0, <1>1, OneNotNone DEF TypeOK
<1>5. /\ Len(channel'[w]) = Len(channel[w]) + 1 /\ channel'[w][Len(channel[w]) + 1] = k
      /\ \A m \in 1..Len(channel[w]) : channel'[w][m] = channel[w][m]
      /\ \A v \in Workers : v # w => channel'[v] = channel[v]
      /\ Len(channel[w]) \in Nat
  BY <1>0, <1>1, <1>4 DEF Send, TypeOK
<1>6. ASSUME NEW x PROVE x \in InChannels' <=> x \in InChannels \cup {k}
  <2>1. x \in InChannels' <=>
          \E v \in Workers : \E n \in 1..Len(channel'[v]) : channel'[v][n] = x
    BY DEF InChannels, Queued
  <2>2. ASSUME NEW v \in Workers, NEW n \in 1..Len(channel'[v]), channel'[v][n] = x
        PROVE  x \in InChannels \cup {k}
    <3>1. CASE v # w
      BY <1>5, <2>2, <3>1, InChannelsElements
    <3>2. CASE v = w /\ n = Len(channel[w]) + 1
      BY <1>5, <2>2, <3>2
    <3>3. CASE v = w /\ n # Len(channel[w]) + 1
      <4>1. n \in 1..Len(channel[w])
        BY <1>5, <3>3
      <4>2. channel[w][n] = x
        BY <1>5, <2>2, <3>3, <4>1
      <4> QED BY <1>1, <4>1, <4>2, InChannelsElements
    <3> QED BY <3>1, <3>2, <3>3
  <2>3. ASSUME x \in InChannels PROVE x \in InChannels'
    <3>1. PICK v \in Workers : \E n \in 1..Len(channel[v]) : channel[v][n] = x
      BY <2>3, InChannelsElements
    <3>2. PICK n \in 1..Len(channel[v]) : channel[v][n] = x
      BY <3>1
    <3>3. n \in 1..Len(channel'[v]) /\ channel'[v][n] = x
      BY <1>5, <3>2
    <3> QED BY <2>1, <3>3
  <2>4. ASSUME x = k PROVE x \in InChannels'
    <3>1. Len(channel[w]) + 1 \in 1..Len(channel'[w])
      BY <1>5
    <3> QED BY <1>1, <1>5, <2>1, <2>4, <3>1
  <2> QED BY <2>1, <2>2, <2>3, <2>4
<1>7. InChannels' = InChannels \cup {k}
  BY <1>6
<1>8. JP!Fresh(k)
  BY <1>2, <1>3 DEF JP!Fresh, InChannels, InWorker
<1>9. UNCHANGED <<worker, finished>>
  BY DEF Send
<1> QED BY <1>1, <1>7, <1>8, <1>9 DEF JP!HandOver, InChannels

LEMMA ReceiveTakes ==
    ASSUME PInv, Known, NEW w \in Workers, Receive(w)
    PROVE  JP!Take(w, Head(channel[w])) /\ Head(channel[w]) \in AllJobs
<1> DEFINE k == Head(channel[w])
<1>0. TInv /\ TypeOK /\ Hands
  BY DEF PInv, TInv
<1>1. /\ channel[w] \in Seq(AllJobs) /\ channel[w] # <<>>
      /\ k \in AllJobs /\ k = channel[w][1] /\ Len(channel[w]) \in Nat /\ 1 <= Len(channel[w])
  BY DEF Receive, Known
<1>2. /\ Len(channel'[w]) = Len(channel[w]) - 1
      /\ \A m \in 1..(Len(channel[w]) - 1) : channel'[w][m] = channel[w][m + 1]
      /\ \A v \in Workers : v # w => channel'[v] = channel[v]
  BY <1>0, <1>1 DEF Receive, TypeOK
<1>3. InChannel(k) = {<<w, 1>>}
  <2>1. 1 \in 1..BUFFER_SIZE
    BY BufferAssumption
  <2>2. <<w, 1>> \in InChannel(k)
    BY <1>1, <2>1 DEF InChannel
  <2>3. Single(InChannel(k))
    BY <1>1, <2>2, OnePlaceOnly DEF PInv
  <2> QED BY <2>2, <2>3 DEF Single
<1>4. ASSUME NEW v \in Workers, NEW n \in 1..Len(channel[v]), channel[v][n] = k
      PROVE  v = w /\ n = 1
  <2>1. n \in 1..BUFFER_SIZE
    BY <1>0, BufferAssumption DEF Hands, TypeOK
  <2>2. <<v, n>> \in InChannel(k)
    BY <1>4, <2>1 DEF InChannel
  <2> QED BY <1>3, <2>2
<1>5. ASSUME NEW x PROVE x \in InChannels' <=> x \in InChannels \ {k}
  <2>1. x \in InChannels' <=>
          \E v \in Workers : \E n \in 1..Len(channel'[v]) : channel'[v][n] = x
    BY DEF InChannels, Queued
  <2>2. ASSUME NEW v \in Workers, NEW n \in 1..Len(channel'[v]), channel'[v][n] = x
        PROVE  x \in InChannels \ {k}
    <3>1. CASE v # w
      <4>1. n \in 1..Len(channel[v]) /\ channel[v][n] = x
        BY <1>2, <2>2, <3>1
      <4> QED BY <1>4, <3>1, <4>1, InChannelsElements
    <3>2. CASE v = w
      <4>1. /\ n + 1 \in 1..Len(channel[w]) /\ n \in 1..(Len(channel[w]) - 1)
            /\ n + 1 # 1
        BY <1>1, <1>2, <3>2
      <4>2. channel[w][n + 1] = x
        BY <1>2, <2>2, <3>2, <4>1
      <4> QED BY <1>4, <4>1, <4>2, InChannelsElements
    <3> QED BY <3>1, <3>2
  <2>3. ASSUME x \in InChannels, x # k PROVE x \in InChannels'
    <3>1. PICK v \in Workers : \E n \in 1..Len(channel[v]) : channel[v][n] = x
      BY <2>3, InChannelsElements
    <3>2. PICK n \in 1..Len(channel[v]) : channel[v][n] = x
      BY <3>1
    <3>3. CASE v # w
      BY <1>2, <2>1, <3>2, <3>3
    <3>4. CASE v = w
      <4>1. n # 1
        BY <1>1, <2>3, <3>2, <3>4
      <4>2. /\ n - 1 \in 1..Len(channel'[w]) /\ n - 1 \in 1..(Len(channel[w]) - 1)
            /\ (n - 1) + 1 = n
        BY <1>1, <1>2, <3>4, <4>1
      <4>3. channel'[w][n - 1] = channel[w][(n - 1) + 1]
        BY <1>2, <4>2
      <4>4. channel'[w][n - 1] = x
        BY <3>2, <3>4, <4>2, <4>3
      <4> QED BY <2>1, <4>2, <4>4
    <3> QED BY <3>3, <3>4
  <2> QED BY <2>1, <2>2, <2>3
<1>6. InChannels' = InChannels \ {k}
  BY <1>5
<1>7. k \in InChannels
  <2>1. 1 \in 1..Len(channel[w])
    BY <1>1
  <2> QED BY <1>1, <2>1, InChannelsElements
<1>8. worker[w].job = None
  BY <1>0 DEF Receive, Hands
<1>9. /\ [v \in Workers |-> worker'[v].job] =
             [[v \in Workers |-> worker[v].job] EXCEPT ![w] = k]
      /\ finished' = finished
  BY <1>0 DEF Receive, TypeOK
<1> QED BY <1>1, <1>6, <1>7, <1>8, <1>9 DEF JP!Take, InChannels

LEMMA ReportFinishes ==
    ASSUME PInv, NEW w \in Workers, Report(w)
    PROVE  JP!Finish(w)
<1>1. TypeOK /\ worker[w].job # None
  BY JobsAssumption DEF PInv, TInv, HasJob, Report
<1>2. /\ [v \in Workers |-> worker'[v].job] =
             [[v \in Workers |-> worker[v].job] EXCEPT ![w] = None]
      /\ finished' = finished \cup {worker[w].job} /\ channel' = channel
  BY <1>1 DEF Report, TypeOK
<1>3. InChannels' = InChannels
  BY <1>2 DEF InChannels, Queued
<1> QED BY <1>1, <1>2, <1>3 DEF JP!Finish, InChannels

\* Every step of a task or a worker is a step of the job pool or leaves it
\* unchanged: sending hands a test over, receiving takes it, reporting
\* finishes it; the scan and the counters do not show (worker.rs).
THEOREM WorkerPoolImplementsJobPool == Safe => JP!Safe
<1>1. Init => JP!Init
  <2> SUFFICES ASSUME Init PROVE JP!Init
    OBVIOUS
  <2>1. \A w \in Workers : Queued(w) = {}
    BY DEF Init, Queued
  <2>2. InChannels = {}
    BY <2>1 DEF InChannels
  <2> QED BY <2>2 DEF JP!Init, Init, InChannels
<1>2. PInv /\ Known /\ [Next]_vars => [JP!Next]_(JP!vars)
  <2> SUFFICES ASSUME PInv, Known, [Next]_vars PROVE JP!Next \/ UNCHANGED JP!vars
    OBVIOUS
  <2>1. ASSUME UNCHANGED <<channel, finished>>,
               \A w \in Workers : worker'[w].job = worker[w].job
        PROVE  UNCHANGED JP!vars
    BY <2>1 DEF JP!vars, Queued
  <2>2. ASSUME NEW s \in Senders, Send(s) PROVE JP!Next
    BY <2>2, SendHandsOver DEF JP!Next
  <2>3. ASSUME NEW w \in Workers, Receive(w) PROVE JP!Next
    <3>1. JP!Take(w, Head(channel[w])) /\ Head(channel[w]) \in AllJobs
      BY <2>3, ReceiveTakes
    <3>2. PICK j \in AllJobs : j = Head(channel[w])
      BY <3>1
    <3>3. JP!Take(w, j)
      BY <3>1, <3>2 DEF JP!Take
    <3> QED BY <3>3 DEF JP!Next
  <2>4. ASSUME NEW w \in Workers, Report(w) PROVE JP!Next
    BY <2>4, ReportFinishes DEF JP!Next
  <2>5. ASSUME NEW w \in Workers, FetchSub(w) PROVE UNCHANGED JP!vars
    BY <2>1, <2>5 DEF FetchSub, PInv, TInv, TypeOK
  <2>6. CASE UNCHANGED <<channel, worker, finished>>
    BY <2>1, <2>6
  <2> QED BY <2>2, <2>3, <2>4, <2>5, <2>6 DEF Next, TaskStep, WorkerStep,
             NextTest, LoadQueueSize, FetchAdd, AllReported, vars
<1> QED BY <1>1, <1>2, PInvInvariant, KnownInvariant, PTL DEF Safe, JP!Safe

-----------------------------------------------------------------------------
(***************************************************************************)
(* How unevenly concurrent scans can load the workers.                     *)
(***************************************************************************)
\* The tests no task has counted at a worker yet, and the others.
Waiting(j) ==
    \E s \in Senders : j \in todo[s] \/ (task[s].pc = "scan" /\ task[s].job = j)

Assigned == {j \in AllJobs : ~Waiting(j)}

\* c[w] tests have been counted at worker w so far: a counter never exceeds
\* it, so no minimum of a scan exceeds it at a worker the scan has passed.
Counted(c) ==
    /\ c \in [Workers -> Nat]
    /\ SumOf(c, Workers) = Cardinality(Assigned)
    /\ \A w \in Workers : queue_size[w] <= c[w]
    /\ \A s \in Senders : \A k \in Workers :
          task[s].pc = "scan" /\ k < task[s].i => task[s].min_queue_size <= c[k]

Counts == \E c : Counted(c)

\* Scans that hold worker w for the smallest and whose minimum leaves room
\* in an even share.
Holders(w) ==
    {s \in Senders : /\ task[s].pc = "scan"
                     /\ task[s].i > 0
                     /\ task[s].min_queue_index = w
                     /\ task[s].min_queue_size <= EvenShare - 1}

\* What such scans may still add is part of the bound.
Shares ==
    \A w \in Workers :
        queue_size[w] + Cardinality(Holders(w)) <= EvenShare - 1 + Cardinality(Senders)

LEMMA AllJobsFinite == IsFiniteSet(AllJobs) /\ Cardinality(AllJobs) \in Nat
<1> DEFINE Parts == {JobsOf[s] : s \in Senders}
<1>1. IsFiniteSet(Parts)
  <2>1. JobsOf \in Surjection(Senders, Parts)
    BY JobsAssumption DEF Surjection
  <2> HIDE DEF Parts
  <2> QED BY <2>1, SendersAssumption, FS_Surjection
<1>2. \A P \in Parts : IsFiniteSet(P)
  BY JobsAssumption
<1>3. IsFiniteSet(UNION Parts)
  <2> HIDE DEF Parts
  <2> QED BY <1>1, <1>2, FS_UNION
<1>4. IsFiniteSet(AllJobs)
  BY <1>3 DEF AllJobs
<1> QED BY <1>4, FS_CardinalityType

LEMMA WorkersFinite == IsFiniteSet(Workers) /\ Cardinality(Workers) = NumWorkers
BY FS_Interval, WorkersAssumption DEF Workers

LEMMA AssignedFinite == IsFiniteSet(Assigned) /\ Cardinality(Assigned) \in Nat
<1>1. Assigned \subseteq AllJobs
  BY DEF Assigned
<1> QED BY <1>1, AllJobsFinite, FS_Subset, FS_CardinalityType

LEMMA HoldersFinite ==
    ASSUME NEW w
    PROVE  /\ IsFiniteSet(Holders(w)) /\ Cardinality(Holders(w)) \in Nat
           /\ Cardinality(Holders(w)) <= Cardinality(Senders)
<1>1. Holders(w) \subseteq Senders
  BY DEF Holders
<1> QED BY <1>1, SendersAssumption, FS_Subset, FS_CardinalityType

LEMMA MaxI32Nat == MaxI32 \in Nat
BY SMT DEF MaxI32

LEMMA SendersCard == Cardinality(Senders) \in Nat
BY SendersAssumption, FS_CardinalityType

\* The smallest of n loads of at most a in all is at most their even share.
LEMMA Share ==
    ASSUME NEW n \in Nat \ {0}, NEW a \in Nat, NEW m \in Int, m * n <= a - 1
    PROVE  m <= ((a + n - 1) \div n) - 1
<1> DEFINE q == (a + n - 1) \div n
           r == (a + n - 1) % n
<1>1. q \in Int /\ r \in 0..(n - 1) /\ a + n - 1 = n * q + r
  OBVIOUS
<1> HIDE DEF q, r
<1>2. SUFFICES ASSUME m >= q PROVE FALSE
  BY <1>1 DEF q
<1>3. m * n >= q * n
  BY <1>1, <1>2
<1>4. q * n = n * q
  BY <1>1
<1> QED BY <1>1, <1>3, <1>4

LEMMA EvenShareNat == EvenShare \in Nat
<1>1. Cardinality(AllJobs) + NumWorkers - 1 \in Nat
  BY AllJobsFinite, WorkersAssumption
<1>2. \A x \in Nat : x \div NumWorkers \in Nat
  BY WorkersAssumption
<1> QED BY <1>1, <1>2 DEF EvenShare

\* The tests counted only change when a task counts one.
LEMMA AssignedSame ==
    ASSUME \A s \in Senders : todo'[s] = todo[s],
           \A s \in Senders : (task'[s].pc = "scan" <=> task[s].pc = "scan"),
           \A s \in Senders : task[s].pc = "scan" => task'[s].job = task[s].job
    PROVE  Assigned' = Assigned
<1>1. \A j \in AllJobs : Waiting(j)' <=> Waiting(j)
  BY DEF Waiting
<1> QED BY <1>1 DEF Assigned, AllJobs

LEMMA AssignedMore ==
    ASSUME PInv, NEW s \in Senders, FetchAdd(s)
    PROVE  Cardinality(Assigned') = Cardinality(Assigned) + 1
<1>0. TInv /\ TypeOK /\ Hands
  BY DEF PInv, TInv
<1>k. PICK k \in JobsOf[s] : task[s].job = k /\ task[s].pc = "scan"
  BY <1>0 DEF FetchAdd, Hands
<1>1. k \in AllJobs
  BY <1>k DEF AllJobs
<1>2. InTodo(k) = {} /\ InTask(k) = {s}
  <2>1. s \in InTask(k)
    BY <1>k DEF InTask
  <2>2. InTodo(k) = {} /\ Single(InTask(k))
    BY <1>1, <2>1, OnePlaceOnly DEF PInv
  <2> QED BY <2>1, <2>2 DEF Single
<1>3. k \notin Assigned
  BY <1>k DEF Assigned, Waiting
<1>4. /\ task'[s].pc = "send" /\ todo' = todo
      /\ \A r \in Senders : r # s => task'[r] = task[r]
  BY <1>0 DEF FetchAdd, TypeOK
<1>5. ASSUME NEW j \in AllJobs PROVE Waiting(j)' <=> Waiting(j) /\ j # k
  <2>1. CASE j = k
    <3>1. ~Waiting(k)'
      BY <1>2, <1>4 DEF Waiting, InTodo, InTask
    <3> QED BY <2>1, <3>1
  <2>2. CASE j # k
    BY <1>k, <1>4, <2>2 DEF Waiting
  <2> QED BY <2>1, <2>2
<1>6. Assigned' = Assigned \cup {k}
  BY <1>1, <1>5 DEF Assigned, AllJobs
<1> QED BY <1>3, <1>6, AssignedFinite, FS_AddElement

LEMMA CountsStep ==
    ASSUME PInv, Counts, [Next]_vars PROVE Counts'
<1>0. TInv /\ TypeOK /\ Hands
  BY DEF PInv, TInv
<1>c. PICK c : Counted(c)
  BY DEF Counts
<1> SUFFICES \E d : Counted(d)'
  BY DEF Counts
<1>1. ASSUME NEW s \in Senders, NextTest(s) PROVE Counted(c)'
  <2>1. PICK j \in todo[s] :
           /\ todo' = [todo EXCEPT ![s] = @ \ {j}]
           /\ task' = [task EXCEPT ![s] = [Idle EXCEPT !.pc = "scan", !.job = j]]
    BY <1>1 DEF NextTest
  <2>2. task'[s].pc = "scan" /\ task'[s].job = j /\ task'[s].i = 0
    BY <1>0, <2>1 DEF Idle, TypeOK
  <2>3. /\ \A r \in Senders : r # s => task'[r] = task[r] /\ todo'[r] = todo[r]
        /\ todo'[s] = todo[s] \ {j} /\ task[s].pc = "next"
    BY <1>0, <1>1, <2>1 DEF TypeOK, NextTest
  <2>4. Assigned' = Assigned
    <3>1. ASSUME NEW k PROVE Waiting(k)' <=> Waiting(k)
      BY <2>1, <2>2, <2>3 DEF Waiting
    <3> QED BY <3>1 DEF Assigned, AllJobs
  <2>5. \A r \in Senders : \A k \in Workers :
            task'[r].pc = "scan" /\ k < task'[r].i => task'[r].min_queue_size <= c[k]
    <3>1. \A k \in Workers : ~(k < 0)
      BY WorkersAssumption DEF Workers
    <3> QED BY <1>c, <2>2, <2>3, <3>1 DEF Counted
  <2> QED BY <1>1, <1>c, <2>4, <2>5 DEF Counted, NextTest
<1>2. ASSUME NEW s \in Senders, LoadQueueSize(s) PROVE Counted(c)'
  <2> DEFINE t == task[s]
  <2>1. /\ t.pc = "scan" /\ t.i \in Workers /\ t.i < NumWorkers
        /\ UNCHANGED <<todo, queue_size>>
    BY <1>0, <1>2, WorkersAssumption DEF LoadQueueSize, TypeOK, Workers
  <2>2. PICK size, index :
           /\ task' = [task EXCEPT ![s] = [task[s] EXCEPT !.i = task[s].i + 1,
                        !.min_queue_size = size, !.min_queue_index = index]]
           /\ size = IF queue_size[task[s].i] < task[s].min_queue_size
                     THEN queue_size[task[s].i] ELSE task[s].min_queue_size
    BY <1>2 DEF LoadQueueSize
  <2>3. /\ task'[s].pc = "scan" /\ task'[s].job = t.job /\ task'[s].i = t.i + 1
        /\ task'[s].min_queue_size = size
        /\ \A r \in Senders : r # s => task'[r] = task[r]
    BY <1>0, <2>1, <2>2 DEF TypeOK
  <2>4. Assigned' = Assigned
    BY <2>1, <2>3, AssignedSame
  <2>5. ASSUME NEW k \in Workers, k < t.i + 1 PROVE size <= c[k]
    <3>1. /\ size \in Int /\ c[k] \in Int /\ queue_size[t.i] \in Int
          /\ t.min_queue_size \in Int /\ k \in Int /\ t.i \in Int
      BY <1>0, <1>c, <2>1, <2>2, WorkersFacts DEF TypeOK, Counted
    <3>2. size <= queue_size[t.i] /\ size <= t.min_queue_size
      BY <2>2, <3>1
    <3>3. CASE k = t.i
      <4>1. queue_size[k] <= c[k]
        BY <1>c DEF Counted
      <4> QED BY <3>1, <3>2, <3>3, <4>1
    <3>4. CASE k < t.i
      <4>1. t.min_queue_size <= c[k]
        BY <1>c, <2>1, <3>4 DEF Counted
      <4> QED BY <3>1, <3>2, <4>1
    <3> QED BY <2>5, <3>1, <3>3, <3>4
  <2>6. \A r \in Senders : \A k \in Workers :
            task'[r].pc = "scan" /\ k < task'[r].i => task'[r].min_queue_size <= c[k]
    BY <1>c, <2>3, <2>5 DEF Counted
  <2> QED BY <1>c, <2>1, <2>4, <2>6 DEF Counted
<1>3. ASSUME NEW s \in Senders, FetchAdd(s) PROVE \E d : Counted(d)'
  <2> DEFINE w == task[s].min_queue_index
             d == [c EXCEPT ![w] = @ + 1]
  <2>1. /\ w \in Workers /\ task'[s].pc = "send"
        /\ \A r \in Senders : r # s => task'[r] = task[r]
        /\ queue_size' = [queue_size EXCEPT ![w] = @ + 1]
    BY <1>0, <1>3 DEF FetchAdd, TypeOK
  <2>w. PICK v \in Workers : v = w
    BY <2>1
  <2>d. PICK e : e = [c EXCEPT ![v] = @ + 1]
    OBVIOUS
  <2>2. /\ e \in [Workers -> Nat]
        /\ \A k \in Workers : c[k] \in Nat /\ c[k] <= e[k]
        /\ e[v] = c[v] + 1
    BY <1>c, <2>1, <2>d DEF Counted
  <2>3. SumOf(e, Workers) = SumOf(c, Workers) + 1
    BY <1>c, <2>d, WorkersFinite, SumIncrement DEF Counted
  <2>4. Cardinality(Assigned') = Cardinality(Assigned) + 1
    BY <1>3, AssignedMore
  <2>5. SumOf(e, Workers) = Cardinality(Assigned')
    BY <1>c, <2>3, <2>4 DEF Counted
  <2>6. ASSUME NEW k \in Workers PROVE queue_size'[k] <= e[k]
    <3>1. queue_size[k] \in Int /\ queue_size[k] <= c[k] /\ c[k] \in Int
            /\ e[k] \in Int
      BY <1>0, <1>c, <2>2 DEF TypeOK, Counted
    <3>2. CASE k = v
      <4>1. queue_size'[k] = queue_size[k] + 1
        BY <1>0, <2>1, <2>w, <3>2 DEF TypeOK
      <4> QED BY <2>2, <3>1, <3>2, <4>1
    <3>3. CASE k # v
      <4>1. queue_size'[k] = queue_size[k]
        BY <1>0, <2>1, <2>w, <3>3 DEF TypeOK
      <4> QED BY <2>2, <3>1, <4>1
    <3> QED BY <3>2, <3>3
  <2>7. ASSUME NEW r \in Senders, NEW k \in Workers,
               task'[r].pc = "scan", k < task'[r].i
        PROVE  task'[r].min_queue_size <= e[k]
    <3>1. r # s /\ task'[r] = task[r]
      BY <2>1, <2>7
    <3>2. task[r].min_queue_size <= c[k]
      BY <1>c, <2>7, <3>1 DEF Counted
    <3>3. task[r].min_queue_size \in Int
      BY <1>0 DEF TypeOK
    <3> QED BY <2>2, <3>1, <3>2, <3>3
  <2>8. Counted(e)'
    BY <2>2, <2>5, <2>6, <2>7 DEF Counted
  <2> QED BY <2>8
<1>4. ASSUME NEW s \in Senders, Send(s) PROVE Counted(c)'
  <2>1. /\ task[s].pc = "send" /\ task'[s].pc = "next" /\ UNCHANGED <<todo, queue_size>>
        /\ \A r \in Senders : r # s => task'[r] = task[r]
    BY <1>0, <1>4 DEF Send, TypeOK, Idle
  <2>2. Assigned' = Assigned
    BY <2>1, AssignedSame
  <2> QED BY <1>c, <2>1, <2>2 DEF Counted
<1>5. ASSUME NEW w \in Workers, FetchSub(w) PROVE Counted(c)'
  <2>1. UNCHANGED <<todo, task>> /\ queue_size' = [queue_size EXCEPT ![w] = @ - 1]
    BY <1>5 DEF FetchSub
  <2>2. Assigned' = Assigned
    BY <2>1, AssignedSame
  <2>3. \A k \in Workers : queue_size'[k] <= c[k]
    <3> SUFFICES ASSUME NEW k \in Workers PROVE queue_size'[k] <= c[k]
      OBVIOUS
    <3>1. queue_size[k] \in Int /\ queue_size[k] <= c[k] /\ c[k] \in Int
      BY <1>0, <1>c DEF TypeOK, Counted
    <3>2. queue_size'[k] = queue_size[k] \/ queue_size'[k] = queue_size[k] - 1
      BY <1>0, <2>1 DEF TypeOK
    <3> QED BY <3>1, <3>2
  <2> QED BY <1>c, <2>1, <2>2, <2>3 DEF Counted
<1>6. CASE UNCHANGED <<todo, task, queue_size>>
  <2>1. Assigned' = Assigned
    BY <1>6, AssignedSame
  <2> QED BY <1>6, <1>c, <2>1 DEF Counted
<1> QED BY <1>1, <1>2, <1>3, <1>4, <1>5, <1>6 DEF Next, TaskStep, WorkerStep,
           Receive, Report, AllReported, vars

\* The scan of a task that is about to count its test has found a minimum
\* below the even share: its own test is not counted anywhere yet.
LEMMA MinimumIsFair ==
    ASSUME PInv, Counts, NEW s \in Senders, FetchAdd(s)
    PROVE  task[s].min_queue_size <= EvenShare - 1
<1>0. TInv /\ TypeOK /\ Hands
  BY DEF PInv, TInv
<1>c. PICK c : Counted(c)
  BY DEF Counts
<1> DEFINE m == task[s].min_queue_size
<1>1. m \in Int
  BY <1>0 DEF TypeOK
<1>2. \A k \in Workers : c[k] \in Nat /\ m <= c[k]
  <2>1. task[s].pc = "scan" /\ \A k \in Workers : k < task[s].i
    BY WorkersAssumption DEF FetchAdd, Workers
  <2> QED BY <1>c, <2>1 DEF Counted
<1>3. m * Cardinality(Workers) <= SumOf(c, Workers)
  <2> HIDE DEF m
  <2> QED BY <1>1, <1>2, WorkersFinite, SumBound
<1>4. Cardinality(Assigned) <= Cardinality(AllJobs) - 1
  <2>1. PICK k \in AllJobs : k \notin Assigned
    <3>1. task[s].job \in JobsOf[s] /\ task[s].pc = "scan"
      BY <1>0 DEF FetchAdd, Hands
    <3>2. task[s].job \in AllJobs /\ Waiting(task[s].job)
      BY <3>1 DEF AllJobs, Waiting
    <3> QED BY <3>2 DEF Assigned
  <2>2. Assigned \subseteq AllJobs \ {k} /\ IsFiniteSet(AllJobs \ {k})
    BY <2>1, AllJobsFinite, FS_Subset DEF Assigned
  <2>3. Cardinality(Assigned) <= Cardinality(AllJobs \ {k})
    BY <2>2, FS_Subset
  <2>4. Cardinality(AllJobs \ {k}) = Cardinality(AllJobs) - 1
    BY <2>1, AllJobsFinite, FS_RemoveElement
  <2> QED BY <2>3, <2>4
<1>5. m * NumWorkers <= Cardinality(AllJobs) - 1
  <2>1. m * NumWorkers <= Cardinality(Assigned)
    BY <1>c, <1>3, WorkersFinite DEF Counted
  <2>2. m * NumWorkers \in Int
    BY <1>1, WorkersAssumption
  <2> HIDE DEF m
  <2> QED BY <1>4, <2>1, <2>2, AssignedFinite, AllJobsFinite
<1> HIDE DEF m
<1>6. m <= ((Cardinality(AllJobs) + NumWorkers - 1) \div NumWorkers) - 1
  BY <1>1, <1>5, WorkersAssumption, AllJobsFinite, Share
<1> QED BY <1>6 DEF EvenShare, m

\* A counter never reaches the value a scan starts from, so the first load of
\* a scan is always its first minimum.
LEMMA FirstLoad ==
    ASSUME PInv, QueueSizeExact, NEW s \in Senders, task[s].pc = "scan",
           NEW w \in Workers
    PROVE  queue_size[w] < MaxI32
<1>1. TypeOK /\ Hands
  BY DEF PInv, TInv
<1>2. SendingTo(w) \subseteq Senders \ {s}
  BY DEF SendingTo
<1>3. Cardinality(SendingTo(w)) <= Cardinality(Senders) - 1
  <2>1. IsFiniteSet(Senders \ {s}) /\ Cardinality(Senders \ {s}) = Cardinality(Senders) - 1
    BY SendersAssumption, FS_RemoveElement, FS_Subset
  <2> QED BY <1>2, <2>1, FS_Subset
<1>4. Len(channel[w]) \in Nat /\ Len(channel[w]) <= BUFFER_SIZE
  BY <1>1 DEF TypeOK, Hands
<1>5. queue_size[w] <= Len(channel[w]) + Cardinality(SendingTo(w)) + 1
  BY <1>4, SendingFinite DEF QueueSizeExact
<1> QED BY <1>1, <1>3, <1>4, <1>5, SendingFinite, SendersCard, BufferAssumption,
           CounterAssumption, MaxI32Nat DEF TypeOK

\* A scan that has loaded nothing starts from the largest i32.
Started ==
    \A s \in Senders :
        task[s].pc = "scan" /\ task[s].i = 0 => task[s].min_queue_size = MaxI32

LEMMA StartedStep ==
    ASSUME TInv, Started, [Next]_vars PROVE Started'
<1>0. TypeOK
  BY DEF TInv
<1>1. ASSUME NEW s \in Senders, NextTest(s) PROVE Started'
  <2>1. PICK j : task' = [task EXCEPT ![s] = [Idle EXCEPT !.pc = "scan", !.job = j]]
    BY <1>1 DEF NextTest
  <2>2. /\ task'[s].min_queue_size = MaxI32
        /\ \A r \in Senders : r # s => task'[r] = task[r]
    BY <1>0, <2>1 DEF Idle, TypeOK
  <2> QED BY <2>2 DEF Started
<1>2. ASSUME NEW s \in Senders, LoadQueueSize(s) PROVE Started'
  <2>1. PICK size, index :
           task' = [task EXCEPT ![s] = [task[s] EXCEPT !.i = task[s].i + 1,
                        !.min_queue_size = size, !.min_queue_index = index]]
    BY <1>2 DEF LoadQueueSize
  <2>2. task[s].i \in Nat
    BY <1>0, WorkersAssumption DEF TypeOK
  <2>3. /\ task'[s].i = task[s].i + 1
        /\ \A r \in Senders : r # s => task'[r] = task[r]
    BY <1>0, <2>1 DEF TypeOK
  <2> QED BY <2>2, <2>3 DEF Started
<1>3. ASSUME NEW s \in Senders, FetchAdd(s) \/ Send(s) PROVE Started'
  <2>1. /\ task'[s].pc # "scan"
        /\ \A r \in Senders : r # s => task'[r] = task[r]
    BY <1>0, <1>3 DEF FetchAdd, Send, Idle, TypeOK
  <2> QED BY <2>1 DEF Started
<1>4. CASE UNCHANGED task
  BY <1>4 DEF Started
<1> QED BY <1>1, <1>2, <1>3, <1>4 DEF Next, TaskStep, WorkerStep, FetchSub,
           Receive, Report, AllReported, vars

LEMMA HoldersSame ==
    ASSUME NEW w,
           \A s \in Senders :
              \/ task'[s] = task[s]
              \/ /\ task[s].pc # "scan" \/ ~(task[s].i > 0)
                 /\ task'[s].pc # "scan" \/ ~(task'[s].i > 0)
    PROVE  Holders(w)' = Holders(w)
<1> DEFINE Low(r, t) == /\ t.pc = "scan" /\ t.i > 0
                        /\ t.min_queue_index = w /\ t.min_queue_size <= EvenShare - 1
<1>1. \A s \in Senders : Low(s, task'[s]) <=> Low(s, task[s])
  OBVIOUS
<1> QED BY <1>1 DEF Holders, EvenShare, AllJobs

LEMMA SharesStep ==
    ASSUME PInv, QueueSizeExact, Counts, Started, Shares, [Next]_vars PROVE Shares'
<1>0. TInv /\ TypeOK /\ Hands
  BY DEF PInv, TInv
<1> DEFINE Bound == EvenShare - 1 + Cardinality(Senders)
<1>a. Bound \in Int /\ EvenShare \in Nat /\ Cardinality(Senders) \in Nat
  BY EvenShareNat, SendersCard
<1> SUFFICES ASSUME NEW w \in Workers
             PROVE  queue_size'[w] + Cardinality(Holders(w)') <= Bound
  BY DEF Shares, EvenShare, AllJobs
<1>b. /\ queue_size[w] + Cardinality(Holders(w)) <= Bound
      /\ queue_size[w] \in Int /\ Cardinality(Holders(w)) \in Nat
  BY <1>0, HoldersFinite DEF Shares, TypeOK
<1> HIDE DEF Bound
<1>1. ASSUME NEW s \in Senders, NextTest(s)
      PROVE  queue_size'[w] + Cardinality(Holders(w)') <= Bound
  <2>1. /\ task[s].pc = "next" /\ task'[s].i = 0 /\ queue_size' = queue_size
        /\ \A r \in Senders : r # s => task'[r] = task[r]
    BY <1>0, <1>1 DEF NextTest, Idle, TypeOK
  <2>2. Holders(w)' = Holders(w)
    BY <2>1, HoldersSame
  <2> QED BY <1>b, <2>1, <2>2
<1>2. ASSUME NEW s \in Senders, LoadQueueSize(s)
      PROVE  queue_size'[w] + Cardinality(Holders(w)') <= Bound
  <2> DEFINE t == task[s]
             less == queue_size[task[s].i] < task[s].min_queue_size
  <2>1. /\ t.pc = "scan" /\ t.i \in Workers /\ t.i < NumWorkers /\ t.i \in Nat
        /\ queue_size' = queue_size
    BY <1>0, <1>2, WorkersAssumption DEF LoadQueueSize, TypeOK, Workers
  <2>2. PICK size, index :
           /\ task' = [task EXCEPT ![s] = [task[s] EXCEPT !.i = task[s].i + 1,
                        !.min_queue_size = size, !.min_queue_index = index]]
           /\ size = IF less THEN queue_size[task[s].i] ELSE task[s].min_queue_size
           /\ index = IF less THEN task[s].i ELSE task[s].min_queue_index
    BY <1>2 DEF LoadQueueSize
  <2>3. /\ task'[s].min_queue_size = size /\ task'[s].min_queue_index = index
        /\ \A r \in Senders : r # s => task'[r] = task[r]
    BY <1>0, <2>1, <2>2 DEF TypeOK
  <2>4. CASE less /\ t.i = w /\ queue_size[w] <= EvenShare - 1
    <3>1. Holders(w)' \subseteq Senders
      BY DEF Holders
    <3>2. Cardinality(Holders(w)') \in Nat /\ Cardinality(Holders(w)') <= Cardinality(Senders)
      BY <3>1, SendersAssumption, FS_Subset, FS_CardinalityType
    <3> QED BY <1>a, <1>b, <2>1, <2>4, <3>2 DEF Bound
  <2>5. CASE less /\ ~(t.i = w /\ queue_size[w] <= EvenShare - 1)
    <3>1. s \notin Holders(w)'
      BY <2>2, <2>3, <2>5 DEF Holders, EvenShare, AllJobs
    <3>2. Holders(w)' \subseteq Holders(w)
      BY <2>3, <3>1 DEF Holders, EvenShare, AllJobs
    <3>3. Cardinality(Holders(w)') \in Nat
             /\ Cardinality(Holders(w)') <= Cardinality(Holders(w))
      BY <3>2, HoldersFinite, FS_Subset, FS_CardinalityType
    <3> QED BY <1>a, <1>b, <2>1, <3>3
  <2>6. CASE ~less
    <3>1. t.i > 0
      <4>1. t.i # 0
        <5> SUFFICES ASSUME t.i = 0 PROVE FALSE
          OBVIOUS
        <5>1. queue_size[0] < MaxI32
          BY <2>1, FirstLoad
        <5>2. t.min_queue_size = MaxI32
          BY <2>1 DEF Started
        <5> QED BY <2>6, <5>1, <5>2
      <4> QED BY <2>1, <4>1
    <3>2. size = t.min_queue_size /\ index = t.min_queue_index
      BY <2>2, <2>6
    <3>3. task'[s].pc = "scan" /\ task'[s].i > 0
      BY <1>0, <2>1, <2>2 DEF TypeOK
    <3>4. s \in Holders(w)' <=> s \in Holders(w)
      BY <2>1, <2>3, <3>1, <3>2, <3>3 DEF Holders, EvenShare, AllJobs
    <3>5. Holders(w)' = Holders(w)
      BY <2>3, <3>4 DEF Holders, EvenShare, AllJobs
    <3> QED BY <1>b, <2>1, <3>5
  <2> QED BY <2>4, <2>5, <2>6
<1>3. ASSUME NEW s \in Senders, FetchAdd(s)
      PROVE  queue_size'[w] + Cardinality(Holders(w)') <= Bound
  <2>1. /\ task[s].min_queue_index \in Workers /\ task'[s].pc = "send"
        /\ task[s].pc = "scan" /\ task[s].i = NumWorkers
        /\ \A r \in Senders : r # s => task'[r] = task[r]
        /\ queue_size' = [queue_size EXCEPT ![task[s].min_queue_index] = @ + 1]
    BY <1>0, <1>3 DEF FetchAdd, TypeOK
  <2>2. Holders(w)' = Holders(w) \ {s}
    BY <2>1 DEF Holders, EvenShare, AllJobs
  <2>3. CASE task[s].min_queue_index = w
    <3>1. s \in Holders(w)
      BY <1>3, <2>1, <2>3, MinimumIsFair, WorkersAssumption DEF Holders
    <3>2. Cardinality(Holders(w)') = Cardinality(Holders(w)) - 1
      BY <2>2, <3>1, HoldersFinite, FS_RemoveElement
    <3>3. queue_size'[w] = queue_size[w] + 1
      BY <1>0, <2>1, <2>3 DEF TypeOK
    <3> QED BY <1>a, <1>b, <3>2, <3>3
  <2>4. CASE task[s].min_queue_index # w
    <3>1. Holders(w)' = Holders(w)
      BY <2>2, <2>4 DEF Holders
    <3>2. queue_size'[w] = queue_size[w]
      BY <1>0, <2>1, <2>4 DEF TypeOK
    <3> QED BY <1>b, <3>1, <3>2
  <2> QED BY <2>3, <2>4
<1>4. ASSUME NEW s \in Senders, Send(s)
      PROVE  queue_size'[w] + Cardinality(Holders(w)') <= Bound
  <2>1. /\ task[s].pc = "send" /\ task'[s].pc = "next" /\ queue_size' = queue_size
        /\ \A r \in Senders : r # s => task'[r] = task[r]
    BY <1>0, <1>4 DEF Send, Idle, TypeOK
  <2>2. Holders(w)' = Holders(w)
    BY <2>1, HoldersSame
  <2> QED BY <1>b, <2>1, <2>2
<1>5. ASSUME NEW v \in Workers, FetchSub(v)
      PROVE  queue_size'[w] + Cardinality(Holders(w)') <= Bound
  <2>1. task' = task /\ queue_size' = [queue_size EXCEPT ![v] = @ - 1]
    BY <1>5 DEF FetchSub
  <2>2. Holders(w)' = Holders(w)
    BY <2>1, HoldersSame
  <2>3. queue_size'[w] = queue_size[w] \/ queue_size'[w] = queue_size[w] - 1
    BY <1>0, <2>1 DEF TypeOK
  <2> QED BY <1>a, <1>b, <2>2, <2>3
<1>6. CASE UNCHANGED <<task, queue_size>>
  <2>1. Holders(w)' = Holders(w)
    BY <1>6, HoldersSame
  <2> QED BY <1>6, <1>b, <2>1
<1> QED BY <1>1, <1>2, <1>3, <1>4, <1>5, <1>6 DEF Next, TaskStep, WorkerStep,
           Receive, Report, AllReported, vars

\* The inductive invariant of the balance.
BInv == PInv /\ QueueSizeExact /\ Counts /\ Started /\ Shares

LEMMA BInvInit ==
    ASSUME Senders # {} PROVE Init => BInv
<1> SUFFICES ASSUME Init PROVE BInv
  OBVIOUS
<1>0. \A s \in Senders : task[s].pc = "next"
  BY DEF Init, Idle
<1>1. Counts
  <2>1. PICK c : c = [w \in Workers |-> 0]
    OBVIOUS
  <2>2. Assigned = {}
    BY DEF Assigned, Waiting, AllJobs, Init
  <2>3. SumOf(c, Workers) = Cardinality(Assigned)
    BY <2>1, <2>2, WorkersFinite, SumZero, FS_EmptySet
  <2>4. Counted(c)
    BY <1>0, <2>1, <2>3 DEF Counted, Init
  <2> QED BY <2>4 DEF Counts
<1>2. Shares
  <2> SUFFICES ASSUME NEW w \in Workers
               PROVE  queue_size[w] + Cardinality(Holders(w))
                         <= EvenShare - 1 + Cardinality(Senders)
    BY DEF Shares
  <2>1. Holders(w) = {}
    BY <1>0 DEF Holders
  <2>2. queue_size[w] = 0 /\ Cardinality(Holders(w)) = 0
    BY <2>1, FS_EmptySet DEF Init
  <2>3. Cardinality(Senders) # 0
    BY SendersAssumption, FS_EmptySet
  <2> QED BY <2>2, <2>3, SendersCard, EvenShareNat
<1>3. Started
  BY <1>0 DEF Started
<1>4. QueueSizeExact
  <2> SUFFICES ASSUME NEW w \in Workers
               PROVE  queue_size[w] = Load(w)
    BY DEF QueueSizeExact, Load
  <2>1. SendingTo(w) = {}
    BY <1>0 DEF SendingTo
  <2> QED BY <2>1, FS_EmptySet DEF Init, Load
<1> QED BY <1>1, <1>2, <1>3, <1>4, PInvInit DEF BInv

\* Scans that run at the same time may choose the same worker, but no worker
\* is ever loaded beyond its even share of all the tests by more than one
\* test per other task (the loop over the queue sizes and the fetch_add of
\* execute_test, which are not one step).  With no task at all there is no
\* other task to speak of.
THEOREM LoadsAreBalanced ==
    ASSUME Senders # {} PROVE Safe => []LoadBalanced
<1>1. BInv => LoadBalanced
  <2> SUFFICES ASSUME BInv, NEW w \in Workers
               PROVE  queue_size[w] <= EvenShare + Cardinality(Senders) - 1
    BY DEF LoadBalanced
  <2>1. /\ queue_size[w] + Cardinality(Holders(w)) <= EvenShare - 1 + Cardinality(Senders)
        /\ queue_size[w] \in Int
    BY DEF BInv, Shares, PInv, TInv, TypeOK
  <2> QED BY <2>1, HoldersFinite, EvenShareNat, SendersCard
<1>2. BInv /\ [Next]_vars => BInv'
  BY PInvStep, ExactStep, CountsStep, StartedStep, SharesStep DEF BInv, PInv
<1>3. Init => BInv
  BY BInvInit
<1> QED BY <1>1, <1>2, <1>3, PTL DEF Safe

\* The counters stay in the range of an i32: none underflows when a worker
\* decrements it, and none overflows (AtomicI32 in worker.rs).
QueueSizeInRange == \A w \in Workers : queue_size[w] \in 0..MaxI32

THEOREM QueueSizesInRange == Safe => []QueueSizeInRange
<1>1. PInv /\ QueueSizeExact => QueueSizeInRange
  <2> SUFFICES ASSUME PInv, QueueSizeExact, NEW w \in Workers
               PROVE  queue_size[w] \in 0..MaxI32
    BY DEF QueueSizeInRange
  <2>1. Len(channel[w]) \in Nat /\ Len(channel[w]) <= BUFFER_SIZE
    BY DEF PInv, TInv, TypeOK, Hands
  <2>2. SendingTo(w) \subseteq Senders
    BY DEF SendingTo
  <2>3. Cardinality(SendingTo(w)) <= Cardinality(Senders)
    BY <2>2, SendersAssumption, FS_Subset
  <2>4. queue_size[w] = Len(channel[w]) + Cardinality(SendingTo(w))
                            + (IF worker[w].pc = "testing" THEN 1 ELSE 0)
    BY DEF QueueSizeExact
  <2> QED BY <2>1, <2>3, <2>4, SendingFinite, SendersCard, BufferAssumption,
             CounterAssumption, MaxI32Nat
<1> QED BY <1>1, PInvInvariant, QueueSizesExact, PTL
=============================================================================
