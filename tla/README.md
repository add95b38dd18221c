# A TLA+ model of CPS

CPS is a judge for programming contests: users submit C++ programs to problems,
the server compiles them, runs them on the tests of the problem, stores a
verdict and points, and keeps a score per user and problem. It is one Rust
process (tokio, hyper) over one PostgreSQL connection. This directory models the
parts of it where things happen concurrently, and two parsers where off-by-one
mistakes would damage what users send; it checks the models with TLC and proves, with
TLAPS, all its safety invariants but one for every value of the constants.

Paths below are relative to the repository's `src/`.

## 1. Inventory

### Components

| component | code | state | operations |
|---|---|---|---|
| Verdicts and merge | `database/submission.rs` 12-132 | none (an enum and its integer column) | `i32_to_testing_result`, `testing_result_to_i32`, `merge_two_testing_results`, the loops in `update_subtask_result` and `update_submission_result` |
| Worker manager | `worker.rs` | per worker: `AtomicI32` queue size, bounded `mpsc` channel, the job in hand | `execute_test`, the loop of a worker, `worker_test_is_done` |
| Submission pipeline | `submission.rs`, `database/submission.rs`, `database/test.rs`, `worker.rs` | tables `submissions`, `test_results`, `subtask_results`; executables in `temp/`; spawned tasks | `add_submission`, `test_submission`, `worker_do_test`, `worker_test_is_done`, `update_submission_result` |
| User scores | `database/problem.rs` | table `user_problem_scores` | `update_user_score_for_problem` |
| Test upload | `problem.rs`, `database/test.rs` | tables `tests`, `subtasks`, `subtask_tests`, column `problems.points` | `handle_tests_uploading` |
| Deletion of users | `user.rs`, `database/user.rs` | all tables that refer to a user | `delete_user` |
| Tester | `tester.rs` | isolate's boxes, meta files, child processes and their pipes | `execute_test_isolated`, `execute_test_unsafely`, `cleanup_box` |
| Problem catalogue | `problem.rs`, `database/problem.rs`, `contest.rs` | tables `problems`, `contest_problems` | `create_new_problem`, `add_problem_override`, `remove_problem`, renaming, unlinking |
| Accounts and sessions | `user.rs`, `database/user.rs` | tables `users`, `tokens` | login, logout, `create_user`, `delete_user`, `add_user_override` |
| Contests and participants | `contest.rs`, `database/contest.rs` | tables `contests`, `contest_participations` | changes of participants, check-then-insert |
| Form parsing | `submission.rs`, `problem.rs` | none | `extract_file_from_request`, `split_bytes_by_bytes`, `parse_body_with_boundaries` |
| Router, pages | `request_handler.rs`, `main_page.rs`, `sidebar.rs` | none | dispatch, templates |
| Database client | `database/mod.rs` | one connection, prepared statements | `query`, `execute`, `get_value` |
| Startup | `main.rs` | configuration | `run_server`, with the set-up of the account `admin` |
| Load test | `tests/bombardment.rs` | none | fetches pages |

### How they interact

`add_submission` runs in the handler of a request, inserts rows and spawns
`test_submission`. That task compiles and passes one job per test to the worker
manager, over channels. A worker executes a test with the tester, stores the
result in `test_results` and increments `submissions.tests_done`; the worker that
then reads a counter equal to the number of tests reduces all results, refreshes
the user's score and removes the executable. Nothing but the database and the
file system is shared between these actors, **no operation opens a transaction
and none takes a lock**: the interleaving of single SQL statements is the
behaviour of the system. Administrators' requests (uploading tests, creating and
deleting users, setting participants, adding and renaming problems) are further
actors on the same tables. Before it dispatches a request the router looks up whose
token it carries and whether that user is an administrator; the handler acts on that
answer, and most handlers never ask again.
Handlers of requests run inside hyper's connection task, so a client that
disconnects stops a handler at whatever `await` it is in; `test_submission` and
the workers are tasks of their own and are only stopped by the end of the
process.

### What is hard here

- two workers count the last tests of a submission at the same moment;
- reads and the write that depends on them are separate statements (the score,
  the tests of a submission, the free name of a problem);
- a job is counted before it is sent, and channels are bounded;
- multi-statement operations stop half way: a foreign key refuses a statement,
  a client leaves, the server is restarted;
- the tester writes to a program that may not read, and leaves boxes and meta
  files behind under names the next test of the worker uses again;
- a login looks up an id, then the password, then inserts a token, and the account may
  be gone, or its name another's, by then;
- bytes of a file are cut at boundaries and line breaks and joined again.

`PROJECT.json` lists each of these at its line, with the properties that would
notice it going wrong, and the cases no property covers with the reason. Several races do go wrong in this
code: the lost update of a score, a submission or a deletion that crosses an upload, two requests to add a problem under
one number. The properties whose names start with `Undisturbed` excuse an operation that another actor crosses, so they do
*not* catch these races; they say that nothing else makes the operation fail. `ParticipantsAsAsked` and
`VerdictsRestOnTests` excuse their races in the same way.

### What makes each component correct

- *verdicts*: the merge does not depend on order, repetition or grouping, and is
  the most severe verdict;
- *worker manager*: a test handed over is executed exactly once and in the end;
  the atomic counters stand for the real load; the load is balanced;
- *pipeline*: a published verdict agrees with all the results it stands on, somebody
  publishes it, it does not change afterwards, the executable exists as long as it
  is needed and no longer;
- *scores*: never more than earned; exactly that when writes cannot cross;
- *upload, deletion*: an undisturbed operation is never refused half way, and no verdict is left over results that are gone;
- *tester*: a verdict is about this run; no call spoils the next; every call returns;
- *accounts*: a session opens no account whose password was not shown; requests fail only
  for a name that is taken or when others interfere; the server never takes requests without an administrator `admin`;
- *participants*: an undisturbed change does what its form asks;
- *forms*: files arrive unchanged, and saving a page again changes nothing;
- *catalogue*: adding a problem takes no existing problem away.

## 2. Modules

| module | models | uses |
|---|---|---|
| `TestingResults` | the enum, conversions and merge, and `Worst`, the reference definition | |
| `ResultMerge` | the two nested merge loops | `TestingResults` |
| `JobPool` | abstract: what the judge expects of the worker manager | |
| `WorkerPool` | the worker manager; implements `JobPool` | `JobPool` (INSTANCE) |
| `JudgeService` | abstract: what the judge promises for a submission | `TestingResults` |
| `Judge` | the submission pipeline and user scores; implements `JudgeService` | `TestingResults`, `JudgeService` (INSTANCE) |
| `JudgeAdmin` | test upload and deletion of a user, on the tables of `Judge` | `Judge` |
| `Tester` | one worker's calls of the tester | `TestingResults` |
| `Catalogue` | problems of a contest | |
| `Accounts` | users, sessions, participants, the router and the start of the server | |
| `Forms` | the parsers of multipart forms | |
| `DataTheorems` | facts about verdicts, induction over finite sets, sums over them, and folds | `TestingResults` |
| `LoopProofs` | theorems about `ResultMerge` and `Forms`, the loops over data; `ResultMerge` calls its specification `MergeSpec`, so that both can be extended | `DataTheorems` |
| `WorkerPoolProofs`, `JudgeProofs`, `JudgeAdminProofs`, `TesterProofs`, `CatalogueProofs`, `AccountsProofs` | theorems about the module of that name | `DataTheorems` (the first three), `JudgeProofs` (`JudgeAdminProofs`) |
| `MC*` | constants for TLC | |

Operators whose names start with `Bug` are mutated forms of the definition that
follows them, used to see that each property can fail; no specification uses
them. The table `map` in `PROJECT.json` gives the source lines of every
definition.

### How state corresponds to the code

- A table is a function from its key to a row (`Judge`), or the set of keys where
  a row has no other column that matters. `UPDATE` of a missing row does nothing; an
  `INSERT` or `DELETE` a foreign key refuses is an error path of its own
  (`InsertFails`, `ReduceFails`, `UpsertFails`, `DeletionFails`, `UploadFails`). The judge deletes no rows, so
  its error paths for missing rows are actions of `JudgeAdmin`, where rows vanish.
- Local variables of a handler, task or worker that live across an `await` are
  fields of `task[s]`, `worker[w]`, `upload`, `deletion`, `creator[c]`, `proc[p]`; `pc` is
  the statement it is about to run.
- Loops over rows of a `SELECT` keep the rows in a set `todo` and take them in any
  order: the queries have no `ORDER BY`.
- Submissions, users, tests, subtasks are model values; a program's text, a
  test's contents and messages are left out. `NULL` points are 0, as every reader
  unwraps them to 0.
- Elapsed times are not modelled.
- A fixed set `Workers` stands for the ids a worker may have; how many of them run is chosen
  at each start of the server (`num_workers` of the configuration, which may be 0), the
  others are "off". With none, `execute_test` fails and the task ends (`DispatchFails`).
- In `Accounts`, `proc[p].clean` (and `disturbed` in `JudgeAdmin`, `Catalogue`) is history: it turns false when
  another actor changes a row the request relies on, is deleting, or is setting. It says which races
  are excused, and no action reads it.

### What one step is

The database client sends every statement over one connection outside of a
transaction, so a statement is atomic and commits at once. A step of a model is one
statement, or several where no other actor can tell the difference:

- `AddSubmission` is the `INSERT`. What the handler does before it changes nothing, and an empty program ends there.
- `InsertSubtaskResult`, `InsertTestResult`: one per row; the `SELECT`s before the
  loops (`SelectSubtasks`, `SelectTests`) are steps of their own.
- `StartCompiling`: the `UPDATE` to Compiling and the read of the code. Code never
  changes, and a row that is gone for the one is gone for the other.
- `CompileSucceeds`: the executable appears, then `UPDATE`s to Testing. No other
  actor looks at an executable before jobs are handed over, and nobody branches on
  Compiling or Testing.
- `TakeJob`: the receive and the `UPDATE` to Testing. Readers of `test_results`
  for this submission come after all tests have been counted.
- `ExecuteTest`: the reads of the test and the submission and the whole run of the
  tester (`Tester` takes it apart); the outcome is any verdict, or an internal error when
  something it needs is missing.
- `StoreResult`: the `UPDATE`s of result and time, on the error path the result only.
- `CountTest`, `ReadTestsDone`, `CompareTotal`: increment, read back and count of
  the rows are three statements and three steps: this is the race that decides
  who finalises.
- `ReduceSubtask`: the reads of one subtask's results, the `UPDATE`s of its result and
  points and the reads after them. Its tests are all counted, so their results are
  final; two workers finalising the same submission write the same values; a row that
  an upload or a deletion removes in between has the same effect as one removed before
  (the error) or after.
- `ScoreSubtask`: the maximum over the user's submissions for one subtask. Points of
  a subtask are either 0 or its score, so a maximum read row by row equals the maximum
  at some moment in between. (`BestPointsAllOrNothing` in `JudgeProofs` is about these
  two values.)
- `UpsertScore`: `INSERT ... ON CONFLICT DO UPDATE`, one statement.
- `WorkerPool` keeps the two halves of the worker manager's bookkeeping apart: the load
  of each counter (`LoadQueueSize`), the increment, the send, the receive, the decrement
  and the rest of `worker_test_is_done`. `Judge` uses the pool it implements.
- `Accounts` has one step per statement that writes or whose answer decides something.
  `Arrive` is the lookup of the token, with the dispatch when nobody is logged in; `IsUserAdmin`
  the second lookup of the router with the dispatch after it; `CheckContest` the same question asked
  again by the handler. `Visit` is `is_user_in_contest`, before the `INSERT` or `DELETE` it decides on, and
  users whom the form does not name are passed over. The lookups of `run_server` and
  `add_user_override` are one step, as there are no requests yet. `delete_user` is split between
  `Accounts` and `JudgeAdmin` by the tables it works on: a statement of the one reads nothing the other writes,
  except that both sets of rows must be gone before the row of the user.
- `Forms` has one step per turn of the loop of `split_bytes_by_bytes`; the parser of the edit page is one step.
- `Catalogue` treats an upload and a submission as one step each, since
  `JudgeAdmin` and `Judge` take them apart; the requests to add a problem
  are split at every statement.

`HandlerDropped`, `UploadDropped`, `DeletionDropped` stop a handler at any `await`
(disconnected client). `Restart` empties all that lives in memory and keeps the database and
the files; nothing in `run_server` (`main.rs` 151-234) looks for unfinished submissions.

### What is external

isolate, PostgreSQL, tokio, g++ and the tested programs are not in the
repository. Assumed of them: foreign keys and UNIQUE are enforced; channels are FIFO and
lossless; isolate locks its box while a program runs in it and `--init` refuses a box
that is in use or not cleaned up, `--run` starts its meta file anew and records how the program
ended. Tokens of 255 random characters are never the same. A browser sends a file with two headers and a text
with one, and chooses a boundary that is not in the contents; it sends the line breaks of a text as CR LF and
drops a first line break of what it shows in a text area. Writing to a pipe fails only once the program has ended: a program that closes its input
early, and goes on, is not modelled.

## 3. Runs

| run | constants | shows |
|---|---|---|
| `result_merge` | all column values but Compiling | `VerdictIsWorst`: both loops compute the most severe verdict for any sequence of rows, also with values unknown to the enum |
| `worker_pool` | 2 tasks of 2 tests, 2 workers, channels of 1 | counters exact, each job in one place, load bounded, every test reported, and `JobPoolSpec`: the pool implements the abstract pool, with its fairness |
| `judge` | 2 users, 2 submissions, 2 tests, 2 subtasks sharing a test, 0 to 2 workers, 1 restart with any number of them | verdicts, publication, executables and scores in every interleaving, with disconnects, compile errors, tests without subtask, problems without tests; `ScoreIsExact` while one worker runs; and `ServiceSpec`: the judge implements `JudgeService` |
| `judge_live` | 1 user, 2 submissions, 0 to 2 workers | every submission to a problem with tests gets a verdict if there is a worker; its executable is removed |
| `admin` | 1 submission, 2 old and 2 new tests, 0 to 2 workers | an upload and a deletion during judging: who may fail, scores within the announced points, verdicts in agreement with the results they rest on except after a race; a test ends Accepted or WrongAnswer |
| `admin_live` | 1 submission, 1 old and 1 new test, at most 1 worker, 1 restart, files with and without a link that is refused | a worker returns to its channel whatever rows vanish |
| `partial_tests` | as `admin` | expected violation, see below |
| `tester` | 2 calls, input 2, output 1, pipes of 1, 1 restart | no box, meta file, or error leaks between calls; verdict agrees with the run |
| `tester_live` | 1 call, input 3, output 3, pipes of 2 and 1 | a call returns unless it is stuck in `write_all` or its sandboxed program sleeps |
| `catalogue` | 2 requests, 2 numbers, 3 problem ids | races of creations with renames, uploads, submissions and unlinking |
| `accounts` | 2 requests at a time, 2 names, 2 passwords, 4 user ids, 2 tokens, 1 contest, 1 restart | every interleaving of the statements of two requests, dropped anywhere, and a start of the server stopped anywhere |
| `forms` | files and texts of up to 5 bytes over CR, LF, dash and a letter that is also the boundary | files arrive, nothing is lost in the loop, saved texts are stable |

### Bounds, and why they are enough

- *Two workers, two tests, two submissions.* The races of the judge are between two
  workers with the last two tests of one submission, and between two workers
  writing the score of one user for two submissions. A third worker adds a third finaliser
  that does what the second does. Two subtasks that share a test and have different scores
  tell apart a sum, a maximum and a last-wins merge.
- *Channels of one place* and four tests: tasks do wait in `send`, with the
  job already counted.
- *`MaxRestarts`* 1: a second restart finds nothing in memory the first did not.
- *Symmetry* is used in safety runs only, over values the model treats alike; the two
  subtasks have different scores and are not permuted.
- *Pipes*: the input is larger than the pipe, so `write_all` does wait; in
  `tester_live` the output too. `MaxOutput` bounds what a program prints.
- *Catalogue*: `MaxNumber` stands for the 1000 of the code; Init starts with up to
  two names taken, so the search also runs out of numbers. `MaxProblems` ends a
  behaviour when ids run out; the id sequence itself never goes back.
- *Accounts*: a race is between two requests, or a request and rows an earlier one left; `MaxTokens` and
  `MaxUsers` end logins and creations when ids run out, but leave an id for each start of the server
  (a guard of `AddUser`, for requests only). Init is an empty database, or one with another administrator
  who has a session and a user `admin` who is none and takes part in a contest, so that the set-up of the account has
  something to delete.
- *Forms*: a boundary of one letter makes every way a file can hold parts of a delimiter (`--` and the letter)
  or of a line break happen within five bytes, at both ends too.
- *One upload and one deletion* per behaviour in `JudgeAdmin`, over one submission.
  Two uploads at once are not explored. Two verdicts of a test are enough there: that the merge is
  the most severe of all ten is `result_merge`. A link that `add_test_to_subtask` cannot store, because the file has no
  test of that index or names it a second time for the subtask (a primary key), is one value, `None`.

`CHECK_DEADLOCK` stays on everywhere. Each specification has an explicit idle step for
the states in which the server merely waits (`AllReported`, `AtRest`, `AllAtRest`,
`AllAnswered`), so a state outside of them without a step would be reported. In `Tester`, `AtRest` includes the
one state that is a real deadlock, tester and program waiting for each other;
`TesterReturns` names it.

### What the properties found

- `ScoreIsExact` holds with one worker and fails with two: the scores of two
  submissions of a user are computed from rows read at different moments, and the
  older sum may be written last. Nothing in the repository promises otherwise, so it is
  recorded as a hazard. `ScoreIsEarned` and `ScoreCoversOwnPoints` say what remains true.
- `partial_tests` shows a disagreement with the comment "add all tests for the problem" in
  `add_submission`: a submission made while an upload is adding tests gets rows for some of
  them only.
- An upload between a worker's count of a test and its comparison resets `tests_done` and
  deletes the rows: 0 of 0 tests are done, and the submission is published as Accepted with no
  points. What the race should give is nowhere defined; `VerdictsRestOnTests` says that nothing but a race leaves a verdict
  that disagrees with the results it rests on.
- An upload dropped between its `DELETE`s leaves tests, and subtasks without links to them. A submission made
  then is judged: each of its subtasks has no test and counts as solved, so it is Accepted with all points whatever its
  tests gave. The model follows the code here, and `VerdictsRestOnTests` and `VerdictFaithful` hold of such a submission, since no
  test decides it.
- The same user deleted and logging in, or deleted and added to a contest, at the same time: one of the two requests
  ends in an error, and a deletion that does has already removed what it removed. `UndisturbedRequestsSucceed`
  says that errors come from such races, or from a request for a new account under a name that is taken, only, also when a restart or a dropped request left a deletion half done.
- A cleared box of the participants' page sends no field (`templates/contest.html`), so that page never
  reaches the `else` of `handle_participant_modification` that removes a participant. The model includes the
  requests that do, with a field of another value.
- A submission to a problem without tests stays in Testing, and after a restart unfinished
  submissions stay unfinished. The liveness properties exclude exactly these two cases (a problem
  with tests, no restart).
- Two requests to add a problem may choose the same number; the later one then removes, or tries to
  remove, the problem of the earlier. `OldProblemsAreKept` and `CreatedProblemStays` bound the damage:
  never a problem older than the request, and never one whose request has answered. Its tests may
  still be lost.

### Fairness

- `WorkerPool`: weak fairness of every task and every worker. tokio polls each task that can
  make progress, and gives permits of a channel to waiting senders in order. `Report` and
  `FetchSub` assume the tester returns.
- `Judge`, `JudgeAdmin`: weak fairness of each handler, task and worker, never of new
  submissions, disconnects, restarts or the start of administrator operations. That
  "compile" is left assumes g++ returns; that "execute" is left is what
  `TesterReturns` is about.
- `JobPool`: strong fairness of taking each job, since workers compete for it.
- `Tester`: weak fairness of the tester, its timer, and of a program in the sandbox that can run; strong
  fairness of its end while it computes, as every computation brings its limit on processor time nearer. isolate gets
  no limit on wall time, so a program may sleep for ever: `TesterReturns` names that case. Nothing is assumed of
  a program outside the sandbox.
- `Accounts`, `Catalogue`, `Forms` have safety properties only and state no fairness.

## 4. Proofs

| theorem | for | says |
|---|---|---|
| `DataTheorems!MergeIsMoreSevere` | any two verdicts | the match arms return the more severe |
| `DataTheorems!RoundTrip` | any verdict | column and back is the identity on verdicts |
| `LoopProofs!LoopsComputeTheWorst` | any set of column values, any number of rows | `MergeSpec => []VerdictIsWorst` |
| `LoopProofs!NothingGetsLost` | files of any length, any boundary | `Spec => []NothingIsLost` |
| `LoopProofs!FilesArrive` | the same | `Spec => []FileArrives` |
| `WorkerPoolProofs!TypeCorrect` | any number of tasks, tests, workers, any buffer | `Safe => []TypeOK` |
| `WorkerPoolProofs!QueueSizesExact` | the same | `Safe => []QueueSizeExact` |
| `WorkerPoolProofs!QueueSizesInRange` | the same | a counter is never negative and stays within the range of its `i32` |
| `WorkerPoolProofs!JobsAreInOnePlace` | the same | `Safe => []EachJobInOnePlace` |
| `WorkerPoolProofs!LoadsAreBalanced` | the same, at least one task | `Safe => []LoadBalanced` |
| `WorkerPoolProofs!WorkerPoolImplementsJobPool` | the same | `Safe => JP!Safe`: every step of the pool is a step of `JobPool` or a stutter |
| `JudgeProofs!TypeCorrect` | any users, submissions, tests, subtasks, workers (running or off), problems | `Safe => []TypeOK` |
| `JudgeProofs!VerdictsAreFaithful` | the same | `Safe => []VerdictFaithful` |
| `JudgeProofs!ExecutablesOutliveTests` | the same | `Safe => []ExecutableOutlivesItsTests` |
| `JudgeProofs!JudgeImplementsService` | the same | `Safe => Service!Spec`: a submission goes through the abstract life of `JudgeService` |
| `JudgeProofs!SomeoneAlwaysFinalises` | the same | `Safe => []SomeoneFinalises` |
| `JudgeProofs!ScoresAreEarned` | the same | `Safe => []ScoreIsEarned` |
| `JudgeProofs!ScoresCoverOwnPoints` | the same | `Safe => ScoreCoversOwnPoints`, an action property |
| `JudgeProofs!ScoresAreExact` | the same | `Safe => []ScoreIsExact` |
| `JudgeAdminProofs!AdminTypeCorrect` | the same, and any files of tests | `AdminSafe => []AdminTypeOK` |
| `JudgeAdminProofs!UploadsCompleteAlone` | the same | `AdminSafe => []UndisturbedUploadCompletes` |
| `JudgeAdminProofs!DeletionsCompleteAlone` | the same | `AdminSafe => []UndisturbedDeletionCompletes` |
| `JudgeAdminProofs!VerdictsKeepTheirTests` | the same | `AdminSafe => []VerdictsRestOnTests` |
| `JudgeAdminProofs!ScoresStayWithinPoints` | the same | `AdminSafe => []ScoreWithinProblemPoints` |
| `TesterProofs!TesterTypesHold` | any number of calls, restarts, sizes of inputs, outputs and pipes | `Spec => []TypeOK` |
| `TesterProofs!FailuresStayInTheirCall` | the same | `Spec => []ErrorsDoNotSpread` |
| `TesterProofs!MetaFileIsOwn` | the same | `Spec => []MetaIsOwn` |
| `TesterProofs!VerdictsMatchRuns` | the same | `Spec => []VerdictMatchesRun` |
| `CatalogueProofs!CatalogueTypesHold` | any requests, numbers, given names, ids | `Spec => []TypeOK` |
| `CatalogueProofs!OldProblemsStay` | the same | `Spec => []OldProblemsAreKept` |
| `CatalogueProofs!CreatedProblemsStay` | the same | `Spec => []CreatedProblemStays` |
| `CatalogueProofs!UndisturbedCreationSucceeds` | the same | `Spec => []UndisturbedCreation` |
| `AccountsProofs!AccountsTypeCorrect` | any requests, names, passwords, contests, forms, bounds | `Spec => []TypeOK` |
| `AccountsProofs!SessionsAreSound` | the same | `Spec => []SessionShowedPassword` |
| `AccountsProofs!OnlyDisturbedRequestsFail` | the same | `Spec => UndisturbedRequestsSucceed`, an action property |
| `AccountsProofs!ChangesDoWhatTheyAreAsked` | the same | `Spec => []ParticipantsAsAsked` |
| `AccountsProofs!AdminIsSetUp` | the same | `Spec => StartupSetsUpAdmin`, an action property |

### Assumptions

The only assumptions are the named ones on constants, which TLC evaluates in the runs. They say: the sets of
submissions' tests and subtasks are finite (they are rows of tables); the bounds are naturals; the score of a subtask is a natural
(the handler of an upload takes it from the file, a `Vec<i32>` it does not check, so a negative score would be stored: such files are not modelled, and
`ScoreWithinProblemPoints` need not hold with them); the values that stand for
"nothing" are no value; a run of the tester ends in a final verdict other than a compilation error (`Verdicts`,
`tester.rs`); and `CounterAssumption`: the channel's size and the number of tasks together are below 2^31. `BUFFER_SIZE`
is a small literal in `worker.rs`, and two thousand million tasks do not fit into the memory of a process; without it
`QueueSizesInRange` would be false, since the counter is an `AtomicI32`. `FormsAssumption` says that CR, LF, dash and the
letter are four bytes, that a boundary is a piece of a header (so it has no line break) and not empty, and that "no-boundary" has a byte
which the files of the model do not have: a file that contains `--no-boundary` and is sent without a boundary is not modelled.

### Induction

An induction theorem that takes a predicate cannot be used with the provers at hand. `DataTheorems` therefore states
induction for a *set*: `UpTo` says that a set of naturals with 0 and closed under successor has every natural (otherwise
the successor would be an injection, not a surjection, of a finite set into itself), `SubsetInduction` that a family of
subsets closed under adding one element has the whole finite set. On it rest the facts about the sum of a function over a finite set, which
`MapThenSumSet` of the community modules computes: adding or removing an element, bounds, monotony. The loops over sequences are
folds (`FoldLeft`), whose definition chooses a recursive function over the sets of indexes; `FoldExists` shows that there is one, for any
step. `JoinTurns` and `RetainTurns` then give the value of `Join` and `Retain` after each turn.

### The inductive invariants

- *Merge loops.* The invariant adds the types to `VerdictIsWorst`; a step merges one
  verdict into both an accumulator and the set it has seen. The work is in the lemmas on
  `Worst`: it exists for every set, absorbs one element, and absorbs the worst of another set
  (`AbsorbOne`, `AbsorbAbsorbed`), each by the finite order of severity.
- *Forms, the loop.* `LoopInv` adds to `NothingIsLost` what the bytes being gathered are: those since the last splitter, with no splitter starting
  at any of their positions (`CurrentIsTail`). From the positions follows that none is in them (`NotInside`): a splitter inside would have been
  cut when the loop came to its first byte. `JoinEnd` and `JoinPush` say what a cut and a byte do to the parts joined again. `SplitInv` carries
  this over both uses of the loop.
- *Forms, files.* That the parts are right does not say which part the file is in. `BodyTurn` gives, for each position of
  the loop in the body, the parts cut so far: before the first delimiter, in the part of the file, after the closing boundary. That there are no other
  cuts is `BodyMatches`: a delimiter is not in the file, has no line break, and what surrounds it has one at every place where it could overlap. `PartTurn`
  does the same for the cut at line breaks: six positions in the four lines before the file (`HeaderTurns`), after that only the
  invariant that the lines joined again are the bytes read (`FileSoFar`), whatever line breaks the file has at its ends. The
  loop comes neither to the last byte alone nor past it without a cut, since the part ends in CR LF; so the last line is
  empty, dropping it drops just that line break, and what is left is the file.
- *Worker pool, types.* `TypeOK` is not inductive: the type says that a task's or a worker's job is a job
  or `None`, and what is sent down a channel or reported must be a job. `TInv` adds `HasJob`: who is past
  picking up a job holds one. The proof has one step per action.
- *Worker pool, counters.* `ExactStep` takes `QueueSizeExact` through each action. `SendingTo(w)` is a finite
  set because the senders are, and `FetchAdd` adds one element to it, `Send` takes one away while the
  channel grows by one, and so on: each action moves a unit between the terms. A counter is thus at most what the
  channel, the worker and the tasks that wait to send hold, from which `QueueSizesInRange` follows.
- *Worker pool, places.* `PInv` says where a job may be: still to be picked up by its task, in the task's hand, in one channel at
  one position, in the hand of one worker, or finished (`OnePlace`), and what tasks and workers between two jobs hold (`Hands`).
  From it the refinement, in which only a send, a receive and a report are steps of the abstract pool (`SendHandsOver` and the lemmas
  after it); `Known` adds that what a channel holds is a job of some task.
- *Worker pool, balance.* `BInv` counts for each worker the jobs that were counted there so far (`Counts`): a counter
  never exceeds that number, nor does the minimum of a scan exceed it at a worker the scan has passed. A scan that has passed them all
  therefore carries at most an even share less one, since its own job is not among those counted. What concurrent
  scans with the same smallest worker may still add is part of the bound (`Holders`, `Shares`). With no task at all
  `LoadBalanced` would speak of an even share of nothing less one, so the theorem assumes there is one.
- *Judge, types.* `TInv` strengthens `TypeOK` by what each `pc` of a worker guarantees about its local
  variables (a job that is not `None` outside of idle, a user while a score is computed) and by the points of a
  subtask being 0 or its score: without that the maximum in `BestPoints` is taken of an unknown set
  (`BestPointsAllOrNothing`). The steps are grouped by actor: `HandlerType`, `TaskType`, `JobType`,
  `FinaliseType`, `ScoreType`, `RestartType`. The error paths that need vanished rows are not covered: they
  belong to `JudgeAdmin`. Tables are functions with a changing domain; the lemmas
  `InsertIsTable`, `UpdateIsTable`, `MapIsTable` say once what a statement does to one.
- *Judge, verdicts.* `JInv` adds to `TInv`, for each submission, what its place in the pipeline says of everything else
  (`LocalInv`): which rows there are (`RowsInv`), that nothing is tested before jobs are handed over (`StageInv`), that each job is
  with the task, in the pool or with one worker, and in one of these only (`JobsInv`), that a test has a result exactly once a
  worker has stored it (`ResultsInv`), that `tests_done` and the jobs not counted yet add up to the tests (`CountInv`), that the executable
  is there while a job is left (`FilesInv`), and what a worker that reduces has gathered and a published verdict stands on
  (`VerdictInv`). `CountInv` is what makes two workers that cross in `worker_test_is_done` harmless: one that reads a full
  counter knows that no job is left. A step concerns one submission; `KeptLocal` keeps the invariant of all others at once.
- *Judge, the last worker.* `SInv` adds that, once all jobs of a submission are counted, it is finished or some worker is
  on its way to finish it (`FinishInv`): the worker that counts the last test is at `read_tests_done` and will read a full counter. It bounds the sum
  of a worker that computes a score from both sides (`SummingInv`): at most what the selected submissions earn, at
  least what the one it has judged does. Points that are written stay (`Grows`), so a sum of rows read
  at different moments is never more than what is earned in the end (`TotalsInv`).
- *Judge, one worker.* `ScoreIsExact` speaks of the behaviours with one worker and no restart, so `EInv` adds, under
  that hypothesis (`Only`), that only this worker has written points of a submission which is not judged, that it selects every
  judged submission of the user, and that only the user it sums for may have a score that is not up to date.
- *Judge with administrators.* Rows vanish under the judge here, so `JInv` does not hold; of `JudgeProofs` the types carry
  over, and what is said of one submission at a time. `AInv` takes its place. One half is true however the operations cross: `LinksInv` (an upload adds a test
  before the link to it), `RowsHaveSubmissions` (a result has its submission: the guard of a foreign key is part of the
  statement) and `KnownInv` (an id of a submission is used once, so a row that a deletion has on its list cannot come back as
  somebody else's). The other half is true until somebody crosses the operation: `UploadAlone` and `DeletionAlone` say, for each
  `pc`, which submissions have no row left and which are still on the list, so that no foreign key refuses the next
  statement; `StandingInv` is about the judge. A step of anybody
  else marks the operation as disturbed in the same step, so each conjunct has to be shown only for the operation's own statements.
  `StandingInv` sorts the submissions, as long as no upload was crossed, into three kinds: those of a user who is being deleted
  (`Leaving`), of which nothing is claimed; those that are out of the pipeline without a verdict (`Retired`: no task, no job, no
  worker); and those in the pipeline or judged, of which all of `LocalInv` of `JudgeProofs` holds, and with it `Faithful`. A step of the
  judge keeps the kind of its own submission (`LocalStep`) and leaves the others alone (`KeptStands`); the errors it meets only happen to
  submissions that are leaving (`NoInsertError`, `NoReduceError`). An upload that nobody crossed has the judge at rest: its `UPDATE` retires
  one submission after the other (`StandingForget`), and by the time it touches tests every submission with a row is retired
  (`StandingReplace`), so a verdict is never left over rows it deletes, wherever it is dropped.
  `BudgetInv` bounds scores: what a worker has added up, and the scores of the subtasks it has selected and not read yet, stay
  within the points of the problem (`WithinBudget`). The points are raised before the subtask is added, and never
  lowered, so what a worker has selected stays within them when an upload replaces the subtasks.
- *Tester.* `TInv` joins the properties with what they rest on: the states of the programs (`ProcInv`); what each `pc`
  of a call says of its program and its meta file (`CallInv`); and that a box that was cleaned up is free, and a program runs in a box of its
  own (`BoxInv`). The clean-up before each run is what makes it inductive over calls: whatever an earlier call left, failed or not, is gone
  when the box is initialised. Only a program of an earlier server may still be in the box then, which is the one excuse in `ErrorsDoNotSpread`.
- *Catalogue.* `CInv` says for each request that the problems it knew when it started have ids the sequence has passed
  (`KeepsOld`). When it has found a number free, none of these has the name; other requests insert under new ids, and a name given on
  the edit page is no number; so whatever it finds in the second lookup is new. A request that nobody disturbs
  (`Alone`) still sees the table of its start, and every number it has passed is taken there. What is linked is never removed:
  the foreign key of `contest_problems` is all that `CreatedProblemStays` rests on.
- *Accounts.* `TypeOK` there includes the keys of the tables: a name belongs to one user, tokens and participations
  to users there are. Neither it nor `SessionShowedPassword` is inductive. A login between the check of the password
  and the `INSERT` of the token holds an id only: its user may be deleted meanwhile, and a new one must not get that id.
  `Inv` therefore adds that such a login's id is not beyond the sequence (`Knows`) and that, if the row is
  still there, its password is the one shown. Every step satisfies `UsersGrow` (new ids are beyond the sequence, rows never
  change), which keeps `Knows` for all other requests; `StepKeepsInv` puts this together once, and each action only
  shows what it does to the tables and to its own request. `MainFirst` and `RoomOK` (no requests before the
  account `admin` is set up; an id left for each start) bound the sequence by `MaxUsers`.
- *Accounts, undisturbed requests.* `CleanInv` adds what a request has kept of its form (`KeepsForm`), and what one that
  nobody disturbed relies on at each `pc` (`Relies`): the users it is about are there, the sessions and then the participations of a user it
  deletes are gone, and the users of its form it has visited take part, or not, as the form says. `MainKnows` says that nobody
  but `run_server` deals with a user named `admin` while it sets that account up. Each action shows it for its own request; for the others a
  step either changes nothing they rely on, or marks them as disturbed. So a step to "failed" is one whose excuse can be named:
  a foreign key or a row that is gone, where `Relies` says the request was disturbed, or the name of the new user.

### Only model-checked

Liveness (`EveryTestReported`, `SubmissionGetsVerdict`, `ExecutableIsRemoved`, `WorkerReturns`,
`TesterReturns`) and the fairness part of `JobPoolSpec` need ENABLED, which the provers at hand do not handle.
`SavedTextIsStable` is about `Fields`, a composition of four folds (`Cut`, `Lines`, `Trim`, `Join`) applied twice to an arbitrary text. What each
gives for *every* text is an induction over data with several accumulators; it would say of `str::split` and `str::lines`, which are
not this program's code, most of what it says. TLC checks it for every text of up to five bytes.

## 5. Not modelled

- *Creation and removal of contests* (`add_contest`, `remove_contest`, `add_contest_override`): the server never
  calls them.
- *Expiration of tokens*: `add_token` stores a date that nothing reads.
- *Pages and templates*: they read the database and keep no state. Of the router, the dispatch of
  requests that change nothing.
- *Url-encoded forms* (`parse_body`), cookies, hashing of passwords: forms, tokens and passwords are values.
- *Database client*: it appears as the atomicity of a statement. A lost connection, which disables the
  server until a restart, is not modelled.
- *Startup*: the configuration, TLS and the accept loop. The restart is modelled, an end by an error of `accept`
  included. `num_workers = 0` is excluded by an assumption of `WorkerPool`, and included in `Judge`.
- *Two uploads at once*, and an upload while a problem is created, statement by statement.
- *Decoding of an uploaded file* (snappy, bincode), descriptions, messages and times: data no property depends on.
- *The load test*, which fetches pages.

## 6. Plan

Written, in this order: `TestingResults`/`ResultMerge`, `JobPool`/`WorkerPool`, `Judge`, `JudgeAdmin`, `Tester`,
`Catalogue`, then `Accounts`, `JudgeService` with the refinement, `Forms`, with the proofs above.

Next, to extend the model: two uploads at once, and an upload during a creation, statement by statement; a
lost database connection.

Next, to prove: `SavedTextIsStable`, from a description of `Cut` by the positions of its pieces, in the way `BodyTurn` and `PartTurn`
describe the loop over a file.
