------------------------------- MODULE Tester -------------------------------
(***************************************************************************)
(* execute_test (tester.rs): how one worker runs a compiled program on the *)
(* inputs of consecutive tests, in an isolate sandbox when isolate is      *)
(* installed and as a plain child process otherwise.  The program reads    *)
(* and writes pipes of bounded capacity while the tester first writes the  *)
(* whole input and only then reads the output; a call may fail at any `?`, *)
(* and the server may be restarted in the middle of one.                   *)
(*                                                                         *)
(* Workers do not meet here: the number of a worker is the number of its   *)
(* box and of its meta file, and it makes one call at a time (WorkerPool). *)
(* Input and output are counted in units; whether the output is the        *)
(* expected one is a property the program's end reveals.                   *)
(***************************************************************************)
EXTENDS TestingResults

CONSTANTS NumCalls,    \* tests the worker executes one after the other
          InputSize,   \* units of a test's input
          MaxOutput,   \* bound on the units a program writes
          StdinCap, StdoutCap,  \* capacities of the two pipes
          Sandboxed,   \* answers is_isolate_installed may give
          MaxRestarts, \* bound on the restarts of the server
          None

Calls == 1..NumCalls

ASSUME TesterAssumption ==
    /\ NumCalls \in Nat \ {0}
    /\ {InputSize, MaxOutput, MaxRestarts} \subseteq Nat
    /\ {StdinCap, StdoutCap} \subseteq Nat \ {0}
    /\ Sandboxed \subseteq BOOLEAN
    /\ None \notin TestingResult

VARIABLES
    call,     \* the current call, 0 before the first
    pc,       \* where execute_test is
    isolated, \* which of the two variants it runs
    written,  \* units of the input written
    process,  \* the program of each call
    box,      \* contents of the sandbox: None, or the calls whose program is in it
    meta,     \* the call whose run the meta file describes, or None
    verdict,  \* of each call
    fault,    \* history: calls in which a step failed
    crowded,  \* history: calls that met a run of an earlier server in the box
    restarts

tester == <<call, pc, isolated, written>>
files == <<box, meta>>
history == <<verdict, fault, crowded>>
vars == <<tester, process, files, history, restarts>>

\* `end` is how the program ended, `output` what its complete output is.
NoProcess ==
    [pc |-> "none", boxed |-> FALSE, read |-> 0, eof |-> FALSE,
     out |-> 0, drained |-> 0, end |-> "none", output |-> "none"]

Init ==
    /\ call = 0
    /\ pc = "idle"
    /\ isolated = FALSE
    /\ written = 0
    /\ process = [c \in Calls |-> NoProcess]
    /\ box = None
    /\ meta = None
    /\ verdict = [c \in Calls |-> None]
    /\ fault = {}
    /\ crowded = {}
    /\ restarts = 0

-----------------------------------------------------------------------------
IsRunning(c) == process[c].pc \in {"compute", "sleep", "read", "write"}

\* The ends of the pipes the tester still holds.
StdinOpen(c) == c = call /\ pc = "write"
StdoutOpen(c) == c = call /\ pc \in {"write", "wait"}

InStdin(c) == (IF c = call THEN written ELSE process[c].read) - process[c].read
InStdout(c) == process[c].out - process[c].drained

\* isolate locks its box for as long as a program runs in it.
BoxBusy == \E c \in Calls : IsRunning(c) /\ process[c].boxed

Goto(next) ==
    /\ pc' = next
    /\ UNCHANGED <<call, isolated>>

Return(v) ==
    /\ verdict' = [verdict EXCEPT ![call] = v]
    /\ pc' = "idle"
    /\ UNCHANGED <<call, isolated, written>>

\* An error of execute_test: the worker stores an internal error.
Fail ==
    /\ Return("InternalError")
    /\ fault' = fault \cup {call}
    /\ UNCHANGED <<process, files, crowded, restarts>>

StartCall ==
    /\ pc = "idle"
    /\ call < NumCalls
    /\ call' = call + 1
    /\ isolated' \in Sandboxed
    /\ written' = 0
    /\ pc' = IF isolated' THEN "cleanup" ELSE "spawn"
    /\ UNCHANGED <<process, files, history, restarts>>

-----------------------------------------------------------------------------
\* Mutant: the box is assumed to be as the last call left it, which is clean.
BugCleanupBox ==
    /\ pc = "cleanup"
    /\ Goto("init")
    /\ UNCHANGED <<written, process, files, history, restarts>>

\* cleanup_box: the status of isolate --cleanup is not looked at.
CleanupBox ==
    /\ pc = "cleanup"
    /\ box' = IF BoxBusy THEN box ELSE None
    /\ crowded' = IF BoxBusy THEN crowded \cup {call} ELSE crowded
    /\ Goto("init")
    /\ UNCHANGED <<written, process, meta, verdict, fault, restarts>>

InitBox ==
    /\ pc = "init"
    /\ ~BoxBusy
    /\ box = None
    /\ box' = {}
    /\ Goto("copy")
    /\ UNCHANGED <<written, process, meta, history, restarts>>

\* isolate --init refuses a box that is in use or was not cleaned up.
InitRefused ==
    /\ pc = "init"
    /\ BoxBusy \/ box # None
    /\ Return("InternalError")
    /\ UNCHANGED <<process, files, fault, crowded, restarts>>

CopyExecutable ==
    /\ pc = "copy"
    /\ box' = box \cup {call}
    /\ Goto("spawn")
    /\ UNCHANGED <<written, process, meta, history, restarts>>

\* Mutant: isolate is not given the name of the meta file.
BugSpawn ==
    /\ pc = "spawn"
    /\ process' = [process EXCEPT ![call] =
                      [NoProcess EXCEPT !.pc = "compute", !.boxed = isolated]]
    /\ Goto("write")
    /\ UNCHANGED <<written, files, history, restarts>>

\* isolate --run starts the meta file anew.
Spawn ==
    /\ pc = "spawn"
    /\ process' = [process EXCEPT ![call] =
                      [NoProcess EXCEPT !.pc = "compute", !.boxed = isolated]]
    /\ meta' = IF isolated THEN call ELSE meta
    /\ Goto("write")
    /\ UNCHANGED <<written, box, history, restarts>>

\* Any of the steps so far may fail, and so may the later ones that touch
\* files or start isolate.
StepFails == pc \in {"cleanup", "init", "copy", "spawn", "cleanup_again", "meta"} /\ Fail

-----------------------------------------------------------------------------
\* Mutant: one unit more than there is.
BugWriteInput ==
    /\ pc = "write"
    /\ written <= InputSize
    /\ IsRunning(call)
    /\ InStdin(call) < StdinCap
    /\ written' = written + 1
    /\ Goto("write")
    /\ UNCHANGED <<process, files, history, restarts>>

\* stdin.write_all(official_input)
WriteInput ==
    /\ pc = "write"
    /\ written < InputSize
    /\ IsRunning(call)
    /\ InStdin(call) < StdinCap
    /\ written' = written + 1
    /\ Goto("write")
    /\ UNCHANGED <<process, files, history, restarts>>

\* The program is gone: the pipe is broken and write_all returns the error.
WriteFails ==
    /\ pc = "write"
    /\ written < InputSize
    /\ ~IsRunning(call)
    /\ Fail

InputWritten ==
    /\ pc = "write"
    /\ written = InputSize
    /\ Goto("wait")
    /\ UNCHANGED <<written, process, files, history, restarts>>

\* Mutant: the output is read only after the program has exited.
BugReadOutput ==
    /\ pc = "wait"
    /\ ~IsRunning(call)
    /\ InStdout(call) > 0
    /\ process' = [process EXCEPT ![call].drained = @ + 1]
    /\ UNCHANGED <<tester, files, history, restarts>>

\* wait_with_output reads stdout while it waits.
ReadOutput ==
    /\ pc = "wait"
    /\ InStdout(call) > 0
    /\ process' = [process EXCEPT ![call].drained = @ + 1]
    /\ UNCHANGED <<tester, files, history, restarts>>

Collected ==
    /\ pc = "wait"
    /\ ~IsRunning(call)
    /\ InStdout(call) = 0

CompareOutput(c) ==
    IF process[c].output = "right" THEN "Accepted" ELSE "WrongAnswer"

\* execute_test_unsafely looks at the output only.
JudgeOutput ==
    /\ Collected
    /\ ~isolated
    /\ process[call].output # "not_utf8"
    /\ Return(CompareOutput(call))
    /\ UNCHANGED <<process, files, fault, crowded, restarts>>

\* The timeout drops the future that waits, and the program runs on.
TimeOut ==
    /\ pc = "wait"
    /\ ~isolated
    /\ Return("TimeLimitExceeded")
    /\ UNCHANGED <<process, files, fault, crowded, restarts>>

OutputUnreadable ==
    /\ Collected
    /\ process[call].output = "not_utf8"
    /\ Fail

OutputRead ==
    /\ Collected
    /\ isolated
    /\ process[call].output # "not_utf8"
    /\ Goto("cleanup_again")
    /\ UNCHANGED <<written, process, files, history, restarts>>

CleanupAgain ==
    /\ pc = "cleanup_again"
    /\ box' = IF BoxBusy THEN box ELSE None
    /\ Goto("meta")
    /\ UNCHANGED <<written, process, meta, history, restarts>>

\* What isolate writes to the meta file about a run that ended this way.
Meta(end) ==
    [exitcode |-> IF end = "code" THEN 1 ELSE 0,
     exitsig |-> IF end = "signal" THEN 11 ELSE 0,
     killed |-> IF end = "time" THEN 1 ELSE 0,
     status |-> CASE end = "code" -> "RE" [] end = "signal" -> "SG"
                  [] end = "time" -> "TO" [] OTHER -> ""]

\* Mutant: `killed` alone is looked at.
BugMetaVerdict(m, compared) ==
    IF m.killed # 0 THEN "TimeLimitExceeded" ELSE compared

\* The end of execute_test_isolated.
MetaVerdict(m, compared) ==
    CASE m.exitsig # 0 \/ m.exitcode # 0 -> "RuntimeError"
      [] m.exitsig = 0 /\ m.exitcode = 0 /\ m.killed # 0 ->
            CASE m.status = "TO" -> "TimeLimitExceeded"
              [] m.status \in {"SG", "RE"} -> "RuntimeError"
              [] OTHER -> "InternalError"
      [] OTHER -> compared

JudgeMeta ==
    /\ pc = "meta"
    /\ meta # None
    /\ meta' = None
    /\ Return(MetaVerdict(Meta(process[meta].end), CompareOutput(call)))
    /\ UNCHANGED <<process, box, fault, crowded, restarts>>

-----------------------------------------------------------------------------
(***************************************************************************)
(* The program, which is not part of the repository: it computes, reads,   *)
(* writes and ends in any way.  A blocked program uses no processor time,  *)
(* so isolate --time does not end it.                                      *)
(***************************************************************************)
Becomes(c, p) ==
    /\ process' = [process EXCEPT ![c] = p]
    /\ UNCHANGED <<tester, files, history, restarts>>

ProgramComputes(c) ==
    /\ process[c].pc = "compute"
    /\ \/ Becomes(c, [process[c] EXCEPT !.pc = "sleep"])
       \/ ~process[c].eof /\ Becomes(c, [process[c] EXCEPT !.pc = "read"])
       \/ process[c].out < MaxOutput /\ Becomes(c, [process[c] EXCEPT !.pc = "write"])

ProgramWakes(c) ==
    /\ process[c].pc = "sleep"
    /\ Becomes(c, [process[c] EXCEPT !.pc = "compute"])

ProgramEnds(c) ==
    /\ process[c].pc = "compute"
    /\ \E end \in {"ok", "code", "signal"} \cup (IF process[c].boxed THEN {"time"} ELSE {}) :
          \E output \in {"right", "wrong", "not_utf8"} :
             Becomes(c, [process[c] EXCEPT !.pc = "ended", !.end = end,
                                           !.output = output])

ProgramReads(c) ==
    /\ process[c].pc = "read"
    /\ \/ /\ InStdin(c) > 0
          /\ Becomes(c, [process[c] EXCEPT !.pc = "compute", !.read = @ + 1])
       \/ /\ InStdin(c) = 0
          /\ ~StdinOpen(c)
          /\ Becomes(c, [process[c] EXCEPT !.pc = "compute", !.eof = TRUE])

\* Writing to a pipe that nobody will read ends the program.
ProgramWrites(c) ==
    /\ process[c].pc = "write"
    /\ \/ /\ StdoutOpen(c)
          /\ InStdout(c) < StdoutCap
          /\ Becomes(c, [process[c] EXCEPT !.pc = "compute", !.out = @ + 1])
       \/ /\ ~StdoutOpen(c)
          /\ Becomes(c, [process[c] EXCEPT !.pc = "ended", !.end = "signal",
                                           !.output = "wrong"])

\* The server is stopped and started: a program may or may not survive it.
Restart ==
    /\ restarts < MaxRestarts
    /\ restarts' = restarts + 1
    /\ pc' = "idle"
    /\ \E killed \in SUBSET {c \in Calls : IsRunning(c)} :
          process' = [c \in Calls |->
              IF c \in killed
              THEN [process[c] EXCEPT !.pc = "ended", !.end = "signal", !.output = "wrong"]
              ELSE process[c]]
    /\ UNCHANGED <<call, isolated, written, files, history>>

-----------------------------------------------------------------------------
TesterStep ==
    \/ CleanupBox
    \/ InitBox
    \/ InitRefused
    \/ CopyExecutable
    \/ Spawn
    \/ StepFails
    \/ WriteInput
    \/ WriteFails
    \/ InputWritten
    \/ ReadOutput
    \/ JudgeOutput
    \/ TimeOut
    \/ OutputUnreadable
    \/ OutputRead
    \/ CleanupAgain
    \/ JudgeMeta

ProgramStep(c) ==
    ProgramComputes(c) \/ ProgramEnds(c) \/ ProgramReads(c) \/ ProgramWrites(c)

\* The worker has no further test, or waits in write_all for a program that
\* waits for it.
AtRest ==
    \/ pc = "idle" /\ call = NumCalls
    \/ pc = "write" /\ written < InputSize /\ InStdin(call) = StdinCap

Next ==
    \/ StartCall
    \/ TesterStep
    \/ \E c \in Calls : ProgramStep(c) \/ ProgramWakes(c)
    \/ Restart
    \/ (AtRest /\ UNCHANGED vars)

\* The tester and the timer are scheduled.  A program in the sandbox moves on,
\* and one that computes again and again is ended by its time limit; it may
\* sleep for ever, as nothing limits the wall time of a run.  Nothing is
\* assumed of other programs.
Fairness ==
    /\ WF_vars(StartCall)
    /\ WF_vars(TesterStep)
    /\ WF_vars(TimeOut)
    /\ \A c \in Calls : /\ WF_vars(process[c].boxed /\ ProgramStep(c))
                        /\ SF_vars(process[c].boxed /\ ProgramEnds(c))

Safe == Init /\ [][Next]_vars

Spec == Safe /\ Fairness

-----------------------------------------------------------------------------
TypeOK ==
    /\ call \in 0..NumCalls
    /\ pc \in {"idle", "cleanup", "init", "copy", "spawn", "write", "wait",
               "cleanup_again", "meta"}
    /\ isolated \in BOOLEAN
    /\ written \in 0..InputSize
    /\ process \in [Calls ->
           [pc : {"none", "compute", "sleep", "read", "write", "ended"},
            boxed : BOOLEAN, read : 0..InputSize, eof : BOOLEAN,
            out : 0..MaxOutput, drained : 0..MaxOutput,
            end : {"none", "ok", "code", "signal", "time"},
            output : {"none", "right", "wrong", "not_utf8"}]]
    /\ box \in {None} \cup SUBSET Calls
    /\ meta \in Calls \cup {None}
    /\ verdict \in [Calls -> TestingResult \cup {None}]
    /\ fault \subseteq Calls
    /\ crowded \subseteq Calls
    /\ restarts \in 0..MaxRestarts

(***************************************************************************)
(* A failed call or a restart leaves a box and a meta file behind; the     *)
(* next call of the worker is not affected.  An internal error without a   *)
(* failed step of the same call happens only while a program started by an *)
(* earlier server is still in the box.                                     *)
(***************************************************************************)
ErrorsDoNotSpread ==
    \A c \in Calls : verdict[c] = "InternalError" => c \in fault \cup crowded

(***************************************************************************)
(* The meta file that decides a verdict describes the run of that call,    *)
(* whatever files earlier calls left, and the box held no other program.   *)
(***************************************************************************)
MetaIsOwn ==
    /\ pc = "meta" => meta = call
    /\ \A c \in Calls : IsRunning(c) /\ process[c].boxed => box = {c}

(***************************************************************************)
(* A verdict other than an error is about a program that ended with its    *)
(* output read completely; in the sandbox a crash or a time limit is never *)
(* hidden behind a right output.  (Without the sandbox it may be: only a   *)
(* timeout is noticed there.)                                              *)
(***************************************************************************)
VerdictMatchesRun ==
    \A c \in Calls :
        LET p == process[c]
        IN  /\ verdict[c] \in {"Accepted", "WrongAnswer", "RuntimeError"} =>
                   p.pc = "ended" /\ p.drained = p.out
            /\ verdict[c] = "Accepted" => p.output = "right"
            /\ p.boxed /\ verdict[c] \in {"Accepted", "WrongAnswer"} => p.end = "ok"
            /\ p.boxed /\ verdict[c] = "TimeLimitExceeded" => p.end = "time"

(***************************************************************************)
(* Every call returns, however the program behaves, but for two cases: the *)
(* program stopped reading an input that does not fit the pipe, and the    *)
(* tester waits in write_all, which no timeout covers; or the program      *)
(* sleeps in the sandbox, where only its processor time is limited.        *)
(***************************************************************************)
StuckInWrite ==
    pc = "write" /\ written < InputSize /\ InStdin(call) = StdinCap

SleepsInBox ==
    pc = "wait" /\ isolated /\ process[call].pc = "sleep"

TesterReturns ==
    (<>[](pc = "idle")) \/ (<>[]StuckInWrite) \/ (<>[]SleepsInBox)
=============================================================================
