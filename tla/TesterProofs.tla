---------------------------- MODULE TesterProofs ----------------------------
(***************************************************************************)
(* The tester for any number of calls, any sizes of inputs and outputs and *)
(* any capacities of the pipes: nothing a call leaves behind, whether it   *)
(* fails or the server is stopped in the middle of it, reaches the verdict *)
(* of another call.                                                        *)
(***************************************************************************)
EXTENDS Tester, TLAPS

ProcessType ==
    [pc : {"none", "compute", "sleep", "read", "write", "ended"},
     boxed : BOOLEAN, read : 0..InputSize, eof : BOOLEAN,
     out : 0..MaxOutput, drained : 0..MaxOutput,
     end : {"none", "ok", "code", "signal", "time"},
     output : {"none", "right", "wrong", "not_utf8"}]

\* What is known of the programs: one ends once, writes only while there is
\* room for its output in the model, has read no more than was written to it,
\* and has not been started before its call.
ProcInv ==
    \A c \in Calls :
        /\ process[c].drained <= process[c].out
        /\ process[c].end # "none" <=> process[c].pc = "ended"
        /\ process[c].pc = "write" => process[c].out < MaxOutput
        /\ c = call => process[c].read <= written
        /\ c > call => process[c] = NoProcess /\ verdict[c] = None

\* The call that is being made has no verdict yet; from the start of its
\* program on the meta file is its own, and after it the program has ended.
CallInv ==
    /\ pc # "idle" => call \in Calls /\ verdict[call] = None
    /\ pc \in {"cleanup", "init", "copy", "cleanup_again", "meta"} => isolated
    /\ pc \in {"write", "wait", "cleanup_again", "meta"} =>
          /\ process[call].pc # "none"
          /\ process[call].boxed = isolated
          /\ isolated => meta = call
    /\ pc \in {"cleanup_again", "meta"} =>
          process[call].pc = "ended" /\ process[call].drained = process[call].out

\* A box that was cleaned up has no program of an earlier call in it, and a
\* program runs in a box that is its own.
BoxInv ==
    /\ pc = "init" => call \in crowded \/ (box = None /\ ~BoxBusy)
    /\ pc = "copy" => box = {} /\ ~BoxBusy
    /\ pc = "spawn" /\ isolated => box = {call} /\ ~BoxBusy
    /\ \A c \in Calls : IsRunning(c) /\ process[c].boxed => box = {c}

\* What VerdictMatchesRun says of call c if v is its verdict.
Matches(c, v) ==
    /\ v \in {"Accepted", "WrongAnswer", "RuntimeError"} =>
           process[c].pc = "ended" /\ process[c].drained = process[c].out
    /\ v = "Accepted" => process[c].output = "right"
    /\ process[c].boxed /\ v \in {"Accepted", "WrongAnswer"} => process[c].end = "ok"
    /\ process[c].boxed /\ v = "TimeLimitExceeded" => process[c].end = "time"

AllMatch == \A c \in Calls : Matches(c, verdict[c])

TInv ==
    /\ TypeOK
    /\ ProcInv
    /\ CallInv
    /\ BoxInv
    /\ ErrorsDoNotSpread
    /\ AllMatch

LEMMA CallsFacts == Calls \subseteq Int /\ NumCalls \in Nat
BY TesterAssumption DEF Calls

LEMMA NoneIsNoVerdict == None \notin TestingResult
BY TesterAssumption

LEMMA NoProcessType == NoProcess \in ProcessType /\ NoProcess.pc = "none"
BY TesterAssumption DEF NoProcess, ProcessType

\* A call without a verdict matches.
LEMMA NoneMatches == ASSUME NEW c PROVE Matches(c, None)
BY NoneIsNoVerdict DEF Matches, TestingResult

LEMMA TInvInit == Init => TInv
<1> SUFFICES ASSUME Init PROVE TInv
  OBVIOUS
<1>1. \A c \in Calls : process[c] = NoProcess /\ verdict[c] = None
  BY DEF Init
<1>2. ~BoxBusy /\ \A c \in Calls : ~IsRunning(c)
  BY <1>1 DEF BoxBusy, IsRunning, NoProcess
<1>3. TypeOK
  <2>1. process \in [Calls -> ProcessType]
    BY NoProcessType DEF Init
  <2>2. /\ call = 0 /\ written = 0 /\ restarts = 0 /\ 0 \in 0..NumCalls
        /\ 0 \in 0..InputSize /\ 0 \in 0..MaxRestarts
    BY TesterAssumption DEF Init
  <2>3. verdict \in [Calls -> TestingResult \cup {None}]
    BY DEF Init
  <2> QED BY <2>1, <2>2, <2>3 DEF Init, TypeOK, ProcessType
<1>4. ProcInv
  <2> SUFFICES ASSUME NEW c \in Calls
               PROVE  /\ NoProcess.drained <= NoProcess.out
                      /\ NoProcess.end # "none" <=> NoProcess.pc = "ended"
                      /\ NoProcess.pc = "write" => NoProcess.out < MaxOutput
                      /\ NoProcess.read <= written
    BY <1>1 DEF ProcInv
  <2> QED BY DEF Init, NoProcess
<1>5. CallInv /\ BoxInv
  BY <1>2 DEF Init, CallInv, BoxInv
<1>6. ErrorsDoNotSpread /\ AllMatch
  BY <1>1, NoneMatches, NoneIsNoVerdict DEF ErrorsDoNotSpread, AllMatch, TestingResult
<1> QED BY <1>3, <1>4, <1>5, <1>6 DEF TInv

-----------------------------------------------------------------------------
(***************************************************************************)
(* Steps of the same kind.                                                 *)
(***************************************************************************)
\* A box is as busy as the programs are.
LEMMA SameBusy ==
    ASSUME process' = process
    PROVE  /\ BoxBusy' <=> BoxBusy
           /\ \A c \in Calls : IsRunning(c)' <=> IsRunning(c)
           /\ \A c \in Calls : \A v : Matches(c, v)' <=> Matches(c, v)
BY DEF BoxBusy, IsRunning, Matches

\* The call ends with verdict v.
LEMMA Returns ==
    ASSUME TInv, pc # "idle", NEW v \in TestingResult, Return(v),
           UNCHANGED <<process, box, crowded, restarts>>,
           meta' \in Calls \cup {None}, fault \subseteq fault', fault' \subseteq Calls,
           v = "InternalError" => call \in fault' \cup crowded,
           Matches(call, v)
    PROVE  TInv'
<1>0. TypeOK /\ call \in Calls
  BY DEF TInv, CallInv
<1>1. /\ pc' = "idle" /\ UNCHANGED <<call, isolated, written>>
      /\ verdict'[call] = v
      /\ \A c \in Calls : c # call => verdict'[c] = verdict[c]
      /\ verdict' \in [Calls -> TestingResult \cup {None}]
  BY <1>0 DEF Return, TypeOK
<1>2. TypeOK'
  BY <1>0, <1>1 DEF TypeOK
<1>3. ProcInv'
  <2> SUFFICES ASSUME NEW c \in Calls, c > call PROVE verdict'[c] = None
    BY <1>1 DEF TInv, ProcInv
  <2>1. c # call
    BY <1>0, CallsFacts
  <2> QED BY <1>1, <2>1 DEF TInv, ProcInv
<1>4. CallInv'
  BY <1>1 DEF CallInv
<1>5. BoxInv'
  BY <1>1, SameBusy DEF TInv, BoxInv
<1>6. ErrorsDoNotSpread'
  BY <1>1 DEF TInv, ErrorsDoNotSpread
<1>7. AllMatch'
  <2> SUFFICES ASSUME NEW c \in Calls PROVE Matches(c, verdict[c])'
    BY DEF AllMatch
  <2>1. CASE c = call
    BY <1>1, <2>1 DEF Matches
  <2>2. CASE c # call
    <3>1. Matches(c, verdict[c]) /\ verdict'[c] = verdict[c]
      BY <1>1, <2>2 DEF TInv, AllMatch
    <3> QED BY <3>1 DEF Matches
  <2> QED BY <2>1, <2>2
<1> QED BY <1>2, <1>3, <1>4, <1>5, <1>6, <1>7 DEF TInv

LEMMA Fails == ASSUME TInv, pc # "idle", Fail PROVE TInv'
<1>1. TypeOK /\ call \in Calls
  BY DEF TInv, CallInv
<1>2. Matches(call, "InternalError") /\ "InternalError" \in TestingResult
  BY DEF Matches, TestingResult
<1>3. /\ Return("InternalError") /\ UNCHANGED <<process, box, crowded, restarts, meta>>
      /\ fault' = fault \cup {call}
  BY DEF Fail, files
<1> QED BY <1>1, <1>2, <1>3, Returns DEF TypeOK

\* Program c, which runs, becomes p.
LEMMA ProgramMoves ==
    ASSUME TInv, NEW c \in Calls, IsRunning(c), NEW p \in ProcessType, Becomes(c, p),
           p.boxed = process[c].boxed, p.drained = process[c].drained,
           process[c].out <= p.out, p.pc # "none",
           p.end # "none" <=> p.pc = "ended",
           p.pc = "write" => p.out < MaxOutput,
           c = call => p.read <= written
    PROVE  TInv'
<1>0. TypeOK /\ process[c] \in ProcessType /\ p.drained <= p.out
  <2>1. TypeOK /\ process[c] \in ProcessType /\ process[c].drained <= process[c].out
    BY DEF TInv, TypeOK, ProcessType, ProcInv
  <2> QED BY <2>1, TesterAssumption DEF ProcessType
<1>1. /\ process'[c] = p
      /\ \A d \in Calls : d # c => process'[d] = process[d]
      /\ process' \in [Calls -> ProcessType]
      /\ UNCHANGED <<call, pc, isolated, written, box, meta, verdict, fault, crowded,
                     restarts>>
  BY <1>0 DEF Becomes, TypeOK, ProcessType, tester, files, history
<1>2. process[c].pc \notin {"none", "ended"} /\ process[c].end = "none"
  BY DEF IsRunning, TInv, ProcInv
<1>3. TypeOK'
  BY <1>0, <1>1 DEF TypeOK, ProcessType
<1>4. ProcInv'
  <2> SUFFICES ASSUME NEW d \in Calls
               PROVE  /\ process'[d].drained <= process'[d].out
                      /\ process'[d].end # "none" <=> process'[d].pc = "ended"
                      /\ process'[d].pc = "write" => process'[d].out < MaxOutput
                      /\ d = call => process'[d].read <= written
                      /\ d > call => process'[d] = NoProcess /\ verdict[d] = None
    BY <1>1 DEF ProcInv
  <2>1. CASE d = c
    <3>1. ~(c > call)
      BY <1>2, NoProcessType DEF TInv, ProcInv
    <3> QED BY <1>0, <1>1, <2>1, <3>1
  <2>2. CASE d # c
    BY <1>1, <2>2 DEF TInv, ProcInv
  <2> QED BY <2>1, <2>2
<1>5. CallInv'
  <2>1. CASE c = call
    BY <1>1, <1>2, <2>1 DEF TInv, CallInv
  <2>2. CASE c # call
    BY <1>1, <2>2 DEF TInv, CallInv
  <2> QED BY <2>1, <2>2
<1>6. BoxInv'
  <2>1. \A d \in Calls : /\ IsRunning(d)' => IsRunning(d)
                         /\ process'[d].boxed = process[d].boxed
    BY <1>1 DEF IsRunning
  <2>2. BoxBusy' => BoxBusy
    BY <2>1 DEF BoxBusy
  <2> QED BY <1>1, <2>1, <2>2 DEF TInv, BoxInv
<1>7. ErrorsDoNotSpread'
  BY <1>1 DEF TInv, ErrorsDoNotSpread
<1>8. AllMatch'
  <2> SUFFICES ASSUME NEW d \in Calls PROVE Matches(d, verdict[d])'
    BY DEF AllMatch
  <2>1. Matches(d, verdict[d])
    BY DEF TInv, AllMatch
  <2>2. CASE d = c
    BY <1>1, <1>2, <2>1, <2>2 DEF Matches
  <2>3. CASE d # c
    BY <1>1, <2>1, <2>3 DEF Matches
  <2> QED BY <2>2, <2>3
<1> QED BY <1>3, <1>4, <1>5, <1>6, <1>7, <1>8 DEF TInv

\* A step of the tester that starts nothing and ends nothing.
LEMMA Proceeds ==
    ASSUME TInv, pc \in {"cleanup", "init", "copy", "write", "wait", "cleanup_again"},
           UNCHANGED <<call, isolated, process, meta, verdict, fault, restarts>>,
           written' \in 0..InputSize, written <= written',
           pc' # "idle", TypeOK', CallInv', BoxInv', crowded \subseteq crowded'
    PROVE  TInv'
<1>1. ProcInv'
  <2> SUFFICES ASSUME NEW c \in Calls, c = call PROVE process[c].read <= written'
    BY DEF TInv, ProcInv
  <2>1. process[c].read <= written /\ process[c].read \in Int /\ written \in Int
          /\ written' \in Int
    BY TesterAssumption DEF TInv, ProcInv, TypeOK
  <2> QED BY <2>1
<1>2. ErrorsDoNotSpread'
  BY DEF TInv, ErrorsDoNotSpread
<1>3. AllMatch'
  <2> SUFFICES ASSUME NEW c \in Calls PROVE Matches(c, verdict[c])'
    BY DEF AllMatch
  <2>1. Matches(c, verdict[c])
    BY DEF TInv, AllMatch
  <2> QED BY <2>1 DEF Matches
<1> QED BY <1>1, <1>2, <1>3 DEF TInv

-----------------------------------------------------------------------------
(***************************************************************************)
(* The steps of the tester.                                                *)
(***************************************************************************)
LEMMA StartCallStep == ASSUME TInv, StartCall PROVE TInv'
<1>0. TypeOK /\ call \in 0..NumCalls /\ call < NumCalls /\ pc = "idle"
  BY DEF TInv, TypeOK, StartCall
<1>1. /\ call' = call + 1 /\ isolated' \in BOOLEAN /\ written' = 0
      /\ pc' = IF isolated' THEN "cleanup" ELSE "spawn"
      /\ UNCHANGED <<process, box, meta, verdict, fault, crowded, restarts>>
  BY TesterAssumption DEF StartCall, files, history
<1>2. call' \in Calls /\ call' > call
  BY <1>0, <1>1, TesterAssumption DEF Calls
<1>3. process[call'] = NoProcess /\ verdict[call'] = None
  BY <1>2 DEF TInv, ProcInv
<1>4. TypeOK'
  <2>1. 0 \in 0..InputSize /\ call' \in 0..NumCalls
    BY <1>2, TesterAssumption DEF Calls
  <2> QED BY <1>0, <1>1, <2>1 DEF TypeOK
<1>5. ProcInv'
  <2> SUFFICES ASSUME NEW c \in Calls
               PROVE  /\ c = call' => process[c].read <= 0
                      /\ c > call' => process[c] = NoProcess /\ verdict[c] = None
    BY <1>1 DEF TInv, ProcInv
  <2>1. c > call' => c > call
    BY <1>0, <1>1, CallsFacts
  <2> QED BY <1>3, <2>1 DEF TInv, ProcInv, NoProcess
<1>6. CallInv'
  BY <1>1, <1>2, <1>3 DEF CallInv
<1>7. BoxInv'
  BY <1>1, SameBusy DEF TInv, BoxInv
<1>8. ErrorsDoNotSpread'
  BY <1>1 DEF TInv, ErrorsDoNotSpread
<1>9. AllMatch'
  BY <1>1, SameBusy DEF TInv, AllMatch, Matches
<1> QED BY <1>4, <1>5, <1>6, <1>7, <1>8, <1>9 DEF TInv

\* cleanup_box before and after the run.
LEMMA CleanupStep == ASSUME TInv, CleanupBox \/ CleanupAgain PROVE TInv'
<1>0. TypeOK /\ CallInv /\ BoxInv
  BY DEF TInv
<1>1. /\ box' = IF BoxBusy THEN box ELSE None
      /\ UNCHANGED <<call, isolated, written, process, meta, verdict, fault, restarts>>
      /\ \/ /\ pc = "cleanup" /\ pc' = "init"
            /\ crowded' = IF BoxBusy THEN crowded \cup {call} ELSE crowded
         \/ pc = "cleanup_again" /\ pc' = "meta" /\ crowded' = crowded
  BY DEF CleanupBox, CleanupAgain, Goto, history
<1>2. call \in Calls
  BY <1>0, <1>1 DEF CallInv
<1>3. TypeOK'
  BY <1>0, <1>1, <1>2 DEF TypeOK
<1>4. CallInv'
  BY <1>0, <1>1 DEF CallInv
<1>5. BoxInv'
  <2>1. \A c \in Calls : IsRunning(c) /\ process[c].boxed => BoxBusy
    BY DEF BoxBusy
  <2> QED BY <1>0, <1>1, <2>1, SameBusy DEF BoxInv
<1>6. written \in Int
  BY <1>0, TesterAssumption DEF TypeOK
<1> QED BY <1>0, <1>1, <1>3, <1>4, <1>5, <1>6, Proceeds DEF TypeOK

LEMMA InitBoxStep == ASSUME TInv, InitBox \/ CopyExecutable PROVE TInv'
<1>0. TypeOK /\ CallInv /\ BoxInv
  BY DEF TInv
<1>1. UNCHANGED <<call, isolated, written, process, meta, verdict, fault, crowded, restarts>>
  BY DEF InitBox, CopyExecutable, Goto, history
<1>2. \/ pc = "init" /\ pc' = "copy" /\ box' = {} /\ ~BoxBusy
      \/ pc = "copy" /\ pc' = "spawn" /\ box' = {call} /\ ~BoxBusy
  BY <1>0 DEF InitBox, CopyExecutable, Goto, BoxInv
<1>3. call \in Calls /\ isolated
  BY <1>0, <1>2 DEF CallInv
<1>4. TypeOK'
  BY <1>0, <1>1, <1>2, <1>3 DEF TypeOK
<1>5. CallInv'
  BY <1>0, <1>1, <1>2, <1>3 DEF CallInv
<1>6. BoxInv'
  <2>1. \A c \in Calls : ~(IsRunning(c) /\ process[c].boxed)
    BY <1>2 DEF BoxBusy
  <2> QED BY <1>1, <1>2, <2>1, SameBusy DEF BoxInv
<1>7. written \in Int
  BY <1>0, TesterAssumption DEF TypeOK
<1> QED BY <1>0, <1>1, <1>2, <1>4, <1>5, <1>6, <1>7, Proceeds DEF TypeOK

LEMMA InitRefusedStep == ASSUME TInv, InitRefused PROVE TInv'
<1>0. TypeOK /\ call \in Calls /\ pc = "init" /\ (BoxBusy \/ box # None)
  BY DEF TInv, CallInv, InitRefused
<1>1. call \in crowded
  BY <1>0 DEF TInv, BoxInv
<1>2. Matches(call, "InternalError") /\ "InternalError" \in TestingResult
  BY DEF Matches, TestingResult
<1>3. Return("InternalError") /\ UNCHANGED <<process, box, meta, fault, crowded, restarts>>
  BY DEF InitRefused, files
<1> QED BY <1>0, <1>1, <1>2, <1>3, Returns DEF TypeOK

LEMMA FailingStep ==
    ASSUME TInv, StepFails \/ WriteFails \/ OutputUnreadable PROVE TInv'
<1>1. pc # "idle" /\ Fail
  BY DEF StepFails, WriteFails, OutputUnreadable, Collected
<1> QED BY <1>1, Fails

LEMMA SpawnStep == ASSUME TInv, Spawn PROVE TInv'
<1> DEFINE new == [NoProcess EXCEPT !.pc = "compute", !.boxed = isolated]
<1>0. /\ TypeOK /\ call \in Calls /\ verdict[call] = None /\ pc = "spawn"
      /\ isolated \in BOOLEAN /\ written \in 0..InputSize
  BY DEF TInv, CallInv, Spawn, TypeOK
<1>1. /\ process' = [process EXCEPT ![call] = new]
      /\ meta' = IF isolated THEN call ELSE meta
      /\ pc' = "write"
      /\ UNCHANGED <<call, isolated, written, box, verdict, fault, crowded, restarts>>
  BY DEF Spawn, Goto, history
<1>2. /\ new \in ProcessType /\ new.pc = "compute" /\ new.boxed = isolated
      /\ new.end = "none" /\ new.read = 0 /\ new.out = 0 /\ new.drained = 0
  BY <1>0, NoProcessType DEF NoProcess, ProcessType
<1> HIDE DEF new
<1>3. /\ process'[call] = new
      /\ \A c \in Calls : c # call => process'[c] = process[c]
      /\ process' \in [Calls -> ProcessType]
  BY <1>0, <1>1, <1>2 DEF TypeOK, ProcessType
<1>4. TypeOK'
  BY <1>0, <1>1, <1>3 DEF TypeOK, ProcessType
<1>5. ProcInv'
  <2> SUFFICES ASSUME NEW c \in Calls
               PROVE  /\ process'[c].drained <= process'[c].out
                      /\ process'[c].end # "none" <=> process'[c].pc = "ended"
                      /\ process'[c].pc = "write" => process'[c].out < MaxOutput
                      /\ c = call => process'[c].read <= written
                      /\ c > call => process'[c] = NoProcess /\ verdict[c] = None
    BY <1>1 DEF ProcInv
  <2>1. CASE c = call
    <3>1. ~(c > call) /\ 0 <= written
      BY <1>0, <2>1, CallsFacts
    <3> QED BY <1>2, <1>3, <2>1, <3>1
  <2>2. CASE c # call
    BY <1>3, <2>2 DEF TInv, ProcInv
  <2> QED BY <2>1, <2>2
<1>6. CallInv'
  BY <1>0, <1>1, <1>2, <1>3 DEF CallInv
<1>7. BoxInv'
  <2> SUFFICES ASSUME NEW c \in Calls, IsRunning(c)', process'[c].boxed
               PROVE  box = {c}
    BY <1>1 DEF BoxInv
  <2>1. CASE c = call
    BY <1>0, <1>2, <1>3, <2>1 DEF TInv, BoxInv
  <2>2. CASE c # call
    BY <1>3, <2>2 DEF TInv, BoxInv, IsRunning
  <2> QED BY <2>1, <2>2
<1>8. ErrorsDoNotSpread'
  BY <1>1 DEF TInv, ErrorsDoNotSpread
<1>9. AllMatch'
  <2> SUFFICES ASSUME NEW c \in Calls PROVE Matches(c, verdict[c])'
    BY DEF AllMatch
  <2>1. CASE c = call
    BY <1>0, <1>1, <2>1, NoneIsNoVerdict DEF Matches, TestingResult
  <2>2. CASE c # call
    <3>1. Matches(c, verdict[c])
      BY DEF TInv, AllMatch
    <3> QED BY <1>1, <1>3, <2>2, <3>1 DEF Matches
  <2> QED BY <2>1, <2>2
<1> QED BY <1>4, <1>5, <1>6, <1>7, <1>8, <1>9 DEF TInv

LEMMA InputStep == ASSUME TInv, WriteInput \/ InputWritten PROVE TInv'
<1>0. TypeOK /\ CallInv /\ BoxInv
  BY DEF TInv
<1>1. /\ UNCHANGED <<call, isolated, process, box, meta, verdict, fault, crowded, restarts>>
      /\ pc = "write" /\ pc' \in {"write", "wait"}
  BY DEF WriteInput, InputWritten, Goto, files, history
<1>2. written' \in 0..InputSize /\ written <= written'
  BY <1>0, TesterAssumption DEF WriteInput, InputWritten, TypeOK
<1>3. TypeOK'
  BY <1>0, <1>1, <1>2 DEF TypeOK
<1>4. CallInv'
  BY <1>0, <1>1 DEF CallInv
<1>5. BoxInv'
  BY <1>0, <1>1, SameBusy DEF BoxInv
<1> QED BY <1>1, <1>2, <1>3, <1>4, <1>5, Proceeds

LEMMA ReadOutputStep == ASSUME TInv, ReadOutput PROVE TInv'
<1> DEFINE new == [process[call] EXCEPT !.drained = @ + 1]
<1>0. /\ TypeOK /\ call \in Calls /\ verdict[call] = None /\ pc = "wait"
      /\ process[call] \in ProcessType
  BY DEF TInv, CallInv, ReadOutput, TypeOK, ProcessType
<1>1. /\ process' = [process EXCEPT ![call] = new]
      /\ UNCHANGED <<call, pc, isolated, written, box, meta, verdict, fault, crowded,
                     restarts>>
  BY DEF ReadOutput, tester, files, history
<1>2. process[call].out \in Int /\ process[call].drained \in Int
        /\ process[call].drained < process[call].out
        /\ process[call].out <= MaxOutput
  BY <1>0, TesterAssumption DEF ProcessType, ReadOutput, InStdout
<1>3. process[call].drained + 1 \in 0..MaxOutput
        /\ process[call].drained + 1 <= process[call].out
  BY <1>0, <1>2, TesterAssumption DEF ProcessType
<1>4. /\ new \in ProcessType /\ new.drained <= new.out
      /\ new.pc = process[call].pc /\ new.boxed = process[call].boxed
      /\ new.end = process[call].end /\ new.output = process[call].output
      /\ new.read = process[call].read /\ new.out = process[call].out
  BY <1>0, <1>3 DEF ProcessType
<1> HIDE DEF new
<1>5. /\ process'[call] = new
      /\ \A c \in Calls : c # call => process'[c] = process[c]
      /\ process' \in [Calls -> ProcessType]
  BY <1>0, <1>1, <1>4 DEF TypeOK, ProcessType
<1>6. TypeOK'
  BY <1>0, <1>1, <1>5 DEF TypeOK, ProcessType
<1>7. ProcInv'
  <2> SUFFICES ASSUME NEW c \in Calls
               PROVE  /\ process'[c].drained <= process'[c].out
                      /\ process'[c].end # "none" <=> process'[c].pc = "ended"
                      /\ process'[c].pc = "write" => process'[c].out < MaxOutput
                      /\ c = call => process'[c].read <= written
                      /\ c > call => process'[c] = NoProcess /\ verdict[c] = None
    BY <1>1 DEF ProcInv
  <2>1. CASE c = call
    <3>1. ~(c > call)
      BY <1>0, <2>1, CallsFacts
    <3> QED BY <1>4, <1>5, <2>1, <3>1 DEF TInv, ProcInv
  <2>2. CASE c # call
    BY <1>5, <2>2 DEF TInv, ProcInv
  <2> QED BY <2>1, <2>2
<1>8. CallInv'
  BY <1>0, <1>1, <1>4, <1>5 DEF TInv, CallInv
<1>9. BoxInv'
  <2>1. \A c \in Calls : /\ IsRunning(c)' <=> IsRunning(c)
                         /\ process'[c].boxed = process[c].boxed
    BY <1>4, <1>5 DEF IsRunning
  <2>2. BoxBusy' <=> BoxBusy
    BY <2>1 DEF BoxBusy
  <2> QED BY <1>1, <2>1, <2>2 DEF TInv, BoxInv
<1>10. ErrorsDoNotSpread'
  BY <1>1 DEF TInv, ErrorsDoNotSpread
<1>11. AllMatch'
  <2> SUFFICES ASSUME NEW c \in Calls PROVE Matches(c, verdict[c])'
    BY DEF AllMatch
  <2>1. CASE c = call
    BY <1>0, <1>1, <2>1, NoneIsNoVerdict DEF Matches, TestingResult
  <2>2. CASE c # call
    <3>1. Matches(c, verdict[c])
      BY DEF TInv, AllMatch
    <3> QED BY <1>1, <1>5, <2>2, <3>1 DEF Matches
  <2> QED BY <2>1, <2>2
<1> QED BY <1>6, <1>7, <1>8, <1>9, <1>10, <1>11 DEF TInv

\* The program is gone and all it wrote has been read.
LEMMA CollectedRun ==
    ASSUME TInv, Collected
    PROVE  /\ call \in Calls /\ process[call].boxed = isolated
           /\ process[call].pc = "ended" /\ process[call].drained = process[call].out
<1>1. call \in Calls /\ process[call] \in ProcessType /\ process[call].pc # "none"
        /\ process[call].boxed = isolated
  BY DEF TInv, CallInv, Collected, TypeOK, ProcessType
<1>2. process[call].pc = "ended"
  BY <1>1 DEF Collected, IsRunning, ProcessType
<1>3. process[call].drained = process[call].out
  BY <1>1, TesterAssumption DEF Collected, InStdout, ProcessType
<1> QED BY <1>1, <1>2, <1>3

LEMMA UnisolatedStep == ASSUME TInv, JudgeOutput \/ TimeOut PROVE TInv'
<1>0. /\ TypeOK /\ call \in Calls /\ ~isolated /\ pc = "wait"
      /\ process[call].boxed = isolated
  BY DEF TInv, CallInv, JudgeOutput, TimeOut, Collected
<1>1. CASE JudgeOutput
  <2>1. /\ Return(CompareOutput(call))
        /\ UNCHANGED <<process, box, meta, fault, crowded, restarts>>
    BY <1>1 DEF JudgeOutput, files
  <2>2. CompareOutput(call) \in {"Accepted", "WrongAnswer"}
          /\ CompareOutput(call) \in TestingResult
    BY DEF CompareOutput, TestingResult
  <2>3. Matches(call, CompareOutput(call))
    BY <1>0, <1>1, CollectedRun DEF JudgeOutput, Matches, CompareOutput
  <2> HIDE DEF CompareOutput
  <2> QED BY <1>0, <2>1, <2>2, <2>3, Returns DEF TypeOK
<1>2. CASE TimeOut
  <2>1. /\ Return("TimeLimitExceeded")
        /\ UNCHANGED <<process, box, meta, fault, crowded, restarts>>
    BY <1>2 DEF TimeOut, files
  <2>2. Matches(call, "TimeLimitExceeded") /\ "TimeLimitExceeded" \in TestingResult
    BY <1>0 DEF Matches, TestingResult
  <2> QED BY <1>0, <2>1, <2>2, Returns DEF TypeOK
<1> QED BY <1>1, <1>2

LEMMA OutputReadStep == ASSUME TInv, OutputRead PROVE TInv'
<1>0. TypeOK /\ CallInv /\ BoxInv
  BY DEF TInv
<1>1. /\ UNCHANGED <<call, isolated, written, process, box, meta, verdict, fault, crowded,
                     restarts>>
      /\ pc = "wait" /\ pc' = "cleanup_again" /\ isolated /\ Collected
  BY DEF OutputRead, Goto, files, history, Collected
<1>2. written \in 0..InputSize /\ written <= written'
  BY <1>0, <1>1, TesterAssumption DEF TypeOK
<1>3. TypeOK'
  BY <1>0, <1>1 DEF TypeOK
<1>4. CallInv'
  BY <1>0, <1>1, CollectedRun DEF CallInv
<1>5. BoxInv'
  BY <1>0, <1>1, SameBusy DEF BoxInv
<1> QED BY <1>1, <1>2, <1>3, <1>4, <1>5, Proceeds

\* What the meta file of a run says in the end.
LEMMA MetaMatches ==
    ASSUME NEW end \in {"ok", "code", "signal", "time"},
           NEW compared \in {"Accepted", "WrongAnswer"}
    PROVE  /\ end = "ok" => MetaVerdict(Meta(end), compared) = compared
           /\ end \in {"code", "signal"} =>
                 MetaVerdict(Meta(end), compared) = "RuntimeError"
           /\ end = "time" => MetaVerdict(Meta(end), compared) = "TimeLimitExceeded"
<1>1. CASE end = "ok"
  BY <1>1 DEF Meta, MetaVerdict
<1>2. CASE end = "code"
  BY <1>2 DEF Meta, MetaVerdict
<1>3. CASE end = "signal"
  BY <1>3 DEF Meta, MetaVerdict
<1>4. CASE end = "time"
  BY <1>4 DEF Meta, MetaVerdict
<1> QED BY <1>1, <1>2, <1>3, <1>4

LEMMA JudgeMetaStep == ASSUME TInv, JudgeMeta PROVE TInv'
<1>0. /\ TypeOK /\ call \in Calls /\ pc = "meta" /\ meta = call
      /\ process[call].pc = "ended" /\ process[call].drained = process[call].out
      /\ process[call] \in ProcessType
  BY DEF TInv, CallInv, JudgeMeta, TypeOK, ProcessType
<1> DEFINE v == MetaVerdict(Meta(process[call].end), CompareOutput(call))
<1>1. Return(v) /\ meta' = None /\ UNCHANGED <<process, box, fault, crowded, restarts>>
  BY <1>0 DEF JudgeMeta
<1>2. process[call].end \in {"ok", "code", "signal", "time"}
  BY <1>0 DEF TInv, ProcInv, ProcessType
<1>3. /\ CompareOutput(call) \in {"Accepted", "WrongAnswer"}
      /\ CompareOutput(call) = "Accepted" => process[call].output = "right"
  BY DEF CompareOutput
<1>4. /\ process[call].end = "ok" => v = CompareOutput(call)
      /\ process[call].end \in {"code", "signal"} => v = "RuntimeError"
      /\ process[call].end = "time" => v = "TimeLimitExceeded"
  BY <1>2, <1>3, MetaMatches
<1> HIDE DEF v
<1>5. v \in TestingResult /\ v # "InternalError"
  BY <1>2, <1>3, <1>4 DEF TestingResult
<1>6. Matches(call, v)
  BY <1>0, <1>2, <1>3, <1>4 DEF Matches
<1> QED BY <1>0, <1>1, <1>5, <1>6, Returns DEF TypeOK

-----------------------------------------------------------------------------
(***************************************************************************)
(* The steps of the programs, and a restart.                               *)
(***************************************************************************)
LEMMA ProgramTurns ==
    ASSUME TInv, NEW c \in Calls, ProgramComputes(c) \/ ProgramWakes(c)
    PROVE  TInv'
<1>0. process[c] \in ProcessType /\ process[c].pc \in {"compute", "sleep"}
        /\ process[c].end = "none"
  BY DEF TInv, TypeOK, ProcInv, ProcessType, ProgramComputes, ProgramWakes
<1>1. PICK k \in {"compute", "sleep", "read", "write"} :
         /\ Becomes(c, [process[c] EXCEPT !.pc = k])
         /\ k = "write" => process[c].out < MaxOutput
  BY DEF ProgramComputes, ProgramWakes
<1> DEFINE p == [process[c] EXCEPT !.pc = k]
<1>2. /\ p \in ProcessType /\ p.boxed = process[c].boxed /\ p.pc = k
      /\ p.drained = process[c].drained /\ p.out = process[c].out
      /\ p.end = "none" /\ p.read = process[c].read
  BY <1>0, <1>1 DEF ProcessType
<1>3. IsRunning(c)
  BY <1>0 DEF IsRunning
<1>4. process[c].out \in Int /\ (c = call => process[c].read <= written)
  BY <1>0, TesterAssumption DEF ProcessType, TInv, ProcInv
<1>5. Becomes(c, p)
  BY <1>1
<1> HIDE DEF p
<1> QED BY <1>1, <1>2, <1>3, <1>4, <1>5, ProgramMoves

LEMMA ProgramEndsStep ==
    ASSUME TInv, NEW c \in Calls, ProgramEnds(c) PROVE TInv'
<1>0. process[c] \in ProcessType /\ process[c].pc = "compute"
  BY DEF TInv, TypeOK, ProcessType, ProgramEnds
<1>1. PICK end \in {"ok", "code", "signal", "time"},
           output \in {"right", "wrong", "not_utf8"} :
         Becomes(c, [process[c] EXCEPT !.pc = "ended", !.end = end, !.output = output])
  BY DEF ProgramEnds
<1> DEFINE p == [process[c] EXCEPT !.pc = "ended", !.end = end, !.output = output]
<1>2. /\ p \in ProcessType /\ p.boxed = process[c].boxed /\ p.pc = "ended"
      /\ p.drained = process[c].drained /\ p.out = process[c].out
      /\ p.end # "none" /\ p.read = process[c].read
  BY <1>0, <1>1 DEF ProcessType
<1>3. IsRunning(c)
  BY <1>0 DEF IsRunning
<1>4. process[c].out \in Int /\ (c = call => process[c].read <= written)
  BY <1>0, TesterAssumption DEF ProcessType, TInv, ProcInv
<1>5. Becomes(c, p)
  BY <1>1
<1> HIDE DEF p
<1> QED BY <1>2, <1>3, <1>4, <1>5, ProgramMoves

LEMMA ProgramReadsStep ==
    ASSUME TInv, NEW c \in Calls, ProgramReads(c) PROVE TInv'
<1>0. /\ TypeOK /\ process[c] \in ProcessType /\ process[c].pc = "read"
      /\ process[c].end = "none" /\ IsRunning(c)
      /\ process[c].out \in Int /\ process[c].read \in Int
      /\ c = call => process[c].read <= written
      /\ written \in Int /\ written <= InputSize
  BY TesterAssumption
  DEF TInv, TypeOK, ProcInv, ProcessType, ProgramReads, IsRunning
<1>1. CASE InStdin(c) > 0 /\ Becomes(c, [process[c] EXCEPT !.pc = "compute", !.read = @ + 1])
  <2> DEFINE p == [process[c] EXCEPT !.pc = "compute", !.read = @ + 1]
  <2>1. c = call /\ process[c].read + 1 <= written
    BY <1>0, <1>1 DEF InStdin
  <2>2. process[c].read + 1 \in 0..InputSize
    BY <1>0, <2>1, TesterAssumption DEF ProcessType
  <2>3. /\ p \in ProcessType /\ p.boxed = process[c].boxed /\ p.pc = "compute"
        /\ p.drained = process[c].drained /\ p.out = process[c].out
        /\ p.end = "none" /\ p.read <= written
    BY <1>0, <2>1, <2>2 DEF ProcessType
  <2>4. Becomes(c, p)
    BY <1>1
  <2> HIDE DEF p
  <2> QED BY <1>0, <2>3, <2>4, ProgramMoves
<1>2. CASE Becomes(c, [process[c] EXCEPT !.pc = "compute", !.eof = TRUE])
  <2> DEFINE p == [process[c] EXCEPT !.pc = "compute", !.eof = TRUE]
  <2>1. /\ p \in ProcessType /\ p.boxed = process[c].boxed /\ p.pc = "compute"
        /\ p.drained = process[c].drained /\ p.out = process[c].out
        /\ p.end = "none" /\ p.read = process[c].read
    BY <1>0 DEF ProcessType
  <2>2. Becomes(c, p)
    BY <1>2
  <2> HIDE DEF p
  <2> QED BY <1>0, <2>1, <2>2, ProgramMoves
<1> QED BY <1>1, <1>2 DEF ProgramReads

LEMMA ProgramWritesStep ==
    ASSUME TInv, NEW c \in Calls, ProgramWrites(c) PROVE TInv'
<1>0. /\ TypeOK /\ process[c] \in ProcessType /\ process[c].pc = "write"
      /\ process[c].end = "none" /\ IsRunning(c) /\ process[c].out < MaxOutput
      /\ process[c].out \in Int
      /\ c = call => process[c].read <= written
  BY TesterAssumption
  DEF TInv, TypeOK, ProcInv, ProcessType, ProgramWrites, IsRunning
<1>1. CASE Becomes(c, [process[c] EXCEPT !.pc = "compute", !.out = @ + 1])
  <2> DEFINE p == [process[c] EXCEPT !.pc = "compute", !.out = @ + 1]
  <2>1. process[c].out + 1 \in 0..MaxOutput
    BY <1>0, TesterAssumption DEF ProcessType
  <2>a. /\ p \in ProcessType /\ p.boxed = process[c].boxed /\ p.pc = "compute"
        /\ p.drained = process[c].drained /\ p.out = process[c].out + 1
        /\ p.end = "none" /\ p.read = process[c].read
    BY <1>0, <2>1 DEF ProcessType
  <2>b. process[c].out <= process[c].out + 1
    BY <1>0
  <2>2. /\ p \in ProcessType /\ p.boxed = process[c].boxed /\ p.pc = "compute"
        /\ p.drained = process[c].drained /\ process[c].out <= p.out
        /\ p.end = "none" /\ p.read = process[c].read
    BY <2>a, <2>b
  <2>3. Becomes(c, p)
    BY <1>1
  <2> HIDE DEF p
  <2> QED BY <1>0, <2>2, <2>3, ProgramMoves
<1>2. CASE Becomes(c, [process[c] EXCEPT !.pc = "ended", !.end = "signal", !.output = "wrong"])
  <2> DEFINE p == [process[c] EXCEPT !.pc = "ended", !.end = "signal", !.output = "wrong"]
  <2>1. /\ p \in ProcessType /\ p.boxed = process[c].boxed /\ p.pc = "ended"
        /\ p.drained = process[c].drained /\ p.out = process[c].out
        /\ p.end # "none" /\ p.read = process[c].read
    BY <1>0 DEF ProcessType
  <2>2. Becomes(c, p)
    BY <1>2
  <2> HIDE DEF p
  <2> QED BY <1>0, <2>1, <2>2, ProgramMoves
<1> QED BY <1>1, <1>2 DEF ProgramWrites

LEMMA RestartStep == ASSUME TInv, Restart PROVE TInv'
<1> DEFINE gone(p) == [p EXCEPT !.pc = "ended", !.end = "signal", !.output = "wrong"]
<1>0. TypeOK /\ restarts < MaxRestarts /\ restarts' = restarts + 1 /\ pc' = "idle"
        /\ UNCHANGED <<call, isolated, written, box, meta, verdict, fault, crowded>>
  BY DEF TInv, Restart, files, history
<1>1. PICK killed \in SUBSET {c \in Calls : IsRunning(c)} :
         process' = [c \in Calls |-> IF c \in killed THEN gone(process[c]) ELSE process[c]]
  BY DEF Restart
<1>2. ASSUME NEW p \in ProcessType
      PROVE  /\ gone(p) \in ProcessType /\ gone(p).pc = "ended" /\ gone(p).end = "signal"
             /\ gone(p).boxed = p.boxed /\ gone(p).read = p.read
             /\ gone(p).out = p.out /\ gone(p).drained = p.drained
  BY DEF ProcessType
<1>3. \A c \in Calls : process[c] \in ProcessType
  BY <1>0 DEF TypeOK, ProcessType
<1> HIDE DEF gone
<1>4. ASSUME NEW c \in killed
      PROVE  /\ c \in Calls /\ IsRunning(c) /\ process[c].end = "none" /\ ~(c > call)
             /\ process[c].pc # "ended" /\ process'[c] = gone(process[c])
  <2>1. c \in Calls /\ IsRunning(c)
    BY <1>1
  <2>2. process[c].end = "none" /\ process[c].pc \notin {"ended", "none"}
    BY <2>1 DEF TInv, ProcInv, IsRunning
  <2>3. ~(c > call)
    BY <2>1, <2>2, NoProcessType DEF TInv, ProcInv
  <2> QED BY <1>1, <2>1, <2>2, <2>3
<1>5. \A c \in Calls : c \notin killed => process'[c] = process[c]
  BY <1>1
<1>6. TypeOK'
  <2>1. process' \in [Calls -> ProcessType]
    BY <1>1, <1>2, <1>3
  <2>2. restarts' \in 0..MaxRestarts
    BY <1>0, TesterAssumption DEF TypeOK
  <2> QED BY <1>0, <2>1, <2>2 DEF TypeOK, ProcessType
<1>7. ProcInv'
  <2> SUFFICES ASSUME NEW c \in Calls
               PROVE  /\ process'[c].drained <= process'[c].out
                      /\ process'[c].end # "none" <=> process'[c].pc = "ended"
                      /\ process'[c].pc = "write" => process'[c].out < MaxOutput
                      /\ c = call => process'[c].read <= written
                      /\ c > call => process'[c] = NoProcess /\ verdict[c] = None
    BY <1>0 DEF ProcInv
  <2>1. CASE c \in killed
    BY <1>2, <1>3, <1>4, <2>1 DEF TInv, ProcInv
  <2>2. CASE c \notin killed
    BY <1>5, <2>2 DEF TInv, ProcInv
  <2> QED BY <2>1, <2>2
<1>8. CallInv'
  BY <1>0 DEF CallInv
<1>9. BoxInv'
  <2> SUFFICES ASSUME NEW c \in Calls, IsRunning(c)', process'[c].boxed
               PROVE  box = {c}
    BY <1>0 DEF BoxInv
  <2>1. c \notin killed
    BY <1>2, <1>3, <1>4 DEF IsRunning
  <2> QED BY <1>5, <2>1 DEF TInv, BoxInv, IsRunning
<1>10. ErrorsDoNotSpread'
  BY <1>0 DEF TInv, ErrorsDoNotSpread
<1>11. AllMatch'
  <2> SUFFICES ASSUME NEW c \in Calls PROVE Matches(c, verdict[c])'
    BY DEF AllMatch
  <2>1. Matches(c, verdict[c])
    BY DEF TInv, AllMatch
  <2>2. CASE c \in killed
    BY <1>0, <1>2, <1>3, <1>4, <2>1, <2>2 DEF Matches
  <2>3. CASE c \notin killed
    BY <1>0, <1>5, <2>1, <2>3 DEF Matches
  <2> QED BY <2>2, <2>3
<1> QED BY <1>6, <1>7, <1>8, <1>9, <1>10, <1>11 DEF TInv

LEMMA TInvStutters == ASSUME TInv, UNCHANGED vars PROVE TInv'
<1>1. UNCHANGED <<call, pc, isolated, written, process, box, meta, verdict, fault, crowded,
                  restarts>>
  BY DEF vars, tester, files, history
<1>2. TypeOK' /\ ErrorsDoNotSpread'
  BY <1>1 DEF TInv, TypeOK, ErrorsDoNotSpread
<1>3. ProcInv' /\ CallInv'
  BY <1>1 DEF TInv, ProcInv, CallInv
<1>4. BoxInv' /\ AllMatch'
  BY <1>1, SameBusy DEF TInv, BoxInv, AllMatch
<1> QED BY <1>2, <1>3, <1>4 DEF TInv

LEMMA TInvStep == TInv /\ [Next]_vars => TInv'
<1> SUFFICES ASSUME TInv, [Next]_vars PROVE TInv'
  OBVIOUS
<1>1. CASE StartCall
  BY <1>1, StartCallStep
<1>2. CASE TesterStep
  BY <1>2, CleanupStep, InitBoxStep, InitRefusedStep, FailingStep, SpawnStep, InputStep,
     ReadOutputStep, UnisolatedStep, OutputReadStep, JudgeMetaStep
  DEF TesterStep
<1>3. ASSUME NEW c \in Calls, ProgramStep(c) \/ ProgramWakes(c) PROVE TInv'
  BY <1>3, ProgramTurns, ProgramEndsStep, ProgramReadsStep, ProgramWritesStep
  DEF ProgramStep
<1>4. CASE Restart
  BY <1>4, RestartStep
<1>5. CASE UNCHANGED vars
  BY <1>5, TInvStutters
<1> QED BY <1>1, <1>2, <1>3, <1>4, <1>5 DEF Next

LEMMA TesterInvariant == Safe => []TInv
<1>1. Init => TInv
  BY TInvInit
<1>2. TInv /\ [Next]_vars => TInv'
  BY TInvStep
<1> QED BY <1>1, <1>2, PTL DEF Safe

-----------------------------------------------------------------------------
(***************************************************************************)
(* execute_test and its program keep to their types: a program reads no    *)
(* more than its input and nobody reads more than the program wrote.       *)
(***************************************************************************)
THEOREM TesterTypesHold == Safe => []TypeOK
<1>1. TInv => TypeOK
  BY DEF TInv
<1> QED BY <1>1, TesterInvariant, PTL

(***************************************************************************)
(* A call of execute_test ends in an internal error only if a step of that *)
(* very call failed or a program started by an earlier server was still in *)
(* its box: what failed calls and restarts leave behind reaches no other   *)
(* call, however many the worker makes.                                    *)
(***************************************************************************)
THEOREM FailuresStayInTheirCall == Safe => []ErrorsDoNotSpread
<1>1. TInv => ErrorsDoNotSpread
  BY DEF TInv
<1> QED BY <1>1, TesterInvariant, PTL

(***************************************************************************)
(* The meta file execute_test_isolated reads describes the run of the same *)
(* call, and a program that runs in the sandbox is alone in its box.       *)
(***************************************************************************)
THEOREM MetaFileIsOwn == Safe => []MetaIsOwn
<1>1. TInv => MetaIsOwn
  BY DEF TInv, CallInv, BoxInv, MetaIsOwn
<1> QED BY <1>1, TesterInvariant, PTL

(***************************************************************************)
(* A verdict of execute_test is about a program that ended and whose       *)
(* output was read to its end; in the sandbox a crash or a time limit is   *)
(* never reported as an accepted or a wrong output.                        *)
(***************************************************************************)
THEOREM VerdictsMatchRuns == Safe => []VerdictMatchesRun
<1>1. TInv => VerdictMatchesRun
  BY DEF TInv, AllMatch, Matches, VerdictMatchesRun
<1> QED BY <1>1, TesterInvariant, PTL

====
