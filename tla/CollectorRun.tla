---------------------------- MODULE CollectorRun ----------------------------
(***************************************************************************)
(* The run of the collectors: the parent (collect_all and run_worker)      *)
(* starts one worker process per collector, in order, and watches it until *)
(* it ends, its time is up or the user interrupts.  The worker writes its  *)
(* answer to a pipe of limited capacity and may start a helper process     *)
(* (PowerShell), which inherits the pipes; two threads of the parent empty *)
(* them.  A job object holds the worker and everything it starts.          *)
(***************************************************************************)
EXTENDS Naturals, Sequences, FiniteSets

CONSTANTS
    Last,       \* collectors 1..Last (15 in the code)
    OutSize,    \* pieces of an answer on stdout
    ErrSize,    \* pieces a worker may write to stderr
    PipeCap     \* pieces a pipe holds

ASSUME CollectorRunAssumption ==
    /\ Last \in Nat \ {0}
    /\ OutSize \in Nat \ {0}
    /\ ErrSize \in Nat
    /\ PipeCap \in Nat \ {0}

VARIABLES
    pc,         \* the step of the parent
    cur,        \* the collector it is at
    why,        \* why it stopped watching the current worker
    verdicts,   \* what became of each collector so far
    run,        \* how collect_all ended
    pressed,    \* has the user pressed Ctrl+C?
    pending,    \* who has yet to get it: 0 is the parent, i the i-th worker
    flag,       \* INTERRUPT_COUNT # 0
    atFlag,     \* history: the collector the parent was at when it was set
    os,         \* the worker and the helper process of each collector
    job,        \* the processes in a job object
    exit,       \* exit status of each worker
    answer,     \* what each worker that ended well has said
    overdue,    \* the collectors whose time limit has passed
    faults,     \* the collectors whose worker could not be started or watched
    left,       \* the pieces the current worker has still to write
    pipe,       \* the pieces written and not yet read
    reader      \* the two reader threads

parentVars  == <<pc, cur, why, verdicts, run>>
consoleVars == <<pressed, pending, flag, atFlag>>
osVars      == <<os, job, exit>>
pipeVars    == <<left, pipe, reader>>
vars == <<parentVars, consoleVars, osVars, pipeVars, answer, overdue, faults>>

Names   == 1..Last
Kinds   == {"worker", "helper"}
Streams == {"stdout", "stderr"}

Size == [s \in Streams |-> IF s = "stdout" THEN OutSize ELSE ErrSize]

\* "right": the collector's own result.  "misshapen": one whose values are not of
\* the collector's type.  "wrong": another collector's, or no WorkerOutput.
Answers == {"right", "misshapen", "wrong"}

Worker == <<cur, "worker">>
Helper == <<cur, "helper">>

\* A process that was killed is "doomed" until the system has removed it; till
\* then it keeps its handles.  One killed before it ended has a failing status.
Alive(x) == os[x] \in {"suspended", "running", "doomed"}
Active(x) == os[x] \in {"suspended", "running"}

Kill(S) ==
    /\ os' = [x \in Names \X Kinds |->
                IF x \in S /\ Active(x) THEN "doomed" ELSE os[x]]
    /\ exit' = [i \in Names |->
                IF <<i, "worker">> \in S /\ Active(<<i, "worker">>) THEN "bad" ELSE exit[i]]

\* TerminateJobObject kills what is in the current worker's job.
JobOf(i) == {x \in job : x[1] = i}
TerminateJob == Kill(JobOf(cur))
TerminateAll == Kill(JobOf(cur) \cup {Worker})

Going == run = "running"
At(l) == Going /\ pc = l
GoTo(l) == pc' = l /\ UNCHANGED <<cur, why, verdicts, run>>
Finish(how) == run' = how /\ UNCHANGED <<pc, cur, why, verdicts>>

-----------------------------------------------------------------------------
(* The parent.                                                             *)

\* Loop, were only the watching loop to look at the interrupt.
LoopOn ==
    /\ At("head")
    /\ \/ cur > Last /\ GoTo("assemble")
       \/ cur \in Names /\ GoTo("spawn")
    /\ UNCHANGED <<consoleVars, osVars, pipeVars, answer, overdue, faults>>

\* The head of collect_all's loop.
Loop ==
    /\ At("head")
    /\ \/ cur > Last /\ GoTo("assemble")
       \/ cur \in Names /\ flag /\ Finish("cancelled")
       \/ cur \in Names /\ ~flag /\ GoTo("spawn")
    /\ UNCHANGED <<consoleVars, osVars, pipeVars, answer, overdue, faults>>

\* Record, were only answers pushed.
RecordAnswer(v) ==
    /\ verdicts' = IF v = "answered" THEN Append(verdicts, v) ELSE verdicts
    /\ cur' = cur + 1
    /\ pc' = "head"
    /\ UNCHANGED <<why, run>>

\* The verdict on the current collector; the loop goes on with the next one.
Record(v) ==
    /\ verdicts' = Append(verdicts, v)
    /\ cur' = cur + 1
    /\ pc' = "head"
    /\ UNCHANGED <<why, run>>

\* The worker starts suspended, with two pipes of its own.
Spawn ==
    /\ At("spawn")
    /\ \/ /\ GoTo("isolate")
          /\ os' = [os EXCEPT ![Worker] = "suspended"]
          /\ left' = Size
          /\ pipe' = [s \in Streams |-> 0]
          /\ reader' = [s \in Streams |-> "off"]
          /\ UNCHANGED faults
       \/ /\ Record("failed")
          /\ faults' = faults \cup {cur}
          /\ UNCHANGED <<os, pipeVars>>
    /\ UNCHANGED <<consoleVars, job, exit, answer, overdue>>

\* The parent kills what it started and goes to wait for it.
GiveUp(reason) ==
    /\ pc' = "reap" /\ why' = reason
    /\ UNCHANGED <<cur, verdicts, run>>

\* Isolate, were the worker left alone when it cannot be put in a job.
IsolateOrForget ==
    /\ At("isolate")
    /\ \/ /\ GoTo("resume")
          /\ job' = job \cup {Worker}
          /\ UNCHANGED faults
       \/ /\ Record("failed")
          /\ faults' = faults \cup {cur}
          /\ UNCHANGED job
    /\ UNCHANGED <<consoleVars, os, exit, pipeVars, answer, overdue>>

\* platform::isolate; on failure the worker is killed and waited for.
Isolate ==
    /\ At("isolate")
    /\ \/ /\ GoTo("resume")
          /\ job' = job \cup {Worker}
          /\ UNCHANGED <<os, exit, faults>>
       \/ /\ GiveUp("failed")
          /\ faults' = faults \cup {cur}
          /\ Kill({Worker})
          /\ UNCHANGED job
    /\ UNCHANGED <<consoleVars, pipeVars, answer, overdue>>

\* platform::resume, then the reader threads.
Resume ==
    /\ At("resume")
    /\ \/ /\ GoTo("poll")
          /\ os' = [os EXCEPT ![Worker] = IF @ = "suspended" THEN "running" ELSE @]
          /\ reader' = [s \in Streams |-> "reading"]
          /\ UNCHANGED <<exit, faults>>
       \/ /\ GiveUp("failed")
          /\ faults' = faults \cup {cur}
          /\ TerminateAll
          /\ UNCHANGED reader
    /\ UNCHANGED <<consoleVars, job, left, pipe, answer, overdue>>

\* The watching loop: the interrupt first, then try_wait, then the time limit.
Poll ==
    /\ At("poll")
    /\ \/ flag /\ GiveUp("cancelled") /\ TerminateAll
       \/ ~flag /\ GoTo("tryWait") /\ UNCHANGED <<os, exit>>
    /\ UNCHANGED <<consoleVars, job, pipeVars, answer, overdue, faults>>

\* TryWait, were the readers joined before the job is ended.
TryWaitJoinFirst ==
    /\ At("tryWait")
    /\ \/ /\ os[Worker] = "ended"
          /\ pc' = "join" /\ why' = "exited" /\ UNCHANGED <<cur, verdicts, run>>
          /\ UNCHANGED <<os, exit, faults>>
       \/ /\ os[Worker] # "ended"
          /\ GoTo("clock")
          /\ UNCHANGED <<os, exit, faults>>
       \/ /\ GiveUp("failed") /\ TerminateAll
          /\ faults' = faults \cup {cur}
    /\ UNCHANGED <<consoleVars, job, pipeVars, answer, overdue>>

TryWait ==
    /\ At("tryWait")
    /\ \/ /\ os[Worker] = "ended"
          /\ pc' = "join" /\ why' = "exited" /\ UNCHANGED <<cur, verdicts, run>>
          /\ TerminateJob
          /\ UNCHANGED faults
       \/ /\ os[Worker] # "ended"
          /\ GoTo("clock")
          /\ UNCHANGED <<os, exit, faults>>
       \/ /\ GiveUp("failed") /\ TerminateAll
          /\ faults' = faults \cup {cur}
    /\ UNCHANGED <<consoleVars, job, pipeVars, answer, overdue>>

\* try_wait saw no exit: out of time, or sleep for POLL_INTERVAL.
Clock ==
    /\ At("clock")
    /\ \/ cur \in overdue /\ GiveUp("timeout") /\ TerminateAll
       \/ cur \notin overdue /\ GoTo("poll") /\ UNCHANGED <<os, exit>>
    /\ UNCHANGED <<consoleVars, job, pipeVars, answer, overdue, faults>>

\* Child::wait after a kill; then the readers are joined, if there are any.
Reap ==
    /\ At("reap")
    /\ os[Worker] = "ended"
    /\ \/ reader["stdout"] = "off" /\ Record("failed")
       \/ reader["stdout"] # "off" /\ GoTo("join")
    /\ UNCHANGED <<consoleVars, osVars, pipeVars, answer, overdue, faults>>

\* The exit status, the parse of all that was read, and the two names.
Judged ==
    IF /\ exit[cur] = "ok"
       /\ left["stdout"] = 0 /\ pipe["stdout"] = 0
       /\ answer[cur] \in {"right", "misshapen"}
    THEN "answered" ELSE "failed"

\* Join, were what has been read so far taken for the answer.
JoinEarly ==
    /\ At("join")
    /\ \/ why = "cancelled" /\ Finish("cancelled")
       \/ why \in {"timeout", "failed"} /\ Record(why)
       \/ why = "exited" /\ Record(Judged)
    /\ UNCHANGED <<consoleVars, osVars, pipeVars, answer, overdue, faults>>

\* The join of both readers, and what run_worker and collect_all make of it.
Join ==
    /\ At("join")
    /\ \A s \in Streams : reader[s] = "eof"
    /\ \/ why = "cancelled" /\ Finish("cancelled")
       \/ why \in {"timeout", "failed"} /\ Record(why)
       \/ why = "exited" /\ Record(Judged)
    /\ UNCHANGED <<consoleVars, osVars, pipeVars, answer, overdue, faults>>

\* assemble: one value of the wrong type fails the whole run.
Assemble ==
    /\ At("assemble")
    /\ Finish(IF \E i \in Names : verdicts[i] = "answered" /\ answer[i] = "misshapen"
              THEN "protocol" ELSE "complete")
    /\ UNCHANGED <<consoleVars, osVars, pipeVars, answer, overdue, faults>>

Parent ==
    \/ Loop \/ Spawn \/ Isolate \/ Resume \/ Poll \/ TryWait \/ Clock
    \/ Reap \/ Join \/ Assemble

\* Read, were one thread to read stdout to its end and then stderr.
ReadInTurn(s) ==
    /\ Going /\ reader[s] = "reading"
    /\ s = "stderr" => reader["stdout"] = "eof"
    /\ \/ /\ pipe[s] > 0
          /\ pipe' = [pipe EXCEPT ![s] = @ - 1]
          /\ UNCHANGED reader
       \/ /\ pipe[s] = 0 /\ \A k \in Kinds : ~Alive(<<cur, k>>)
          /\ reader' = [reader EXCEPT ![s] = "eof"]
          /\ UNCHANGED pipe
    /\ UNCHANGED <<parentVars, consoleVars, osVars, left, answer, overdue, faults>>

\* A reader thread takes what is there; it ends when nobody holds the other end.
Read(s) ==
    /\ Going /\ cur \in Names /\ reader[s] = "reading"
    /\ \/ /\ pipe[s] > 0
          /\ pipe' = [pipe EXCEPT ![s] = @ - 1]
          /\ UNCHANGED reader
       \/ /\ pipe[s] = 0 /\ \A k \in Kinds : ~Alive(<<cur, k>>)
          /\ reader' = [reader EXCEPT ![s] = "eof"]
          /\ UNCHANGED pipe
    /\ UNCHANGED <<parentVars, consoleVars, osVars, left, answer, overdue, faults>>

-----------------------------------------------------------------------------
(* The worker, its helper and the system.                                  *)

\* A full pipe makes the worker wait.
Write(s) ==
    /\ cur \in Names /\ os[Worker] = "running"
    /\ left[s] > 0 /\ pipe[s] < PipeCap
    /\ left' = [left EXCEPT ![s] = @ - 1]
    /\ pipe' = [pipe EXCEPT ![s] = @ + 1]
    /\ UNCHANGED <<parentVars, consoleVars, osVars, reader, answer, overdue, faults>>

\* The worker ends: with status 0 when its answer is written, or badly.
WorkerEnds ==
    /\ cur \in Names /\ os[Worker] = "running"
    /\ \/ /\ left["stdout"] = 0
          /\ exit' = [exit EXCEPT ![cur] = "ok"]
          /\ \E a \in Answers : answer' = [answer EXCEPT ![cur] = a]
       \/ /\ exit' = [exit EXCEPT ![cur] = "bad"]
          /\ UNCHANGED answer
    /\ os' = [os EXCEPT ![Worker] = "ended"]
    /\ UNCHANGED <<parentVars, consoleVars, job, pipeVars, overdue, faults>>

\* What a process of a job starts belongs to the job; it may outlive the worker.
HelperStarts ==
    /\ cur \in Names /\ os[Worker] = "running" /\ os[Helper] = "none"
    /\ os' = [os EXCEPT ![Helper] = "running"]
    /\ job' = IF Worker \in job THEN job \cup {Helper} ELSE job
    /\ UNCHANGED <<parentVars, consoleVars, exit, pipeVars, answer, overdue, faults>>

HelperEnds ==
    /\ cur \in Names /\ os[Helper] = "running"
    /\ os' = [os EXCEPT ![Helper] = "ended"]
    /\ UNCHANGED <<parentVars, consoleVars, job, exit, pipeVars, answer, overdue, faults>>

\* The system removes a killed process.
Die(x) ==
    /\ os[x] = "doomed"
    /\ os' = [os EXCEPT ![x] = "ended"]
    /\ UNCHANGED <<parentVars, consoleVars, job, exit, pipeVars, answer, overdue, faults>>

\* The time limit of the current collector passes.
Expire ==
    /\ Going /\ cur \in Names /\ pc \notin {"head", "spawn"}
    /\ cur \notin overdue
    /\ overdue' = overdue \cup {cur}
    /\ UNCHANGED <<parentVars, consoleVars, osVars, pipeVars, answer, faults>>

\* Ctrl+C goes to every process of the console; each gets it in its own time.
CtrlC ==
    /\ Going /\ ~pressed
    /\ pressed' = TRUE
    /\ pending' = {0} \cup {i \in Names : Active(<<i, "worker">>)}
    /\ UNCHANGED <<parentVars, flag, atFlag, osVars, pipeVars, answer, overdue, faults>>

\* console_handler counts it.
ParentInterrupted ==
    /\ Going /\ 0 \in pending
    /\ pending' = pending \ {0}
    /\ flag' = TRUE
    /\ atFlag' = cur
    /\ UNCHANGED <<parentVars, pressed, osVars, pipeVars, answer, overdue, faults>>

\* A worker has no handler of its own: it is ended.
WorkerInterrupted(i) ==
    /\ i \in pending
    /\ pending' = pending \ {i}
    /\ Kill({<<i, "worker">>})
    /\ UNCHANGED <<parentVars, pressed, flag, atFlag, job, pipeVars, answer, overdue, faults>>

\* A second Ctrl+C, or the end of the parent from outside: its handle on the job
\* closes, and JOB_OBJECT_LIMIT_KILL_ON_JOB_CLOSE kills what is in it.
ParentGone ==
    /\ Going
    /\ Finish("gone")
    /\ Kill(job)
    /\ UNCHANGED <<consoleVars, job, pipeVars, answer, overdue, faults>>

-----------------------------------------------------------------------------

Init ==
    /\ pc = "head" /\ cur = 1 /\ why = "none" /\ verdicts = <<>> /\ run = "running"
    /\ pressed = FALSE /\ pending = {} /\ flag = FALSE /\ atFlag = 0
    /\ os = [x \in Names \X Kinds |-> "none"] /\ job = {}
    /\ exit = [i \in Names |-> "none"] /\ answer = [i \in Names |-> "none"]
    /\ overdue = {} /\ faults = {}
    /\ left = [s \in Streams |-> 0] /\ pipe = [s \in Streams |-> 0]
    /\ reader = [s \in Streams |-> "off"]

Next ==
    \/ Parent
    \/ \E s \in Streams : Read(s) \/ Write(s)
    \/ WorkerEnds \/ HelperStarts \/ HelperEnds
    \/ \E x \in Names \X Kinds : Die(x)
    \/ Expire
    \/ CtrlC \/ ParentInterrupted \/ \E i \in Names : WorkerInterrupted(i)
    \/ ParentGone

Spec == Init /\ [][Next]_vars

\* The parent and its threads run.  What else goes on, a property says itself.
FairSpec ==
    /\ Spec
    /\ WF_vars(Parent)
    /\ \A s \in Streams : WF_vars(Read(s))

\* Time passes, and the system removes what was killed.
SystemFair == WF_vars(Expire) /\ \A x \in Names \X Kinds : WF_vars(Die(x))

\* A worker that writes whenever it can.
WorkerWrites == \A s \in Streams : WF_vars(Write(s))

-----------------------------------------------------------------------------
(* Properties.                                                             *)

\* The parent's place, the processes and the pipes.
TypeOK ==
    /\ pc \in {"head", "spawn", "isolate", "resume", "poll", "tryWait", "clock",
               "reap", "join", "assemble"}
    /\ cur \in 1..(Last + 1)
    /\ why \in {"none", "exited", "cancelled", "timeout", "failed"}
    /\ verdicts \in Seq({"answered", "timeout", "failed"}) /\ Len(verdicts) = cur - 1
    /\ run \in {"running", "complete", "cancelled", "protocol", "gone"}
    /\ pressed \in BOOLEAN /\ pending \subseteq 0..Last /\ flag \in BOOLEAN
    /\ atFlag \in 0..(Last + 1)
    /\ os \in [Names \X Kinds -> {"none", "suspended", "running", "doomed", "ended"}]
    /\ job \subseteq Names \X Kinds
    /\ exit \in [Names -> {"none", "ok", "bad"}]
    /\ answer \in [Names -> Answers \cup {"none"}]
    /\ overdue \subseteq Names /\ faults \subseteq Names
    /\ left \in [Streams -> Nat] /\ \A s \in Streams : left[s] <= Size[s]
    /\ pipe \in [Streams -> 0..PipeCap]
    /\ reader \in [Streams -> {"off", "reading", "eof"}]

\* Nothing that a worker's run started outlives it: when run_worker has
\* returned, its worker and its helper have ended, on every path out of it; and
\* when the parent dies, what is in the job dies with it.
NoSurvivor ==
    /\ \A i \in Names, k \in Kinds :
         i < cur \/ run \in {"complete", "cancelled", "protocol"} => ~Alive(<<i, k>>)
    /\ run = "gone" => \A x \in job : ~Active(x)

\* Every verdict is what happened: an answer is taken only from a worker that
\* ended well with a whole answer of its own, a time-out only after that
\* collector's own limit, and a failure is never the fate of a good answer.
VerdictsJustified ==
    \A i \in 1..Len(verdicts) :
        /\ verdicts[i] = "answered" =>
             exit[i] = "ok" /\ answer[i] \in {"right", "misshapen"} /\ i \notin faults
        /\ verdicts[i] = "timeout" => i \in overdue \ faults
        /\ verdicts[i] = "failed" =>
             i \in faults \/ exit[i] = "bad" \/ answer[i] = "wrong"

\* Once the interrupt is counted no further worker starts, and the run does not
\* end with a collection unless the last collector had been reached.
PromptStop ==
    flag => /\ \A i \in Names : i > atFlag => os[<<i, "worker">>] = "none"
            /\ run \in {"complete", "protocol"} => atFlag >= Last

\* A worker that goes on writing gets everything written or is stopped: the
\* parent never keeps it waiting for ever on a full pipe, whichever of the two
\* it fills first (one reader thread for each, started before the watching).
Heard ==
    WorkerWrites =>
        \A i \in Names : os[<<i, "worker">>] = "running" ~>
            (os[<<i, "worker">>] # "running" \/ (cur = i /\ \A s \in Streams : left[s] = 0)
             \/ ~Going)

\* The run ends, and with it everything in the jobs, even when a worker hangs or
\* a helper keeps the pipes open (job.terminate before the readers are joined).
Returns == SystemFair => <>(~Going /\ \A x \in Names \X Kinds : x \in job => ~Alive(x))
=============================================================================
