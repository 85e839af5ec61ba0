-------------------------- MODULE CollectorRunProofs --------------------------
(***************************************************************************)
(* Proofs about CollectorRun, for any number of collectors, any length of  *)
(* their answers and any capacity of the pipes.                            *)
(***************************************************************************)
EXTENDS CollectorRun, TLAPS

Started == {"isolate", "resume", "poll", "tryWait", "clock", "reap", "join"}
Watching == {"poll", "tryWait", "clock"}

(***************************************************************************)
(* The inductive invariant.                                                *)
(***************************************************************************)

\* The parent is at a collector, or past the last one.
PlaceOK ==
    /\ pc \in Started \cup {"spawn"} => cur \in Names
    /\ pc = "assemble" => cur = Last + 1

\* Of a collector that has its verdict nothing is left.
PastOK == \A i \in Names, k \in Kinds : i < cur => ~Alive(<<i, k>>)

\* Of one that has not been started there is nothing yet.
FutureOK ==
    \A i \in Names : (i > cur \/ (i = cur /\ pc \notin Started)) =>
        /\ \A k \in Kinds : os[<<i, k>>] = "none" /\ <<i, k>> \notin job
        /\ exit[i] = "none" /\ i \notin faults

\* The current worker, its helper and their job.
ProcessesOK ==
    pc \in Started =>
        /\ os[Worker] # "none" /\ os[Helper] # "suspended"
        /\ os[Worker] = "running" => Worker \in job
        /\ Alive(Helper) => Helper \in job
        /\ pc \in {"isolate", "resume"} => os[Worker] # "running" /\ os[Helper] = "none"
        /\ pc = "isolate" => \A k \in Kinds : <<cur, k>> \notin job
        /\ pc \in Watching => os[Worker] # "suspended" /\ Worker \in job
        /\ pc = "resume" => Worker \in job
        /\ pc \in {"reap", "join"} => ~Active(Worker) /\ ~Active(Helper)
        /\ pc = "join" => os[Worker] = "ended"

\* How the current worker ended, if it has.
ExitOK ==
    pc \in Started =>
        /\ Active(Worker) => exit[cur] = "none"
        /\ os[Worker] = "doomed" => exit[cur] = "bad"
        /\ os[Worker] = "ended" => exit[cur] \in {"ok", "bad"}
        /\ exit[cur] = "ok" => left["stdout"] = 0 /\ answer[cur] \in Answers

\* A reader ends only when nobody can write any more.
ReadersOK ==
    pc \in Started =>
        /\ \A s \in Streams : reader[s] = "eof" =>
              pipe[s] = 0 /\ ~Alive(Worker) /\ ~Alive(Helper)
        /\ pc \in {"isolate", "resume"} => \A s \in Streams : reader[s] = "off"
        /\ pc \in Watching \cup {"join"} => \A s \in Streams : reader[s] # "off"
        /\ pc = "reap" /\ reader["stdout"] = "off" =>
              why = "failed" /\ ~Alive(Helper) /\ reader["stderr"] = "off"
        /\ reader["stderr"] = "off" => reader["stdout"] = "off"

\* Why the parent stopped watching.
ReasonOK ==
    pc \in Started =>
        /\ pc \notin {"reap", "join"} => cur \notin faults
        /\ pc \in {"reap", "join"} => why # "none" /\ (cur \in faults <=> why = "failed")
        /\ pc \in {"reap", "join"} /\ why = "timeout" => cur \in overdue

\* Nothing is left of a run that has ended.
EndOK ==
    /\ run \in {"complete", "cancelled", "protocol"} =>
          \A i \in Names, k \in Kinds : ~Alive(<<i, k>>)
    /\ run = "gone" => \A x \in job : ~Active(x)

\* The parent goes no further than the collector it was at when the flag was set.
FlagOK ==
    flag => /\ atFlag <= cur
            /\ cur <= atFlag \/ (cur = atFlag + 1 /\ pc \in {"head", "assemble"})
            /\ run \in {"complete", "protocol"} => atFlag >= Last

IInv ==
    /\ TypeOK /\ PlaceOK /\ PastOK /\ FutureOK /\ ProcessesOK /\ ExitOK /\ ReadersOK
    /\ ReasonOK /\ EndOK /\ FlagOK /\ VerdictsJustified

USE CollectorRunAssumption
    DEF Names, Kinds, Streams, Worker, Helper, Alive, Active, Going, At, GoTo, Finish,
        Started, Watching, vars, parentVars, consoleVars, osVars, pipeVars

-----------------------------------------------------------------------------
(* What a kill does.                                                       *)

\* A kill, process by process: who is not active is spared.
LEMMA KillEffect ==
    ASSUME TypeOK, NEW S, Kill(S)
    PROVE  /\ os' \in [Names \X Kinds -> {"none", "suspended", "running", "doomed", "ended"}]
           /\ exit' \in [Names -> {"none", "ok", "bad"}]
           /\ \A i \in Names, k \in Kinds :
                os'[<<i, k>>] = IF <<i, k>> \in S /\ Active(<<i, k>>) THEN "doomed"
                                ELSE os[<<i, k>>]
           /\ \A i \in Names :
                exit'[i] = IF <<i, "worker">> \in S /\ Active(<<i, "worker">>) THEN "bad"
                           ELSE exit[i]
  BY DEF TypeOK, Kill

\* The worker and its helper are killed, if they are still running, and nothing else.
Felled ==
    /\ os' \in [Names \X Kinds -> {"none", "suspended", "running", "doomed", "ended"}]
    /\ exit' \in [Names -> {"none", "ok", "bad"}]
    /\ os'[Worker] = IF Active(Worker) THEN "doomed" ELSE os[Worker]
    /\ os'[Helper] = IF Active(Helper) THEN "doomed" ELSE os[Helper]
    /\ exit'[cur] = IF Active(Worker) THEN "bad" ELSE exit[cur]
    /\ \A i \in Names, k \in Kinds : i # cur => os'[<<i, k>>] = os[<<i, k>>]
    /\ \A i \in Names : i # cur => exit'[i] = exit[i]

\* Ending the job does that wherever the parent does it: the helper is in the job, and
\* the worker is killed with it or has ended.
LEMMA KillFells ==
    ASSUME IInv, pc \in Started, NEW S,
           (S = JobOf(cur) /\ ~Active(Worker)) \/ S = JobOf(cur) \cup {Worker},
           Kill(S)
    PROVE  Felled
<1>1. cur \in Names
  BY DEF IInv, PlaceOK
<1>2. \A i \in Names, k \in Kinds : i # cur => <<i, k>> \notin S
  BY DEF JobOf
<1>3. Active(Worker) => Worker \in S
  BY DEF JobOf
<1>4. Active(Helper) => Helper \in S
  BY DEF JobOf, IInv, ProcessesOK
<1> QED BY <1>1, <1>2, <1>3, <1>4, KillEffect DEF IInv, Felled

\* A verdict is on a collector before the current one.
LEMMA VerdictOnPast ==
    ASSUME TypeOK, NEW i \in 1..Len(verdicts)
    PROVE  i \in Names /\ i < cur /\ i # cur
  BY DEF TypeOK

-----------------------------------------------------------------------------
(* The two ways the parent leaves a worker.                                *)

\* It kills what is left and goes to wait for it: after a failed call, an interrupt or
\* the time limit.
LEMMA GivingUpKeeps ==
    ASSUME IInv, Going, pc \in Started \ {"reap", "join"}, Felled,
           NEW reason \in {"cancelled", "timeout", "failed"}, GiveUp(reason),
           faults' = IF reason = "failed" THEN faults \cup {cur} ELSE faults,
           reason = "timeout" => cur \in overdue,
           reason # "failed" => pc \in Watching,
           UNCHANGED <<consoleVars, job, pipeVars, answer, overdue>>
    PROVE  IInv'
<1> USE DEF GiveUp
<1>0. cur \in Names
  BY DEF IInv, PlaceOK
<1>1. TypeOK'
  BY <1>0 DEF IInv, TypeOK, Felled
<1>2. PlaceOK'
  BY <1>0 DEF PlaceOK
<1>3. PastOK'
  BY DEF IInv, PastOK, Felled
<1>4. FutureOK'
  BY <1>0 DEF IInv, TypeOK, FutureOK, Felled
<1>5. ProcessesOK'
  BY DEF IInv, ProcessesOK, Felled
<1>6. ExitOK'
  BY DEF IInv, ExitOK, Felled
<1>7. ReadersOK'
  BY DEF IInv, ReadersOK, ProcessesOK, Felled
<1>8. VerdictsJustified'
  BY VerdictOnPast DEF IInv, VerdictsJustified, Felled
<1>9. ReasonOK' /\ EndOK' /\ FlagOK'
  BY DEF IInv, ReasonOK, EndOK, FlagOK
<1> QED BY <1>1, <1>2, <1>3, <1>4, <1>5, <1>6, <1>7, <1>8, <1>9 DEF IInv

\* It records a verdict that is justified, when nothing of the collector is alive.
LEMMA RecordingKeeps ==
    ASSUME IInv, Going, pc \in Started \cup {"spawn"}, ~Alive(Worker), ~Alive(Helper),
           NEW v \in {"answered", "timeout", "failed"}, Record(v),
           faults' \in {faults, faults \cup {cur}},
           v = "answered" =>
             exit[cur] = "ok" /\ answer[cur] \in {"right", "misshapen"} /\ cur \notin faults',
           v = "timeout" => cur \in overdue \ faults',
           v = "failed" => cur \in faults' \/ exit[cur] = "bad" \/ answer[cur] = "wrong",
           UNCHANGED <<consoleVars, osVars, pipeVars, answer, overdue>>
    PROVE  IInv'
<1> USE DEF Record
<1>0. cur \in Names
  BY DEF IInv, PlaceOK
<1>1. TypeOK'
  <2>1. verdicts' \in Seq({"answered", "timeout", "failed"}) /\ Len(verdicts') = Len(verdicts) + 1
    BY DEF IInv, TypeOK
  <2> QED BY <1>0, <2>1 DEF IInv, TypeOK
<1>2. PastOK'
  <2> SUFFICES ASSUME NEW i \in Names, NEW k \in Kinds, i < cur + 1
               PROVE  ~Alive(<<i, k>>)
    BY DEF PastOK
  <2>1. CASE i = cur
    BY <2>1
  <2>2. CASE i < cur
    BY <2>2 DEF IInv, PastOK
  <2> QED BY <1>0, <2>1, <2>2
<1>3. FutureOK'
  BY <1>0 DEF IInv, FutureOK
<1>4. FlagOK'
  BY DEF IInv, TypeOK, FlagOK
<1>5. VerdictsJustified'
  <2> SUFFICES ASSUME NEW i \in 1..Len(verdicts')
               PROVE  /\ verdicts'[i] = "answered" =>
                           exit[i] = "ok" /\ answer[i] \in {"right", "misshapen"} /\ i \notin faults'
                      /\ verdicts'[i] = "timeout" => i \in overdue \ faults'
                      /\ verdicts'[i] = "failed" =>
                           i \in faults' \/ exit[i] = "bad" \/ answer[i] = "wrong"
    BY DEF VerdictsJustified
  <2>1. \/ i = cur /\ verdicts'[i] = v
        \/ i \in 1..Len(verdicts) /\ verdicts'[i] = verdicts[i]
    <3> DEFINE V == {"answered", "timeout", "failed"}
    <3>1. verdicts \in Seq(V) /\ Len(verdicts) = cur - 1 /\ verdicts' = Append(verdicts, v)
      BY DEF IInv, TypeOK
    <3>2. Len(verdicts') = Len(verdicts) + 1
      BY <3>1
    <3>3. CASE i = Len(verdicts) + 1
      <4>1. Append(verdicts, v)[Len(verdicts) + 1] = v
        BY <3>1
      <4>2. i = cur
        BY <1>0, <3>1, <3>3
      <4>3. verdicts'[i] = Append(verdicts, v)[Len(verdicts) + 1]
        BY <3>1, <3>3, Zenon
      <4> QED BY <4>1, <4>2, <4>3, Zenon
    <3>4. CASE i # Len(verdicts) + 1
      BY <3>1, <3>2, <3>4
    <3> QED BY <3>3, <3>4
  <2>2. CASE i = cur /\ verdicts'[i] = v
    BY <2>2
  <2>3. CASE i \in 1..Len(verdicts) /\ verdicts'[i] = verdicts[i]
    BY <2>3, VerdictOnPast DEF IInv, VerdictsJustified
  <2> QED BY <2>1, <2>2, <2>3
<1>6. PlaceOK' /\ ProcessesOK' /\ ExitOK' /\ ReadersOK' /\ ReasonOK' /\ EndOK'
  BY DEF IInv, PlaceOK, ProcessesOK, ExitOK, ReadersOK, ReasonOK, EndOK
<1> QED BY <1>1, <1>2, <1>3, <1>4, <1>5, <1>6 DEF IInv

-----------------------------------------------------------------------------
(* The steps of the parent.                                                *)

LEMMA LoopKeeps ==
    ASSUME IInv, Loop
    PROVE  IInv'
<1>1. TypeOK'
  BY DEF IInv, TypeOK, Loop
<1>2. PlaceOK'
  BY DEF IInv, TypeOK, PlaceOK, Loop
<1>3. EndOK'
  BY DEF IInv, FutureOK, PastOK, EndOK, Loop
<1>4. /\ PastOK' /\ FutureOK' /\ ProcessesOK' /\ ExitOK'
      /\ ReadersOK' /\ ReasonOK' /\ FlagOK' /\ VerdictsJustified'
  BY DEF IInv, PastOK, FutureOK, ProcessesOK, ExitOK, ReadersOK, ReasonOK, FlagOK,
     VerdictsJustified, Loop
<1> QED BY <1>1, <1>2, <1>3, <1>4 DEF IInv

LEMMA SpawnKeeps ==
    ASSUME IInv, Spawn
    PROVE  IInv'
<1>1. CASE /\ GoTo("isolate")
         /\ os' = [os EXCEPT ![Worker] = "suspended"]
         /\ left' = Size /\ pipe' = [s \in Streams |-> 0]
         /\ reader' = [s \in Streams |-> "off"]
         /\ UNCHANGED faults
  <2>1. TypeOK'
    BY <1>1 DEF IInv, TypeOK, PlaceOK, Spawn, Size
  <2>2. PastOK'
    <3> SUFFICES ASSUME NEW i \in Names, NEW k \in Kinds, i < cur
                 PROVE  os'[<<i, k>>] = os[<<i, k>>]
      BY <1>1 DEF IInv, PastOK
    <3> QED BY <1>1
  <2>3. ProcessesOK'
    BY <1>1 DEF IInv, TypeOK, PlaceOK, FutureOK, ProcessesOK, Spawn
  <2>4. ExitOK'
    BY <1>1 DEF IInv, TypeOK, PlaceOK, FutureOK, ExitOK, Spawn
  <2>5. ReasonOK'
    BY <1>1 DEF IInv, PlaceOK, FutureOK, ReasonOK, Spawn
  <2>6. PlaceOK' /\ FutureOK' /\ ReadersOK' /\ EndOK' /\ FlagOK' /\ VerdictsJustified'
    BY <1>1 DEF IInv, PlaceOK, FutureOK, ReadersOK, EndOK, FlagOK, VerdictsJustified, Spawn
  <2> QED BY <2>1, <2>2, <2>3, <2>4, <2>5, <2>6 DEF IInv
<1>2. CASE Record("failed") /\ faults' = faults \cup {cur} /\ UNCHANGED <<os, pipeVars>>
  BY <1>2, RecordingKeeps DEF Spawn, IInv, PlaceOK, FutureOK
<1> QED BY <1>1, <1>2 DEF Spawn

LEMMA IsolateKeeps ==
    ASSUME IInv, Isolate
    PROVE  IInv'
<1>1. CASE GoTo("resume") /\ job' = job \cup {Worker} /\ UNCHANGED <<os, exit, faults>>
  <2>1. TypeOK'
    BY <1>1 DEF IInv, TypeOK, PlaceOK, Isolate
  <2>2. /\ PlaceOK' /\ PastOK' /\ FutureOK' /\ ProcessesOK' /\ ExitOK'
        /\ ReadersOK' /\ ReasonOK' /\ EndOK' /\ FlagOK' /\ VerdictsJustified'
    BY <1>1 DEF IInv, PlaceOK, PastOK, FutureOK, ProcessesOK, ExitOK, ReadersOK, ReasonOK,
       EndOK, FlagOK, VerdictsJustified, Isolate
  <2> QED BY <2>1, <2>2 DEF IInv
<1>2. CASE /\ GiveUp("failed") /\ faults' = faults \cup {cur}
         /\ Kill({Worker}) /\ UNCHANGED job
  <2>1. cur \in Names /\ ~Active(Helper)
    BY DEF Isolate, IInv, PlaceOK, ProcessesOK
  <2>2. Felled
    BY <1>2, <2>1 DEF Kill, Felled, IInv, TypeOK
  <2> QED BY <1>2, <2>2, GivingUpKeeps DEF Isolate
<1> QED BY <1>1, <1>2 DEF Isolate

LEMMA ResumeKeeps ==
    ASSUME IInv, Resume
    PROVE  IInv'
<1>1. CASE /\ GoTo("poll")
         /\ os' = [os EXCEPT ![Worker] = IF @ = "suspended" THEN "running" ELSE @]
         /\ reader' = [s \in Streams |-> "reading"]
         /\ UNCHANGED <<exit, faults>>
  <2>1. TypeOK'
    BY <1>1 DEF IInv, TypeOK, Resume
  <2>2. PastOK'
    BY <1>1 DEF IInv, TypeOK, PastOK
  <2>3. ProcessesOK'
    BY <1>1 DEF IInv, TypeOK, ProcessesOK, Resume
  <2>4. /\ PlaceOK' /\ FutureOK' /\ ExitOK' /\ ReadersOK'
        /\ ReasonOK' /\ EndOK' /\ FlagOK' /\ VerdictsJustified'
    BY <1>1 DEF IInv, PlaceOK, FutureOK, ExitOK, ReadersOK, ReasonOK, EndOK, FlagOK,
       VerdictsJustified, Resume
  <2> QED BY <2>1, <2>2, <2>3, <2>4 DEF IInv
<1>2. CASE /\ GiveUp("failed") /\ faults' = faults \cup {cur}
         /\ TerminateAll /\ UNCHANGED reader
  <2>1. Felled
    BY <1>2, KillFells DEF Resume, TerminateAll
  <2> QED BY <1>2, <2>1, GivingUpKeeps DEF Resume
<1> QED BY <1>1, <1>2 DEF Resume

LEMMA PollKeeps ==
    ASSUME IInv, Poll
    PROVE  IInv'
<1>1. CASE GoTo("tryWait") /\ UNCHANGED <<os, exit>>
  <2>1. TypeOK'
    BY <1>1 DEF IInv, TypeOK, Poll
  <2>2. /\ PlaceOK' /\ PastOK' /\ FutureOK' /\ ProcessesOK' /\ ExitOK'
        /\ ReadersOK' /\ ReasonOK' /\ EndOK' /\ FlagOK' /\ VerdictsJustified'
    BY <1>1 DEF IInv, PlaceOK, PastOK, FutureOK, ProcessesOK, ExitOK, ReadersOK, ReasonOK,
       EndOK, FlagOK, VerdictsJustified, Poll
  <2> QED BY <2>1, <2>2 DEF IInv
<1>2. CASE GiveUp("cancelled") /\ TerminateAll
  <2>1. Felled
    BY <1>2, KillFells DEF Poll, TerminateAll
  <2> QED BY <1>2, <2>1, GivingUpKeeps DEF Poll
<1> QED BY <1>1, <1>2 DEF Poll

LEMMA TryWaitKeeps ==
    ASSUME IInv, TryWait
    PROVE  IInv'
<1>1. CASE GoTo("clock") /\ UNCHANGED <<os, exit, faults>>
  <2>1. TypeOK'
    BY <1>1 DEF IInv, TypeOK, TryWait
  <2>2. /\ PlaceOK' /\ PastOK' /\ FutureOK' /\ ProcessesOK' /\ ExitOK'
        /\ ReadersOK' /\ ReasonOK' /\ EndOK' /\ FlagOK' /\ VerdictsJustified'
    BY <1>1 DEF IInv, PlaceOK, PastOK, FutureOK, ProcessesOK, ExitOK, ReadersOK, ReasonOK,
       EndOK, FlagOK, VerdictsJustified, TryWait
  <2> QED BY <2>1, <2>2 DEF IInv
<1>2. CASE GiveUp("failed") /\ TerminateAll /\ faults' = faults \cup {cur}
  <2>1. Felled
    BY <1>2, KillFells DEF TryWait, TerminateAll
  <2> QED BY <1>2, <2>1, GivingUpKeeps DEF TryWait
<1>3. CASE /\ os[Worker] = "ended"
         /\ pc' = "join" /\ why' = "exited" /\ UNCHANGED <<cur, verdicts, run>>
         /\ TerminateJob /\ UNCHANGED faults
  <2>0. Felled
    BY <1>3, KillFells DEF TryWait, TerminateJob
  <2>1. TypeOK'
    BY <1>3, <2>0 DEF IInv, TypeOK, TryWait, Felled
  <2>2. PastOK'
    BY <1>3, <2>0 DEF IInv, PastOK, Felled
  <2>3. FutureOK'
    BY <1>3, <2>0 DEF IInv, TypeOK, FutureOK, TryWait, Felled
  <2>4. ProcessesOK'
    BY <1>3, <2>0 DEF IInv, ProcessesOK, TryWait, Felled
  <2>5. ExitOK'
    BY <1>3, <2>0 DEF IInv, ExitOK, TryWait, Felled
  <2>6. ReadersOK'
    BY <1>3, <2>0 DEF IInv, ReadersOK, TryWait, Felled
  <2>7. VerdictsJustified'
    BY <1>3, <2>0, VerdictOnPast DEF IInv, VerdictsJustified, TryWait, Felled
  <2>8. PlaceOK' /\ ReasonOK' /\ EndOK' /\ FlagOK'
    BY <1>3 DEF IInv, PlaceOK, ReasonOK, EndOK, FlagOK, TryWait
  <2> QED BY <2>1, <2>2, <2>3, <2>4, <2>5, <2>6, <2>7, <2>8 DEF IInv
<1> QED BY <1>1, <1>2, <1>3 DEF TryWait

LEMMA ClockKeeps ==
    ASSUME IInv, Clock
    PROVE  IInv'
<1>1. CASE GoTo("poll") /\ UNCHANGED <<os, exit>>
  <2>1. TypeOK'
    BY <1>1 DEF IInv, TypeOK, Clock
  <2>2. /\ PlaceOK' /\ PastOK' /\ FutureOK' /\ ProcessesOK' /\ ExitOK'
        /\ ReadersOK' /\ ReasonOK' /\ EndOK' /\ FlagOK' /\ VerdictsJustified'
    BY <1>1 DEF IInv, PlaceOK, PastOK, FutureOK, ProcessesOK, ExitOK, ReadersOK, ReasonOK,
       EndOK, FlagOK, VerdictsJustified, Clock
  <2> QED BY <2>1, <2>2 DEF IInv
<1>2. CASE cur \in overdue /\ GiveUp("timeout") /\ TerminateAll
  <2>1. Felled
    BY <1>2, KillFells DEF Clock, TerminateAll
  <2> QED BY <1>2, <2>1, GivingUpKeeps DEF Clock
<1> QED BY <1>1, <1>2 DEF Clock

LEMMA ReapKeeps ==
    ASSUME IInv, Reap
    PROVE  IInv'
<1>1. CASE GoTo("join") /\ reader["stdout"] # "off"
  <2>1. TypeOK'
    BY <1>1 DEF IInv, TypeOK, Reap
  <2>2. /\ PlaceOK' /\ PastOK' /\ FutureOK' /\ ProcessesOK' /\ ExitOK'
        /\ ReadersOK' /\ ReasonOK' /\ EndOK' /\ FlagOK' /\ VerdictsJustified'
    BY <1>1 DEF IInv, PlaceOK, PastOK, FutureOK, ProcessesOK, ExitOK, ReadersOK, ReasonOK,
       EndOK, FlagOK, VerdictsJustified, Reap
  <2> QED BY <2>1, <2>2 DEF IInv
<1>2. CASE reader["stdout"] = "off" /\ Record("failed")
  BY <1>2, RecordingKeeps DEF Reap, IInv, ReadersOK, ReasonOK
<1> QED BY <1>1, <1>2 DEF Reap

LEMMA JoinKeeps ==
    ASSUME IInv, Join
    PROVE  IInv'
<1>0. /\ cur \in Names /\ ~Alive(Worker) /\ ~Alive(Helper) /\ os[Worker] = "ended"
      /\ pipe["stdout"] = 0
  BY DEF Join, IInv, PlaceOK, ProcessesOK, ReadersOK
<1>1. CASE why = "cancelled" /\ Finish("cancelled")
  <2>1. TypeOK'
    BY <1>1 DEF IInv, TypeOK, Join
  <2>2. EndOK'
    <3> SUFFICES ASSUME NEW i \in Names, NEW k \in Kinds PROVE ~Alive(<<i, k>>)
      BY <1>1 DEF Join, EndOK
    <3>1. CASE i < cur
      BY <3>1 DEF IInv, PastOK
    <3>2. CASE i = cur
      BY <1>0, <3>2
    <3>3. CASE i > cur
      BY <3>3 DEF IInv, FutureOK
    <3> QED BY <1>0, <3>1, <3>2, <3>3
  <2>3. /\ PlaceOK' /\ PastOK' /\ FutureOK' /\ ProcessesOK' /\ ExitOK'
        /\ ReadersOK' /\ ReasonOK' /\ FlagOK' /\ VerdictsJustified'
    BY <1>1 DEF IInv, PlaceOK, PastOK, FutureOK, ProcessesOK, ExitOK, ReadersOK, ReasonOK,
       FlagOK, VerdictsJustified, Join
  <2> QED BY <2>1, <2>2, <2>3 DEF IInv
<1>2. CASE why \in {"timeout", "failed"} /\ Record(why)
  BY <1>0, <1>2, RecordingKeeps DEF Join, IInv, ReasonOK
<1>3. CASE why = "exited" /\ Record(Judged)
  <2>1. cur \notin faults
    BY <1>3 DEF Join, IInv, ReasonOK
  <2>2. /\ exit[cur] \in {"ok", "bad"}
        /\ exit[cur] = "ok" => left["stdout"] = 0 /\ answer[cur] \in Answers
    BY <1>0 DEF Join, IInv, ExitOK
  <2>3. Judged \in {"answered", "failed"}
        /\ (Judged = "answered" => exit[cur] = "ok" /\ answer[cur] \in {"right", "misshapen"})
        /\ (Judged = "failed" => exit[cur] = "bad" \/ answer[cur] = "wrong")
    BY <1>0, <2>2 DEF Judged, Answers
  <2> QED BY <1>0, <1>3, <2>1, <2>3, RecordingKeeps DEF Join
<1> QED BY <1>1, <1>2, <1>3 DEF Join

LEMMA AssembleKeeps ==
    ASSUME IInv, Assemble
    PROVE  IInv'
<1>1. TypeOK'
  BY DEF IInv, TypeOK, Assemble
<1>2. EndOK'
  BY DEF IInv, PlaceOK, PastOK, EndOK, Assemble
<1>3. FlagOK'
  BY DEF IInv, TypeOK, PlaceOK, Assemble, FlagOK
<1>4. /\ PlaceOK' /\ PastOK' /\ FutureOK' /\ ProcessesOK'
      /\ ExitOK' /\ ReadersOK' /\ ReasonOK' /\ VerdictsJustified'
  BY DEF IInv, PlaceOK, PastOK, FutureOK, ProcessesOK, ExitOK, ReadersOK, ReasonOK,
     VerdictsJustified, Assemble
<1> QED BY <1>1, <1>2, <1>3, <1>4 DEF IInv

-----------------------------------------------------------------------------
(* The steps of the readers, the worker, its helper, the system, the user. *)

LEMMA ReadKeeps ==
    ASSUME IInv, NEW s \in Streams, Read(s)
    PROVE  IInv'
<1>1. TypeOK'
  BY DEF IInv, TypeOK, PlaceOK, Read
<1>2. ReadersOK'
  BY DEF IInv, TypeOK, ReadersOK, Read
<1>3. /\ PlaceOK' /\ PastOK' /\ FutureOK' /\ ProcessesOK' /\ ExitOK'
      /\ ReasonOK' /\ EndOK' /\ FlagOK' /\ VerdictsJustified'
  BY DEF IInv, PlaceOK, PastOK, FutureOK, ProcessesOK, ExitOK, ReasonOK, EndOK, FlagOK,
     VerdictsJustified, Read
<1> QED BY <1>1, <1>2, <1>3 DEF IInv

LEMMA WriteKeeps ==
    ASSUME IInv, NEW s \in Streams, Write(s)
    PROVE  IInv'
<1>1. TypeOK'
  <2>1. left' \in [Streams -> Nat] /\ \A t \in Streams : left'[t] <= Size[t]
    BY DEF IInv, TypeOK, Write, Size
  <2>2. pipe' \in [Streams -> 0..PipeCap]
    BY DEF IInv, TypeOK, Write
  <2> QED BY <2>1, <2>2 DEF IInv, TypeOK, Write
<1>2. /\ PlaceOK' /\ PastOK' /\ FutureOK' /\ ProcessesOK' /\ ExitOK'
      /\ ReadersOK' /\ ReasonOK' /\ EndOK' /\ FlagOK' /\ VerdictsJustified'
  BY DEF IInv, PlaceOK, PastOK, FutureOK, ProcessesOK, ExitOK, ReadersOK, ReasonOK, EndOK,
     FlagOK, VerdictsJustified, Write
<1> QED BY <1>1, <1>2 DEF IInv

LEMMA WorkerEndsKeeps ==
    ASSUME IInv, WorkerEnds
    PROVE  IInv'
<1>1. TypeOK'
  <2>1. answer' \in [Names -> Answers \cup {"none"}]
    BY DEF IInv, TypeOK, WorkerEnds
  <2>2. exit' \in [Names -> {"none", "ok", "bad"}]
    BY DEF IInv, TypeOK, WorkerEnds
  <2>3. os' \in [Names \X Kinds -> {"none", "suspended", "running", "doomed", "ended"}]
    BY DEF IInv, TypeOK, WorkerEnds
  <2> QED BY <2>1, <2>2, <2>3 DEF IInv, TypeOK, WorkerEnds
<1>2. PastOK'
  BY DEF IInv, TypeOK, PastOK, WorkerEnds
<1>3. FutureOK'
  BY DEF IInv, TypeOK, FutureOK, WorkerEnds
<1>4. ExitOK'
  BY DEF IInv, TypeOK, ExitOK, WorkerEnds
<1>5. VerdictsJustified'
  <2>1. \A i \in Names : i # cur => exit'[i] = exit[i] /\ answer'[i] = answer[i]
    BY DEF IInv, TypeOK, WorkerEnds
  <2> QED BY <2>1, VerdictOnPast DEF IInv, VerdictsJustified, WorkerEnds
<1>6. PlaceOK' /\ ProcessesOK' /\ ReadersOK' /\ ReasonOK' /\ EndOK' /\ FlagOK'
  BY DEF IInv, PlaceOK, ProcessesOK, ReadersOK, ReasonOK, EndOK, FlagOK, WorkerEnds
<1> QED BY <1>1, <1>2, <1>3, <1>4, <1>5, <1>6 DEF IInv

LEMMA HelperStartsKeeps ==
    ASSUME IInv, HelperStarts
    PROVE  IInv'
<1>1. TypeOK'
  BY DEF IInv, TypeOK, HelperStarts
<1>2. PastOK'
  BY DEF IInv, TypeOK, PastOK, HelperStarts
<1>3. ReadersOK'
  BY DEF IInv, ProcessesOK, ReadersOK, HelperStarts
<1>4. EndOK'
  BY DEF IInv, FutureOK, ProcessesOK, EndOK, HelperStarts
<1>5. /\ PlaceOK' /\ FutureOK' /\ ProcessesOK' /\ ExitOK'
      /\ ReasonOK' /\ FlagOK' /\ VerdictsJustified'
  BY DEF IInv, PlaceOK, FutureOK, ProcessesOK, ExitOK, ReasonOK, FlagOK, VerdictsJustified,
     HelperStarts
<1> QED BY <1>1, <1>2, <1>3, <1>4, <1>5 DEF IInv

LEMMA HelperEndsKeeps ==
    ASSUME IInv, HelperEnds
    PROVE  IInv'
<1>1. TypeOK'
  BY DEF IInv, TypeOK, HelperEnds
<1>2. PastOK'
  BY DEF IInv, TypeOK, PastOK, HelperEnds
<1>3. /\ PlaceOK' /\ FutureOK' /\ ProcessesOK' /\ ExitOK' /\ ReadersOK'
      /\ ReasonOK' /\ EndOK' /\ FlagOK' /\ VerdictsJustified'
  BY DEF IInv, PlaceOK, FutureOK, ProcessesOK, ExitOK, ReadersOK, ReasonOK, EndOK, FlagOK,
     VerdictsJustified, HelperEnds
<1> QED BY <1>1, <1>2, <1>3 DEF IInv

LEMMA DieKeeps ==
    ASSUME IInv, NEW x \in Names \X Kinds, Die(x)
    PROVE  IInv'
<1>1. TypeOK'
  BY DEF IInv, TypeOK, Die
<1>2. PastOK'
  BY DEF IInv, TypeOK, PastOK, Die
<1>3. /\ PlaceOK' /\ FutureOK' /\ ProcessesOK' /\ ExitOK' /\ ReadersOK'
      /\ ReasonOK' /\ EndOK' /\ FlagOK' /\ VerdictsJustified'
  BY DEF IInv, PlaceOK, FutureOK, ProcessesOK, ExitOK, ReadersOK, ReasonOK, EndOK, FlagOK,
     VerdictsJustified, Die
<1> QED BY <1>1, <1>2, <1>3 DEF IInv

LEMMA ExpireKeeps ==
    ASSUME IInv, Expire
    PROVE  IInv'
<1>1. TypeOK'
  BY DEF IInv, TypeOK, Expire
<1>2. /\ PlaceOK' /\ PastOK' /\ FutureOK' /\ ProcessesOK' /\ ExitOK'
      /\ ReadersOK' /\ ReasonOK' /\ EndOK' /\ FlagOK' /\ VerdictsJustified'
  BY DEF IInv, PlaceOK, PastOK, FutureOK, ProcessesOK, ExitOK, ReadersOK, ReasonOK, EndOK,
     FlagOK, VerdictsJustified, Expire
<1> QED BY <1>1, <1>2 DEF IInv

LEMMA CtrlCKeeps ==
    ASSUME IInv, CtrlC
    PROVE  IInv'
<1>1. TypeOK'
  BY DEF IInv, TypeOK, CtrlC
<1>2. /\ PlaceOK' /\ PastOK' /\ FutureOK' /\ ProcessesOK' /\ ExitOK'
      /\ ReadersOK' /\ ReasonOK' /\ EndOK' /\ FlagOK' /\ VerdictsJustified'
  BY DEF IInv, PlaceOK, PastOK, FutureOK, ProcessesOK, ExitOK, ReadersOK, ReasonOK, EndOK,
     FlagOK, VerdictsJustified, CtrlC
<1> QED BY <1>1, <1>2 DEF IInv

LEMMA ParentInterruptedKeeps ==
    ASSUME IInv, ParentInterrupted
    PROVE  IInv'
<1>1. TypeOK'
  BY DEF IInv, TypeOK, ParentInterrupted
<1>2. FlagOK'
  BY DEF IInv, TypeOK, ParentInterrupted, FlagOK
<1>3. /\ PlaceOK' /\ PastOK' /\ FutureOK' /\ ProcessesOK' /\ ExitOK'
      /\ ReadersOK' /\ ReasonOK' /\ EndOK' /\ VerdictsJustified'
  BY DEF IInv, PlaceOK, PastOK, FutureOK, ProcessesOK, ExitOK, ReadersOK, ReasonOK, EndOK,
     VerdictsJustified, ParentInterrupted
<1> QED BY <1>1, <1>2, <1>3 DEF IInv

LEMMA WorkerInterruptedKeeps ==
    ASSUME IInv, NEW i \in Names, WorkerInterrupted(i)
    PROVE  IInv'
<1>0. /\ os' \in [Names \X Kinds -> {"none", "suspended", "running", "doomed", "ended"}]
      /\ exit' \in [Names -> {"none", "ok", "bad"}]
      /\ \A j \in Names, k \in Kinds :
           os'[<<j, k>>] = IF <<j, k>> \in {<<i, "worker">>} /\ Active(<<j, k>>) THEN "doomed"
                           ELSE os[<<j, k>>]
      /\ \A j \in Names :
           exit'[j] = IF <<j, "worker">> \in {<<i, "worker">>} /\ Active(<<j, "worker">>) THEN "bad"
                      ELSE exit[j]
  BY KillEffect DEF WorkerInterrupted, IInv
<1>sparesProcess. \A j \in Names, k \in Kinds : ~Active(<<j, k>>) => os'[<<j, k>>] = os[<<j, k>>]
  BY <1>0
<1>sparesExit. \A j \in Names : ~Active(<<j, "worker">>) => exit'[j] = exit[j]
  BY <1>0
<1>1. TypeOK'
  BY <1>0 DEF IInv, TypeOK, WorkerInterrupted
<1>2. PastOK'
  BY <1>sparesProcess DEF IInv, PastOK, WorkerInterrupted
<1>3. FutureOK'
  BY <1>sparesProcess, <1>sparesExit DEF IInv, FutureOK, WorkerInterrupted
<1>4. ProcessesOK'
  BY <1>0 DEF IInv, PlaceOK, ProcessesOK, WorkerInterrupted
<1>5. ExitOK'
  BY <1>0 DEF IInv, PlaceOK, ExitOK, WorkerInterrupted
<1>6. ReadersOK'
  BY <1>0 DEF IInv, PlaceOK, ReadersOK, WorkerInterrupted
<1>7. EndOK'
  <2>1. ASSUME run' = "gone", NEW x \in job PROVE ~Active(x)'
    <3>1. PICK j \in Names, k \in Kinds : x = <<j, k>>
      BY DEF IInv, TypeOK
    <3> QED BY <1>0, <2>1, <3>1 DEF IInv, EndOK, WorkerInterrupted
  <2>2. ASSUME run' \in {"complete", "cancelled", "protocol"}, NEW j \in Names, NEW k \in Kinds
        PROVE  ~Alive(<<j, k>>)'
    BY <1>sparesProcess, <2>2 DEF IInv, EndOK, WorkerInterrupted
  <2> QED BY <2>1, <2>2 DEF EndOK, WorkerInterrupted
<1>8. VerdictsJustified'
  <2>1. \A j \in 1..Len(verdicts) : exit'[j] = exit[j]
    BY <1>sparesExit, VerdictOnPast DEF IInv, PastOK
  <2> QED BY <2>1 DEF IInv, VerdictsJustified, WorkerInterrupted
<1>9. PlaceOK' /\ ReasonOK' /\ FlagOK'
  BY DEF IInv, PlaceOK, ReasonOK, FlagOK, WorkerInterrupted
<1> QED BY <1>1, <1>2, <1>3, <1>4, <1>5, <1>6, <1>7, <1>8, <1>9 DEF IInv

LEMMA ParentGoneKeeps ==
    ASSUME IInv, ParentGone
    PROVE  IInv'
<1>0. /\ os' \in [Names \X Kinds -> {"none", "suspended", "running", "doomed", "ended"}]
      /\ exit' \in [Names -> {"none", "ok", "bad"}]
      /\ \A j \in Names, k \in Kinds :
           os'[<<j, k>>] = IF <<j, k>> \in job /\ Active(<<j, k>>) THEN "doomed"
                           ELSE os[<<j, k>>]
      /\ \A j \in Names :
           exit'[j] = IF <<j, "worker">> \in job /\ Active(<<j, "worker">>) THEN "bad"
                      ELSE exit[j]
  BY KillEffect DEF ParentGone, IInv
<1>sparesProcess. \A j \in Names, k \in Kinds : ~Active(<<j, k>>) => os'[<<j, k>>] = os[<<j, k>>]
  BY <1>0
<1>sparesExit. \A j \in Names : ~Active(<<j, "worker">>) => exit'[j] = exit[j]
  BY <1>0
<1>1. TypeOK'
  BY <1>0 DEF IInv, TypeOK, ParentGone
<1>2. PastOK'
  BY <1>sparesProcess DEF IInv, PastOK, ParentGone
<1>3. FutureOK'
  BY <1>sparesProcess, <1>sparesExit DEF IInv, FutureOK, ParentGone
<1>4. ProcessesOK'
  BY <1>0 DEF IInv, PlaceOK, ProcessesOK, ParentGone
<1>5. ExitOK'
  BY <1>0 DEF IInv, PlaceOK, ExitOK, ParentGone
<1>6. ReadersOK'
  BY <1>0 DEF IInv, PlaceOK, ReadersOK, ParentGone
<1>7. EndOK'
  <2>1. ASSUME run' = "gone", NEW x \in job PROVE ~Active(x)'
    <3>1. PICK j \in Names, k \in Kinds : x = <<j, k>>
      BY DEF IInv, TypeOK
    <3> QED BY <1>0, <2>1, <3>1
  <2>2. ASSUME run' \in {"complete", "cancelled", "protocol"}, NEW j \in Names, NEW k \in Kinds
        PROVE  ~Alive(<<j, k>>)'
    BY <2>2 DEF ParentGone
  <2> QED BY <2>1, <2>2 DEF EndOK, ParentGone
<1>8. VerdictsJustified'
  <2>1. \A j \in 1..Len(verdicts) : exit'[j] = exit[j]
    BY <1>sparesExit, VerdictOnPast DEF IInv, PastOK
  <2> QED BY <2>1 DEF IInv, VerdictsJustified, ParentGone
<1>9. PlaceOK' /\ ReasonOK' /\ FlagOK'
  BY DEF IInv, PlaceOK, ReasonOK, FlagOK, ParentGone
<1> QED BY <1>1, <1>2, <1>3, <1>4, <1>5, <1>6, <1>7, <1>8, <1>9 DEF IInv

-----------------------------------------------------------------------------
(* The theorems.                                                           *)

LEMMA InitIInv == Init => IInv
<1> SUFFICES ASSUME Init PROVE IInv
  OBVIOUS
<1>1. TypeOK
  <2>1. verdicts \in Seq({"answered", "timeout", "failed"}) /\ Len(verdicts) = 0
    BY DEF Init
  <2>2. left \in [Streams -> Nat] /\ (\A t \in Streams : left[t] <= Size[t])
        /\ pipe \in [Streams -> 0..PipeCap] /\ reader \in [Streams -> {"off", "reading", "eof"}]
    BY DEF Init, Size
  <2>3. /\ os \in [Names \X Kinds -> {"none", "suspended", "running", "doomed", "ended"}]
        /\ exit \in [Names -> {"none", "ok", "bad"}]
        /\ answer \in [Names -> Answers \cup {"none"}]
    BY DEF Init
  <2>4. cur \in 1..(Last + 1) /\ Len(verdicts) = cur - 1 /\ atFlag \in 0..(Last + 1)
    BY <2>1 DEF Init
  <2> QED BY <2>1, <2>2, <2>3, <2>4 DEF Init, TypeOK
<1>2. PlaceOK
  BY DEF Init, PlaceOK
<1>3. PastOK
  BY DEF Init, PastOK
<1>4. FutureOK
  BY DEF Init, FutureOK
<1>5. ProcessesOK
  BY DEF Init, ProcessesOK
<1>6. ExitOK
  BY DEF Init, ExitOK
<1>7. ReadersOK
  BY DEF Init, ReadersOK
<1>8. ReasonOK
  BY DEF Init, ReasonOK
<1>9. EndOK
  BY DEF Init, EndOK
<1>10. FlagOK
  BY DEF Init, FlagOK
<1>11. VerdictsJustified
  BY DEF Init, VerdictsJustified
<1> QED BY <1>1, <1>2, <1>3, <1>4, <1>5, <1>6, <1>7, <1>8, <1>9, <1>10, <1>11 DEF IInv

LEMMA StepIInv == IInv /\ [Next]_vars => IInv'
<1> SUFFICES ASSUME IInv, [Next]_vars PROVE IInv'
  OBVIOUS
<1>1. CASE Parent
  BY <1>1, LoopKeeps, SpawnKeeps, IsolateKeeps, ResumeKeeps, PollKeeps, TryWaitKeeps,
     ClockKeeps, ReapKeeps, JoinKeeps, AssembleKeeps DEF Parent
<1>2. CASE \E s \in Streams : Read(s) \/ Write(s)
  BY <1>2, ReadKeeps, WriteKeeps
<1>3. CASE WorkerEnds \/ HelperStarts \/ HelperEnds
  BY <1>3, WorkerEndsKeeps, HelperStartsKeeps, HelperEndsKeeps
<1>4. CASE \E x \in Names \X Kinds : Die(x)
  BY <1>4, DieKeeps
<1>5. CASE Expire \/ CtrlC \/ ParentInterrupted \/ ParentGone
  BY <1>5, ExpireKeeps, CtrlCKeeps, ParentInterruptedKeeps, ParentGoneKeeps
<1>6. CASE \E i \in Names : WorkerInterrupted(i)
  BY <1>6, WorkerInterruptedKeeps
<1>7. CASE UNCHANGED vars
  <2>1. TypeOK'
    BY <1>7 DEF IInv, TypeOK
  <2>2. /\ PlaceOK' /\ PastOK' /\ FutureOK' /\ ProcessesOK' /\ ExitOK'
        /\ ReadersOK' /\ ReasonOK' /\ EndOK' /\ FlagOK' /\ VerdictsJustified'
    BY <1>7 DEF IInv, PlaceOK, PastOK, FutureOK, ProcessesOK, ExitOK, ReadersOK, ReasonOK,
       EndOK, FlagOK, VerdictsJustified
  <2> QED BY <2>1, <2>2 DEF IInv
<1> QED BY <1>1, <1>2, <1>3, <1>4, <1>5, <1>6, <1>7 DEF Next

\* The inductive invariant holds of every run.
THEOREM Invariance == Spec => []IInv
  BY InitIInv, StepIInv, PTL DEF Spec

\* The variables keep their types: the place of the parent, the processes, the pipes.
THEOREM TypeCorrect == Spec => []TypeOK
<1>1. IInv => TypeOK
  BY DEF IInv
<1> QED BY <1>1, Invariance, PTL

\* No process of a worker outlives the return of run_worker, nor the parent if it is
\* in the job: any number of workers, killed, timed out, hanging or never isolated.
THEOREM NothingSurvives == Spec => []NoSurvivor
<1>1. IInv => NoSurvivor
  BY DEF IInv, NoSurvivor, PastOK, EndOK
<1> QED BY <1>1, Invariance, PTL

\* Each verdict of collect_all is what happened to that collector.
THEOREM VerdictsAreJustified == Spec => []VerdictsJustified
<1>1. IInv => VerdictsJustified
  BY DEF IInv
<1> QED BY <1>1, Invariance, PTL

\* After the interrupt is counted no further worker starts and nothing is assembled.
THEOREM StopsPromptly == Spec => []PromptStop
<1>1. IInv => PromptStop
  <2> SUFFICES ASSUME IInv, flag PROVE PromptStop
    BY DEF PromptStop
  <2>1. ASSUME NEW i \in Names, i > atFlag
        PROVE  i > cur \/ (i = cur /\ pc \notin Started)
    BY <2>1 DEF IInv, TypeOK, FlagOK
  <2>2. \A i \in Names : i > atFlag => os[<<i, "worker">>] = "none"
    BY <2>1 DEF IInv, FutureOK
  <2> QED BY <2>2 DEF IInv, PromptStop, FlagOK
<1> QED BY <1>1, Invariance, PTL
=============================================================================
