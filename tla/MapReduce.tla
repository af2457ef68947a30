------------------------------ MODULE MapReduce ------------------------------
(***************************************************************************)
(* mapreduce/: the coordinator that hands out map and reduce tasks and     *)
(* takes them back after ten seconds, and the workers that share           *)
(* intermediate files with each other.  A worker may crash between any two *)
(* steps.  A map task's input file and its id are the same number; the     *)
(* records Map emits for it are numbered 1 .. NRecord, each for the bucket *)
(* its key hashes to.                                                      *)
(***************************************************************************)
EXTENDS Naturals, FiniteSets

CONSTANTS
  Worker,
  NMap, NReduce, NRecord,
  Slow,        \* whether a worker may take ten seconds and still be at work
  MaxCrashes   \* bound: workers that crash

ASSUME JobAssumption ==
  /\ NMap \in Nat \ {0} /\ NReduce \in Nat \ {0} /\ NRecord \in Nat
  /\ Slow \in BOOLEAN /\ MaxCrashes \in Nat

VARIABLES
  mapTasks, reduceTasks,  \* the state of each task
  mapDone, reduceDone,    \* how many reports of them came in
  overdue,                \* tasks handed out more than ten seconds ago
  worker,                 \* per worker: what it is doing
  intermediate,           \* the records in each file mr-m-r
  output                  \* the records the groups of mr-out-r are made of

coordinator == <<mapTasks, reduceTasks, mapDone, reduceDone, overdue>>
vars == <<coordinator, worker, intermediate, output>>

Maps == 0 .. NMap - 1
Reduces == 0 .. NReduce - 1
Records == 1 .. NRecord

\* ihash(key) % NReduce
Bucket(n) == n % NReduce
Emitted(r) == {n \in Records : Bucket(n) = r}

-----------------------------------------------------------------------------
(* The coordinator.                                                        *)

\* Mutant: reducing begins when every map task is handed out.
MapPhaseTillStarted == \E m \in Maps : mapTasks[m] = "Idle"

MapPhase == mapDone # NMap
ReducePhase == ~MapPhase /\ reduceDone # NReduce
Done == mapDone = NMap /\ reduceDone = NReduce

\* Mutants: a task is taken back before it is overdue, or never.
AvailableUnfinished(tasks, kind, t) == tasks[t] # "Finished"
AvailableOnce(tasks, kind, t) == tasks[t] = "Idle"

\* A task to hand out; one that is overdue is taken back just before.
Available(tasks, kind, t) == tasks[t] = "Idle" \/ <<kind, t>> \in overdue

\* "next" counts the files or records the step "at" is through with, "read" is
\* what a reduce task has gathered.
Starting(at, t) == [at |-> at, task |-> t, next |-> 0, read |-> {}]
Stopped(at) == Starting(at, 0)

Asking(w) == worker[w].at = "asking"

GetMapTask(w, m) ==
  /\ Asking(w) /\ MapPhase
  /\ Available(mapTasks, "map", m)
  /\ mapTasks' = [mapTasks EXCEPT ![m] = "Running"]
  /\ overdue' = overdue \ {<<"map", m>>}
  /\ worker' = [worker EXCEPT ![w] = Starting("creating", m)]
  /\ UNCHANGED <<reduceTasks, mapDone, reduceDone, intermediate, output>>

GetReduceTask(w, r) ==
  /\ Asking(w) /\ ReducePhase
  /\ Available(reduceTasks, "reduce", r)
  /\ reduceTasks' = [reduceTasks EXCEPT ![r] = "Running"]
  /\ overdue' = overdue \ {<<"reduce", r>>}
  /\ worker' = [worker EXCEPT ![w] = Starting("opening", r)]
  /\ UNCHANGED <<mapTasks, mapDone, reduceDone, intermediate, output>>

\* The answer "DONE" ends the worker.  The answer "WAIT" makes it ask again
\* after a second and changes nothing.
GetDone(w) ==
  /\ Asking(w) /\ ~MapPhase /\ ~ReducePhase
  /\ worker' = [worker EXCEPT ![w] = Stopped("exited")]
  /\ UNCHANGED <<coordinator, intermediate, output>>

ReportMap(w) ==
  /\ worker[w].at = "reportMap"
  /\ mapTasks' = [mapTasks EXCEPT ![worker[w].task] = "Finished"]
  /\ mapDone' = mapDone + 1
  /\ overdue' = overdue \ {<<"map", worker[w].task>>}
  /\ worker' = [worker EXCEPT ![w] = Stopped("asking")]
  /\ UNCHANGED <<reduceTasks, reduceDone, intermediate, output>>

ReportReduce(w) ==
  /\ worker[w].at = "reportReduce"
  /\ reduceTasks' = [reduceTasks EXCEPT ![worker[w].task] = "Finished"]
  /\ reduceDone' = reduceDone + 1
  /\ overdue' = overdue \ {<<"reduce", worker[w].task>>}
  /\ worker' = [worker EXCEPT ![w] = Stopped("asking")]
  /\ UNCHANGED <<mapTasks, mapDone, intermediate, output>>

-----------------------------------------------------------------------------
(* A worker's map task.                                                    *)

AtMap(w) == worker[w].at \in {"creating", "writing", "reportMap"}
AtReduce(w) == worker[w].at \in {"opening", "reading", "printing", "reportReduce"}

\* Mutant: a worker does each of its steps once too often.
AdvanceLate(w, last, there, read) ==
  LET x == worker[w] IN
  worker' = [worker EXCEPT ![w] =
    IF x.next < last THEN [x EXCEPT !.next = x.next + 1, !.read = read]
    ELSE [x EXCEPT !.at = there, !.next = 0, !.read = read]]

\* After its next step the worker goes on with the step, or is through with it.
Advance(w, last, there, read) ==
  LET x == worker[w] IN
  worker' = [worker EXCEPT ![w] =
    IF x.next + 1 < last THEN [x EXCEPT !.next = x.next + 1, !.read = read]
    ELSE [x EXCEPT !.at = there, !.next = 0, !.read = read]]

\* os.Create: whatever the file held is gone, for its other writers as well.
CreateFile(w) ==
  /\ worker[w].at = "creating"
  /\ intermediate' = [intermediate EXCEPT ![worker[w].task][worker[w].next] = {}]
  /\ Advance(w, NReduce, IF NRecord = 0 THEN "reportMap" ELSE "writing", {})
  /\ UNCHANGED <<coordinator, output>>

Encode(w) ==
  /\ worker[w].at = "writing"
  /\ LET n == worker[w].next + 1
     IN  intermediate' = [intermediate EXCEPT ![worker[w].task][Bucket(n)] = @ \cup {n}]
  /\ Advance(w, NRecord, "reportMap", {})
  /\ UNCHANGED <<coordinator, output>>

-----------------------------------------------------------------------------
(* A worker's reduce task.                                                 *)

OpenOutput(w) ==
  /\ worker[w].at = "opening"
  /\ output' = [output EXCEPT ![worker[w].task] = {}]
  /\ worker' = [worker EXCEPT ![w].at = "reading"]
  /\ UNCHANGED <<coordinator, intermediate>>

\* Mutant: the decoder is asked once for each file.
FirstDecoded(file, r) ==
  {n \in file : \A k \in Emitted(r) : k <= n => k = n}

\* The decoder stops at the first gap: a record that was written by one worker
\* and wiped out by another that created the file anew.
Decoded(file, r) ==
  {n \in file : \A k \in Emitted(r) : k <= n => k \in file}

ReadFile(w) ==
  /\ worker[w].at = "reading"
  /\ LET m == worker[w].next
         r == worker[w].task
     IN  Advance(w, NMap, "printing",
                 worker[w].read \cup {<<m, n>> : n \in Decoded(intermediate[m][r], r)})
  /\ UNCHANGED <<coordinator, intermediate, output>>

\* One line per key; the lines go to the file in one step.
PrintOutput(w) ==
  /\ worker[w].at = "printing"
  /\ output' = [output EXCEPT ![worker[w].task] = worker[w].read]
  /\ worker' = [worker EXCEPT ![w].at = "reportReduce"]
  /\ UNCHANGED <<coordinator, intermediate>>

-----------------------------------------------------------------------------

Crash(w) ==
  /\ worker[w].at \notin {"exited", "crashed"}
  /\ Cardinality({v \in Worker : worker[v].at = "crashed"}) < MaxCrashes
  /\ worker' = [worker EXCEPT ![w] = Stopped("crashed")]
  /\ UNCHANGED <<coordinator, intermediate, output>>

\* Ten seconds go by for a task.  Unless workers may be slow, nobody is then
\* still at work on it.
Expire(kind, t) ==
  /\ IF kind = "map" THEN mapTasks[t] = "Running" ELSE reduceTasks[t] = "Running"
  /\ <<kind, t>> \notin overdue
  /\ ~Slow => \A w \in Worker :
       (IF kind = "map" THEN AtMap(w) ELSE AtReduce(w)) => worker[w].task # t
  /\ overdue' = overdue \cup {<<kind, t>>}
  /\ UNCHANGED <<mapTasks, reduceTasks, mapDone, reduceDone, worker, intermediate, output>>

Init ==
  /\ mapTasks = [m \in Maps |-> "Idle"] /\ reduceTasks = [r \in Reduces |-> "Idle"]
  /\ mapDone = 0 /\ reduceDone = 0 /\ overdue = {}
  /\ worker = [w \in Worker |-> Stopped("asking")]
  /\ intermediate = [m \in Maps |-> [r \in Reduces |-> {}]]
  /\ output = [r \in Reduces |-> {}]

GetTask(w) ==
  \/ \E m \in Maps : GetMapTask(w, m)
  \/ \E r \in Reduces : GetReduceTask(w, r)
  \/ GetDone(w)

Work(w) ==
  \/ CreateFile(w) \/ Encode(w) \/ OpenOutput(w) \/ ReadFile(w) \/ PrintOutput(w)
  \/ ReportMap(w) \/ ReportReduce(w)

Expiry ==
  \/ \E m \in Maps : Expire("map", m)
  \/ \E r \in Reduces : Expire("reduce", r)

Next == (\E w \in Worker : GetTask(w) \/ Work(w) \/ Crash(w)) \/ Expiry

Spec == Init /\ [][Next]_vars

\* A worker that has not crashed goes on, and the ten seconds pass.
FairSpec ==
  Spec /\ WF_vars(Expiry) /\ \A w \in Worker : WF_vars(GetTask(w) \/ Work(w))

-----------------------------------------------------------------------------

TaskStates == {"Idle", "Running", "Finished"}
TaskNames == ({"map"} \X Maps) \cup ({"reduce"} \X Reduces)
Steps == {"asking", "exited", "crashed", "creating", "writing", "reportMap",
          "opening", "reading", "printing", "reportReduce"}

Workers == [at : Steps, task : Nat, next : Nat, read : SUBSET (Maps \X Records)]

\* Types of the variables; a worker's task is one of the phase it is in, and
\* only tasks that are out are overdue.
TypeOK ==
  /\ mapTasks \in [Maps -> TaskStates] /\ reduceTasks \in [Reduces -> TaskStates]
  /\ mapDone \in Nat /\ reduceDone \in Nat
  /\ worker \in [Worker -> Workers]
  /\ \A w \in Worker : /\ AtMap(w) => worker[w].task \in Maps
                       /\ AtReduce(w) => worker[w].task \in Reduces
  /\ intermediate \in [Maps -> [Reduces -> SUBSET Records]]
  /\ output \in [Reduces -> SUBSET (Maps \X Records)]
  /\ overdue \subseteq
       ({"map"} \X {m \in Maps : mapTasks[m] = "Running"})
       \cup ({"reduce"} \X {r \in Reduces : reduceTasks[r] = "Running"})

Finished(tasks) == {t \in DOMAIN tasks : tasks[t] = "Finished"}

\* The coordinator tells the end of a phase by counting reports: as many reports
\* have come in as tasks are finished.
CountsReports ==
  /\ mapDone = Cardinality(Finished(mapTasks))
  /\ reduceDone = Cardinality(Finished(reduceTasks))

\* A reduce task runs only when every map task has written all its records,
\* and no worker is about to truncate one of the files it reads.
ReducesReadAll ==
  (\E w \in Worker : AtReduce(w)) =>
    /\ \A m \in Maps : \A r \in Reduces : intermediate[m][r] = Emitted(r)
    /\ \A w \in Worker : ~AtMap(w)

\* When the coordinator says the job is done, every output file holds what Map
\* emitted for its bucket, all of it, from every input.
DoneIsFinished ==
  Done => \A r \in Reduces : output[r] = Maps \X Emitted(r)

\* The job is done in the end, if one worker survives.
JobIsDone == <>[]Done
=============================================================================
