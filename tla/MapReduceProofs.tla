--------------------------- MODULE MapReduceProofs ---------------------------
(***************************************************************************)
(* Proved of MapReduce for every number of workers, tasks, records and     *)
(* crashes: its types and, when no worker is ever slower than ten seconds, *)
(* that the coordinator counts right, that reduce tasks read all there is  *)
(* to read, and that a finished job has all its output.                    *)
(***************************************************************************)
EXTENDS MapReduce, FiniteSetTheorems, TLAPS

-----------------------------------------------------------------------------
(* Types.                                                                  *)

\* A worker x has the right kind of task, and counts no further than there are
\* files or records.
Fits(x) ==
  /\ x \in Workers
  /\ x.at \in {"creating", "writing", "reportMap"} => x.task \in Maps
  /\ x.at \in {"opening", "reading", "printing", "reportReduce"} => x.task \in Reduces
  /\ x.at = "creating" => x.next < NReduce
  /\ x.at = "writing" => x.next < NRecord
  /\ x.at = "opening" => x.next = 0
  /\ x.at = "reading" => x.next < NMap

TypeInv == TypeOK /\ \A w \in Worker : Fits(worker[w])

\* A record goes to the file of one of the reduce tasks.
LEMMA BucketType == \A n \in Records : Bucket(n) \in Reduces
BY JobAssumption DEF Records, Bucket, Reduces

\* A worker that begins a task, or stops.
LEMMA StartingFits ==
  /\ \A m \in Maps : Fits(Starting("creating", m))
  /\ \A r \in Reduces : Fits(Starting("opening", r))
  /\ \A at \in {"asking", "exited", "crashed"} : Fits(Stopped(at))
BY JobAssumption DEF Fits, Starting, Stopped, Workers, Steps, Maps, Reduces

\* One worker becomes what fits, the others stay what they are.
LEMMA Becomes ==
  ASSUME TypeInv, NEW w \in Worker, NEW x, Fits(x), worker' = [worker EXCEPT ![w] = x]
  PROVE  /\ worker' \in [Worker -> Workers] /\ worker'[w] = x
         /\ \A v \in Worker : v # w => worker'[v] = worker[v]
         /\ \A v \in Worker : Fits(worker[v]')
<1>1. worker \in [Worker -> Workers] /\ x \in Workers
  BY DEF TypeInv, TypeOK, Fits
<1>2. /\ worker' \in [Worker -> Workers] /\ worker'[w] = x
      /\ \A v \in Worker : v # w => worker'[v] = worker[v]
  BY <1>1
<1> QED BY <1>2 DEF TypeInv

\* The types of worker w, where it is.
LEMMA AtWork ==
  ASSUME TypeInv, NEW w \in Worker
  PROVE  /\ Fits(worker[w]) /\ worker[w].at \in Steps /\ worker[w].next \in Nat
         /\ worker[w].read \subseteq Maps \X Records /\ worker[w].task \in Nat
         /\ AtMap(w) => worker[w].task \in Maps
         /\ AtReduce(w) => worker[w].task \in Reduces
BY DEF TypeInv, Fits, Workers, AtMap, AtReduce

\* A worker goes on with its step, or is through with it.
LEMMA AdvanceFits ==
  ASSUME NEW x, Fits(x), NEW last \in Nat, NEW there \in Steps,
         NEW read \in SUBSET (Maps \X Records),
         \/ x.at = "creating" /\ last = NReduce /\ there = "writing" /\ 0 < NRecord
         \/ x.at = "creating" /\ last = NReduce /\ there = "reportMap"
         \/ x.at = "writing" /\ last = NRecord /\ there = "reportMap"
         \/ x.at = "reading" /\ last = NMap /\ there = "printing"
  PROVE  Fits(IF x.next + 1 < last THEN [x EXCEPT !.next = x.next + 1, !.read = read]
              ELSE [x EXCEPT !.at = there, !.next = 0, !.read = read])
<1> DEFINE on == [x EXCEPT !.next = x.next + 1, !.read = read]
           over == [x EXCEPT !.at = there, !.next = 0, !.read = read]
<1>1. x \in Workers /\ x.next \in Nat /\ x.next + 1 \in Nat
  <2>1. x \in Workers
    BY DEF Fits
  <2>2. x.next \in Nat
    BY <2>1 DEF Workers
  <2> QED BY <2>1, <2>2
<1>2. /\ on \in Workers /\ over \in Workers
      /\ on.at = x.at /\ on.task = x.task /\ on.next = x.next + 1
      /\ over.at = there /\ over.task = x.task /\ over.next = 0
  BY <1>1 DEF Workers
<1> HIDE DEF on, over
<1>3. x.next + 1 < last => Fits(on)
  BY <1>1, <1>2 DEF Fits
<1>4. Fits(over)
  BY <1>1, <1>2 DEF Fits
<1> QED BY <1>3, <1>4 DEF on, over

\* What is left to show of TypeInv when the workers are right.
CoordTypes ==
  /\ mapTasks \in [Maps -> TaskStates] /\ reduceTasks \in [Reduces -> TaskStates]
  /\ mapDone \in Nat /\ reduceDone \in Nat
  /\ overdue \subseteq
       ({"map"} \X {m \in Maps : mapTasks[m] = "Running"})
       \cup ({"reduce"} \X {r \in Reduces : reduceTasks[r] = "Running"})
FileTypes ==
  /\ intermediate \in [Maps -> [Reduces -> SUBSET Records]]
  /\ output \in [Reduces -> SUBSET (Maps \X Records)]

LEMMA TypesOf == TypeInv => CoordTypes /\ FileTypes
BY DEF TypeInv, TypeOK, CoordTypes, FileTypes

LEMMA TypesFrom ==
  ASSUME CoordTypes', FileTypes', worker' \in [Worker -> Workers],
         \A v \in Worker : Fits(worker[v]')
  PROVE  TypeInv'
<1>1. \A v \in Worker : (AtMap(v) => worker[v].task \in Maps)'
                        /\ (AtReduce(v) => worker[v].task \in Reduces)'
  BY DEF Fits, AtMap, AtReduce
<1> QED BY <1>1 DEF TypeInv, TypeOK, CoordTypes, FileTypes

\* The coordinator hands out a task that is available, and hears of its end.
LEMMA HandOutTypes ==
  ASSUME TypeInv, NEW w \in Worker, GetTask(w)
  PROVE  TypeInv'
<1> USE TypesOf
<1>1. ASSUME NEW m \in Maps, GetMapTask(w, m) PROVE TypeInv'
  <2>1. worker' = [worker EXCEPT ![w] = Starting("creating", m)]
    BY <1>1 DEF GetMapTask
  <2>2. CoordTypes' /\ FileTypes'
    BY <1>1 DEF GetMapTask, CoordTypes, FileTypes, TaskStates
  <2> QED BY <2>1, <2>2, StartingFits, Becomes, TypesFrom
<1>2. ASSUME NEW r \in Reduces, GetReduceTask(w, r) PROVE TypeInv'
  <2>1. worker' = [worker EXCEPT ![w] = Starting("opening", r)]
    BY <1>2 DEF GetReduceTask
  <2>2. CoordTypes' /\ FileTypes'
    BY <1>2 DEF GetReduceTask, CoordTypes, FileTypes, TaskStates
  <2> QED BY <2>1, <2>2, StartingFits, Becomes, TypesFrom
<1>3. ASSUME GetDone(w) PROVE TypeInv'
  <2>1. worker' = [worker EXCEPT ![w] = Stopped("exited")]
    BY <1>3 DEF GetDone
  <2>2. CoordTypes' /\ FileTypes'
    BY <1>3 DEF GetDone, coordinator, CoordTypes, FileTypes
  <2> QED BY <2>1, <2>2, StartingFits, Becomes, TypesFrom
<1> QED BY <1>1, <1>2, <1>3 DEF GetTask

LEMMA ReportTypes ==
  ASSUME TypeInv, NEW w \in Worker, ReportMap(w) \/ ReportReduce(w)
  PROVE  TypeInv'
<1>1. worker' = [worker EXCEPT ![w] = Stopped("asking")]
  BY DEF ReportMap, ReportReduce
<1>2. FileTypes'
  BY TypesOf DEF ReportMap, ReportReduce, FileTypes
<1>3. CoordTypes'
  <2>1. CASE ReportMap(w)
    <3>1. worker[w].task \in Maps
      BY <2>1, AtWork DEF ReportMap, AtMap
    <3> QED BY <2>1, <3>1, TypesOf DEF ReportMap, CoordTypes, TaskStates
  <2>2. CASE ReportReduce(w)
    <3>1. worker[w].task \in Reduces
      BY <2>2, AtWork DEF ReportReduce, AtReduce
    <3> QED BY <2>2, <3>1, TypesOf DEF ReportReduce, CoordTypes, TaskStates
  <2> QED BY <2>1, <2>2
<1> QED BY <1>1, <1>2, <1>3, StartingFits, Becomes, TypesFrom

\* A worker's steps.
LEMMA MapWorkTypes ==
  ASSUME TypeInv, NEW w \in Worker, CreateFile(w) \/ Encode(w)
  PROVE  TypeInv'
<1> DEFINE x == worker[w]
<1>1. CoordTypes' /\ output' \in [Reduces -> SUBSET (Maps \X Records)]
  BY TypesOf DEF CreateFile, Encode, coordinator, CoordTypes, FileTypes
<1>2. Fits(x) /\ x.task \in Maps /\ x.next \in Nat
  BY AtWork DEF CreateFile, Encode, AtMap
<1>3. NReduce \in Nat /\ NRecord \in Nat /\ {} \subseteq Maps \X Records
      /\ (NRecord # 0 => 0 < NRecord) /\ "writing" \in Steps /\ "reportMap" \in Steps
  BY JobAssumption DEF Steps
<1>4. CASE CreateFile(w)
  <2> DEFINE there == IF NRecord = 0 THEN "reportMap" ELSE "writing"
             y == IF x.next + 1 < NReduce THEN [x EXCEPT !.next = x.next + 1, !.read = {}]
                  ELSE [x EXCEPT !.at = there, !.next = 0, !.read = {}]
  <2>1. Fits(y)
    BY <1>2, <1>3, <1>4, AdvanceFits DEF CreateFile
  <2>2. worker' = [worker EXCEPT ![w] = y]
    BY <1>4 DEF CreateFile, Advance
  <2>3. intermediate' \in [Maps -> [Reduces -> SUBSET Records]]
    <3>1. x.next \in Reduces
      BY <1>2, <1>4, JobAssumption DEF CreateFile, Fits, Reduces
    <3> QED BY <1>2, <1>4, <3>1, TypesOf DEF CreateFile, FileTypes
  <2> HIDE DEF y
  <2> QED BY <1>1, <2>1, <2>2, <2>3, Becomes, TypesFrom DEF FileTypes
<1>5. CASE Encode(w)
  <2> DEFINE y == IF x.next + 1 < NRecord THEN [x EXCEPT !.next = x.next + 1, !.read = {}]
                  ELSE [x EXCEPT !.at = "reportMap", !.next = 0, !.read = {}]
  <2>1. Fits(y)
    BY <1>2, <1>3, <1>5, AdvanceFits DEF Encode
  <2>2. worker' = [worker EXCEPT ![w] = y]
    BY <1>5 DEF Encode, Advance
  <2>3. intermediate' \in [Maps -> [Reduces -> SUBSET Records]]
    <3>1. x.next + 1 \in Records /\ Bucket(x.next + 1) \in Reduces
      BY <1>2, <1>3, <1>5, BucketType DEF Encode, Fits, Records
    <3> QED BY <1>2, <1>5, <3>1, TypesOf DEF Encode, FileTypes
  <2> HIDE DEF y
  <2> QED BY <1>1, <2>1, <2>2, <2>3, Becomes, TypesFrom DEF FileTypes
<1> QED BY <1>4, <1>5

\* The decoder returns records that are in the file.
LEMMA DecodedType ==
  ASSUME TypeInv, NEW m \in Maps, NEW r \in Reduces
  PROVE  {<<m, n>> : n \in Decoded(intermediate[m][r], r)} \subseteq Maps \X Records
BY TypesOf DEF FileTypes, Decoded

LEMMA ReduceWorkTypes ==
  ASSUME TypeInv, NEW w \in Worker, OpenOutput(w) \/ ReadFile(w) \/ PrintOutput(w)
  PROVE  TypeInv'
<1> DEFINE x == worker[w]
<1>1. CoordTypes' /\ intermediate' \in [Maps -> [Reduces -> SUBSET Records]]
  BY TypesOf DEF OpenOutput, ReadFile, PrintOutput, coordinator, CoordTypes, FileTypes
<1>2. /\ Fits(x) /\ x \in Workers /\ x.task \in Reduces /\ x.next \in Nat
      /\ x.read \subseteq Maps \X Records
  BY AtWork DEF OpenOutput, ReadFile, PrintOutput, AtReduce, Fits
<1>3. CASE OpenOutput(w)
  <2>1. worker' = [worker EXCEPT ![w] = [x EXCEPT !.at = "reading"]]
    BY <1>3 DEF OpenOutput
  <2>2. Fits([x EXCEPT !.at = "reading"])
    BY <1>2, <1>3, JobAssumption DEF OpenOutput, Fits, Workers, Steps
  <2>3. output' \in [Reduces -> SUBSET (Maps \X Records)]
    BY <1>2, <1>3, TypesOf DEF OpenOutput, FileTypes
  <2> QED BY <1>1, <2>1, <2>2, <2>3, Becomes, TypesFrom DEF FileTypes
<1>4. CASE ReadFile(w)
  <2> DEFINE r == x.task
             m == x.next
             read == x.read \cup {<<m, n>> : n \in Decoded(intermediate[m][r], r)}
             y == IF x.next + 1 < NMap THEN [x EXCEPT !.next = x.next + 1, !.read = read]
                  ELSE [x EXCEPT !.at = "printing", !.next = 0, !.read = read]
  <2>1. m \in Maps
    BY <1>2, <1>4, JobAssumption DEF ReadFile, Fits, Maps
  <2>2. read \subseteq Maps \X Records
    BY <1>2, <2>1, DecodedType
  <2>3. worker' = [worker EXCEPT ![w] = y] /\ x.at = "reading" /\ output' = output
    BY <1>4 DEF ReadFile, Advance
  <2> HIDE DEF read
  <2>4. Fits(y)
    BY <1>2, <2>2, <2>3, AdvanceFits, JobAssumption DEF Steps
  <2> HIDE DEF y
  <2> QED BY <1>1, <2>3, <2>4, Becomes, TypesFrom, TypesOf DEF FileTypes
<1>5. CASE PrintOutput(w)
  <2>1. worker' = [worker EXCEPT ![w] = [x EXCEPT !.at = "reportReduce"]]
    BY <1>5 DEF PrintOutput
  <2>2. Fits([x EXCEPT !.at = "reportReduce"])
    BY <1>2, <1>5 DEF PrintOutput, Fits, Workers, Steps
  <2>3. output' \in [Reduces -> SUBSET (Maps \X Records)]
    BY <1>2, <1>5, TypesOf DEF PrintOutput, FileTypes
  <2> QED BY <1>1, <2>1, <2>2, <2>3, Becomes, TypesFrom DEF FileTypes
<1> QED BY <1>3, <1>4, <1>5

\* A worker crashes; ten seconds go by.
LEMMA CrashTypes ==
  ASSUME TypeInv, NEW w \in Worker, Crash(w)
  PROVE  TypeInv'
<1>1. worker' = [worker EXCEPT ![w] = Stopped("crashed")]
  BY DEF Crash
<1>2. CoordTypes' /\ FileTypes'
  BY TypesOf DEF Crash, coordinator, CoordTypes, FileTypes
<1> QED BY <1>1, <1>2, StartingFits, Becomes, TypesFrom

LEMMA ExpiryTypes ==
  ASSUME TypeInv, Expiry
  PROVE  TypeInv'
<1>1. CoordTypes'
  <2>1. ASSUME NEW m \in Maps, Expire("map", m) PROVE CoordTypes'
    BY <2>1, TypesOf DEF Expire, CoordTypes
  <2>2. ASSUME NEW r \in Reduces, Expire("reduce", r) PROVE CoordTypes'
    BY <2>2, TypesOf DEF Expire, CoordTypes
  <2> QED BY <2>1, <2>2 DEF Expiry
<1>2. FileTypes' /\ UNCHANGED worker
  BY TypesOf DEF Expiry, Expire, FileTypes
<1> QED BY <1>1, <1>2, TypesFrom DEF TypeInv, TypeOK

LEMMA TypesInit == Init => TypeInv
<1> SUFFICES ASSUME Init PROVE TypeInv
  OBVIOUS
<1>1. worker \in [Worker -> Workers] /\ \A w \in Worker : worker[w] = Stopped("asking")
  BY StartingFits DEF Init, Fits
<1>2. \A w \in Worker : Fits(worker[w])
  BY <1>1, StartingFits
<1>3. \A w \in Worker : ~AtMap(w) /\ ~AtReduce(w)
  BY <1>1 DEF AtMap, AtReduce, Stopped, Starting
<1> QED BY <1>1, <1>2, <1>3 DEF TypeInv, TypeOK, Init, TaskStates

LEMMA TypesStep == TypeInv /\ [Next]_vars => TypeInv'
<1> SUFFICES ASSUME TypeInv, [Next]_vars PROVE TypeInv'
  OBVIOUS
<1>1. ASSUME NEW w \in Worker, GetTask(w) \/ Work(w) \/ Crash(w) PROVE TypeInv'
  BY <1>1, HandOutTypes, ReportTypes, MapWorkTypes, ReduceWorkTypes, CrashTypes DEF Work
<1>2. CASE Expiry
  BY <1>2, ExpiryTypes
<1>3. CASE UNCHANGED vars
  <2>1. CoordTypes' /\ FileTypes' /\ UNCHANGED worker
    BY <1>3, TypesOf DEF vars, coordinator, CoordTypes, FileTypes
  <2> QED BY <2>1, TypesFrom DEF TypeInv, TypeOK
<1> QED BY <1>1, <1>2, <1>3 DEF Next

LEMMA TypesHold == Spec => []TypeInv
BY TypesInit, TypesStep, PTL DEF Spec

\* The variables keep their types however slow the workers are: a worker is at
\* work on a task of the phase it is in, and only tasks that are out are overdue
\* (coordinator.go:36-98, worker.go:53-121).
THEOREM MapReduceTypes == Spec => []TypeOK
BY TypesHold, PTL DEF TypeInv

-----------------------------------------------------------------------------
(* The invariant of a job whose workers are never slow.                    *)

\* A task that a worker is at is out, and not overdue; no two are at one task.
MapsHandedOut ==
  /\ \A w \in Worker : AtMap(w) =>
       mapTasks[worker[w].task] = "Running" /\ <<"map", worker[w].task>> \notin overdue
  /\ \A v, w \in Worker : AtMap(v) /\ AtMap(w) /\ worker[v].task = worker[w].task => v = w

ReducesHandedOut ==
  /\ \A w \in Worker : AtReduce(w) =>
       reduceTasks[worker[w].task] = "Running" /\ <<"reduce", worker[w].task>> \notin overdue
  /\ \A v, w \in Worker : AtReduce(v) /\ AtReduce(w) /\ worker[v].task = worker[w].task => v = w

\* How far the map task of a worker x has come, file by file and record by
\* record.
MapWork(x) ==
  LET file == intermediate[x.task] IN
  /\ x.at = "creating" => \A r \in Reduces : r < x.next => file[r] = {}
  /\ x.at = "writing" => \A r \in Reduces : file[r] = {n \in Emitted(r) : n <= x.next}
  /\ x.at = "reportMap" => \A r \in Reduces : file[r] = Emitted(r)

\* And its reduce task, which begins after the last map task.
ReduceWork(x) ==
  /\ x.at \in {"opening", "reading", "printing", "reportReduce"} => mapDone = NMap
  /\ x.at = "opening" => x.read = {}
  /\ x.at = "reading" => x.read = {m \in Maps : m < x.next} \X Emitted(x.task)
  /\ x.at = "printing" => x.read = Maps \X Emitted(x.task)
  /\ x.at = "reportReduce" => output[x.task] = Maps \X Emitted(x.task)

\* What is finished is complete.
Complete ==
  /\ \A m \in Maps : mapTasks[m] = "Finished" =>
       \A r \in Reduces : intermediate[m][r] = Emitted(r)
  /\ \A r \in Reduces : reduceTasks[r] = "Finished" => output[r] = Maps \X Emitted(r)

JobInv ==
  /\ TypeInv /\ CountsReports /\ Complete /\ MapsHandedOut /\ ReducesHandedOut
  /\ \A w \in Worker : MapWork(worker[w]) /\ ReduceWork(worker[w])

-----------------------------------------------------------------------------
(* Counting.                                                               *)

LEMMA TasksAreCounted ==
  /\ IsFiniteSet(Maps) /\ Cardinality(Maps) = NMap
  /\ IsFiniteSet(Reduces) /\ Cardinality(Reduces) = NReduce
<1>1. \A n \in Nat \ {0} : IsFiniteSet(0 .. n - 1) /\ Cardinality(0 .. n - 1) = n
  <2> TAKE n \in Nat \ {0}
  <2>1. 0 \in Int /\ n - 1 \in Int /\ (n - 1) - 0 + 1 = n /\ 0 <= n - 1
    OBVIOUS
  <2> QED BY <2>1, FS_Interval
<1> QED BY <1>1, JobAssumption DEF Maps, Reduces

\* A task that is handed out leaves the count as it is; its first report adds
\* one to it.
LEMMA HandedOutCounts ==
  ASSUME NEW S, NEW tasks \in [S -> TaskStates], NEW t \in S, tasks[t] # "Finished"
  PROVE  Finished([tasks EXCEPT ![t] = "Running"]) = Finished(tasks)
BY DEF Finished

LEMMA ReportCounts ==
  ASSUME NEW S, IsFiniteSet(S), NEW tasks \in [S -> TaskStates], NEW t \in S,
         tasks[t] # "Finished"
  PROVE  Cardinality(Finished([tasks EXCEPT ![t] = "Finished"]))
           = Cardinality(Finished(tasks)) + 1
<1>1. Finished([tasks EXCEPT ![t] = "Finished"]) = Finished(tasks) \cup {t}
  BY DEF Finished
<1>2. IsFiniteSet(Finished(tasks)) /\ t \notin Finished(tasks)
  BY FS_Subset DEF Finished
<1> QED BY <1>1, <1>2, FS_AddElement

\* When as many tasks are finished as there are, all are.
LEMMA CountIsAll ==
  ASSUME NEW S, IsFiniteSet(S), NEW tasks \in [S -> TaskStates],
         Cardinality(Finished(tasks)) = Cardinality(S)
  PROVE  \A t \in S : tasks[t] = "Finished"
<1>1. Finished(tasks) \subseteq S
  BY DEF Finished
<1>2. Finished(tasks) = S
  BY <1>1, FS_Subset
<1> QED BY <1>2 DEF Finished

\* After the map phase every file is complete and no worker is at a map task.
LEMMA MapsAreDone ==
  ASSUME JobInv, mapDone = NMap
  PROVE  /\ \A m \in Maps : mapTasks[m] = "Finished"
         /\ \A m \in Maps, r \in Reduces : intermediate[m][r] = Emitted(r)
         /\ \A w \in Worker : ~AtMap(w)
<1>1. mapTasks \in [Maps -> TaskStates]
  BY TypesOf DEF JobInv, CoordTypes
<1>2. \A m \in Maps : mapTasks[m] = "Finished"
  BY <1>1, TasksAreCounted, CountIsAll DEF JobInv, CountsReports
<1>3. \A w \in Worker : AtMap(w) => worker[w].task \in Maps /\ mapTasks[worker[w].task] = "Running"
  BY AtWork DEF JobInv, MapsHandedOut
<1> QED BY <1>2, <1>3 DEF JobInv, Complete

LEMMA ReducesAreDone ==
  ASSUME JobInv, reduceDone = NReduce
  PROVE  \A r \in Reduces : output[r] = Maps \X Emitted(r)
<1>1. reduceTasks \in [Reduces -> TaskStates]
  BY TypesOf DEF JobInv, CoordTypes
<1>2. \A r \in Reduces : reduceTasks[r] = "Finished"
  BY <1>1, TasksAreCounted, CountIsAll DEF JobInv, CountsReports
<1> QED BY <1>2 DEF JobInv, Complete

-----------------------------------------------------------------------------
(* The steps preserve it.                                                  *)

\* Who becomes x is at a map task, or at a reduce task, when x says so.
LEMMA Places ==
  ASSUME JobInv, NEW w \in Worker, NEW x, Fits(x), worker' = [worker EXCEPT ![w] = x]
  PROVE  /\ worker'[w] = x /\ \A v \in Worker : v # w => worker'[v] = worker[v]
         /\ AtMap(w)' <=> x.at \in {"creating", "writing", "reportMap"}
         /\ AtReduce(w)' <=> x.at \in {"opening", "reading", "printing", "reportReduce"}
         /\ \A v \in Worker : v # w => (AtMap(v)' <=> AtMap(v)) /\ (AtReduce(v)' <=> AtReduce(v))
BY Becomes DEF JobInv, AtMap, AtReduce

\* A map task is handed out only if nobody is at it.
LEMMA GetMapTaskKeeps ==
  ASSUME JobInv, TypeInv', NEW w \in Worker, NEW m \in Maps, GetMapTask(w, m)
  PROVE  JobInv'
<1> DEFINE x == Starting("creating", m)
<1>1. /\ worker' = [worker EXCEPT ![w] = x] /\ Fits(x)
      /\ mapTasks' = [mapTasks EXCEPT ![m] = "Running"] /\ overdue' = overdue \ {<<"map", m>>}
      /\ UNCHANGED <<reduceTasks, mapDone, reduceDone, intermediate, output>>
  BY StartingFits DEF GetMapTask
<1>2. x.at = "creating" /\ x.task = m /\ x.next = 0
  BY DEF Starting
<1>3. /\ worker'[w] = x /\ \A v \in Worker : v # w => worker'[v] = worker[v]
      /\ AtMap(w)' /\ ~AtReduce(w)'
      /\ \A v \in Worker : v # w => (AtMap(v)' <=> AtMap(v)) /\ (AtReduce(v)' <=> AtReduce(v))
  BY <1>1, <1>2, Places
<1> HIDE DEF x
<1>4. mapTasks \in [Maps -> TaskStates] /\ mapTasks[m] # "Finished"
  BY TypesOf DEF JobInv, CoordTypes, GetMapTask, Available
<1>5. \A v \in Worker : AtMap(v) => worker[v].task # m
  BY DEF JobInv, MapsHandedOut, GetMapTask, Available
<1>6. CountsReports'
  BY <1>1, <1>4, HandedOutCounts DEF JobInv, CountsReports
<1>7. Complete'
  BY <1>1, <1>4 DEF JobInv, Complete
<1>8. MapsHandedOut'
  <2>1. \A v \in Worker : v # w /\ AtMap(v)' =>
          /\ worker'[v].task # m /\ worker'[v].task \in Maps
          /\ mapTasks'[worker'[v].task] = "Running" /\ <<"map", worker'[v].task>> \notin overdue'
    BY <1>1, <1>3, <1>4, <1>5, AtWork DEF JobInv, MapsHandedOut
  <2>2. worker'[w].task = m /\ mapTasks'[m] = "Running" /\ <<"map", m>> \notin overdue'
    BY <1>1, <1>2, <1>3, <1>4
  <2>3. \A v, u \in Worker : v # w /\ u # w /\ AtMap(v)' /\ AtMap(u)'
          /\ worker'[v].task = worker'[u].task => v = u
    BY <1>3 DEF JobInv, MapsHandedOut
  <2> QED BY <2>1, <2>2, <2>3 DEF MapsHandedOut
<1>9. ReducesHandedOut'
  BY <1>1, <1>3 DEF JobInv, ReducesHandedOut
<1>10. \A v \in Worker : MapWork(worker[v])' /\ ReduceWork(worker[v])'
  <2>1. MapWork(worker[w])' /\ ReduceWork(worker[w])'
    BY <1>2, <1>3 DEF MapWork, ReduceWork, Reduces
  <2>2. ASSUME NEW v \in Worker, v # w PROVE MapWork(worker[v])' /\ ReduceWork(worker[v])'
    BY <1>1, <1>3, <2>2 DEF JobInv, MapWork, ReduceWork
  <2> QED BY <2>1, <2>2
<1> QED BY <1>6, <1>7, <1>8, <1>9, <1>10 DEF JobInv

LEMMA GetReduceTaskKeeps ==
  ASSUME JobInv, TypeInv', NEW w \in Worker, NEW r \in Reduces, GetReduceTask(w, r)
  PROVE  JobInv'
<1> DEFINE x == Starting("opening", r)
<1>1. /\ worker' = [worker EXCEPT ![w] = x] /\ Fits(x) /\ mapDone = NMap
      /\ reduceTasks' = [reduceTasks EXCEPT ![r] = "Running"]
      /\ overdue' = overdue \ {<<"reduce", r>>}
      /\ UNCHANGED <<mapTasks, mapDone, reduceDone, intermediate, output>>
  BY StartingFits DEF GetReduceTask, ReducePhase, MapPhase
<1>2. x.at = "opening" /\ x.task = r /\ x.next = 0 /\ x.read = {}
  BY DEF Starting
<1>3. /\ worker'[w] = x /\ \A v \in Worker : v # w => worker'[v] = worker[v]
      /\ ~AtMap(w)' /\ AtReduce(w)'
      /\ \A v \in Worker : v # w => (AtMap(v)' <=> AtMap(v)) /\ (AtReduce(v)' <=> AtReduce(v))
  BY <1>1, <1>2, Places
<1> HIDE DEF x
<1>4. reduceTasks \in [Reduces -> TaskStates] /\ reduceTasks[r] # "Finished"
  BY TypesOf DEF JobInv, CoordTypes, GetReduceTask, Available
<1>5. \A v \in Worker : AtReduce(v) => worker[v].task # r
  BY DEF JobInv, ReducesHandedOut, GetReduceTask, Available
<1>6. CountsReports'
  BY <1>1, <1>4, HandedOutCounts DEF JobInv, CountsReports
<1>7. Complete'
  BY <1>1, <1>4 DEF JobInv, Complete
<1>8. ReducesHandedOut'
  <2>1. \A v \in Worker : v # w /\ AtReduce(v)' =>
          /\ worker'[v].task # r /\ worker'[v].task \in Reduces
          /\ reduceTasks'[worker'[v].task] = "Running"
          /\ <<"reduce", worker'[v].task>> \notin overdue'
    BY <1>1, <1>3, <1>4, <1>5, AtWork DEF JobInv, ReducesHandedOut
  <2>2. worker'[w].task = r /\ reduceTasks'[r] = "Running" /\ <<"reduce", r>> \notin overdue'
    BY <1>1, <1>2, <1>3, <1>4
  <2>3. \A v, u \in Worker : v # w /\ u # w /\ AtReduce(v)' /\ AtReduce(u)'
          /\ worker'[v].task = worker'[u].task => v = u
    BY <1>3 DEF JobInv, ReducesHandedOut
  <2> QED BY <2>1, <2>2, <2>3 DEF ReducesHandedOut
<1>9. MapsHandedOut'
  BY <1>1, <1>3 DEF JobInv, MapsHandedOut
<1>10. \A v \in Worker : MapWork(worker[v])' /\ ReduceWork(worker[v])'
  <2>1. MapWork(worker[w])' /\ ReduceWork(worker[w])'
    BY <1>1, <1>2, <1>3 DEF MapWork, ReduceWork
  <2>2. ASSUME NEW v \in Worker, v # w PROVE MapWork(worker[v])' /\ ReduceWork(worker[v])'
    BY <1>1, <1>3, <2>2 DEF JobInv, MapWork, ReduceWork
  <2> QED BY <2>1, <2>2
<1> QED BY <1>6, <1>7, <1>8, <1>9, <1>10 DEF JobInv

\* A worker that stops is at no task any more.
LEMMA StopKeeps ==
  ASSUME JobInv, TypeInv', NEW w \in Worker, NEW at \in {"exited", "crashed"},
         worker' = [worker EXCEPT ![w] = Stopped(at)],
         UNCHANGED <<coordinator, intermediate, output>>
  PROVE  JobInv'
<1> DEFINE x == Stopped(at)
<1>1. Fits(x) /\ x.at \in {"exited", "crashed"}
  BY StartingFits DEF Stopped, Starting
<1>2. /\ worker'[w] = x /\ \A v \in Worker : v # w => worker'[v] = worker[v]
      /\ ~AtMap(w)' /\ ~AtReduce(w)'
      /\ \A v \in Worker : v # w => (AtMap(v)' <=> AtMap(v)) /\ (AtReduce(v)' <=> AtReduce(v))
  BY <1>1, Places
<1> HIDE DEF x
<1>3. UNCHANGED <<mapTasks, reduceTasks, mapDone, reduceDone, overdue, intermediate, output>>
  BY DEF coordinator
<1>4. CountsReports' /\ Complete'
  BY <1>3 DEF JobInv, CountsReports, Complete
<1>5. MapsHandedOut' /\ ReducesHandedOut'
  BY <1>2, <1>3 DEF JobInv, MapsHandedOut, ReducesHandedOut
<1>6. \A v \in Worker : MapWork(worker[v])' /\ ReduceWork(worker[v])'
  <2>1. MapWork(worker[w])' /\ ReduceWork(worker[w])'
    BY <1>1, <1>2 DEF MapWork, ReduceWork
  <2>2. ASSUME NEW v \in Worker, v # w PROVE MapWork(worker[v])' /\ ReduceWork(worker[v])'
    BY <1>2, <1>3, <2>2 DEF JobInv, MapWork, ReduceWork
  <2> QED BY <2>1, <2>2
<1> QED BY <1>4, <1>5, <1>6 DEF JobInv

\* The report of a map task ends its work; before it nobody reduces yet.
LEMMA ReportMapKeeps ==
  ASSUME JobInv, TypeInv', NEW w \in Worker, ReportMap(w)
  PROVE  JobInv'
<1> DEFINE x == Stopped("asking")
<1>1. PICK t : t = worker[w].task
  OBVIOUS
<1>2. Fits(x) /\ x.at = "asking"
  BY StartingFits DEF Stopped, Starting
<1>3. /\ worker' = [worker EXCEPT ![w] = x] /\ mapDone' = mapDone + 1
      /\ mapTasks' = [mapTasks EXCEPT ![t] = "Finished"] /\ overdue' = overdue \ {<<"map", t>>}
      /\ UNCHANGED <<reduceTasks, reduceDone, intermediate, output>>
  BY <1>1 DEF ReportMap
<1>4. /\ worker'[w] = x /\ \A v \in Worker : v # w => worker'[v] = worker[v]
      /\ ~AtMap(w)' /\ ~AtReduce(w)'
      /\ \A v \in Worker : v # w => (AtMap(v)' <=> AtMap(v)) /\ (AtReduce(v)' <=> AtReduce(v))
  BY <1>2, <1>3, Places
<1> HIDE DEF x
<1>5. /\ AtMap(w) /\ t \in Maps /\ mapTasks \in [Maps -> TaskStates] /\ mapTasks[t] = "Running"
      /\ \A r \in Reduces : intermediate[t][r] = Emitted(r)
  <2>1. AtMap(w) /\ t \in Maps /\ mapTasks \in [Maps -> TaskStates]
    BY <1>1, AtWork, TypesOf DEF JobInv, ReportMap, AtMap, CoordTypes
  <2> QED BY <1>1, <2>1 DEF JobInv, MapsHandedOut, MapWork, ReportMap
<1>6. \A v \in Worker : ~AtReduce(v)
  <2>1. mapDone # NMap
    BY <1>5, MapsAreDone
  <2> QED BY <2>1 DEF JobInv, ReduceWork, AtReduce
<1>7. \A v \in Worker : v # w /\ AtMap(v) => worker[v].task # t
  BY <1>1, <1>5 DEF JobInv, MapsHandedOut
<1>8. CountsReports'
  BY <1>3, <1>5, TasksAreCounted, ReportCounts DEF JobInv, CountsReports
<1>9. Complete'
  BY <1>3, <1>5 DEF JobInv, Complete
<1>10. MapsHandedOut'
  <2>1. \A v \in Worker : AtMap(v)' =>
          /\ v # w /\ AtMap(v) /\ worker'[v] = worker[v] /\ worker[v].task # t
          /\ mapTasks'[worker[v].task] = "Running" /\ <<"map", worker[v].task>> \notin overdue'
    BY <1>3, <1>4, <1>5, <1>7, AtWork DEF JobInv, MapsHandedOut
  <2> QED BY <2>1 DEF JobInv, MapsHandedOut
<1>11. ReducesHandedOut'
  BY <1>4, <1>6 DEF ReducesHandedOut
<1>12. \A v \in Worker : MapWork(worker[v])' /\ ReduceWork(worker[v])'
  <2>1. MapWork(worker[w])' /\ ReduceWork(worker[w])'
    BY <1>2, <1>4 DEF MapWork, ReduceWork
  <2>2. ASSUME NEW v \in Worker, v # w PROVE MapWork(worker[v])' /\ ReduceWork(worker[v])'
    BY <1>3, <1>4, <1>6, <2>2 DEF JobInv, MapWork, ReduceWork, AtReduce
  <2> QED BY <2>1, <2>2
<1> QED BY <1>8, <1>9, <1>10, <1>11, <1>12 DEF JobInv

LEMMA ReportReduceKeeps ==
  ASSUME JobInv, TypeInv', NEW w \in Worker, ReportReduce(w)
  PROVE  JobInv'
<1> DEFINE x == Stopped("asking")
<1>1. PICK t : t = worker[w].task
  OBVIOUS
<1>2. Fits(x) /\ x.at = "asking"
  BY StartingFits DEF Stopped, Starting
<1>3. /\ worker' = [worker EXCEPT ![w] = x] /\ reduceDone' = reduceDone + 1
      /\ reduceTasks' = [reduceTasks EXCEPT ![t] = "Finished"]
      /\ overdue' = overdue \ {<<"reduce", t>>}
      /\ UNCHANGED <<mapTasks, mapDone, intermediate, output>>
  BY <1>1 DEF ReportReduce
<1>4. /\ worker'[w] = x /\ \A v \in Worker : v # w => worker'[v] = worker[v]
      /\ ~AtMap(w)' /\ ~AtReduce(w)'
      /\ \A v \in Worker : v # w => (AtMap(v)' <=> AtMap(v)) /\ (AtReduce(v)' <=> AtReduce(v))
  BY <1>2, <1>3, Places
<1> HIDE DEF x
<1>5. /\ AtReduce(w) /\ t \in Reduces /\ reduceTasks \in [Reduces -> TaskStates]
      /\ reduceTasks[t] = "Running" /\ output[t] = Maps \X Emitted(t)
  <2>1. AtReduce(w) /\ t \in Reduces /\ reduceTasks \in [Reduces -> TaskStates]
    BY <1>1, AtWork, TypesOf DEF JobInv, ReportReduce, AtReduce, CoordTypes
  <2> QED BY <1>1, <2>1 DEF JobInv, ReducesHandedOut, ReduceWork, ReportReduce
<1>6. \A v \in Worker : v # w /\ AtReduce(v) => worker[v].task # t
  BY <1>1, <1>5 DEF JobInv, ReducesHandedOut
<1>7. CountsReports'
  BY <1>3, <1>5, TasksAreCounted, ReportCounts DEF JobInv, CountsReports
<1>8. Complete'
  BY <1>3, <1>5 DEF JobInv, Complete
<1>9. ReducesHandedOut'
  <2>1. \A v \in Worker : AtReduce(v)' =>
          /\ v # w /\ AtReduce(v) /\ worker'[v] = worker[v] /\ worker[v].task # t
          /\ reduceTasks'[worker[v].task] = "Running"
          /\ <<"reduce", worker[v].task>> \notin overdue'
    BY <1>3, <1>4, <1>5, <1>6, AtWork DEF JobInv, ReducesHandedOut
  <2> QED BY <2>1 DEF JobInv, ReducesHandedOut
<1>10. MapsHandedOut'
  BY <1>3, <1>4 DEF JobInv, MapsHandedOut
<1>11. \A v \in Worker : MapWork(worker[v])' /\ ReduceWork(worker[v])'
  <2>1. MapWork(worker[w])' /\ ReduceWork(worker[w])'
    BY <1>2, <1>4 DEF MapWork, ReduceWork
  <2>2. ASSUME NEW v \in Worker, v # w PROVE MapWork(worker[v])' /\ ReduceWork(worker[v])'
    BY <1>3, <1>4, <2>2 DEF JobInv, MapWork, ReduceWork
  <2> QED BY <2>1, <2>2
<1> QED BY <1>7, <1>8, <1>9, <1>10, <1>11 DEF JobInv

\* A worker that goes on with its map task may change the files of this task,
\* which is not finished and nobody else's.
LEMMA MapGoesOn ==
  ASSUME JobInv, TypeInv', NEW w \in Worker, AtMap(w), NEW x, Fits(x),
         x.at \in {"creating", "writing", "reportMap"}, x.task = worker[w].task,
         worker' = [worker EXCEPT ![w] = x], UNCHANGED <<coordinator, output>>,
         \A m \in Maps : m # x.task => intermediate'[m] = intermediate[m],
         MapWork(x)'
  PROVE  JobInv'
<1>1. /\ worker'[w] = x /\ \A v \in Worker : v # w => worker'[v] = worker[v]
      /\ AtMap(w)' /\ ~AtReduce(w)'
      /\ \A v \in Worker : v # w => (AtMap(v)' <=> AtMap(v)) /\ (AtReduce(v)' <=> AtReduce(v))
  BY Places
<1>2. UNCHANGED <<mapTasks, reduceTasks, mapDone, reduceDone, overdue, output>>
  BY DEF coordinator
<1>3. /\ mapTasks[x.task] = "Running" /\ <<"map", x.task>> \notin overdue
      /\ \A v \in Worker : v # w /\ AtMap(v) => worker[v].task # x.task
  BY DEF JobInv, MapsHandedOut
<1>4. CountsReports'
  BY <1>2 DEF JobInv, CountsReports
<1>5. Complete'
  BY <1>2, <1>3 DEF JobInv, Complete
<1>6. MapsHandedOut'
  <2>1. \A v \in Worker : AtMap(v)' => AtMap(v) /\ worker'[v].task = worker[v].task
    BY <1>1
  <2> QED BY <1>2, <2>1 DEF JobInv, MapsHandedOut
<1>7. ReducesHandedOut'
  BY <1>1, <1>2 DEF JobInv, ReducesHandedOut
<1>8. \A v \in Worker : MapWork(worker[v])' /\ ReduceWork(worker[v])'
  <2>1. MapWork(worker[w])' /\ ReduceWork(worker[w])'
    <3>1. MapWork(worker[w])'
      BY <1>1 DEF MapWork
    <3> QED BY <1>1, <3>1 DEF ReduceWork
  <2>2. ASSUME NEW v \in Worker, v # w PROVE MapWork(worker[v])' /\ ReduceWork(worker[v])'
    <3>1. AtMap(v) => worker[v].task \in Maps /\ worker[v].task # x.task
      BY <1>3, <2>2, AtWork DEF JobInv
    <3>2. MapWork(worker[v])'
      BY <1>1, <2>2, <3>1 DEF JobInv, MapWork, AtMap
    <3> QED BY <1>1, <1>2, <2>2, <3>2 DEF JobInv, ReduceWork
  <2> QED BY <2>1, <2>2
<1> QED BY <1>4, <1>5, <1>6, <1>7, <1>8 DEF JobInv

LEMMA ReduceGoesOn ==
  ASSUME JobInv, TypeInv', NEW w \in Worker, AtReduce(w), NEW x, Fits(x),
         x.at \in {"opening", "reading", "printing", "reportReduce"},
         x.task = worker[w].task, worker' = [worker EXCEPT ![w] = x],
         UNCHANGED <<coordinator, intermediate>>,
         \A r \in Reduces : r # x.task => output'[r] = output[r],
         ReduceWork(x)'
  PROVE  JobInv'
<1>1. /\ worker'[w] = x /\ \A v \in Worker : v # w => worker'[v] = worker[v]
      /\ ~AtMap(w)' /\ AtReduce(w)'
      /\ \A v \in Worker : v # w => (AtMap(v)' <=> AtMap(v)) /\ (AtReduce(v)' <=> AtReduce(v))
  BY Places
<1>2. UNCHANGED <<mapTasks, reduceTasks, mapDone, reduceDone, overdue, intermediate>>
  BY DEF coordinator
<1>3. /\ reduceTasks[x.task] = "Running" /\ <<"reduce", x.task>> \notin overdue
      /\ \A v \in Worker : v # w /\ AtReduce(v) => worker[v].task # x.task
  BY DEF JobInv, ReducesHandedOut
<1>4. CountsReports'
  BY <1>2 DEF JobInv, CountsReports
<1>5. Complete'
  BY <1>2, <1>3 DEF JobInv, Complete
<1>6. ReducesHandedOut'
  <2>1. \A v \in Worker : AtReduce(v)' => AtReduce(v) /\ worker'[v].task = worker[v].task
    BY <1>1
  <2> QED BY <1>2, <2>1 DEF JobInv, ReducesHandedOut
<1>7. MapsHandedOut'
  BY <1>1, <1>2 DEF JobInv, MapsHandedOut
<1>8. \A v \in Worker : MapWork(worker[v])' /\ ReduceWork(worker[v])'
  <2>1. MapWork(worker[w])' /\ ReduceWork(worker[w])'
    <3>1. ReduceWork(worker[w])'
      BY <1>1 DEF ReduceWork
    <3> QED BY <1>1, <3>1 DEF MapWork
  <2>2. ASSUME NEW v \in Worker, v # w PROVE MapWork(worker[v])' /\ ReduceWork(worker[v])'
    <3>1. AtReduce(v) => worker[v].task \in Reduces /\ worker[v].task # x.task
      BY <1>3, <2>2, AtWork DEF JobInv
    <3>2. ReduceWork(worker[v])'
      BY <1>1, <1>2, <2>2, <3>1 DEF JobInv, ReduceWork, AtReduce
    <3> QED BY <1>1, <1>2, <2>2, <3>2 DEF JobInv, MapWork
  <2> QED BY <2>1, <2>2
<1> QED BY <1>4, <1>5, <1>6, <1>7, <1>8 DEF JobInv

\* A worker empties its next file.
LEMMA CreateFileKeeps ==
  ASSUME JobInv, TypeInv', NEW w \in Worker, CreateFile(w)
  PROVE  JobInv'
<1>1. PICK x : x = worker[w]
  OBVIOUS
<1>2. PICK there : there = IF NRecord = 0 THEN "reportMap" ELSE "writing"
  OBVIOUS
<1>3. PICK y : y = IF x.next + 1 < NReduce THEN [x EXCEPT !.next = x.next + 1, !.read = {}]
                   ELSE [x EXCEPT !.at = there, !.next = 0, !.read = {}]
  OBVIOUS
<1>4. /\ x.at = "creating" /\ worker' = [worker EXCEPT ![w] = y]
      /\ intermediate' = [intermediate EXCEPT ![x.task][x.next] = {}]
      /\ UNCHANGED <<coordinator, output>>
  BY <1>1, <1>2, <1>3 DEF CreateFile, Advance
<1>5. /\ Fits(x) /\ x \in Workers /\ x.next \in Nat /\ x.task \in Maps /\ x.next < NReduce
      /\ AtMap(w) /\ MapWork(x)
  BY <1>1, <1>4, AtWork DEF JobInv, Fits, AtMap
<1>6. Fits(y)
  <2>1. NReduce \in Nat /\ there \in Steps /\ {} \in SUBSET (Maps \X Records)
    BY <1>2, JobAssumption DEF Steps
  <2>2. (there = "writing" /\ 0 < NRecord) \/ there = "reportMap"
    BY <1>2, JobAssumption
  <2> QED BY <1>3, <1>4, <1>5, <2>1, <2>2, AdvanceFits
<1>7. /\ y.task = x.task /\ y.at \in {"creating", there}
      /\ y.at = "creating" => y.next = x.next + 1 /\ x.next + 1 < NReduce
      /\ y.at = there => y.next = 0 /\ ~(x.next + 1 < NReduce)
  BY <1>2, <1>3, <1>4, <1>5 DEF Workers
<1>8. /\ intermediate \in [Maps -> [Reduces -> SUBSET Records]]
      /\ x.next \in Reduces /\ \A r \in Reduces : r \in Nat /\ r < NReduce
  BY <1>5, TypesOf, JobAssumption DEF JobInv, FileTypes, Reduces
<1>9. /\ \A m \in Maps : m # x.task => intermediate'[m] = intermediate[m]
      /\ \A r \in Reduces : r <= x.next => intermediate'[x.task][r] = {}
  <2>1. \A r \in Reduces : r < x.next => intermediate[x.task][r] = {}
    BY <1>4, <1>5 DEF MapWork
  <2> QED BY <1>4, <1>5, <1>8, <2>1
<1>10. NRecord = 0 => \A r : Emitted(r) = {}
  BY DEF Emitted, Records
<1>11. \A r : {n \in Emitted(r) : n <= 0} = {}
  BY JobAssumption DEF Emitted, Records
<1>12. MapWork(y)'
  <2>1. CASE x.next + 1 < NReduce
    <3>1. y.at = "creating" /\ y.next = x.next + 1
      BY <1>3, <1>4, <1>5, <2>1 DEF Workers
    <3> QED BY <1>5, <1>7, <1>8, <1>9, <3>1 DEF MapWork
  <2>2. CASE ~(x.next + 1 < NReduce)
    <3>1. y.at = there /\ y.next = 0
      BY <1>3, <1>5, <2>2 DEF Workers
    <3>2. \A r \in Reduces : intermediate'[x.task][r] = {}
      BY <1>5, <1>8, <1>9, <2>2, JobAssumption
    <3> QED BY <1>2, <1>7, <1>10, <1>11, <3>1, <3>2 DEF MapWork
  <2> QED BY <2>1, <2>2
<1> QED BY <1>1, <1>2, <1>4, <1>5, <1>6, <1>7, <1>9, <1>12, MapGoesOn

\* A worker writes its next record.
LEMMA EncodeKeeps ==
  ASSUME JobInv, TypeInv', NEW w \in Worker, Encode(w)
  PROVE  JobInv'
<1>1. PICK x : x = worker[w]
  OBVIOUS
<1>2. PICK n : n = x.next + 1
  OBVIOUS
<1>3. PICK y : y = IF n < NRecord THEN [x EXCEPT !.next = n, !.read = {}]
                   ELSE [x EXCEPT !.at = "reportMap", !.next = 0, !.read = {}]
  OBVIOUS
<1>4. /\ x.at = "writing" /\ worker' = [worker EXCEPT ![w] = y]
      /\ intermediate' = [intermediate EXCEPT ![x.task][Bucket(n)] = @ \cup {n}]
      /\ UNCHANGED <<coordinator, output>>
  BY <1>1, <1>2, <1>3 DEF Encode, Advance
<1>5. /\ Fits(x) /\ x \in Workers /\ x.next \in Nat /\ x.task \in Maps /\ x.next < NRecord
      /\ AtMap(w) /\ MapWork(x)
  BY <1>1, <1>4, AtWork DEF JobInv, Fits, AtMap
<1>6. n \in Records /\ Bucket(n) \in Reduces /\ n \in Nat
  BY <1>2, <1>5, BucketType, JobAssumption DEF Records
<1>7. Fits(y)
  BY <1>2, <1>3, <1>4, <1>5, AdvanceFits, JobAssumption DEF Steps
<1>8. /\ y.task = x.task
      /\ n < NRecord => y.at = "writing" /\ y.next = n
      /\ ~(n < NRecord) => y.at = "reportMap"
  BY <1>3, <1>4, <1>5 DEF Workers
<1>9. intermediate \in [Maps -> [Reduces -> SUBSET Records]]
  BY TypesOf DEF JobInv, FileTypes
<1>10. /\ \A m \in Maps : m # x.task => intermediate'[m] = intermediate[m]
       /\ \A r \in Reduces : intermediate'[x.task][r] = {k \in Emitted(r) : k <= n}
  <2>1. \A r \in Reduces : intermediate[x.task][r] = {k \in Emitted(r) : k <= x.next}
    BY <1>4, <1>5 DEF MapWork
  <2>2. \A r \in Reduces : r # Bucket(n) =>
          {k \in Emitted(r) : k <= n} = {k \in Emitted(r) : k <= x.next}
    BY <1>2, <1>5, JobAssumption DEF Emitted, Records
  <2>3. {k \in Emitted(Bucket(n)) : k <= n}
          = {k \in Emitted(Bucket(n)) : k <= x.next} \cup {n}
    BY <1>2, <1>5, <1>6, JobAssumption DEF Emitted, Records
  <2>4. \A r \in Reduces : intermediate'[x.task][r] =
          IF r = Bucket(n) THEN intermediate[x.task][r] \cup {n} ELSE intermediate[x.task][r]
    BY <1>4, <1>5, <1>6, <1>9
  <2>5. \A m \in Maps : m # x.task => intermediate'[m] = intermediate[m]
    BY <1>4, <1>9
  <2> QED BY <2>1, <2>2, <2>3, <2>4, <2>5
<1>11. ~(n < NRecord) => \A r : {k \in Emitted(r) : k <= n} = Emitted(r)
  BY <1>6, JobAssumption DEF Emitted, Records
<1>12. MapWork(y)'
  <2>1. CASE n < NRecord
    BY <1>8, <1>10, <2>1 DEF MapWork
  <2>2. CASE ~(n < NRecord)
    BY <1>8, <1>10, <1>11, <2>2 DEF MapWork
  <2> QED BY <2>1, <2>2
<1> QED BY <1>1, <1>4, <1>5, <1>7, <1>8, <1>10, <1>12, MapGoesOn

\* A worker begins its output file, reads the next of its input files, which
\* is complete, and writes its output.
LEMMA OpenOutputKeeps ==
  ASSUME JobInv, TypeInv', NEW w \in Worker, OpenOutput(w)
  PROVE  JobInv'
<1>1. PICK x : x = worker[w]
  OBVIOUS
<1>2. PICK y : y = [x EXCEPT !.at = "reading"]
  OBVIOUS
<1>3. /\ x.at = "opening" /\ worker' = [worker EXCEPT ![w] = y]
      /\ output' = [output EXCEPT ![x.task] = {}] /\ UNCHANGED <<coordinator, intermediate>>
  BY <1>1, <1>2 DEF OpenOutput
<1>4. /\ Fits(x) /\ x \in Workers /\ AtReduce(w) /\ ReduceWork(x) /\ x.next = 0 /\ x.task \in Reduces
  BY <1>1, <1>3, AtWork DEF JobInv, Fits, AtReduce
<1>5. y \in Workers /\ y.at = "reading" /\ y.task = x.task /\ y.next = 0 /\ y.read = x.read
  BY <1>2, <1>4 DEF Workers, Steps
<1>6. Fits(y)
  BY <1>4, <1>5, JobAssumption DEF Fits
<1>7. \A r \in Reduces : r # x.task => output'[r] = output[r]
  BY <1>3, TypesOf DEF JobInv, FileTypes
<1>8. ReduceWork(y)'
  <2>1. mapDone' = NMap /\ x.read = {}
    BY <1>3, <1>4 DEF ReduceWork, coordinator
  <2>2. {m \in Maps : m < 0} = {}
    BY JobAssumption DEF Maps
  <2> QED BY <1>5, <2>1, <2>2 DEF ReduceWork
<1> QED BY <1>1, <1>3, <1>4, <1>5, <1>6, <1>7, <1>8, ReduceGoesOn

LEMMA ReadFileKeeps ==
  ASSUME JobInv, TypeInv', NEW w \in Worker, ReadFile(w)
  PROVE  JobInv'
<1>1. PICK x : x = worker[w]
  OBVIOUS
<1>2. PICK read : read = x.read \cup
         {<<x.next, n>> : n \in Decoded(intermediate[x.next][x.task], x.task)}
  OBVIOUS
<1>3. PICK y : y = IF x.next + 1 < NMap THEN [x EXCEPT !.next = x.next + 1, !.read = read]
                   ELSE [x EXCEPT !.at = "printing", !.next = 0, !.read = read]
  OBVIOUS
<1>4. /\ x.at = "reading" /\ worker' = [worker EXCEPT ![w] = y]
      /\ UNCHANGED <<coordinator, intermediate, output>>
  BY <1>1, <1>2, <1>3 DEF ReadFile, Advance
<1>5. /\ Fits(x) /\ x \in Workers /\ AtReduce(w) /\ ReduceWork(x) /\ x.next \in Nat
      /\ x.task \in Reduces /\ x.next < NMap /\ mapDone = NMap
  BY <1>1, <1>4, AtWork DEF JobInv, Fits, AtReduce, ReduceWork
<1>6. x.next \in Maps /\ x.next \in Nat /\ NMap \in Nat
  BY <1>5, JobAssumption DEF Maps
<1>7. read = {m \in Maps : m < x.next + 1} \X Emitted(x.task)
  <2>1. intermediate[x.next][x.task] = Emitted(x.task)
    BY <1>5, <1>6, MapsAreDone
  <2>2. Decoded(Emitted(x.task), x.task) = Emitted(x.task)
    BY DEF Decoded
  <2>3. x.read = {m \in Maps : m < x.next} \X Emitted(x.task)
    BY <1>4, <1>5 DEF ReduceWork
  <2>4. {m \in Maps : m < x.next + 1} = {m \in Maps : m < x.next} \cup {x.next}
    BY <1>6 DEF Maps
  <2>5. read = x.read \cup ({x.next} \X Emitted(x.task))
    BY <1>2, <2>1, <2>2
  <2> QED BY <2>3, <2>4, <2>5
<1>8. read \in SUBSET (Maps \X Records)
  BY <1>7 DEF Emitted
<1>9. Fits(y)
  BY <1>3, <1>4, <1>5, <1>6, <1>8, AdvanceFits DEF Steps
<1>10. CASE x.next + 1 < NMap
  <2>1. y.at = "reading" /\ y.task = x.task /\ y.next = x.next + 1 /\ y.read = read
    BY <1>3, <1>4, <1>5, <1>10 DEF Workers
  <2>2. ReduceWork(y)'
    BY <1>4, <1>5, <1>7, <2>1 DEF ReduceWork, coordinator
  <2> QED BY <1>1, <1>4, <1>5, <1>9, <2>1, <2>2, ReduceGoesOn
<1>11. CASE ~(x.next + 1 < NMap)
  <2>1. y.at = "printing" /\ y.task = x.task /\ y.read = read
    BY <1>3, <1>5, <1>11 DEF Workers
  <2>2. {m \in Maps : m < x.next + 1} = Maps
    BY <1>6, <1>11 DEF Maps
  <2>3. ReduceWork(y)'
    BY <1>4, <1>5, <1>7, <2>1, <2>2 DEF ReduceWork, coordinator
  <2> QED BY <1>1, <1>4, <1>5, <1>9, <2>1, <2>3, ReduceGoesOn
<1> QED BY <1>10, <1>11

LEMMA PrintOutputKeeps ==
  ASSUME JobInv, TypeInv', NEW w \in Worker, PrintOutput(w)
  PROVE  JobInv'
<1>1. PICK x : x = worker[w]
  OBVIOUS
<1>2. PICK y : y = [x EXCEPT !.at = "reportReduce"]
  OBVIOUS
<1>3. /\ x.at = "printing" /\ worker' = [worker EXCEPT ![w] = y]
      /\ output' = [output EXCEPT ![x.task] = x.read] /\ UNCHANGED <<coordinator, intermediate>>
  BY <1>1, <1>2 DEF PrintOutput
<1>4. /\ Fits(x) /\ x \in Workers /\ AtReduce(w) /\ ReduceWork(x) /\ x.task \in Reduces
  BY <1>1, <1>3, AtWork DEF JobInv, Fits, AtReduce
<1>5. y \in Workers /\ y.at = "reportReduce" /\ y.task = x.task
  BY <1>2, <1>4 DEF Workers, Steps
<1>6. Fits(y)
  BY <1>4, <1>5 DEF Fits
<1>7. output'[x.task] = x.read /\ \A r \in Reduces : r # x.task => output'[r] = output[r]
  BY <1>3, <1>4, TypesOf DEF JobInv, FileTypes
<1>8. ReduceWork(y)'
  BY <1>3, <1>4, <1>5, <1>7 DEF ReduceWork, coordinator
<1> QED BY <1>1, <1>3, <1>4, <1>5, <1>6, <1>7, <1>8, ReduceGoesOn

\* When nobody is slow, a task is overdue only when nobody is at it.
LEMMA ExpiryKeeps ==
  ASSUME ~Slow, JobInv, TypeInv', Expiry
  PROVE  JobInv'
<1>1. UNCHANGED <<mapTasks, reduceTasks, mapDone, reduceDone, worker, intermediate, output>>
  BY DEF Expiry, Expire
<1>2. \/ /\ UNCHANGED overdue
      \/ \E m \in Maps : /\ overdue' = overdue \cup {<<"map", m>>}
                         /\ \A w \in Worker : AtMap(w) => worker[w].task # m
      \/ \E r \in Reduces : /\ overdue' = overdue \cup {<<"reduce", r>>}
                            /\ \A w \in Worker : AtReduce(w) => worker[w].task # r
  BY DEF Expiry, Expire
<1>3. \A w \in Worker : (AtMap(w)' <=> AtMap(w)) /\ (AtReduce(w)' <=> AtReduce(w))
  BY <1>1 DEF AtMap, AtReduce
<1>4. MapsHandedOut' /\ ReducesHandedOut'
  BY <1>1, <1>2, <1>3 DEF JobInv, MapsHandedOut, ReducesHandedOut
<1>5. CountsReports' /\ Complete' /\ \A w \in Worker : MapWork(worker[w])' /\ ReduceWork(worker[w])'
  BY <1>1 DEF JobInv, CountsReports, Complete, MapWork, ReduceWork
<1> QED BY <1>4, <1>5 DEF JobInv

LEMMA JobInit == Init => JobInv
<1> SUFFICES ASSUME Init PROVE JobInv
  OBVIOUS
<1>1. TypeInv
  BY TypesInit
<1>2. \A w \in Worker : worker[w].at = "asking" /\ ~AtMap(w) /\ ~AtReduce(w)
  BY DEF Init, Stopped, Starting, AtMap, AtReduce
<1>3. Finished(mapTasks) = {} /\ Finished(reduceTasks) = {}
  BY DEF Init, Finished
<1>4. CountsReports
  BY <1>3, FS_EmptySet DEF Init, CountsReports
<1>5. Complete
  BY DEF Init, Complete
<1>6. MapsHandedOut /\ ReducesHandedOut
  BY <1>2 DEF MapsHandedOut, ReducesHandedOut
<1>7. \A w \in Worker : MapWork(worker[w]) /\ ReduceWork(worker[w])
  BY <1>2 DEF MapWork, ReduceWork
<1> QED BY <1>1, <1>4, <1>5, <1>6, <1>7 DEF JobInv

LEMMA JobStep == ~Slow /\ JobInv /\ [Next]_vars => JobInv'
<1> SUFFICES ASSUME ~Slow, JobInv, [Next]_vars PROVE JobInv'
  OBVIOUS
<1>1. TypeInv'
  BY TypesStep DEF JobInv
<1>2. ASSUME NEW w \in Worker, GetTask(w) PROVE JobInv'
  <2>1. ASSUME GetDone(w) PROVE JobInv'
    BY <1>1, <2>1, StopKeeps DEF GetDone
  <2> QED BY <1>1, <1>2, <2>1, GetMapTaskKeeps, GetReduceTaskKeeps DEF GetTask
<1>3. ASSUME NEW w \in Worker, Work(w) PROVE JobInv'
  BY <1>1, <1>3, CreateFileKeeps, EncodeKeeps, OpenOutputKeeps, ReadFileKeeps, PrintOutputKeeps,
     ReportMapKeeps, ReportReduceKeeps DEF Work
<1>4. ASSUME NEW w \in Worker, Crash(w) PROVE JobInv'
  BY <1>1, <1>4, StopKeeps DEF Crash
<1>5. CASE Expiry
  BY <1>1, <1>5, ExpiryKeeps
<1>6. CASE UNCHANGED vars
  BY <1>1, <1>6 DEF vars, coordinator, JobInv, CountsReports, Complete, MapsHandedOut,
     ReducesHandedOut, MapWork, ReduceWork, AtMap, AtReduce
<1> QED BY <1>2, <1>3, <1>4, <1>5, <1>6 DEF Next

LEMMA JobHolds ==
  ASSUME ~Slow
  PROVE  Spec => []JobInv
<1>1. JobInv /\ [Next]_vars => JobInv'
  BY JobStep
<1> QED BY <1>1, JobInit, PTL DEF Spec

-----------------------------------------------------------------------------
(* The properties the runs check, under the condition the run sets: no     *)
(* worker takes ten seconds and is still at work.                          *)

\* As many reports have come in as tasks are finished, so that the coordinator
\* sees the end of a phase when it is one (coordinator.go:36-98).
THEOREM CountIsRight ==
  ASSUME ~Slow
  PROVE  Spec => []CountsReports
<1>1. JobInv => CountsReports
  BY DEF JobInv
<1> QED BY <1>1, JobHolds, PTL

\* A reduce task runs only when every intermediate file is complete and nobody
\* is about to truncate one (worker.go:55-97).
THEOREM ReducesReadEverything ==
  ASSUME ~Slow
  PROVE  Spec => []ReducesReadAll
<1>1. JobInv => ReducesReadAll
  <2> SUFFICES ASSUME JobInv, NEW w \in Worker, AtReduce(w)
               PROVE  /\ \A m \in Maps : \A r \in Reduces : intermediate[m][r] = Emitted(r)
                      /\ \A v \in Worker : ~AtMap(v)
    BY DEF ReducesReadAll
  <2>1. mapDone = NMap
    BY DEF JobInv, ReduceWork, AtReduce
  <2> QED BY <2>1, MapsAreDone
<1> QED BY <1>1, JobHolds, PTL

\* A job the coordinator calls done has all of its output: from every input,
\* every record of the bucket (coordinator.go:114-118, worker.go:82-119).
THEOREM DoneJobIsFinished ==
  ASSUME ~Slow
  PROVE  Spec => []DoneIsFinished
<1>1. JobInv => DoneIsFinished
  BY ReducesAreDone DEF Done, DoneIsFinished
<1> QED BY <1>1, JobHolds, PTL
=============================================================================
