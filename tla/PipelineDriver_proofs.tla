------------------------ MODULE PipelineDriver_proofs ------------------------
(***************************************************************************)
(* What holds of the memory of bitmaps for every coordinator, every set of *)
(* graphs and every assignment of functions.                               *)
(***************************************************************************)
EXTENDS PipelineDriver, PipelineRunner_proofs

JobFields == {"mode", "src", "dst", "heap", "wants", "makes", "seen"}

\* What a task of the present build works on is held by the function that gave
\* it, in its InParam and OutParam.
Lent ==
  \A t \in DOMAIN jobs :
    /\ t[1] \in Nat /\ t[1] <= generation /\ t[1] > 0 /\ t[2] \in Nat
    /\ JobFields \subseteq DOMAIN jobs[t]
    /\ t[1] = generation =>
         /\ <<t[2], t[3]>> \in DOMAIN held
         /\ held[<<t[2], t[3]>>].src = jobs[t].src /\ held[<<t[2], t[3]>>].dst = jobs[t].dst

MemoryInv ==
  /\ RunnerInv
  /\ MemoryTypeOK
  /\ ref = [k \in DOMAIN ref |-> ref[k]]
  /\ \A a \in DOMAIN mem : {"picture", "image"} \subseteq DOMAIN mem[a]
  /\ phase \in {"idle", "stepping"} => DOMAIN started \subseteq DOMAIN held
  /\ Lent

----------------------------------------------------------------------------
(***************************************************************************)
(* References                                                              *)
(***************************************************************************)

\* What r and h refer to is kept.
LEMMA KeptHolds ==
  ASSUME NEW r, NEW h
  PROVE  /\ \A k \in DOMAIN r : r[k] # Null => r[k] \in Kept(r, h)
         /\ \A x \in DOMAIN h : {h[x].src, h[x].dst} \ {Null} \subseteq Kept(r, h)
         /\ \A a \in Kept(r, h) :
              /\ a # Null
              /\ \/ \E k \in DOMAIN r : a = r[k]
                 \/ \E x \in DOMAIN h : a \in {h[x].src, h[x].dst}
BY DEF Kept, Entries

\* A task lends what its function holds, and that is not freed.
LEMMA LentIsLive == MemoryInv => ViewsAreLive
<1> SUFFICES ASSUME MemoryInv, NEW t \in DOMAIN jobs, t[1] = generation
             PROVE  {jobs[t].src, jobs[t].dst} \ {Null} \subseteq DOMAIN mem
  BY DEF ViewsAreLive
<1> DEFINE x == <<t[2], t[3]>>
<1>1. x \in DOMAIN held /\ held[x].src = jobs[t].src /\ held[x].dst = jobs[t].dst
  BY DEF MemoryInv, Lent
<1>2. {held[x].src, held[x].dst} \ {Null} \subseteq DOMAIN mem
  BY <1>1, KeptHolds DEF MemoryInv, MemoryTypeOK
<1>3. QED
  BY <1>1, <1>2

\* Passing on refers to nothing new.
LEMMA PassedRefs ==
  ASSUME Running, MemoryInv
  PROVE  /\ DOMAIN Passed = DOMAIN ref /\ Passed = [k \in DOMAIN ref |-> Passed[k]]
         /\ \A k \in DOMAIN ref : Passed[k] # Null => Passed[k] \in DOMAIN mem
         /\ DOMAIN ref = DOMAIN FreshAttrs(built)
<1> DEFINE ts == ThisStage.transfers
           D == DOMAIN FreshAttrs(built)
           V == {ref[k] : k \in D}
<1>1. DOMAIN ref = D
  <2>1. attrs = [k \in D |-> attrs[k]]
    BY RunningStage DEF Loaded
  <2>2. DOMAIN attrs = D
    <3> HIDE DEF D
    <3>1. QED
      BY <2>1
  <2>3. QED
    BY <2>2 DEF MemoryInv, MemoryTypeOK
<1>2. Len(ts) \in Nat /\ \A i \in 1 .. Len(ts) : ts[i].src \in D
  BY RunningStage, StageTransfers DEF IsTransfer
<1>3. \A v \in V : v # Null => v \in DOMAIN mem
  BY <1>1, KeptHolds DEF MemoryInv, MemoryTypeOK
<1>4. ref \in [D -> V]
  <2>1. ref = [k \in DOMAIN ref |-> ref[k]]
    BY DEF MemoryInv
  <2> HIDE DEF D
  <2>2. QED
    BY <1>1, <2>1
<1> HIDE DEF D, V, ts
<1>5. Passed \in [D -> V]
  <2>1. AfterTransfer(ref, ts)[Len(ts)] \in [D -> V]
    BY <1>2, <1>4, TransfersKeep
  <2>2. QED
    BY <1>4, <2>1 DEF Passed, Deliver, ts
<1>6. DOMAIN Passed = D /\ Passed = [k \in D |-> Passed[k]] /\ \A k \in D : Passed[k] \in V
  BY <1>5
<1>7. QED
  BY <1>1, <1>3, <1>6 DEF D

\* The bitmap that an executor reads is one there is.
LEMMA ReadIsLive ==
  ASSUME Running, MemoryInv
  PROVE  Read # Null => Read \in DOMAIN mem
<1>1. CASE Sources = {}
  BY <1>1 DEF Read
<1>2. CASE Sources # {}
  <2>1. Sources \subseteq DOMAIN ref
    <3>1. /\ Executor = Executors(built, StageNode)[pos[2]]
          /\ pos[2] \in DOMAIN Executors(built, StageNode) /\ StageNode \in DOMAIN built.nodeInfos
      BY RunningStage DEF Executor
    <3>2. \A x \in DOMAIN Executor.takes : Key(x) \in DOMAIN FreshAttrs(built)
      BY <3>1, FreshEntries DEF EntryNames, Key
    <3>3. QED
      BY <3>2, PassedRefs DEF Sources, Bitmaps
  <2>2. (CHOOSE k \in Sources : TRUE) \in DOMAIN ref
    BY <1>2, <2>1
  <2>3. QED
    BY <1>2, <2>2, PassedRefs DEF Read
<1>3. QED
  BY <1>1, <1>2

----------------------------------------------------------------------------
(***************************************************************************)
(* Memory                                                                  *)
(***************************************************************************)

\* m has memory for every reference of r and h, with images of this heap or of
\* an earlier one.
Covers(m, r, h) ==
  /\ \A k \in DOMAIN r : r[k] # Null => r[k] \in DOMAIN m
  /\ \A x \in DOMAIN h : {h[x].src, h[x].dst} \ {Null} \subseteq DOMAIN m
  /\ \A a \in DOMAIN m : {"picture", "image"} \subseteq DOMAIN m[a] /\ m[a].image \in 0 .. heap' \cup {Null}

\* The memory after a step.
MemoryAfter ==
  /\ DOMAIN ref' = DOMAIN attrs' /\ ref' = [k \in DOMAIN ref' |-> ref'[k]]
  /\ Kept(ref', held') = DOMAIN mem'
  /\ DOMAIN held' \subseteq DOMAIN started'
  /\ \A a \in DOMAIN mem' : {"picture", "image"} \subseteq DOMAIN mem'[a] /\ mem'[a].image \in 0 .. heap' \cup {Null}

LEMMA SettleKeeps ==
  ASSUME NEW r, NEW h, NEW m, Settle(r, h, m), Covers(m, r, h),
         DOMAIN r = DOMAIN attrs', r = [k \in DOMAIN r |-> r[k]],
         DOMAIN h \subseteq DOMAIN started'
  PROVE  MemoryAfter
<1>1. ref' = r /\ held' = h /\ mem' = [a \in Kept(r, h) |-> m[a]]
  BY DEF Settle
<1>2. Kept(r, h) \subseteq DOMAIN m
  BY KeptHolds DEF Covers
<1>3. QED
  BY <1>1, <1>2 DEF MemoryAfter, Covers

\* The heap only grows, up to its bound.
LEMMA HeapGrows ==
  ASSUME MemoryInv, Malloc \/ UNCHANGED heap
  PROVE  heap \in Nat /\ heap' \in Nat /\ heap <= heap' /\ heap' \in 0 .. MaxGrowths
BY BitmapAssumption DEF MemoryInv, MemoryTypeOK, Malloc

\* The memory there is covers what is passed on.
LEMMA PassedCovered ==
  ASSUME Running, MemoryInv, heap' \in Nat, heap <= heap'
  PROVE  Covers(mem, Passed, held)
<1>1. \A x \in DOMAIN held : {held[x].src, held[x].dst} \ {Null} \subseteq DOMAIN mem
  BY KeptHolds DEF MemoryInv, MemoryTypeOK
<1>2. \A a \in DOMAIN mem : {"picture", "image"} \subseteq DOMAIN mem[a] /\ mem[a].image \in 0 .. heap' \cup {Null}
  BY DEF MemoryInv, MemoryTypeOK
<1>3. QED
  BY <1>1, <1>2, PassedRefs DEF Covers

\* With a new or a repainted bitmap it covers that as well.
LEMMA PaintedCovers ==
  ASSUME NEW r, NEW h, NEW q, NEW g, Covers(mem, r, h), NEW a, NEW picture, NEW image,
         image \in 0 .. heap' \cup {Null},
         DOMAIN q = DOMAIN r, \A k \in DOMAIN q : q[k] \in {r[k], a, Null},
         \A x \in DOMAIN g : \/ x \in DOMAIN h /\ g[x] = h[x]
                             \/ {g[x].src, g[x].dst} \ {Null} \subseteq DOMAIN mem \cup {a}
  PROVE  Covers(Painted(a, picture, image), q, g)
<1> DEFINE m == Painted(a, picture, image)
<1>1. DOMAIN m = DOMAIN mem \cup {a}
  BY DEF Painted
<1>2. \A b \in DOMAIN m : {"picture", "image"} \subseteq DOMAIN m[b] /\ m[b].image \in 0 .. heap' \cup {Null}
  BY DEF Painted, Covers
<1> HIDE DEF m
<1>3. \A k \in DOMAIN q : q[k] # Null => q[k] \in DOMAIN m
  BY <1>1 DEF Covers
<1>4. \A x \in DOMAIN g : {g[x].src, g[x].dst} \ {Null} \subseteq DOMAIN m
  BY <1>1 DEF Covers
<1>5. Covers(m, q, g)
  BY <1>2, <1>3, <1>4 DEF Covers
<1>6. QED
  BY <1>5 DEF m

\* What a function gives up and makes anew.
LEMMA RenewedRefs ==
  /\ DOMAIN Renewed = DOMAIN ref /\ Renewed = [k \in DOMAIN Renewed |-> Renewed[k]]
  /\ \A k \in DOMAIN ref : Renewed[k] \in {Passed[k], Null}
BY DEF Renewed

LEMMA ProducedRefs ==
  /\ DOMAIN Produced = DOMAIN ref /\ Produced = [k \in DOMAIN Produced |-> Produced[k]]
  /\ \A k \in DOMAIN ref : Produced[k] \in {Passed[k], Fresh, Null}
BY RenewedRefs DEF Produced

\* What a run leaves: the references of an executor that held nothing new.
LEMMA PlainRun ==
  ASSUME Running, MemoryInv, DOMAIN attrs' = DOMAIN attrs, DOMAIN started \subseteq DOMAIN started',
         \/ UNCHANGED heap /\ (Settle(Passed, held, mem) \/ Settle(Renewed, held, mem))
         \/ /\ Malloc
            /\ \E picture : Settle(Produced, held, CreateNewBitmap(picture))
                             \/ Settle(Produced, held, CreateAllocated(picture))
         \/ /\ UNCHANGED heap
            /\ \E picture : Settle(Passed, held, Painted(Own, picture, mem[Own].image))
            /\ Self \in DOMAIN held
  PROVE  MemoryAfter
<1>1. heap' \in Nat /\ heap <= heap' /\ heap \in Nat
  BY HeapGrows
<1>2. Covers(mem, Passed, held)
  BY <1>1, PassedCovered
<1>3. /\ DOMAIN Passed = DOMAIN attrs' /\ Passed = [k \in DOMAIN Passed |-> Passed[k]]
      /\ DOMAIN held \subseteq DOMAIN started' /\ DOMAIN ref = DOMAIN Passed
  BY PassedRefs DEF MemoryInv, MemoryTypeOK
<1>4. CASE Settle(Passed, held, mem)
  BY <1>2, <1>3, <1>4, SettleKeeps
<1>5. /\ DOMAIN Produced = DOMAIN Passed /\ Produced = [k \in DOMAIN Produced |-> Produced[k]]
      /\ \A k \in DOMAIN Produced : Produced[k] \in {Passed[k], Fresh, Null}
  BY <1>3, ProducedRefs
<1>11. CASE Settle(Renewed, held, mem)
  <2>1. Covers(mem, Renewed, held)
    BY <1>2, <1>3, RenewedRefs DEF Covers
  <2>2. QED
    BY <1>3, <1>11, <2>1, RenewedRefs, SettleKeeps
<1>6. ASSUME NEW picture, NEW image, image \in 0 .. heap' \cup {Null},
             Settle(Produced, held, Painted(Fresh, picture, image))
      PROVE  MemoryAfter
  <2>1. Covers(Painted(Fresh, picture, image), Produced, held)
    BY <1>2, <1>5, <1>6, PaintedCovers
  <2>2. QED
    BY <1>3, <1>5, <1>6, <2>1, SettleKeeps
<1>7. ASSUME NEW picture, Settle(Produced, held, CreateNewBitmap(picture)) PROVE MemoryAfter
  BY <1>1, <1>6, <1>7 DEF CreateNewBitmap
<1>8. ASSUME NEW picture, Settle(Produced, held, CreateAllocated(picture)) PROVE MemoryAfter
  BY <1>6, <1>8 DEF CreateAllocated
<1>9. ASSUME NEW picture, Settle(Passed, held, Painted(Own, picture, mem[Own].image)),
             Self \in DOMAIN held
      PROVE  MemoryAfter
  <2>0. CASE Own = Null
    <3>1. \A a \in Kept(Passed, held) : Painted(Own, picture, mem[Own].image)[a] = mem[a]
      BY <1>2, <2>0, KeptHolds DEF Painted, Covers
    <3>2. Settle(Passed, held, mem)
      BY <1>9, <3>1 DEF Settle
    <3>3. QED
      BY <1>4, <3>2
  <2> SUFFICES ASSUME Own # Null PROVE MemoryAfter
    BY <2>0
  <2>4. Own \in DOMAIN mem
    BY <1>2, <1>9 DEF Covers, Own
  <2>1. mem[Own].image \in 0 .. heap' \cup {Null}
    BY <1>2, <2>4 DEF Covers
  <2>2. Covers(Painted(Own, picture, mem[Own].image), Passed, held)
    BY <1>2, <2>1, PaintedCovers
  <2>3. QED
    BY <1>3, <1>9, <2>2, SettleKeeps
<1>10. QED
  BY <1>4, <1>7, <1>8, <1>9, <1>11

\* Where an executor hands over a task, it holds what the task works on.
LEMMA HoldingRun ==
  ASSUME Running, MemoryInv, DOMAIN attrs' = DOMAIN attrs, DOMAIN started \cup {Self} \subseteq DOMAIN started',
         \/ UNCHANGED heap /\ Settle(Passed, Hold(Read, Null), mem)
         \/ /\ Malloc
            /\ \E picture : Settle(Produced, Hold(Read, Fresh), CreateNewBitmap(picture))
  PROVE  MemoryAfter
<1>1. heap' \in Nat /\ heap <= heap' /\ heap \in Nat
  BY HeapGrows
<1>2. Covers(mem, Passed, held)
  BY <1>1, PassedCovered
<1>3. /\ DOMAIN Passed = DOMAIN attrs' /\ Passed = [k \in DOMAIN Passed |-> Passed[k]]
      /\ DOMAIN ref = DOMAIN Passed
  BY PassedRefs DEF MemoryInv, MemoryTypeOK
<1>4. Read # Null => Read \in DOMAIN mem
  BY ReadIsLive
<1>5. ASSUME NEW dst
      PROVE  /\ DOMAIN Hold(Read, dst) \subseteq DOMAIN started'
             /\ \A x \in DOMAIN Hold(Read, dst) :
                  \/ x \in DOMAIN held /\ Hold(Read, dst)[x] = held[x]
                  \/ /\ {Hold(Read, dst)[x].src, Hold(Read, dst)[x].dst} \ {Null}
                          \subseteq DOMAIN mem \cup {dst}
                     /\ dst = Null => {Hold(Read, dst)[x].src, Hold(Read, dst)[x].dst} \ {Null}
                          \subseteq DOMAIN mem
  <2>1. DOMAIN Hold(Read, dst) = DOMAIN held \cup {Self} /\ DOMAIN held \subseteq DOMAIN started
    BY DEF Hold, MemoryInv, MemoryTypeOK
  <2>2. Hold(Read, dst)[Self].src = Read /\ Hold(Read, dst)[Self].dst = dst
    BY DEF Hold
  <2>3. \A x \in DOMAIN held : x # Self => Hold(Read, dst)[x] = held[x]
    BY DEF Hold
  <2>4. QED
    BY <1>4, <2>1, <2>2, <2>3
<1>6. CASE Settle(Passed, Hold(Read, Null), mem)
  <2>1. Covers(mem, Passed, Hold(Read, Null))
    BY <1>2, <1>5 DEF Covers
  <2>2. QED
    BY <1>3, <1>5, <1>6, <2>1, SettleKeeps
<1>7. ASSUME NEW picture, Settle(Produced, Hold(Read, Fresh), CreateNewBitmap(picture))
      PROVE  MemoryAfter
  <2>1. /\ DOMAIN Produced = DOMAIN Passed /\ Produced = [k \in DOMAIN Produced |-> Produced[k]]
        /\ \A k \in DOMAIN Produced : Produced[k] \in {Passed[k], Fresh, Null}
    BY <1>3, ProducedRefs
  <2>2. heap' \in 0 .. heap' \cup {Null}
    BY <1>1
  <2>3. Covers(CreateNewBitmap(picture), Produced, Hold(Read, Fresh))
    BY <1>2, <1>5, <2>1, <2>2, PaintedCovers DEF CreateNewBitmap
  <2>4. QED
    BY <1>3, <1>5, <1>7, <2>1, <2>3, SettleKeeps
<1>8. QED
  BY <1>6, <1>7

----------------------------------------------------------------------------
(***************************************************************************)
(* Running an executor                                                     *)
(***************************************************************************)

\* A run hands over a task where the executor has none yet, and nowhere else.
LEMMA RunStarts ==
  ASSUME Running, RunsExecutor(Transferred), phase' # "aborted"
  PROVE  /\ Executor.uri \in Async \cup Gpu /\ Self \notin DOMAIN started =>
              DOMAIN started' = DOMAIN started \cup {Self}
         /\ Executor.uri \in DOMAIN Outcomes \/ Self \in DOMAIN started => UNCHANGED started
<1> DEFINE A == Transferred
<1>1. ~ Abort /\ Async \cap Gpu = {} /\ DOMAIN Outcomes \cap (Async \cup Gpu) = {}
  BY RunnerAssumption DEF Abort
<1>2. RunSync(A) => UNCHANGED started
  BY <1>1 DEF RunSync
<1>3. HandOver(A) \/ Dispatch(A) => DOMAIN started' = DOMAIN started \cup {Self}
  BY <1>1 DEF HandOver, Dispatch
<1>4. Resume(A) \/ Capture(A) => UNCHANGED started
  BY <1>1 DEF Resume, Capture
<1> HIDE DEF A
<1>5. QED
  BY <1>1, <1>2, <1>3, <1>4 DEF RunsExecutor, A

\* The attributes of a running step are those of the build.
LEMMA AttributesStay ==
  ASSUME Running, RunnerInv', phase' \notin {"aborted", "undefined"}
  PROVE  DOMAIN attrs' = DOMAIN attrs /\ phase' \in {"idle", "stepping"}
<1>1. /\ UNCHANGED <<built, generation>> /\ Loaded
      /\ phase' \in {"idle", "stepping"} /\ (Unloaded \/ Loaded)'
  BY RunningStage DEF Running, pipelineVars, RunnerInv, TypeOK
<1>2. Loaded'
  BY <1>1 DEF Loaded, Unloaded
<1> DEFINE D == DOMAIN FreshAttrs(built)
<1>3. attrs = [k \in D |-> attrs[k]] /\ attrs' = [k \in D |-> attrs'[k]]
  BY <1>1, <1>2 DEF Loaded
<1> HIDE DEF D
<1>4. QED
  BY <1>1, <1>3

\* What the tasks were given, after a step.
JobsAfter ==
  \A t \in DOMAIN jobs' : jobs'[t].mode \in {"load", "store", "paint"} /\ jobs'[t].heap \in 0 .. heap'

LEMMA LentKept ==
  ASSUME Running, MemoryInv, UNCHANGED <<jobs, held>>, heap' \in Nat, heap <= heap'
  PROVE  Lent' /\ JobsAfter
<1>1. UNCHANGED <<jobs, held, generation>> /\ heap \in Nat
  BY DEF Running, pipelineVars, MemoryInv, MemoryTypeOK
<1>2. Lent'
  BY <1>1 DEF MemoryInv, Lent
<1>3. JobsAfter
  BY <1>1 DEF MemoryInv, MemoryTypeOK, JobsAfter
<1>4. QED
  BY <1>2, <1>3

\* A new task works on what its function holds from now on; the others were
\* lent by other functions.
LEMMA LentToTask ==
  ASSUME Running, MemoryInv, Self \notin DOMAIN held, NEW mode \in {"load", "store", "paint"},
         NEW dst, NEW makes, held' = Hold(Read, dst), GiveJob(Job(mode, Read, dst, makes)),
         heap' \in Nat, heap <= heap'
  PROVE  Lent' /\ JobsAfter
<1> DEFINE job == Job(mode, Read, dst, makes)
<1>1. /\ DOMAIN jobs' = DOMAIN jobs \cup {Task} /\ jobs'[Task] = job
      /\ \A t \in DOMAIN jobs : t # Task => jobs'[t] = jobs[t]
  BY DEF GiveJob
<1>2. /\ DOMAIN job = JobFields /\ job.src = Read /\ job.dst = dst /\ job.mode = mode
      /\ job.heap = heap'
  BY DEF Job, JobFields
<1>3. /\ DOMAIN held' = DOMAIN held \cup {Self} /\ held'[Self].src = Read /\ held'[Self].dst = dst
      /\ \A x \in DOMAIN held : x # Self => held'[x] = held[x]
  BY DEF Hold
<1>4. /\ UNCHANGED generation /\ heap \in Nat /\ generation \in Nat /\ generation > 0
      /\ StageNode \in Nat
      /\ Task[1] = generation /\ Task[2] = StageNode /\ <<Task[2], Task[3]>> = Self
  BY RunningStage, RunnerAssumption
     DEF Running, pipelineVars, MemoryInv, MemoryTypeOK, Task, Self, RunnerInv, TypeOK, Loaded
<1> HIDE DEF job
<1>5. Lent'
  <2>1. SUFFICES ASSUME NEW t \in DOMAIN jobs'
                 PROVE  /\ t[1] \in Nat /\ t[1] <= generation' /\ t[1] > 0 /\ t[2] \in Nat
                        /\ JobFields \subseteq DOMAIN jobs'[t]
                        /\ t[1] = generation' =>
                             /\ <<t[2], t[3]>> \in DOMAIN held'
                             /\ held'[<<t[2], t[3]>>].src = jobs'[t].src
                             /\ held'[<<t[2], t[3]>>].dst = jobs'[t].dst
    BY DEF Lent
  <2>2. CASE t = Task
    BY <1>1, <1>2, <1>3, <1>4, <2>2
  <2>3. CASE t # Task
    <3>1. t \in DOMAIN jobs /\ jobs'[t] = jobs[t]
      BY <1>1, <2>3
    <3>2. /\ t[1] \in Nat /\ t[1] <= generation /\ t[1] > 0 /\ t[2] \in Nat
          /\ JobFields \subseteq DOMAIN jobs[t]
          /\ t[1] = generation =>
               /\ <<t[2], t[3]>> \in DOMAIN held
               /\ held[<<t[2], t[3]>>].src = jobs[t].src /\ held[<<t[2], t[3]>>].dst = jobs[t].dst
      BY <3>1 DEF MemoryInv, Lent
    <3>3. QED
      BY <1>3, <1>4, <3>1, <3>2
  <2>4. QED
    BY <2>2, <2>3
<1>6. JobsAfter
  <2>1. \A t \in DOMAIN jobs : jobs[t].mode \in {"load", "store", "paint"} /\ jobs[t].heap \in 0 .. heap
    BY DEF MemoryInv, MemoryTypeOK
  <2>2. QED
    BY <1>1, <1>2, <1>4, <2>1 DEF JobsAfter
<1>7. QED
  BY <1>5, <1>6

\* All parts together.
LEMMA MemoryKept ==
  ASSUME RunnerInv', MemoryAfter, Lent', JobsAfter, heap' \in 0 .. MaxGrowths,
         DOMAIN assets' \subseteq Nat, DOMAIN started' \subseteq DOMAIN held'
  PROVE  MemoryInv'
BY DEF MemoryInv, MemoryAfter, MemoryTypeOK, JobsAfter

\* Where a run goes astray or ends the program, nothing else has changed.
LEMMA RunEnds ==
  ASSUME RunnerInv, RunExecutor, phase' \in {"undefined", "aborted"}
  PROVE  UNCHANGED functionVars
<1>1. ~ (phase' = "idle") /\ ~ UNCHANGED phase
  BY DEF RunExecutor
<1>2. \A A : ~ FinishExecutor(A) /\ ~ Pause(A) /\ ~ Break
  BY <1>1 DEF FinishExecutor, Pause, Break
<1>3. \A A : RunsExecutor(A) => UNCHANGED functionVars
  BY <1>1, <1>2 DEF RunsExecutor, Abort, RunSync, HandOver, Resume, Dispatch, Capture
<1>4. QED
  BY <1>1, <1>3 DEF RunExecutor, RunsExecutor

\* Running an executor keeps every bitmap that something refers to.
LEMMA RunOnBitmapsInv ==
  ASSUME MemoryInv, RunOnBitmaps
  PROVE  MemoryInv'
<1>1. /\ RunExecutor /\ phase = "stepping" /\ RunnerInv /\ RunnerInv'
      /\ UNCHANGED pipelineVars
  BY RunExecutorInv DEF RunOnBitmaps, RunExecutor, MemoryInv
<1>2. CASE phase' \in {"undefined", "aborted"} /\ UNCHANGED bitmapVars
  <2>1. UNCHANGED <<attrs, started, generation>>
    BY <1>1, <1>2, RunEnds DEF pipelineVars, functionVars
  <2>2. QED
    BY <1>1, <1>2, <2>1 DEF bitmapVars, MemoryInv, MemoryTypeOK, Lent
<1>3. CASE /\ phase' \notin {"aborted", "undefined"}
           /\ ComputeAtOnce \/ StartCodec \/ ResumeCodec \/ DispatchWork \/ CaptureWork
  <2>1. Running /\ RunsExecutor(Transferred)
    BY <1>1, <1>3 DEF RunExecutor, RunsExecutor, Running
  <2>2. DOMAIN attrs' = DOMAIN attrs
    BY <1>1, <1>3, <2>1, AttributesStay
  <2>3. /\ Executor.uri \in Async \cup Gpu /\ Self \notin DOMAIN started =>
              DOMAIN started' = DOMAIN started \cup {Self}
        /\ Executor.uri \in DOMAIN Outcomes \/ Self \in DOMAIN started => UNCHANGED started
    BY <1>3, <2>1, RunStarts
  <2>4. DOMAIN started = DOMAIN held /\ DOMAIN assets \subseteq Nat
    BY <1>1 DEF MemoryInv, MemoryTypeOK
  <2>5. ASSUME \/ UNCHANGED heap /\ (Settle(Passed, held, mem) \/ Settle(Renewed, held, mem))
               \/ /\ Malloc
                  /\ \E picture : Settle(Produced, held, CreateNewBitmap(picture))
                                   \/ Settle(Produced, held, CreateAllocated(picture))
               \/ /\ UNCHANGED heap
                  /\ \E picture : Settle(Passed, held, Painted(Own, picture, mem[Own].image))
                  /\ Self \in DOMAIN started,
               UNCHANGED <<jobs, assets, started>>
        PROVE  MemoryInv'
    <3>1. heap' \in Nat /\ heap <= heap' /\ heap' \in 0 .. MaxGrowths
      BY <2>5, HeapGrows
    <3>2. MemoryAfter
      BY <2>1, <2>2, <2>4, <2>5, PlainRun
    <3>3. UNCHANGED held
      BY <2>5 DEF Settle
    <3>4. Lent' /\ JobsAfter
      BY <2>1, <2>5, <3>1, <3>3, LentKept
    <3>5. QED
      BY <1>1, <2>4, <2>5, <3>1, <3>2, <3>3, <3>4, MemoryKept
  <2>6. ASSUME NEW mode \in {"load", "store", "paint"}, NEW dst, NEW makes,
               GiveJob(Job(mode, Read, dst, makes)), UNCHANGED assets, held' = Hold(Read, dst),
               DOMAIN started' = DOMAIN started \cup {Self}, Self \notin DOMAIN started,
               \/ UNCHANGED heap /\ Settle(Passed, Hold(Read, Null), mem)
               \/ /\ Malloc
                  /\ \E picture : Settle(Produced, Hold(Read, Fresh), CreateNewBitmap(picture))
        PROVE  MemoryInv'
    <3>1. heap' \in Nat /\ heap <= heap' /\ heap' \in 0 .. MaxGrowths
      BY <2>6, HeapGrows
    <3>2. MemoryAfter
      BY <2>1, <2>2, <2>6, HoldingRun
    <3>3. DOMAIN held' = DOMAIN held \cup {Self}
      BY <2>6 DEF Hold
    <3>4. Lent' /\ JobsAfter
      BY <2>1, <2>4, <2>6, <3>1, LentToTask
    <3>5. QED
      BY <1>1, <2>4, <2>6, <3>1, <3>2, <3>3, <3>4, MemoryKept
  <2>7. CASE ComputeAtOnce
    BY <2>3, <2>5, <2>7 DEF ComputeAtOnce
  <2>8. CASE StartCodec
    <3>1. /\ GiveJob(Job(IF Executor.type = "decode" THEN "load" ELSE "store", Read, Null, Blank))
          /\ Settle(Passed, Hold(Read, Null), mem) /\ UNCHANGED <<heap, assets>>
          /\ Executor.uri \in Async /\ Self \notin DOMAIN started
      BY <2>8 DEF StartCodec
    <3>2. held' = Hold(Read, Null)
      BY <3>1 DEF Settle
    <3>3. (IF Executor.type = "decode" THEN "load" ELSE "store") \in {"load", "store", "paint"}
      OBVIOUS
    <3>4. QED
      BY <2>3, <2>6, <3>1, <3>2, <3>3
  <2>9. CASE ResumeCodec
    BY <2>3, <2>5, <2>9 DEF ResumeCodec
  <2>10. CASE DispatchWork
    <3>1. PICK makes : GiveJob(Job("paint", Read, Fresh, makes))
      BY <2>10 DEF DispatchWork
    <3>2. /\ Settle(Produced, Hold(Read, Fresh), CreateNewBitmap(Blank)) /\ Malloc /\ UNCHANGED assets
          /\ Executor.uri \in Gpu /\ Self \notin DOMAIN started
      BY <2>10 DEF DispatchWork
    <3>3. held' = Hold(Read, Fresh)
      BY <3>2 DEF Settle
    <3>4. QED
      BY <2>3, <2>6, <3>1, <3>2, <3>3
  <2>11. CASE CaptureWork
    BY <2>3, <2>5, <2>11 DEF CaptureWork, IsCapture
  <2>12. QED
    BY <1>3, <2>7, <2>8, <2>9, <2>10, <2>11
<1>4. QED
  BY <1>2, <1>3 DEF RunOnBitmaps

----------------------------------------------------------------------------
(***************************************************************************)
(* The other steps                                                         *)
(***************************************************************************)

LEMMA BuildPipelineInv ==
  ASSUME MemoryInv, NEW g \in Graphs, generation = 0, BuildPipeline(g)
  PROVE  MemoryInv'
<1>1. /\ RunnerInv' /\ Build(g) /\ UNCHANGED <<heap, jobs, assets>>
      /\ held' = EmptyMap /\ mem' = EmptyMap /\ ref' = [k \in DOMAIN attrs' |-> Null]
  BY BuildInv DEF MemoryInv, BuildPipeline
<1>2. DOMAIN held' = {} /\ DOMAIN mem' = {} /\ DOMAIN ref' = DOMAIN attrs'
  BY <1>1 DEF EmptyMap
<1>3. \A t \in DOMAIN jobs : t[1] \in Nat /\ t[1] <= 0 /\ t[1] > 0
  BY DEF MemoryInv, Lent
<1>4. DOMAIN jobs' = {}
  <2>1. \A t \in DOMAIN jobs : FALSE
    <3>1. \A i \in Nat : ~ (i <= 0 /\ i > 0)
      OBVIOUS
    <3>2. QED
      BY <1>3, <3>1
  <2>2. QED
    BY <1>1, <2>1
<1>5. Lent' /\ JobsAfter
  BY <1>4 DEF Lent, JobsAfter
<1>6. Kept(ref', held') = {}
  BY <1>1, <1>2 DEF Kept, Entries
<1>7. phase' \in {"idle", "stepping"} => DOMAIN started' = {}
  BY <1>1 DEF Build, EmptyMap
<1>8. QED
  BY <1>1, <1>2, <1>5, <1>6, <1>7 DEF MemoryInv, MemoryTypeOK, JobsAfter

\* A step that changes neither builds, nor attributes, nor bitmaps.
LEMMA StutterInv ==
  ASSUME MemoryInv, RunnerInv',
         UNCHANGED <<generation, attrs, started, bitmapVars>>,
         phase' \in {"idle", "stepping"} => phase \in {"idle", "stepping"}
  PROVE  MemoryInv'
BY DEF MemoryInv, MemoryTypeOK, Lent, bitmapVars

LEMMA JsTakeInv ==
  ASSUME MemoryInv, NEW t \in DOMAIN jobs, JsTake(t)
  PROVE  MemoryInv'
<1>1. UNCHANGED <<vars, ref, held, mem, heap, assets>>
  BY DEF JsTake
<1>2. RunnerInv'
  BY <1>1, RunnerNext DEF MemoryInv
<1>3. /\ DOMAIN jobs' = DOMAIN jobs
      /\ \A u \in DOMAIN jobs : /\ DOMAIN jobs'[u] = DOMAIN jobs[u]
                               /\ jobs'[u].src = jobs[u].src /\ jobs'[u].dst = jobs[u].dst
                               /\ jobs'[u].mode = jobs[u].mode /\ jobs'[u].heap = jobs[u].heap
  BY DEF JsTake, MemoryInv, Lent, JobFields
<1>4. UNCHANGED <<generation, attrs, started, phase>>
  BY <1>1 DEF vars, pipelineVars, functionVars
<1>5. Lent'
  BY <1>1, <1>3, <1>4 DEF MemoryInv, Lent
<1>6. MemoryTypeOK'
  BY <1>1, <1>3, <1>4 DEF MemoryInv, MemoryTypeOK
<1>7. QED
  BY <1>1, <1>2, <1>4, <1>5, <1>6 DEF MemoryInv

LEMMA JsFinishInv ==
  ASSUME MemoryInv, NEW t \in DOMAIN jobs, JsFinish(t)
  PROVE  MemoryInv'
<1>1. UNCHANGED <<generation, attrs, started, phase, ref, held, heap>>
  BY DEF JsFinish, Fulfil, vars, pipelineVars, functionVars
<1>2. RunnerInv'
  BY RunnerNext, FulfilInv DEF MemoryInv, JsFinish
<1>3. /\ DOMAIN mem' = DOMAIN mem
      /\ \A a \in DOMAIN mem : {"picture", "image"} \subseteq DOMAIN mem'[a] /\ mem'[a].image = mem[a].image
  BY DEF JsFinish, MemoryInv
<1>4. DOMAIN jobs' \subseteq DOMAIN jobs /\ \A u \in DOMAIN jobs' : jobs'[u] = jobs[u]
  BY DEF JsFinish
<1>5. DOMAIN assets' \subseteq Nat
  <2>1. t[2] \in Nat /\ DOMAIN assets \subseteq Nat
    BY DEF MemoryInv, MemoryTypeOK, Lent
  <2>2. DOMAIN assets' \subseteq DOMAIN assets \cup {t[2]}
    BY DEF JsFinish
  <2>3. QED
    BY <2>1, <2>2
<1>6. Lent'
  BY <1>1, <1>4 DEF MemoryInv, Lent
<1>7. MemoryTypeOK'
  BY <1>1, <1>3, <1>4, <1>5 DEF MemoryInv, MemoryTypeOK
<1>8. QED
  BY <1>1, <1>2, <1>3, <1>6, <1>7 DEF MemoryInv

LEMMA OtherCallInv ==
  ASSUME MemoryInv, OtherCall
  PROVE  MemoryInv'
<1>1. UNCHANGED <<vars, ref, held, mem, jobs, assets>> /\ heap' = heap + 1 /\ heap < MaxGrowths
  BY DEF OtherCall
<1>2. RunnerInv'
  BY <1>1, RunnerNext DEF MemoryInv
<1>3. heap \in Nat /\ heap' \in 0 .. MaxGrowths /\ \A i \in 0 .. heap : i \in 0 .. heap'
  BY <1>1, BitmapAssumption DEF MemoryInv, MemoryTypeOK
<1>4. UNCHANGED <<generation, attrs, started, phase>>
  BY <1>1 DEF vars, pipelineVars, functionVars
<1>5. Lent' /\ MemoryTypeOK'
  BY <1>1, <1>3, <1>4 DEF MemoryInv, MemoryTypeOK, Lent
<1>6. QED
  BY <1>1, <1>2, <1>4, <1>5 DEF MemoryInv

LEMMA MemoryNext == MemoryInv /\ [DriverNext]_driverVars => MemoryInv'
<1> SUFFICES ASSUME MemoryInv, [DriverNext]_driverVars PROVE MemoryInv'
  OBVIOUS
<1>1. CASE DriverBuild
  BY <1>1, BuildPipelineInv DEF DriverBuild
<1>2. CASE DriverStep
  <2>1. RunnerInv'
    BY <1>2, BeginStepInv DEF DriverStep, MemoryInv
  <2>2. UNCHANGED <<generation, attrs, started, bitmapVars>> /\ phase = "idle"
    BY <1>2 DEF DriverStep, BeginStep, pipelineVars, functionVars
  <2>3. QED
    BY <2>1, <2>2, StutterInv
<1>3. CASE RunLoop
  BY <1>3, RunOnBitmapsInv DEF RunLoop
<1>4. CASE JsWork
  BY <1>4, JsTakeInv, JsFinishInv DEF JsWork
<1>5. CASE OtherCall
  BY <1>5, OtherCallInv
<1>6. CASE UNCHANGED driverVars
  <2>1. UNCHANGED vars /\ UNCHANGED bitmapVars
    BY <1>6 DEF driverVars, allVars
  <2>2. RunnerInv'
    BY <2>1, RunnerNext DEF MemoryInv
  <2>3. QED
    BY <2>1, <2>2, StutterInv DEF vars, pipelineVars, functionVars
<1>7. QED
  BY <1>1, <1>2, <1>3, <1>4, <1>5, <1>6 DEF DriverNext

LEMMA MemoryInit == DriverInit => MemoryInv
<1> SUFFICES ASSUME DriverInit PROVE MemoryInv
  OBVIOUS
<1>1. RunnerInv
  BY RunnerInit DEF DriverInit, BitmapInit
<1>2. /\ DOMAIN ref = {} /\ DOMAIN attrs = {} /\ DOMAIN held = {} /\ DOMAIN mem = {}
      /\ DOMAIN started = {} /\ DOMAIN jobs = {} /\ DOMAIN assets = {} /\ heap = 0
      /\ ref = [k \in DOMAIN ref |-> ref[k]]
  BY DEF DriverInit, BitmapInit, Init, EmptyMap
<1>3. Kept(ref, held) = {}
  BY <1>2 DEF Kept, Entries
<1>4. QED
  BY <1>1, <1>2, <1>3, BitmapAssumption DEF MemoryInv, MemoryTypeOK, Lent

----------------------------------------------------------------------------
(***************************************************************************)
(* Theorems                                                                *)
(***************************************************************************)

THEOREM MemoryInvariant == DriverSpec => []MemoryInv
BY MemoryInit, MemoryNext, PTL DEF DriverSpec

\* Every attribute has its reference, what is referred to is what there is,
\* images and tasks belong to heaps there were.
THEOREM MemoryTypeCorrect == DriverSpec => []MemoryTypeOK
<1>1. MemoryInv => MemoryTypeOK
  BY DEF MemoryInv
<1>2. QED
  BY <1>1, MemoryInvariant, PTL

\* What a function lends to JavaScript is not freed under it before the next
\* build, however the pipeline is stepped and the heap grows.
THEOREM ViewsAreLiveAlways == DriverSpec => []ViewsAreLive
BY LentIsLive, MemoryInvariant, PTL

\* Bitmaps, JavaScript and the coordinator only add to the runner: whatever
\* they do is a behaviour of PipelineRunner, so that its theorems hold here.
THEOREM DriverImplementsRunner == DriverSpec => Spec
<1>1. DriverInit => Init
  BY DEF DriverInit, BitmapInit
<1>2. [DriverNext]_driverVars => [Next]_vars
  <2> SUFFICES ASSUME [DriverNext]_driverVars PROVE [Next]_vars
    OBVIOUS
  <2>1. CASE DriverBuild
    BY <2>1 DEF DriverBuild, BuildPipeline, Next
  <2>2. CASE DriverStep
    BY <2>2 DEF DriverStep, Next
  <2>3. CASE RunLoop
    BY <2>3 DEF RunLoop, RunOnBitmaps, Next
  <2>4. CASE JsWork
    BY <2>4 DEF JsWork, JsTake, JsFinish, Next
  <2>5. CASE OtherCall
    BY <2>5 DEF OtherCall
  <2>6. CASE UNCHANGED driverVars
    BY <2>6 DEF driverVars, allVars
  <2>7. QED
    BY <2>1, <2>2, <2>3, <2>4, <2>5, <2>6 DEF DriverNext
<1>3. QED
  BY <1>1, <1>2, PTL DEF DriverSpec, Spec

----------------------------------------------------------------------------
(***************************************************************************)
(* Finiteness                                                              *)
(***************************************************************************)

LEMMA FiniteImage ==
  ASSUME NEW S, IsFiniteSet(S), NEW f, DOMAIN f = S
  PROVE  IsFiniteSet({f[x] : x \in S})
<1> DEFINE T == {f[x] : x \in S}
           h == [x \in S |-> f[x]]
<1>1. h \in [S -> T] /\ \A t \in T : \E x \in S : h[x] = t
  OBVIOUS
<1>2. h \in Surjection(S, T)
  BY <1>1 DEF Surjection
<1> HIDE DEF T, h
<1>3. IsFiniteSet(T)
  BY <1>2, FS_Surjection
<1>4. QED
  BY <1>3 DEF T

LEMMA FiniteUnion ==
  ASSUME NEW S, IsFiniteSet(S), NEW f, DOMAIN f = S, \A x \in S : IsFiniteSet(f[x])
  PROVE  IsFiniteSet(UNION {f[x] : x \in S})
<1> DEFINE T == {f[x] : x \in S}
<1>1. IsFiniteSet(T)
  BY FiniteImage
<1>2. \A t \in T : IsFiniteSet(t)
  OBVIOUS
<1> HIDE DEF T
<1>3. IsFiniteSet(UNION T)
  BY <1>1, <1>2, FS_UNION
<1>4. QED
  BY <1>3 DEF T

LEMMA FiniteSequence ==
  ASSUME NEW S, NEW s \in Seq(S)
  PROVE  IsFiniteSet(Entries(s))
<1>1. DOMAIN s = 1 .. Len(s) /\ Len(s) \in Nat
  OBVIOUS
<1>2. IsFiniteSet(DOMAIN s)
  BY <1>1, FS_Interval
<1>3. IsFiniteSet({s[i] : i \in DOMAIN s})
  BY <1>2, FiniteImage
<1>4. QED
  BY <1>3 DEF Entries

\* A graph has finitely many slot entries.
LEMMA FiniteEntries ==
  ASSUME NEW g, Built(g)
  PROVE  IsFiniteSet(DOMAIN FreshAttrs(g))
<1> DEFINE N == DOMAIN g.nodeInfos
           I(n) == DOMAIN Executors(g, n)
           keys(n, i) == [name \in EntryNames(g, n, i) |-> <<n, i, name>>]
           OfExecutor(n, i) == {keys(n, i)[name] : name \in EntryNames(g, n, i)}
           ofNode(n) == [i \in I(n) |-> OfExecutor(n, i)]
           OfNode(n) == UNION {ofNode(n)[i] : i \in I(n)}
           ofGraph == [n \in N |-> OfNode(n)]
<1>1. IsFiniteSet(N)
  <2>1. IsFiniteSet(Entries(g.sortOrder)) /\ N \subseteq Entries(g.sortOrder)
    BY FiniteSequence DEF Built, IsGraphState
  <2>2. QED
    BY <2>1, FS_Subset
<1>2. ASSUME NEW n \in N, NEW i \in I(n) PROVE IsFiniteSet(EntryNames(g, n, i))
  <2> DEFINE x == Executors(g, n)[i]
             names == Entries(SlotNames(g, n))
  <2>1. IsFiniteSet(names) /\ IsFiniteSet(Entries(g.nodeInfos[n].ins)) /\ IsFiniteSet(Entries(g.nodeInfos[n].outs))
    BY NodeTypes, FiniteSequence DEF Built
  <2>2. IsFiniteSet({"$in"}) /\ IsFiniteSet({"$out"}) /\ IsFiniteSet({})
    BY FS_Singleton, FS_EmptySet
  <2>3. IsFiniteSet(DOMAIN x.takes) /\ IsFiniteSet(DOMAIN x.gives)
    <3>1. CASE IsFunction(g, n) /\ i = Len(Manual(g, n)) + 1
      <4>1. x = MainFunction(g, n)
        BY <3>1, ExecutorsOfNode
      <4>2. DOMAIN x.takes = Entries(g.nodeInfos[n].ins) /\ DOMAIN x.gives = Entries(g.nodeInfos[n].outs)
        BY <4>1 DEF MainFunction
      <4>3. QED
        BY <2>1, <4>2
    <3>2. CASE ~ (IsFunction(g, n) /\ i = Len(Manual(g, n)) + 1)
      <4>1. \A dtype, payload :
              /\ DOMAIN Decoder(dtype, payload).takes = {"$in"} /\ DOMAIN Encoder(dtype).takes = {"$in"}
              /\ DOMAIN Decoder(dtype, payload).gives = {"$out"} /\ DOMAIN Encoder(dtype).gives = {"$out"}
        BY DEF Decoder, Encoder
      <4>2. DOMAIN x.takes = {"$in"} /\ DOMAIN x.gives = {"$out"}
        <5>1. CASE IsFunction(g, n)
          <6>1. i \in 1 .. Len(Manual(g, n))
            <7>1. I(n) = 1 .. Len(Manual(g, n)) + 1 /\ Len(Manual(g, n)) \in Nat
              BY <5>1, ExecutorsOfNode
            <7>2. i # Len(Manual(g, n)) + 1
              BY <3>2, <5>1
            <7>3. QED
              BY <7>1, <7>2
          <6>2. PICK slot : x = Decoder(g.slotInfos[slot].dtype, g.slotStates[slot].encodedData)
            BY <5>1, <6>1, ExecutorsOfNode, ZenonT(30)
          <6>3. QED
            BY <4>1, <6>2
        <5>2. CASE ~ IsFunction(g, n)
          <6>1. i = 1
            <7>1. I(n) = 1 .. Len(Executors(g, n)) /\ Len(Executors(g, n)) = 1
              BY <5>2, ExecutorsOfNode
            <7>2. QED
              BY <7>1
          <6> DEFINE slot == <<n, IoNames(g, n)[1]>>
          <6>2. x \in {Decoder(g.slotInfos[slot].dtype, g.slotStates[slot].encodedData),
                       Encoder(g.slotInfos[slot].dtype)}
            BY <5>2, <6>1, ExecutorsOfNode
          <6>3. QED
            BY <4>1, <6>2
        <5>3. QED
          BY <5>1, <5>2
      <4>3. QED
        BY <2>2, <4>2
    <3>3. QED
      BY <3>1, <3>2
  <2>4. IsFiniteSet(DOMAIN x.takes \cup DOMAIN x.gives)
    BY <2>3, FS_Union
  <2>5. IsFiniteSet(IF x.type = "function" THEN names ELSE {})
    BY <2>1, <2>2
  <2> HIDE DEF x, names
  <2>6. IsFiniteSet(DOMAIN x.takes \cup DOMAIN x.gives \cup IF x.type = "function" THEN names ELSE {})
    BY <2>4, <2>5, FS_Union
  <2>7. QED
    BY <2>6 DEF EntryNames, x, names
<1>3. ASSUME NEW n \in N, NEW i \in I(n) PROVE IsFiniteSet(OfExecutor(n, i))
  <2>1. DOMAIN keys(n, i) = EntryNames(g, n, i)
    OBVIOUS
  <2> HIDE DEF keys
  <2>2. QED
    BY <1>2, <2>1, FiniteImage
<1>4. ASSUME NEW n \in N PROVE IsFiniteSet(OfNode(n))
  <2>1. IsFiniteSet(I(n))
    <3>1. I(n) = 1 .. Len(Executors(g, n)) /\ Len(Executors(g, n)) \in Nat
      BY ExecutorsLength
    <3>2. QED
      BY <3>1, FS_Interval
  <2> HIDE DEF OfExecutor, keys
  <2>2. DOMAIN ofNode(n) = I(n) /\ \A i \in I(n) : IsFiniteSet(ofNode(n)[i])
    BY <1>3
  <2> HIDE DEF ofNode, I
  <2>3. QED
    BY <2>1, <2>2, FiniteUnion
<1>5. IsFiniteSet(UNION {ofGraph[n] : n \in N})
  <2> HIDE DEF OfNode
  <2>1. DOMAIN ofGraph = N /\ \A n \in N : IsFiniteSet(ofGraph[n])
    BY <1>4
  <2> HIDE DEF ofGraph, N
  <2>2. QED
    BY <1>1, <2>1, FiniteUnion
<1>6. DOMAIN FreshAttrs(g) \subseteq UNION {ofGraph[n] : n \in N}
  <2>1. SUFFICES ASSUME NEW n \in N, NEW i \in I(n), NEW name \in EntryNames(g, n, i)
                 PROVE  <<n, i, name>> \in ofGraph[n]
    BY FreshEntries
  <2>2. <<n, i, name>> \in OfExecutor(n, i)
    OBVIOUS
  <2>3. ofNode(n)[i] = OfExecutor(n, i)
    OBVIOUS
  <2> HIDE DEF OfExecutor, keys
  <2>4. ofGraph[n] = OfNode(n)
    OBVIOUS
  <2> HIDE DEF ofNode, ofGraph
  <2>5. <<n, i, name>> \in OfNode(n)
    BY <2>2, <2>3
  <2>6. QED
    BY <2>4, <2>5
<1>7. QED
  BY <1>5, <1>6, FS_Subset

----------------------------------------------------------------------------
(***************************************************************************)
(* What an attribute and its reference are passed on with                  *)
(***************************************************************************)

\* The entry that an entry got its content from.
Origins(D, ts) == AfterTransfer([k \in D |-> k], ts)[Len(ts)]

LEMMA TransfersFetch ==
  ASSUME NEW D, NEW ts, Len(ts) \in Nat, \A i \in 1 .. Len(ts) : ts[i].src \in D,
         NEW f, f = [k \in D |-> f[k]]
  PROVE  /\ Origins(D, ts) \in [D -> D]
         /\ \A k \in D : AfterTransfer(f, ts)[Len(ts)][k] = f[Origins(D, ts)[k]]
<1> DEFINE id == [k \in D |-> k]
           n == Len(ts)
           a == AfterTransfer(f, ts)
           o == AfterTransfer(id, ts)
           T == {i \in 0 .. n : /\ o[i] \in [D -> D] /\ DOMAIN a[i] = D
                                /\ \A k \in D : a[i][k] = f[o[i][k]]}
<1>1. a[0] = f /\ \A i \in 1 .. n : a[i] = Transfer(a[i - 1], ts[i])
  BY AfterTransferSteps
<1>2. o[0] = id /\ \A i \in 1 .. n : o[i] = Transfer(o[i - 1], ts[i])
  <2> HIDE DEF id
  <2>1. QED
    BY AfterTransferSteps
<1> HIDE DEF a, o
<1>3. 0 \in T
  BY <1>1, <1>2
<1>4. ASSUME NEW i \in 0 .. n - 1, i \in T PROVE i + 1 \in T
  <2>1. i + 1 \in 1 .. n /\ (i + 1) - 1 = i
    OBVIOUS
  <2>2. o[i] \in [D -> D] /\ DOMAIN a[i] = D /\ \A k \in D : a[i][k] = f[o[i][k]]
    BY <1>4
  <2> DEFINE t == ts[i + 1]
  <2>3. t.src \in D
    BY <2>1
  <2> HIDE DEF t
  <2>4. a[i + 1] = [a[i] EXCEPT ![t.dst] = a[i][t.src]] /\ o[i + 1] = [o[i] EXCEPT ![t.dst] = o[i][t.src]]
    BY <1>1, <1>2, <2>1 DEF Transfer, t
  <2>5. o[i + 1] \in [D -> D] /\ DOMAIN a[i + 1] = D
    BY <2>2, <2>3, <2>4, ZenonT(30)
  <2>6. ASSUME NEW k \in D PROVE a[i + 1][k] = f[o[i + 1][k]]
    <3>1. CASE k = t.dst
      <4>1. a[i + 1][k] = a[i][t.src] /\ o[i + 1][k] = o[i][t.src]
        BY <2>2, <2>4, <3>1
      <4>2. QED
        BY <2>2, <2>3, <4>1
    <3>2. CASE k # t.dst
      <4>1. a[i + 1][k] = a[i][k] /\ o[i + 1][k] = o[i][k]
        BY <2>2, <2>4, <3>2
      <4>2. QED
        BY <2>2, <4>1
    <3>3. QED
      BY <3>1, <3>2
  <2>7. QED
    BY <2>1, <2>5, <2>6
<1>5. n \in T
  <2> HIDE DEF T
  <2>1. 0 .. n \subseteq T
    BY <1>3, <1>4, BoundedInduction
  <2>2. QED
    BY <2>1
<1>6. QED
  BY <1>5 DEF a, o, Origins

\* The attributes and the references of a stage are passed on alike.
LEMMA PassedTogether ==
  ASSUME Running, MemoryInv
  PROVE  \E o \in [DOMAIN ref -> DOMAIN ref] :
           \A k \in DOMAIN ref : Transferred[k] = attrs[o[k]] /\ Passed[k] = ref[o[k]]
<1> DEFINE ts == ThisStage.transfers
           D == DOMAIN ref
<1>1. Len(ts) \in Nat /\ \A i \in 1 .. Len(ts) : ts[i].src \in D
  BY RunningStage, StageTransfers, PassedRefs DEF IsTransfer
<1>2. attrs = [k \in D |-> attrs[k]] /\ ref = [k \in D |-> ref[k]]
  <2> DEFINE E == DOMAIN FreshAttrs(built)
  <2>1. attrs = [k \in E |-> attrs[k]]
    BY RunningStage DEF Loaded
  <2>3. E = D
    BY PassedRefs
  <2>2. ref = [k \in D |-> ref[k]]
    BY DEF MemoryInv
  <2> HIDE DEF E, D
  <2>4. QED
    BY <2>1, <2>2, <2>3
<1> HIDE DEF ts, D
<1>3. CASE IsLast
  <2>1. /\ Origins(D, ts) \in [D -> D]
        /\ \A k \in D : AfterTransfer(attrs, ts)[Len(ts)][k] = attrs[Origins(D, ts)[k]]
        /\ \A k \in D : AfterTransfer(ref, ts)[Len(ts)][k] = ref[Origins(D, ts)[k]]
    BY <1>1, <1>2, TransfersFetch
  <2>2. Transferred = AfterTransfer(attrs, ts)[Len(ts)] /\ Passed = AfterTransfer(ref, ts)[Len(ts)]
    BY <1>3 DEF Transferred, Passed, Deliver, ts
  <2>3. QED
    BY <2>1, <2>2 DEF D
<1>4. CASE ~ IsLast
  <2>1. Transferred = attrs /\ Passed = ref
    BY <1>4 DEF Transferred, Passed, Deliver
  <2> DEFINE o == [k \in D |-> k]
  <2>2. o \in [D -> D] /\ \A k \in D : attrs[k] = attrs[o[k]] /\ ref[k] = ref[o[k]]
    OBVIOUS
  <2>3. QED
    BY <2>1, <2>2 DEF D
<1>5. QED
  BY <1>3, <1>4

----------------------------------------------------------------------------
(***************************************************************************)
(* Bitmaps arrive                                                          *)
(***************************************************************************)

\* There are finitely many bitmaps at any time.
BitmapsFinite == IsFiniteSet(DOMAIN ref) /\ IsFiniteSet(DOMAIN held) /\ IsFiniteSet(DOMAIN jobs)

ArrivesInv == MemoryInv /\ BitmapsFinite /\ BitmapsArrive

LEMMA PairsFinite ==
  ASSUME NEW h, IsFiniteSet(DOMAIN h)
  PROVE  IsFiniteSet(UNION {{h[x].src, h[x].dst} : x \in DOMAIN h})
<1> DEFINE S == DOMAIN h
           pair == [x \in S |-> {h[x].src, h[x].dst}]
<1>1. DOMAIN pair = S /\ \A x \in S : pair[x] = {h[x].src, h[x].dst}
  OBVIOUS
<1>2. ASSUME NEW a, NEW b PROVE IsFiniteSet({a, b})
  <2>1. IsFiniteSet({a} \cup {b})
    BY FS_Singleton, FS_Union
  <2>2. {a, b} = {a} \cup {b}
    OBVIOUS
  <2>3. QED
    BY <2>1, <2>2
<1>3. \A x \in S : IsFiniteSet(pair[x])
  BY <1>1, <1>2
<1>4. {{h[x].src, h[x].dst} : x \in S} = {pair[x] : x \in S}
  BY <1>1, Zenon
<1> HIDE DEF pair
<1>5. IsFiniteSet(UNION {pair[x] : x \in S})
  BY <1>1, <1>3, FiniteUnion
<1>6. QED
  BY <1>4, <1>5

\* A new bitmap is none that is referred to or viewed.
LEMMA FreshIsNew ==
  ASSUME BitmapsFinite
  PROVE  Fresh \in Nat /\ Fresh # Null /\ Fresh \notin Kept(Renewed, held) \cup Viewed
<1> DEFINE R == {Renewed[k] : k \in DOMAIN Renewed}
           H == UNION {{held[x].src, held[x].dst} : x \in DOMAIN held}
           J == UNION {{jobs[t].src, jobs[t].dst} : t \in DOMAIN jobs}
           taken == Kept(Renewed, held) \cup Viewed
           n == Cardinality(taken)
<1>1. IsFiniteSet(R)
  <2>1. IsFiniteSet(DOMAIN Renewed)
    BY RenewedRefs DEF BitmapsFinite
  <2>2. QED
    BY <2>1, FiniteImage
<1>2. IsFiniteSet(H) /\ IsFiniteSet(J)
  BY PairsFinite DEF BitmapsFinite
<1>3. taken \subseteq R \cup H \cup J
  BY DEF Kept, Viewed, Entries
<1>4. IsFiniteSet(taken)
  <2> HIDE DEF R, H, J, taken
  <2>1. IsFiniteSet(R \cup H)
    BY <1>1, <1>2, FS_Union
  <2>2. IsFiniteSet(R \cup H \cup J)
    BY <1>2, <2>1, FS_Union
  <2>3. QED
    BY <1>3, <2>2, FS_Subset
<1>5. \E a \in 1 .. n + 1 : a \notin taken
  <2> HIDE DEF taken
  <2>1. SUFFICES ASSUME 1 .. n + 1 \subseteq taken PROVE FALSE
    OBVIOUS
  <2>2. n \in Nat
    BY <1>4, FS_CardinalityType
  <2>3. Cardinality(1 .. n + 1) <= n
    BY <1>4, <2>1, FS_Subset
  <2> HIDE DEF n
  <2>4. Cardinality(1 .. n + 1) = n + 1
    <3>1. 1 \in Int /\ n + 1 \in Int /\ ~ (1 > n + 1) /\ (n + 1) - 1 + 1 = n + 1
      BY <2>2
    <3>2. QED
      BY <3>1, FS_Interval
  <2>5. QED
    BY <2>2, <2>3, <2>4
<1>6. n \in Nat
  <2> HIDE DEF taken
  <2>1. QED
    BY <1>4, FS_CardinalityType
<1>7. Fresh = CHOOSE a \in 1 .. n + 1 : a \notin taken
  BY DEF Fresh
<1> HIDE DEF taken, n
<1>8. Fresh \in 1 .. n + 1 /\ Fresh \notin taken
  BY <1>5, <1>7
<1>9. QED
  BY <1>6, <1>8, BitmapAssumption DEF taken

\* A transfer moves the reference with the type.
LEMMA PassedArrives ==
  ASSUME Running, MemoryInv, BitmapsArrive
  PROVE  \A k \in DOMAIN ref : Transferred[k].dtype = "bitmap" <=> Passed[k] # Null
<1>1. PICK o \in [DOMAIN ref -> DOMAIN ref] :
        \A k \in DOMAIN ref : Transferred[k] = attrs[o[k]] /\ Passed[k] = ref[o[k]]
  BY PassedTogether
<1>2. DOMAIN attrs = DOMAIN ref
  BY DEF MemoryInv, MemoryTypeOK
<1>3. QED
  BY <1>1, <1>2 DEF BitmapsArrive

\* The entries that an executor gives.
Given == {Key(x) : x \in DOMAIN Executor.gives}

LEMMA GivenEntries ==
  ASSUME Running, MemoryInv, NEW k \in DOMAIN ref
  PROVE  /\ k \in Given <=> (k[1] = StageNode /\ k[2] = pos[2] /\ k[3] \in DOMAIN Executor.gives)
         /\ k \in Products <=> (k \in Given /\ Executor.gives[k[3]] = "bitmap")
         /\ Transferred = [e \in DOMAIN ref |-> Transferred[e]]
<1>1. k = <<k[1], k[2], k[3]>>
  <2>1. k \in EntryKey
    BY RunningStage, PassedRefs, EntryKeys
  <2>2. QED
    BY <2>1 DEF EntryKey
<1>2. \A x : Key(x)[1] = StageNode /\ Key(x)[2] = pos[2] /\ Key(x)[3] = x
  BY DEF Key
<1>3. (k[1] = StageNode /\ k[2] = pos[2]) => k = Key(k[3])
  BY <1>1 DEF Key
<1>4. k \in Given <=> (k[1] = StageNode /\ k[2] = pos[2] /\ k[3] \in DOMAIN Executor.gives)
  BY <1>2, <1>3 DEF Given
<1>5. k \in Products <=> (k[1] = StageNode /\ k[2] = pos[2] /\ k[3] \in DOMAIN Executor.gives
                            /\ Executor.gives[k[3]] = "bitmap")
  BY <1>2, <1>3 DEF Products, Bitmaps
<1>6. Transferred = [e \in DOMAIN ref |-> Transferred[e]]
  <2> DEFINE E == DOMAIN FreshAttrs(built)
  <2>1. Transferred = [e \in E |-> Transferred[e]]
    BY TransferredEntries DEF SameEntries
  <2>2. E = DOMAIN ref
    BY PassedRefs
  <2> HIDE DEF E
  <2>3. QED
    BY <2>1, <2>2
<1>7. QED
  BY <1>4, <1>5, <1>6

\* What a function writes has a bitmap where it is one.
LEMMA WrittenArrives ==
  ASSUME Running, ArrivesInv
  PROVE  /\ \A k \in DOMAIN ref : Written(Transferred)[k].dtype = "bitmap" <=> Produced[k] # Null
         /\ Products = {} =>
              \A k \in DOMAIN ref : Written(Transferred)[k].dtype = "bitmap" <=> Renewed[k] # Null
<1>1. SUFFICES ASSUME NEW k \in DOMAIN ref
               PROVE  /\ Written(Transferred)[k].dtype = "bitmap" <=> Produced[k] # Null
                      /\ Products = {} => Renewed[k] = Produced[k]
  OBVIOUS
<1>2. /\ k \in Given <=> (k[1] = StageNode /\ k[2] = pos[2] /\ k[3] \in DOMAIN Executor.gives)
      /\ k \in Products <=> (k \in Given /\ Executor.gives[k[3]] = "bitmap")
      /\ k \in DOMAIN Transferred
  BY GivenEntries DEF ArrivesInv
<1>3. /\ Renewed[k] = IF k \in Given THEN Null ELSE Passed[k]
      /\ Produced[k] = IF k \in Products THEN Fresh ELSE Renewed[k]
  BY DEF Renewed, Produced, Given
<1>4. Fresh # Null
  BY FreshIsNew DEF ArrivesInv
<1>5. CASE k \in Given
  <2>1. Written(Transferred)[k].dtype = Executor.gives[k[3]]
    BY <1>2, <1>5 DEF Written
  <2>2. QED
    BY <1>2, <1>3, <1>4, <1>5, <2>1
<1>6. CASE k \notin Given
  <2>1. Written(Transferred)[k] = Transferred[k]
    BY <1>2, <1>6 DEF Written
  <2>2. Transferred[k].dtype = "bitmap" <=> Passed[k] # Null
    BY PassedArrives DEF ArrivesInv
  <2>3. QED
    BY <1>2, <1>3, <1>6, <2>1, <2>2
<1>7. QED
  BY <1>5, <1>6

\* So has what a codec collects.
LEMMA CollectedArrives ==
  ASSUME GraphsFit, Running, ArrivesInv, Executor.uri \in Async
  PROVE  /\ Executor.type \in {"encode", "decode"}
         /\ \A k \in DOMAIN ref : Collected(Transferred)[k].dtype = "bitmap" <=>
              (IF Executor.type = "decode" THEN Produced[k] ELSE Renewed[k]) # Null
<1> DEFINE g == built
           n == StageNode
           i == pos[2]
<1>1. Built(g) /\ IsWired(g) /\ TasksFit(g) /\ n \in DOMAIN g.nodeInfos /\ i \in DOMAIN Executors(g, n)
      /\ Executor = Executors(g, n)[i]
  <2>1. Loaded
    BY RunningStage
  <2>2. Built(built) /\ IsWired(built) /\ TasksFit(built)
    BY <2>1, LoadedIsWired
  <2>3. QED
    BY <2>2, RunningStage DEF Executor
<1> HIDE DEF g, n, i
<1>2. Executor.type \in {"encode", "decode"} /\ DOMAIN Executor.gives = {"$out"}
  <2> DEFINE x == Executors(g, n)[i]
  <2>1. /\ x.type \in {"function", "encode", "decode"}
        /\ x.type = "function" <=> IsFunction(g, n) /\ i = Len(Executors(g, n))
        /\ x.type = "function" => x = MainFunction(g, n)
        /\ x.type # "function" => DOMAIN x.takes = {"$in"} /\ DOMAIN x.gives = {"$out"} /\ x.uri \notin Gpu
    BY <1>1, ExecutorKinds
  <2>4. Executor = x
    BY <1>1
  <2> HIDE DEF x
  <2>2. x.type # "function"
    BY <1>1, <2>1, <2>4 DEF TasksFit, MainFunction
  <2>3. QED
    BY <2>1, <2>2, <2>4
<1>3. Executor.type = "encode" => Executor.gives["$out"] # "bitmap"
  <2>1. SUFFICES ASSUME Executor.type = "encode" PROVE Executor.gives["$out"] = "$encoded"
    OBVIOUS
  <2>2. g.nodeInfos[n].ntype = "OUT"
    BY <1>1, <2>1, ExecutorKinds
  <2>3. Executor = Encoder(g.slotInfos[<<n, "$in">>].dtype)
    BY <1>1, <2>2, ExecutorAt, ZenonT(30)
  <2>4. QED
    BY <2>3 DEF Encoder
<1>4. ASSUME NEW k \in DOMAIN ref
      PROVE  Collected(Transferred)[k].dtype = "bitmap" <=>
               (IF Executor.type = "decode" THEN Produced[k] ELSE Renewed[k]) # Null
  <2>1. /\ k \in Given <=> (k[1] = StageNode /\ k[2] = pos[2] /\ k[3] \in DOMAIN Executor.gives)
        /\ k \in Products <=> (k \in Given /\ Executor.gives[k[3]] = "bitmap")
        /\ k \in DOMAIN Transferred
    BY GivenEntries DEF ArrivesInv
  <2>2. /\ Renewed[k] = IF k \in Given THEN Null ELSE Passed[k]
        /\ Produced[k] = IF k \in Products THEN Fresh ELSE Renewed[k]
    BY DEF Renewed, Produced, Given
  <2>3. Given = {Key("$out")}
    BY <1>2 DEF Given
  <2>4. CASE k = Key("$out")
    <3>1. Collected(Transferred)[k].dtype = Executor.gives["$out"]
      BY <2>1, <2>4 DEF Collected
    <3>2. k[3] = "$out"
      BY <2>4 DEF Key
    <3>3. Fresh # Null
      BY FreshIsNew DEF ArrivesInv
    <3>4. QED
      BY <1>2, <1>3, <2>1, <2>2, <2>3, <2>4, <3>1, <3>2, <3>3
  <2>5. CASE k # Key("$out")
    <3>1. Collected(Transferred)[k] = Transferred[k]
      BY <2>1, <2>5 DEF Collected
    <3>2. Transferred[k].dtype = "bitmap" <=> Passed[k] # Null
      BY PassedArrives DEF ArrivesInv
    <3>3. k \notin Given /\ k \notin Products
      BY <2>1, <2>3, <2>5
    <3>4. QED
      BY <2>2, <3>1, <3>2, <3>3
  <2>6. QED
    BY <2>4, <2>5
<1>5. QED
  BY <1>2, <1>4

\* The attributes that a run leaves.
LEMMA RunLeaves ==
  ASSUME Running, RunsExecutor(Transferred), phase' # "aborted"
  PROVE  /\ Executor.uri \in DOMAIN Outcomes => attrs' = Written(Transferred)
         /\ Executor.uri \in Async =>
              attrs' = IF Self \in DOMAIN started /\ HasResult THEN Collected(Transferred) ELSE Transferred
         /\ Executor.uri \in Gpu =>
              attrs' = IF Self \in DOMAIN started THEN Transferred ELSE Written(Transferred)
<1> DEFINE A == Transferred
<1>1. ~ Abort /\ Async \cap Gpu = {} /\ DOMAIN Outcomes \cap (Async \cup Gpu) = {}
  BY RunnerAssumption DEF Abort
<1>2. \A B : FinishExecutor(B) => attrs' = B
  BY DEF FinishExecutor
<1> HIDE DEF A
<1>3. CASE Executor.uri \in DOMAIN Outcomes /\ RunSync(A)
  <2>1. Outcomes[Executor.uri] = {"DONE"}
    BY <1>3, BitmapAssumption
  <2>2. attrs' = Written(A)
    BY <1>1, <1>2, <1>3, <2>1 DEF RunSync
  <2>3. QED
    BY <1>1, <1>3, <2>2 DEF A
<1>4. CASE Executor.uri \in Async /\ Self \notin DOMAIN started /\ HandOver(A)
  <2>1. attrs' = A
    BY <1>1, <1>4 DEF HandOver
  <2>2. QED
    BY <1>1, <1>4, <2>1 DEF A
<1>5. CASE Executor.uri \in Async /\ Self \in DOMAIN started /\ Resume(A)
  <2>1. attrs' = IF HasResult THEN Collected(A) ELSE A
    BY <1>2, <1>5 DEF Resume
  <2>2. QED
    BY <1>1, <1>5, <2>1 DEF A
<1>6. CASE Executor.uri \in Gpu /\ Self \notin DOMAIN started /\ Dispatch(A)
  <2>1. attrs' = Written(A)
    BY <1>1, <1>6 DEF Dispatch
  <2>2. QED
    BY <1>1, <1>6, <2>1 DEF A
<1>7. CASE Executor.uri \in Gpu /\ Self \in DOMAIN started /\ Capture(A)
  <2>1. attrs' = A
    BY <1>1, <1>2, <1>7 DEF Capture
  <2>2. QED
    BY <1>1, <1>7, <2>1 DEF A
<1>8. QED
  BY <1>1, <1>3, <1>4, <1>5, <1>6, <1>7 DEF RunsExecutor, A

LEMMA RunArrives ==
  ASSUME GraphsFit, ArrivesInv, RunOnBitmaps
  PROVE  ArrivesInv'
<1>1. RunExecutor /\ MemoryInv /\ MemoryInv' /\ UNCHANGED pipelineVars
  BY RunOnBitmapsInv DEF ArrivesInv, RunOnBitmaps, RunExecutor
<1>2. CASE phase' \in {"undefined", "aborted"} /\ UNCHANGED bitmapVars
  <2>1. UNCHANGED <<attrs, ref, held, jobs>>
    BY <1>1, <1>2, RunEnds DEF functionVars, bitmapVars, MemoryInv
  <2>2. BitmapsFinite' /\ BitmapsArrive'
    BY <2>1 DEF ArrivesInv, BitmapsFinite, BitmapsArrive
  <2>3. QED
    BY <1>1, <2>2 DEF ArrivesInv
<1>3. CASE /\ phase' \notin {"aborted", "undefined"}
           /\ ComputeAtOnce \/ StartCodec \/ ResumeCodec \/ DispatchWork \/ CaptureWork
  <2>1. Running /\ RunsExecutor(Transferred)
    BY <1>1, <1>3 DEF RunExecutor, RunsExecutor, Running, MemoryInv
  <2>2. /\ Executor.uri \in DOMAIN Outcomes => attrs' = Written(Transferred)
        /\ Executor.uri \in Async =>
             attrs' = IF Self \in DOMAIN started /\ HasResult THEN Collected(Transferred) ELSE Transferred
        /\ Executor.uri \in Gpu =>
             attrs' = IF Self \in DOMAIN started THEN Transferred ELSE Written(Transferred)
    BY <1>3, <2>1, RunLeaves
  <2>3. DOMAIN attrs' = DOMAIN ref /\ DOMAIN ref' = DOMAIN ref
    <3>1. DOMAIN attrs' = DOMAIN attrs
      BY <1>1, <1>3, <2>1, AttributesStay DEF MemoryInv
    <3>2. QED
      BY <1>1, <3>1 DEF MemoryInv, MemoryTypeOK
  <2>4. BitmapsFinite'
    <3>1. IsFiniteSet(DOMAIN held \cup {Self}) /\ IsFiniteSet(DOMAIN jobs \cup {Task})
      BY FS_AddElement DEF ArrivesInv, BitmapsFinite
    <3>2. \A src, dst : DOMAIN Hold(src, dst) = DOMAIN held \cup {Self}
      BY DEF Hold
    <3>3. DOMAIN held' \in {DOMAIN held, DOMAIN held \cup {Self}}
      BY <1>3, <3>2 DEF ComputeAtOnce, StartCodec, ResumeCodec, DispatchWork, CaptureWork, Settle
    <3>4. DOMAIN jobs' \in {DOMAIN jobs, DOMAIN jobs \cup {Task}}
      BY <1>3 DEF ComputeAtOnce, StartCodec, ResumeCodec, DispatchWork, CaptureWork, GiveJob
    <3>5. QED
      BY <2>3, <3>1, <3>3, <3>4 DEF ArrivesInv, BitmapsFinite
  <2>5. \A k \in DOMAIN ref : Transferred[k].dtype = "bitmap" <=> Passed[k] # Null
    BY <2>1, PassedArrives DEF ArrivesInv
  <2>6. /\ \A k \in DOMAIN ref : Written(Transferred)[k].dtype = "bitmap" <=> Produced[k] # Null
        /\ Products = {} =>
             \A k \in DOMAIN ref : Written(Transferred)[k].dtype = "bitmap" <=> Renewed[k] # Null
    BY <2>1, WrittenArrives
  <2>7. \A k \in DOMAIN ref : attrs'[k].dtype = "bitmap" <=> ref'[k] # Null
    <3>1. CASE ComputeAtOnce
      <4>1. attrs' = Written(Transferred)
        BY <2>2, <3>1 DEF ComputeAtOnce
      <4>2. ref' = Produced \/ (Products = {} /\ ref' = Renewed)
        BY <3>1 DEF ComputeAtOnce, Settle
      <4>3. QED
        BY <2>6, <4>1, <4>2
    <3>2. CASE StartCodec
      BY <2>2, <2>5, <3>2 DEF StartCodec, Settle
    <3>3. CASE ResumeCodec
      <4>1. Executor.uri \in Async /\ Self \in DOMAIN started
        BY <3>3 DEF ResumeCodec
      <4>2. \A k \in DOMAIN ref : Collected(Transferred)[k].dtype = "bitmap" <=>
              (IF Executor.type = "decode" THEN Produced[k] ELSE Renewed[k]) # Null
        BY <2>1, <4>1, CollectedArrives
      <4>3. ref' = IF HasResult THEN IF Executor.type = "decode" THEN Produced ELSE Renewed ELSE Passed
        BY <3>3 DEF ResumeCodec, Settle
      <4>4. QED
        BY <2>2, <2>5, <4>1, <4>2, <4>3
    <3>4. CASE DispatchWork
      BY <2>2, <2>6, <3>4 DEF DispatchWork, Settle
    <3>5. CASE CaptureWork
      BY <2>2, <2>5, <3>5 DEF CaptureWork, IsCapture, Settle
    <3>6. QED
      BY <1>3, <3>1, <3>2, <3>3, <3>4, <3>5
  <2>8. BitmapsArrive'
    BY <2>3, <2>7 DEF BitmapsArrive
  <2>9. QED
    BY <1>1, <2>4, <2>8 DEF ArrivesInv
<1>4. QED
  BY <1>2, <1>3 DEF RunOnBitmaps

LEMMA BuildArrives ==
  ASSUME ArrivesInv, NEW g \in Graphs, generation = 0, BuildPipeline(g)
  PROVE  ArrivesInv'
<1>1. MemoryInv' /\ Build(g) /\ UNCHANGED jobs
  BY BuildPipelineInv DEF ArrivesInv, BuildPipeline
<1>2. held' = EmptyMap /\ ref' = [k \in DOMAIN attrs' |-> Null]
  BY DEF BuildPipeline
<1>3. DOMAIN held' = {} /\ DOMAIN ref' = DOMAIN attrs' /\ \A k \in DOMAIN ref' : ref'[k] = Null
  BY <1>2 DEF EmptyMap
<1>4. CASE BuildOk(g)
  <2>1. attrs' = FreshAttrs(g) /\ Built(g)
    BY <1>1, <1>4, RunnerAssumption DEF Build, Built
  <2>2. IsFiniteSet(DOMAIN attrs')
    BY <2>1, FiniteEntries
  <2>3. \A k \in DOMAIN attrs' : attrs'[k].dtype \in {"$encoded", "unknown"}
    BY <2>1 DEF FreshAttrs, Unset
  <2>4. QED
    BY <1>1, <1>3, <2>2, <2>3, FS_EmptySet DEF ArrivesInv, BitmapsFinite, BitmapsArrive
<1>5. CASE ~ BuildOk(g)
  <2>1. UNCHANGED attrs
    BY <1>1, <1>5 DEF Build, functionVars
  <2>2. DOMAIN attrs = {}
    <3>1. Unloaded
      BY <1>1 DEF Build, ArrivesInv, MemoryInv, RunnerInv, Loaded
    <3>2. QED
      BY <3>1 DEF Unloaded, EmptyMap
  <2>3. QED
    BY <1>1, <1>3, <2>1, <2>2, FS_EmptySet DEF ArrivesInv, BitmapsFinite, BitmapsArrive
<1>6. QED
  BY <1>4, <1>5

LEMMA ArrivesNext == GraphsFit /\ ArrivesInv /\ [DriverNext]_driverVars => ArrivesInv'
<1> SUFFICES ASSUME GraphsFit, ArrivesInv, [DriverNext]_driverVars PROVE ArrivesInv'
  OBVIOUS
<1>1. MemoryInv'
  BY MemoryNext DEF ArrivesInv
<1>2. ASSUME UNCHANGED <<attrs, ref, held>>, DOMAIN jobs' \subseteq DOMAIN jobs
      PROVE  ArrivesInv'
  <2>1. IsFiniteSet(DOMAIN jobs')
    BY <1>2, FS_Subset DEF ArrivesInv, BitmapsFinite
  <2>2. QED
    BY <1>1, <1>2, <2>1 DEF ArrivesInv, BitmapsFinite, BitmapsArrive
<1>3. CASE DriverBuild
  BY <1>3, BuildArrives DEF DriverBuild
<1>4. CASE DriverStep
  BY <1>2, <1>4 DEF DriverStep, BeginStep, functionVars, bitmapVars
<1>5. CASE RunLoop
  BY <1>5, RunArrives DEF RunLoop
<1>6. CASE JsWork
  <2>1. PICK t \in DOMAIN jobs : JsTake(t) \/ JsFinish(t)
    BY <1>6 DEF JsWork
  <2>2. CASE JsTake(t)
    BY <1>2, <2>2 DEF JsTake, vars, functionVars
  <2>3. CASE JsFinish(t)
    BY <1>2, <2>3 DEF JsFinish, Fulfil, vars, functionVars
  <2>4. QED
    BY <2>1, <2>2, <2>3
<1>7. CASE OtherCall
  BY <1>2, <1>7 DEF OtherCall, vars, functionVars
<1>8. CASE UNCHANGED driverVars
  BY <1>2, <1>8 DEF driverVars, allVars, vars, functionVars, bitmapVars
<1>9. QED
  BY <1>3, <1>4, <1>5, <1>6, <1>7, <1>8 DEF DriverNext

LEMMA ArrivesInit == DriverInit => ArrivesInv
<1> SUFFICES ASSUME DriverInit PROVE ArrivesInv
  OBVIOUS
<1>1. MemoryInv
  BY MemoryInit
<1>2. DOMAIN ref = {} /\ DOMAIN attrs = {} /\ DOMAIN held = {} /\ DOMAIN jobs = {}
  BY DEF DriverInit, BitmapInit, Init, EmptyMap
<1>3. QED
  BY <1>1, <1>2, FS_EmptySet DEF ArrivesInv, BitmapsFinite, BitmapsArrive

----------------------------------------------------------------------------
\* The entries of type bitmap are those with a bitmap, for any graphs that can
\* be built and are wired.
THEOREM ArrivesInvariant ==
  ASSUME GraphsFit
  PROVE  DriverSpec => []ArrivesInv
<1>1. ArrivesInv /\ [DriverNext]_driverVars => ArrivesInv'
  BY ArrivesNext
<1>2. QED
  BY <1>1, ArrivesInit, PTL DEF DriverSpec

\* Whoever finds an attribute of type bitmap finds a bitmap in it, so that the
\* checks hasBitmap and readBitmap of the functions never fail.
THEOREM BitmapsArriveAlways ==
  ASSUME GraphsFit
  PROVE  DriverSpec => []BitmapsArrive
<1>1. ArrivesInv => BitmapsArrive
  BY DEF ArrivesInv
<1>2. QED
  BY <1>1, ArrivesInvariant, PTL

----------------------------------------------------------------------------
(***************************************************************************)
(* What ends the program                                                   *)
(***************************************************************************)

\* How a run of an executor moves the pipeline on.
Reports(status) == \E outputs, awaits : result' = Report(status, outputs, awaits)

Pauses ==
  /\ Executor.uri \in Async \cup Gpu /\ Self \notin DOMAIN started
  /\ DOMAIN started' = DOMAIN started \cup {Self}
  /\ saved' = pos /\ phase' = "idle" /\ UNCHANGED <<pos, completed>>
  /\ Reports("PARTIAL")

GivesUp ==
  /\ Executor.uri \in Async /\ Self \in DOMAIN started /\ ~ HasResult
  /\ phase' = "idle" /\ UNCHANGED <<started, saved, pos, completed>>
  /\ Reports("ERROR")

GoesOn ==
  /\ UNCHANGED started
  /\ Executor.uri \in DOMAIN Outcomes \/ Self \in DOMAIN started
  /\ Executor.uri \in Async => HasResult
  /\ completed' = Recorded(attrs')
  /\ \/ /\ phase' = "stepping" /\ UNCHANGED <<saved, result>>
        /\ pos' = <<pos[1], pos[2] + 1>> \/ (IsLast /\ pos' = <<pos[1] + 1, 1>>)
     \/ /\ phase' = "idle" /\ saved' = <<1, 1>> /\ IsLast /\ pos[1] = Len(sequence)
        /\ Reports("SUCCESS")

LEMMA RunMoves ==
  ASSUME Running, RunsExecutor(Transferred), phase' # "aborted"
  PROVE  Pauses \/ GivesUp \/ GoesOn
<1> DEFINE A == Transferred
<1>1. /\ ~ Abort /\ Async \cap Gpu = {} /\ DOMAIN Outcomes \cap (Async \cup Gpu) = {}
      /\ Executor.uri \in DOMAIN Outcomes => Outcomes[Executor.uri] = {"DONE"}
      /\ phase = "stepping"
  BY RunnerAssumption, BitmapAssumption DEF Abort, Running
<1>2. ASSUME NEW B, FinishExecutor(B), UNCHANGED started,
             Executor.uri \in DOMAIN Outcomes \/ Self \in DOMAIN started,
             Executor.uri \in Async => HasResult
      PROVE  GoesOn
  <2>1. attrs' = B /\ completed' = Recorded(B)
    BY <1>2 DEF FinishExecutor
  <2>2. \/ /\ phase' = "stepping" /\ UNCHANGED <<saved, result>>
           /\ pos' = <<pos[1], pos[2] + 1>> \/ (IsLast /\ pos' = <<pos[1] + 1, 1>>)
        \/ /\ phase' = "idle" /\ saved' = <<1, 1>> /\ IsLast /\ pos[1] = Len(sequence)
           /\ Reports("SUCCESS")
    BY <1>1, <1>2 DEF FinishExecutor, Reports
  <2>3. QED
    BY <1>2, <2>1, <2>2 DEF GoesOn
<1>3. \A awaits : Pause(awaits) =>
        /\ saved' = pos /\ phase' = "idle" /\ UNCHANGED <<pos, completed>>
        /\ Reports("PARTIAL")
  BY DEF Pause, Reports
<1>4. Break => phase' = "idle" /\ UNCHANGED <<saved, pos, completed>> /\ Reports("ERROR")
  BY DEF Break, Reports
<1> HIDE DEF A
<1>5. CASE Executor.uri \in DOMAIN Outcomes /\ RunSync(A)
  <2>1. FinishExecutor(Written(A)) /\ UNCHANGED started
    BY <1>1, <1>5 DEF RunSync
  <2>2. QED
    BY <1>1, <1>2, <1>5, <2>1
<1>6. CASE Executor.uri \in Async /\ Self \notin DOMAIN started /\ HandOver(A)
  <2>1. DOMAIN started' = DOMAIN started \cup {Self} /\ Pause({StageNode})
    BY <1>1, <1>6 DEF HandOver
  <2>2. QED
    BY <1>3, <1>6, <2>1 DEF Pauses
<1>7. CASE Executor.uri \in Async /\ Self \in DOMAIN started /\ Resume(A)
  <2>1. UNCHANGED started /\ ((HasResult /\ FinishExecutor(Collected(A))) \/ (~ HasResult /\ Break))
    BY <1>7 DEF Resume
  <2>2. QED
    BY <1>2, <1>4, <1>7, <2>1 DEF GivesUp
<1>8. CASE Executor.uri \in Gpu /\ Self \notin DOMAIN started /\ Dispatch(A)
  <2>1. DOMAIN started' = DOMAIN started \cup {Self} /\ Pause({StageNode})
    BY <1>1, <1>8 DEF Dispatch
  <2>2. QED
    BY <1>3, <1>8, <2>1 DEF Pauses
<1>9. CASE Executor.uri \in Gpu /\ Self \in DOMAIN started /\ Capture(A)
  <2>1. FinishExecutor(A) /\ UNCHANGED started
    BY <1>1, <1>9 DEF Capture
  <2>2. QED
    BY <1>1, <1>2, <1>9, <2>1
<1>10. QED
  BY <1>1, <1>5, <1>6, <1>7, <1>8, <1>9 DEF RunsExecutor, A

\* The pipeline of the one graph that a coordinator builds, and runs on.
OnTrack == generation = 1 /\ phase \in {"idle", "stepping"}

BuiltOnce == generation \in {0, 1} /\ (generation = 1 => Complete(built))

DriverInv == ArrivesInv /\ ValuesInv /\ BuiltOnce

\* The executor at which the next step goes on.
NextUp == <<sequence[saved[1]][2], saved[2]>>

ExecutorOf(x) == stages[x[1]].executors[x[2]]

\* It has handed over a task and was not run again since.
IsWaiting(x) ==
  /\ x \in DOMAIN started /\ saved[1] \in DOMAIN sequence /\ x = NextUp
  /\ phase = "idle" \/ pos = saved

\* No task is handed over ahead of the saved position.
NoneAhead ==
  \A x \in DOMAIN started : \E a \in DOMAIN sequence :
    sequence[a][2] = x[1] /\ NotAhead(<<a, x[2]>>, saved)

\* A bitmap that JavaScript is to paint is there, with an image of the present
\* heap.
ImagesFresh ==
  \A x \in DOMAIN started :
    (IsWaiting(x) /\ ExecutorOf(x).uri \in Gpu) =>
      held[x].dst \in DOMAIN mem /\ mem[held[x].dst].image = heap

AbortInv ==
  /\ AbortsOnlyAfterAll
  /\ (OnTrack /\ coordinator # "busy" /\ DOMAIN completed # GraphOutputs(built)) =>
       NoneAhead /\ ImagesFresh

\* A running step of the one build is steady.
LEMMA SteadyRun ==
  ASSUME GraphsFit, DriverInv, RunExecutor, generation = 1
  PROVE  Steady /\ ValuesKept /\ Complete(built)
<1>1. Complete(built) /\ RunnerInv /\ phase = "stepping" /\ UNCHANGED pipelineVars
  BY DEF DriverInv, BuiltOnce, ValuesInv, RunExecutor
<1>2. Loaded /\ Reached(pos) /\ pos[1] \in DOMAIN sequence /\ \A i \in DOMAIN sequence : sequence[i][1] \in 1 .. 1
  BY <1>1 DEF RunnerInv, TypeOK, Reached
<1>3. Running
  BY <1>1, <1>2 DEF Running
<1>4. Fitting(built)
  BY <1>1, <1>2, LoadedFits DEF Complete, Sound
<1>5. InSequence /\ ValuesKept
  BY <1>1, <1>2, <1>4 DEF DriverInv, ValuesInv
<1>6. QED
  BY <1>1, <1>3, <1>4, <1>5 DEF Steady, ValuesKept

\* A run of an executor that waits is at the saved position.
LEMMA WaitingRun ==
  ASSUME Steady, ValuesKept, NoneAhead, Self \in DOMAIN started
  PROVE  pos = saved /\ Self = NextUp /\ saved[1] \in DOMAIN sequence
<1>1. /\ pos \in Nat \X Nat /\ saved \in Nat \X Nat /\ NotAhead(saved, pos)
      /\ phase = "stepping" /\ sequence \in Seq(Nat \X Nat)
      /\ pos[1] \in DOMAIN sequence
  BY RunningStage, SavedTyped DEF Steady, ValuesKept, Running, RunnerInv
<1>2. PICK a \in DOMAIN sequence : sequence[a][2] = StageNode /\ NotAhead(<<a, pos[2]>>, saved)
  BY DEF NoneAhead, Self
<1>3. a \in Nat /\ a > 0 /\ ~ (a \in 1 .. pos[1] - 1)
  <2>1. a \in Nat /\ a > 0
    BY <1>1, SMTT(30)
  <2>2. QED
    BY <1>2, <2>1, PlaceOfRun
<1>4. a >= pos[1]
  BY <1>1, <1>3
<1>5. pos[1] = saved[1] /\ pos[2] = saved[2]
  BY <1>1, <1>2, <1>3, <1>4 DEF NotAhead
<1>6. pos = saved
  BY <1>1, <1>5, SMTT(30)
<1>7. QED
  BY <1>1, <1>6 DEF Self, NextUp, StageNode

\* In a complete graph of which no function refuses what it gets, nothing but
\* capturing a bitmap ends the program.
LEMMA OnlyCaptureAborts ==
  ASSUME Steady, Complete(built), NothingRefused(built), RunsExecutor(Transferred),
         phase' = "aborted"
  PROVE  IsCapture
<1>1. phase = "stepping" /\ InputsOk(Transferred) /\ Executor.uri \in Registered
  BY CompleteIsReadable, AcceptedArrives, RunningExecutor
     DEF Steady, Running, Complete, Sound, InputsOk
<1>2. \A B : ~ FinishExecutor(B)
  BY <1>1 DEF FinishExecutor
<1>3. (\A awaits : ~ Pause(awaits)) /\ ~ Break
  BY DEF Pause, Break
<1>4. QED
  BY <1>1, <1>2, <1>3 DEF RunsExecutor, RunSync, HandOver, Resume, Dispatch, IsCapture

\* The image of a bitmap that is new is that of the heap it was made in.
LEMMA DispatchedImage ==
  ASSUME BitmapsFinite, DispatchWork
  PROVE  held'[Self].dst \in DOMAIN mem' /\ mem'[held'[Self].dst].image = heap'
<1>1. Settle(Produced, Hold(Read, Fresh), CreateNewBitmap(Blank))
  BY DEF DispatchWork
<1>2. held' = Hold(Read, Fresh)
  BY <1>1 DEF Settle
<1>3. Self \in DOMAIN held' /\ held'[Self].dst = Fresh
  BY <1>2 DEF Hold
<1>4. Fresh # Null
  BY FreshIsNew
<1>5. Fresh \in Kept(Produced, held')
  BY <1>3, <1>4, KeptHolds
<1>6. mem' = [a \in Kept(Produced, held') |-> CreateNewBitmap(Blank)[a]]
  BY <1>1, <1>2 DEF Settle
<1>7. CreateNewBitmap(Blank)[Fresh] = [picture |-> Blank, image |-> heap']
  BY DEF CreateNewBitmap, Painted
<1>8. QED
  BY <1>3, <1>5, <1>6, <1>7

\* No output is withdrawn, so that a run which does not report the last one
\* found one missing.
LEMMA MissingBefore ==
  ASSUME Running, UNCHANGED built, completed' = completed \/ \E A : completed' = Recorded(A),
         DOMAIN completed' # GraphOutputs(built'), DOMAIN completed' \subseteq GraphOutputs(built')
  PROVE  DOMAIN completed # GraphOutputs(built)
BY RecordedOutputs

\* The last stage records what was not recorded before.
LEMMA LastRecordsAll ==
  ASSUME Running, pos[1] = Len(sequence), NEW A
  PROVE  GraphOutputs(built) = DOMAIN Recorded(A)
<1>1. /\ Loaded /\ Reached(pos) /\ sequence \in Seq(Nat \X Nat) /\ pos[1] \in Nat
      /\ DOMAIN completed \subseteq DOMAIN Recorded(A)
      /\ DOMAIN Recorded(A) \subseteq GraphOutputs(built)
      /\ StageNode \in GraphOutputs(built) => StageNode \in DOMAIN Recorded(A)
  BY RunningStage, RecordedOutputs DEF Running, RunnerInv
<1>2. ASSUME NEW n \in GraphOutputs(built) PROVE n \in DOMAIN Recorded(A)
  <2>1. PICK i \in DOMAIN sequence : sequence[i] = <<generation, n>>
    BY <1>1 DEF Loaded, GraphOutputs
  <2>2. sequence[i][2] = n /\ (i = pos[1] \/ i \in 1 .. pos[1] - 1)
    BY <1>1, <2>1
  <2>3. QED
    BY <1>1, <1>2, <2>2 DEF Reached, StageNode
<1>3. QED
  BY <1>1, <1>2

\* Reaching the running position is reaching no more.
LEMMA AheadOrder ==
  ASSUME NEW a \in Nat, NEW b \in Nat, saved \in Nat \X Nat, pos \in Nat \X Nat,
         NotAhead(<<a, b>>, saved), NotAhead(saved, pos)
  PROVE  NotAhead(<<a, b>>, pos)
BY DEF NotAhead

LEMMA AbortOnly ==
  ASSUME RunsExecutor(Transferred), phase = "stepping", phase' = "aborted"
  PROVE  Abort
<1>1. \A B : ~ FinishExecutor(B)
  BY DEF FinishExecutor
<1>2. (\A awaits : ~ Pause(awaits)) /\ ~ Break
  BY DEF Pause, Break
<1>3. QED
  BY <1>1, <1>2 DEF RunsExecutor, RunSync, HandOver, Resume, Dispatch, Capture

LEMMA RunKeepsAbort ==
  ASSUME GraphsFit, DriverInv, DriverInv', AbortInv, RunLoop
  PROVE  AbortInv'
<1>1. /\ RunExecutor /\ UNCHANGED pipelineVars /\ UNCHANGED coordinator /\ phase = "stepping"
      /\ UNCHANGED <<built, stages, sequence, generation>>
  BY DEF RunLoop, RunOnBitmaps, RunExecutor, pipelineVars
<1> SUFFICES ASSUME generation = 1, coordinator # "busy" PROVE AbortInv'
  BY <1>1 DEF AbortInv, AbortsOnlyAfterAll, OnTrack
<1>2. Steady /\ ValuesKept /\ Complete(built) /\ Running /\ RunnerInv /\ RunnerInv'
  BY <1>1, SteadyRun DEF Steady, DriverInv, ValuesInv
<1>3. RunsExecutor(Transferred)
  <2>1. sequence[pos[1]][1] = generation
    BY <1>2 DEF Running
  <2>2. QED
    BY <1>1, <2>1 DEF RunExecutor, RunsExecutor
<1>4. OnTrack /\ (DOMAIN completed # GraphOutputs(built) => NoneAhead /\ ImagesFresh)
  BY <1>1 DEF AbortInv, OnTrack
<1>5. CASE phase' = "aborted"
  <2> SUFFICES ASSUME NothingRefused(built') PROVE DOMAIN completed' = GraphOutputs(built')
    BY <1>5 DEF AbortInv, AbortsOnlyAfterAll, OnTrack
  <2>1. IsCapture /\ ~ CanCapture
    <3>1. NothingRefused(built)
      BY <1>1
    <3>2. QED
      BY <1>2, <1>3, <1>5, <3>1, OnlyCaptureAborts DEF RunLoop, RunOnBitmaps
  <2>2. completed' = completed
    <3>1. Abort
      BY <1>1, <1>3, <1>5, AbortOnly
    <3>2. QED
      BY <3>1 DEF Abort
  <2>3. CASE DOMAIN completed # GraphOutputs(built)
    <3>1. NoneAhead /\ ImagesFresh /\ Self \in DOMAIN started /\ Executor.uri \in Gpu
      BY <1>4, <2>1, <2>3 DEF IsCapture
    <3>2. IsWaiting(Self)
      BY <1>2, <3>1, WaitingRun DEF IsWaiting
    <3>3. ExecutorOf(Self) = Executor
      BY DEF ExecutorOf, Self, Executor, ThisStage
    <3>4. QED
      BY <2>1, <3>1, <3>2, <3>3 DEF ImagesFresh, CanCapture, Own
  <2>4. QED
    BY <1>1, <2>2, <2>3
<1>6. CASE phase' # "aborted"
  <2>1. SUFFICES ASSUME OnTrack', DOMAIN completed' # GraphOutputs(built')
                 PROVE  NoneAhead' /\ ImagesFresh'
    BY <1>6 DEF AbortInv, AbortsOnlyAfterAll
  <2>2. Pauses \/ GivesUp \/ GoesOn
    BY <1>2, <1>3, <1>6, RunMoves
  <2>3. DOMAIN completed # GraphOutputs(built)
    <3>1. completed' = completed \/ \E A : completed' = Recorded(A)
      BY <2>2 DEF Pauses, GivesUp, GoesOn
    <3>2. DOMAIN completed' \subseteq GraphOutputs(built')
      BY <1>2, <2>1 DEF OnTrack, RunnerInv, Unloaded
    <3>3. QED
      BY <1>1, <1>2, <2>1, <3>1, <3>2, MissingBefore
  <2>4. NoneAhead /\ ImagesFresh
    BY <1>4, <2>3
  <2>5. /\ pos \in Nat \X Nat /\ saved \in Nat \X Nat /\ NotAhead(saved, pos) /\ pos[1] \in DOMAIN sequence
    BY <1>1, <1>2, RunningStage, SavedTyped DEF ValuesKept
  <2>6. phase' \notin {"aborted", "undefined"} /\ phase' \in {"idle", "stepping"}
    BY <2>1 DEF OnTrack
  <2>7. ComputeAtOnce \/ StartCodec \/ ResumeCodec \/ DispatchWork \/ CaptureWork
    BY <2>6 DEF RunLoop, RunOnBitmaps
  <2>8. CASE Pauses
    <3>1. NoneAhead'
      <4>1. ASSUME NEW x \in DOMAIN started'
            PROVE  \E a \in DOMAIN sequence' : sequence'[a][2] = x[1] /\ NotAhead(<<a, x[2]>>, saved')
        <5>1. CASE x = Self
          BY <1>1, <2>5, <2>8, <5>1 DEF Pauses, Self, StageNode, NotAhead
        <5>2. CASE x # Self
          <6>1. x \in DOMAIN started
            BY <2>8, <4>1, <5>2 DEF Pauses
          <6>2. PICK a \in DOMAIN sequence : sequence[a][2] = x[1] /\ NotAhead(<<a, x[2]>>, saved)
            BY <2>4, <6>1 DEF NoneAhead
          <6>3. NotAhead(<<a, x[2]>>, pos)
            <7>1. a \in Nat
              BY <1>2 DEF RunnerInv
            <7>2. x[2] \in Nat
              BY <1>2, <6>1 DEF RunnerInv, TypeOK
            <7>3. QED
              BY <2>5, <6>2, <7>1, <7>2, AheadOrder
          <6>4. QED
            BY <1>1, <2>8, <6>2, <6>3 DEF Pauses
        <5>3. QED
          BY <5>1, <5>2
      <4>2. QED
        BY <4>1 DEF NoneAhead
    <3>2. ASSUME NEW x \in DOMAIN started', IsWaiting(x)', ExecutorOf(x)'.uri \in Gpu
          PROVE  held'[x].dst \in DOMAIN mem' /\ mem'[held'[x].dst].image = heap'
      <4>1. x = Self
        BY <1>1, <2>8, <3>2 DEF IsWaiting, NextUp, Pauses, Self, StageNode
      <4>2. Executor.uri \in Gpu /\ Self \notin DOMAIN started
        BY <1>1, <2>8, <3>2, <4>1 DEF ExecutorOf, Self, Executor, ThisStage, Pauses
      <4>3. DispatchWork
        BY <2>7, <4>2, RunnerAssumption DEF ComputeAtOnce, StartCodec, ResumeCodec, CaptureWork, IsCapture
      <4>4. QED
        BY <4>1, <4>3, DispatchedImage DEF DriverInv, ArrivesInv
    <3>3. QED
      BY <3>1, <3>2 DEF ImagesFresh
  <2>9. CASE GivesUp
    <3>1. pos = saved /\ Self = NextUp
      BY <1>2, <2>4, <2>9, WaitingRun DEF GivesUp
    <3>2. NoneAhead'
      BY <1>1, <2>4, <2>9 DEF NoneAhead, GivesUp
    <3>3. ASSUME NEW x \in DOMAIN started', IsWaiting(x)', ExecutorOf(x)'.uri \in Gpu PROVE FALSE
      <4>1. x = Self
        BY <1>1, <2>9, <3>1, <3>3 DEF IsWaiting, NextUp, GivesUp
      <4>2. Executor.uri \in Gpu
        BY <1>1, <3>3, <4>1 DEF ExecutorOf, Self, Executor, ThisStage
      <4>3. QED
        BY <2>9, <4>2, RunnerAssumption DEF GivesUp
    <3>4. QED
      BY <3>2, <3>3 DEF ImagesFresh
  <2>10. CASE GoesOn /\ phase' = "stepping"
    <3>1. UNCHANGED started /\ saved' = saved /\ (pos' = <<pos[1], pos[2] + 1>> \/ pos' = <<pos[1] + 1, 1>>)
      BY <2>10 DEF GoesOn
    <3>2. pos' # saved'
      BY <2>5, <3>1 DEF NotAhead
    <3>3. NoneAhead' /\ \A x : ~ IsWaiting(x)'
      BY <1>1, <2>4, <2>10, <3>1, <3>2 DEF NoneAhead, IsWaiting
    <3>4. QED
      BY <3>3 DEF ImagesFresh
  <2>11. CASE GoesOn /\ phase' # "stepping"
    <3>1. pos[1] = Len(sequence) /\ completed' = Recorded(attrs')
      BY <2>11 DEF GoesOn
    <3>2. QED
      BY <1>1, <1>2, <2>1, <3>1, LastRecordsAll
  <2>12. QED
    BY <2>2, <2>8, <2>9, <2>10, <2>11
<1>7. QED
  BY <1>5, <1>6

----------------------------------------------------------------------------
\* Between two runs of executors the positions stay, and the images with them.
LEMMA AbortStays ==
  ASSUME AbortInv,
         UNCHANGED <<built, stages, sequence, generation, started, saved, completed, held, coordinator>>,
         phase = "idle", phase' \in {"idle", "stepping"}, phase' = "stepping" => pos' = saved,
         coordinator # "busy" => heap' = heap,
         DOMAIN mem' = DOMAIN mem, \A a \in DOMAIN mem : mem'[a].image = mem[a].image
  PROVE  AbortInv'
<1>1. AbortsOnlyAfterAll'
  BY DEF AbortsOnlyAfterAll
<1>2. SUFFICES ASSUME OnTrack', coordinator # "busy", DOMAIN completed # GraphOutputs(built)
               PROVE  NoneAhead' /\ ImagesFresh'
  BY <1>1 DEF AbortInv
<1>3. NoneAhead /\ ImagesFresh
  BY <1>2 DEF AbortInv, OnTrack
<1>4. NoneAhead'
  BY <1>3 DEF NoneAhead
<1>5. ASSUME NEW x \in DOMAIN started', IsWaiting(x)', ExecutorOf(x)'.uri \in Gpu
      PROVE  held'[x].dst \in DOMAIN mem' /\ mem'[held'[x].dst].image = heap'
  <2>1. x \in DOMAIN started /\ IsWaiting(x) /\ ExecutorOf(x).uri \in Gpu
    BY <1>5 DEF IsWaiting, NextUp, ExecutorOf
  <2>2. QED
    BY <1>2, <1>3, <2>1 DEF ImagesFresh
<1>6. QED
  BY <1>4, <1>5 DEF ImagesFresh

LEMMA JsKeepsImages ==
  ASSUME MemoryInv, JsWork
  PROVE  /\ UNCHANGED <<built, stages, sequence, generation, attrs, started, saved, pos, completed, phase, result>>
         /\ UNCHANGED <<ref, held, heap, coordinator>>
         /\ phase = "idle"
         /\ DOMAIN mem' = DOMAIN mem /\ \A a \in DOMAIN mem : mem'[a].image = mem[a].image
<1>1. PICK t \in DOMAIN jobs : JsTake(t) \/ JsFinish(t)
  BY DEF JsWork
<1>2. UNCHANGED coordinator
  BY DEF JsWork
<1>3. CASE JsTake(t)
  BY <1>2, <1>3 DEF JsTake, vars, pipelineVars, functionVars
<1>4. CASE JsFinish(t)
  <2>1. UNCHANGED <<built, stages, sequence, generation, attrs, started, saved, pos, completed, phase, result>>
    BY <1>4 DEF JsFinish, Fulfil, vars, pipelineVars, functionVars
  <2>2. UNCHANGED <<ref, held, heap>> /\ phase = "idle"
    BY <1>4 DEF JsFinish
  <2>3. DOMAIN mem' = DOMAIN mem /\ \A a \in DOMAIN mem : mem'[a].image = mem[a].image
    BY <1>4 DEF JsFinish, MemoryInv
  <2>4. QED
    BY <1>2, <2>1, <2>2, <2>3
<1>5. QED
  BY <1>1, <1>3, <1>4

LEMMA AbortNext ==
  ASSUME GraphsFit, DriverInv, DriverInv', AbortInv, [DriverNext]_driverVars
  PROVE  AbortInv'
<1>1. CASE DriverBuild
  <2>1. PICK g \in Graphs : Build(g) /\ generation = 0
    BY <1>1 DEF DriverBuild, BuildPipeline
  <2>2. \/ phase' = "aborted" /\ generation' = 0
        \/ phase' = "idle" /\ started' = EmptyMap
    BY <2>1 DEF Build
  <2>3. QED
    BY <2>2 DEF AbortInv, AbortsOnlyAfterAll, OnTrack, NoneAhead, ImagesFresh, EmptyMap
<1>2. CASE DriverStep
  <2>1. BeginStep /\ UNCHANGED <<bitmapVars, coordinator>>
    BY <1>2 DEF DriverStep
  <2>2. /\ UNCHANGED <<built, stages, sequence, generation, started, saved, completed>>
        /\ phase = "idle" /\ phase' \in {"idle", "stepping"} /\ (phase' = "stepping" => pos' = saved)
    BY <2>1 DEF BeginStep, pipelineVars, functionVars
  <2>3. UNCHANGED <<held, heap, mem, coordinator>>
    BY <2>1 DEF bitmapVars
  <2>4. QED
    BY <2>2, <2>3, AbortStays
<1>3. CASE RunLoop
  BY <1>3, RunKeepsAbort
<1>4. CASE JsWork
  <2>1. MemoryInv
    BY DEF DriverInv, ArrivesInv
  <2>2. QED
    BY <1>4, <2>1, JsKeepsImages, AbortStays
<1>5. CASE OtherCall
  <2>1. UNCHANGED <<built, stages, sequence, generation, started, saved, completed, held, mem, coordinator>>
    BY <1>5 DEF OtherCall, vars, pipelineVars, functionVars
  <2>2. phase = "idle" /\ phase' = "idle" /\ coordinator = "busy"
    BY <1>5 DEF OtherCall, vars
  <2>3. QED
    BY <2>1, <2>2, AbortStays
<1>6. CASE UNCHANGED driverVars
  <2>1. /\ UNCHANGED <<built, stages, sequence, generation, started, saved, pos, completed, phase>>
        /\ UNCHANGED <<held, mem, heap, coordinator>>
    BY <1>6 DEF driverVars, allVars, bitmapVars, vars, pipelineVars, functionVars
  <2>2. QED
    BY <2>1 DEF AbortInv, AbortsOnlyAfterAll, OnTrack, NoneAhead, ImagesFresh, IsWaiting, NextUp, ExecutorOf
<1>7. QED
  BY <1>1, <1>2, <1>3, <1>4, <1>5, <1>6 DEF DriverNext

LEMMA AbortInit == DriverInit => AbortInv
BY DEF DriverInit, BitmapInit, Init, AbortInv, AbortsOnlyAfterAll, OnTrack

\* The pipeline is built once, of a complete graph.
LEMMA OnceNext == BuiltOnce /\ [DriverNext]_driverVars => BuiltOnce'
<1> SUFFICES ASSUME BuiltOnce, [DriverNext]_driverVars PROVE BuiltOnce'
  OBVIOUS
<1>1. CASE DriverBuild
  <2>1. PICK g \in Graphs : Complete(g) /\ Build(g) /\ generation = 0
    BY <1>1 DEF DriverBuild, BuildPipeline
  <2>2. built' = g /\ (generation' = 0 \/ generation' = 1)
    BY <2>1 DEF Build
  <2>3. QED
    BY <2>1, <2>2 DEF BuiltOnce
<1>2. CASE UNCHANGED <<built, generation>>
  BY <1>2 DEF BuiltOnce
<1>3. DriverStep \/ RunLoop \/ JsWork \/ OtherCall \/ UNCHANGED driverVars => UNCHANGED <<built, generation>>
  <2>1. DriverStep \/ RunLoop => UNCHANGED <<built, generation>>
    BY DEF DriverStep, BeginStep, RunLoop, RunOnBitmaps, RunExecutor, pipelineVars
  <2>2. JsWork => UNCHANGED <<built, generation>>
    BY DEF JsWork, JsTake, JsFinish, Fulfil, vars, pipelineVars
  <2>3. OtherCall \/ UNCHANGED driverVars => UNCHANGED <<built, generation>>
    BY DEF OtherCall, driverVars, allVars, vars, pipelineVars
  <2>4. QED
    BY <2>1, <2>2, <2>3
<1>4. QED
  BY <1>1, <1>2, <1>3 DEF DriverNext

\* The bitmaps, the values and the one build, together.
THEOREM DriverInvariant ==
  ASSUME GraphsFit
  PROVE  DriverSpec => []DriverInv
<1>1. DriverInit => BuiltOnce
  BY DEF DriverInit, BitmapInit, Init, BuiltOnce
<1>2. DriverSpec => []BuiltOnce
  BY <1>1, OnceNext, PTL DEF DriverSpec
<1>3. DriverSpec => []ValuesInv
  BY DriverImplementsRunner, ValuesInvariant, PTL
<1>4. ArrivesInv /\ ValuesInv /\ BuiltOnce => DriverInv
  BY DEF DriverInv
<1>5. QED
  BY <1>2, <1>3, <1>4, ArrivesInvariant, PTL

\* Stepping too early, or once more after the end, ends the program only when
\* there is nothing left to report, if no function refuses what the graph gives
\* it.
THEOREM AbortsOnlyAfterAllAlways ==
  ASSUME GraphsFit
  PROVE  DriverSpec => []AbortsOnlyAfterAll
<1>1. DriverInv /\ DriverInv' /\ AbortInv /\ [DriverNext]_driverVars => AbortInv'
  BY AbortNext
<1>2. AbortInv => AbortsOnlyAfterAll
  BY DEF AbortInv
<1>3. QED
  BY <1>1, <1>2, AbortInit, DriverInvariant, PTL DEF DriverSpec

----------------------------------------------------------------------------
(***************************************************************************)
(* What the bitmaps show                                                   *)
(***************************************************************************)

\* A coordinator for which the pictures are always what they should be.
Watched == coordinator = "patient" \/ (coordinator = "hasty" /\ ~ UsesGpu(built))

\* A patient coordinator will step again.
StepsOn == coordinator = "patient" => (result = NoResult \/ result.status = "PARTIAL")

\* A task that JavaScript works on is that of the executor at which the next
\* step goes on.  It sees what it should, and is to make what it should.
JobIsRight(t) ==
  LET job == jobs[t]
      executor == ExecutorOf(<<t[2], t[3]>>)
  IN  /\ job.heap = heap
      /\ (job.seen = Null /\ job.src # Null) => mem[job.src].picture = job.wants
      /\ job.seen # Null => job.seen = job.wants
      /\ executor.uri \in Gpu => job.mode = "paint"
      /\ executor.uri \in Async =>
           job.mode = IF executor.type = "decode" THEN "load" ELSE "store"
      /\ job.mode = "store" => job.wants = Values(built)[<<t[2], "$in">>]

JobsInTurn ==
  \A t \in DOMAIN jobs :
    /\ t = <<generation, t[2], t[3]>> /\ IsWaiting(<<t[2], t[3]>>)
    /\ ExecutorOf(<<t[2], t[3]>>).uri \in Async \cup Gpu
    /\ t \in DOMAIN tasks => tasks[t] = "pending"
    /\ coordinator = "patient" => t \in DOMAIN tasks /\ phase = "idle"
    /\ JobIsRight(t)

\* What a WebGPU function asks to be painted of the value v.
PaintOf(uri, v) == IF uri \in Overdraw THEN Unfinished(v) ELSE v

Painting == {x \in DOMAIN started : IsWaiting(x) /\ ExecutorOf(x).uri \in Gpu}

Unpainted == {held[x].dst : x \in Painting}

\* The bitmaps in r show what the attributes in A say, but for those in U.
Shows(A, r, m, U) ==
  \A k \in DOMAIN A : (A[k].dtype = "bitmap" /\ r[k] \notin U) => m[r[k]].picture = A[k].value

\* Every bitmap shows the value of the attributes that refer to it, but for
\* those that are being painted.
PicturesRight == Shows(attrs, ref, mem, Unpainted)

\* Only the function that asked for it refers to a bitmap that is being
\* painted, and it will show the value of the output.
PaintingRight ==
  \A x \in Painting :
    LET t == <<generation, x[1], x[2]>>
    IN  /\ held[x].dst # Null
        /\ \A k \in DOMAIN ref : ref[k] = held[x].dst =>
             k = <<x[1], x[2], k[3]>> /\ k[3] \in DOMAIN ExecutorOf(x).gives
               /\ ExecutorOf(x).gives[k[3]] = "bitmap"
        /\ \A y \in DOMAIN ExecutorOf(x).gives : ExecutorOf(x).gives[y] = "bitmap" =>
             (IF t \in DOMAIN jobs THEN jobs[t].makes ELSE mem[held[x].dst].picture)
               = PaintOf(ExecutorOf(x).uri, Values(built)[<<x[1], y>>])

IsStored(n) == n \in DOMAIN assets /\ assets[n] = Values(built)[<<n, "$in">>]

\* The pictures of fulfilled and of collected tasks are stored.
AssetsRight ==
  /\ \A t \in DOMAIN tasks :
       (t[1] = generation /\ tasks[t] = "fulfilled"
          /\ ExecutorOf(<<t[2], t[3]>>).uri \in Async /\ ExecutorOf(<<t[2], t[3]>>).type = "encode")
         => IsStored(t[2])
  /\ \A n \in DOMAIN completed : ExecutorOf(<<n, 1>>).uri \in Async => IsStored(n)

\* The way of the coordinator: a patient one asks for nothing ahead of the
\* saved position, a hasty one has nothing painted.
WayIsKept ==
  /\ coordinator = "patient" => (phase = "stepping" => StepsOn) /\ (StepsOn => NoneAhead)
  /\ coordinator = "hasty" => \A x \in DOMAIN started : ExecutorOf(x).uri \notin Gpu

StoredInv ==
  /\ generation = 0 => DOMAIN tasks = {}
  /\ (OnTrack /\ Watched) =>
       JobsInTurn /\ AssetsRight /\ WayIsKept /\ (StepsOn => PicturesRight /\ PaintingRight)

\* NoResult is no report of a step.
NoResultIsNone == \A status, outputs, awaits : Report(status, outputs, awaits) # NoResult

----------------------------------------------------------------------------
(* The pictures of one run                                                 *)

\* A transfer moves type, value and reference together.
LEMMA PassedShows ==
  ASSUME Running, MemoryInv, NEW U, Shows(attrs, ref, mem, U)
  PROVE  Shows(Transferred, Passed, mem, U)
<1>1. PICK o \in [DOMAIN ref -> DOMAIN ref] :
        \A k \in DOMAIN ref : Transferred[k] = attrs[o[k]] /\ Passed[k] = ref[o[k]]
  BY PassedTogether
<1>2. DOMAIN ref = DOMAIN attrs /\ DOMAIN Transferred = DOMAIN ref
  BY PassedRefs, TransferredEntries DEF SameEntries, MemoryInv, MemoryTypeOK
<1>3. QED
  BY <1>1, <1>2 DEF Shows

\* What an executor reads and gives has an entry.
LEMMA OwnEntries ==
  ASSUME Running, MemoryInv
  PROVE  /\ \A x \in DOMAIN Executor.takes \cup DOMAIN Executor.gives : Key(x) \in DOMAIN ref
         /\ DOMAIN Transferred = DOMAIN ref /\ DOMAIN Passed = DOMAIN ref
<1>1. /\ Executor = Executors(built, StageNode)[pos[2]]
      /\ pos[2] \in DOMAIN Executors(built, StageNode) /\ StageNode \in DOMAIN built.nodeInfos
  BY RunningStage DEF Executor
<1>2. \A x \in DOMAIN Executor.takes \cup DOMAIN Executor.gives : Key(x) \in DOMAIN FreshAttrs(built)
  BY <1>1, FreshEntries DEF EntryNames, Key
<1>3. QED
  BY <1>2, PassedRefs, TransferredEntries DEF SameEntries

\* A function finds its bitmaps as its attributes say.
LEMMA SourcesShow ==
  ASSUME Running, MemoryInv, Readable(Transferred), Shows(Transferred, Passed, mem, {})
  PROVE  /\ SourcesAreRight
         /\ Read # Null => mem[Read].picture = Expected
<1>1. ASSUME NEW k \in Sources PROVE mem[Passed[k]].picture = Transferred[k].value
  <2>1. PICK x \in DOMAIN Executor.takes : k = Key(x) /\ Executor.takes[x] = "bitmap"
    BY DEF Sources, Bitmaps
  <2>2. Transferred[k].dtype = "bitmap" /\ k \in DOMAIN Transferred
    BY <2>1, OwnEntries DEF Readable
  <2>3. QED
    BY <2>2 DEF Shows
<1>2. CASE Sources = {}
  BY <1>1, <1>2 DEF SourcesAreRight, Read
<1>3. CASE Sources # {}
  <2>1. (CHOOSE k \in Sources : TRUE) \in Sources
    BY <1>3
  <2>2. QED
    BY <1>1, <1>3, <2>1 DEF SourcesAreRight, Read, Expected
<1>4. QED
  BY <1>2, <1>3

\* A bitmap that is passed on stays apart from a new one.
LEMMA NewIsApart ==
  ASSUME Running, MemoryInv, BitmapsFinite, NEW k \in DOMAIN ref, Passed[k] # Null, k \notin Given
  PROVE  Passed[k] # Fresh
<1>1. Renewed[k] = Passed[k] /\ k \in DOMAIN Renewed
  BY DEF Renewed, Given
<1>2. Passed[k] \in Kept(Renewed, held)
  BY <1>1, KeptHolds
<1>3. QED
  BY <1>2, FreshIsNew

\* Where nothing new is made, what is passed on shows what it did.
LEMMA ShowsPassed ==
  ASSUME NEW U, MemoryInv, BitmapsArrive', DOMAIN attrs' = DOMAIN ref, DOMAIN Transferred = DOMAIN ref,
         DOMAIN Passed = DOMAIN ref,
         Shows(Transferred, Passed, mem, U), NEW h,
         \/ Settle(Passed, h, mem) /\ attrs' = Transferred
         \/ Settle(Renewed, h, mem) /\ \A k \in DOMAIN ref \ Given : attrs'[k] = Transferred[k]
  PROVE  Shows(attrs', ref', mem', U)
<1> SUFFICES ASSUME NEW k \in DOMAIN ref, attrs'[k].dtype = "bitmap", ref'[k] \notin U
             PROVE  mem'[ref'[k]].picture = attrs'[k].value
  BY DEF Shows
<1>1. ref'[k] # Null
  BY DEF BitmapsArrive
<1>2. ref' \in {Passed, Renewed} /\ mem' = [a \in Kept(ref', h) |-> mem[a]] /\ held' = h
  BY DEF Settle
<1>3. ref'[k] = Passed[k] /\ attrs'[k] = Transferred[k] /\ k \in DOMAIN ref'
  <2>1. CASE Settle(Passed, h, mem) /\ attrs' = Transferred
    BY <2>1 DEF Settle
  <2>2. CASE Settle(Renewed, h, mem) /\ \A e \in DOMAIN ref \ Given : attrs'[e] = Transferred[e]
    <3>1. ref' = Renewed
      BY <2>2 DEF Settle
    <3>2. k \in DOMAIN Renewed /\ Renewed[k] = IF k \in Given THEN Null ELSE Passed[k]
      BY DEF Renewed, Given
    <3>3. QED
      BY <1>1, <2>2, <3>1, <3>2
  <2>3. QED
    BY <2>1, <2>2
<1>4. ref'[k] \in Kept(ref', h)
  BY <1>1, <1>3, KeptHolds
<1>5. QED
  BY <1>2, <1>3, <1>4 DEF Shows

\* Where a bitmap is made, it shows its picture and the others what they did.
LEMMA ShowsNew ==
  ASSUME Running, MemoryInv, BitmapsFinite, BitmapsArrive, BitmapsArrive', DOMAIN attrs' = DOMAIN ref,
         Shows(Transferred, Passed, mem, {}), NEW h, NEW picture, NEW image, NEW U,
         Settle(Produced, h, Painted(Fresh, picture, image)),
         \A k \in DOMAIN ref \ Given : attrs'[k] = Transferred[k],
         \A k \in DOMAIN ref : k \in Given => attrs'[k].dtype = Executor.gives[k[3]],
         Fresh \in U \/ \A k \in Products : attrs'[k].value = picture
  PROVE  Shows(attrs', ref', mem', U)
<1> SUFFICES ASSUME NEW k \in DOMAIN ref, attrs'[k].dtype = "bitmap", ref'[k] \notin U
             PROVE  mem'[ref'[k]].picture = attrs'[k].value
  BY DEF Shows
<1> DEFINE m == Painted(Fresh, picture, image)
<1>1. ref'[k] # Null
  BY DEF BitmapsArrive
<1>2. ref' = Produced /\ mem' = [a \in Kept(ref', h) |-> m[a]]
  BY DEF Settle
<1>3. k \in DOMAIN Produced
  BY ProducedRefs
<1>4. ref'[k] \in Kept(ref', h)
  BY <1>1, <1>2, <1>3, KeptHolds
<1>5. /\ k \in Products <=> (k \in Given /\ Executor.gives[k[3]] = "bitmap")
      /\ Produced[k] = IF k \in Products THEN Fresh ELSE IF k \in Given THEN Null ELSE Passed[k]
  <2>1. k \in Products <=> (k \in Given /\ Executor.gives[k[3]] = "bitmap")
    BY GivenEntries
  <2>2. Renewed[k] = IF k \in Given THEN Null ELSE Passed[k]
    BY DEF Renewed, Given
  <2>3. Produced[k] = IF k \in Products THEN Fresh ELSE Renewed[k]
    BY DEF Produced
  <2>4. QED
    BY <2>1, <2>2, <2>3
<1>6. CASE k \in Given
  <2>1. k \in Products /\ ref'[k] = Fresh
    BY <1>1, <1>2, <1>5, <1>6
  <2>2. m[Fresh].picture = picture
    BY DEF Painted
  <2> HIDE DEF m
  <2>3. QED
    BY <1>2, <1>4, <2>1, <2>2
<1>7. CASE k \notin Given
  <2>1. ref'[k] = Passed[k] /\ attrs'[k] = Transferred[k]
    BY <1>2, <1>5, <1>7
  <2>2. Passed[k] # Fresh /\ Passed[k] \in DOMAIN mem
    BY <1>1, <1>7, <2>1, NewIsApart, PassedRefs
  <2>3. m[Passed[k]] = mem[Passed[k]]
    BY <2>2 DEF Painted
  <2>4. mem[Passed[k]].picture = Transferred[k].value
    BY <2>1, OwnEntries DEF Shows
  <2> HIDE DEF m
  <2>5. QED
    BY <1>2, <1>4, <2>1, <2>3, <2>4
<1>8. QED
  BY <1>6, <1>7

----------------------------------------------------------------------------
(* A run of an executor while the pictures are watched *)

WatchedRun ==
  /\ Steady /\ ValuesKept /\ Complete(built) /\ DriverInv /\ DriverInv'
  /\ OnTrack /\ OnTrack' /\ Watched /\ StoredInv
  /\ RunsExecutor(Transferred) /\ RunLoop

\* What is known of a run, gathered.
LEMMA RunFacts ==
  ASSUME WatchedRun
  PROVE  /\ Running /\ RunnerInv /\ MemoryInv /\ ArrivesInv /\ BitmapsFinite /\ BitmapsArrive
         /\ ArrivesInv' /\ MemoryInv' /\ BitmapsArrive' /\ RunnerInv'
         /\ phase = "stepping" /\ phase' \in {"idle", "stepping"}
         /\ UNCHANGED <<built, stages, sequence, generation, coordinator>>
         /\ JobsInTurn /\ AssetsRight /\ WayIsKept /\ (StepsOn => PicturesRight /\ PaintingRight)
         /\ ComputeAtOnce \/ StartCodec \/ ResumeCodec \/ DispatchWork \/ CaptureWork
         /\ Pauses \/ GivesUp \/ GoesOn
         /\ DOMAIN attrs' = DOMAIN ref /\ DOMAIN attrs = DOMAIN ref
         /\ Readable(Transferred)
<1>1. /\ Running /\ RunnerInv /\ MemoryInv /\ ArrivesInv /\ BitmapsFinite /\ BitmapsArrive
      /\ ArrivesInv' /\ MemoryInv' /\ BitmapsArrive' /\ RunnerInv'
  BY DEF WatchedRun, Steady, DriverInv, ArrivesInv, MemoryInv
<1>2. /\ phase = "stepping" /\ phase' \in {"idle", "stepping"}
      /\ UNCHANGED <<built, stages, sequence, generation, coordinator>>
  BY <1>1 DEF WatchedRun, Running, OnTrack, RunLoop, pipelineVars
<1>3. JobsInTurn /\ AssetsRight /\ WayIsKept /\ (StepsOn => PicturesRight /\ PaintingRight)
  BY DEF WatchedRun, StoredInv
<1>4. ComputeAtOnce \/ StartCodec \/ ResumeCodec \/ DispatchWork \/ CaptureWork
  BY <1>2 DEF WatchedRun, RunLoop, RunOnBitmaps
<1>5. Pauses \/ GivesUp \/ GoesOn
  BY <1>1, <1>2, RunMoves DEF WatchedRun
<1>6. DOMAIN attrs' = DOMAIN ref /\ DOMAIN attrs = DOMAIN ref
  BY <1>1, <1>2, AttributesStay DEF MemoryInv, MemoryTypeOK
<1>7. Readable(Transferred)
  BY CompleteIsReadable DEF WatchedRun
<1>8. QED
  BY <1>1, <1>2, <1>3, <1>4, <1>5, <1>6, <1>7

\* Where the run is, and what waits.
LEMMA RunPlace ==
  ASSUME WatchedRun
  PROVE  /\ StepsOn /\ PicturesRight /\ PaintingRight
         /\ ExecutorOf(Self) = Executor /\ Self[1] = StageNode /\ Self[2] = pos[2]
         /\ coordinator \in {"patient", "hasty"}
         /\ coordinator = "patient" => NoneAhead /\ DOMAIN jobs = {}
         /\ coordinator = "hasty" => Executor.uri \notin Gpu
         /\ \A t \in DOMAIN jobs : t = Task /\ IsWaiting(Self) /\ pos = saved /\ GivesUp
<1>1. /\ phase = "stepping" /\ JobsInTurn /\ WayIsKept /\ (StepsOn => PicturesRight /\ PaintingRight)
      /\ Pauses \/ GivesUp \/ GoesOn
  BY RunFacts
<1>2. coordinator \in {"patient", "hasty"} /\ (coordinator = "hasty" => ~ UsesGpu(built))
  BY DEF WatchedRun, Watched
<1>3. StepsOn /\ (coordinator = "patient" => NoneAhead)
  BY <1>1, <1>2 DEF WayIsKept, StepsOn
<1>4. ExecutorOf(Self) = Executor /\ Self[1] = StageNode /\ Self[2] = pos[2]
  BY DEF ExecutorOf, Self, Executor, ThisStage
<1>5. coordinator = "patient" => DOMAIN jobs = {}
  BY <1>1 DEF JobsInTurn
<1>6. ASSUME coordinator = "hasty", Executor.uri \in Gpu PROVE FALSE
  <2>1. Executor = MainFunction(built, StageNode) /\ StageNode \in DOMAIN built.nodeInfos
    BY <1>6, RunningExecutor DEF WatchedRun
  <2>2. Executor.uri = built.nodeInfos[StageNode].uri
    BY <2>1 DEF MainFunction
  <2>3. QED
    BY <1>2, <1>6, <2>1, <2>2 DEF UsesGpu
<1>7. ASSUME NEW t \in DOMAIN jobs PROVE t = Task /\ IsWaiting(Self) /\ pos = saved /\ GivesUp
  <2>1. /\ t = <<generation, t[2], t[3]>> /\ IsWaiting(<<t[2], t[3]>>)
        /\ ExecutorOf(<<t[2], t[3]>>).uri \in Async \cup Gpu
        /\ t \in DOMAIN tasks => tasks[t] = "pending"
    BY <1>1 DEF JobsInTurn
  <2>2. pos = saved /\ <<t[2], t[3]>> = NextUp /\ NextUp \in DOMAIN started
    BY <1>1, <2>1 DEF IsWaiting
  <2>3. NextUp = Self
    BY <2>2 DEF NextUp, Self, StageNode
  <2>4. t = Task
    BY <2>1, <2>2, <2>3 DEF Task, Self
  <2>5. Executor.uri \in Async
    BY <1>2, <1>4, <1>5, <1>6, <2>1, <2>2, <2>3
  <2>6. ~ HasResult
    BY <2>1, <2>4 DEF HasResult
  <2>7. GivesUp
    BY <1>1, <2>2, <2>3, <2>5, <2>6 DEF Pauses, GoesOn
  <2>8. QED
    BY <2>1, <2>2, <2>3, <2>4, <2>7
<1>8. QED
  BY <1>1, <1>2, <1>3, <1>4, <1>5, <1>6, <1>7

\* What is painted is what is captured now.
LEMMA RunPaints ==
  ASSUME WatchedRun
  PROVE  /\ \A x \in Painting : x = Self /\ IsCapture
         /\ IsCapture => Self \in Painting /\ pos = saved /\ coordinator = "patient"
         /\ ~ IsCapture => Unpainted = {} /\ Shows(attrs, ref, mem, {})
         /\ IsCapture => Shows(attrs, ref, mem, {Own}) /\ Unpainted = {Own}
<1>1. phase = "stepping" /\ PicturesRight /\ ExecutorOf(Self) = Executor
  BY RunFacts, RunPlace
<1>2. ASSUME NEW x \in Painting PROVE x = Self /\ IsCapture
  <2>1. x \in DOMAIN started /\ x = NextUp /\ pos = saved /\ ExecutorOf(x).uri \in Gpu
    BY <1>1 DEF Painting, IsWaiting
  <2>2. x = Self
    BY <2>1 DEF NextUp, Self, StageNode
  <2>3. QED
    BY <1>1, <2>1, <2>2 DEF IsCapture
<1>3. ASSUME IsCapture PROVE Self \in Painting /\ pos = saved /\ coordinator = "patient"
  <2>1. coordinator = "patient" /\ NoneAhead
    BY <1>3, RunPlace DEF IsCapture
  <2>2. pos = saved /\ Self = NextUp /\ saved[1] \in DOMAIN sequence /\ Self \in DOMAIN started
    BY <1>3, <2>1, WaitingRun DEF WatchedRun, IsCapture
  <2>3. QED
    BY <1>1, <1>3, <2>1, <2>2 DEF Painting, IsWaiting, IsCapture
<1>4. ~ IsCapture => Unpainted = {}
  BY <1>2 DEF Unpainted
<1>5. IsCapture => Unpainted = {Own}
  BY <1>2, <1>3 DEF Unpainted, Own
<1>6. QED
  BY <1>1, <1>2, <1>3, <1>4, <1>5 DEF PicturesRight

\* What is painted after the run.
LEMMA PaintingAfter ==
  ASSUME NoResultIsNone, WatchedRun, StepsOn'
  PROVE  Painting' = IF Executor.uri \in Gpu /\ Self \notin DOMAIN started THEN {Self} ELSE {}
<1>1. /\ phase = "stepping" /\ UNCHANGED <<built, stages, sequence, generation, coordinator>>
      /\ Pauses \/ GivesUp \/ GoesOn
      /\ Running /\ WayIsKept
  BY RunFacts
<1>2. /\ ExecutorOf(Self) = Executor /\ coordinator \in {"patient", "hasty"}
      /\ coordinator = "hasty" => Executor.uri \notin Gpu
  BY RunPlace
<1>3. \A x : ExecutorOf(x)' = ExecutorOf(x)
  BY <1>1 DEF ExecutorOf
<1>4. pos \in Nat \X Nat /\ saved \in Nat \X Nat /\ NotAhead(saved, pos) /\ pos[1] \in DOMAIN sequence
  BY <1>1, RunningStage, SavedTyped DEF WatchedRun, ValuesKept
<1>5. CASE Pauses
  <2>1. \A x : IsWaiting(x)' <=> x = Self
    BY <1>1, <1>4, <1>5 DEF Pauses, IsWaiting, NextUp, Self, StageNode
  <2>2. DOMAIN started' = DOMAIN started \cup {Self} /\ Self \notin DOMAIN started
    BY <1>5 DEF Pauses
  <2>3. QED
    BY <1>2, <1>3, <2>1, <2>2 DEF Painting
<1>6. CASE ~ Pauses /\ coordinator = "hasty"
  <2>1. started' = started
    BY <1>1, <1>6 DEF GivesUp, GoesOn
  <2>2. \A x \in DOMAIN started : ExecutorOf(x).uri \notin Gpu
    BY <1>1, <1>6 DEF WayIsKept
  <2>3. QED
    BY <1>2, <1>3, <1>6, <2>1, <2>2 DEF Painting
<1>7. CASE ~ Pauses /\ coordinator = "patient"
  <2>1. \A status : Reports(status) => result' # NoResult /\ result'.status = status
    BY DEF Reports, Report, NoResultIsNone
  <2>2. result' = NoResult \/ result'.status = "PARTIAL"
    BY <1>1, <1>7 DEF StepsOn
  <2>3. ~ Reports("ERROR") /\ ~ Reports("SUCCESS")
    BY <2>1, <2>2
  <2>4. GoesOn /\ phase' = "stepping"
    BY <1>1, <1>7, <2>3 DEF GivesUp, GoesOn
  <2>5. saved' = saved /\ (pos' = <<pos[1], pos[2] + 1>> \/ pos' = <<pos[1] + 1, 1>>)
    BY <2>4 DEF GoesOn
  <2>6. pos' # saved'
    BY <1>4, <2>5 DEF NotAhead
  <2>7. Painting' = {}
    BY <2>4, <2>6 DEF Painting, IsWaiting
  <2>8. ~ (Executor.uri \in Gpu /\ Self \notin DOMAIN started)
    BY <2>4, RunnerAssumption DEF GoesOn
  <2>9. QED
    BY <2>7, <2>8
<1>8. QED
  BY <1>2, <1>5, <1>6, <1>7

\* A run gives one bitmap at most, and it is what the graph computes.
LEMMA OneProduct ==
  ASSUME BitmapsFit, WatchedRun, NEW k \in Products
  PROVE  /\ k \in DOMAIN ref /\ k \in Given /\ k[1] = StageNode /\ k[2] = pos[2] /\ k = Key(k[3])
         /\ k[3] \in DOMAIN Executor.gives /\ Executor.gives[k[3]] = "bitmap"
         /\ \A l \in Products : l = k
<1>1. Running /\ MemoryInv
  BY RunFacts
<1>2. PICK x \in DOMAIN Executor.gives : k = Key(x) /\ Executor.gives[x] = "bitmap"
  BY DEF Products, Bitmaps
<1>3. k[1] = StageNode /\ k[2] = pos[2] /\ k[3] = x /\ k \in DOMAIN ref /\ k \in Given
  BY <1>1, <1>2, OwnEntries DEF Key, Given
<1>4. ASSUME NEW l \in Products PROVE l = k
  <2>1. PICK z \in DOMAIN Executor.gives : l = Key(z) /\ Executor.gives[z] = "bitmap"
    BY DEF Products, Bitmaps
  <2>2. CASE Executor.type = "function"
    <3>1. Executor = MainFunction(built, StageNode) /\ StageNode \in DOMAIN built.nodeInfos
      BY <2>2, RunningExecutor DEF WatchedRun
    <3>2. /\ DOMAIN Executor.gives = Entries(built.nodeInfos[StageNode].outs)
          /\ \A y \in DOMAIN Executor.gives : Executor.gives[y] = built.slotInfos[<<StageNode, y>>].dtype
      BY <3>1 DEF MainFunction
    <3>3. built \in Graphs
      BY <1>1, RunningStage DEF Loaded
    <3>4. x = z
      BY <1>2, <2>1, <3>1, <3>2, <3>3 DEF BitmapsFit
    <3>5. QED
      BY <1>2, <2>1, <3>4
  <2>3. CASE Executor.type # "function"
    <3>1. DOMAIN Executor.gives = {"$out"}
      BY <2>3, RunningExecutor DEF WatchedRun
    <3>2. QED
      BY <1>2, <2>1, <3>1
  <2>4. QED
    BY <2>2, <2>3
<1>5. QED
  BY <1>2, <1>3, <1>4

\* What a run computes or collects is what the graph computes.
LEMMA ResultIsRight ==
  ASSUME BitmapsFit, WatchedRun, NEW k \in Products
  PROVE  /\ Written(Transferred)[k].value = Result
         /\ Executor.type = "function" => Result = Values(built)[<<StageNode, k[3]>>]
<1>1. (CHOOSE l \in Products : TRUE) = k
  <2>1. (CHOOSE l \in Products : TRUE) \in Products
    OBVIOUS
  <2>2. QED
    BY <2>1, OneProduct
<1>2. Written(Transferred)[k].value = Result
  BY <1>1 DEF Result
<1>3. GivesRight(Written(Transferred))
  BY WrittenIsRight DEF WatchedRun
<1>4. k = Key(k[3]) /\ k[3] \in DOMAIN Executor.gives
  BY OneProduct
<1> DEFINE B == Written(Transferred)
<1> HIDE DEF B
<1>5. Executor.type = "function" => B[Key(k[3])].value = Values(built)[<<StageNode, k[3]>>]
  BY <1>3, <1>4 DEF GivesRight, B
<1>6. B[Key(k[3])].value = B[k].value
  BY <1>4
<1>7. QED
  BY <1>2, <1>5, <1>6 DEF B

\* What a run writes outside of what it gives is what was passed on, and what
\* it gives is of its type.
LEMMA WrittenApart ==
  ASSUME Running, MemoryInv, NEW k \in DOMAIN ref
  PROVE  /\ k \notin Given => Written(Transferred)[k] = Transferred[k]
         /\ k \in Given => Written(Transferred)[k].dtype = Executor.gives[k[3]]
         /\ (k \notin Given /\ Executor.type \in {"encode", "decode"} /\ DOMAIN Executor.gives = {"$out"}) =>
               Collected(Transferred)[k] = Transferred[k]
         /\ (k \in Given /\ DOMAIN Executor.gives = {"$out"}) =>
               /\ Collected(Transferred)[k] = [dtype |-> Executor.gives["$out"], value |-> started[Self]]
               /\ k[3] = "$out"
<1>1. /\ k \in Given <=> (k[1] = StageNode /\ k[2] = pos[2] /\ k[3] \in DOMAIN Executor.gives)
      /\ k \in DOMAIN Transferred
  BY GivenEntries, OwnEntries
<1>2. Written(Transferred)[k] =
        IF k \in Given THEN [dtype |-> Executor.gives[k[3]], value |-> Output(Transferred, k[3])]
        ELSE Transferred[k]
  BY <1>1 DEF Written
<1>3. DOMAIN Executor.gives = {"$out"} => (k \in Given <=> k = Key("$out"))
  BY DEF Given
<1>4. Collected(Transferred)[k] =
        IF k = Key("$out") THEN [dtype |-> Executor.gives["$out"], value |-> started[Self]]
        ELSE Transferred[k]
  BY <1>1 DEF Collected
<1>5. QED
  BY <1>1, <1>2, <1>3, <1>4

\* A run that neither captures a bitmap nor asks for one to be painted leaves
\* bitmaps that show what they should.
LEMMA PlainShows ==
  ASSUME GraphsFit, BitmapsFit, WatchedRun, Executor.uri \notin Gpu
  PROVE  Shows(attrs', ref', mem', {})
<1>1. /\ Running /\ MemoryInv /\ BitmapsFinite /\ BitmapsArrive /\ BitmapsArrive' /\ ArrivesInv
      /\ DOMAIN attrs' = DOMAIN ref /\ Readable(Transferred) /\ phase' # "aborted"
      /\ ComputeAtOnce \/ StartCodec \/ ResumeCodec
  <2>1. ~ DispatchWork /\ ~ CaptureWork
    BY DEF DispatchWork, CaptureWork, IsCapture
  <2>2. QED
    BY <2>1, RunFacts
<1>2. DOMAIN Transferred = DOMAIN ref /\ DOMAIN Passed = DOMAIN ref
  BY <1>1, OwnEntries
<1>3. Shows(Transferred, Passed, mem, {})
  <2>1. Shows(attrs, ref, mem, {})
    BY RunPaints DEF IsCapture
  <2>2. QED
    BY <1>1, <2>1, PassedShows
<1>4. SourcesAreRight
  BY <1>1, <1>3, SourcesShow
<1>5. RunsExecutor(Transferred) /\ Async \cap DOMAIN Outcomes = {}
  BY RunnerAssumption DEF WatchedRun
<1>6. CASE ComputeAtOnce
  <2>1. attrs' = Written(Transferred)
    BY <1>1, <1>5, <1>6, RunLeaves DEF ComputeAtOnce
  <2>2. /\ \A k \in DOMAIN ref \ Given : attrs'[k] = Transferred[k]
        /\ \A k \in DOMAIN ref : k \in Given => attrs'[k].dtype = Executor.gives[k[3]]
    BY <1>1, <2>1, WrittenApart
  <2>3. CASE Products = {} /\ Settle(Renewed, held, mem)
    BY <1>1, <1>2, <1>3, <2>2, <2>3, ShowsPassed
  <2>4. CASE Products # {} /\ Settle(Produced, held, CreateNewBitmap(IF SourcesAreRight THEN Result ELSE Spoiled))
    <3>1. Settle(Produced, held, Painted(Fresh, Result, heap'))
      BY <1>4, <2>4 DEF CreateNewBitmap
    <3>2. \A k \in Products : attrs'[k].value = Result
      BY <2>1, ResultIsRight
    <3>3. QED
      BY <1>1, <1>2, <1>3, <2>2, <3>1, <3>2, ShowsNew
  <2>5. QED
    BY <1>6, <2>3, <2>4 DEF ComputeAtOnce
<1>7. CASE StartCodec
  <2>1. attrs' = Transferred
    BY <1>1, <1>5, <1>7, RunLeaves DEF StartCodec
  <2>2. Settle(Passed, Hold(Read, Null), mem)
    BY <1>7 DEF StartCodec
  <2>3. QED
    BY <1>1, <1>2, <1>3, <2>1, <2>2, ShowsPassed
<1>8. CASE ResumeCodec
  <2>1. /\ Executor.type \in {"encode", "decode"} /\ DOMAIN Executor.gives = {"$out"}
    BY <1>5, <1>8, RunningExecutor, CollectorIsCodec DEF ResumeCodec, WatchedRun
  <2>2. attrs' = IF HasResult THEN Collected(Transferred) ELSE Transferred
    BY <1>1, <1>5, <1>8, RunLeaves DEF ResumeCodec
  <2>3. ASSUME HasResult
        PROVE  /\ \A k \in DOMAIN ref \ Given : attrs'[k] = Transferred[k]
               /\ \A k \in DOMAIN ref : k \in Given =>
                    attrs'[k].dtype = Executor.gives[k[3]] /\ attrs'[k].value = started[Self]
    BY <1>1, <2>1, <2>2, <2>3, WrittenApart
  <2>4. CASE HasResult /\ Executor.type = "decode"
    <3>1. Settle(Produced, held, Painted(Fresh, started[Self], Null))
      BY <1>8, <2>4 DEF ResumeCodec, CreateAllocated
    <3>2. \A k \in Products : attrs'[k].value = started[Self]
      BY <2>3, <2>4, OneProduct
    <3>3. QED
      BY <1>1, <1>2, <1>3, <2>3, <2>4, <3>1, <3>2, ShowsNew
  <2>5. CASE HasResult /\ Executor.type # "decode"
    <3>1. Settle(Renewed, held, mem)
      BY <1>8, <2>5 DEF ResumeCodec
    <3>2. QED
      BY <1>1, <1>2, <1>3, <2>3, <2>5, <3>1, ShowsPassed
  <2>6. CASE ~ HasResult
    <3>1. Settle(Passed, held, mem)
      BY <1>8, <2>6 DEF ResumeCodec
    <3>2. QED
      BY <1>1, <1>2, <1>3, <2>2, <2>6, <3>1, ShowsPassed
  <2>7. QED
    BY <2>4, <2>5, <2>6
<1>9. QED
  BY <1>1, <1>6, <1>7, <1>8

\* Asking for a bitmap to be painted leaves all others as they were.
LEMMA DispatchShows ==
  ASSUME GraphsFit, BitmapsFit, WatchedRun, DispatchWork
  PROVE  Shows(attrs', ref', mem', {Fresh})
<1>1. /\ Running /\ MemoryInv /\ BitmapsFinite /\ BitmapsArrive /\ BitmapsArrive' /\ ArrivesInv
      /\ DOMAIN attrs' = DOMAIN ref /\ Readable(Transferred) /\ phase' # "aborted"
  BY RunFacts
<1>2. DOMAIN Transferred = DOMAIN ref /\ DOMAIN Passed = DOMAIN ref
  BY <1>1, OwnEntries
<1>3. Shows(Transferred, Passed, mem, {})
  <2>1. ~ IsCapture
    BY DEF DispatchWork, IsCapture
  <2>2. Shows(attrs, ref, mem, {})
    BY <2>1, RunPaints
  <2>3. QED
    BY <1>1, <2>2, PassedShows
<1>4. attrs' = Written(Transferred)
  BY <1>1, RunLeaves DEF DispatchWork, WatchedRun
<1>5. /\ \A k \in DOMAIN ref \ Given : attrs'[k] = Transferred[k]
      /\ \A k \in DOMAIN ref : k \in Given => attrs'[k].dtype = Executor.gives[k[3]]
  BY <1>1, <1>4, WrittenApart
<1>6. Settle(Produced, Hold(Read, Fresh), Painted(Fresh, Blank, heap'))
  BY DEF DispatchWork, CreateNewBitmap
<1>7. QED
  BY <1>1, <1>2, <1>3, <1>5, <1>6, ShowsNew

\* What is captured is the value of the output that the function gives.
LEMMA CapturedValue ==
  ASSUME BitmapsFit, WatchedRun, IsCapture, NEW k \in DOMAIN ref, ref[k] = Own
  PROVE  /\ attrs[k].value = Result
         /\ mem[Own].picture = PaintOf(Executor.uri, Result)
<1>1. Self \in Painting /\ PaintingRight /\ coordinator = "patient" /\ DOMAIN jobs = {}
  BY RunPaints, RunPlace
<1>2. ExecutorOf(Self) = Executor /\ Self[1] = StageNode /\ Self[2] = pos[2]
  BY RunPlace
<1>3. /\ k = <<StageNode, pos[2], k[3]>> /\ k[3] \in DOMAIN Executor.gives
      /\ Executor.gives[k[3]] = "bitmap"
  BY <1>1, <1>2 DEF PaintingRight, Own
<1>4. k \in Products
  BY <1>3 DEF Products, Bitmaps, Key
<1>5. Executor.type = "function" /\ IsLast /\ Executor.uri \in Gpu /\ Self \in DOMAIN started
  BY RunningExecutor DEF WatchedRun, IsCapture
<1>6. Result = Values(built)[<<StageNode, k[3]>>]
  BY <1>4, <1>5, ResultIsRight
<1>7. mem[Own].picture = PaintOf(Executor.uri, Values(built)[<<StageNode, k[3]>>])
  <2>1. <<generation, StageNode, pos[2]>> \notin DOMAIN jobs
    BY <1>1
  <2>2. QED
    BY <1>1, <1>2, <1>3, <2>1 DEF PaintingRight, Own
<1>8. Resumable(built, attrs, StageNode, pos[2], started[Self])
  <2>1. \A x \in DOMAIN started : Resumable(built, attrs, x[1], x[2], started[x])
    BY DEF WatchedRun, ValuesKept
  <2>2. QED
    BY <1>2, <1>5, <2>1
<1>9. attrs[k].value = Values(built)[<<StageNode, k[3]>>]
  <2>1. /\ Executor = Executors(built, StageNode)[pos[2]] /\ StageNode \in DOMAIN built.nodeInfos
        /\ pos[2] \in DOMAIN Executors(built, StageNode)
    BY RunningExecutor DEF WatchedRun
  <2>2. HasValue(built, attrs, <<StageNode, k[3]>>)
    BY <1>3, <1>5, <1>8, <2>1 DEF Resumable
  <2>3. pos[2] = Len(Executors(built, StageNode))
    BY <1>5, RunningStage, RunFacts DEF IsLast
  <2>4. MainEntry(built, <<StageNode, k[3]>>) = k
    BY <1>3, <2>3 DEF MainEntry
  <2>5. QED
    BY <2>2, <2>4 DEF HasValue
<1>10. QED
  BY <1>6, <1>7, <1>9

\* After a capture all bitmaps but those being painted show what they should.
LEMMA CaptureShows ==
  ASSUME GraphsFit, BitmapsFit, WatchedRun, CaptureWork
  PROVE  Shows(attrs', ref', mem', {})
<1>1. /\ Running /\ MemoryInv /\ BitmapsArrive'
      /\ DOMAIN attrs' = DOMAIN ref /\ DOMAIN attrs = DOMAIN ref /\ phase' # "aborted"
  BY RunFacts
<1>2. IsCapture /\ Shows(attrs, ref, mem, {Own})
  BY RunPaints DEF CaptureWork
<1>3. attrs' = Transferred
  BY <1>1, <1>2, RunLeaves DEF IsCapture, WatchedRun
<1> DEFINE image == mem[Own].image
           m == Painted(Own, DrawnOver(mem[Own].picture), image)
<1>4. ref' = Passed /\ mem' = [a \in Kept(Passed, held) |-> m[a]] /\ DOMAIN Passed = DOMAIN ref
  BY <1>1, OwnEntries DEF CaptureWork, Settle
<1>5. m[Own].picture = DrawnOver(mem[Own].picture)
  BY DEF Painted
<1>6. \A a \in DOMAIN mem : a # Own => m[a] = mem[a]
  BY DEF Painted
<1> HIDE DEF m
<1>7. PICK o \in [DOMAIN ref -> DOMAIN ref] :
        \A k \in DOMAIN ref : Transferred[k] = attrs[o[k]] /\ Passed[k] = ref[o[k]]
  BY <1>1, PassedTogether
<1>8. ASSUME NEW k \in DOMAIN ref, attrs'[k].dtype = "bitmap"
      PROVE  mem'[ref'[k]].picture = attrs'[k].value
  <2>1. ref'[k] # Null /\ ref'[k] \in Kept(Passed, held) /\ ref'[k] \in DOMAIN mem
    <3>1. ref'[k] # Null
      BY <1>1, <1>8 DEF BitmapsArrive
    <3>2. QED
      BY <1>1, <1>4, <3>1, KeptHolds, PassedRefs
  <2>2. mem'[ref'[k]] = m[ref'[k]] /\ attrs'[k] = attrs[o[k]] /\ ref'[k] = ref[o[k]] /\ o[k] \in DOMAIN ref
    BY <1>3, <1>4, <1>7, <2>1
  <2>3. CASE ref'[k] # Own
    BY <1>1, <1>2, <1>6, <1>8, <2>1, <2>2, <2>3 DEF Shows
  <2>4. CASE ref'[k] = Own
    <3>1. attrs[o[k]].value = Result /\ mem[Own].picture = PaintOf(Executor.uri, Result)
      BY <1>2, <2>2, <2>4, CapturedValue
    <3>2. DrawnOver(mem[Own].picture) = Result
      BY <3>1 DEF DrawnOver, PaintOf
    <3>3. QED
      BY <1>5, <2>2, <2>4, <3>1, <3>2
  <2>5. QED
    BY <2>3, <2>4
<1>9. QED
  BY <1>1, <1>8 DEF Shows

\* The pictures after a run.
LEMMA RunKeepsPictures ==
  ASSUME GraphsFit, BitmapsFit, NoResultIsNone, WatchedRun, StepsOn'
  PROVE  PicturesRight' /\ PaintingRight'
<1>1. /\ Running /\ MemoryInv /\ BitmapsFinite
      /\ UNCHANGED <<built, stages, sequence, generation, coordinator>>
      /\ ComputeAtOnce \/ StartCodec \/ ResumeCodec \/ DispatchWork \/ CaptureWork
  BY RunFacts
<1>2. Painting' = IF Executor.uri \in Gpu /\ Self \notin DOMAIN started THEN {Self} ELSE {}
  BY PaintingAfter
<1>3. CASE ~ (Executor.uri \in Gpu /\ Self \notin DOMAIN started)
  <2>1. Unpainted' = {} /\ PaintingRight'
    BY <1>2, <1>3 DEF Unpainted, PaintingRight
  <2>2. Shows(attrs', ref', mem', {})
    <3>1. CASE Executor.uri \notin Gpu
      BY <3>1, PlainShows
    <3>2. CASE Executor.uri \in Gpu
      <4>1. CaptureWork
        BY <1>1, <1>3, <3>2, RunnerAssumption DEF ComputeAtOnce, StartCodec, ResumeCodec, DispatchWork
      <4>2. QED
        BY <4>1, CaptureShows
    <3>3. QED
      BY <3>1, <3>2
  <2>3. QED
    BY <2>1, <2>2 DEF PicturesRight
<1>4. CASE Executor.uri \in Gpu /\ Self \notin DOMAIN started
  <2>1. DispatchWork
    BY <1>1, <1>4, RunnerAssumption DEF ComputeAtOnce, StartCodec, ResumeCodec, CaptureWork, IsCapture
  <2>2. Painting' = {Self}
    BY <1>2, <1>4
  <2>3. held' = Hold(Read, Fresh) /\ ref' = Produced
    BY <2>1 DEF DispatchWork, Settle
  <2>4. held'[Self].dst = Fresh
    BY <2>3 DEF Hold
  <2>5. Unpainted' = {Fresh}
    BY <2>2, <2>4 DEF Unpainted
  <2>6. PicturesRight'
    BY <2>1, <2>5, DispatchShows DEF PicturesRight
  <2>7. Fresh # Null
    BY <1>1, FreshIsNew
  <2>8. ASSUME NEW k \in DOMAIN ref', ref'[k] = Fresh
        PROVE  /\ k = <<StageNode, pos[2], k[3]>> /\ k[3] \in DOMAIN Executor.gives
               /\ Executor.gives[k[3]] = "bitmap"
    <3>1. k \in DOMAIN ref
      BY <2>3, <2>8, ProducedRefs
    <3>2. k \in Products
      <4>1. Produced[k] = IF k \in Products THEN Fresh ELSE Renewed[k]
        BY <3>1 DEF Produced
      <4>2. Renewed[k] = IF k \in Given THEN Null ELSE Passed[k]
        BY <3>1 DEF Renewed, Given
      <4>3. QED
        BY <1>1, <2>3, <2>7, <2>8, <3>1, <4>1, <4>2, NewIsApart
    <3>3. QED
      BY <3>2, OneProduct DEF Key
  <2>9. Task \in DOMAIN jobs' /\ jobs'[Task].makes = PaintOf(Executor.uri, Result)
    BY <2>1 DEF DispatchWork, GiveJob, Job, PaintOf
  <2>10. ASSUME NEW y \in DOMAIN Executor.gives, Executor.gives[y] = "bitmap"
         PROVE  Result = Values(built)[<<StageNode, y>>]
    <3>1. Key(y) \in Products /\ Key(y)[3] = y
      BY <2>10 DEF Products, Bitmaps, Key
    <3>2. Executor.type = "function"
      BY <1>4, RunningExecutor DEF WatchedRun
    <3>3. QED
      BY <3>1, <3>2, ResultIsRight
  <2>11. /\ \A x : ExecutorOf(x)' = ExecutorOf(x)
         /\ ExecutorOf(Self) = Executor /\ Self[1] = StageNode /\ Self[2] = pos[2]
    BY <1>1, RunPlace DEF ExecutorOf
  <2>12. ASSUME NEW x \in Painting'
         PROVE  /\ held'[x].dst = Fresh /\ ExecutorOf(x)' = Executor
                /\ x[1] = StageNode /\ x[2] = pos[2] /\ <<generation', x[1], x[2]>> = Task
    <3>1. x = Self
      BY <2>2, <2>12
    <3>2. <<generation', x[1], x[2]>> = Task
      BY <1>1, <2>11, <3>1 DEF Task
    <3>3. QED
      BY <2>4, <2>11, <3>1, <3>2
  <2>13. ASSUME NEW y \in DOMAIN Executor.gives, Executor.gives[y] = "bitmap"
         PROVE  (IF Task \in DOMAIN jobs' THEN jobs'[Task].makes ELSE mem'[Fresh].picture)
                   = PaintOf(Executor.uri, Values(built')[<<StageNode, y>>])
    BY <1>1, <2>9, <2>10, <2>13
  <2>14. PaintingRight'
    BY <2>7, <2>8, <2>12, <2>13 DEF PaintingRight, PaintOf
  <2>15. QED
    BY <2>6, <2>14
<1>5. QED
  BY <1>3, <1>4

\* What a run does to the tasks.
LEMMA RunTasks ==
  ASSUME Running, RunsExecutor(Transferred), phase' # "aborted"
  PROVE  /\ \A t \in DOMAIN tasks' : \/ t \in DOMAIN tasks /\ tasks'[t] = tasks[t]
                                     \/ t = Task /\ tasks'[t] = "pending"
         /\ Pauses => Task \in DOMAIN tasks' /\ tasks'[Task] = "pending"
         /\ GivesUp => Task \notin DOMAIN tasks'
<1>1. ~ Abort
  BY DEF Abort
<1>2. AddTask => /\ \A t \in DOMAIN tasks' : \/ t \in DOMAIN tasks /\ tasks'[t] = tasks[t]
                                             \/ t = Task /\ tasks'[t] = "pending"
                 /\ Task \in DOMAIN tasks' /\ tasks'[Task] = "pending"
  BY DEF AddTask
<1>3. ReleaseTask => /\ \A t \in DOMAIN tasks' : t \in DOMAIN tasks /\ tasks'[t] = tasks[t]
                     /\ Task \notin DOMAIN tasks'
  BY DEF ReleaseTask
<1>4. Pauses => AddTask
  <2>1. SUFFICES ASSUME Pauses PROVE AddTask
    OBVIOUS
  <2>2. Executor.uri \in Async \cup Gpu /\ Self \notin DOMAIN started
    BY <2>1 DEF Pauses
  <2>3. QED
    BY <1>1, <2>2, RunnerAssumption DEF RunsExecutor, HandOver, Dispatch, Registered
<1>5. GivesUp => ReleaseTask
  <2>1. SUFFICES ASSUME GivesUp PROVE ReleaseTask
    OBVIOUS
  <2>2. Executor.uri \in Async /\ Self \in DOMAIN started
    BY <2>1 DEF GivesUp
  <2>3. QED
    BY <1>1, <2>2, RunnerAssumption DEF RunsExecutor, Resume, Registered
<1>6. AddTask \/ ReleaseTask \/ tasks' = tasks
  BY <1>1 DEF RunsExecutor, RunSync, HandOver, Resume, Dispatch, Capture
<1>7. QED
  BY <1>2, <1>3, <1>4, <1>5, <1>6

\* Positions after a pause.
LEMMA PausePlace ==
  ASSUME WatchedRun, Pauses
  PROVE  \A x : x = <<StageNode, pos[2]>> => IsWaiting(x)'
<1>1. UNCHANGED <<sequence>> /\ pos[1] \in DOMAIN sequence
  BY RunFacts, RunningStage
<1>2. /\ saved' = pos /\ phase' = "idle" /\ <<StageNode, pos[2]>> \in DOMAIN started'
  BY DEF Pauses, Self
<1>3. NextUp' = <<StageNode, pos[2]>>
  BY <1>1, <1>2 DEF NextUp, StageNode
<1>4. QED
  BY <1>1, <1>2, <1>3 DEF IsWaiting

\* A task that was given up works on what it did.
LEMMA GivenUpJobs ==
  ASSUME WatchedRun, GivesUp
  PROVE  JobsInTurn'
<1>1. /\ Running /\ MemoryInv /\ JobsInTurn /\ phase' = "idle"
      /\ UNCHANGED <<built, stages, sequence, generation, coordinator>>
      /\ ComputeAtOnce \/ StartCodec \/ ResumeCodec \/ DispatchWork \/ CaptureWork
  BY RunFacts DEF GivesUp
<1>2. UNCHANGED <<started, saved>> /\ ~ HasResult /\ Executor.uri \in Async /\ Self \in DOMAIN started
  BY DEF GivesUp
<1>3. ResumeCodec
  BY <1>1, <1>2, RunnerAssumption DEF ComputeAtOnce, StartCodec, DispatchWork, CaptureWork, IsCapture
<1>4. UNCHANGED <<jobs, heap>> /\ Settle(Passed, held, mem)
  BY <1>2, <1>3 DEF ResumeCodec
<1>5. Task \notin DOMAIN tasks'
  BY <1>1, RunTasks DEF WatchedRun
<1>6. coordinator # "patient" \/ DOMAIN jobs = {}
  BY RunPlace
<1>7. ASSUME NEW t \in DOMAIN jobs
      PROVE  /\ IsWaiting(<<t[2], t[3]>>)' /\ t \notin DOMAIN tasks'
             /\ ExecutorOf(<<t[2], t[3]>>)' = ExecutorOf(<<t[2], t[3]>>)
  <2>1. t = Task
    BY RunPlace
  <2>2. IsWaiting(<<t[2], t[3]>>)
    BY <1>1 DEF JobsInTurn
  <2>3. ASSUME NEW x, IsWaiting(x) PROVE IsWaiting(x)' /\ ExecutorOf(x)' = ExecutorOf(x)
    BY <1>1, <1>2, <2>3 DEF IsWaiting, NextUp, ExecutorOf
  <2>4. t[2]' = t[2] /\ t[3]' = t[3]
    OBVIOUS
  <2>5. QED
    BY <1>5, <2>1, <2>2, <2>3
<1>8. ASSUME NEW t \in DOMAIN jobs, jobs[t].src # Null
      PROVE  mem'[jobs[t].src] = mem[jobs[t].src]
  <2>1. t[1] = generation
    BY <1>1, RunPlace DEF Task
  <2>2. <<t[2], t[3]>> \in DOMAIN held /\ held[<<t[2], t[3]>>].src = jobs[t].src
    BY <1>1, <2>1 DEF MemoryInv, Lent
  <2>3. jobs[t].src \in Kept(Passed, held)
    BY <1>8, <2>2, KeptHolds
  <2>4. QED
    BY <1>4, <2>3 DEF Settle
<1>9. \A t \in DOMAIN jobs : JobIsRight(t)'
  <2>1. SUFFICES ASSUME NEW t \in DOMAIN jobs PROVE JobIsRight(t)'
    OBVIOUS
  <2>2. JobIsRight(t)
    BY <1>1 DEF JobsInTurn
  <2>3. jobs' = jobs /\ heap' = heap /\ built' = built
    BY <1>1, <1>4
  <2>4. ExecutorOf(<<t[2], t[3]>>)' = ExecutorOf(<<t[2], t[3]>>)
    BY <1>7
  <2>5. jobs[t].src # Null => mem'[jobs[t].src] = mem[jobs[t].src]
    BY <1>8
  <2>6. QED
    BY <2>2, <2>3, <2>4, <2>5 DEF JobIsRight
<1>10. QED
  <2>1. SUFFICES ASSUME NEW t \in DOMAIN jobs
        PROVE  /\ t = <<generation', t[2], t[3]>> /\ IsWaiting(<<t[2], t[3]>>)'
               /\ ExecutorOf(<<t[2], t[3]>>)'.uri \in Async \cup Gpu
               /\ t \in DOMAIN tasks' => tasks'[t] = "pending"
               /\ coordinator' = "patient" => t \in DOMAIN tasks' /\ phase' = "idle"
               /\ JobIsRight(t)'
    <3>1. jobs' = jobs
      BY <1>4
    <3>2. QED
      BY <3>1 DEF JobsInTurn
  <2>2. t = <<generation, t[2], t[3]>> /\ ExecutorOf(<<t[2], t[3]>>).uri \in Async \cup Gpu
    BY <1>1 DEF JobsInTurn
  <2>3. QED
    BY <1>1, <1>6, <1>7, <1>9, <2>2

\* The executor of a graph output.
LEMMA EncoderOf ==
  ASSUME NEW g, Built(g), IsWired(g), NEW n \in DOMAIN g.nodeInfos, g.nodeInfos[n].ntype = "OUT",
         NEW i \in DOMAIN Executors(g, n)
  PROVE  i = 1 /\ Executors(g, n)[i] = Encoder(g.slotInfos[<<n, "$in">>].dtype)
<1> DEFINE x == Executors(g, n)[i]
           last == Len(Executors(g, n))
<1>1. g.nodeInfos[n].ntype = "OUT" => i = 1 /\ last = 1 /\ x = Encoder(g.slotInfos[<<n, "$in">>].dtype)
  BY ExecutorAt, ZenonT(30)
<1>2. QED
  BY <1>1

\* An encoder that waits for JavaScript reads a bitmap, and it is that of its
\* graph output.
LEMMA EncoderReads ==
  ASSUME BitmapsFit, WatchedRun, Executor.uri \in Async, Executor.type # "decode"
  PROVE  Expected = Values(built)[<<StageNode, "$in">>]
<1>1. Steady /\ Executor.type = "encode"
  BY RunningExecutor, CollectorIsCodec DEF WatchedRun
<1> DEFINE slot == <<StageNode, "$in">>
           dtype == built.slotInfos[slot].dtype
<1>2. /\ Built(built) /\ IsWired(built) /\ StageNode \in DOMAIN built.nodeInfos
      /\ built.nodeInfos[StageNode].ntype = "OUT"
      /\ Executor = Executors(built, StageNode)[pos[2]] /\ pos[2] \in DOMAIN Executors(built, StageNode)
  BY <1>1, RunningExecutor
<1>3. Executor = Encoder(dtype)
  BY <1>2, EncoderOf
<1>4. dtype \in KnownDtype
  <2>1. IoNames(built, StageNode)[1] = "$in" /\ ~ IsFunction(built, StageNode)
    BY <1>2 DEF IoNames, IsWired, IsFunction
  <2>2. QED
    BY <1>2, <2>1, IoSlot DEF HasSlot
<1>5. Executor.uri = <<"$OUT", dtype>> /\ DOMAIN Executor.takes = {"$in"} /\ Executor.takes["$in"] = dtype
  BY <1>3 DEF Encoder
<1>6. dtype = "bitmap"
  BY <1>4, <1>5 DEF BitmapsFit
<1>7. Sources = {Key("$in")}
  BY <1>5, <1>6 DEF Sources, Bitmaps
<1>8. (CHOOSE k \in Sources : TRUE) = Key("$in")
  BY <1>7
<1>9. Expected = Transferred[Key("$in")].value
  BY <1>7, <1>8 DEF Expected
<1>10. QED
  BY <1>1, <1>9, InputArrives

\* What a run shows to a new task.
LEMMA SourcesShown ==
  ASSUME WatchedRun, ~ IsCapture
  PROVE  Read # Null => Read \in DOMAIN mem /\ mem[Read].picture = Expected
<1>1. Running /\ MemoryInv /\ Readable(Transferred)
  BY RunFacts
<1>2. Shows(Transferred, Passed, mem, {})
  BY <1>1, RunPaints, PassedShows
<1>3. QED
  BY <1>1, <1>2, SourcesShow, ReadIsLive

\* A task that a run gives to JavaScript is right.
LEMMA NewJobs ==
  ASSUME GraphsFit, BitmapsFit, WatchedRun, Pauses
  PROVE  JobsInTurn'
<1>1. /\ Running /\ MemoryInv /\ BitmapsFinite
      /\ UNCHANGED <<built, stages, sequence, generation, coordinator>>
      /\ ComputeAtOnce \/ StartCodec \/ ResumeCodec \/ DispatchWork \/ CaptureWork
  BY RunFacts
<1>2. /\ Executor.uri \in Async \cup Gpu /\ Self \notin DOMAIN started /\ phase' = "idle"
      /\ ~ IsCapture
  BY DEF Pauses, IsCapture
<1>3. DOMAIN jobs = {}
  BY <1>2, RunPlace DEF GivesUp
<1>4. Task \in DOMAIN tasks' /\ tasks'[Task] = "pending"
  BY <1>1, <1>2, RunTasks DEF WatchedRun
<1>5. (\A x : x = <<StageNode, pos[2]>> => IsWaiting(x)') /\ ExecutorOf(<<StageNode, pos[2]>>) = Executor
  BY PausePlace, RunPlace DEF Self
<1>6. Task = <<generation, Task[2], Task[3]>> /\ <<Task[2], Task[3]>> = <<StageNode, pos[2]>>
  BY DEF Task
<1>7. Read # Null => Read \in DOMAIN mem /\ mem[Read].picture = Expected
  BY <1>2, SourcesShown
<1> DEFINE P(job) ==
      /\ DOMAIN jobs' = {Task} /\ jobs'[Task] = job
      /\ job.heap = heap' /\ job.seen = Null /\ job.src = Read /\ job.wants = Expected
      /\ Read # Null => mem'[Read].picture = Expected
      /\ Executor.uri \in Gpu => job.mode = "paint"
      /\ Executor.uri \in Async => job.mode = IF Executor.type = "decode" THEN "load" ELSE "store"
      /\ job.mode = "store" => Expected = Values(built)[<<StageNode, "$in">>]
<1>8. \E job : P(job)
  <2>1. CASE StartCodec
    <3>1. PICK job : job = Job(IF Executor.type = "decode" THEN "load" ELSE "store", Read, Null, Blank)
      OBVIOUS
    <3>2. DOMAIN jobs' = {Task} /\ jobs'[Task] = job
      BY <1>3, <2>1, <3>1 DEF StartCodec, GiveJob
    <3>3. /\ job.heap = heap' /\ job.seen = Null /\ job.src = Read /\ job.wants = Expected
          /\ job.mode = IF Executor.type = "decode" THEN "load" ELSE "store"
      BY <3>1 DEF Job
    <3>4. Read # Null => mem'[Read] = mem[Read]
      <4>1. held' = Hold(Read, Null) /\ mem' = [a \in Kept(Passed, held') |-> mem[a]]
        BY <2>1 DEF StartCodec, Settle
      <4>2. Self \in DOMAIN held' /\ held'[Self].src = Read
        BY <4>1 DEF Hold
      <4>3. Read # Null => Read \in Kept(Passed, held')
        BY <4>2, KeptHolds
      <4>4. QED
        BY <4>1, <4>3
    <3>5. Executor.uri \in Async /\ Executor.uri \notin Gpu
      BY <2>1, RunnerAssumption DEF StartCodec
    <3>6. job.mode = "store" => Expected = Values(built)[<<StageNode, "$in">>]
      BY <3>3, <3>5, EncoderReads
    <3>7. P(job)
      BY <1>7, <3>2, <3>3, <3>4, <3>5, <3>6
    <3>8. QED
      BY <3>7
  <2>2. CASE DispatchWork
    <3>1. PICK makes : GiveJob(Job("paint", Read, Fresh, makes))
      BY <2>2 DEF DispatchWork
    <3>2. PICK job : job = Job("paint", Read, Fresh, makes)
      OBVIOUS
    <3>3. DOMAIN jobs' = {Task} /\ jobs'[Task] = job
      BY <1>3, <3>1, <3>2 DEF GiveJob
    <3>4. /\ job.heap = heap' /\ job.seen = Null /\ job.src = Read /\ job.wants = Expected
          /\ job.mode = "paint"
      BY <3>2 DEF Job
    <3>5. Read # Null => mem'[Read] = mem[Read]
      <4>1. /\ held' = Hold(Read, Fresh)
            /\ mem' = [a \in Kept(Produced, held') |-> Painted(Fresh, Blank, heap')[a]]
        BY <2>2 DEF DispatchWork, Settle, CreateNewBitmap
      <4>2. Self \in DOMAIN held' /\ held'[Self].src = Read
        BY <4>1 DEF Hold
      <4>3. Read # Null => Read \in Kept(Produced, held')
        BY <4>2, KeptHolds
      <4>4. Read # Null => Read # Fresh
        <5>1. SUFFICES ASSUME Read # Null PROVE Read # Fresh
          OBVIOUS
        <5>2. Sources # {} /\ (CHOOSE k \in Sources : TRUE) \in Sources
          BY <5>1 DEF Read
        <5>3. PICK k \in Sources : Read = Passed[k]
          BY <5>2 DEF Read
        <5>4. PICK x \in DOMAIN Executor.takes : k = Key(x)
          BY <5>3 DEF Sources, Bitmaps
        <5>5. k \in DOMAIN ref
          BY <1>1, <5>4, OwnEntries
        <5>6. Executor = MainFunction(built, StageNode) /\ StageNode \in DOMAIN built.nodeInfos /\ IsWired(built)
          BY <2>2, RunningExecutor DEF WatchedRun, DispatchWork
        <5>7. x \notin DOMAIN Executor.gives
          BY <5>4, <5>6 DEF MainFunction, IsWired
        <5>8. k \notin Given
          BY <5>4, <5>7 DEF Given, Key
        <5>9. QED
          BY <1>1, <5>1, <5>3, <5>5, <5>8, NewIsApart
      <4>5. Read # Null => Painted(Fresh, Blank, heap')[Read] = mem[Read]
        BY <1>7, <4>4 DEF Painted
      <4>6. QED
        BY <4>1, <4>3, <4>5
    <3>6. Executor.uri \in Gpu /\ Executor.uri \notin Async
      BY <2>2, RunnerAssumption DEF DispatchWork
    <3>7. P(job)
      BY <1>7, <3>3, <3>4, <3>5, <3>6
    <3>8. QED
      BY <3>7
  <2>3. QED
    BY <1>1, <1>2, <2>1, <2>2, RunnerAssumption DEF ComputeAtOnce, ResumeCodec, CaptureWork
<1> HIDE DEF P
<1>9. PICK job : P(job)
  BY <1>8
<1>10. \A x : ExecutorOf(x)' = ExecutorOf(x)
  BY <1>1 DEF ExecutorOf
<1>11. ASSUME NEW t \in DOMAIN jobs'
       PROVE  /\ t = Task /\ jobs'[t] = job
              /\ t = <<generation', t[2], t[3]>> /\ IsWaiting(<<t[2], t[3]>>)'
              /\ ExecutorOf(<<t[2], t[3]>>)' = Executor
              /\ t \in DOMAIN tasks' /\ tasks'[t] = "pending" /\ t[2] = StageNode
  <2>1. t = Task /\ jobs'[t] = job
    BY <1>9, <1>11 DEF P
  <2>2. <<t[2], t[3]>> = <<StageNode, pos[2]>> /\ t = <<generation, t[2], t[3]>> /\ t[2] = StageNode
    BY <1>6, <2>1 DEF Task
  <2>3. t \in DOMAIN tasks' /\ tasks'[t] = "pending"
    BY <1>4, <2>1
  <2>4. ASSUME NEW x, x = <<StageNode, pos[2]>> PROVE IsWaiting(x)' /\ ExecutorOf(x)' = Executor
    <3>1. ExecutorOf(x)' = ExecutorOf(x)
      BY <1>10
    <3>2. ExecutorOf(x) = Executor
      BY <1>5, <2>4
    <3>3. IsWaiting(x)'
      BY <1>5, <2>4
    <3>4. QED
      BY <3>1, <3>2, <3>3
  <2>5. QED
    BY <1>1, <2>1, <2>2, <2>3, <2>4
<1>12. ASSUME NEW t \in DOMAIN jobs' PROVE JobIsRight(t)'
  BY <1>1, <1>9, <1>11 DEF JobIsRight, P
<1>13. QED
  BY <1>1, <1>2, <1>11, <1>12 DEF JobsInTurn

\* What a run collects is stored.
LEMMA RunKeepsAssets ==
  ASSUME WatchedRun
  PROVE  AssetsRight'
<1>1. /\ Running /\ AssetsRight
      /\ Pauses \/ GivesUp \/ GoesOn
      /\ UNCHANGED <<built, stages, sequence, generation, coordinator>>
      /\ ComputeAtOnce \/ StartCodec \/ ResumeCodec \/ DispatchWork \/ CaptureWork
      /\ phase' # "aborted"
  BY RunFacts
<1>2. assets' = assets
  BY <1>1 DEF ComputeAtOnce, StartCodec, ResumeCodec, DispatchWork, CaptureWork
<1>3. /\ \A x : ExecutorOf(x)' = ExecutorOf(x)
      /\ \A n : IsStored(n)' <=> IsStored(n)
  BY <1>1, <1>2 DEF ExecutorOf, IsStored
<1>4. ASSUME NEW t \in DOMAIN tasks', tasks'[t] = "fulfilled"
      PROVE  t \in DOMAIN tasks /\ tasks[t] = "fulfilled"
  BY <1>1, <1>4, RunTasks DEF WatchedRun
<1>5. ASSUME NEW n \in DOMAIN completed', n \notin DOMAIN completed, ExecutorOf(<<n, 1>>).uri \in Async
      PROVE  IsStored(n)
  <2>1. GoesOn /\ completed' = Recorded(attrs')
    BY <1>1, <1>5 DEF Pauses, GivesUp, GoesOn
  <2>2. n = StageNode /\ Executor.type = "encode"
    BY <1>5, <2>1 DEF Recorded
  <2>3. /\ Built(built) /\ IsWired(built) /\ StageNode \in DOMAIN built.nodeInfos
        /\ built.nodeInfos[StageNode].ntype = "OUT" /\ pos[2] \in DOMAIN Executors(built, StageNode)
    BY <2>2, RunningExecutor DEF WatchedRun
  <2>4. pos[2] = 1
    BY <2>3, EncoderOf
  <2>5. ExecutorOf(Self) = Executor /\ Self = <<n, 1>>
    BY <2>2, <2>4, RunPlace DEF Self
  <2>6. Executor.uri \in Async /\ HasResult
    BY <1>5, <2>1, <2>5 DEF GoesOn
  <2>7. Task \in DOMAIN tasks /\ tasks[Task] = "fulfilled" /\ Task[1] = generation
        /\ <<Task[2], Task[3]>> = Self /\ Task[2] = n
    BY <2>2, <2>6 DEF HasResult, Task, Self
  <2>8. QED
    BY <1>1, <2>2, <2>5, <2>6, <2>7 DEF AssetsRight
<1>6. ASSUME NEW n \in DOMAIN completed', ExecutorOf(<<n, 1>>).uri \in Async PROVE IsStored(n)
  BY <1>1, <1>5, <1>6 DEF AssetsRight
<1>7. ASSUME NEW t \in DOMAIN tasks', t[1] = generation, tasks'[t] = "fulfilled",
             ExecutorOf(<<t[2], t[3]>>).uri \in Async, ExecutorOf(<<t[2], t[3]>>).type = "encode"
      PROVE  IsStored(t[2])
  BY <1>1, <1>4, <1>7 DEF AssetsRight
<1>8. QED
  BY <1>1, <1>3, <1>6, <1>7 DEF AssetsRight

\* A run keeps the coordinator on its way.
LEMMA RunKeepsWay ==
  ASSUME NoResultIsNone, WatchedRun
  PROVE  WayIsKept'
<1>1. /\ phase = "stepping" /\ UNCHANGED <<built, stages, sequence, generation, coordinator>>
      /\ Pauses \/ GivesUp \/ GoesOn
      /\ Running /\ RunnerInv /\ WayIsKept
  BY RunFacts
<1>2. /\ ExecutorOf(Self) = Executor /\ StepsOn /\ Self = <<StageNode, pos[2]>>
      /\ coordinator = "hasty" => Executor.uri \notin Gpu
      /\ coordinator = "patient" => NoneAhead
  BY RunPlace DEF Self
<1>3. \A x : ExecutorOf(x)' = ExecutorOf(x)
  BY <1>1 DEF ExecutorOf
<1>4. /\ pos \in Nat \X Nat /\ saved \in Nat \X Nat /\ NotAhead(saved, pos) /\ pos[1] \in DOMAIN sequence
  BY <1>1, RunningStage, SavedTyped DEF WatchedRun, ValuesKept
<1>5. DOMAIN started' \subseteq DOMAIN started \cup {Self}
  BY <1>1 DEF Pauses, GivesUp, GoesOn
<1>6. coordinator = "hasty" => \A x \in DOMAIN started' : ExecutorOf(x)'.uri \notin Gpu
  BY <1>1, <1>2, <1>3, <1>5 DEF WayIsKept
<1>7. phase' = "stepping" => StepsOn'
  <2>1. SUFFICES ASSUME phase' = "stepping" PROVE StepsOn'
    OBVIOUS
  <2>2. result' = result
    <3>1. ~ Pauses /\ ~ GivesUp
      BY <2>1 DEF Pauses, GivesUp
    <3>2. GoesOn
      BY <1>1, <3>1
    <3>3. QED
      BY <2>1, <3>2 DEF GoesOn
  <2>3. QED
    BY <1>1, <1>2, <2>2 DEF StepsOn
<1>8. ASSUME coordinator = "patient", StepsOn' PROVE NoneAhead'
  <2>1. Pauses \/ (GoesOn /\ UNCHANGED <<started, saved>>)
    <3>1. \A status : Reports(status) => result' # NoResult /\ result'.status = status
      BY DEF Reports, Report, NoResultIsNone
    <3>2. result' = NoResult \/ result'.status = "PARTIAL"
      BY <1>1, <1>8 DEF StepsOn
    <3>3. ~ Reports("ERROR") /\ ~ Reports("SUCCESS")
      BY <3>1, <3>2
    <3>4. QED
      BY <1>1, <3>3 DEF GivesUp, GoesOn
  <2>2. CASE Pauses
    <3>1. ASSUME NEW x \in DOMAIN started'
          PROVE  \E a \in DOMAIN sequence' : sequence'[a][2] = x[1] /\ NotAhead(<<a, x[2]>>, saved')
      <4>1. CASE x = Self
        BY <1>1, <1>4, <2>2, <4>1 DEF Pauses, Self, StageNode, NotAhead
      <4>2. CASE x # Self
        <5>1. x \in DOMAIN started
          BY <1>5, <3>1, <4>2
        <5>2. PICK a \in DOMAIN sequence : sequence[a][2] = x[1] /\ NotAhead(<<a, x[2]>>, saved)
          BY <1>2, <1>8, <5>1 DEF NoneAhead
        <5>3. a \in Nat
          BY <1>1 DEF RunnerInv
        <5>4. x[2] \in Nat
          BY <1>1, <5>1 DEF RunnerInv, TypeOK
        <5>5. NotAhead(<<a, x[2]>>, pos)
          BY <1>4, <5>2, <5>3, <5>4, AheadOrder
        <5>6. QED
          BY <1>1, <2>2, <5>2, <5>5 DEF Pauses
      <4>3. QED
        BY <4>1, <4>2
    <3>2. QED
      BY <3>1 DEF NoneAhead
  <2>3. CASE UNCHANGED <<started, saved>>
    BY <1>1, <1>2, <1>8, <2>3 DEF NoneAhead
  <2>4. QED
    BY <2>1, <2>2, <2>3
<1>9. QED
  BY <1>1, <1>6, <1>7, <1>8 DEF WayIsKept

\* A run keeps what is right while the pictures are watched.
LEMMA RunKeepsStored ==
  ASSUME GraphsFit, BitmapsFit, NoResultIsNone, DriverInv, DriverInv', StoredInv, RunLoop
  PROVE  StoredInv'
<1>1. /\ RunExecutor /\ UNCHANGED pipelineVars /\ UNCHANGED coordinator /\ phase = "stepping"
      /\ UNCHANGED <<built, stages, sequence, generation>>
  BY DEF RunLoop, RunOnBitmaps, RunExecutor, pipelineVars
<1>2. generation # 0
  BY <1>1 DEF DriverInv, ArrivesInv, MemoryInv, RunnerInv, Loaded
<1> SUFFICES ASSUME OnTrack', Watched'
             PROVE  JobsInTurn' /\ AssetsRight' /\ WayIsKept' /\ (StepsOn' => PicturesRight' /\ PaintingRight')
  BY <1>1, <1>2 DEF StoredInv
<1>3. OnTrack /\ Watched /\ generation = 1
  BY <1>1 DEF OnTrack, Watched
<1>4. Steady /\ ValuesKept /\ Complete(built) /\ Running
  BY <1>1, <1>3, SteadyRun DEF Steady
<1>5. RunsExecutor(Transferred)
  <2>1. sequence[pos[1]][1] = generation
    BY <1>4 DEF Running
  <2>2. QED
    <3>1. phase' # "undefined"
      BY DEF OnTrack
    <3>2. QED
      BY <1>1, <2>1, <3>1 DEF RunExecutor, RunsExecutor
<1>6. WatchedRun
  BY <1>3, <1>4, <1>5 DEF WatchedRun
<1>7. JobsInTurn'
  <2>1. CASE Pauses
    BY <1>6, <2>1, NewJobs
  <2>2. CASE GivesUp
    BY <1>6, <2>2, GivenUpJobs
  <2>3. CASE GoesOn
    <3>1. DOMAIN jobs = {}
      BY <1>6, <2>3, RunPlace DEF GivesUp, GoesOn
    <3>2. /\ ComputeAtOnce \/ StartCodec \/ ResumeCodec \/ DispatchWork \/ CaptureWork
      BY <1>6, RunFacts
    <3>3. jobs' = jobs
      BY <2>3, <3>2, RunnerAssumption DEF GoesOn, ComputeAtOnce, StartCodec, ResumeCodec, DispatchWork, CaptureWork
    <3>4. QED
      BY <3>1, <3>3 DEF JobsInTurn
  <2>4. QED
    BY <1>6, <2>1, <2>2, <2>3, RunFacts
<1>8. QED
  BY <1>6, <1>7, RunKeepsAssets, RunKeepsWay, RunKeepsPictures

----------------------------------------------------------------------------
\* Between two runs of executors what waits goes on waiting.
LEMMA PlacesStay ==
  ASSUME UNCHANGED <<stages, sequence, generation, started, saved, held>>,
         phase = "idle", phase' \in {"idle", "stepping"}, phase' = "stepping" => pos' = saved
  PROVE  /\ \A x : (IsWaiting(x)' <=> IsWaiting(x)) /\ ExecutorOf(x)' = ExecutorOf(x)
         /\ Painting' = Painting /\ Unpainted' = Unpainted
         /\ NoneAhead' <=> NoneAhead
<1>1. \A x : (IsWaiting(x)' <=> IsWaiting(x)) /\ ExecutorOf(x)' = ExecutorOf(x)
  BY DEF IsWaiting, NextUp, ExecutorOf
<1>2. Painting' = Painting
  BY <1>1 DEF Painting
<1>3. Unpainted' = Unpainted
  BY <1>2 DEF Unpainted
<1>4. NoneAhead' <=> NoneAhead
  BY DEF NoneAhead
<1>5. QED
  BY <1>1, <1>2, <1>3, <1>4

\* A step begins where the last one paused.
LEMMA BeginKeepsStored ==
  ASSUME StoredInv, DriverStep
  PROVE  StoredInv'
<1>1. /\ generation = 1 /\ phase = "idle" /\ phase' \in {"idle", "stepping"}
      /\ phase' = "stepping" => pos' = saved /\ result' = result
      /\ UNCHANGED <<built, stages, sequence, generation, started, saved, held>>
      /\ UNCHANGED <<attrs, tasks, completed, ref, mem, heap, jobs, assets, coordinator>>
      /\ coordinator = "patient" => MayStep
  BY DEF DriverStep, BeginStep, bitmapVars, pipelineVars, functionVars
<1> SUFFICES ASSUME Watched
             PROVE  JobsInTurn' /\ AssetsRight' /\ WayIsKept' /\ (StepsOn' => PicturesRight' /\ PaintingRight')
  BY <1>1 DEF StoredInv, Watched
<1>2. JobsInTurn /\ AssetsRight /\ WayIsKept /\ (StepsOn => PicturesRight /\ PaintingRight)
  BY <1>1 DEF StoredInv, OnTrack
<1>3. /\ \A x : (IsWaiting(x)' <=> IsWaiting(x)) /\ ExecutorOf(x)' = ExecutorOf(x)
      /\ Painting' = Painting /\ Unpainted' = Unpainted
      /\ NoneAhead' <=> NoneAhead
  BY <1>1, PlacesStay
<1>4. StepsOn
  BY <1>1 DEF StepsOn, MayStep
<1>5. coordinator = "patient" => DOMAIN jobs = {}
  BY <1>1, <1>2 DEF JobsInTurn, MayStep
<1>6. \A t \in DOMAIN jobs : JobIsRight(t)'
  <2>1. \A t \in DOMAIN jobs : JobIsRight(t)
    BY <1>2 DEF JobsInTurn
  <2>2. QED
    BY <1>1, <1>3, <2>1 DEF JobIsRight
<1>7. JobsInTurn'
  BY <1>1, <1>2, <1>3, <1>5, <1>6 DEF JobsInTurn
<1>8. AssetsRight'
  BY <1>1, <1>2, <1>3 DEF AssetsRight, IsStored
<1>9. WayIsKept'
  <2>1. phase' = "stepping" => StepsOn'
    BY <1>1, <1>4 DEF StepsOn
  <2>2. coordinator = "patient" => NoneAhead
    BY <1>2, <1>4 DEF WayIsKept
  <2>3. QED
    BY <1>1, <1>2, <1>3, <2>1, <2>2 DEF WayIsKept
<1>10. PicturesRight' /\ PaintingRight'
  <2>1. PicturesRight'
    BY <1>1, <1>2, <1>3, <1>4 DEF PicturesRight, Shows
  <2>2. PaintingRight'
    BY <1>1, <1>2, <1>3, <1>4 DEF PaintingRight, PaintOf
  <2>3. QED
    BY <2>1, <2>2
<1>11. QED
  BY <1>7, <1>8, <1>9, <1>10

\* JavaScript sees what it was given.
LEMMA TakeKeepsStored ==
  ASSUME MemoryInv, StoredInv, NEW t \in DOMAIN jobs, JsTake(t), UNCHANGED coordinator
  PROVE  StoredInv'
<1>1. /\ phase = "idle" /\ phase' = "idle" /\ jobs[t].seen = Null
      /\ UNCHANGED <<built, stages, sequence, generation, started, saved, held>>
      /\ UNCHANGED <<attrs, tasks, completed, ref, mem, heap, assets, result, coordinator>>
  BY DEF JsTake, vars, pipelineVars, functionVars
<1> SUFFICES ASSUME OnTrack, Watched
             PROVE  JobsInTurn' /\ AssetsRight' /\ WayIsKept' /\ (StepsOn' => PicturesRight' /\ PaintingRight')
  BY <1>1 DEF StoredInv, Watched, OnTrack
<1>2. JobsInTurn /\ AssetsRight /\ WayIsKept /\ (StepsOn => PicturesRight /\ PaintingRight)
  BY DEF StoredInv
<1>3. /\ \A x : (IsWaiting(x)' <=> IsWaiting(x)) /\ ExecutorOf(x)' = ExecutorOf(x)
      /\ Painting' = Painting /\ Unpainted' = Unpainted
      /\ NoneAhead' <=> NoneAhead
  BY <1>1, PlacesStay
<1>4. StepsOn' <=> StepsOn
  BY <1>1 DEF StepsOn
<1>5. JobFields \subseteq DOMAIN jobs[t]
  BY DEF MemoryInv, Lent
<1>6. PICK s : jobs' = [jobs EXCEPT ![t].seen = s] /\
               s = (LET src == jobs[t].src
                    IN  IF src = Null THEN jobs[t].wants
                        ELSE IF CanSee(src, jobs[t]) THEN mem[src].picture ELSE Spoiled)
  BY DEF JsTake
<1>7. JobIsRight(t) /\ t[1] = generation
  <2>1. JobIsRight(t) /\ t = <<generation, t[2], t[3]>>
    BY <1>2 DEF JobsInTurn
  <2>2. \A a, b, c : t = <<a, b, c>> => t[1] = a
    OBVIOUS
  <2>3. QED
    BY <2>1, <2>2, Zenon
<1>8. s = jobs[t].wants
  <2>1. CASE jobs[t].src = Null
    BY <1>6, <2>1
  <2>2. CASE jobs[t].src # Null
    <3>1. <<t[2], t[3]>> \in DOMAIN held /\ held[<<t[2], t[3]>>].src = jobs[t].src
      BY <1>7 DEF MemoryInv, Lent
    <3>2. jobs[t].src \in DOMAIN mem
      BY <2>2, <3>1, KeptHolds DEF MemoryInv, MemoryTypeOK
    <3>3. CanSee(jobs[t].src, jobs[t])
      BY <1>7, <3>2 DEF CanSee, JobIsRight
    <3>4. mem[jobs[t].src].picture = jobs[t].wants
      BY <1>1, <1>7, <2>2 DEF JobIsRight
    <3>5. QED
      BY <1>6, <2>2, <3>3, <3>4
  <2>3. QED
    BY <2>1, <2>2
<1>9. /\ DOMAIN jobs' = DOMAIN jobs
      /\ \A u \in DOMAIN jobs : u # t => jobs'[u] = jobs[u]
      /\ jobs'[t].seen = s
      /\ jobs'[t].mode = jobs[t].mode /\ jobs'[t].src = jobs[t].src /\ jobs'[t].dst = jobs[t].dst
      /\ jobs'[t].heap = jobs[t].heap /\ jobs'[t].wants = jobs[t].wants /\ jobs'[t].makes = jobs[t].makes
  BY <1>5, <1>6 DEF JobFields
<1>10. ASSUME NEW u \in DOMAIN jobs PROVE JobIsRight(u)'
  <2>1. JobIsRight(u) /\ ExecutorOf(<<u[2], u[3]>>)' = ExecutorOf(<<u[2], u[3]>>)
    BY <1>2, <1>3 DEF JobsInTurn
  <2>2. CASE u = t
    BY <1>1, <1>8, <1>9, <2>1, <2>2 DEF JobIsRight
  <2>3. CASE u # t
    BY <1>1, <1>9, <2>1, <2>3 DEF JobIsRight
  <2>4. QED
    BY <2>2, <2>3
<1>11. JobsInTurn'
  BY <1>1, <1>2, <1>3, <1>9, <1>10 DEF JobsInTurn
<1>12. AssetsRight'
  BY <1>1, <1>2, <1>3 DEF AssetsRight, IsStored
<1>13. WayIsKept'
  BY <1>1, <1>2, <1>3, <1>4 DEF WayIsKept
<1>14. StepsOn => PicturesRight' /\ PaintingRight'
  <2>1. PicturesRight => PicturesRight'
    BY <1>1, <1>3 DEF PicturesRight, Shows
  <2>2. \A u \in DOMAIN jobs : u \in DOMAIN jobs' /\ jobs'[u].makes = jobs[u].makes
    BY <1>9
  <2>3. PaintingRight => PaintingRight'
    BY <1>1, <1>3, <1>9, <2>2 DEF PaintingRight, PaintOf
  <2>4. QED
    BY <1>2, <2>1, <2>3
<1>15. QED
  BY <1>4, <1>11, <1>12, <1>13, <1>14

\* What JavaScript stores or paints is what it was asked for.
LEMMA FinishKeepsStored ==
  ASSUME MemoryInv, BitmapsArrive, StoredInv, NEW t \in DOMAIN jobs, JsFinish(t), UNCHANGED coordinator
  PROVE  StoredInv'
<1> DEFINE x == <<t[2], t[3]>>
           stores == jobs[t].mode = "store"
           paints == jobs[t].mode = "paint" /\ CanSee(jobs[t].dst, jobs[t])
<1>1. /\ phase = "idle" /\ phase' = "idle" /\ jobs[t].seen # Null
      /\ UNCHANGED <<built, stages, sequence, generation, started, saved, held>>
      /\ UNCHANGED <<attrs, completed, ref, heap, result, coordinator>>
  BY DEF JsFinish, Fulfil, vars, pipelineVars, functionVars
<1>2. /\ DOMAIN tasks' = DOMAIN tasks
      /\ \A u \in DOMAIN tasks : u # t => tasks'[u] = tasks[u]
  BY DEF JsFinish, Fulfil, vars, functionVars
<1> SUFFICES ASSUME OnTrack, Watched
             PROVE  JobsInTurn' /\ AssetsRight' /\ WayIsKept' /\ (StepsOn' => PicturesRight' /\ PaintingRight')
  BY <1>1, <1>2 DEF StoredInv, Watched, OnTrack
<1>3. JobsInTurn /\ AssetsRight /\ WayIsKept /\ (StepsOn => PicturesRight /\ PaintingRight)
  BY DEF StoredInv
<1>4. /\ \A y : (IsWaiting(y)' <=> IsWaiting(y)) /\ ExecutorOf(y)' = ExecutorOf(y)
      /\ Painting' = Painting /\ Unpainted' = Unpainted
      /\ NoneAhead' <=> NoneAhead
  BY <1>1, PlacesStay
<1>5. StepsOn' <=> StepsOn
  BY <1>1 DEF StepsOn
<1>6. /\ t = <<generation, t[2], t[3]>> /\ IsWaiting(x) /\ JobIsRight(t)
      /\ ExecutorOf(x).uri \in Async \cup Gpu
  BY <1>3 DEF JobsInTurn
<1>7. /\ jobs[t].heap = heap /\ jobs[t].seen = jobs[t].wants
      /\ ExecutorOf(x).uri \in Gpu => jobs[t].mode = "paint"
      /\ ExecutorOf(x).uri \in Async =>
           jobs[t].mode = IF ExecutorOf(x).type = "decode" THEN "load" ELSE "store"
      /\ stores => jobs[t].wants = Values(built)[<<t[2], "$in">>]
  BY <1>1, <1>6 DEF JobIsRight
<1>8. \A u \in DOMAIN jobs : u = t
  <2>1. ASSUME NEW u \in DOMAIN jobs PROVE u = t
    <3>1. u = <<generation, u[2], u[3]>> /\ IsWaiting(<<u[2], u[3]>>)
      BY <1>3 DEF JobsInTurn
    <3>2. <<u[2], u[3]>> = NextUp /\ <<t[2], t[3]>> = NextUp
      BY <1>6, <3>1 DEF IsWaiting
    <3>3. u[2] = t[2] /\ u[3] = t[3]
      BY <3>2
    <3>4. QED
      BY <1>6, <3>1, <3>3
  <2>2. QED
    BY <2>1
<1>9. DOMAIN jobs' = {}
  BY <1>8 DEF JsFinish
<1>10. JobsInTurn'
  BY <1>9 DEF JobsInTurn
<1>11. /\ DOMAIN assets' = DOMAIN assets \cup (IF stores THEN {t[2]} ELSE {})
       /\ \A n \in DOMAIN assets' : assets'[n] = IF stores /\ n = t[2] THEN jobs[t].seen ELSE assets[n]
  BY DEF JsFinish
<1>12. /\ stores => IsStored(t[2])'
       /\ \A n : IsStored(n) => IsStored(n)'
  <2>1. stores => t[2] \in DOMAIN assets' /\ assets'[t[2]] = Values(built)[<<t[2], "$in">>]
    BY <1>7, <1>11
  <2>2. ASSUME NEW n, IsStored(n) PROVE n \in DOMAIN assets' /\ assets'[n] = Values(built)[<<n, "$in">>]
    BY <1>11, <2>1, <2>2 DEF IsStored
  <2>3. QED
    BY <1>1, <2>1, <2>2 DEF IsStored
<1>13. AssetsRight'
  <2>1. ASSUME NEW u \in DOMAIN tasks', u[1] = generation, tasks'[u] = "fulfilled",
               ExecutorOf(<<u[2], u[3]>>).uri \in Async, ExecutorOf(<<u[2], u[3]>>).type = "encode"
        PROVE  IsStored(u[2])'
    <3>1. CASE u = t
      <4>1. stores
        BY <1>7, <2>1, <3>1
      <4>2. QED
        BY <1>12, <3>1, <4>1
    <3>2. CASE u # t
      <4>1. u \in DOMAIN tasks /\ tasks[u] = "fulfilled"
        BY <1>2, <2>1, <3>2
      <4>2. IsStored(u[2])
        BY <1>3, <2>1, <4>1 DEF AssetsRight
      <4>3. QED
        BY <1>12, <4>2
    <3>3. QED
      BY <3>1, <3>2
  <2>2. ASSUME NEW n \in DOMAIN completed, ExecutorOf(<<n, 1>>).uri \in Async PROVE IsStored(n)'
    BY <1>3, <1>12, <2>2 DEF AssetsRight
  <2>3. QED
    BY <1>1, <1>4, <2>1, <2>2 DEF AssetsRight
<1>14. WayIsKept'
  BY <1>1, <1>3, <1>4, <1>5 DEF WayIsKept
<1>15. /\ DOMAIN mem' = DOMAIN mem
       /\ \A a \in DOMAIN mem : ~ (paints /\ a = jobs[t].dst) => mem'[a] = mem[a]
       /\ \A a \in DOMAIN mem : (paints /\ a = jobs[t].dst) => mem'[a].picture = jobs[t].makes
  <2>1. \A a \in DOMAIN mem : "picture" \in DOMAIN mem[a]
    BY DEF MemoryInv
  <2>2. mem' = [a \in DOMAIN mem |->
                  IF paints /\ a = jobs[t].dst
                  THEN [mem[a] EXCEPT !.picture = IF jobs[t].seen = jobs[t].wants THEN jobs[t].makes ELSE Spoiled]
                  ELSE mem[a]]
    BY DEF JsFinish
  <2> HIDE DEF paints
  <2>3. QED
    BY <1>7, <2>1, <2>2
<1>16. x \in DOMAIN held /\ held[x].dst = jobs[t].dst
  <2>1. t[1] = generation
    BY <1>6
  <2>2. QED
    BY <2>1 DEF MemoryInv, Lent
<1>17. jobs[t].mode = "paint" => x \in Painting
  BY <1>6, <1>7 DEF Painting, IsWaiting
<1>18. ASSUME PicturesRight PROVE PicturesRight'
  <2>1. SUFFICES ASSUME NEW k \in DOMAIN attrs, attrs[k].dtype = "bitmap", ref[k] \notin Unpainted
                 PROVE  mem'[ref[k]].picture = attrs[k].value
    BY <1>1, <1>4 DEF PicturesRight, Shows
  <2>2. mem[ref[k]].picture = attrs[k].value
    BY <1>18, <2>1 DEF PicturesRight, Shows
  <2>3. ref[k] \in DOMAIN mem
    BY <2>1, KeptHolds DEF BitmapsArrive, MemoryInv, MemoryTypeOK
  <2>4. ~ (paints /\ ref[k] = jobs[t].dst)
    BY <1>16, <1>17, <2>1 DEF Unpainted
  <2>5. QED
    BY <1>15, <2>2, <2>3, <2>4
<1>19. ASSUME PaintingRight PROVE PaintingRight'
  <2>1. ASSUME NEW y \in Painting, NEW s \in DOMAIN ExecutorOf(y).gives, ExecutorOf(y).gives[s] = "bitmap"
        PROVE  mem'[held[y].dst].picture = PaintOf(ExecutorOf(y).uri, Values(built)[<<y[1], s>>])
    <3>1. y = x /\ ExecutorOf(x).uri \in Gpu
      BY <1>6, <2>1 DEF Painting, IsWaiting
    <3>2. <<generation, y[1], y[2]>> = t
      BY <1>6, <3>1
    <3>3. jobs[t].makes = PaintOf(ExecutorOf(y).uri, Values(built)[<<y[1], s>>])
      BY <1>19, <2>1, <3>2 DEF PaintingRight
    <3>4. held[y].dst # Null
      BY <1>19, <2>1 DEF PaintingRight
    <3>5. held[y].dst \in DOMAIN mem /\ held[y].dst = jobs[t].dst
      BY <1>16, <3>1, <3>4, KeptHolds DEF MemoryInv, MemoryTypeOK
    <3>6. paints
      BY <1>7, <3>1, <3>5 DEF CanSee
    <3>7. QED
      BY <1>15, <3>3, <3>5, <3>6
  <2>2. QED
    BY <1>1, <1>4, <1>9, <1>19, <2>1 DEF PaintingRight, PaintOf
<1>20. QED
  BY <1>3, <1>5, <1>10, <1>13, <1>14, <1>18, <1>19

\* With a build nothing is asked for, and no bitmap is there.
LEMMA BuildKeepsStored ==
  ASSUME MemoryInv, BitmapsArrive', StoredInv, DriverBuild
  PROVE  StoredInv'
<1>1. generation = 0 /\ UNCHANGED coordinator
  BY DEF DriverBuild
<1>2. PICK g \in Graphs : BuildPipeline(g)
  BY DEF DriverBuild
<1>3. DOMAIN jobs = {}
  <2>1. \A t \in DOMAIN jobs : t[1] \in Nat /\ t[1] =< generation /\ t[1] > 0
    BY DEF MemoryInv, Lent
  <2>2. \A t \in DOMAIN jobs : FALSE
    BY <1>1, <2>1
  <2>3. QED
    BY <2>2
<1>4. DOMAIN tasks = {} /\ tasks' = tasks
  BY <1>1, <1>2 DEF StoredInv, BuildPipeline, Build, functionVars
<1> SUFFICES ASSUME OnTrack'
             PROVE  JobsInTurn' /\ AssetsRight' /\ WayIsKept' /\ (StepsOn' => PicturesRight' /\ PaintingRight')
  BY <1>4 DEF StoredInv
<1>5. /\ started' = EmptyMap /\ completed' = EmptyMap /\ result' = NoResult /\ phase' = "idle"
      /\ jobs' = jobs
  BY <1>1, <1>2 DEF BuildPipeline, Build, OnTrack
<1>6. DOMAIN EmptyMap = {}
  BY DEF EmptyMap
<1>7. JobsInTurn'
  BY <1>3, <1>5 DEF JobsInTurn
<1>8. AssetsRight'
  BY <1>4, <1>5, <1>6 DEF AssetsRight
<1>9. WayIsKept'
  BY <1>5, <1>6 DEF WayIsKept, NoneAhead
<1>10. PaintingRight'
  BY <1>5, <1>6 DEF PaintingRight, Painting
<1>11. PicturesRight'
  <2>1. ref' = [k \in DOMAIN attrs' |-> Null]
    BY <1>2 DEF BuildPipeline
  <2>2. \A k \in DOMAIN attrs' : attrs'[k].dtype # "bitmap"
    BY <2>1 DEF BitmapsArrive
  <2>3. QED
    BY <2>2 DEF PicturesRight, Shows
<1>12. QED
  BY <1>7, <1>8, <1>9, <1>10, <1>11

LEMMA StutterKeepsStored ==
  ASSUME StoredInv, UNCHANGED driverVars
  PROVE  StoredInv'
<1>1. /\ UNCHANGED <<built, stages, sequence, generation, attrs, started, tasks>>
      /\ UNCHANGED <<saved, pos, completed, phase, result>>
      /\ UNCHANGED <<ref, held, mem, heap, jobs, assets, coordinator>>
  BY DEF driverVars, allVars, vars, bitmapVars, pipelineVars, functionVars
<1>2. /\ \A x : (IsWaiting(x)' <=> IsWaiting(x)) /\ ExecutorOf(x)' = ExecutorOf(x)
  BY <1>1 DEF IsWaiting, NextUp, ExecutorOf
<1>3. Painting' = Painting
  BY <1>1, <1>2 DEF Painting
<1>4. Unpainted' = Unpainted
  BY <1>1, <1>3 DEF Unpainted
<1>5. \A t \in DOMAIN jobs : JobIsRight(t) => JobIsRight(t)'
  BY <1>1, <1>2 DEF JobIsRight
<1>6. JobsInTurn => JobsInTurn'
  BY <1>1, <1>2, <1>5 DEF JobsInTurn
<1>7. AssetsRight => AssetsRight'
  BY <1>1, <1>2 DEF AssetsRight, IsStored
<1>8. WayIsKept => WayIsKept'
  BY <1>1, <1>2 DEF WayIsKept, StepsOn, NoneAhead
<1>9. (PicturesRight => PicturesRight') /\ (StepsOn' <=> StepsOn)
  BY <1>1, <1>4 DEF PicturesRight, Shows, StepsOn
<1>10. PaintingRight => PaintingRight'
  BY <1>1, <1>2, <1>3 DEF PaintingRight, PaintOf
<1>11. (OnTrack' <=> OnTrack) /\ (Watched' <=> Watched)
  BY <1>1 DEF OnTrack, Watched
<1>12. QED
  BY <1>1, <1>6, <1>7, <1>8, <1>9, <1>10, <1>11 DEF StoredInv

\* The invariant of the pictures holds at first, and every step keeps it.
LEMMA StoredInit == DriverInit => StoredInv
<1> SUFFICES ASSUME DriverInit PROVE StoredInv
  OBVIOUS
<1>1. generation = 0 /\ tasks = EmptyMap
  BY DEF DriverInit, BitmapInit, Init
<1>2. DOMAIN EmptyMap = {}
  BY DEF EmptyMap
<1>3. ~ OnTrack
  BY <1>1 DEF OnTrack
<1>4. QED
  BY <1>1, <1>2, <1>3 DEF StoredInv

\* While another call makes the heap grow, nobody is watching.
LEMMA OtherCallKeepsStored ==
  ASSUME StoredInv, OtherCall
  PROVE  StoredInv'
<1>1. coordinator' = "busy" /\ generation' = generation /\ tasks' = tasks
  BY DEF OtherCall, vars, pipelineVars, functionVars
<1>2. ~ Watched'
  BY <1>1 DEF Watched
<1>3. generation' = 0 => DOMAIN tasks' = {}
  BY <1>1 DEF StoredInv
<1>4. QED
  BY <1>2, <1>3 DEF StoredInv

LEMMA StoredNext ==
  ASSUME GraphsFit, BitmapsFit, NoResultIsNone
  PROVE  DriverInv /\ DriverInv' /\ StoredInv /\ [DriverNext]_driverVars => StoredInv'
<1> SUFFICES ASSUME DriverInv, DriverInv', StoredInv, [DriverNext]_driverVars PROVE StoredInv'
  OBVIOUS
<1>1. MemoryInv /\ BitmapsArrive
  BY DEF DriverInv, ArrivesInv
<1>2. BitmapsArrive'
  BY DEF DriverInv, ArrivesInv
<1>3. CASE DriverBuild
  BY <1>1, <1>2, <1>3, BuildKeepsStored
<1>4. CASE DriverStep
  BY <1>4, BeginKeepsStored
<1>5. CASE RunLoop
  BY <1>5, RunKeepsStored
<1>6. CASE JsWork
  <2>1. PICK t \in DOMAIN jobs : (JsTake(t) \/ JsFinish(t)) /\ UNCHANGED coordinator
    BY <1>6 DEF JsWork
  <2>2. CASE JsTake(t)
    BY <1>1, <2>1, <2>2, TakeKeepsStored
  <2>3. CASE JsFinish(t)
    BY <1>1, <2>1, <2>3, FinishKeepsStored
  <2>4. QED
    BY <2>1, <2>2, <2>3
<1>7. CASE OtherCall
  BY <1>7, OtherCallKeepsStored
<1>8. CASE UNCHANGED driverVars
  BY <1>8, StutterKeepsStored
<1>9. QED
  BY <1>3, <1>4, <1>5, <1>6, <1>7, <1>8 DEF DriverNext

\* For a reported output of bitmaps JavaScript has stored the picture that the
\* graph computes.
THEOREM StoredIsRightAlways ==
  ASSUME GraphsFit, BitmapsFit, NoResultIsNone
  PROVE  DriverSpec => []StoredIsRight
<1>1. DriverInv /\ DriverInv' /\ StoredInv /\ [DriverNext]_driverVars => StoredInv'
  BY StoredNext
<1>2. StoredInv => StoredIsRight
  <2> SUFFICES ASSUME StoredInv, OnTrack, Watched,
                      NEW n \in DOMAIN completed, stages[n].executors[1].uri \in Async
               PROVE  n \in DOMAIN assets /\ assets[n] = Values(built)[<<n, "$in">>]
    BY DEF StoredIsRight, OnTrack, Watched
  <2>1. AssetsRight
    BY DEF StoredInv
  <2>2. ExecutorOf(<<n, 1>>) = stages[n].executors[1]
    BY DEF ExecutorOf
  <2>3. IsStored(n)
    BY <2>1, <2>2 DEF AssetsRight
  <2>4. QED
    BY <2>3 DEF IsStored
<1>3. QED
  BY <1>1, <1>2, StoredInit, DriverInvariant, PTL DEF DriverSpec
=============================================================================
