-------------------- MODULE ObservationCollectionProofs --------------------
(* Proofs about the KMA observation pipeline: the type invariant, the single   *)
(* deadline of a cycle, the daily attempt budget, the evidence in storage, and *)
(* what is in Bronze, for every number of runs, grids, tries and attempts.     *)
(*                                                                             *)
(* A try's step is proved once, by what it writes: every lemma named ...Writes *)
(* gives the record that an operation leaves for its try (TaskWrite), and each *)
(* invariant then looks at that record and at the store.                       *)
EXTENDS ObservationCollection, FiniteSetTheorems, TLAPS

-----------------------------------------------------------------------------
(* The shape of the state.                                                   *)

\* The constants that count something are numbers.
LEMMA Numbers ==
  /\ GridCount \in Nat \ {0} /\ Revisions \in Nat \ {0} /\ MaxTries \in Nat \ {0}
  /\ MaxAttempts \in Nat \ {0} /\ Threshold \in Nat \ {0} /\ DailyLimit \in Nat \ {0}
  /\ DayLength \in Nat \ {0}
  /\ Duration \in Nat /\ RequestNeeds \in Nat /\ MaxTime \in Nat /\ MaxFaults \in Nat
BY ConstantsAssumption

\* Integer division is monotone: a moment of the run falls on one of its days.
LEMMA DivOrder ==
  ASSUME NEW a \in Nat, NEW b \in Nat, NEW d \in Nat \ {0}, a <= b
  PROVE  a \div d \in Nat /\ a \div d <= b \div d
BY Z3

\* The record of a try that has not started.
LEMMA IdleType == Idle \in TaskState
<1>1. 0 \in Day
  BY Numbers, DivOrder DEF Day
<1> QED
  BY <1>1, Numbers DEF Idle, TaskState, Grid, Running

\* The clock is on one of the days that have a budget.
LEMMA TodayType == TypeOK => Today \in Day
<1> SUFFICES ASSUME TypeOK PROVE Today \in Day
  OBVIOUS
<1>1. now \in Nat /\ now <= MaxTime
  BY Numbers DEF TypeOK
<1>2. now \div DayLength \in Nat /\ now \div DayLength <= MaxTime \div DayLength
  BY <1>1, Numbers, DivOrder
<1>3. MaxTime \div DayLength \in Nat
  BY Numbers, DivOrder
<1> QED
  BY <1>2, <1>3 DEF Today, Day

\* What a try's record holds of its batch: the grids that the loop has passed.
BatchOK(k) ==
  /\ k.pc \in Running => \A g \in 1..(k.grid - 1) : k.batch[g] \in Evidence
  /\ k.pc \in {"manifest", "return"} => \A g \in Grid : k.batch[g] \in Evidence
  /\ k.pc = "checkpoint" => k.payload \in Payload

Loaded == {"load", "verify", "publish"}

\* The inductive form of TypeOK. A run past its landing task has a batch.
TypeInv ==
  /\ TypeOK
  /\ \A t \in Task : BatchOK(task[t])
  /\ \A r \in Run : status[r] \in Loaded => xcom[r] \in [Grid -> Evidence]

\* The try t is left with the record k, and no other try is touched.
TaskWrite(t, k) == task' = [task EXCEPT ![t] = k] /\ k \in TaskState /\ BatchOK(k)

\* Writing one well-shaped record keeps all of them so.
LEMMA TaskWritten ==
  ASSUME TypeInv, NEW t \in Task, NEW k, TaskWrite(t, k)
  PROVE  task' \in [Task -> TaskState] /\ \A s \in Task : BatchOK(task'[s])
BY DEF TypeInv, TypeOK, TaskWrite

\* A raised error ends the try; the run can only leave its landing by it.
LEMMA RaiseWrites ==
  ASSUME TypeInv, NEW t \in Task, Raise(t)
  PROVE  /\ TaskWrite(t, [Idle EXCEPT !.pc = "failed"])
         /\ status' \in [Run -> Finished \cup {"landing", "load", "verify", "publish"}]
         /\ \A r \in Run : status'[r] \in Loaded => status'[r] = status[r]
<1>1. [Idle EXCEPT !.pc = "failed"] \in TaskState
  BY IdleType DEF TaskState
<1>2. BatchOK([Idle EXCEPT !.pc = "failed"])
  BY DEF BatchOK, Idle, Running
<1> QED
  BY <1>1, <1>2 DEF Raise, TaskWrite, TypeInv, TypeOK, Finished, Loaded, Task

\* The loop's step to the next grid adds the evidence and keeps the deadline.
LEMMA NextGridWrites ==
  ASSUME TypeInv, NEW t \in Task, NEW e \in Evidence, task[t].pc \in Running, NextGrid(t, e)
  PROVE  \E k : /\ TaskWrite(t, k) /\ k.pc \in {"grid", "manifest"}
                /\ k.deadline = task[t].deadline
                /\ k.batch = [task[t].batch EXCEPT ![task[t].grid] = e]
<1> DEFINE g == task[t].grid
           pc == IF g = GridCount THEN "manifest" ELSE "grid"
           n == IF g = GridCount THEN g ELSE g + 1
           b == [task[t].batch EXCEPT ![g] = e]
           k == [task[t] EXCEPT !.pc = pc, !.grid = n, !.ordinal = 1, !.day = 0,
                                !.payload = None, !.batch = b]
<1>1. task[t] \in TaskState
  BY DEF TypeInv, TypeOK
<1>2. 0 \in Day
  BY Numbers, DivOrder DEF Day
<1>3. b \in [Grid -> Evidence \cup {None}]
  BY <1>1 DEF TaskState
<1>4. \A i \in 1..g : b[i] \in Evidence
  BY <1>1, Numbers DEF TypeInv, BatchOK, TaskState, Grid
<1>5. pc \in {"grid", "manifest"} /\ n \in Grid
  BY <1>1, Numbers DEF TaskState, Grid
<1>6. g \in Nat /\ n \in Nat /\ n <= g + 1 /\ (pc = "manifest" => Grid = 1..g)
  BY <1>1, Numbers DEF TaskState, Grid
<1>7. task' = [task EXCEPT ![t] = k]
  BY DEF NextGrid
<1> HIDE DEF pc, n, b
<1>8. k \in TaskState
  <2>1. pc \in Running /\ 1 \in 1..MaxAttempts
    BY <1>5, Numbers DEF Running
  <2> QED
    BY <1>1, <1>2, <1>3, <1>5, <2>1 DEF TaskState
<1>9. k.pc = pc /\ k.grid = n /\ k.batch = b /\ k.deadline = task[t].deadline
  BY <1>1 DEF TaskState
<1> HIDE DEF k
<1>10. BatchOK(k)
  <2>1. \A i \in 1..(n - 1) : b[i] \in Evidence
    BY <1>4, <1>6
  <2>2. pc = "manifest" => \A i \in Grid : b[i] \in Evidence
    BY <1>4, <1>6
  <2> QED
    BY <1>5, <1>9, <2>1, <2>2 DEF BatchOK
<1> QED
  BY <1>5, <1>7, <1>8, <1>9, <1>10 DEF TaskWrite, b

\* A step within a try that moves its program counter only.
LEMMA GotoWrites ==
  ASSUME TypeInv, NEW t \in Task, NEW pc \in {"admit", "send", "return"}, Goto(t, pc),
         task[t].pc \in Running, pc = "return" => task[t].pc = "manifest"
  PROVE  TaskWrite(t, [task[t] EXCEPT !.pc = pc])
<1> DEFINE k == [task[t] EXCEPT !.pc = pc]
<1>1. task[t] \in TaskState /\ BatchOK(task[t])
  BY DEF TypeInv, TypeOK
<1>2. k \in TaskState
  BY <1>1 DEF TaskState, Running
<1>3. k.pc = pc /\ k.grid = task[t].grid /\ k.batch = task[t].batch
  BY <1>1 DEF TaskState
<1>4. BatchOK(k)
  BY <1>1, <1>3 DEF BatchOK
<1> QED
  BY <1>2, <1>4 DEF Goto, TaskWrite

\* A reservation leaves the try about to send, on the day that it reserved.
LEMMA ReserveWrites ==
  ASSUME TypeInv, NEW t \in Task, Reserve(t)
  PROVE  TaskWrite(t, [task[t] EXCEPT !.pc = "send", !.day = Today])
<1> DEFINE k == [task[t] EXCEPT !.pc = "send", !.day = Today]
<1>1. task[t] \in TaskState /\ BatchOK(task[t]) /\ task[t].pc = "admit"
  BY DEF TypeInv, TypeOK, Reserve
<1>2. k \in TaskState
  BY <1>1, TodayType DEF TaskState, Running, TypeInv
<1>3. k.pc = "send" /\ k.grid = task[t].grid /\ k.batch = task[t].batch
  BY <1>1 DEF TaskState
<1>4. BatchOK(k)
  BY <1>1, <1>3 DEF BatchOK, Running
<1>5. task' = [task EXCEPT ![t] = k]
  BY DEF Reserve, TypeInv, TypeOK
<1> QED
  BY <1>2, <1>4, <1>5 DEF TaskWrite

\* An accepted answer leaves the try about to write a checkpoint.
LEMMA AnswerWrites ==
  ASSUME TypeInv, NEW t \in Task, Answer(t), task[t].pc = "send"
  PROVE  TaskWrite(t, [task[t] EXCEPT !.pc = "checkpoint", !.payload = revision])
<1> DEFINE k == [task[t] EXCEPT !.pc = "checkpoint", !.payload = revision]
<1>1. task[t] \in TaskState /\ BatchOK(task[t]) /\ revision \in Payload
  BY DEF TypeInv, TypeOK
<1>2. k \in TaskState
  BY <1>1 DEF TaskState, Running
<1>3. k.pc = "checkpoint" /\ k.grid = task[t].grid /\ k.batch = task[t].batch /\ k.payload = revision
  BY <1>1 DEF TaskState
<1>4. BatchOK(k)
  BY <1>1, <1>3 DEF BatchOK, Running
<1>5. task' = [task EXCEPT ![t] = k]
  BY DEF Answer, TypeInv, TypeOK
<1> QED
  BY <1>2, <1>4, <1>5 DEF TaskWrite

\* A retry leaves the try before the checks of its next attempt.
LEMMA RetryWrites ==
  ASSUME TypeInv, NEW t \in Task, NEW n \in Nat, Retry(t, n), task[t].pc = "send"
  PROVE  TaskWrite(t, [task[t] EXCEPT !.pc = "admit", !.ordinal = task[t].ordinal + 1,
                                      !.throttles = n, !.day = 0])
<1> DEFINE m == task[t].ordinal + 1
           k == [task[t] EXCEPT !.pc = "admit", !.ordinal = m, !.throttles = n, !.day = 0]
<1>1. task[t] \in TaskState /\ BatchOK(task[t])
  BY DEF TypeInv, TypeOK
<1>2. m \in 1..MaxAttempts /\ n \in 0..Threshold
  BY <1>1, Numbers DEF Retry, Retried, TaskState
<1>3. 0 \in Day
  BY Numbers, DivOrder DEF Day
<1> HIDE DEF m
<1>4. k \in TaskState
  BY <1>1, <1>2, <1>3 DEF TaskState, Running
<1>5. k.pc = "admit" /\ k.grid = task[t].grid /\ k.batch = task[t].batch
  BY <1>1 DEF TaskState
<1>6. BatchOK(k)
  BY <1>1, <1>5 DEF BatchOK, Running
<1>7. task' = [task EXCEPT ![t] = k]
  BY DEF Retry, TypeInv, TypeOK, m
<1> QED
  BY <1>4, <1>6, <1>7 DEF TaskWrite, m

\* What a checkpoint will record is well-shaped.
LEMMA CollectedType ==
  ASSUME TypeInv, NEW t \in Task, task[t].pc = "checkpoint"
  PROVE  Collected(t) \in Evidence /\ task[t].grid \in Grid
BY DEF TypeInv, TypeOK, TaskState, BatchOK, Collected, Evidence, Task

\* A stored checkpoint is well-shaped.
LEMMA CheckpointType ==
  ASSUME TypeInv, NEW r \in Run, NEW g \in Grid, checkpoint[r][g] # None
  PROVE  checkpoint[r][g] \in Evidence
BY DEF TypeInv, TypeOK

\* After the last grid the batch lacks none.
LEMMA BatchType ==
  ASSUME TypeInv, NEW t \in Task, task[t].pc \in {"manifest", "return"}
  PROVE  task[t].batch \in [Grid -> Evidence]
BY DEF TypeInv, TypeOK, TaskState, BatchOK

\* Each step of a try keeps the shape of the state.
LEMMA StepType ==
  ASSUME TypeInv, NEW t \in Task, Step(t)
  PROVE  TypeInv'
<1> USE DEF storeVars, ledgerVars, bronzeVars
<1>0. t[1] \in Run /\ t[2] \in 1..MaxTries /\ task[t] \in TaskState
  BY DEF Task, TypeInv, TypeOK
<1>a. ASSUME NEW k, TaskWrite(t, k), Stay, UNCHANGED <<anchor, raw, checkpoint, manifest, ledger, requests>>
      PROVE  TypeInv'
  BY <1>a, TaskWritten DEF Stay, TypeInv, TypeOK
<1>b. ASSUME Raise(t), UNCHANGED <<anchor, raw, checkpoint, manifest, ledger, requests, faults>>
      PROVE  TypeInv'
  BY <1>b, RaiseWrites, TaskWritten DEF Raise, TypeInv, TypeOK, Loaded
<1>c. ASSUME Send(t) PROVE ledger' = ledger /\ requests' \in [Day -> Nat] /\ task[t].pc = "send"
  BY <1>c, <1>0 DEF Send, TypeInv, TypeOK, TaskState
<1>d. ASSUME Send(t), Raise(t), UNCHANGED <<anchor, raw, checkpoint, manifest, faults>>
      PROVE  TypeInv'
  BY <1>c, <1>d, RaiseWrites, TaskWritten DEF Raise, TypeInv, TypeOK, Loaded
<1>e. ASSUME Send(t), NEW n \in Nat, Retry(t, n)
      PROVE  TypeInv'
  <2>1. TaskWrite(t, [task[t] EXCEPT !.pc = "admit", !.ordinal = task[t].ordinal + 1,
                                     !.throttles = n, !.day = 0])
    BY <1>c, <1>e, RetryWrites
  <2> QED
    BY <2>1, <1>c, <1>e, TaskWritten DEF Retry, Stay, TypeInv, TypeOK
<1>1. CASE ReuseCheckpoint(t)
  <2> DEFINE e == checkpoint[t[1]][task[t].grid]
  <2>1. e \in Evidence /\ task[t].pc \in Running
    BY <1>0, <1>1, CheckpointType DEF ReuseCheckpoint, TaskState, Running
  <2>2. CASE RawObject(t, e) \in raw
    <3>1. PICK k : TaskWrite(t, k)
      BY <1>1, <2>1, <2>2, NextGridWrites DEF ReuseCheckpoint
    <3> QED
      BY <1>1, <1>a, <2>2, <3>1 DEF ReuseCheckpoint
  <2>3. CASE RawObject(t, e) \notin raw
    BY <1>1, <1>b, <2>3 DEF ReuseCheckpoint
  <2> QED
    BY <2>2, <2>3
<1>2. CASE CollectGrid(t)
  BY <1>2, <1>a, GotoWrites DEF CollectGrid, Running
<1>3. CASE Reserve(t)
  <2>0. Today \in Day /\ ledger \in [Day -> Nat]
    BY TodayType DEF TypeInv, TypeOK
  <2>1. ledger' \in [Day -> Nat]
    BY <1>3, <2>0 DEF Reserve
  <2> QED
    BY <1>3, <2>1, ReserveWrites, TaskWritten DEF Reserve, Stay, TypeInv, TypeOK
<1>4. CASE NotReserved(t)
  BY <1>4, <1>b DEF NotReserved
<1>5. CASE Answer(t)
  <2>0. task[t].pc = "send" /\ ledger' = ledger /\ requests' \in [Day -> Nat]
    BY <1>5, <1>c DEF Answer
  <2>a. TaskWrite(t, [task[t] EXCEPT !.pc = "checkpoint", !.payload = revision])
    BY <1>5, <2>0, AnswerWrites
  <2>1. task' \in [Task -> TaskState] /\ \A s \in Task : BatchOK(task'[s])
    BY <2>a, TaskWritten
  <2>2. raw' \subseteq [run : Run, grid : Grid, request : 1..MaxTries, payload : Payload]
    BY <1>0, <1>5 DEF Answer, RawObject, TypeInv, TypeOK, TaskState
  <2> QED
    BY <1>5, <2>0, <2>1, <2>2 DEF Answer, Stay, TypeInv, TypeOK
<1>6. CASE Rejected(t)
  BY <1>6, <1>d DEF Rejected
<1>7. CASE Throttled(t)
  <2>1. task[t].throttles + 1 \in Nat
    BY <1>0, Numbers DEF TaskState
  <2> QED
    BY <1>7, <1>d, <1>e, <2>1 DEF Throttled, GiveUp
<1>8. CASE TransportFailed(t)
  <2>1. task[t].throttles \in Nat
    BY <1>0, Numbers DEF TaskState
  <2> QED
    BY <1>8, <1>d, <1>e, <2>1 DEF TransportFailed, GiveUp
<1>9. CASE WriteCheckpoint(t)
  <2>1. Collected(t) \in Evidence /\ task[t].grid \in Grid /\ task[t].pc \in Running
    BY <1>9, CollectedType DEF WriteCheckpoint, Running
  <2>2. PICK k : TaskWrite(t, k)
    BY <1>9, <2>1, NextGridWrites DEF WriteCheckpoint
  <2>3. checkpoint' \in [Run -> [Grid -> Evidence \cup {None}]]
    BY <1>0, <1>9, <2>1 DEF WriteCheckpoint, TypeInv, TypeOK
  <2> QED
    BY <1>9, <2>2, <2>3, TaskWritten DEF WriteCheckpoint, Stay, TypeInv, TypeOK
<1>10. CASE CheckpointConflict(t)
  BY <1>10, <1>b DEF CheckpointConflict
<1>11. CASE WriteManifest(t)
  <2>1. CASE manifest[t[1]] \in {None, task[t].batch}
    <3>1. TaskWrite(t, [task[t] EXCEPT !.pc = "return"])
      BY <1>11, <2>1, GotoWrites DEF WriteManifest, Running
    <3>a. task[t].batch \in [Grid -> Evidence]
      BY <1>11, BatchType DEF WriteManifest
    <3>b. manifest \in [Run -> [Grid -> Evidence] \cup {None}]
      BY DEF TypeInv, TypeOK
    <3>2. manifest' \in [Run -> [Grid -> Evidence] \cup {None}]
      BY <1>0, <1>11, <2>1, <3>a, <3>b DEF WriteManifest
    <3> QED
      BY <1>11, <2>1, <3>1, <3>2, TaskWritten DEF WriteManifest, Stay, TypeInv, TypeOK
  <2>2. CASE manifest[t[1]] \notin {None, task[t].batch}
    BY <1>11, <1>b, <2>2 DEF WriteManifest
  <2> QED
    BY <2>1, <2>2
<1>12. CASE ReturnBatch(t)
  <2>1. [Idle EXCEPT !.pc = "done"] \in TaskState /\ BatchOK([Idle EXCEPT !.pc = "done"])
    BY IdleType DEF TaskState, BatchOK, Idle, Running
  <2>2. TaskWrite(t, [Idle EXCEPT !.pc = "done"])
    BY <1>12, <2>1 DEF ReturnBatch, TaskWrite
  <2>3. xcom' \in [Run -> [Grid -> Evidence] \cup {None}]
    BY <1>0, <1>12, BatchType DEF ReturnBatch, TypeInv, TypeOK
  <2>4. status' \in [Run -> Finished \cup {"landing", "load", "verify", "publish"}]
    BY <1>12 DEF ReturnBatch, TypeInv, TypeOK
  <2>5. \A r \in Run : status'[r] \in Loaded => xcom'[r] \in [Grid -> Evidence]
    BY <1>0, <1>12, BatchType DEF ReturnBatch, TypeInv, TypeOK
  <2> QED
    BY <1>12, <2>2, <2>3, <2>4, <2>5, TaskWritten DEF ReturnBatch, TypeInv, TypeOK
<1> QED
  BY <1>1, <1>2, <1>3, <1>4, <1>5, <1>6, <1>7, <1>8, <1>9, <1>10, <1>11, <1>12 DEF Step

\* The rows of a run that is loaded are rows of the table.
LEMMA RowsType ==
  ASSUME TypeInv, NEW r \in Run, status[r] \in Loaded
  PROVE  Rows(r) \subseteq Grid \X Payload
BY DEF TypeInv, Rows, Evidence

\* Each step of a Bronze task keeps the shape of the state.
LEMMA BronzeType ==
  ASSUME TypeInv, NEW r \in Run, BronzeStep(r) \/ LoaderCrash(r)
  PROVE  TypeInv'
<1> USE DEF storeVars, ledgerVars, bronzeVars, NoLoad
<1>a. ASSUME NEW s, status' = [status EXCEPT ![r] = s], xcom' = xcom,
             s \in {"failed", "published"} \/ (s \in Loaded /\ status[r] \in Loaded) \/ s = status[r]
      PROVE  /\ status' \in [Run -> Finished \cup {"landing", "load", "verify", "publish"}]
             /\ \A q \in Run : status'[q] \in Loaded => xcom'[q] \in [Grid -> Evidence]
  BY <1>a DEF TypeInv, TypeOK, Finished, Loaded
<1>b. ASSUME NEW k, loader' = [loader EXCEPT ![r] = k],
             k \in [pc : {"idle", "append", "ended"}, base : [Grid \X Payload -> Nat] \cup {None},
                    novel : SUBSET (Grid \X Payload)]
      PROVE  loader' \in [Run -> [pc : {"idle", "append", "ended"},
                           base : [Grid \X Payload -> Nat] \cup {None},
                           novel : SUBSET (Grid \X Payload)]]
  BY <1>b DEF TypeInv, TypeOK
<1>1. CASE ReadExisting(r)
  <2>1. CASE AllRawStored(r) /\ \A x \in Grid \X Payload : bronze[x] <= 1
    <3>1. /\ bronze \in [Grid \X Payload -> Nat]
          /\ {x \in Rows(r) : bronze[x] = 0} \subseteq Grid \X Payload
      BY <1>1, RowsType DEF ReadExisting, Loaded, TypeInv, TypeOK
    <3>2. loader' \in [Run -> [pc : {"idle", "append", "ended"},
                           base : [Grid \X Payload -> Nat] \cup {None},
                           novel : SUBSET (Grid \X Payload)]]
      BY <1>1, <1>b, <2>1, <3>1 DEF ReadExisting
    <3> QED
      BY <1>1, <2>1, <3>2 DEF ReadExisting, TypeInv, TypeOK
  <2>2. CASE ~(AllRawStored(r) /\ \A x \in Grid \X Payload : bronze[x] <= 1)
    BY <1>1, <1>a, <2>2 DEF ReadExisting, FailRun, TypeInv, TypeOK
  <2> QED
    BY <2>1, <2>2
<1>c. ASSUME loader' = [loader EXCEPT ![r] = [NoLoad EXCEPT !.pc = "ended"]]
      PROVE  loader' \in [Run -> [pc : {"idle", "append", "ended"},
                           base : [Grid \X Payload -> Nat] \cup {None},
                           novel : SUBSET (Grid \X Payload)]]
  BY <1>b, <1>c
<1>2. CASE AppendNovel(r)
  <2>1. bronze' \in [Grid \X Payload -> Nat]
    BY <1>2 DEF AppendNovel, TypeInv, TypeOK
  <2>2. /\ status' \in [Run -> Finished \cup {"landing", "load", "verify", "publish"}]
        /\ \A q \in Run : status'[q] \in Loaded => xcom'[q] \in [Grid -> Evidence]
    BY <1>2, <1>a DEF AppendNovel, Loaded
  <2> QED
    BY <1>2, <1>c, <2>1, <2>2 DEF AppendNovel, TypeInv, TypeOK
<1>3. CASE CommitConflict(r)
  BY <1>3, <1>a, <1>c DEF CommitConflict, FailRun, TypeInv, TypeOK
<1>4. CASE Verify(r)
  BY <1>4, <1>a DEF Verify, Loaded, TypeInv, TypeOK
<1>5. CASE PublishAsset(r)
  BY <1>5, <1>a DEF PublishAsset, TypeInv, TypeOK
<1>6. CASE LoaderCrash(r)
  <2>1. faults' \in 0..MaxFaults
    BY <1>6, Numbers DEF LoaderCrash, TypeInv, TypeOK
  <2> QED
    BY <1>6, <1>a, <1>c, <2>1 DEF LoaderCrash, TypeInv, TypeOK
<1> QED
  BY <1>1, <1>2, <1>3, <1>4, <1>5, <1>6 DEF BronzeStep

\* A starting try takes the deadline of the stored anchor and has no evidence.
LEMMA StartTryWrites ==
  ASSUME TypeInv, NEW t \in Task, InitializeCycleDeadline(t)
  PROVE  \E k : /\ TaskWrite(t, k) /\ k.pc = "grid" /\ k.deadline = anchor'[t[1]]
                /\ k.batch = [g \in Grid |-> None]
                /\ anchor' \in [Run -> 0..(MaxTime + Duration) \cup {None}]
                /\ anchor' = [anchor EXCEPT ![t[1]] = IF @ = None THEN now + Duration ELSE @]
<1> DEFINE d == IF anchor[t[1]] = None THEN now + Duration ELSE anchor[t[1]]
           k == [Idle EXCEPT !.pc = "grid", !.deadline = d]
<1>0. t[1] \in Run
  BY DEF Task
<1>1. d \in 0..(MaxTime + Duration)
  BY <1>0, Numbers DEF TypeInv, TypeOK
<1>2. anchor' = [anchor EXCEPT ![t[1]] = d] /\ task' = [task EXCEPT ![t] = k]
  BY DEF InitializeCycleDeadline
<1>3. anchor' \in [Run -> 0..(MaxTime + Duration) \cup {None}] /\ anchor'[t[1]] = d
  BY <1>0, <1>1, <1>2 DEF TypeInv, TypeOK
<1>4. anchor' = [anchor EXCEPT ![t[1]] = IF @ = None THEN now + Duration ELSE @]
  BY <1>2
<1> HIDE DEF d
<1>5. k \in TaskState
  BY IdleType, <1>1 DEF TaskState, Running
<1>6. k.pc = "grid" /\ k.grid = 1 /\ k.deadline = d /\ k.batch = [g \in Grid |-> None]
  BY DEF Idle
<1> HIDE DEF k
<1>7. BatchOK(k)
  BY <1>6 DEF BatchOK
<1> QED
  BY <1>2, <1>3, <1>4, <1>5, <1>6, <1>7 DEF TaskWrite

\* The initial state has that shape.
LEMMA InitType == Init => TypeInv
<1> SUFFICES ASSUME Init PROVE TypeInv
  OBVIOUS
<1>1. 1 \in Payload /\ 0 \in 0..MaxTime /\ 0 \in 0..MaxFaults
  BY Numbers DEF Payload
<1>2. BatchOK(Idle)
  BY DEF BatchOK, Idle, Running
<1>3. \A t \in Task : BatchOK(task[t])
  BY <1>2 DEF Init
<1>4. task \in [Task -> TaskState]
  BY IdleType DEF Init
<1> QED
  BY <1>1, <1>3, <1>4 DEF Init, TypeInv, TypeOK, Finished, Loaded, NoLoad

\* Every step keeps that shape.
LEMMA NextType == TypeInv /\ [Next]_vars => TypeInv'
<1> SUFFICES ASSUME TypeInv, [Next]_vars PROVE TypeInv'
  OBVIOUS
<1> USE DEF storeVars, ledgerVars, bronzeVars
<1>1. ASSUME NEW r \in Run, StartRun(r) PROVE TypeInv'
  BY <1>1 DEF StartRun, TypeInv, TypeOK, Loaded
<1>2. ASSUME NEW r \in Run, RunTimeout(r) PROVE TypeInv'
  <2>1. faults' \in 0..MaxFaults
    BY <1>2, Numbers DEF RunTimeout, TypeInv, TypeOK
  <2> QED
    BY <1>2, <2>1 DEF RunTimeout, TypeInv, TypeOK, Finished, Loaded
<1>3. ASSUME NEW r \in Run, BronzeStep(r) \/ LoaderCrash(r) PROVE TypeInv'
  BY <1>3, BronzeType
<1>4. ASSUME NEW t \in Task, StartTry(t) PROVE TypeInv'
  <2>1. PICK k : TaskWrite(t, k) /\ anchor' \in [Run -> 0..(MaxTime + Duration) \cup {None}]
    BY <1>4, StartTryWrites DEF StartTry
  <2>2. faults' \in 0..MaxFaults
    BY <1>4, Numbers DEF StartTry, TypeInv, TypeOK
  <2> QED
    BY <1>4, <2>1, <2>2, TaskWritten DEF StartTry, TypeInv, TypeOK
<1>5. ASSUME NEW t \in Task, Crash(t) PROVE TypeInv'
  <2>1. faults' \in 0..MaxFaults
    BY <1>5, Numbers DEF Crash, TypeInv, TypeOK
  <2>2. /\ task' \in [Task -> TaskState] /\ \A s \in Task : BatchOK(task'[s])
        /\ status' \in [Run -> Finished \cup {"landing", "load", "verify", "publish"}]
        /\ \A r \in Run : status'[r] \in Loaded => status'[r] = status[r]
    BY <1>5, RaiseWrites, TaskWritten DEF Crash
  <2> QED
    BY <1>5, <2>1, <2>2 DEF Crash, Raise, TypeInv, TypeOK
<1>6. ASSUME NEW t \in Task, Step(t) PROVE TypeInv'
  BY <1>6, StepType
<1>7. CASE ForecastAttempt
  <2>1. Today \in Day /\ ledger \in [Day -> Nat] /\ requests \in [Day -> Nat]
    BY TodayType DEF TypeInv, TypeOK
  <2>2. ledger' \in [Day -> Nat] /\ requests' \in [Day -> Nat]
    BY <1>7, <2>1 DEF ForecastAttempt
  <2> QED
    BY <1>7, <2>2 DEF ForecastAttempt, TypeInv, TypeOK
<1>8. CASE Revise
  <2>1. revision' \in Payload
    BY <1>8, Numbers DEF Revise, Payload, TypeInv, TypeOK
  <2> QED
    BY <1>8, <2>1 DEF Revise, TypeInv, TypeOK
<1>9. CASE Tick
  <2>1. now' \in 0..MaxTime
    BY <1>9, Numbers DEF Tick, TypeInv, TypeOK
  <2> QED
    BY <1>9, <2>1 DEF Tick, TypeInv, TypeOK
<1>10. CASE UNCHANGED vars
  BY <1>10 DEF vars, TypeInv, TypeOK
<1> QED
  BY <1>1, <1>2, <1>3, <1>4, <1>5, <1>6, <1>7, <1>8, <1>9, <1>10 DEF Next

\* The run states, the tries, the documents, the ledger and the Bronze table have
\* the shape that landing, client, ledger and Bronze code give them.
THEOREM TypeCorrect == Spec => []TypeOK
<1>1. TypeInv => TypeOK
  BY DEF TypeInv
<1> QED
  BY <1>1, InitType, NextType, PTL DEF Spec

-----------------------------------------------------------------------------
(* The deadline.                                                             *)

\* What a step does to its try: one that goes on keeps its deadline, only reserve
\* leads to a request, and only a written manifest leads to the return.
Moved(t, k) ==
  /\ TaskWrite(t, k)
  /\ k.pc \in Running =>
       task[t].pc \in Running /\ k.deadline = task[t].deadline
  /\ k.pc = "send" => Reserve(t)
  /\ k.pc = "return" => WriteManifest(t)

\* The state of the tries after one of them was written.
LEMMA TaskRead ==
  ASSUME TypeInv, NEW t \in Task, NEW k, TaskWrite(t, k)
  PROVE  task'[t] = k /\ \A s \in Task : s # t => task'[s] = task[s]
BY DEF TypeInv, TypeOK, TaskWrite

\* A try that ends has moved.
LEMMA Ended ==
  ASSUME NEW t \in Task, NEW pc \in {"failed", "done"}, TaskWrite(t, [Idle EXCEPT !.pc = pc])
  PROVE  Moved(t, [Idle EXCEPT !.pc = pc])
<1>1. [Idle EXCEPT !.pc = pc].pc = pc
  BY DEF Idle
<1>2. pc \notin Running /\ pc # "send" /\ pc # "return"
  BY DEF Running
<1> HIDE DEF Idle
<1> QED
  BY <1>1, <1>2 DEF Moved

\* A try that keeps its deadline has moved.
LEMMA Kept ==
  ASSUME NEW t \in Task, NEW k, TaskWrite(t, k), task[t].pc \in Running,
         k.deadline = task[t].deadline, k.pc = "send" => Reserve(t),
         k.pc = "return" => WriteManifest(t)
  PROVE  Moved(t, k)
BY DEF Moved

\* Every step of a try moves it and leaves the stored deadline alone.
LEMMA StepMoves ==
  ASSUME TypeInv, NEW t \in Task, Step(t)
  PROVE  anchor' = anchor /\ \E k : Moved(t, k)
<1> USE DEF storeVars, ledgerVars
<1>0. t[1] \in Run /\ task[t] \in TaskState
  BY DEF Task, TypeInv, TypeOK
<1>r. {"grid", "admit", "send", "checkpoint", "manifest", "return"} = Running
  BY DEF Running
<1>a. ASSUME Raise(t) PROVE \E k : Moved(t, k)
  <2>1. TaskWrite(t, [Idle EXCEPT !.pc = "failed"])
    BY <1>a, RaiseWrites
  <2>2. Moved(t, [Idle EXCEPT !.pc = "failed"])
    BY <2>1, Ended
  <2> QED
    BY <2>2
<1>b. ASSUME NEW e \in Evidence, NextGrid(t, e), task[t].pc \in Running
      PROVE  \E k : Moved(t, k)
  <2>1. PICK k : /\ TaskWrite(t, k) /\ k.pc \in {"grid", "manifest"}
                 /\ k.deadline = task[t].deadline
    BY <1>b, NextGridWrites
  <2>2. Moved(t, k)
    BY <1>b, <2>1, Kept
  <2> QED
    BY <2>2
<1>c. ASSUME NEW pc \in {"admit", "return"}, Goto(t, pc), task[t].pc \in Running,
             pc = "return" => task[t].pc = "manifest" /\ WriteManifest(t)
      PROVE  \E k : Moved(t, k)
  <2> DEFINE k == [task[t] EXCEPT !.pc = pc]
  <2>1. TaskWrite(t, k)
    BY <1>c, GotoWrites
  <2>2. k.deadline = task[t].deadline /\ k.pc = pc
    BY <1>0 DEF TaskState
  <2> HIDE DEF k
  <2>3. Moved(t, k)
    BY <1>c, <2>1, <2>2, Kept
  <2> QED
    BY <2>3
<1>d. ASSUME NEW n \in Nat, Retry(t, n), task[t].pc = "send"
      PROVE  \E k : Moved(t, k)
  <2> DEFINE k == [task[t] EXCEPT !.pc = "admit", !.ordinal = task[t].ordinal + 1,
                                  !.throttles = n, !.day = 0]
  <2>1. TaskWrite(t, k)
    BY <1>d, RetryWrites
  <2>2. k.deadline = task[t].deadline /\ k.pc = "admit"
    BY <1>0 DEF TaskState
  <2> HIDE DEF k
  <2>3. Moved(t, k)
    BY <1>d, <1>r, <2>1, <2>2, Kept
  <2> QED
    BY <2>3
<1>1. CASE ReuseCheckpoint(t)
  <2> DEFINE e == checkpoint[t[1]][task[t].grid]
  <2>1. e \in Evidence /\ task[t].pc \in Running
    BY <1>0, <1>1, CheckpointType DEF ReuseCheckpoint, TaskState, Running
  <2>2. anchor' = anchor /\ (NextGrid(t, e) \/ Raise(t))
    BY <1>1 DEF ReuseCheckpoint
  <2> HIDE DEF e
  <2> QED
    BY <1>a, <1>b, <2>1, <2>2
<1>2. CASE CollectGrid(t)
  <2>1. anchor' = anchor /\ Goto(t, "admit") /\ task[t].pc \in Running
    BY <1>2, <1>r DEF CollectGrid
  <2> QED
    BY <1>c, <2>1
<1>3. CASE Reserve(t)
  <2> DEFINE k == [task[t] EXCEPT !.pc = "send", !.day = Today]
  <2>1. TaskWrite(t, k)
    BY <1>3, ReserveWrites
  <2>2. k.deadline = task[t].deadline /\ k.pc = "send"
    BY <1>0 DEF TaskState
  <2>3. anchor' = anchor /\ task[t].pc = "admit" /\ task[t].pc \in Running
    BY <1>3, <1>r DEF Reserve
  <2> HIDE DEF k
  <2>4. Moved(t, k)
    BY <1>3, <2>1, <2>2, <2>3, Kept
  <2> QED
    BY <2>3, <2>4
<1>4. CASE NotReserved(t) \/ Rejected(t) \/ CheckpointConflict(t)
  BY <1>4, <1>a DEF NotReserved, Rejected, CheckpointConflict
<1>5. CASE Answer(t)
  <2> DEFINE k == [task[t] EXCEPT !.pc = "checkpoint", !.payload = revision]
  <2>1. anchor' = anchor /\ task[t].pc = "send" /\ task[t].pc \in Running
    BY <1>5, <1>r DEF Answer, Send
  <2>2. TaskWrite(t, k)
    BY <1>5, <2>1, AnswerWrites
  <2>3. k.deadline = task[t].deadline /\ k.pc = "checkpoint"
    BY <1>0 DEF TaskState
  <2> HIDE DEF k
  <2>4. Moved(t, k)
    BY <2>1, <2>2, <2>3, Kept
  <2> QED
    BY <2>1, <2>4
<1>6. CASE Throttled(t)
  <2>1. task[t].throttles + 1 \in Nat
    BY <1>0, Numbers DEF TaskState
  <2>2. task[t].pc = "send" /\ (Retry(t, task[t].throttles + 1) \/ GiveUp(t, task[t].throttles + 1))
    BY <1>6 DEF Throttled, Send
  <2>3. CASE Retry(t, task[t].throttles + 1)
    BY <1>d, <2>1, <2>2, <2>3 DEF Retry
  <2>4. CASE GiveUp(t, task[t].throttles + 1)
    BY <1>a, <2>4 DEF GiveUp
  <2> QED
    BY <2>2, <2>3, <2>4
<1>7. CASE TransportFailed(t)
  <2>1. task[t].throttles \in Nat
    BY <1>0, Numbers DEF TaskState
  <2>2. task[t].pc = "send" /\ (Retry(t, task[t].throttles) \/ GiveUp(t, task[t].throttles))
    BY <1>7 DEF TransportFailed, Send
  <2>3. CASE Retry(t, task[t].throttles)
    BY <1>d, <2>1, <2>2, <2>3 DEF Retry
  <2>4. CASE GiveUp(t, task[t].throttles)
    BY <1>a, <2>4 DEF GiveUp
  <2> QED
    BY <2>2, <2>3, <2>4
<1>8. CASE WriteCheckpoint(t)
  <2>1. anchor' = anchor /\ task[t].pc \in Running /\ NextGrid(t, Collected(t))
    BY <1>8, <1>r DEF WriteCheckpoint
  <2>2. Collected(t) \in Evidence
    BY <1>8, CollectedType DEF WriteCheckpoint
  <2> QED
    BY <1>b, <2>1, <2>2
<1>9. CASE WriteManifest(t)
  <2>1. /\ anchor' = anchor /\ task[t].pc = "manifest" /\ task[t].pc \in Running
        /\ Goto(t, "return") \/ Raise(t)
    BY <1>9, <1>r DEF WriteManifest
  <2> QED
    BY <1>9, <1>a, <1>c, <2>1
<1>10. CASE ReturnBatch(t)
  <2>1. [Idle EXCEPT !.pc = "done"] \in TaskState /\ BatchOK([Idle EXCEPT !.pc = "done"])
    BY IdleType DEF TaskState, BatchOK, Idle, Running
  <2>2. anchor' = anchor /\ TaskWrite(t, [Idle EXCEPT !.pc = "done"])
    BY <1>10, <2>1 DEF ReturnBatch, TaskWrite
  <2>3. Moved(t, [Idle EXCEPT !.pc = "done"])
    BY <2>2, Ended
  <2> QED
    BY <2>2, <2>3
<1> QED
  BY <1>1, <1>2, <1>3, <1>4, <1>5, <1>6, <1>7, <1>8, <1>9, <1>10 DEF Step

\* Every step keeps the one deadline: an anchor, once stored, is never replaced.
LEMMA DeadlineStep ==
  TypeInv /\ OneDeadlinePerCycle /\ [Next]_vars => OneDeadlinePerCycle'
<1> SUFFICES ASSUME TypeInv, OneDeadlinePerCycle, [Next]_vars,
                    NEW s \in Task, task'[s].pc \in Running
             PROVE  task'[s].deadline = anchor'[s[1]]
  BY DEF OneDeadlinePerCycle
<1> USE DEF storeVars, ledgerVars, bronzeVars
<1>0. s[1] \in Run /\ task[s].deadline \in Nat
  BY Numbers DEF Task, TypeInv, TypeOK, TaskState
<1>k. ASSUME task'[s] = task[s], anchor' = anchor PROVE task'[s].deadline = anchor'[s[1]]
  BY <1>k DEF OneDeadlinePerCycle
<1>1. ASSUME NEW t \in Task, StartTry(t) PROVE task'[s].deadline = anchor'[s[1]]
  <2>0. t[1] \in Run
    BY DEF Task
  <2>1. PICK k : /\ TaskWrite(t, k) /\ k.deadline = anchor'[t[1]]
                 /\ anchor' = [anchor EXCEPT ![t[1]] = IF @ = None THEN now + Duration ELSE @]
    BY <1>1, StartTryWrites DEF StartTry
  <2>2. CASE s = t
    BY <2>1, <2>2, TaskRead
  <2>3. CASE s # t
    <3>1. task'[s] = task[s] /\ task[s].deadline = anchor[s[1]]
      BY <2>1, <2>3, TaskRead DEF OneDeadlinePerCycle
    <3>2. anchor[s[1]] # None
      BY <1>0, <3>1, NoneAssumption
    <3>3. anchor'[s[1]] = anchor[s[1]]
      BY <1>0, <2>0, <2>1, <3>2 DEF TypeInv, TypeOK
    <3> QED
      BY <3>1, <3>3
  <2> QED
    BY <2>2, <2>3
<1>2. ASSUME NEW t \in Task, NEW k, Moved(t, k), anchor' = anchor
      PROVE  task'[s].deadline = anchor'[s[1]]
  <2>1. task'[t] = k /\ (s # t => task'[s] = task[s])
    BY <1>2, TaskRead DEF Moved
  <2>2. CASE s = t
    BY <1>2, <2>1, <2>2 DEF Moved, OneDeadlinePerCycle
  <2> QED
    BY <1>k, <1>2, <2>1, <2>2
<1>3. ASSUME NEW t \in Task, Crash(t) PROVE task'[s].deadline = anchor'[s[1]]
  <2>1. Moved(t, [Idle EXCEPT !.pc = "failed"]) /\ anchor' = anchor
    BY <1>3, RaiseWrites, Ended DEF Crash
  <2> QED
    BY <1>2, <2>1
<1>4. ASSUME NEW t \in Task, Step(t) PROVE task'[s].deadline = anchor'[s[1]]
  BY <1>2, <1>4, StepMoves
<1>5. ASSUME NEW r \in Run, StartRun(r) \/ RunTimeout(r) \/ BronzeStep(r) \/ LoaderCrash(r)
      PROVE  task' = task /\ anchor' = anchor
  BY <1>5 DEF StartRun, RunTimeout, BronzeStep, LoaderCrash, ReadExisting, AppendNovel,
              CommitConflict, Verify, PublishAsset, FailRun
<1>6. ASSUME ForecastAttempt \/ Revise \/ Tick PROVE task' = task /\ anchor' = anchor
  BY <1>6 DEF ForecastAttempt, Revise, Tick
<1> QED
  BY <1>k, <1>1, <1>3, <1>4, <1>5, <1>6 DEF Next, vars

\* initialize_cycle_deadline is create-or-load: every try of a run, overlapping
\* ones too, works under the deadline that the first one stored.
THEOREM DeadlineKept == Spec => []OneDeadlinePerCycle
<1>1. Init => OneDeadlinePerCycle
  BY DEF Init, OneDeadlinePerCycle, Idle, Running
<1> QED
  BY <1>1, InitType, NextType, DeadlineStep, PTL DEF Spec

-----------------------------------------------------------------------------
(* The daily budget.                                                         *)

\* The tries that hold a reservation of day d for a request not yet sent.
Sending(f, d) == {t \in Task : f[t].pc = "send" /\ f[t].day = d}

\* The inductive form of BudgetKept: a reservation is either spent or held, and
\* reserve never goes beyond the limit.
BudgetInv ==
  \A d \in Day : /\ Cardinality(Sending(task, d)) + requests[d] <= ledger[d]
                 /\ ledger[d] <= DailyLimit

\* There are finitely many of them.
LEMMA SendingFinite ==
  ASSUME NEW f, NEW d
  PROVE  IsFiniteSet(Sending(f, d)) /\ Cardinality(Sending(f, d)) \in Nat
<1>1. IsFiniteSet(1..MaxTries)
  BY Numbers, FS_Interval
<1>2. IsFiniteSet(Task)
  BY <1>1, ConstantsAssumption, FS_Product DEF Task
<1>3. Sending(f, d) \subseteq Task
  BY DEF Sending
<1> QED
  BY <1>2, <1>3, FS_Subset, FS_CardinalityType

\* A reservation may be lost with its process; that only leaves budget unspent.
LEMMA FewerSending ==
  ASSUME TypeInv, BudgetInv, UNCHANGED ledgerVars,
         \A d \in Day : Sending(task', d) \subseteq Sending(task, d)
  PROVE  BudgetInv'
<1> SUFFICES ASSUME NEW d \in Day
             PROVE  /\ Cardinality(Sending(task', d)) + requests'[d] <= ledger'[d]
                    /\ ledger'[d] <= DailyLimit
  BY DEF BudgetInv
<1>1. Cardinality(Sending(task', d)) <= Cardinality(Sending(task, d))
  BY SendingFinite, FS_Subset
<1>2. requests'[d] = requests[d] /\ ledger'[d] = ledger[d] /\ requests[d] \in Nat /\ ledger[d] \in Nat
  BY DEF ledgerVars, TypeInv, TypeOK
<1>3. Cardinality(Sending(task', d)) \in Nat /\ Cardinality(Sending(task, d)) \in Nat
  BY SendingFinite
<1>4. Cardinality(Sending(task, d)) + requests[d] <= ledger[d] /\ ledger[d] <= DailyLimit
  BY DEF BudgetInv
<1> QED
  BY <1>1, <1>2, <1>3, <1>4, Numbers

\* A reservation is counted before it is held.
LEMMA ReserveBudget ==
  ASSUME TypeInv, BudgetInv, NEW t \in Task, Reserve(t)
  PROVE  BudgetInv'
<1> DEFINE k == [task[t] EXCEPT !.pc = "send", !.day = Today]
<1>0. Today \in Day /\ task[t] \in TaskState /\ task[t].pc = "admit"
  BY TodayType DEF TypeInv, TypeOK, Reserve
<1>1. TaskWrite(t, k) /\ k.pc = "send" /\ k.day = Today
  BY <1>0, ReserveWrites DEF TaskState
<1>2. task'[t].pc = "send" /\ task'[t].day = Today /\ \A s \in Task : s # t => task'[s] = task[s]
  BY <1>1, TaskRead
<1>3. t \notin Sending(task, Today)
  BY <1>0 DEF Sending
<1> SUFFICES ASSUME NEW d \in Day
             PROVE  /\ Cardinality(Sending(task', d)) + requests'[d] <= ledger'[d]
                    /\ ledger'[d] <= DailyLimit
  BY DEF BudgetInv
<1>4. /\ requests[d] \in Nat /\ ledger[d] \in Nat
      /\ Cardinality(Sending(task, d)) + requests[d] <= ledger[d] /\ ledger[d] <= DailyLimit
      /\ Cardinality(Sending(task, d)) \in Nat
  BY SendingFinite DEF BudgetInv, TypeInv, TypeOK
<1>5. requests'[d] = requests[d]
  BY DEF Reserve
<1>6. CASE d = Today
  <2>1. Sending(task', d) = Sending(task, d) \cup {t}
    BY <1>2, <1>6 DEF Sending
  <2>2. Cardinality(Sending(task', d)) = Cardinality(Sending(task, d)) + 1
    BY <1>3, <1>6, <2>1, SendingFinite, FS_AddElement
  <2>3. ledger'[d] = ledger[d] + 1 /\ ledger[d] < DailyLimit
    BY <1>0, <1>6 DEF Reserve, CanReserve, TypeInv, TypeOK
  <2> QED
    BY <1>4, <1>5, <2>2, <2>3, Numbers
<1>7. CASE d # Today
  <2>1. Sending(task', d) = Sending(task, d)
    BY <1>0, <1>2, <1>7 DEF Sending
  <2>2. ledger'[d] = ledger[d]
    BY <1>0, <1>7 DEF Reserve, TypeInv, TypeOK
  <2> QED
    BY <1>4, <1>5, <2>1, <2>2
<1> QED
  BY <1>6, <1>7

\* A request spends the reservation that its try held.
LEMMA SendBudget ==
  ASSUME TypeInv, BudgetInv, NEW t \in Task, Send(t), NEW k, TaskWrite(t, k), k.pc # "send"
  PROVE  BudgetInv'
<1> DEFINE e == task[t].day
<1>0. e \in Day /\ task[t].pc = "send" /\ t \in Sending(task, e)
  BY DEF Send, TypeInv, TypeOK, TaskState, Sending
<1>1. task'[t].pc # "send" /\ \A s \in Task : s # t => task'[s] = task[s]
  BY TaskRead
<1> SUFFICES ASSUME NEW d \in Day
             PROVE  /\ Cardinality(Sending(task', d)) + requests'[d] <= ledger'[d]
                    /\ ledger'[d] <= DailyLimit
  BY DEF BudgetInv
<1>2. /\ requests[d] \in Nat /\ ledger[d] \in Nat
      /\ Cardinality(Sending(task, d)) + requests[d] <= ledger[d] /\ ledger[d] <= DailyLimit
      /\ Cardinality(Sending(task, d)) \in Nat /\ Cardinality(Sending(task', d)) \in Nat
  BY SendingFinite DEF BudgetInv, TypeInv, TypeOK
<1>3. Sending(task', d) = Sending(task, d) \ {t}
  BY <1>1 DEF Sending
<1>4. ledger'[d] = ledger[d]
  BY DEF Send
<1>5. CASE d = e
  <2>1. Cardinality(Sending(task', d)) = Cardinality(Sending(task, d)) - 1
    <3>1. t \in Sending(task, d) /\ IsFiniteSet(Sending(task, d))
      BY <1>0, <1>5, SendingFinite
    <3>2. Cardinality(Sending(task, d) \ {t}) = Cardinality(Sending(task, d)) - 1
      BY <3>1, FS_RemoveElement
    <3> QED
      BY <1>3, <3>2
  <2>2. requests'[d] = requests[d] + 1
    BY <1>0, <1>5 DEF Send, TypeInv, TypeOK
  <2> QED
    BY <1>2, <1>4, <2>1, <2>2
<1>6. CASE d # e
  <2>1. Sending(task', d) = Sending(task, d)
    BY <1>3, <1>6 DEF Sending
  <2>2. requests'[d] = requests[d]
    BY <1>0, <1>6 DEF Send, TypeInv, TypeOK
  <2> QED
    BY <1>2, <1>4, <2>1, <2>2
<1> QED
  BY <1>5, <1>6

\* Nothing else in a try touches the budget.
LEMMA StepLedger ==
  ASSUME NEW t \in Task, Step(t)
  PROVE  Reserve(t) \/ Send(t) \/ UNCHANGED ledgerVars
BY DEF Step, ReuseCheckpoint, CollectGrid, NotReserved, Answer, Rejected, Throttled,
       TransportFailed, WriteCheckpoint, CheckpointConflict, WriteManifest, ReturnBatch, ledgerVars

\* A forecast request reserves and spends in the same ledger.
LEMMA ForecastBudget ==
  ASSUME TypeInv, BudgetInv, ForecastAttempt
  PROVE  BudgetInv'
<1>0. Today \in Day /\ task' = task
  BY TodayType DEF ForecastAttempt, TypeInv
<1> SUFFICES ASSUME NEW d \in Day
             PROVE  /\ Cardinality(Sending(task', d)) + requests'[d] <= ledger'[d]
                    /\ ledger'[d] <= DailyLimit
  BY DEF BudgetInv
<1>1. /\ requests[d] \in Nat /\ ledger[d] \in Nat
      /\ Cardinality(Sending(task, d)) + requests[d] <= ledger[d] /\ ledger[d] <= DailyLimit
      /\ Cardinality(Sending(task, d)) \in Nat /\ Sending(task', d) = Sending(task, d)
  BY <1>0, SendingFinite DEF BudgetInv, TypeInv, TypeOK
<1>2. \/ requests'[d] = requests[d] /\ ledger'[d] = ledger[d]
      \/ requests'[d] = requests[d] + 1 /\ ledger'[d] = ledger[d] + 1 /\ ledger[d] < DailyLimit
  BY <1>0 DEF ForecastAttempt, CanReserve, TypeInv, TypeOK
<1> QED
  BY <1>1, <1>2, Numbers

\* Every step keeps the budget.
LEMMA BudgetStep == TypeInv /\ BudgetInv /\ [Next]_vars => BudgetInv'
<1> SUFFICES ASSUME TypeInv, BudgetInv, [Next]_vars PROVE BudgetInv'
  OBVIOUS
<1>a. ASSUME NEW t \in Task, NEW k, TaskWrite(t, k), k.pc # "send"
      PROVE  \A d \in Day : Sending(task', d) \subseteq Sending(task, d)
  BY <1>a, TaskRead DEF Sending
<1>b. ASSUME UNCHANGED <<task, ledger, requests>> PROVE BudgetInv'
  BY <1>b, FewerSending DEF ledgerVars
<1>1. ASSUME NEW t \in Task, StartTry(t) PROVE BudgetInv'
  <2>1. PICK k : TaskWrite(t, k) /\ k.pc = "grid"
    BY <1>1, StartTryWrites DEF StartTry
  <2>2. UNCHANGED ledgerVars /\ k.pc # "send"
    BY <1>1, <2>1 DEF StartTry
  <2> QED
    BY <1>a, <2>1, <2>2, FewerSending
<1>2. ASSUME NEW t \in Task, Crash(t) PROVE BudgetInv'
  <2> DEFINE k == [Idle EXCEPT !.pc = "failed"]
  <2>1. TaskWrite(t, k) /\ UNCHANGED ledgerVars
    BY <1>2, RaiseWrites DEF Crash
  <2>2. k.pc # "send"
    BY DEF Idle
  <2> HIDE DEF k
  <2> QED
    BY <1>a, <2>1, <2>2, FewerSending
<1>3. ASSUME NEW t \in Task, Step(t) PROVE BudgetInv'
  <2>1. CASE Reserve(t)
    BY <2>1, ReserveBudget
  <2>2. CASE ~Reserve(t)
    <3>1. PICK k : TaskWrite(t, k) /\ k.pc # "send"
      BY <1>3, <2>2, StepMoves DEF Moved
    <3>2. CASE Send(t)
      BY <3>1, <3>2, SendBudget
    <3>3. CASE UNCHANGED ledgerVars
      BY <1>a, <3>1, <3>3, FewerSending
    <3> QED
      BY <1>3, <2>2, <3>2, <3>3, StepLedger
  <2> QED
    BY <2>1, <2>2
<1>4. ASSUME NEW r \in Run, StartRun(r) \/ RunTimeout(r) \/ BronzeStep(r) \/ LoaderCrash(r)
      PROVE  UNCHANGED <<task, ledger, requests>>
  BY <1>4 DEF StartRun, RunTimeout, BronzeStep, LoaderCrash, ReadExisting, AppendNovel,
              CommitConflict, Verify, PublishAsset, FailRun, ledgerVars
<1>5. ASSUME Revise \/ Tick PROVE UNCHANGED <<task, ledger, requests>>
  BY <1>5 DEF Revise, Tick, ledgerVars
<1>6. CASE UNCHANGED vars
  BY <1>b, <1>6 DEF vars
<1> QED
  BY <1>b, <1>1, <1>2, <1>3, <1>4, <1>5, <1>6, ForecastBudget DEF Next

\* Nothing is reserved at first.
LEMMA BudgetInit == Init => BudgetInv
<1> SUFFICES ASSUME Init, NEW d \in Day
             PROVE  Cardinality(Sending(task, d)) + requests[d] <= ledger[d] /\ ledger[d] <= DailyLimit
  BY DEF BudgetInv
<1>1. Sending(task, d) = {}
  BY DEF Init, Idle, Sending
<1>2. Cardinality(Sending(task, d)) = 0
  BY <1>1, FS_EmptySet
<1> QED
  BY <1>2, Numbers DEF Init

\* SqliteAttemptLedger.reserve before every physical request: no day's requests,
\* retries and forecasts included, exceed the daily limit.
THEOREM BudgetSafe == Spec => []BudgetKept
<1>1. TypeInv /\ BudgetInv => BudgetKept
  <2> SUFFICES ASSUME TypeInv, BudgetInv, NEW d \in Day PROVE requests[d] <= DailyLimit
    BY DEF BudgetKept
  <2>1. /\ Cardinality(Sending(task, d)) \in Nat /\ requests[d] \in Nat /\ ledger[d] \in Nat
        /\ Cardinality(Sending(task, d)) + requests[d] <= ledger[d] /\ ledger[d] <= DailyLimit
    BY SendingFinite DEF BudgetInv, TypeInv, TypeOK
  <2> QED
    BY <2>1, Numbers
<1> QED
  BY <1>1, InitType, NextType, BudgetInit, BudgetStep, PTL DEF Spec

-----------------------------------------------------------------------------
(* The Bronze table.                                                         *)

\* A load about to append has read a snapshot without the revisions it holds novel.
LoadInv ==
  \A r \in Run : loader[r].pc = "append" =>
      /\ loader[r].base \in [Grid \X Payload -> Nat]
      /\ \A x \in loader[r].novel : loader[r].base[x] = 0

\* The inductive form of NoDuplicateRevision.
BronzeInv == NoDuplicateRevision /\ LoadInv

\* A load that ends leaves nothing to append.
LEMMA LoaderEnds ==
  ASSUME TypeInv, LoadInv, NEW r \in Run, NEW k, k.pc # "append", loader' = [loader EXCEPT ![r] = k]
  PROVE  LoadInv'
BY DEF LoadInv, TypeInv, TypeOK

\* The record of a load that has ended.
LEMMA NoLoadEnded == [NoLoad EXCEPT !.pc = "ended"].pc # "append"
BY DEF NoLoad

\* A commit on the snapshot that was read adds each revision for the first time.
LEMMA AppendBronze ==
  ASSUME TypeInv, BronzeInv, NEW r \in Run, AppendNovel(r)
  PROVE  /\ NoDuplicateRevision'
         /\ \A x \in Grid \X Payload : bronze[x] <= bronze'[x]
<1>1. \A x \in loader[r].novel : bronze[x] = 0
  BY DEF AppendNovel, BronzeInv, LoadInv
<1>2. bronze \in [Grid \X Payload -> Nat]
  BY DEF TypeInv, TypeOK
<1> SUFFICES ASSUME NEW x \in Grid \X Payload PROVE bronze'[x] <= 1 /\ bronze[x] <= bronze'[x]
  BY DEF NoDuplicateRevision
<1>3. bronze[x] \in Nat /\ bronze[x] <= 1
  BY <1>2 DEF BronzeInv, NoDuplicateRevision
<1>4. bronze'[x] = IF x \in loader[r].novel THEN bronze[x] + 1 ELSE bronze[x]
  BY DEF AppendNovel
<1> QED
  BY <1>1, <1>3, <1>4

\* Only the load task touches its process and the table.
LEMMA BronzeOnly ==
  ASSUME [Next]_vars
  PROVE  \/ \E r \in Run : ReadExisting(r) \/ AppendNovel(r) \/ CommitConflict(r) \/ LoaderCrash(r)
         \/ UNCHANGED bronzeVars
BY DEF Next, vars, bronzeVars, StartRun, RunTimeout, BronzeStep, Verify, PublishAsset, StartTry,
       Crash, Raise, Step, ReuseCheckpoint, CollectGrid, Reserve, NotReserved, Answer, Rejected,
       Throttled, TransportFailed, Retry, GiveUp, WriteCheckpoint, CheckpointConflict,
       WriteManifest, ReturnBatch, Stay, ForecastAttempt, Revise, Tick

\* Every step keeps the Bronze invariant.
LEMMA BronzeInvStep == TypeInv /\ BronzeInv /\ [Next]_vars => BronzeInv'
<1> SUFFICES ASSUME TypeInv, BronzeInv, [Next]_vars PROVE BronzeInv'
  OBVIOUS
<1>1. ASSUME NEW r \in Run, ReadExisting(r) PROVE BronzeInv'
  <2>1. bronze' = bronze
    BY <1>1 DEF ReadExisting
  <2>2. CASE loader' = loader
    BY <2>1, <2>2 DEF BronzeInv, NoDuplicateRevision, LoadInv
  <2>3. CASE loader' = [loader EXCEPT ![r] = [pc |-> "append", base |-> bronze,
                                               novel |-> {x \in Rows(r) : bronze[x] = 0}]]
    BY <2>1, <2>3 DEF BronzeInv, NoDuplicateRevision, LoadInv, TypeInv, TypeOK
  <2> QED
    BY <1>1, <2>2, <2>3 DEF ReadExisting
<1>2. ASSUME NEW r \in Run, AppendNovel(r) PROVE BronzeInv'
  BY <1>2, AppendBronze, LoaderEnds, NoLoadEnded DEF AppendNovel, BronzeInv
<1>3. ASSUME NEW r \in Run, CommitConflict(r) \/ LoaderCrash(r) PROVE BronzeInv'
  <2>1. bronze' = bronze /\ loader' = [loader EXCEPT ![r] = [NoLoad EXCEPT !.pc = "ended"]]
    BY <1>3 DEF CommitConflict, LoaderCrash
  <2>2. LoadInv'
    BY <2>1, LoaderEnds, NoLoadEnded DEF BronzeInv
  <2> QED
    BY <2>1, <2>2 DEF BronzeInv, NoDuplicateRevision
<1>4. CASE UNCHANGED bronzeVars
  BY <1>4 DEF bronzeVars, BronzeInv, NoDuplicateRevision, LoadInv
<1> QED
  BY <1>1, <1>2, <1>3, <1>4, BronzeOnly

\* The table is empty at first.
LEMMA BronzeInit == Init => BronzeInv
BY DEF Init, BronzeInv, NoDuplicateRevision, LoadInv, NoLoad

\* load_observation_bronze appends only novel revisions, on the snapshot that it
\* read: no revision of a grid is in Bronze twice, late commits included.
THEOREM NeverTwice == Spec => []NoDuplicateRevision
<1>1. BronzeInv => NoDuplicateRevision
  BY DEF BronzeInv
<1> QED
  BY <1>1, InitType, NextType, BronzeInit, BronzeInvStep, PTL DEF Spec

-----------------------------------------------------------------------------
(* The published slot.                                                       *)

\* A run whose landing task has returned its batch, and that has not failed since.
Accepted == Loaded \cup {"published"}

\* The batch of an accepted run, and of a try about to return, is the manifest.
ManifestInv ==
  /\ \A t \in Task : task[t].pc = "return" => manifest[t[1]] = task[t].batch
  /\ \A r \in Run : status[r] \in Accepted => manifest[r] # None /\ xcom[r] = manifest[r]

\* A run past its verification still has its rows in the table.
VerifiedInv == \A r \in Run : status[r] \in {"publish", "published"} => Verified(r)

\* A manifest is never replaced.
LEMMA ManifestStays ==
  ASSUME TypeInv, [Next]_vars, NEW r \in Run, manifest[r] # None
  PROVE  manifest'[r] = manifest[r]
<1>1. ASSUME NEW t \in Task, WriteManifest(t) PROVE manifest'[r] = manifest[r]
  BY <1>1 DEF WriteManifest, TypeInv, TypeOK, Task
<1>2. (\E t \in Task : WriteManifest(t)) \/ manifest' = manifest
  BY DEF Next, vars, storeVars, StartRun, RunTimeout, BronzeStep, LoaderCrash, ReadExisting,
         AppendNovel, CommitConflict, FailRun, Verify, PublishAsset, StartTry, Crash, Step,
         ReuseCheckpoint, CollectGrid, Reserve, NotReserved, Answer, Rejected, Throttled,
         TransportFailed, Retry, GiveUp, WriteCheckpoint, CheckpointConflict, ReturnBatch,
         ForecastAttempt, Revise, Tick
<1> QED
  BY <1>1, <1>2

\* A try that has passed the manifest returns the batch that is stored.
LEMMA ManifestWritten ==
  ASSUME TypeInv, NEW t \in Task, WriteManifest(t), task'[t].pc = "return"
  PROVE  manifest'[t[1]] = task'[t].batch
<1>0. t[1] \in Run /\ task[t] \in TaskState /\ task \in [Task -> TaskState]
      /\ manifest \in [Run -> [Grid -> Evidence] \cup {None}]
  BY DEF Task, TypeInv, TypeOK
<1>1. ~Raise(t)
  <2>1. [Idle EXCEPT !.pc = "failed"].pc = "failed"
    BY DEF Idle
  <2> QED
    BY <1>0, <2>1 DEF Raise
<1>2. manifest' = [manifest EXCEPT ![t[1]] = task[t].batch] /\ task' = [task EXCEPT ![t].pc = "return"]
  BY <1>1 DEF WriteManifest, Goto
<1>3. task'[t].batch = task[t].batch
  BY <1>0, <1>2 DEF TaskState
<1> QED
  BY <1>0, <1>2, <1>3

\* A try comes to its return only by the manifest.
LEMMA TasksMove ==
  ASSUME TypeInv, [Next]_vars, NEW s \in Task, task'[s].pc = "return"
  PROVE  task'[s] = task[s] \/ WriteManifest(s)
<1>1. ASSUME NEW t \in Task, StartTry(t) PROVE task'[s] = task[s]
  <2>1. PICK k : TaskWrite(t, k) /\ k.pc = "grid"
    BY <1>1, StartTryWrites DEF StartTry
  <2> QED
    BY <2>1, TaskRead
<1>2. ASSUME NEW t \in Task, NEW k, Moved(t, k) PROVE task'[s] = task[s] \/ WriteManifest(s)
  BY <1>2, TaskRead DEF Moved
<1>3. ASSUME NEW t \in Task, Crash(t) PROVE task'[s] = task[s] \/ WriteManifest(s)
  <2>1. Moved(t, [Idle EXCEPT !.pc = "failed"])
    BY <1>3, RaiseWrites, Ended DEF Crash
  <2> QED
    BY <1>2, <2>1
<1>4. ASSUME NEW t \in Task, Step(t) PROVE task'[s] = task[s] \/ WriteManifest(s)
  BY <1>2, <1>4, StepMoves
<1>5. ASSUME NEW r \in Run, StartRun(r) \/ RunTimeout(r) \/ BronzeStep(r) \/ LoaderCrash(r)
      PROVE  task' = task
  BY <1>5 DEF StartRun, RunTimeout, BronzeStep, LoaderCrash, ReadExisting, AppendNovel,
              CommitConflict, Verify, PublishAsset, FailRun
<1>6. ASSUME ForecastAttempt \/ Revise \/ Tick PROVE task' = task
  BY <1>6 DEF ForecastAttempt, Revise, Tick
<1> QED
  BY <1>1, <1>3, <1>4, <1>5, <1>6 DEF Next, vars

\* A run is accepted with the batch that its current try returns.
LEMMA RunAccepted ==
  ASSUME TypeInv, [Next]_vars, NEW r \in Run, status'[r] \in Accepted
  PROVE  \/ status[r] \in Accepted /\ xcom'[r] = xcom[r]
         \/ \E t \in Task : /\ t[1] = r /\ task[t].pc = "return"
                            /\ status'[r] = "load" /\ xcom'[r] = task[t].batch
<1>0. status \in [Run -> Finished \cup {"landing", "load", "verify", "publish"}]
      /\ xcom \in [Run -> [Grid -> Evidence] \cup {None}]
  BY DEF TypeInv, TypeOK
<1>a. "failed" \notin Accepted /\ "landing" \notin Accepted
      /\ {"load", "verify", "publish", "published"} = Accepted
  BY DEF Accepted, Loaded
<1>b. ASSUME NEW t \in Task, Raise(t) PROVE status[r] \in Accepted /\ xcom'[r] = xcom[r]
  BY <1>0, <1>a, <1>b DEF Raise, Task
<1>c. ASSUME UNCHANGED <<status, xcom>> PROVE status[r] \in Accepted /\ xcom'[r] = xcom[r]
  BY <1>c
<1>1. ASSUME NEW q \in Run, StartRun(q) \/ RunTimeout(q) \/ LoaderCrash(q)
      PROVE  status[r] \in Accepted /\ xcom'[r] = xcom[r]
  BY <1>0, <1>a, <1>1 DEF StartRun, RunTimeout, LoaderCrash
<1>2. ASSUME NEW q \in Run, BronzeStep(q) PROVE status[r] \in Accepted /\ xcom'[r] = xcom[r]
  <2>1. CASE ReadExisting(q) \/ CommitConflict(q)
    BY <1>0, <1>a, <2>1 DEF ReadExisting, CommitConflict, FailRun
  <2>2. CASE AppendNovel(q)
    BY <1>0, <1>a, <2>2 DEF AppendNovel
  <2>3. CASE Verify(q) \/ PublishAsset(q)
    BY <1>0, <1>a, <2>3 DEF Verify, PublishAsset
  <2> QED
    BY <1>2, <2>1, <2>2, <2>3 DEF BronzeStep
<1>3. ASSUME NEW t \in Task, ReturnBatch(t)
      PROVE  \/ status[r] \in Accepted /\ xcom'[r] = xcom[r]
             \/ /\ t[1] = r /\ task[t].pc = "return"
                /\ status'[r] = "load" /\ xcom'[r] = task[t].batch
  BY <1>0, <1>3 DEF ReturnBatch, Task
<1>4. ASSUME NEW t \in Task, Step(t), ~ReturnBatch(t) PROVE Raise(t) \/ UNCHANGED <<status, xcom>>
  BY <1>4 DEF Step, ReuseCheckpoint, CollectGrid, Reserve, NotReserved, Answer, Rejected,
              Throttled, TransportFailed, Retry, GiveUp, WriteCheckpoint, CheckpointConflict,
              WriteManifest, Stay
<1>5. ASSUME NEW t \in Task, StartTry(t) PROVE UNCHANGED <<status, xcom>>
  BY <1>5 DEF StartTry
<1>6. ASSUME NEW t \in Task, Crash(t) PROVE Raise(t)
  BY <1>6 DEF Crash
<1>7. ASSUME ForecastAttempt \/ Revise \/ Tick \/ UNCHANGED vars PROVE UNCHANGED <<status, xcom>>
  BY <1>7 DEF ForecastAttempt, Revise, Tick, vars
<1> QED
  BY <1>b, <1>c, <1>1, <1>2, <1>3, <1>4, <1>5, <1>6, <1>7 DEF Next

\* Every step keeps the manifest invariant.
LEMMA ManifestStep == TypeInv /\ ManifestInv /\ [Next]_vars => ManifestInv'
<1> SUFFICES ASSUME TypeInv, ManifestInv, [Next]_vars PROVE ManifestInv'
  OBVIOUS
<1>a. ASSUME NEW t \in Task, task[t].pc = "return"
      PROVE  t[1] \in Run /\ manifest[t[1]] = task[t].batch /\ manifest[t[1]] # None
  <2>1. task[t].batch \in [Grid -> Evidence] /\ t[1] \in Run /\ manifest[t[1]] = task[t].batch
    BY <1>a, BatchType DEF ManifestInv, Task
  <2> QED
    BY <2>1, NoneAssumption
<1>1. ASSUME NEW t \in Task, task'[t].pc = "return" PROVE manifest'[t[1]] = task'[t].batch
  <2>1. CASE task'[t] = task[t]
    BY <1>1, <1>a, <2>1, ManifestStays
  <2>2. CASE WriteManifest(t)
    BY <1>1, <2>2, ManifestWritten
  <2> QED
    BY <1>1, <2>1, <2>2, TasksMove
<1>2. ASSUME NEW r \in Run, status'[r] \in Accepted
      PROVE  manifest'[r] # None /\ xcom'[r] = manifest'[r]
  <2>1. CASE status[r] \in Accepted /\ xcom'[r] = xcom[r]
    BY <2>1, ManifestStays DEF ManifestInv
  <2>2. ASSUME NEW t \in Task, t[1] = r, task[t].pc = "return", xcom'[r] = task[t].batch
        PROVE  manifest'[r] # None /\ xcom'[r] = manifest'[r]
    BY <1>a, <2>2, ManifestStays
  <2> QED
    BY <1>2, <2>1, <2>2, RunAccepted
<1> QED
  BY <1>1, <1>2 DEF ManifestInv

\* No row of the table is lost, and none is doubled.
LEMMA BronzeGrows ==
  ASSUME TypeInv, BronzeInv, [Next]_vars
  PROVE  \A x \in Grid \X Payload : bronze[x] <= bronze'[x] /\ bronze[x] \in Nat /\ bronze'[x] <= 1
<1>1. \A x \in Grid \X Payload : bronze[x] \in Nat /\ bronze[x] <= 1
  BY DEF TypeInv, TypeOK, BronzeInv, NoDuplicateRevision
<1>2. ASSUME NEW r \in Run, AppendNovel(r)
      PROVE  \A x \in Grid \X Payload : bronze[x] <= bronze'[x] /\ bronze'[x] <= 1
  BY <1>2, AppendBronze DEF NoDuplicateRevision
<1>3. (\E r \in Run : AppendNovel(r)) \/ bronze' = bronze
  BY BronzeOnly DEF bronzeVars, ReadExisting, CommitConflict, LoaderCrash
<1> QED
  BY <1>1, <1>2, <1>3

\* Every step keeps what verification has seen.
LEMMA VerifiedStep ==
  TypeInv /\ BronzeInv /\ ManifestInv /\ VerifiedInv /\ [Next]_vars => VerifiedInv'
<1> SUFFICES ASSUME TypeInv, BronzeInv, ManifestInv, VerifiedInv, [Next]_vars, NEW r \in Run,
                    status'[r] \in {"publish", "published"}
             PROVE  Verified(r)'
  BY DEF VerifiedInv
<1>1. status[r] \in Accepted /\ xcom'[r] = xcom[r]
  BY RunAccepted DEF Accepted, Loaded
<1>2. xcom[r] \in [Grid -> Evidence]
  BY <1>1, NoneAssumption DEF ManifestInv, TypeInv, TypeOK
<1>3. Rows(r) \subseteq Grid \X Payload /\ Rows(r)' = Rows(r)
  BY <1>1, <1>2 DEF Rows, Evidence
<1>4. Verified(r)
  <2>0. status \in [Run -> Finished \cup {"landing", "load", "verify", "publish"}]
    BY DEF TypeInv, TypeOK
  <2>1. CASE status[r] \in {"publish", "published"}
    BY <2>1 DEF VerifiedInv
  <2>2. CASE status[r] \notin {"publish", "published"}
    <3>1. ASSUME NEW q \in Run, BronzeStep(q) PROVE Verified(r)
      BY <2>0, <2>2, <3>1 DEF BronzeStep, ReadExisting, AppendNovel, CommitConflict, FailRun,
                              Verify, PublishAsset
    <3>2. ASSUME NEW q \in Run, StartRun(q) \/ RunTimeout(q) \/ LoaderCrash(q) PROVE FALSE
      BY <2>0, <2>2, <3>2 DEF StartRun, RunTimeout, LoaderCrash
    <3>3. ASSUME NEW t \in Task, Raise(t) PROVE FALSE
      BY <2>0, <2>2, <3>3 DEF Raise, Task
    <3>4. ASSUME NEW t \in Task, StartTry(t) \/ Crash(t) \/ Step(t) PROVE Raise(t)
      BY <2>0, <2>2, <3>4 DEF StartTry, Crash, Step, ReuseCheckpoint, CollectGrid, Reserve,
           NotReserved, Answer, Rejected, Throttled, TransportFailed, Retry, GiveUp,
           WriteCheckpoint, CheckpointConflict, WriteManifest, ReturnBatch, Stay, Task
    <3>5. ASSUME ForecastAttempt \/ Revise \/ Tick \/ UNCHANGED vars PROVE FALSE
      BY <2>2, <3>5 DEF ForecastAttempt, Revise, Tick, vars
    <3> QED
      BY <3>1, <3>2, <3>3, <3>4, <3>5 DEF Next
  <2> QED
    BY <2>1, <2>2
<1>5. \A x \in Rows(r) : bronze'[x] = 1
  <2> SUFFICES ASSUME NEW x \in Rows(r) PROVE bronze'[x] = 1
    OBVIOUS
  <2>1. bronze[x] = 1 /\ bronze[x] <= bronze'[x] /\ bronze'[x] <= 1
    BY <1>3, <1>4, BronzeGrows DEF Verified
  <2>2. bronze'[x] \in Nat
    BY <1>3, NextType DEF TypeInv, TypeOK
  <2> QED
    BY <2>1, <2>2
<1> QED
  BY <1>3, <1>5 DEF Verified

\* publish_observation_bronze_asset comes after the exact-revision count: a
\* published slot has in Bronze the revision of every grid of its manifest.
THEOREM PublishedComplete == Spec => []PublishedIsComplete
<1>1. Init => ManifestInv /\ VerifiedInv
  BY DEF Init, ManifestInv, VerifiedInv, Accepted, Loaded, Idle
<1>2. TypeInv /\ ManifestInv /\ VerifiedInv => PublishedIsComplete
  <2> SUFFICES ASSUME TypeInv, ManifestInv, VerifiedInv, NEW r \in Run, status[r] = "published"
               PROVE  /\ manifest[r] # None
                      /\ \A g \in Grid : bronze[<<g, manifest[r][g].payload>>] = 1
    BY DEF PublishedIsComplete
  <2>1. manifest[r] # None /\ xcom[r] = manifest[r]
    BY DEF ManifestInv, Accepted
  <2>2. \A x \in Rows(r) : bronze[x] = 1
    BY DEF VerifiedInv, Verified
  <2> QED
    BY <2>1, <2>2 DEF Rows
<1> QED
  BY <1>1, <1>2, InitType, NextType, BronzeInit, BronzeInvStep, ManifestStep, VerifiedStep, PTL
     DEF Spec

-----------------------------------------------------------------------------
(* The evidence in storage.                                                  *)

\* What a running try has gathered is stored: its batch in the checkpoints c, and
\* the answer it is about to checkpoint in the raw objects w.
Evidenced(t, k, c, w) ==
  k.pc \in Running =>
    /\ \A g \in Grid : k.batch[g] # None => k.batch[g] = c[t[1]][g]
    /\ k.pc = "checkpoint" =>
         [run |-> t[1], grid |-> k.grid, request |-> t[2], payload |-> k.payload] \in w

\* The inductive form of EvidenceIsDurable.
EvidenceInv == EvidenceIsDurable /\ \A t \in Task : Evidenced(t, task[t], checkpoint, raw)

\* A step only adds to the raw objects and the checkpoints.
StoreGrows ==
  /\ raw \subseteq raw'
  /\ \A r \in Run : \A g \in Grid : checkpoint[r][g] # None => checkpoint'[r][g] = checkpoint[r][g]

\* What is stored stays stored.
LEMMA EvidenceStays ==
  ASSUME StoreGrows, NEW t \in Task, NEW k, k.batch \in [Grid -> Evidence \cup {None}],
         Evidenced(t, k, checkpoint, raw)
  PROVE  Evidenced(t, k, checkpoint', raw')
BY DEF StoreGrows, Evidenced, Task

\* A record that keeps its batch and is not about to write a checkpoint.
LEMMA Carried ==
  ASSUME NEW t \in Task, NEW k, NEW c, NEW w, task[t].pc \in Running,
         Evidenced(t, task[t], c, w), k.batch = task[t].batch, k.pc # "checkpoint"
  PROVE  Evidenced(t, k, c, w)
BY DEF Evidenced

\* A record whose batch has gained the evidence of a stored checkpoint.
LEMMA Gathered ==
  ASSUME TypeInv, NEW t \in Task, NEW k, NEW c, NEW w, NEW e \in Evidence,
         task[t].pc \in Running, Evidenced(t, task[t], c, w),
         k.batch = [task[t].batch EXCEPT ![task[t].grid] = e], k.pc # "checkpoint",
         c[t[1]][task[t].grid] = e
  PROVE  Evidenced(t, k, c, w)
<1>1. task[t].batch \in [Grid -> Evidence \cup {None}] /\ task[t].grid \in Grid
  BY DEF TypeInv, TypeOK, TaskState
<1> QED
  BY <1>1 DEF Evidenced

\* A step that writes nothing to the store.
LEMMA StoreUnchanged ==
  ASSUME EvidenceInv, UNCHANGED <<raw, checkpoint, manifest>>
  PROVE  StoreGrows /\ EvidenceIsDurable'
BY DEF EvidenceInv, EvidenceIsDurable, StoreGrows

\* A try that has ended holds nothing.
LEMMA Stopped ==
  ASSUME NEW t \in Task, NEW pc \in {"failed", "done"}, NEW c, NEW w
  PROVE  Evidenced(t, [Idle EXCEPT !.pc = pc], c, w)
<1>1. [Idle EXCEPT !.pc = pc].pc = pc /\ pc \notin Running
  BY DEF Idle, Running
<1> QED
  BY <1>1 DEF Evidenced

\* Each step of a try writes a document only after what it names.
LEMMA StepEvidence ==
  ASSUME TypeInv, EvidenceInv, NEW t \in Task, Step(t)
  PROVE  /\ StoreGrows /\ EvidenceIsDurable'
         /\ \E k : TaskWrite(t, k) /\ Evidenced(t, k, checkpoint', raw')
<1> DEFINE Leaves(k) == TaskWrite(t, k) /\ Evidenced(t, k, checkpoint', raw')
           Goal == StoreGrows /\ EvidenceIsDurable' /\ \E k : Leaves(k)
<1> USE DEF storeVars, ledgerVars
<1>0. t[1] \in Run /\ t[2] \in 1..MaxTries /\ task[t] \in TaskState
  BY DEF Task, TypeInv, TypeOK
<1>e. Evidenced(t, task[t], checkpoint, raw)
  BY DEF EvidenceInv
<1>r. {"grid", "admit", "send", "checkpoint", "manifest", "return"} = Running
  BY DEF Running
<1>a. ASSUME Raise(t), UNCHANGED <<raw, checkpoint, manifest>> PROVE Goal
  <2>1. Leaves([Idle EXCEPT !.pc = "failed"])
    BY <1>a, RaiseWrites, Stopped
  <2> QED
    BY <1>a, <2>1, StoreUnchanged
<1>c. ASSUME NEW k, TaskWrite(t, k), k.batch = task[t].batch, k.pc # "checkpoint",
             task[t].pc \in Running, UNCHANGED <<raw, checkpoint, manifest>>
      PROVE  Goal
  <2>1. Leaves(k)
    BY <1>c, <1>e, Carried
  <2> QED
    BY <1>c, <2>1, StoreUnchanged
<1>d. ASSUME NEW n \in Nat, Retry(t, n), task[t].pc = "send" PROVE Goal
  <2> DEFINE k == [task[t] EXCEPT !.pc = "admit", !.ordinal = task[t].ordinal + 1,
                                  !.throttles = n, !.day = 0]
  <2>1. TaskWrite(t, k)
    BY <1>d, RetryWrites
  <2>2. k.batch = task[t].batch /\ k.pc = "admit"
    BY <1>0 DEF TaskState
  <2>3. UNCHANGED <<raw, checkpoint, manifest>>
    BY <1>d DEF Retry
  <2> HIDE DEF k
  <2> QED
    BY <1>c, <1>d, <1>r, <2>1, <2>2, <2>3
<1>1. CASE ReuseCheckpoint(t)
  <2> DEFINE e == checkpoint[t[1]][task[t].grid]
  <2>1. e \in Evidence /\ task[t].pc \in Running
    BY <1>0, <1>1, CheckpointType DEF ReuseCheckpoint, TaskState, Running
  <2>2. UNCHANGED <<raw, checkpoint, manifest>> /\ (NextGrid(t, e) \/ Raise(t))
    BY <1>1 DEF ReuseCheckpoint
  <2>3. CASE NextGrid(t, e)
    <3>1. PICK k : /\ TaskWrite(t, k) /\ k.pc \in {"grid", "manifest"}
                   /\ k.batch = [task[t].batch EXCEPT ![task[t].grid] = e]
      BY <2>1, <2>3, NextGridWrites
    <3>2. Evidenced(t, k, checkpoint, raw)
      BY <1>e, <2>1, <3>1, Gathered
    <3> QED
      BY <2>2, <3>1, <3>2, StoreUnchanged
  <2> QED
    BY <1>a, <2>2, <2>3
<1>2. CASE CollectGrid(t)
  <2> DEFINE k == [task[t] EXCEPT !.pc = "admit"]
  <2>1. UNCHANGED <<raw, checkpoint, manifest>> /\ Goto(t, "admit") /\ task[t].pc \in Running
    BY <1>2, <1>r DEF CollectGrid
  <2>2. TaskWrite(t, k)
    BY <2>1, GotoWrites
  <2>3. k.batch = task[t].batch /\ k.pc = "admit"
    BY <1>0 DEF TaskState
  <2> HIDE DEF k
  <2> QED
    BY <1>c, <2>1, <2>2, <2>3
<1>3. CASE Reserve(t)
  <2> DEFINE k == [task[t] EXCEPT !.pc = "send", !.day = Today]
  <2>1. TaskWrite(t, k)
    BY <1>3, ReserveWrites
  <2>2. k.batch = task[t].batch /\ k.pc = "send"
    BY <1>0 DEF TaskState
  <2>3. UNCHANGED <<raw, checkpoint, manifest>> /\ task[t].pc \in Running
    BY <1>3, <1>r DEF Reserve
  <2> HIDE DEF k
  <2> QED
    BY <1>c, <2>1, <2>2, <2>3
<1>4. CASE NotReserved(t) \/ Rejected(t) \/ CheckpointConflict(t)
  BY <1>4, <1>a DEF NotReserved, Rejected, CheckpointConflict
<1>5. CASE Answer(t)
  <2> DEFINE k == [task[t] EXCEPT !.pc = "checkpoint", !.payload = revision]
             x == [run |-> t[1], grid |-> task[t].grid, request |-> t[2], payload |-> revision]
  <2>1. task[t].pc = "send" /\ task[t].pc \in Running
    BY <1>5, <1>r DEF Answer, Send
  <2>2. TaskWrite(t, k)
    BY <1>5, <2>1, AnswerWrites
  <2>3. k.batch = task[t].batch /\ k.grid = task[t].grid /\ k.payload = revision
    BY <1>0 DEF TaskState
  <2>4. raw' = raw \cup {x} /\ UNCHANGED <<checkpoint, manifest>>
    BY <1>5 DEF Answer, RawObject
  <2>5. StoreGrows /\ EvidenceIsDurable'
    BY <2>4 DEF StoreGrows, EvidenceIsDurable, EvidenceInv
  <2>6. [run |-> t[1], grid |-> k.grid, request |-> t[2], payload |-> k.payload] \in raw'
    BY <2>3, <2>4
  <2> HIDE DEF k, x
  <2>7. Evidenced(t, k, checkpoint', raw')
    BY <1>e, <2>1, <2>3, <2>4, <2>6 DEF Evidenced
  <2> QED
    BY <2>2, <2>5, <2>7
<1>6. CASE Throttled(t)
  <2>1. task[t].throttles + 1 \in Nat
    BY <1>0, Numbers DEF TaskState
  <2>2. task[t].pc = "send" /\ (Retry(t, task[t].throttles + 1) \/ GiveUp(t, task[t].throttles + 1))
    BY <1>6 DEF Throttled, Send
  <2> QED
    BY <1>a, <1>d, <2>1, <2>2 DEF GiveUp
<1>7. CASE TransportFailed(t)
  <2>1. task[t].throttles \in Nat
    BY <1>0, Numbers DEF TaskState
  <2>2. task[t].pc = "send" /\ (Retry(t, task[t].throttles) \/ GiveUp(t, task[t].throttles))
    BY <1>7 DEF TransportFailed, Send
  <2> QED
    BY <1>a, <1>d, <2>1, <2>2 DEF GiveUp
<1>8. CASE WriteCheckpoint(t)
  <2> DEFINE e == Collected(t)
             g == task[t].grid
             r == t[1]
  <2>1. task[t].pc \in Running /\ task[t].pc = "checkpoint" /\ NextGrid(t, e) /\ e \in Evidence /\ g \in Grid
    BY <1>8, <1>r, CollectedType DEF WriteCheckpoint
  <2>2. /\ checkpoint[r][g] = None /\ UNCHANGED <<raw, manifest>>
        /\ checkpoint' = [checkpoint EXCEPT ![r] = [checkpoint[r] EXCEPT ![g] = e]]
    BY <1>8 DEF WriteCheckpoint
  <2>3. checkpoint \in [Run -> [Grid -> Evidence \cup {None}]]
    BY DEF TypeInv, TypeOK
  <2>4. e.request = t[2] /\ e.payload = task[t].payload
    BY DEF Collected
  <2>5. [run |-> r, grid |-> g, request |-> e.request, payload |-> e.payload] \in raw
    BY <1>e, <2>1, <2>4 DEF Evidenced
  <2> HIDE DEF e, g
  <2>6. /\ checkpoint'[r][g] = e
        /\ \A i \in Grid : i # g => checkpoint'[r][i] = checkpoint[r][i]
        /\ \A q \in Run : q # r => checkpoint'[q] = checkpoint[q]
    BY <1>0, <2>1, <2>2, <2>3
  <2>7. StoreGrows
    BY <2>2, <2>6 DEF StoreGrows
  <2>8. ASSUME NEW q \in Run, manifest[q] # None PROVE manifest'[q] = checkpoint'[q]
    <3>1. manifest[q] = checkpoint[q] /\ manifest[q] \in [Grid -> Evidence]
      BY <2>8 DEF EvidenceInv, EvidenceIsDurable, TypeInv, TypeOK
    <3>2. q # r
      BY <2>1, <2>2, <3>1, NoneAssumption
    <3> QED
      BY <2>2, <2>6, <3>1, <3>2
  <2>9. ASSUME NEW q \in Run, NEW i \in Grid, checkpoint'[q][i] # None
        PROVE  [run |-> q, grid |-> i, request |-> checkpoint'[q][i].request,
                payload |-> checkpoint'[q][i].payload] \in raw'
    <3>1. CASE q = r /\ i = g
      BY <2>2, <2>5, <2>6, <3>1
    <3>2. CASE ~(q = r /\ i = g)
      BY <2>2, <2>6, <2>9, <3>2 DEF EvidenceInv, EvidenceIsDurable
    <3> QED
      BY <3>1, <3>2
  <2>10. EvidenceIsDurable'
    BY <2>2, <2>8, <2>9 DEF EvidenceIsDurable
  <2>11. PICK k : /\ TaskWrite(t, k) /\ k.pc \in {"grid", "manifest"}
                  /\ k.batch = [task[t].batch EXCEPT ![task[t].grid] = e]
    BY <2>1, NextGridWrites
  <2>12. Evidenced(t, task[t], checkpoint', raw')
    BY <1>0, <1>e, <2>7, EvidenceStays DEF TaskState
  <2>13. Evidenced(t, k, checkpoint', raw')
    BY <2>1, <2>6, <2>11, <2>12, Gathered DEF g
  <2> QED
    BY <2>7, <2>10, <2>11, <2>13
<1>9. CASE WriteManifest(t)
  <2>1. UNCHANGED <<raw, checkpoint>> /\ task[t].pc = "manifest" /\ task[t].pc \in Running
    BY <1>9, <1>r DEF WriteManifest
  <2>2. CASE Raise(t) /\ manifest' = manifest
    BY <1>a, <2>1, <2>2
  <2>3. CASE Goto(t, "return") /\ manifest' = [manifest EXCEPT ![t[1]] = task[t].batch]
    <3> DEFINE k == [task[t] EXCEPT !.pc = "return"]
    <3>1. TaskWrite(t, k)
      BY <2>1, <2>3, GotoWrites
    <3>2. k.batch = task[t].batch /\ k.pc = "return"
      BY <1>0 DEF TaskState
    <3> HIDE DEF k
    <3>3. Evidenced(t, k, checkpoint', raw')
      BY <1>e, <2>1, <3>2, Carried
    <3>4. task[t].batch \in [Grid -> Evidence]
      BY <2>1, BatchType
    <3>5. task[t].batch = checkpoint[t[1]]
      <4>1. \A g \in Grid : task[t].batch[g] = checkpoint[t[1]][g]
        BY <1>e, <2>1, <3>4, NoneAssumption DEF Evidenced
      <4>2. checkpoint[t[1]] \in [Grid -> Evidence \cup {None}]
        BY <1>0 DEF TypeInv, TypeOK
      <4> QED
        BY <3>4, <4>1, <4>2
    <3>6. EvidenceIsDurable'
      <4>1. manifest \in [Run -> [Grid -> Evidence] \cup {None}]
        BY DEF TypeInv, TypeOK
      <4> QED
        BY <1>0, <2>1, <2>3, <3>5, <4>1 DEF EvidenceInv, EvidenceIsDurable
    <3>7. StoreGrows
      BY <2>1 DEF StoreGrows
    <3> QED
      BY <3>1, <3>3, <3>6, <3>7
  <2> QED
    BY <1>9, <2>2, <2>3 DEF WriteManifest
<1>10. CASE ReturnBatch(t)
  <2>1. [Idle EXCEPT !.pc = "done"] \in TaskState /\ BatchOK([Idle EXCEPT !.pc = "done"])
    BY IdleType DEF TaskState, BatchOK, Idle, Running
  <2>2. UNCHANGED <<raw, checkpoint, manifest>> /\ TaskWrite(t, [Idle EXCEPT !.pc = "done"])
    BY <1>10, <2>1 DEF ReturnBatch, TaskWrite
  <2> QED
    BY <2>2, Stopped, StoreUnchanged
<1> QED
  BY <1>1, <1>2, <1>3, <1>4, <1>5, <1>6, <1>7, <1>8, <1>9, <1>10 DEF Step

\* Every step keeps the evidence.
LEMMA EvidenceStep == TypeInv /\ EvidenceInv /\ [Next]_vars => EvidenceInv'
<1> SUFFICES ASSUME TypeInv, EvidenceInv, [Next]_vars PROVE EvidenceInv'
  OBVIOUS
<1> USE DEF storeVars
<1>a. ASSUME NEW t \in Task, NEW k, TaskWrite(t, k), Evidenced(t, k, checkpoint', raw'),
             StoreGrows, EvidenceIsDurable'
      PROVE  EvidenceInv'
  <2> SUFFICES ASSUME NEW s \in Task PROVE Evidenced(s, task'[s], checkpoint', raw')
    BY <1>a DEF EvidenceInv
  <2>1. CASE s = t
    BY <1>a, <2>1, TaskRead
  <2>2. CASE s # t
    <3>1. task'[s] = task[s] /\ task[s].batch \in [Grid -> Evidence \cup {None}]
      BY <1>a, <2>2, TaskRead DEF TypeInv, TypeOK, TaskState
    <3> QED
      BY <1>a, <3>1, EvidenceStays DEF EvidenceInv
  <2> QED
    BY <2>1, <2>2
<1>b. ASSUME UNCHANGED <<task, raw, checkpoint, manifest>> PROVE EvidenceInv'
  BY <1>b DEF EvidenceInv, EvidenceIsDurable, Evidenced
<1>1. ASSUME NEW t \in Task, StartTry(t) PROVE EvidenceInv'
  <2>1. PICK k : TaskWrite(t, k) /\ k.pc = "grid" /\ k.batch = [g \in Grid |-> None]
    BY <1>1, StartTryWrites DEF StartTry
  <2>2. Evidenced(t, k, checkpoint', raw')
    BY <2>1 DEF Evidenced
  <2> QED
    BY <1>1, <1>a, <2>1, <2>2, StoreUnchanged DEF StartTry
<1>2. ASSUME NEW t \in Task, Crash(t) PROVE EvidenceInv'
  <2>1. TaskWrite(t, [Idle EXCEPT !.pc = "failed"]) /\ UNCHANGED <<raw, checkpoint, manifest>>
    BY <1>2, RaiseWrites DEF Crash
  <2> QED
    BY <1>a, <2>1, Stopped, StoreUnchanged
<1>3. ASSUME NEW t \in Task, Step(t) PROVE EvidenceInv'
  BY <1>3, <1>a, StepEvidence
<1>4. ASSUME NEW r \in Run, StartRun(r) \/ RunTimeout(r) \/ BronzeStep(r) \/ LoaderCrash(r)
      PROVE  UNCHANGED <<task, raw, checkpoint, manifest>>
  BY <1>4 DEF StartRun, RunTimeout, BronzeStep, LoaderCrash, ReadExisting, AppendNovel,
              CommitConflict, Verify, PublishAsset, FailRun
<1>5. ASSUME ForecastAttempt \/ Revise \/ Tick PROVE UNCHANGED <<task, raw, checkpoint, manifest>>
  BY <1>5 DEF ForecastAttempt, Revise, Tick
<1>6. CASE UNCHANGED vars
  BY <1>b, <1>6 DEF vars
<1> QED
  BY <1>b, <1>1, <1>2, <1>3, <1>4, <1>5, <1>6 DEF Next

\* Raw object, then checkpoint, then manifest, each written identical or absent:
\* whatever tries overlap or die, a document names only what is stored.
THEOREM EvidenceDurable == Spec => []EvidenceIsDurable
<1>1. Init => EvidenceInv
  BY DEF Init, EvidenceInv, EvidenceIsDurable, Evidenced, Idle, Running
<1>2. EvidenceInv => EvidenceIsDurable
  BY DEF EvidenceInv
<1> QED
  BY <1>1, <1>2, InitType, NextType, EvidenceStep, PTL DEF Spec
=============================================================================
