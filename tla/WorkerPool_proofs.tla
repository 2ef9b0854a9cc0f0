------------------------- MODULE WorkerPool_proofs -------------------------
(***************************************************************************)
(* Proofs about the worker pool, for any finite non-empty set of workers,  *)
(* any set of jobs and either value of CanPanic: the inductive invariant   *)
(* IInv of module WorkerPool, its consequences, and the refinement of      *)
(* JobLedger.                                                              *)
(***************************************************************************)
EXTENDS WorkerPool, FiniteSetTheorems, TLAPS

USE RootJobAssumption, NoJobAssumption, WorkersAssumption, CanPanicAssumption

-----------------------------------------------------------------------------
(* How each kind of step changes the set of outstanding jobs.              *)

\* A step that moves no job leaves the outstanding set alone.
LEMMA OutstandingUnmoved ==
    ASSUME UNCHANGED <<injector, job, pushing>>
    PROVE  Outstanding' = Outstanding
BY DEF Outstanding, Held

\* A taken job moves from the queue into the hands of the worker.
LEMMA OutstandingTaken ==
    ASSUME TypeOK, JobsDistinct, PcMatchesJob, NEW w \in Workers, FindJob(w)
    PROVE  Outstanding' = Outstanding
<1>1. PICK j \in injector : /\ injector' = injector \ {j}
                            /\ job' = [job EXCEPT ![w] = j]
                            /\ pushing' = pushing
  BY DEF FindJob, Take
<1>2. job[w] = NoJob
  BY DEF FindJob, PcMatchesJob, HoldingPC
<1>3. j # NoJob
  BY DEF TypeOK
<1>4. \A v \in Workers : job'[v] = IF v = w THEN j ELSE job[v]
  BY <1>1 DEF TypeOK
<1>5. Held' = Held \union {j}
  BY <1>1, <1>2, <1>3, <1>4 DEF Held
<1> QED
  BY <1>1, <1>5 DEF Outstanding

\* Announcing a fresh job adds exactly that job.
LEMMA OutstandingAnnounced ==
    ASSUME TypeOK, JobsDistinct, PcMatchesJob,
           NEW w \in Workers, NEW j \in Jobs \ pushed, Announce(w, j)
    PROVE  /\ Outstanding' = Outstanding \union {j}
           /\ j \notin Outstanding
<1>1. pushing[w] = NoJob
  BY DEF Announce, PcMatchesJob
<1>2. \A v \in Workers : pushing'[v] = IF v = w THEN j ELSE pushing[v]
  BY DEF Announce, TypeOK
<1>3. j # NoJob
  OBVIOUS
<1>4. Held' = Held \union {j}
  BY <1>1, <1>2, <1>3 DEF Held, Announce
<1>5. Outstanding' = Outstanding \union {j}
  BY <1>4 DEF Outstanding, Announce, RaisePending
<1>6. j \notin Outstanding
  BY DEF JobsDistinct
<1> QED
  BY <1>5, <1>6

\* Publishing moves the announced job into the queue.
LEMMA OutstandingPublished ==
    ASSUME TypeOK, JobsDistinct, PcMatchesJob, NEW w \in Workers, Enqueue(w)
    PROVE  Outstanding' = Outstanding
<1>1. pushing[w] # NoJob
  BY DEF Enqueue, PcMatchesJob
<1>2. \A v \in Workers : pushing'[v] = IF v = w THEN NoJob ELSE pushing[v]
  BY DEF Enqueue, TypeOK
<1>3. Held' \union {pushing[w]} = Held
  BY <1>1, <1>2 DEF Held, Enqueue
<1> QED
  BY <1>3 DEF Outstanding, Enqueue, Publish

\* Completing removes exactly the job the worker held.
LEMMA OutstandingCompleted ==
    ASSUME TypeOK, JobsDistinct, PcMatchesJob, NEW w \in Workers, CompleteJob(w)
    PROVE  /\ Outstanding' = Outstanding \ {job[w]}
           /\ job[w] \in Outstanding
<1>1. job[w] # NoJob
  BY DEF CompleteJob, PcMatchesJob, HoldingPC
<1>2. \A v \in Workers : job'[v] = IF v = w THEN NoJob ELSE job[v]
  BY DEF CompleteJob, TypeOK
<1>3. /\ injector' = injector
      /\ pushing' = pushing
  BY DEF CompleteJob, LowerPending
<1>4. job[w] \in Held
  BY <1>1 DEF Held
<1>5. /\ job[w] \notin injector
      /\ \A v \in Workers : v # w => job[v] # job[w]
      /\ \A v \in Workers : pushing[v] # job[w]
  BY <1>1 DEF JobsDistinct
<1>6. Held' = Held \ {job[w]}
  BY <1>1, <1>2, <1>3, <1>5 DEF Held
<1> QED
  BY <1>3, <1>4, <1>5, <1>6 DEF Outstanding

-----------------------------------------------------------------------------
\* The initial states satisfy the inductive invariant.
LEMMA PoolInitIInv == PoolInit => IInv
<1> SUFFICES ASSUME PoolInit
             PROVE  IInv
  OBVIOUS
<1> USE DEF PoolInit, NewScheduler
<1>1. Held = {} /\ Outstanding = {RootJob}
  BY DEF Held, Outstanding
<1>2. TypeOK
  BY DEF TypeOK, PC
<1>3. JobsDistinct /\ PcMatchesJob
  BY <1>1 DEF JobsDistinct, PcMatchesJob, HoldingPC
<1>4. IsFiniteSet(Outstanding) /\ Cardinality(Outstanding) = 1
  BY <1>1, FS_Singleton
<1>5. NoEarlyExit /\ WaitersServed /\ PanicRecorded /\ JoinedIsOver
  BY DEF NoEarlyExit, WaitersServed, PanicRecorded, JoinedIsOver
<1> QED
  BY <1>2, <1>3, <1>4, <1>5 DEF IInv, PendingExact

-----------------------------------------------------------------------------
(* One lemma per action: it preserves the inductive invariant.             *)

\* A step of w that does not end its duty to wake keeps a waker about.
LEMMA WakerKept ==
    ASSUME TypeOK, NEW w \in Workers, NEW to, Go(w, to),
           pc[w] \in BusyPC \union {"panicked"} => to \in BusyPC \union {"panicked"}
    PROVE  SomeWaker => SomeWaker'
BY DEF TypeOK, Go, SomeWaker

\* Whoever holds or publishes a job has a completion to announce.
LEMMA HolderWakes ==
    ASSUME PcMatchesJob, Held # {}
    PROVE  SomeWaker
<1>1. \E v \in Workers : job[v] # NoJob \/ pushing[v] # NoJob
  BY DEF Held
<1> QED
  BY <1>1 DEF PcMatchesJob, HoldingPC, BusyPC, SomeWaker

\* A zero count means that nothing is outstanding.
LEMMA QuietMeansEmpty ==
    ASSUME IInv
    PROVE  pending = 0 <=> Outstanding = {}
BY FS_EmptySet DEF IInv, PendingExact

\* What a step that moves no job and leaves the count alone cannot disturb.
LEMMA LedgerUntouched ==
    ASSUME IInv, UNCHANGED <<injector, job, pushing, pushed, pending>>
    PROVE  /\ Outstanding' = Outstanding
           /\ JobsDistinct'
           /\ IsFiniteSet(Outstanding)'
           /\ PendingExact'
<1>1. Outstanding' = Outstanding
  BY OutstandingUnmoved
<1> QED
  BY <1>1 DEF IInv, JobsDistinct, PendingExact

\* The loop head moves no job; a worker sent to "flush" was cancelled.
LEMMA TopPreserves ==
    ASSUME IInv, NEW w \in Workers, Top(w)
    PROVE  IInv'
<1> USE DEF IInv, Top, Go, schedVars
<1>1. /\ Outstanding' = Outstanding
      /\ JobsDistinct'
      /\ IsFiniteSet(Outstanding)'
      /\ PendingExact'
  BY LedgerUntouched
<1>2. TypeOK'
  BY DEF TypeOK, PC, BusyPC, IdlePC, EndedPC
<1>3. PcMatchesJob'
  BY DEF TypeOK, PcMatchesJob, HoldingPC
<1>4. NoEarlyExit'
  BY <1>1 DEF TypeOK, NoEarlyExit
<1>5. WaitersServed'
  <2>1. SomeWaker => SomeWaker'
    BY WakerKept DEF BusyPC
  <2> QED
    BY <2>1 DEF TypeOK, WaitersServed
<1>6. PanicRecorded' /\ JoinedIsOver'
  BY DEF TypeOK, PanicRecorded, JoinedIsOver, EndedPC
<1> QED
  BY <1>1, <1>2, <1>3, <1>4, <1>5, <1>6

\* A failed search moves no job.  One that missed a queued job was racing, so
\* a waker is about (see WaitersServed).
LEMMA FindNothingPreserves ==
    ASSUME IInv, NEW w \in Workers, FindNothing(w)
    PROVE  IInv'
<1> USE DEF IInv, FindNothing, Go, schedVars
<1>1. /\ Outstanding' = Outstanding
      /\ JobsDistinct'
      /\ IsFiniteSet(Outstanding)'
      /\ PendingExact'
  BY LedgerUntouched
<1>2. TypeOK'
  BY DEF TypeOK, PC, BusyPC, IdlePC, EndedPC
<1>3. PcMatchesJob'
  BY DEF TypeOK, PcMatchesJob, HoldingPC
<1>4. NoEarlyExit'
  BY <1>1 DEF TypeOK, NoEarlyExit
<1>5. WaitersServed'
  <2>1. SomeWaker => SomeWaker'
    BY WakerKept DEF BusyPC
  <2> QED
    BY <2>1 DEF TypeOK, WaitersServed
<1>6. PanicRecorded' /\ JoinedIsOver'
  BY DEF TypeOK, PanicRecorded, JoinedIsOver, EndedPC
<1> QED
  BY <1>1, <1>2, <1>3, <1>4, <1>5, <1>6

\* Registering clears the race of the worker's next search.
LEMMA RegisterPreserves ==
    ASSUME IInv, NEW w \in Workers, Register(w)
    PROVE  IInv'
<1> USE DEF IInv, Register, Go, schedVars, RegisterIdle
<1>1. /\ Outstanding' = Outstanding
      /\ JobsDistinct'
      /\ IsFiniteSet(Outstanding)'
      /\ PendingExact'
  BY LedgerUntouched
<1>2. TypeOK'
  BY DEF TypeOK, PC, BusyPC, IdlePC, EndedPC
<1>3. PcMatchesJob'
  BY DEF TypeOK, PcMatchesJob, HoldingPC
<1>4. NoEarlyExit'
  BY <1>1 DEF TypeOK, NoEarlyExit
<1>5. WaitersServed'
  <2>1. SomeWaker => SomeWaker'
    BY WakerKept DEF BusyPC
  <2> QED
    BY <2>1 DEF TypeOK, WaitersServed
<1>6. PanicRecorded' /\ JoinedIsOver'
  BY DEF TypeOK, PanicRecorded, JoinedIsOver, EndedPC
<1> QED
  BY <1>1, <1>2, <1>3, <1>4, <1>5, <1>6

\* A worker that unregisters to process its job owes a completion.
LEMMA ClaimedPreserves ==
    ASSUME IInv, NEW w \in Workers, Claimed(w)
    PROVE  IInv'
<1> USE DEF IInv, Claimed, Go, schedVars, UnregisterIdle
<1>1. /\ Outstanding' = Outstanding
      /\ JobsDistinct'
      /\ IsFiniteSet(Outstanding)'
      /\ PendingExact'
  BY LedgerUntouched
<1>2. TypeOK'
  BY DEF TypeOK, PC, BusyPC, IdlePC, EndedPC
<1>3. PcMatchesJob'
  BY DEF TypeOK, PcMatchesJob, HoldingPC
<1>4. NoEarlyExit'
  BY <1>1 DEF TypeOK, NoEarlyExit
<1>5. WaitersServed'
  <2>1. SomeWaker => SomeWaker'
    BY WakerKept DEF BusyPC
  <2> QED
    BY <2>1 DEF TypeOK, WaitersServed
<1>6. PanicRecorded' /\ JoinedIsOver'
  BY DEF TypeOK, PanicRecorded, JoinedIsOver, EndedPC
<1> QED
  BY <1>1, <1>2, <1>3, <1>4, <1>5, <1>6

\* The quiet check sends a worker to park only if the count is not zero: some
\* job is outstanding, and its holder or a waker is about.
LEMMA QuietCheckPreserves ==
    ASSUME IInv, NEW w \in Workers, QuietCheck(w)
    PROVE  IInv'
<1> USE DEF IInv, QuietCheck, Go, schedVars, IsQuiet
<1>1. /\ Outstanding' = Outstanding
      /\ JobsDistinct'
      /\ IsFiniteSet(Outstanding)'
      /\ PendingExact'
  BY LedgerUntouched
<1>2. TypeOK'
  BY DEF TypeOK, PC, BusyPC, IdlePC, EndedPC
<1>3. PcMatchesJob'
  BY DEF TypeOK, PcMatchesJob, HoldingPC
<1>4. NoEarlyExit'
  BY <1>1, QuietMeansEmpty DEF TypeOK, NoEarlyExit
<1>5. WaitersServed'
  <2>1. SomeWaker => SomeWaker'
    BY WakerKept DEF BusyPC
  <2>2. pending # 0 => injector # {} \/ SomeWaker
    BY QuietMeansEmpty, HolderWakes DEF Outstanding
  <2> QED
    BY <2>1, <2>2 DEF TypeOK, WaitersServed
<1>6. PanicRecorded' /\ JoinedIsOver'
  BY DEF TypeOK, PanicRecorded, JoinedIsOver, EndedPC
<1> QED
  BY <1>1, <1>2, <1>3, <1>4, <1>5, <1>6

\* Leaving after a quiet check: nothing is outstanding any more.
LEMMA LeavePreserves ==
    ASSUME IInv, NEW w \in Workers, Leave(w)
    PROVE  IInv'
<1> USE DEF IInv, Leave, Go, schedVars, UnregisterIdle
<1>1. /\ Outstanding' = Outstanding
      /\ JobsDistinct'
      /\ IsFiniteSet(Outstanding)'
      /\ PendingExact'
  BY LedgerUntouched
<1>2. TypeOK'
  BY DEF TypeOK, PC, BusyPC, IdlePC, EndedPC
<1>3. PcMatchesJob'
  BY DEF TypeOK, PcMatchesJob, HoldingPC
<1>4. NoEarlyExit'
  BY <1>1 DEF TypeOK, NoEarlyExit
<1>5. WaitersServed'
  <2>1. SomeWaker => SomeWaker'
    BY WakerKept DEF BusyPC
  <2> QED
    BY <2>1 DEF TypeOK, WaitersServed
<1>6. PanicRecorded' /\ JoinedIsOver'
  BY DEF TypeOK, PanicRecorded, JoinedIsOver, EndedPC
<1> QED
  BY <1>1, <1>2, <1>3, <1>4, <1>5, <1>6

\* Waking on a token takes the worker out of the waiters.
LEMMA ParkPreserves ==
    ASSUME IInv, NEW w \in Workers, Park(w)
    PROVE  IInv'
<1> USE DEF IInv, Park, Go, schedVars, ConsumePermit
<1>1. /\ Outstanding' = Outstanding
      /\ JobsDistinct'
      /\ IsFiniteSet(Outstanding)'
      /\ PendingExact'
  BY LedgerUntouched
<1>2. TypeOK'
  BY DEF TypeOK, PC, BusyPC, IdlePC, EndedPC
<1>3. PcMatchesJob'
  BY DEF TypeOK, PcMatchesJob, HoldingPC
<1>4. NoEarlyExit'
  BY <1>1 DEF TypeOK, NoEarlyExit
<1>5. WaitersServed'
  <2>1. SomeWaker => SomeWaker'
    BY WakerKept DEF BusyPC
  <2> QED
    BY <2>1 DEF TypeOK, WaitersServed
<1>6. PanicRecorded' /\ JoinedIsOver'
  BY DEF TypeOK, PanicRecorded, JoinedIsOver, EndedPC
<1> QED
  BY <1>1, <1>2, <1>3, <1>4, <1>5, <1>6

\* So does waking for no reason.
LEMMA SpuriousWakePreserves ==
    ASSUME IInv, NEW w \in Workers, SpuriousWake(w)
    PROVE  IInv'
<1> USE DEF IInv, SpuriousWake, Go, schedVars
<1>1. /\ Outstanding' = Outstanding
      /\ JobsDistinct'
      /\ IsFiniteSet(Outstanding)'
      /\ PendingExact'
  BY LedgerUntouched
<1>2. TypeOK'
  BY DEF TypeOK, PC, BusyPC, IdlePC, EndedPC
<1>3. PcMatchesJob'
  BY DEF TypeOK, PcMatchesJob, HoldingPC
<1>4. NoEarlyExit'
  BY <1>1 DEF TypeOK, NoEarlyExit
<1>5. WaitersServed'
  <2>1. SomeWaker => SomeWaker'
    BY WakerKept DEF BusyPC
  <2> QED
    BY <2>1 DEF TypeOK, WaitersServed
<1>6. PanicRecorded' /\ JoinedIsOver'
  BY DEF TypeOK, PanicRecorded, JoinedIsOver, EndedPC
<1> QED
  BY <1>1, <1>2, <1>3, <1>4, <1>5, <1>6

\* A woken worker unregisters and is no waiter at the head of the loop.
LEMMA WokenPreserves ==
    ASSUME IInv, NEW w \in Workers, Woken(w)
    PROVE  IInv'
<1> USE DEF IInv, Woken, Go, schedVars, UnregisterIdle
<1>1. /\ Outstanding' = Outstanding
      /\ JobsDistinct'
      /\ IsFiniteSet(Outstanding)'
      /\ PendingExact'
  BY LedgerUntouched
<1>2. TypeOK'
  BY DEF TypeOK, PC, BusyPC, IdlePC, EndedPC
<1>3. PcMatchesJob'
  BY DEF TypeOK, PcMatchesJob, HoldingPC
<1>4. NoEarlyExit'
  BY <1>1 DEF TypeOK, NoEarlyExit
<1>5. WaitersServed'
  <2>1. SomeWaker => SomeWaker'
    BY WakerKept DEF BusyPC
  <2> QED
    BY <2>1 DEF TypeOK, WaitersServed
<1>6. PanicRecorded' /\ JoinedIsOver'
  BY DEF TypeOK, PanicRecorded, JoinedIsOver, EndedPC
<1> QED
  BY <1>1, <1>2, <1>3, <1>4, <1>5, <1>6

\* The wake of a push removes one idler, which gets a token for it.
LEMMA WakePreserves ==
    ASSUME IInv, NEW w \in Workers, Wake(w)
    PROVE  IInv'
<1> USE DEF IInv, Wake, Go, schedVars, WakeOne
<1>1. /\ Outstanding' = Outstanding
      /\ JobsDistinct'
      /\ IsFiniteSet(Outstanding)'
      /\ PendingExact'
  BY LedgerUntouched
<1>2. TypeOK'
  BY DEF TypeOK, PC, BusyPC, IdlePC, EndedPC
<1>3. PcMatchesJob'
  BY DEF TypeOK, PcMatchesJob, HoldingPC
<1>4. NoEarlyExit'
  BY <1>1 DEF TypeOK, NoEarlyExit
<1>5. WaitersServed'
  <2>1. SomeWaker => SomeWaker'
    BY WakerKept DEF BusyPC
  <2> QED
    BY <2>1 DEF TypeOK, WaitersServed
<1>6. PanicRecorded' /\ JoinedIsOver'
  BY DEF TypeOK, PanicRecorded, JoinedIsOver, EndedPC
<1> QED
  BY <1>1, <1>2, <1>3, <1>4, <1>5, <1>6

\* The end of a worker: it left for a reason that still holds.
LEMMA FlushPreserves ==
    ASSUME IInv, NEW w \in Workers, Flush(w)
    PROVE  IInv'
<1> USE DEF IInv, Flush, Go, schedVars
<1>1. /\ Outstanding' = Outstanding
      /\ JobsDistinct'
      /\ IsFiniteSet(Outstanding)'
      /\ PendingExact'
  BY LedgerUntouched
<1>2. TypeOK'
  BY DEF TypeOK, PC, BusyPC, IdlePC, EndedPC
<1>3. PcMatchesJob'
  BY DEF TypeOK, PcMatchesJob, HoldingPC
<1>4. NoEarlyExit'
  BY <1>1 DEF TypeOK, NoEarlyExit
<1>5. WaitersServed'
  <2>1. SomeWaker => SomeWaker'
    BY WakerKept DEF BusyPC
  <2> QED
    BY <2>1 DEF TypeOK, WaitersServed
<1>6. PanicRecorded' /\ JoinedIsOver'
  BY DEF TypeOK, PanicRecorded, JoinedIsOver, EndedPC
<1> QED
  BY <1>1, <1>2, <1>3, <1>4, <1>5, <1>6

\* The wake of a completion empties the registry, so that nobody depends on
\* the worker that performed it.
LEMMA DrainPreserves ==
    ASSUME IInv, NEW w \in Workers, Drain(w)
    PROVE  IInv'
<1> USE DEF IInv, Drain, Go, schedVars, WakeAll
<1>1. /\ Outstanding' = Outstanding
      /\ JobsDistinct'
      /\ IsFiniteSet(Outstanding)'
      /\ PendingExact'
  BY LedgerUntouched
<1>2. TypeOK'
  BY DEF TypeOK, PC, BusyPC, IdlePC, EndedPC
<1>3. PcMatchesJob'
  BY DEF TypeOK, PcMatchesJob, HoldingPC
<1>4. NoEarlyExit'
  BY <1>1 DEF TypeOK, NoEarlyExit
<1>5. WaitersServed'
  BY DEF TypeOK, WaitersServed
<1>6. PanicRecorded' /\ JoinedIsOver'
  BY DEF TypeOK, PanicRecorded, JoinedIsOver, EndedPC
<1> QED
  BY <1>1, <1>2, <1>3, <1>4, <1>5, <1>6

\* A panicked worker keeps its job, and stands for the waker it was.
LEMMA PanicPreserves ==
    ASSUME IInv, NEW w \in Workers, Panic(w)
    PROVE  IInv'
<1> USE DEF IInv, Panic, Go, schedVars
<1>1. /\ Outstanding' = Outstanding
      /\ JobsDistinct'
      /\ IsFiniteSet(Outstanding)'
      /\ PendingExact'
  BY LedgerUntouched
<1>2. TypeOK'
  BY DEF TypeOK, PC, BusyPC, IdlePC, EndedPC
<1>3. PcMatchesJob'
  BY DEF TypeOK, PcMatchesJob, HoldingPC
<1>4. NoEarlyExit'
  BY <1>1 DEF TypeOK, NoEarlyExit
<1>5. WaitersServed'
  <2>1. SomeWaker => SomeWaker'
    BY WakerKept DEF BusyPC
  <2> QED
    BY <2>1 DEF TypeOK, WaitersServed
<1>6. PanicRecorded' /\ JoinedIsOver'
  BY DEF TypeOK, PanicRecorded, JoinedIsOver, EndedPC
<1> QED
  BY <1>1, <1>2, <1>3, <1>4, <1>5, <1>6

\* A successful search takes the job out of the queue; the searches it
\* overtakes may fail, but its owner now owes a completion.
LEMMA FindJobPreserves ==
    ASSUME IInv, NEW w \in Workers, FindJob(w)
    PROVE  IInv'
<1> USE DEF IInv, FindJob, Go
<1>1. Outstanding' = Outstanding
  BY OutstandingTaken
<1>2. PICK j \in injector : /\ injector' = injector \ {j}
                            /\ job' = [job EXCEPT ![w] = j]
                            /\ UNCHANGED <<pending, idle, permits>>
  BY DEF Take
<1>3. TypeOK'
  BY <1>2 DEF TypeOK, PC, BusyPC, IdlePC, EndedPC
<1>4. j # NoJob /\ job[w] = NoJob
  BY <1>2 DEF TypeOK, PcMatchesJob, HoldingPC
<1>5. \A v \in Workers : job'[v] = IF v = w THEN j ELSE job[v]
  BY <1>2 DEF TypeOK
<1>6. JobsDistinct'
  BY <1>1, <1>2, <1>4, <1>5 DEF JobsDistinct
<1>7. PcMatchesJob'
  BY <1>4, <1>5 DEF TypeOK, PcMatchesJob, HoldingPC
<1>8. IsFiniteSet(Outstanding)' /\ PendingExact'
  BY <1>1, <1>2 DEF PendingExact
<1>9. NoEarlyExit'
  BY <1>1 DEF TypeOK, NoEarlyExit
<1>10. SomeWaker'
  BY DEF TypeOK, SomeWaker, BusyPC
<1>11. WaitersServed'
  BY <1>2, <1>10 DEF TypeOK, WaitersServed
<1>12. PanicRecorded' /\ JoinedIsOver'
  BY DEF TypeOK, PanicRecorded, JoinedIsOver, EndedPC
<1> QED
  BY <1>3, <1>6, <1>7, <1>8, <1>9, <1>11, <1>12

\* Announcing raises the count together with the outstanding set.
LEMMA AnnouncePreserves ==
    ASSUME IInv, NEW w \in Workers, NEW j \in Jobs \ pushed, Announce(w, j)
    PROVE  IInv'
<1> USE DEF IInv, Announce, Go, RaisePending
<1>1. Outstanding' = Outstanding \union {j} /\ j \notin Outstanding
  BY OutstandingAnnounced
<1>2. TypeOK'
  BY DEF TypeOK, PC, BusyPC, IdlePC, EndedPC
<1>3. \A v \in Workers : pushing'[v] = IF v = w THEN j ELSE pushing[v]
  BY DEF TypeOK
<1>4. j # NoJob
  OBVIOUS
<1>5. JobsDistinct'
  <2>1. \A v \in Workers : j # job[v] /\ j # pushing[v]
    BY <1>1, <1>4 DEF Outstanding, Held
  <2>2. j \notin injector
    BY <1>1 DEF Outstanding
  <2> QED
    BY <1>1, <1>3, <2>1, <2>2 DEF JobsDistinct
<1>6. PcMatchesJob'
  BY <1>3, <1>4 DEF TypeOK, PcMatchesJob, HoldingPC
<1>7. IsFiniteSet(Outstanding)' /\ PendingExact'
  BY <1>1, FS_AddElement DEF PendingExact
<1>8. NoEarlyExit'
  <2>1. job[w] \in Outstanding
    BY DEF PcMatchesJob, HoldingPC, Outstanding, Held
  <2> QED
    BY <2>1 DEF TypeOK, NoEarlyExit
<1>9. WaitersServed'
  <2>1. SomeWaker => SomeWaker'
    BY WakerKept DEF BusyPC
  <2> QED
    BY <2>1 DEF TypeOK, WaitersServed
<1>10. PanicRecorded' /\ JoinedIsOver'
  BY DEF TypeOK, PanicRecorded, JoinedIsOver, EndedPC
<1> QED
  BY <1>2, <1>5, <1>6, <1>7, <1>8, <1>9, <1>10

\* Publishing hands the announced job to the queue.
LEMMA EnqueuePreserves ==
    ASSUME IInv, NEW w \in Workers, Enqueue(w)
    PROVE  IInv'
<1> USE DEF IInv, Enqueue, Go, Publish
<1>1. Outstanding' = Outstanding
  BY OutstandingPublished
<1>2. pushing[w] # NoJob
  BY DEF PcMatchesJob
<1>3. TypeOK'
  BY <1>2 DEF TypeOK, PC, BusyPC, IdlePC, EndedPC
<1>4. \A v \in Workers : pushing'[v] = IF v = w THEN NoJob ELSE pushing[v]
  BY DEF TypeOK
<1>5. JobsDistinct'
  BY <1>1, <1>2, <1>4 DEF JobsDistinct, TypeOK
<1>6. PcMatchesJob'
  BY <1>4 DEF TypeOK, PcMatchesJob, HoldingPC
<1>7. IsFiniteSet(Outstanding)' /\ PendingExact'
  BY <1>1 DEF PendingExact
<1>8. NoEarlyExit'
  BY <1>1 DEF TypeOK, NoEarlyExit
<1>9. SomeWaker'
  BY DEF TypeOK, SomeWaker, BusyPC
<1>10. WaitersServed'
  BY <1>9 DEF TypeOK, WaitersServed
<1>11. PanicRecorded' /\ JoinedIsOver'
  BY DEF TypeOK, PanicRecorded, JoinedIsOver, EndedPC
<1> QED
  BY <1>3, <1>5, <1>6, <1>7, <1>8, <1>10, <1>11

\* Completing lowers the count together with the outstanding set, and the
\* worker now owes the wake.
LEMMA CompleteJobPreserves ==
    ASSUME IInv, NEW w \in Workers, CompleteJob(w)
    PROVE  IInv'
<1> USE DEF IInv, CompleteJob, Go, LowerPending, WasLast
<1>1. Outstanding' = Outstanding \ {job[w]} /\ job[w] \in Outstanding
  BY OutstandingCompleted
<1>2. /\ IsFiniteSet(Outstanding)'
      /\ Cardinality(Outstanding') = Cardinality(Outstanding) - 1
      /\ Cardinality(Outstanding') \in Nat
  BY <1>1, FS_RemoveElement, FS_CardinalityType
<1>3. PendingExact'
  BY <1>2 DEF PendingExact
<1>4. TypeOK'
  BY <1>2, <1>3 DEF TypeOK, PC, BusyPC, IdlePC, EndedPC, PendingExact
<1>5. \A v \in Workers : job'[v] = IF v = w THEN NoJob ELSE job[v]
  BY DEF TypeOK
<1>6. JobsDistinct'
  BY <1>1, <1>5 DEF JobsDistinct, TypeOK
<1>7. PcMatchesJob'
  BY <1>5 DEF TypeOK, PcMatchesJob, HoldingPC
<1>8. pending = 1 => Outstanding' = {}
  BY <1>2, FS_EmptySet DEF PendingExact
<1>9. NoEarlyExit'
  BY <1>1, <1>8 DEF TypeOK, NoEarlyExit
<1>10. WaitersServed'
  <2>1. SomeWaker => SomeWaker'
    BY WakerKept DEF BusyPC
  <2> QED
    BY <2>1 DEF TypeOK, WaitersServed
<1>11. PanicRecorded' /\ JoinedIsOver'
  BY DEF TypeOK, PanicRecorded, JoinedIsOver, EndedPC
<1> QED
  BY <1>2, <1>3, <1>4, <1>6, <1>7, <1>9, <1>10, <1>11

\* The cancel flag only weakens what NoEarlyExit asks for.
LEMMA CancelPreserves ==
    ASSUME IInv, Cancel
    PROVE  IInv'
<1>1. UNCHANGED <<injector, job, pushing, pushed, pending>>
  BY DEF Cancel, schedVars
<1> QED
  BY <1>1, LedgerUntouched
  DEF IInv, Cancel, schedVars, TypeOK, PcMatchesJob, NoEarlyExit, WaitersServed,
      SomeWaker, PanicRecorded, JoinedIsOver

\* run_pool joins: were a job outstanding, with no cancellation and no panic,
\* some worker would have left the loop too early.
LEMMA JoinPreserves ==
    ASSUME IInv, Join
    PROVE  IInv'
<1>1. UNCHANGED <<injector, job, pushing, pushed, pending>>
  BY DEF Join, schedVars
<1>2. panicMsg' = panicMsg
  <2> SUFFICES ASSUME ~cancelled, panicMsg = "none"
               PROVE  IsQuiet
    BY DEF Join
  <2>1. PICK w \in Workers : pc[w] = "done"
    BY DEF Join, EndedPC, IInv, PanicRecorded
  <2>2. Outstanding = {}
    BY <2>1 DEF IInv, NoEarlyExit
  <2> QED
    BY <2>2, QuietMeansEmpty DEF IsQuiet
<1> QED
  BY <1>1, <1>2, LedgerUntouched
  DEF IInv, Join, schedVars, TypeOK, PcMatchesJob, NoEarlyExit, WaitersServed,
      SomeWaker, PanicRecorded, JoinedIsOver

\* Nothing changes.
LEMMA StutterPreserves ==
    ASSUME IInv, UNCHANGED poolVars
    PROVE  IInv'
<1>1. UNCHANGED <<injector, job, pushing, pushed, pending>>
  BY DEF poolVars, schedVars
<1> QED
  BY <1>1, LedgerUntouched
  DEF IInv, poolVars, schedVars, TypeOK, PcMatchesJob, NoEarlyExit, WaitersServed,
      SomeWaker, PanicRecorded, JoinedIsOver

-----------------------------------------------------------------------------
(* The theorems.                                                           *)

\* Every step of the pool preserves the inductive invariant.
LEMMA PoolNextIInv == IInv /\ [PoolNext]_poolVars => IInv'
<1> SUFFICES ASSUME IInv, [PoolNext]_poolVars
             PROVE  IInv'
  OBVIOUS
<1>1. CASE UNCHANGED poolVars
  BY <1>1, StutterPreserves
<1>2. ASSUME NEW w \in Workers, LoopStep(w)
      PROVE  IInv'
  BY <1>2, TopPreserves, FindJobPreserves, FindNothingPreserves, RegisterPreserves,
     ClaimedPreserves, QuietCheckPreserves, LeavePreserves, ParkPreserves,
     WokenPreserves, EnqueuePreserves, WakePreserves, DrainPreserves
  DEF LoopStep
<1>3. ASSUME NEW w \in Workers, WorkerStep(w)
      PROVE  IInv'
  BY <1>2, <1>3, AnnouncePreserves, CompleteJobPreserves, FlushPreserves
  DEF WorkerStep
<1>4. ASSUME NEW w \in Workers, SpuriousWake(w) \/ Panic(w)
      PROVE  IInv'
  BY <1>4, SpuriousWakePreserves, PanicPreserves
<1>5. CASE Cancel
  BY <1>5, CancelPreserves
<1>6. CASE Join
  BY <1>6, JoinPreserves
<1>7. CASE PoolDone
  BY <1>7, StutterPreserves DEF PoolDone
<1> QED
  BY <1>1, <1>3, <1>4, <1>5, <1>6, <1>7 DEF PoolNext

\* The inductive invariant holds in every reachable state.
THEOREM PoolInvariant == PoolSpec => []IInv
BY PoolInitIInv, PoolNextIInv, PTL DEF PoolSpec

\* The state of the pool is well typed; in particular the unsigned count of
\* pending jobs never wraps below zero.
THEOREM TypeCorrect == PoolSpec => []TypeOK
<1>1. IInv => TypeOK
  BY DEF IInv
<1> QED
  BY <1>1, PoolInvariant, PTL

\* Scheduler::pending is exactly the number of outstanding jobs.
THEOREM PendingIsExact == PoolSpec => []PendingExact
<1>1. IInv => PendingExact
  BY DEF IInv
<1> QED
  BY <1>1, PoolInvariant, PTL

\* No worker leaves the loop of an uncancelled scan while work is left.
THEOREM TerminationIsExact == PoolSpec => []NoEarlyExit
<1>1. IInv => NoEarlyExit
  BY DEF IInv
<1> QED
  BY <1>1, PoolInvariant, PTL

\* No wakeup is lost: a parked worker is registered and some worker owes the
\* completion that will wake it (or has panicked).
THEOREM NoLostWakeup == PoolSpec => []ParkedHasWaker
<1>1. IInv => ParkedHasWaker
  BY DEF IInv, WaitersServed, ParkedHasWaker
<1> QED
  BY <1>1, PoolInvariant, PTL

\* The stall check of run_pool never fires.
THEOREM StallUnreachable == PoolSpec => []NoStall
<1>1. IInv => NoStall
  BY DEF IInv, PanicRecorded, NoStall
<1> QED
  BY <1>1, PoolInvariant, PTL

-----------------------------------------------------------------------------
(* The pool implements the job ledger.                                     *)

\* One step of the pool is one step of the ledger, or no step.
LEMMA LedgerStep ==
    ASSUME IInv, [PoolNext]_poolVars
    PROVE  [Ledger!Next]_(Ledger!ledgerVars)
<1> USE DEF Ledger!ledgerVars
<1>1. ASSUME UNCHANGED <<injector, job, pushing, cancelled, panicMsg, pool>>
      PROVE  UNCHANGED Ledger!ledgerVars
  BY <1>1, OutstandingUnmoved
<1>2. ASSUME NEW w \in Workers, LoopStep(w)
      PROVE  UNCHANGED Ledger!ledgerVars
  <2>1. CASE FindJob(w)
    BY <2>1, OutstandingTaken DEF IInv, FindJob
  <2>2. CASE Enqueue(w)
    BY <2>2, OutstandingPublished DEF IInv, Enqueue
  <2>3. CASE ~FindJob(w) /\ ~Enqueue(w)
    BY <1>1, <1>2, <2>3
    DEF LoopStep, Top, FindNothing, Register, Claimed, QuietCheck, Leave, Park, Woken,
        Wake, Drain, schedVars, RegisterIdle, UnregisterIdle, ConsumePermit, WakeOne,
        WakeAll
  <2> QED
    BY <2>1, <2>2, <2>3
<1>3. ASSUME NEW w \in Workers, NEW j \in Jobs \ pushed, Announce(w, j)
      PROVE  Ledger!Next
  <2>1. Outstanding' = Outstanding \union {j} /\ j \notin Outstanding
    BY <1>3, OutstandingAnnounced DEF IInv
  <2>2. Outstanding # {}
    BY <1>3 DEF IInv, Announce, PcMatchesJob, HoldingPC, Outstanding, Held
  <2>3. pool = "running"
    BY <1>3 DEF IInv, TypeOK, Announce, JoinedIsOver, EndedPC
  <2> QED
    BY <1>3, <2>1, <2>2, <2>3 DEF Ledger!Next, Ledger!Spawn, Announce
<1>4. ASSUME NEW w \in Workers, CompleteJob(w)
      PROVE  Ledger!Next
  <2>1. Outstanding' = Outstanding \ {job[w]} /\ job[w] \in Outstanding
    BY <1>4, OutstandingCompleted DEF IInv
  <2>2. pool = "running"
    BY <1>4 DEF IInv, TypeOK, CompleteJob, JoinedIsOver, EndedPC
  <2> QED
    BY <1>4, <2>1, <2>2 DEF Ledger!Next, Ledger!Complete, CompleteJob
<1>5. ASSUME NEW w \in Workers, SpuriousWake(w) \/ Flush(w)
      PROVE  UNCHANGED Ledger!ledgerVars
  BY <1>1, <1>5 DEF SpuriousWake, Flush, schedVars
<1>6. ASSUME NEW w \in Workers, Panic(w)
      PROVE  Ledger!Next
  <2>1. Outstanding' = Outstanding
    BY <1>6, OutstandingUnmoved DEF Panic, schedVars
  <2>2. pool = "running"
    BY <1>6 DEF IInv, TypeOK, Panic, JoinedIsOver, EndedPC
  <2> QED
    BY <1>6, <2>1, <2>2 DEF Ledger!Next, Ledger!Damage, Panic
<1>7. CASE Cancel
  <2>1. Outstanding' = Outstanding
    BY <1>7, OutstandingUnmoved DEF Cancel, schedVars
  <2> QED
    BY <1>7, <2>1 DEF Ledger!Next, Ledger!RequestStop, Cancel
<1>8. CASE Join
  <2>1. Outstanding' = Outstanding
    BY <1>8, OutstandingUnmoved DEF Join, schedVars
  <2>2. Outstanding = {} \/ cancelled \/ panicMsg = "panic"
    <3> SUFFICES ASSUME ~cancelled, panicMsg # "panic"
                 PROVE  Outstanding = {}
      OBVIOUS
    <3>1. PICK w \in Workers : pc[w] = "done"
      BY <1>8 DEF Join, EndedPC, IInv, PanicRecorded
    <3> QED
      BY <3>1 DEF IInv, NoEarlyExit
  <2>3. panicMsg' = panicMsg
    BY <1>8, <2>2, QuietMeansEmpty DEF Join, IsQuiet
  <2> QED
    BY <1>8, <2>1, <2>2, <2>3 DEF Ledger!Next, Ledger!End, Join
<1>9. CASE UNCHANGED poolVars \/ PoolDone
  BY <1>1, <1>9 DEF poolVars, schedVars, PoolDone
<1> QED
  BY <1>2, <1>3, <1>4, <1>5, <1>6, <1>7, <1>8, <1>9 DEF PoolNext, WorkerStep

\* run_pool keeps the promise of the ledger: work comes only from work, every
\* job is completed once, and the pool is over only when nothing is left, unless
\* it was cancelled or lost a worker to a panic.
THEOREM PoolImplementsLedger == PoolSpec => ImplementsLedger
<1>1. PoolInit => Ledger!Init
  <2> SUFFICES ASSUME PoolInit
               PROVE  Ledger!Init
    OBVIOUS
  <2>1. Outstanding = {RootJob}
    BY DEF PoolInit, NewScheduler, Outstanding, Held
  <2> QED
    BY <2>1 DEF PoolInit, Ledger!Init
<1>2. IInv /\ [PoolNext]_poolVars => [Ledger!Next]_(Ledger!ledgerVars)
  BY LedgerStep
<1> QED
  BY <1>1, <1>2, PoolInvariant, PTL DEF PoolSpec, ImplementsLedger, Ledger!Spec
=============================================================================
