----------------------------- MODULE WorkerPool -----------------------------
(***************************************************************************)
(* The worker pool of a scan (src/src/scan/scanner.rs): worker_loop as one *)
(* action per atomic step, run_pool's join and stall check, the user's     *)
(* cancel flag, and a worker that panics while it processes a job.         *)
(*                                                                         *)
(* What processing a job does to the arena is module Scanner; here a job   *)
(* pushes any number of fresh jobs, one after the other, and then ends.    *)
(***************************************************************************)
EXTENDS Scheduler

CONSTANTS
    RootJob,    \* the job spawn_scan pushes before the pool starts
    NoJob,      \* "no job"
    CanPanic    \* whether processing a job may panic

ASSUME RootJobAssumption  == RootJob \in Jobs
ASSUME NoJobAssumption    == NoJob \notin Jobs
ASSUME WorkersAssumption  == Workers # {} /\ IsFiniteSet(Workers)
ASSUME CanPanicAssumption == CanPanic \in BOOLEAN

VARIABLES
    pc,         \* where each worker stands in worker_loop
    job,        \* the job each worker holds
    pushing,    \* the job each worker is pushing, between the steps of push()
    raced,      \* workers whose current steal lost against another one
    pushed,     \* history: every job pushed so far (jobs are never reused)
    cancelled,  \* Shared::cancelled
    panicMsg,   \* Shared::panic_msg
    pool        \* "running", or "joined" once run_pool has returned

poolVars == <<schedVars, pc, job, pushing, raced, pushed, cancelled, panicMsg, pool>>

\* Steps between taking a job and waking everybody for its completion.
BusyPC == {"claimed", "process", "enqueue", "wake", "drain", "drainLast"}
\* Steps during which the worker may stand in the idle registry.
IdlePC == {"refind", "claimed", "quiet", "leave", "park", "woken"}
\* The worker's thread has ended.
EndedPC == {"done", "panicked"}

PC == {"top", "find", "register", "flush"} \union BusyPC \union IdlePC \union EndedPC

Go(w, to) == pc' = [pc EXCEPT ![w] = to]

PoolInit ==
    /\ NewScheduler(RootJob)
    /\ pc = [w \in Workers |-> "top"]
    /\ job = [w \in Workers |-> NoJob]
    /\ pushing = [w \in Workers |-> NoJob]
    /\ raced = {}
    /\ pushed = {RootJob}
    /\ cancelled = FALSE
    /\ panicMsg = "none"
    /\ pool = "running"

-----------------------------------------------------------------------------
\* Head of the loop: leave when the scan is cancelled, else look for work.
Top(w) ==
    /\ pc[w] = "top"
    /\ Go(w, IF cancelled THEN "flush" ELSE "find")
    /\ raced' = raced \ {w}
    /\ UNCHANGED <<schedVars, job, pushing, pushed, cancelled, panicMsg, pool>>

\* find() succeeds.  Every other worker in the middle of a steal may now see
\* its compare-and-swap fail.
FindJob(w) ==
    /\ pc[w] \in {"find", "refind"}
    /\ \E j \in injector :
         /\ Take(j)
         /\ job' = [job EXCEPT ![w] = j]
    /\ Go(w, IF pc[w] = "find" THEN "process" ELSE "claimed")
    /\ raced' = raced \union {v \in Workers \ {w} : pc[v] \in {"find", "refind"}}
    /\ UNCHANGED <<pushing, pushed, cancelled, panicMsg, pool>>

\* find() returns None: the injector was empty, or Steal::Retry, which find
\* does not retry.
FindNothing(w) ==
    /\ pc[w] \in {"find", "refind"}
    /\ injector = {} \/ w \in raced
    /\ Go(w, IF pc[w] = "find" THEN "register" ELSE "quiet")
    /\ UNCHANGED <<schedVars, job, pushing, raced, pushed, cancelled, panicMsg, pool>>

Register(w) ==
    /\ pc[w] = "register"
    /\ RegisterIdle(w)
    /\ Go(w, "refind")
    /\ raced' = raced \ {w}
    /\ UNCHANGED <<job, pushing, pushed, cancelled, panicMsg, pool>>

\* The second search found work after all: unregister, then process it.
Claimed(w) ==
    /\ pc[w] = "claimed"
    /\ UnregisterIdle(w)
    /\ Go(w, "process")
    /\ UNCHANGED <<job, pushing, raced, pushed, cancelled, panicMsg, pool>>

QuietCheck(w) ==
    /\ pc[w] = "quiet"
    /\ Go(w, IF IsQuiet THEN "leave" ELSE "park")
    /\ UNCHANGED <<schedVars, job, pushing, raced, pushed, cancelled, panicMsg, pool>>

Leave(w) ==
    /\ pc[w] = "leave"
    /\ UnregisterIdle(w)
    /\ Go(w, "flush")
    /\ UNCHANGED <<job, pushing, raced, pushed, cancelled, panicMsg, pool>>

Park(w) ==
    /\ pc[w] = "park"
    /\ ConsumePermit(w)
    /\ Go(w, "woken")
    /\ UNCHANGED <<job, pushing, raced, pushed, cancelled, panicMsg, pool>>

\* thread::park() may also return for no reason.
SpuriousWake(w) ==
    /\ pc[w] = "park"
    /\ Go(w, "woken")
    /\ UNCHANGED <<schedVars, job, pushing, raced, pushed, cancelled, panicMsg, pool>>

Woken(w) ==
    /\ pc[w] = "woken"
    /\ UnregisterIdle(w)
    /\ Go(w, "top")
    /\ UNCHANGED <<job, pushing, raced, pushed, cancelled, panicMsg, pool>>

-----------------------------------------------------------------------------
\* The three steps of Scheduler::push, called while a job is processed.
Announce(w, j) ==
    /\ pc[w] = "process"
    /\ RaisePending
    /\ pushing' = [pushing EXCEPT ![w] = j]
    /\ pushed' = pushed \union {j}
    /\ Go(w, "enqueue")
    /\ UNCHANGED <<job, raced, cancelled, panicMsg, pool>>

Enqueue(w) ==
    /\ pc[w] = "enqueue"
    /\ Publish(pushing[w])
    /\ pushing' = [pushing EXCEPT ![w] = NoJob]
    /\ Go(w, "wake")
    /\ UNCHANGED <<job, raced, pushed, cancelled, panicMsg, pool>>

Wake(w) ==
    /\ pc[w] = "wake"
    /\ WakeOne
    /\ Go(w, "process")
    /\ UNCHANGED <<job, pushing, raced, pushed, cancelled, panicMsg, pool>>

\* The two steps of Scheduler::complete.
CompleteJob(w) ==
    /\ pc[w] = "process"
    /\ LowerPending
    /\ job' = [job EXCEPT ![w] = NoJob]
    /\ Go(w, IF WasLast THEN "drainLast" ELSE "drain")
    /\ UNCHANGED <<pushing, raced, pushed, cancelled, panicMsg, pool>>

Drain(w) ==
    /\ pc[w] \in {"drain", "drainLast"}
    /\ WakeAll
    /\ Go(w, IF pc[w] = "drainLast" THEN "flush" ELSE "top")
    /\ UNCHANGED <<job, pushing, raced, pushed, cancelled, panicMsg, pool>>

\* worker_loop returns and the thread ends.
Flush(w) ==
    /\ pc[w] = "flush"
    /\ Go(w, "done")
    /\ UNCHANGED <<schedVars, job, pushing, raced, pushed, cancelled, panicMsg, pool>>

\* Variant: the panic is swallowed.
PanicSwallowed(w) ==
    /\ CanPanic
    /\ pc[w] = "process"
    /\ Go(w, "panicked")
    /\ UNCHANGED <<schedVars, job, pushing, raced, pushed, cancelled, panicMsg, pool>>

\* Processing a job panics: catch_unwind records the message and the thread
\* ends.  The job is never completed and nobody is woken.
Panic(w) ==
    /\ CanPanic
    /\ pc[w] = "process"
    /\ Go(w, "panicked")
    /\ panicMsg' = "panic"
    /\ UNCHANGED <<schedVars, job, pushing, raced, pushed, cancelled, pool>>

-----------------------------------------------------------------------------
\* CancelHandle::cancel stores the flag and wakes nobody.
Cancel ==
    /\ ~cancelled
    /\ cancelled' = TRUE
    /\ UNCHANGED <<schedVars, pc, job, pushing, raced, pushed, panicMsg, pool>>

\* run_pool has joined every thread; the stall check follows.
Join ==
    /\ pool = "running"
    /\ \A w \in Workers : pc[w] \in EndedPC
    /\ pool' = "joined"
    /\ panicMsg' = IF ~cancelled /\ ~IsQuiet /\ panicMsg = "none"
                   THEN "stalled" ELSE panicMsg
    /\ UNCHANGED <<schedVars, pc, job, pushing, raced, pushed, cancelled>>

\* The steps of worker_loop outside process_job.
LoopStep(w) ==
    \/ Top(w) \/ FindJob(w) \/ FindNothing(w) \/ Register(w) \/ Claimed(w)
    \/ QuietCheck(w) \/ Leave(w) \/ Park(w) \/ Woken(w)
    \/ Enqueue(w) \/ Wake(w) \/ Drain(w)

\* The steps of a worker, in a pool whose jobs push whatever they like.
WorkerStep(w) ==
    \/ LoopStep(w)
    \/ \E j \in Jobs \ pushed : Announce(w, j)
    \/ CompleteJob(w)
    \/ Flush(w)

PoolDone == pool = "joined" /\ UNCHANGED poolVars

PoolNext ==
    \/ \E w \in Workers : WorkerStep(w) \/ SpuriousWake(w) \/ Panic(w)
    \/ Cancel
    \/ Join
    \/ PoolDone

PoolSpec == PoolInit /\ [][PoolNext]_poolVars

\* The operating system runs every runnable thread: a worker that can step
\* does, and so does the thread that joins them.  Neither the user's cancel,
\* nor a panic, nor a spurious wakeup is ever owed.
PoolFairness ==
    /\ \A w \in Workers : WF_poolVars(WorkerStep(w))
    /\ WF_poolVars(Join)

FairPoolSpec == PoolSpec /\ PoolFairness

-----------------------------------------------------------------------------
\* Jobs pushed and not completed: queued, held by a worker, or counted but not
\* yet visible.
Held == ({job[w] : w \in Workers} \union {pushing[w] : w \in Workers}) \ {NoJob}
Outstanding == injector \union Held

\* How workers and jobs are matched: a job is in one place, and the program
\* counter says which job variables are in use.
HoldingPC == {"claimed", "process", "enqueue", "wake", "panicked"}

JobsDistinct ==
    /\ \A w \in Workers : job[w] \notin injector /\ pushing[w] \notin injector
    /\ \A v, w \in Workers : v # w /\ job[v] = job[w] => job[v] = NoJob
    /\ \A v, w \in Workers : v # w /\ pushing[v] = pushing[w] => pushing[v] = NoJob
    /\ \A v, w \in Workers : job[v] = pushing[w] => job[v] = NoJob
    /\ Outstanding \subseteq pushed

PcMatchesJob ==
    /\ \A w \in Workers : job[w] # NoJob <=> pc[w] \in HoldingPC
    /\ \A w \in Workers : pushing[w] # NoJob <=> pc[w] = "enqueue"

\* A worker that will wake everybody, or one that died before it could.
SomeWaker == \E v \in Workers : pc[v] \in BusyPC \union {"panicked"}

\* The types of the pool's state (worker_loop, run_pool and Scheduler).
TypeOK ==
    /\ injector \subseteq Jobs
    /\ pending \in Nat
    /\ idle \subseteq Workers
    /\ permits \subseteq Workers
    /\ pc \in [Workers -> PC]
    /\ job \in [Workers -> Jobs \union {NoJob}]
    /\ pushing \in [Workers -> Jobs \union {NoJob}]
    /\ raced \subseteq Workers
    /\ pushed \subseteq Jobs
    /\ cancelled \in BOOLEAN
    /\ panicMsg \in {"none", "panic", "stalled"}
    /\ pool \in {"running", "joined"}

\* The count that decides termination is at every moment the number of jobs
\* that really are outstanding, whatever the interleaving of push and complete
\* ("termination can never race ahead of reality", scheduler.rs:248).
PendingExact == pending = Cardinality(Outstanding)

\* A worker leaves the loop (or has decided to) only when no job is queued,
\* held or about to be published, unless the scan was cancelled.
NoEarlyExit ==
    \A w \in Workers :
        pc[w] \in {"leave", "drainLast", "flush", "done"} => Outstanding = {} \/ cancelled

\* A worker blocked in park() without a token is registered, so that the next
\* completion reaches it, and some worker still owes that completion: the
\* wakeup is never lost between a failed search and the park (scheduler.rs:232).
ParkedHasWaker ==
    \A w \in Workers :
        pc[w] = "park" /\ w \notin permits => w \in idle /\ SomeWaker

\* What a worker that searches, checks or parks can rely on: it is registered
\* or holds a token, and if its search missed work then a waker is about.
WaitersServed ==
    \A w \in Workers :
        /\ pc[w] \in {"refind", "quiet", "park"} => w \in idle \/ w \in permits
        /\ pc[w] = "refind" /\ w \in idle /\ w \in raced => SomeWaker
        /\ pc[w] = "quiet" /\ w \in idle /\ injector # {} => SomeWaker
        /\ pc[w] = "park" /\ w \in idle => SomeWaker

PanicRecorded ==
    /\ \A w \in Workers : pc[w] = "panicked" => panicMsg = "panic"
    /\ panicMsg # "stalled"

JoinedIsOver ==
    pool = "joined" => \A w \in Workers : pc[w] \in EndedPC

IInv ==
    /\ TypeOK
    /\ JobsDistinct
    /\ PcMatchesJob
    /\ IsFiniteSet(Outstanding)
    /\ PendingExact
    /\ NoEarlyExit
    /\ WaitersServed
    /\ PanicRecorded
    /\ JoinedIsOver

\* run_pool's stall check never fires: a pool that joins with jobs outstanding
\* was cancelled or has lost a worker to a panic.
NoStall == panicMsg # "stalled"

\* The pool implements the job ledger: jobs are spawned only by outstanding
\* jobs, each is completed once, and run_pool returns with none left unless the
\* scan was cancelled or a worker panicked.
Ledger == INSTANCE JobLedger WITH
    outstanding <- Outstanding,
    stop <- cancelled,
    damaged <- (panicMsg = "panic"),
    phase <- pool

ImplementsLedger == Ledger!Spec

\* Without a panic the pool always comes to an end, cancelled or not.
PoolTerminates == <>(pool = "joined")

\* "Set when a worker panics or the pool stalls; surfaced as a scan failure
\* instead of a silent hang" (scanner.rs:64): after a panic the pool is joined.
PanicSurfaces == (\E w \in Workers : pc[w] = "panicked") ~> (pool = "joined")
=============================================================================
