----------------------------- MODULE Scheduler -----------------------------
(***************************************************************************)
(* The job scheduler of a scan (src/src/scan/scheduler.rs): a global       *)
(* injector queue, the count of jobs pushed but not completed, and the     *)
(* registry of idle worker threads that pushes and completions wake.       *)
(*                                                                         *)
(* Each operator is one step another thread can observe: an atomic         *)
(* read-modify-write, one operation of the lock-free queue, or one critical*)
(* section of the idle lock.  The order of the steps of push() and of      *)
(* complete() is fixed by the control flow of module WorkerPool.           *)
(*                                                                         *)
(* Abstractions.  The injector is a set: no property depends on the order  *)
(* in which a FIFO serves jobs, and jobs are distinct heap objects.  The   *)
(* idle registry is a set for the same reason (pop() takes any member).    *)
(* The local deques of the workers are left out: nothing is ever pushed    *)
(* into one, so Worker::pop and Stealer::steal always find them empty.     *)
(***************************************************************************)
EXTENDS Integers, FiniteSets

CONSTANTS
    Jobs,       \* the jobs a scan may create
    Workers     \* the threads of the pool

VARIABLES
    injector,   \* jobs waiting in the global queue
    pending,    \* Scheduler::pending
    idle,       \* workers registered in Scheduler::idle
    permits     \* workers holding an unpark token (std::thread::park semantics)

schedVars == <<injector, pending, idle, permits>>

\* Scheduler::new, then the push of the first job by spawn_scan, which nobody
\* is registered to hear yet.
NewScheduler(first) ==
    /\ injector = {first}
    /\ pending = 1
    /\ idle = {}
    /\ permits = {}

-----------------------------------------------------------------------------
\* Variant: the count is left as it is.
CountUnchanged == UNCHANGED <<injector, pending, idle, permits>>

\* push(): the count is raised, then the job becomes visible, then one idler
\* (if any) is popped and unparked under the idle lock.
RaisePending ==
    /\ pending' = pending + 1
    /\ UNCHANGED <<injector, idle, permits>>

Publish(j) ==
    /\ injector' = injector \union {j}
    /\ UNCHANGED <<pending, idle, permits>>

WakeOne ==
    /\ \/ \E w \in idle :
             /\ idle' = idle \ {w}
             /\ permits' = permits \union {w}
       \/ /\ idle = {}
          /\ UNCHANGED <<idle, permits>>
    /\ UNCHANGED <<injector, pending>>

-----------------------------------------------------------------------------
\* Variant: a job is completed by process_job and again by the loop.
LowerTwice ==
    /\ pending' = pending - 2
    /\ UNCHANGED <<injector, idle, permits>>

\* complete(): the count is lowered, then every idler is drained and unparked.
LowerPending ==
    /\ pending' = pending - 1
    /\ UNCHANGED <<injector, idle, permits>>

\* Variant: the value after the decrement is compared with one.
LastOffByOne == pending = 2

\* fetch_sub returned one: this was the last outstanding job.
WasLast == pending = 1

\* Variant: the drained idlers are dropped without an unpark.
DrainSilently ==
    /\ idle' = {}
    /\ UNCHANGED <<injector, pending, permits>>

\* Variant: a completion pops a single idler, as a push does.
DrainOne == WakeOne

WakeAll ==
    /\ idle' = {}
    /\ permits' = permits \union idle
    /\ UNCHANGED <<injector, pending>>

-----------------------------------------------------------------------------
RegisterIdle(w) ==
    /\ idle' = idle \union {w}
    /\ UNCHANGED <<injector, pending, permits>>

UnregisterIdle(w) ==
    /\ idle' = idle \ {w}
    /\ UNCHANGED <<injector, pending, permits>>

\* Variant: quiet is read off the queue instead of the outstanding count.
QueueLooksEmpty == injector = {}

IsQuiet == pending = 0

\* find(): a successful steal from the injector.
Take(j) ==
    /\ j \in injector
    /\ injector' = injector \ {j}
    /\ UNCHANGED <<pending, idle, permits>>

\* thread::park() returning on a token, which it consumes.
ConsumePermit(w) ==
    /\ w \in permits
    /\ permits' = permits \ {w}
    /\ UNCHANGED <<injector, pending, idle>>
=============================================================================
