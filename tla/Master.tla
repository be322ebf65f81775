------------------------------- MODULE Master -------------------------------
(***************************************************************************)
(* The master process (master.c) and the worker processes as it sees them: *)
(* starting the workers, restarting the ones that die, reload on SIGHUP    *)
(* and shutdown on SIGTERM or SIGINT.                                      *)
(*                                                                         *)
(* The master runs concurrently with its workers and its signal handlers,  *)
(* so its loop is split where it sleeps or calls the kernel: `pc' is the   *)
(* place it has reached.  A worker is reduced to what the master depends   *)
(* on; the module Worker is its inside.                                    *)
(***************************************************************************)
EXTENDS Integers, FiniteSets

CONSTANTS NumWorkers,        \* master->num_workers
          MaxReloads,        \* bound: SIGHUPs sent
          MaxCrashes,        \* bound: workers that die unasked
          MaxForkFailures    \* bound: fork() calls that fail

ASSUME MasterAssumption ==
    /\ NumWorkers \in Nat \ {0}
    /\ MaxReloads \in Nat
    /\ MaxCrashes \in Nat
    /\ MaxForkFailures \in Nat

WorkerIds == 0 .. NumWorkers - 1
MaxPid    == NumWorkers * (MaxReloads + 1) + MaxCrashes
Pid       == 1 .. MaxPid
ForkError == -1
Alive     == {"starting", "serving", "draining"}

VARIABLES
    worker_pids,          \* master->worker_pids: a pid, 0 or ForkError
    draining_pids,        \* the first num_draining of master->draining_pids
    shutdown_requested,
    reload_requested,
    config,               \* the version of master->config
    pc,                   \* where the master is
    next,                 \* the loop index i of the fork loops
    proc,                 \* the processes forked so far, and their state
    last_pid, reloads, crashes, fork_failures

vars == <<worker_pids, draining_pids, shutdown_requested, reload_requested,
          config, pc, next, proc, last_pid, reloads, crashes, fork_failures>>
counters == <<reloads, crashes>>

Process == [state : Alive \cup {"unborn", "zombie", "reaped"},
            usr1 : BOOLEAN,          \* SIGUSR1 is pending
            config : 0..MaxReloads]  \* the configuration it was forked with

Current == {worker_pids[i] : i \in WorkerIds} \cap Pid

TypeOK ==
    /\ worker_pids \in [WorkerIds -> Pid \cup {0, ForkError}]
    /\ draining_pids \subseteq Pid
    /\ shutdown_requested \in BOOLEAN
    /\ reload_requested \in BOOLEAN
    /\ config \in 0..MaxReloads
    /\ pc \in {"start_workers", "loop", "reload", "waitpid",
               "wait_for_workers", "stopped"}
    /\ next \in 0..NumWorkers
    /\ proc \in [Pid -> Process]
    /\ last_pid \in 0..MaxPid
    /\ reloads \in 0..MaxReloads
    /\ crashes \in 0..MaxCrashes
    /\ fork_failures \in 0..MaxForkFailures

Init ==
    /\ worker_pids = [i \in WorkerIds |-> 0]
    /\ draining_pids = {}
    /\ shutdown_requested = FALSE
    /\ reload_requested = FALSE
    /\ config = 0
    /\ pc = "start_workers"
    /\ next = 0
    /\ proc = [p \in Pid |-> [state |-> "unborn", usr1 |-> FALSE, config |-> 0]]
    /\ last_pid = 0
    /\ reloads = 0
    /\ crashes = 0
    /\ fork_failures = 0
-----------------------------------------------------------------------------
(* The worker processes and the signals sent to the master.                *)

(* The worker has installed its SIGUSR1 handler and runs its event loop.   *)
worker_ready(p) ==
    /\ proc[p].state = "starting"
    /\ ~proc[p].usr1
    /\ proc' = [proc EXCEPT ![p].state = "serving"]
    /\ UNCHANGED <<worker_pids, draining_pids, shutdown_requested,
                   reload_requested, config, pc, next, last_pid, counters,
                   fork_failures>>

(* SIGUSR1 arrives.  Before the worker has installed its handler, its      *)
(* default action ends the process.                                        *)
worker_usr1(p) ==
    /\ proc[p].state \in Alive
    /\ proc[p].usr1
    /\ proc' = [proc EXCEPT ![p].usr1 = FALSE,
                            ![p].state = IF @ = "starting" THEN "zombie"
                                                           ELSE "draining"]
    /\ UNCHANGED <<worker_pids, draining_pids, shutdown_requested,
                   reload_requested, config, pc, next, last_pid, counters,
                   fork_failures>>

(* The last connection of a draining worker closes.                        *)
worker_drained(p) ==
    /\ proc[p].state = "draining"
    /\ proc' = [proc EXCEPT ![p].state = "zombie"]
    /\ UNCHANGED <<worker_pids, draining_pids, shutdown_requested,
                   reload_requested, config, pc, next, last_pid, counters,
                   fork_failures>>

(* A worker fails to initialise, meets a fatal accept error or crashes.    *)
worker_dies(p) ==
    /\ proc[p].state \in Alive
    /\ crashes < MaxCrashes
    /\ crashes' = crashes + 1
    /\ proc' = [proc EXCEPT ![p].state = "zombie"]
    /\ UNCHANGED <<worker_pids, draining_pids, shutdown_requested,
                   reload_requested, config, pc, next, last_pid, reloads,
                   fork_failures>>

sigterm_handler ==
    /\ pc # "stopped"
    /\ shutdown_requested' = TRUE
    /\ UNCHANGED <<worker_pids, draining_pids, reload_requested, config, pc,
                   next, proc, last_pid, counters, fork_failures>>

sighup_handler ==
    /\ pc # "stopped"
    /\ reloads < MaxReloads
    /\ reloads' = reloads + 1
    /\ reload_requested' = TRUE
    /\ UNCHANGED <<worker_pids, draining_pids, shutdown_requested, config, pc,
                   next, proc, last_pid, crashes, fork_failures>>
-----------------------------------------------------------------------------
(* The master.                                                             *)

(* Faulty variant: the worker starts with the first configuration.         *)
FaultyForkConfig(i, cfg, ps) ==
    /\ last_pid < MaxPid
    /\ last_pid' = last_pid + 1
    /\ worker_pids' = [worker_pids EXCEPT ![i] = last_pid']
    /\ proc' = [ps EXCEPT ![last_pid'] =
                  [state |-> "starting", usr1 |-> FALSE, config |-> 0]]
    /\ UNCHANGED fork_failures

(* worker_pids[i] = fork_worker(i, cfg), which may fail; ps is the process *)
(* table it starts from.                                                   *)
fork_worker(i, cfg, ps) ==
    \/ /\ last_pid < MaxPid
       /\ last_pid' = last_pid + 1
       /\ worker_pids' = [worker_pids EXCEPT ![i] = last_pid']
       /\ proc' = [ps EXCEPT ![last_pid'] =
                     [state |-> "starting", usr1 |-> FALSE, config |-> cfg]]
       /\ UNCHANGED fork_failures
    \/ /\ fork_failures < MaxForkFailures
       /\ fork_failures' = fork_failures + 1
       /\ worker_pids' = [worker_pids EXCEPT ![i] = ForkError]
       /\ proc' = ps
       /\ UNCHANGED last_pid

start_workers ==
    /\ pc = "start_workers"
    /\ fork_worker(next, config, proc)
    /\ next' = next + 1
    /\ pc' = IF next' = NumWorkers THEN "loop" ELSE pc
    /\ UNCHANGED <<draining_pids, shutdown_requested, reload_requested, config,
                   counters>>

(* Faulty variant: worker 0 is skipped.                                    *)
FaultySkipsFirst ==
    proc' = [p \in Pid |->
               IF p \in Current \ {worker_pids[0]} /\ proc[p].state \in Alive
               THEN [proc[p] EXCEPT !.usr1 = TRUE] ELSE proc[p]]

(* master_shutdown_workers: SIGUSR1 to every pid in worker_pids.           *)
master_shutdown_workers ==
    proc' = [p \in Pid |->
               IF p \in Current /\ proc[p].state \in Alive
               THEN [proc[p] EXCEPT !.usr1 = TRUE] ELSE proc[p]]

(* The top of the main loop when nothing is requested.                     *)
loop_idle ==
    /\ pc = "loop"
    /\ ~shutdown_requested
    /\ ~reload_requested
    /\ pc' = "waitpid"
    /\ UNCHANGED <<worker_pids, draining_pids, shutdown_requested,
                   reload_requested, config, next, proc, last_pid, counters,
                   fork_failures>>

(* master_reload up to its 100 ms sleep: remember the old workers, tell    *)
(* them to drain, adopt the new configuration.                             *)
master_reload ==
    /\ pc = "loop"
    /\ ~shutdown_requested
    /\ reload_requested
    /\ reload_requested' = FALSE
    /\ draining_pids' = Current
    /\ master_shutdown_workers
    /\ config' = config + 1
    /\ next' = 0
    /\ pc' = "reload"
    /\ UNCHANGED <<worker_pids, shutdown_requested, last_pid, counters,
                   fork_failures>>

(* The new configuration does not load: everything stays as it is.         *)
master_reload_fails ==
    /\ pc = "loop"
    /\ ~shutdown_requested
    /\ reload_requested
    /\ reload_requested' = FALSE
    /\ pc' = "waitpid"
    /\ UNCHANGED <<worker_pids, draining_pids, shutdown_requested, config,
                   next, proc, last_pid, counters, fork_failures>>

(* One turn of the loop that forks the new workers.  An index that has no  *)
(* old worker gets no new one.                                             *)
reload_fork ==
    /\ pc = "reload"
    /\ next < NumWorkers
    /\ IF worker_pids[next] > 0
       THEN fork_worker(next, config, proc)
       ELSE UNCHANGED <<worker_pids, proc, last_pid, fork_failures>>
    /\ next' = next + 1
    /\ pc' = IF next' = NumWorkers THEN "waitpid" ELSE pc
    /\ UNCHANGED <<draining_pids, shutdown_requested, reload_requested, config,
                   counters>>

Zombie == {p \in Pid : proc[p].state = "zombie"}

nothing_to_reap ==
    /\ pc = "waitpid"
    /\ Zombie = {}
    /\ pc' = "loop"
    /\ UNCHANGED <<worker_pids, draining_pids, shutdown_requested,
                   reload_requested, config, next, proc, last_pid, counters,
                   fork_failures>>

Reaped(p) == [proc EXCEPT ![p].state = "reaped"]

(* Faulty variant: a dead worker is not replaced.                          *)
FaultyForgets(p) ==
    /\ pc = "waitpid"
    /\ p \in Zombie
    /\ proc' = Reaped(p)
    /\ draining_pids' = draining_pids \ {p}
    /\ pc' = "loop"
    /\ UNCHANGED <<shutdown_requested, reload_requested, config, next, counters,
                   worker_pids, last_pid, fork_failures>>

(* waitpid returns a child: an old worker that drained is forgotten, an    *)
(* unknown child ignored, a current worker replaced, unless a shutdown was *)
(* requested in the meantime.                                              *)
handle_worker_exit(p) ==
    /\ pc = "waitpid"
    /\ p \in Zombie
    /\ \/ /\ p \in draining_pids
          /\ draining_pids' = draining_pids \ {p}
          /\ proc' = Reaped(p)
          /\ UNCHANGED <<worker_pids, last_pid, fork_failures>>
       \/ /\ p \notin draining_pids \cup Current
          /\ proc' = Reaped(p)
          /\ UNCHANGED <<worker_pids, draining_pids, last_pid, fork_failures>>
       \/ /\ p \notin draining_pids
          /\ \E i \in WorkerIds :
                /\ worker_pids[i] = p
                /\ ~shutdown_requested
                /\ fork_worker(i, config, Reaped(p))
          /\ UNCHANGED draining_pids
       \/ /\ p \notin draining_pids
          /\ \E i \in WorkerIds :
                /\ worker_pids[i] = p
                /\ shutdown_requested
                /\ worker_pids' = [worker_pids EXCEPT ![i] = 0]
                /\ proc' = Reaped(p)
          /\ UNCHANGED <<draining_pids, last_pid, fork_failures>>
    /\ pc' = "loop"
    /\ UNCHANGED <<shutdown_requested, reload_requested, config, next, counters>>

(* The main loop ends: drain the workers and wait.                         *)
begin_shutdown ==
    /\ pc = "loop"
    /\ shutdown_requested
    /\ master_shutdown_workers
    /\ pc' = "wait_for_workers"
    /\ UNCHANGED <<worker_pids, draining_pids, shutdown_requested,
                   reload_requested, config, next, last_pid, counters,
                   fork_failures>>

(* wait_for_workers reaps a child; only a current worker counts.           *)
wait_reap(p) ==
    /\ pc = "wait_for_workers"
    /\ Current # {}
    /\ p \in Zombie
    /\ proc' = Reaped(p)
    /\ worker_pids' = [i \in WorkerIds |->
                          IF worker_pids[i] = p THEN 0 ELSE worker_pids[i]]
    /\ UNCHANGED <<draining_pids, shutdown_requested, reload_requested, config,
                   pc, next, last_pid, counters, fork_failures>>

(* Faulty variant: the remaining workers are only told again to drain.     *)
FaultyDeadline ==
    /\ pc = "wait_for_workers"
    /\ Current # {}
    /\ master_shutdown_workers
    /\ UNCHANGED <<worker_pids, draining_pids, shutdown_requested, pc,
                   reload_requested, config, next, last_pid, counters,
                   fork_failures>>

(* The 30 s are over: SIGKILL the rest, reap them, and stop.               *)
wait_deadline ==
    /\ pc = "wait_for_workers"
    /\ Current # {}
    /\ proc' = [p \in Pid |-> IF p \in Current
                              THEN [proc[p] EXCEPT !.state = "reaped"]
                              ELSE proc[p]]
    /\ worker_pids' = [i \in WorkerIds |->
                          IF worker_pids[i] > 0 THEN 0 ELSE worker_pids[i]]
    /\ pc' = "stopped"
    /\ UNCHANGED <<draining_pids, shutdown_requested, reload_requested, config,
                   next, last_pid, counters, fork_failures>>

all_workers_stopped ==
    /\ pc = "wait_for_workers"
    /\ Current = {}
    /\ pc' = "stopped"
    /\ UNCHANGED <<worker_pids, draining_pids, shutdown_requested,
                   reload_requested, config, next, proc, last_pid, counters,
                   fork_failures>>

Done == pc = "stopped" /\ UNCHANGED vars

MasterStep ==
    \/ start_workers
    \/ loop_idle
    \/ master_reload
    \/ master_reload_fails
    \/ reload_fork
    \/ nothing_to_reap
    \/ \E p \in Pid : handle_worker_exit(p) \/ wait_reap(p)
    \/ begin_shutdown
    \/ wait_deadline
    \/ all_workers_stopped

WorkerStep(p) ==
    \/ worker_ready(p)
    \/ worker_usr1(p)
    \/ worker_drained(p)
    \/ worker_dies(p)

Next ==
    \/ MasterStep
    \/ \E p \in Pid : WorkerStep(p)
    \/ sigterm_handler
    \/ sighup_handler
    \/ Done

Spec == Init /\ [][Next]_vars

(* The master keeps running (it only ever sleeps 100 ms), a started worker *)
(* comes up, and the kernel delivers signals.  That a draining worker      *)
(* finishes is not assumed: its clients decide.                            *)
Fairness ==
    /\ WF_vars(MasterStep)
    /\ \A p \in Pid : WF_vars(worker_ready(p)) /\ WF_vars(worker_usr1(p))

FairSpec == Spec /\ Fairness
-----------------------------------------------------------------------------
(* Properties.                                                             *)

(* The master never acts on a pid the kernel may have given to another     *)
(* process: every pid in worker_pids, and while the main loop runs every   *)
(* pid in draining_pids, is a child that was forked and not yet reaped, so *)
(* no signal goes astray and no new worker is taken for an old one.        *)
PidsAreChildren ==
    /\ \A p \in Current : proc[p].state \notin {"unborn", "reaped"}
    /\ pc \in {"loop", "waitpid", "reload"} =>
         \A p \in draining_pids : proc[p].state \notin {"unborn", "reaped"}

(* No pid is tracked twice: two worker slots never share one, and outside  *)
(* the reload itself no current worker is also listed as draining (its     *)
(* crash would then pass for a finished drain and not be repaired).        *)
TrackedOnce ==
    /\ \A i, j \in WorkerIds :
          worker_pids[i] \in Pid /\ worker_pids[i] = worker_pids[j] => i = j
    /\ pc # "reload" => Current \cap draining_pids = {}

(* A worker that the master no longer tracks as current has been told to   *)
(* drain: no reload, crash or signal leaves a process that keeps accepting *)
(* with nobody to stop it.                                                 *)
UntrackedDrains ==
    \A p \in Pid : proc[p].state \in {"starting", "serving"} /\ ~proc[p].usr1
                     => p \in Current

(* Once a reload is over, every current worker runs the configuration the  *)
(* master holds, the replacement of a worker that crashed meanwhile        *)
(* included.                                                               *)
CurrentConfig ==
    pc \in {"loop", "waitpid"} => \A p \in Current : proc[p].config = config

(* When the master has stopped, no worker accepts connections any more.    *)
NoneServesAfterStop ==
    pc = "stopped" => \A p \in Pid : proc[p].state = "serving" => proc[p].usr1

(* A requested shutdown ends, however the workers behave.                  *)
ShutdownCompletes == shutdown_requested ~> pc = "stopped"

Running(i) == worker_pids[i] \in {p \in Pid : proc[p].state \in Alive}

(* A current worker that died is replaced, unless the replacement cannot   *)
(* be forked or the server shuts down.                                     *)
CrashRepaired ==
    \A i \in WorkerIds :
        (worker_pids[i] \in Zombie)
        ~> (\/ Running(i)
            \/ worker_pids[i] = ForkError
            \/ shutdown_requested)
-----------------------------------------------------------------------------
(* What the documentation says and the code does not do.                   *)

(* A reload drains the old workers "(30s timeout, then SIGKILL)": every    *)
(* old worker ends, without a shutdown.                                    *)
OldWorkersEnd ==
    \A p \in Pid : (p \in draining_pids)
                    ~> (proc[p].state \notin Alive \/ shutdown_requested)
=============================================================================
