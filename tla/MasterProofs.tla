---------------------------- MODULE MasterProofs ----------------------------
(***************************************************************************)
(* The safety properties of the module Master, for any number of workers,  *)
(* reloads, crashes and failed forks.                                      *)
(***************************************************************************)
EXTENDS Master, TLAPS

(* fork() hands out pids in order; those above the last are unused.        *)
Born == \A p \in Pid : p > last_pid <=> proc[p].state = "unborn"

(* Every configuration was asked for by a SIGHUP of its own.               *)
Asked == config + (IF reload_requested THEN 1 ELSE 0) <= reloads

(* The loops that fork run over the indices of worker_pids in order.       *)
Index == pc \in {"start_workers", "reload"} => next < NumWorkers

(* The first loop starts from empty entries.                               *)
Empty ==
    pc = "start_workers" =>
        /\ draining_pids = {}
        /\ \A j \in WorkerIds : j >= next => worker_pids[j] = 0

(* What a loop that forks has done so far: the workers below the index are *)
(* new, and run the configuration the master holds.                        *)
New ==
    pc \in {"start_workers", "reload"} =>
        \A j \in WorkerIds : (j < next /\ worker_pids[j] \in Pid) =>
            /\ worker_pids[j] \notin draining_pids
            /\ proc[worker_pids[j]].config = config

(* And the old workers from the index on were told to drain.               *)
Told ==
    pc = "reload" =>
        \A j \in WorkerIds :
            (/\ j >= next /\ worker_pids[j] \in Pid
             /\ proc[worker_pids[j]].state \in {"starting", "serving"})
            => proc[worker_pids[j]].usr1

Stopped == pc = "stopped" => Current = {}

IInv ==
    /\ TypeOK
    /\ PidsAreChildren
    /\ TrackedOnce
    /\ UntrackedDrains
    /\ CurrentConfig
    /\ Born
    /\ Asked
    /\ Index
    /\ Empty
    /\ New
    /\ Told
    /\ Stopped
-----------------------------------------------------------------------------
(* Pids are positive and bounded; 0 and ForkError are none.                *)
LEMMA Pids ==
    /\ MaxPid \in Nat
    /\ \A p : p \in Pid <=> p \in Int /\ 1 <= p /\ p <= MaxPid
    /\ 0 \notin Pid
    /\ ForkError \notin Pid
    /\ WorkerIds \subseteq Nat
    /\ NumWorkers \in Nat
<1>1. NumWorkers \in Nat /\ MaxReloads \in Nat /\ MaxCrashes \in Nat
  BY MasterAssumption
<1>2. NumWorkers * (MaxReloads + 1) \in Nat
  BY <1>1
<1>3. MaxPid \in Nat
  BY <1>1, <1>2 DEF MaxPid
<1>. QED
  BY <1>1, <1>3 DEF Pid, ForkError, WorkerIds

(* The master starts in a state that satisfies the invariant.              *)
LEMMA InitIInv == Init => IInv
<1>. SUFFICES ASSUME Init PROVE IInv
  OBVIOUS
<1>1. NumWorkers \in Nat \ {0} /\ MaxReloads \in Nat /\ MaxCrashes \in Nat
      /\ MaxForkFailures \in Nat
  BY MasterAssumption
<1>2. TypeOK
  <2>1. proc \in [Pid -> Process]
    BY <1>1 DEF Init, Process
  <2>2. MaxPid \in Nat
    BY Pids
  <2>3. worker_pids \in [WorkerIds -> Pid \cup {0, ForkError}]
    BY DEF Init
  <2>4. /\ draining_pids \subseteq Pid
        /\ shutdown_requested \in BOOLEAN
        /\ reload_requested \in BOOLEAN
        /\ pc \in {"start_workers", "loop", "reload", "waitpid",
                   "wait_for_workers", "stopped"}
    BY ZenonT(30) DEF Init
  <2>5. /\ config \in 0..MaxReloads
        /\ next \in 0..NumWorkers
        /\ last_pid \in 0..MaxPid
        /\ reloads \in 0..MaxReloads
        /\ crashes \in 0..MaxCrashes
        /\ fork_failures \in 0..MaxForkFailures
    BY <2>2, <1>1 DEF Init
  <2>. QED
    BY <2>1, <2>3, <2>4, <2>5 DEF TypeOK
<1>3. Current = {}
  BY Pids DEF Init, Current
<1>4. PidsAreChildren /\ TrackedOnce /\ UntrackedDrains /\ CurrentConfig /\ Stopped
  BY <1>3, Pids DEF Init, PidsAreChildren, TrackedOnce, UntrackedDrains,
     CurrentConfig, Stopped
<1>5. Born /\ Asked /\ Index /\ Empty /\ New /\ Told
  BY <1>1, Pids DEF Init, Born, Asked, Index, Empty, New, Told, WorkerIds
<1>. QED
  BY <1>2, <1>4, <1>5 DEF IInv

(* A step of a worker changes the state of one process that was forked and *)
(* not reaped: it comes up, only if it was not told to drain, it drains, or *)
(* it ends.                                                                *)
LEMMA WorkerStepIInv ==
    ASSUME IInv, NEW p \in Pid, WorkerStep(p)
    PROVE  IInv'
<1>. DEFINE old == proc[p]
            new == proc'[p]
<1>1. /\ UNCHANGED <<worker_pids, draining_pids, shutdown_requested,
                     reload_requested, config, pc, next, last_pid, reloads,
                     fork_failures>>
      /\ crashes' \in 0..MaxCrashes
  BY MasterAssumption DEF WorkerStep, worker_ready, worker_usr1, worker_drained,
     worker_dies, counters, IInv, TypeOK
<1>2. proc \in [Pid -> Process] /\ old \in Process
  BY DEF IInv, TypeOK
<1>3. /\ proc' \in [Pid -> Process]
      /\ \A q \in Pid : q # p => proc'[q] = proc[q]
      /\ old.state \in Alive
      /\ new.config = old.config
      /\ new.state \in {"serving", "draining", "zombie"}
      /\ new.state = "serving" => ~old.usr1 /\ ~new.usr1
  <2>1. CASE worker_ready(p)
    BY <1>2, <2>1 DEF worker_ready, Process, Alive
  <2>2. CASE worker_usr1(p)
    BY <1>2, <2>2, ZenonT(30) DEF worker_usr1, Process, Alive
  <2>3. CASE worker_drained(p)
    BY <1>2, <2>3 DEF worker_drained, Process, Alive
  <2>4. CASE worker_dies(p)
    BY <1>2, <2>4 DEF worker_dies, Process, Alive
  <2>. QED
    BY <2>1, <2>2, <2>3, <2>4 DEF WorkerStep
<1>4. new.state = "serving" => old.state = "starting"
  BY <1>2 DEF WorkerStep, worker_ready, worker_usr1, worker_drained, worker_dies,
     Process, Alive
<1>5. Current' = Current
  BY <1>1 DEF Current
<1>6. TypeOK'
  BY <1>1, <1>3 DEF IInv, TypeOK
<1>7. PidsAreChildren' /\ TrackedOnce' /\ CurrentConfig'
  BY <1>1, <1>3, <1>5 DEF IInv, TypeOK, PidsAreChildren, TrackedOnce,
     CurrentConfig, Alive, Current
<1>8. UntrackedDrains'
  BY <1>1, <1>2, <1>3, <1>4, <1>5 DEF IInv, UntrackedDrains
<1>9. Born' /\ Asked' /\ Index' /\ Empty' /\ Stopped'
  BY <1>1, <1>3, <1>5 DEF IInv, Born, Asked, Index, Empty, Stopped, Alive
<1>10. New'
  BY <1>1, <1>3 DEF IInv, New
<1>11. Told'
  BY <1>1, <1>2, <1>3, <1>4 DEF IInv, Told
<1>. QED
  BY <1>6, <1>7, <1>8, <1>9, <1>10, <1>11 DEF IInv

(* The steps of the master and its signal handlers that touch no process   *)
(* and no entry of the pid arrays.                                         *)
LEMMA QuietIInv ==
    ASSUME IInv,
           \/ sigterm_handler \/ sighup_handler \/ loop_idle
           \/ master_reload_fails \/ nothing_to_reap \/ all_workers_stopped
           \/ UNCHANGED vars
    PROVE  IInv'
<1>1. UNCHANGED <<worker_pids, draining_pids, config, next, proc, last_pid,
                  crashes, fork_failures>>
  BY DEF sigterm_handler, sighup_handler, loop_idle, master_reload_fails,
     nothing_to_reap, all_workers_stopped, vars, counters
<1>2. /\ pc' \in {"start_workers", "loop", "reload", "waitpid",
                  "wait_for_workers", "stopped"}
      /\ pc' # pc => \/ pc = "loop" /\ pc' = "waitpid"
                     \/ pc = "waitpid" /\ pc' = "loop"
                     \/ pc = "wait_for_workers" /\ pc' = "stopped" /\ Current = {}
      /\ shutdown_requested' \in BOOLEAN
      /\ reload_requested' \in BOOLEAN
      /\ reloads' \in 0..MaxReloads
  <2>1. /\ shutdown_requested \in BOOLEAN /\ reload_requested \in BOOLEAN
        /\ pc \in {"start_workers", "loop", "reload", "waitpid",
                   "wait_for_workers", "stopped"}
    BY DEF IInv, TypeOK
  <2>2. reloads' \in 0..MaxReloads
    BY MasterAssumption DEF sigterm_handler, sighup_handler, loop_idle,
       master_reload_fails, nothing_to_reap, all_workers_stopped, vars, counters,
       IInv, TypeOK
  <2>3. shutdown_requested' \in BOOLEAN /\ reload_requested' \in BOOLEAN
    BY <2>1, ZenonT(30) DEF sigterm_handler, sighup_handler, loop_idle,
       master_reload_fails, nothing_to_reap, all_workers_stopped, vars
  <2>4. \/ pc' = pc
        \/ pc = "loop" /\ pc' = "waitpid"
        \/ pc = "waitpid" /\ pc' = "loop"
        \/ pc = "wait_for_workers" /\ pc' = "stopped" /\ Current = {}
    BY DEF sigterm_handler, sighup_handler, loop_idle,
       master_reload_fails, nothing_to_reap, all_workers_stopped, vars
  <2>. QED
    BY <2>1, <2>2, <2>3, <2>4
<1>3. Asked'
  <2>1. /\ config \in Int /\ reloads \in Int /\ config' = config
        /\ config + (IF reload_requested THEN 1 ELSE 0) <= reloads
    BY <1>1 DEF IInv, TypeOK, Asked
  <2>2. \/ reload_requested' = reload_requested /\ reloads' = reloads
        \/ reload_requested' = FALSE /\ reloads' = reloads
        \/ reload_requested' = TRUE /\ reloads' = reloads + 1
    BY DEF sigterm_handler, sighup_handler, loop_idle, master_reload_fails,
       nothing_to_reap, all_workers_stopped, vars, counters
  <2>3. reload_requested \in BOOLEAN
    BY DEF IInv, TypeOK
  <2>. QED
    BY <2>1, <2>2, <2>3 DEF Asked
<1>4. Current' = Current
  BY <1>1 DEF Current
<1>5. TypeOK'
  BY <1>1, <1>2 DEF IInv, TypeOK
<1>6. PidsAreChildren' /\ TrackedOnce' /\ UntrackedDrains' /\ CurrentConfig'
  BY <1>1, <1>2, <1>4 DEF IInv, PidsAreChildren, TrackedOnce, UntrackedDrains,
     CurrentConfig
<1>7. Born' /\ Index' /\ Empty' /\ New' /\ Told' /\ Stopped'
  BY <1>1, <1>2, <1>4 DEF IInv, Born, Index, Empty, New, Told, Stopped
<1>. QED
  BY <1>3, <1>5, <1>6, <1>7 DEF IInv

(* SIGUSR1 to the current workers changes nothing of a process but its     *)
(* pending signal.                                                         *)
LEMMA ToldFacts ==
    ASSUME TypeOK, master_shutdown_workers
    PROVE  /\ proc' \in [Pid -> Process]
           /\ \A q \in Pid :
                 /\ proc'[q].state = proc[q].state
                 /\ proc'[q].config = proc[q].config
                 /\ proc[q].usr1 => proc'[q].usr1
                 /\ q \in Current /\ proc[q].state \in Alive => proc'[q].usr1
<1>1. \A q \in Pid : proc[q] \in Process
  BY DEF TypeOK
<1>2. \A q \in Pid : proc'[q] = IF q \in Current /\ proc[q].state \in Alive
                                THEN [proc[q] EXCEPT !.usr1 = TRUE] ELSE proc[q]
  BY DEF master_shutdown_workers
<1>3. \A q \in Pid :
        /\ proc'[q] \in Process
        /\ proc'[q].state = proc[q].state
        /\ proc'[q].config = proc[q].config
        /\ proc[q].usr1 => proc'[q].usr1
        /\ q \in Current /\ proc[q].state \in Alive => proc'[q].usr1
  BY <1>1, <1>2, ZenonT(30) DEF Process
<1>. QED
  BY <1>3 DEF master_shutdown_workers

(* The start of a reload, and of the shutdown.                             *)
LEMMA TellIInv ==
    ASSUME IInv, master_reload \/ begin_shutdown
    PROVE  IInv'
<1>1. master_shutdown_workers /\ pc = "loop" /\ TypeOK
  BY DEF master_reload, begin_shutdown, IInv
<1>2. /\ proc' \in [Pid -> Process]
      /\ \A q \in Pid :
            /\ proc'[q].state = proc[q].state
            /\ proc'[q].config = proc[q].config
            /\ proc[q].usr1 => proc'[q].usr1
            /\ q \in Current /\ proc[q].state \in Alive => proc'[q].usr1
  BY <1>1, ToldFacts
<1>3. /\ UNCHANGED <<worker_pids, shutdown_requested, last_pid, reloads, crashes,
                     fork_failures>>
      /\ Current' = Current
  BY DEF master_reload, begin_shutdown, counters, Current
<1>4. \A j \in WorkerIds : worker_pids[j] \in Pid => worker_pids[j] \in Current
  BY DEF Current
<1>5. Current \subseteq Pid
  BY DEF Current
<1>6. CASE begin_shutdown
  <2>1. UNCHANGED <<draining_pids, reload_requested, config, next>>
        /\ pc' = "wait_for_workers"
    BY <1>6 DEF begin_shutdown
  <2>2. TypeOK'
    BY <1>2, <1>3, <2>1 DEF IInv, TypeOK
  <2>3. PidsAreChildren' /\ TrackedOnce' /\ UntrackedDrains' /\ CurrentConfig'
    BY <1>1, <1>2, <1>3, <1>5, <2>1 DEF IInv, PidsAreChildren, TrackedOnce,
       UntrackedDrains, CurrentConfig
  <2>4. Born' /\ Asked' /\ Index' /\ Empty' /\ New' /\ Told' /\ Stopped'
    BY <1>2, <1>3, <2>1 DEF IInv, Born, Asked, Index, Empty, New, Told, Stopped
  <2>. QED
    BY <2>2, <2>3, <2>4 DEF IInv
<1>7. CASE master_reload
  <2>1. /\ reload_requested /\ reload_requested' = FALSE
        /\ draining_pids' = Current
        /\ config' = config + 1
        /\ next' = 0
        /\ pc' = "reload"
    BY <1>7 DEF master_reload
  <2>2. config' \in 0..MaxReloads /\ Asked'
    BY <1>1, <1>3, <2>1, MasterAssumption DEF IInv, TypeOK, Asked
  <2>3. next' \in 0..NumWorkers
    BY <2>1, Pids
  <2>4. TypeOK'
    BY <1>2, <1>3, <1>5, <2>1, <2>2, <2>3, ZenonT(30) DEF IInv, TypeOK
  <2>5. PidsAreChildren' /\ TrackedOnce' /\ UntrackedDrains' /\ CurrentConfig'
    BY <1>1, <1>2, <1>3, <1>5, <2>1 DEF IInv, PidsAreChildren, TrackedOnce,
       UntrackedDrains, CurrentConfig
  <2>6. Born' /\ Empty' /\ Stopped'
    BY <1>2, <1>3, <2>1 DEF IInv, Born, Empty, Stopped
  <2>7. Index' /\ New'
    BY <2>1, MasterAssumption DEF Index, New, WorkerIds
  <2>8. Told'
    BY <1>2, <1>3, <1>4, <2>1 DEF Told, Alive
  <2>. QED
    BY <2>2, <2>4, <2>5, <2>6, <2>7, <2>8 DEF IInv
<1>. QED
  BY <1>6, <1>7

(* One turn of a loop that forks: worker_pids[next] gets a new child, or   *)
(* ForkError, or is left alone because there was no old worker.  The old   *)
(* one that it overwrites was told to drain.                               *)
LEMMA ForkLoopIInv ==
    ASSUME IInv, start_workers \/ reload_fork
    PROVE  IInv'
<1>1. /\ pc \in {"start_workers", "reload"}
      /\ next \in WorkerIds /\ next \in Nat /\ NumWorkers \in Nat
      /\ next' = next + 1
      /\ next' \in 0..NumWorkers
      /\ UNCHANGED <<draining_pids, shutdown_requested, reload_requested, config,
                     reloads, crashes>>
  BY MasterAssumption DEF start_workers, reload_fork, IInv, TypeOK, Index,
     WorkerIds, counters
<1>2. /\ next' < NumWorkers => pc' = pc
      /\ next' = NumWorkers => pc' \in {"loop", "waitpid"}
      /\ next' = NumWorkers \/ next' < NumWorkers
  BY <1>1 DEF start_workers, reload_fork
<1>3. /\ \A j \in WorkerIds : worker_pids[j] \in Pid \cup {0, ForkError}
      /\ \A q \in Pid : proc[q] \in Process
      /\ proc \in [Pid -> Process] /\ draining_pids \subseteq Pid
      /\ config \in 0..MaxReloads
      /\ last_pid \in 0..MaxPid /\ last_pid \in Nat
  BY DEF IInv, TypeOK
<1>4. worker_pids[next] \in Pid => pc = "reload"
  BY <1>1, Pids DEF IInv, Empty
<1>5. \A q \in draining_pids : proc[q].state # "unborn"
  BY <1>1 DEF IInv, PidsAreChildren, Empty
<1>6. \A j \in WorkerIds : worker_pids[j] \in Pid =>
        proc[worker_pids[j]].state \notin {"unborn", "reaped"}
  BY DEF IInv, PidsAreChildren, Current
<1>. DEFINE born == last_pid + 1
            Forks == /\ last_pid < MaxPid
                     /\ last_pid' = born
                     /\ worker_pids' = [worker_pids EXCEPT ![next] = born]
                     /\ proc' = [proc EXCEPT ![born] =
                          [state |-> "starting", usr1 |-> FALSE, config |-> config]]
                     /\ fork_failures' = fork_failures
            Fails == /\ fork_failures < MaxForkFailures
                     /\ fork_failures' = fork_failures + 1
                     /\ worker_pids' = [worker_pids EXCEPT ![next] = ForkError]
                     /\ UNCHANGED <<proc, last_pid>>
            Skips == /\ worker_pids[next] \notin Pid
                     /\ UNCHANGED <<worker_pids, proc, last_pid, fork_failures>>
<1>7. Forks \/ Fails \/ Skips
  <2>1. fork_worker(next, config, proc) => Forks \/ Fails
    BY ZenonT(30) DEF fork_worker
  <2>2. ~(worker_pids[next] > 0) => worker_pids[next] \notin Pid
    BY Pids
  <2>3. fork_worker(next, config, proc) \/ Skips
    BY <2>2 DEF start_workers, reload_fork
  <2>. QED
    BY <2>1, <2>3
(* What holds whichever of the three happens. *)
<1>8. /\ worker_pids' \in [WorkerIds -> Pid \cup {0, ForkError}]
      /\ proc' \in [Pid -> Process]
      /\ last_pid' \in 0..MaxPid
      /\ fork_failures' \in 0..MaxForkFailures
      /\ Born'
      /\ \A j \in WorkerIds : j # next => worker_pids'[j] = worker_pids[j]
      /\ \A q \in Pid : proc[q].state # "unborn" => proc'[q] = proc[q]
      /\ worker_pids'[next] \in Pid =>
            /\ proc[worker_pids'[next]].state = "unborn"
            /\ proc'[worker_pids'[next]].state = "starting"
            /\ proc'[worker_pids'[next]].config = config
      /\ \A q \in Pid : proc[q].state = "unborn" /\ proc'[q] # proc[q] =>
            q = worker_pids'[next]
  <2>1. CASE Forks
    <3>1. /\ born \in Pid /\ born \in Nat
          /\ proc[born].state = "unborn"
          /\ born \in 0..MaxPid
      BY <2>1, <1>3, Pids DEF IInv, Born
    <3>2. /\ worker_pids' \in [WorkerIds -> Pid \cup {0, ForkError}]
          /\ worker_pids'[next] = born
          /\ \A j \in WorkerIds : j # next => worker_pids'[j] = worker_pids[j]
      BY <2>1, <3>1, <1>1 DEF IInv, TypeOK
    <3>3. [state |-> "starting", usr1 |-> FALSE, config |-> config] \in Process
      BY <1>3 DEF Process, Alive
    <3>4. /\ proc' \in [Pid -> Process]
          /\ proc'[born] = [state |-> "starting", usr1 |-> FALSE, config |-> config]
          /\ \A q \in Pid : q # born => proc'[q] = proc[q]
      BY <2>1, <3>1, <3>3, <1>3
    <3>5. proc'[born].state = "starting" /\ proc'[born].config = config
      BY <3>4
    <3>6. Born'
      BY <2>1, <3>1, <3>4, <3>5, <1>3, Pids DEF IInv, Born
    <3>7. last_pid' \in 0..MaxPid /\ fork_failures' \in 0..MaxForkFailures
      BY <2>1, <3>1 DEF IInv, TypeOK
    <3>. HIDE DEF born
    <3>. QED
      BY <3>1, <3>2, <3>4, <3>5, <3>6, <3>7, ZenonT(30)
  <2>2. CASE Fails
    BY <2>2, <1>1, <1>3, Pids, MasterAssumption DEF IInv, TypeOK, Born
  <2>3. CASE Skips
    BY <2>3, <1>1, <1>3 DEF IInv, TypeOK, Born
  <2>. QED
    BY <1>7, <2>1, <2>2, <2>3
<1>. HIDE DEF born, Forks, Fails, Skips
<1>9. \A j \in WorkerIds : j < next' <=> j = next \/ j < next
  BY <1>1 DEF WorkerIds
<1>10. \A j \in WorkerIds : (j < next' /\ worker_pids'[j] \in Pid) =>
          /\ worker_pids'[j] \notin draining_pids
          /\ proc'[worker_pids'[j]].config = config
  <2>. SUFFICES ASSUME NEW j \in WorkerIds, j < next', worker_pids'[j] \in Pid
                PROVE  /\ worker_pids'[j] \notin draining_pids
                       /\ proc'[worker_pids'[j]].config = config
    OBVIOUS
  <2>1. CASE j = next
    BY <2>1, <1>5, <1>8
  <2>2. CASE j # next
    BY <2>2, <1>1, <1>6, <1>8, <1>9 DEF IInv, New
  <2>. QED
    BY <2>1, <2>2
<1>11. TypeOK'
  BY <1>1, <1>2, <1>8 DEF IInv, TypeOK
<1>12. \A q : q \in Current' <=> q \in Pid /\ \E j \in WorkerIds : worker_pids'[j] = q
  BY DEF Current
<1>13. PidsAreChildren'
  BY <1>1, <1>2, <1>3, <1>5, <1>6, <1>8, <1>12 DEF IInv, PidsAreChildren, Empty
<1>14. TrackedOnce'
  <2>1. \A i, j \in WorkerIds :
           worker_pids'[i] \in Pid /\ worker_pids'[i] = worker_pids'[j] => i = j
    BY <1>6, <1>8 DEF IInv, TrackedOnce
  <2>2. pc' # "reload" => Current' \cap draining_pids' = {}
    BY <1>1, <1>2, <1>10, <1>12, Pids DEF IInv, Empty, WorkerIds
  <2>. QED
    BY <2>1, <2>2 DEF TrackedOnce
<1>15. UntrackedDrains'
  <2>. SUFFICES ASSUME NEW q \in Pid, proc'[q].state \in {"starting", "serving"},
                       ~proc'[q].usr1
                PROVE  q \in Current'
    BY DEF UntrackedDrains
  <2>1. CASE proc[q].state = "unborn"
    BY <2>1, <1>1, <1>8, <1>12
  <2>2. CASE proc[q].state # "unborn"
    <3>1. proc'[q] = proc[q]
      BY <2>2, <1>8
    <3>2. PICK j \in WorkerIds : worker_pids[j] = q
      BY <3>1 DEF IInv, UntrackedDrains, Current
    <3>3. j # next
      BY <3>1, <3>2, <1>1, <1>4 DEF IInv, Told
    <3>. QED
      BY <3>2, <3>3, <1>8, <1>12
  <2>. QED
    BY <2>1, <2>2
<1>16. CurrentConfig'
  BY <1>1, <1>2, <1>10, <1>12 DEF CurrentConfig, WorkerIds
<1>17. Asked' /\ Index' /\ New' /\ Stopped'
  BY <1>1, <1>2, <1>10 DEF IInv, Asked, Index, New, Stopped
<1>18. Empty'
  BY <1>1, <1>2, <1>8 DEF IInv, Empty, WorkerIds
<1>19. Told'
  <2>. SUFFICES ASSUME pc' = "reload", NEW j \in WorkerIds, j >= next',
                       worker_pids'[j] \in Pid,
                       proc'[worker_pids'[j]].state \in {"starting", "serving"}
                PROVE  proc'[worker_pids'[j]].usr1
    BY DEF Told
  <2>1. j # next /\ j >= next /\ pc = "reload"
    BY <1>1, <1>2 DEF WorkerIds
  <2>2. worker_pids'[j] = worker_pids[j] /\ proc'[worker_pids[j]] = proc[worker_pids[j]]
    BY <2>1, <1>6, <1>8
  <2>. QED
    BY <2>1, <2>2 DEF IInv, Told
<1>. QED
  BY <1>8, <1>11, <1>13, <1>14, <1>15, <1>16, <1>17, <1>18, <1>19 DEF IInv

(* A dead child is reaped; a current worker among them leaves its entry to *)
(* a new child, to ForkError or to 0.                                      *)
LEMMA ExitIInv ==
    ASSUME IInv, NEW p \in Pid, handle_worker_exit(p)
    PROVE  IInv'
<1>1. /\ pc = "waitpid" /\ pc' = "loop"
      /\ proc[p].state = "zombie"
      /\ UNCHANGED <<shutdown_requested, reload_requested, config, next, reloads,
                     crashes>>
      /\ draining_pids' \subseteq draining_pids
      /\ p \notin draining_pids'
  BY DEF handle_worker_exit, Zombie, counters
<1>2. /\ worker_pids \in [WorkerIds -> Pid \cup {0, ForkError}]
      /\ \A q \in Pid : proc[q] \in Process
      /\ proc \in [Pid -> Process] /\ draining_pids \subseteq Pid
      /\ config \in 0..MaxReloads
      /\ last_pid \in 0..MaxPid /\ last_pid \in Nat
      /\ fork_failures \in 0..MaxForkFailures
  BY DEF IInv, TypeOK
<1>3. /\ \A q \in draining_pids : proc[q].state \notin {"unborn", "reaped"}
      /\ \A j \in WorkerIds : worker_pids[j] \in Pid =>
            /\ proc[worker_pids[j]].state \notin {"unborn", "reaped"}
            /\ proc[worker_pids[j]].config = config
            /\ worker_pids[j] \notin draining_pids
  BY <1>1 DEF IInv, PidsAreChildren, CurrentConfig, TrackedOnce, Current
<1>4. /\ Reaped(p) \in [Pid -> Process]
      /\ Reaped(p)[p].state = "reaped"
      /\ \A q \in Pid : q # p => Reaped(p)[q] = proc[q]
  BY <1>2 DEF Reaped, Process
<1>. DEFINE born == last_pid + 1
            Kept == /\ \A j \in WorkerIds : worker_pids[j] # p
                    /\ proc' = Reaped(p)
                    /\ UNCHANGED <<worker_pids, last_pid, fork_failures>>
            Forks(i) == /\ last_pid < MaxPid
                        /\ last_pid' = born
                        /\ worker_pids' = [worker_pids EXCEPT ![i] = born]
                        /\ proc' = [Reaped(p) EXCEPT ![born] =
                             [state |-> "starting", usr1 |-> FALSE, config |-> config]]
                        /\ fork_failures' = fork_failures
            Fails(i) == /\ fork_failures' \in 0..MaxForkFailures
                        /\ \E none \in {0, ForkError} :
                              worker_pids' = [worker_pids EXCEPT ![i] = none]
                        /\ proc' = Reaped(p)
                        /\ last_pid' = last_pid
<1>5. Kept \/ \E i \in WorkerIds : worker_pids[i] = p /\ (Forks(i) \/ Fails(i))
  <2>1. CASE p \in draining_pids
    BY <2>1, <1>3 DEF handle_worker_exit
  <2>2. CASE p \notin draining_pids \cup Current
    BY <2>2 DEF handle_worker_exit, Current
  <2>3. ASSUME NEW i \in WorkerIds, worker_pids[i] = p,
               fork_worker(i, config, Reaped(p))
        PROVE  Forks(i) \/ Fails(i)
    <3>1. CASE worker_pids' = [worker_pids EXCEPT ![i] = ForkError]
               /\ fork_failures < MaxForkFailures
               /\ fork_failures' = fork_failures + 1
               /\ proc' = Reaped(p) /\ UNCHANGED last_pid
      <4>1. fork_failures' \in 0..MaxForkFailures
        BY <3>1, <1>2, MasterAssumption
      <4>. QED
        BY <3>1, <4>1
    <3>. QED
      BY <2>3, <3>1, ZenonT(30) DEF fork_worker
  <2>4. ASSUME NEW i \in WorkerIds, worker_pids[i] = p,
               worker_pids' = [worker_pids EXCEPT ![i] = 0],
               proc' = Reaped(p), UNCHANGED <<last_pid, fork_failures>>
        PROVE  Fails(i)
    BY <2>4, <1>2
  <2>5. CASE p \in Current /\ p \notin draining_pids
    <3>. HIDE DEF Forks, Fails, Kept
    <3>. QED
      BY <2>3, <2>4, <2>5 DEF handle_worker_exit
  <2>. QED
    BY <2>1, <2>2, <2>5, ZenonT(30)
(* What holds in each case. *)
<1>. DEFINE Effect ==
              /\ worker_pids' \in [WorkerIds -> Pid \cup {0, ForkError}]
              /\ proc' \in [Pid -> Process]
              /\ last_pid' \in 0..MaxPid
              /\ fork_failures' \in 0..MaxForkFailures
              /\ Born'
              /\ proc'[p].state = "reaped"
              /\ \A q \in Pid : proc[q].state # "unborn" /\ q # p => proc'[q] = proc[q]
              /\ \A j \in WorkerIds :
                    \/ worker_pids'[j] = worker_pids[j] /\ worker_pids[j] # p
                    \/ worker_pids'[j] \notin Pid /\ worker_pids[j] = p
                    \/ /\ worker_pids[j] = p
                       /\ worker_pids'[j] \in Pid
                       /\ proc[worker_pids'[j]].state = "unborn"
                       /\ proc'[worker_pids'[j]].state = "starting"
                       /\ proc'[worker_pids'[j]].config = config
              /\ \A q \in Pid : proc[q].state = "unborn" /\ proc'[q] # proc[q] =>
                    \E j \in WorkerIds : worker_pids'[j] = q
<1>6. Effect
  <2>1. CASE Kept
    BY <2>1, <1>1, <1>2, <1>4 DEF IInv, Born
  <2>2. ASSUME NEW i \in WorkerIds, worker_pids[i] = p, Fails(i)
        PROVE  Effect
    <3>1. PICK none \in {0, ForkError} : worker_pids' = [worker_pids EXCEPT ![i] = none]
      BY <2>2, ZenonT(30)
    <3>2. \A j \in WorkerIds : worker_pids'[j] = IF j = i THEN none ELSE worker_pids[j]
      BY <3>1, <1>2
    <3>3. \A j \in WorkerIds : j # i => worker_pids[j] # p
      BY <2>2 DEF IInv, TrackedOnce
    <3>4. worker_pids' \in [WorkerIds -> Pid \cup {0, ForkError}]
      BY <3>1, <1>2
    <3>5. Born'
      BY <2>2, <1>1, <1>2, <1>4 DEF IInv, Born
    <3>. QED
      BY <2>2, <3>2, <3>3, <3>4, <3>5, <1>1, <1>2, <1>4, Pids
  <2>3. ASSUME NEW i \in WorkerIds, worker_pids[i] = p, Forks(i)
        PROVE  Effect
    <3>1. /\ born \in Pid /\ born \in Nat
          /\ proc[born].state = "unborn"
          /\ born \in 0..MaxPid
      BY <2>3, <1>2, Pids DEF IInv, Born
    <3>2. /\ worker_pids' \in [WorkerIds -> Pid \cup {0, ForkError}]
          /\ worker_pids'[i] = born
          /\ \A j \in WorkerIds : j # i => worker_pids'[j] = worker_pids[j]
      BY <2>3, <3>1, <1>2
    <3>3. [state |-> "starting", usr1 |-> FALSE, config |-> config] \in Process
      BY <1>2 DEF Process, Alive
    <3>4. /\ proc' \in [Pid -> Process]
          /\ proc'[born] = [state |-> "starting", usr1 |-> FALSE, config |-> config]
          /\ \A q \in Pid : q # born => proc'[q] = Reaped(p)[q]
      BY <2>3, <3>1, <3>3, <1>4
    <3>5. /\ proc'[born].state = "starting" /\ proc'[born].config = config
          /\ born # p
      BY <3>1, <3>4, <1>1
    <3>6. \A j \in WorkerIds : j # i => worker_pids[j] # p
      BY <2>3 DEF IInv, TrackedOnce
    <3>7. Born'
      BY <2>3, <3>1, <3>4, <3>5, <1>1, <1>2, <1>4, Pids DEF IInv, Born
    <3>8. last_pid' \in 0..MaxPid /\ fork_failures' \in 0..MaxForkFailures
      BY <2>3, <3>1, <1>2
    <3>. HIDE DEF born
    <3>. QED
      BY <2>3, <3>1, <3>2, <3>4, <3>5, <3>6, <3>7, <3>8, <1>1, <1>4, ZenonT(30)
  <2>. HIDE DEF Kept, Forks, Fails
  <2>. QED
    BY <1>5, <2>1, <2>2, <2>3, ZenonT(30)
<1>. HIDE DEF born, Kept, Forks, Fails
<1>7. TypeOK'
  BY <1>1, <1>2, <1>6 DEF IInv, TypeOK
<1>8. \A q : q \in Current' <=> q \in Pid /\ \E j \in WorkerIds : worker_pids'[j] = q
  BY DEF Current
<1>9. PidsAreChildren'
  BY <1>1, <1>2, <1>3, <1>6, <1>8 DEF PidsAreChildren
<1>10. TrackedOnce'
  <2>1. \A i, j \in WorkerIds :
           worker_pids'[i] \in Pid /\ worker_pids'[i] = worker_pids'[j] => i = j
    BY <1>3, <1>6 DEF IInv, TrackedOnce
  <2>2. Current' \cap draining_pids' = {}
    BY <1>1, <1>2, <1>3, <1>6, <1>8
  <2>. QED
    BY <2>1, <2>2 DEF TrackedOnce
<1>11. UntrackedDrains'
  <2>. SUFFICES ASSUME NEW q \in Pid, proc'[q].state \in {"starting", "serving"},
                       ~proc'[q].usr1
                PROVE  q \in Current'
    BY DEF UntrackedDrains
  <2>1. CASE proc[q].state = "unborn"
    BY <2>1, <1>6, <1>8
  <2>2. CASE proc[q].state # "unborn"
    <3>1. proc'[q] = proc[q] /\ q # p
      BY <2>2, <1>6, ZenonT(30)
    <3>2. PICK j \in WorkerIds : worker_pids[j] = q
      BY <3>1 DEF IInv, UntrackedDrains, Current
    <3>. QED
      BY <3>1, <3>2, <1>6, <1>8, ZenonT(30)
  <2>. QED
    BY <2>1, <2>2
<1>12. CurrentConfig'
  BY <1>1, <1>3, <1>6, <1>8 DEF CurrentConfig
<1>13. Asked' /\ Index' /\ Empty' /\ New' /\ Told' /\ Stopped'
  BY <1>1 DEF IInv, Asked, Index, Empty, New, Told, Stopped
<1>. QED
  BY <1>6, <1>7, <1>9, <1>10, <1>11, <1>12, <1>13 DEF IInv

(* wait_for_workers reaps one worker, or after 30 s kills and reaps those  *)
(* that remain.                                                            *)
LEMMA WaitIInv ==
    ASSUME IInv, wait_deadline \/ \E p \in Pid : wait_reap(p)
    PROVE  IInv'
<1>1. /\ pc = "wait_for_workers" /\ pc' \in {"wait_for_workers", "stopped"}
      /\ UNCHANGED <<draining_pids, shutdown_requested, reload_requested, config,
                     next, last_pid, reloads, crashes, fork_failures>>
  BY DEF wait_deadline, wait_reap, counters
<1>2. /\ worker_pids \in [WorkerIds -> Pid \cup {0, ForkError}]
      /\ \A q \in Pid : proc[q] \in Process
      /\ proc \in [Pid -> Process]
  BY DEF IInv, TypeOK
<1>3. \A q : q \in Current <=> q \in Pid /\ \E j \in WorkerIds : worker_pids[j] = q
  BY DEF Current
<1>4. \A q : q \in Current' <=> q \in Pid /\ \E j \in WorkerIds : worker_pids'[j] = q
  BY DEF Current
<1>5. \A q \in Current : proc[q].state \notin {"unborn", "reaped"}
  BY DEF IInv, PidsAreChildren
<1>. DEFINE Effect ==
              /\ worker_pids' \in [WorkerIds -> Pid \cup {0, ForkError}]
              /\ proc' \in [Pid -> Process]
              /\ \A j \in WorkerIds : worker_pids'[j] \in Pid =>
                    /\ worker_pids'[j] = worker_pids[j]
                    /\ proc'[worker_pids'[j]] = proc[worker_pids'[j]]
              /\ \A q \in Pid : proc'[q] # proc[q] =>
                    proc'[q].state = "reaped" /\ proc[q].state # "unborn"
              /\ \A q \in Pid : q \in Current /\ q \notin Current' => proc'[q].state = "reaped"
              /\ pc' = "stopped" => Current' = {}
<1>6. Effect
  <2>1. CASE wait_deadline
    <3>1. \A q \in Pid : proc'[q] = IF q \in Current
                                    THEN [proc[q] EXCEPT !.state = "reaped"] ELSE proc[q]
      BY <2>1 DEF wait_deadline
    <3>2. \A q \in Pid : /\ proc'[q] \in Process
                         /\ q \in Current => proc'[q].state = "reaped"
      BY <3>1, <1>2, ZenonT(30) DEF Process
    <3>3. proc' \in [Pid -> Process]
      BY <3>2, <2>1 DEF wait_deadline
    <3>4. /\ \A j \in WorkerIds : worker_pids'[j] \in {0, ForkError}
          /\ worker_pids' \in [WorkerIds -> Pid \cup {0, ForkError}]
      BY <2>1, <1>2, Pids DEF wait_deadline
    <3>5. Current' = {}
      BY <3>4, <1>4, Pids
    <3>. QED
      BY <3>1, <3>2, <3>3, <3>4, <3>5, <1>5, Pids
  <2>2. ASSUME NEW p \in Pid, wait_reap(p)
        PROVE  Effect
    <3>1. /\ proc' = Reaped(p) /\ proc[p].state = "zombie"
          /\ pc' = "wait_for_workers"
      BY <2>2 DEF wait_reap, Zombie
    <3>2. /\ proc' \in [Pid -> Process]
          /\ proc'[p].state = "reaped"
          /\ \A q \in Pid : q # p => proc'[q] = proc[q]
      BY <3>1, <1>2 DEF Reaped, Process
    <3>3. /\ \A j \in WorkerIds : worker_pids'[j] =
                IF worker_pids[j] = p THEN 0 ELSE worker_pids[j]
          /\ worker_pids' \in [WorkerIds -> Pid \cup {0, ForkError}]
      BY <2>2, <1>2 DEF wait_reap
    <3>. QED
      BY <3>1, <3>2, <3>3, <1>3, <1>4, Pids
  <2>. QED
    BY <2>1, <2>2
<1>7. TypeOK'
  BY <1>1, <1>6 DEF IInv, TypeOK
<1>8. PidsAreChildren' /\ TrackedOnce' /\ CurrentConfig'
  BY <1>1, <1>3, <1>4, <1>5, <1>6 DEF IInv, PidsAreChildren, TrackedOnce,
     CurrentConfig
<1>9. UntrackedDrains'
  BY <1>6, ZenonT(30) DEF IInv, UntrackedDrains
<1>10. Born'
  BY <1>1, <1>6, ZenonT(30) DEF IInv, Born
<1>11. Asked' /\ Index' /\ Empty' /\ New' /\ Told' /\ Stopped'
  BY <1>1, <1>6, ZenonT(30) DEF IInv, Asked, Index, Empty, New, Told, Stopped
<1>. QED
  BY <1>7, <1>8, <1>9, <1>10, <1>11 DEF IInv
-----------------------------------------------------------------------------
(* Every step of the master, its handlers and its workers keeps the        *)
(* inductive invariant.                                                    *)
LEMMA NextIInv == IInv /\ [Next]_vars => IInv'
<1>. SUFFICES ASSUME IInv, [Next]_vars PROVE IInv'
  OBVIOUS
<1>1. CASE MasterStep
  BY <1>1, QuietIInv, TellIInv, ForkLoopIInv, ExitIInv, WaitIInv DEF MasterStep
<1>2. CASE \E p \in Pid : WorkerStep(p)
  BY <1>2, WorkerStepIInv
<1>3. CASE sigterm_handler \/ sighup_handler \/ Done \/ UNCHANGED vars
  BY <1>3, QuietIInv DEF Done
<1>. QED
  BY <1>1, <1>2, <1>3 DEF Next

(* The master's inductive invariant holds however starts, crashes, failed  *)
(* forks, SIGHUPs and SIGTERMs interleave, for any number of workers.      *)
THEOREM MasterInvariant == Spec => []IInv
<1>. QED
  BY InitIInv, NextIInv, PTL DEF Spec

(* master.c never signals or waits for a pid that is not a child of its    *)
(* own that it has not reaped yet.                                         *)
THEOREM PidsAreChildrenAlways == Spec => []PidsAreChildren
<1>1. IInv => PidsAreChildren
  BY DEF IInv
<1>. QED
  BY <1>1, MasterInvariant, PTL

(* handle_worker_exit finds at most one entry for a pid, so a crash is     *)
(* never taken for the end of a drain.                                     *)
THEOREM TrackedOnceAlways == Spec => []TrackedOnce
<1>1. IInv => TrackedOnce
  BY DEF IInv
<1>. QED
  BY <1>1, MasterInvariant, PTL

(* A worker whose pid master_reload or handle_worker_exit has overwritten  *)
(* was told to drain, or has ended.                                        *)
THEOREM UntrackedDrainsAlways == Spec => []UntrackedDrains
<1>1. IInv => UntrackedDrains
  BY DEF IInv
<1>. QED
  BY <1>1, MasterInvariant, PTL

(* After master_reload every current worker, the replacements made by      *)
(* handle_worker_exit included, has the configuration of the last reload.  *)
THEOREM CurrentConfigAlways == Spec => []CurrentConfig
<1>1. IInv => CurrentConfig
  BY DEF IInv
<1>. QED
  BY <1>1, MasterInvariant, PTL

(* When master_run returns, every worker that serves has been told to      *)
(* drain: wait_for_workers has emptied worker_pids by then.                *)
THEOREM NoneServesAfterStopAlways == Spec => []NoneServesAfterStop
<1>1. IInv => NoneServesAfterStop
  BY DEF IInv, UntrackedDrains, Stopped, NoneServesAfterStop
<1>. QED
  BY <1>1, MasterInvariant, PTL
=============================================================================
