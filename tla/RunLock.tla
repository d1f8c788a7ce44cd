------------------------------- MODULE RunLock ------------------------------
(***************************************************************************)
(* The lock file that keeps two collector runs out of one output directory *)
(* (core/run-lock.ts, taken and released by core/orchestrator.ts).  Runs   *)
(* are OS processes, so each file-system call is a step of its own: exists,*)
(* read, the liveness probe of the owner, and a write that first truncates *)
(* the file and then fills it.                                             *)
(***************************************************************************)
CONSTANTS
  Procs,      \* collector runs, each with its pid and run id
  Host        \* the host a run is on; the directory may be shared

VARIABLES
  pace,  \* "calm": no run starts while another one acquires or outlives the TTL
  pc,    \* where each run is
  seen,  \* the owner it read from the lock file
  lock,  \* the lock file: Absent, Torn (not JSON) or the owner it names
  alive, \* the pids that answer a probe on their host
  old    \* the owners whose acquired_at is more than a TTL ago

vars == <<pace, pc, seen, lock, alive, old>>

Absent == "absent"
Torn == "torn"
ASSUME FileAssumption == Absent \notin Procs /\ Torn \notin Procs

(* "refused" is RunLockHeldError; "own" and "unlink" are release().  An     *)
(* "orphan" writes to a file that was removed after it had opened it.       *)
Acquiring == {"read", "judge", "claim", "write", "orphan"}
Releasing == {"own", "unlink"}
Places == {"idle", "run", "refused", "done", "dead"} \cup Acquiring \cup Releasing

LockTypeOK == /\ pace \in {"calm", "any"}
              /\ pc \in [Procs -> Places]
              /\ seen \in [Procs -> Procs \cup {Absent}]
              /\ lock \in Procs \cup {Absent, Torn}
              /\ alive \subseteq Procs
              /\ old \subseteq Procs

(* How the runs are scheduled is not the lock's doing: either way throughout. *)
Init == /\ pace \in {"calm", "any"}
        /\ pc = [p \in Procs |-> "idle"]
        /\ seen = [p \in Procs |-> Absent]
        /\ lock = Absent
        /\ alive = Procs
        /\ old = {}

Calm == pace = "calm"

Goto(p, place) == pc' = [pc EXCEPT ![p] = place]

(* acquireRunLock(): existsSync. *)
Look(p) == /\ pc[p] = "idle"
           /\ Calm => \A q \in Procs : pc[q] \notin Acquiring
           /\ Goto(p, IF lock = Absent THEN "claim" ELSE "read")
           /\ UNCHANGED <<pace, seen, lock, alive, old>>

(* readFileSync and JSON.parse: a file that is gone or torn is no owner.  *)
Read(p) == /\ pc[p] = "read"
           /\ IF lock \in Procs
                THEN seen' = [seen EXCEPT ![p] = lock] /\ Goto(p, "judge")
                ELSE UNCHANGED seen /\ Goto(p, "claim")
           /\ UNCHANGED <<pace, lock, alive, old>>

(* pidAlive(): a pid of another host is taken to be alive. *)
PidAlive_LocalOnly(p, q) == Host[q] = Host[p] /\ q \in alive
PidAlive(p, q) == Host[q] # Host[p] \/ q \in alive

Stale_NoTtl(p, q) == ~PidAlive(p, q)
Stale(p, q) == q \in old \/ ~PidAlive(p, q)

Judge(p) == /\ pc[p] = "judge"
            /\ Goto(p, IF Stale(p, seen[p]) THEN "claim" ELSE "refused")
            /\ seen' = [seen EXCEPT ![p] = Absent]
            /\ UNCHANGED <<pace, lock, alive, old>>

(* The orchestrator exits; a later run tries again. *)
Retry(p) == /\ pc[p] = "refused"
            /\ Goto(p, "idle")
            /\ UNCHANGED <<pace, seen, lock, alive, old>>

(* writeFileSync opens with truncation, then writes at offset 0.  Over      *)
(* another run's text of another length the result is no JSON.              *)
Truncate(p) == /\ pc[p] = "claim"
               /\ lock' = Torn
               /\ Goto(p, "write")
               /\ UNCHANGED <<pace, seen, alive, old>>

Write(p) == /\ \/ pc[p] = "write" /\ lock' = p
               \/ pc[p] = "write" /\ lock \in Procs /\ lock' = Torn
               \/ pc[p] = "orphan" /\ UNCHANGED lock
            /\ Goto(p, "run")
            /\ UNCHANGED <<pace, seen, alive, old>>

(* The process exits: the handler of 'exit' calls release(). *)
Exit(p) == /\ pc[p] = "run"
           /\ IF lock = Absent
                THEN Goto(p, "done") /\ alive' = alive \ {p}
                ELSE Goto(p, "own") /\ UNCHANGED alive
           /\ UNCHANGED <<pace, seen, lock, old>>

(* Only a lock that names this run and pid is removed. *)
Ours(p) == lock = p
Own(p) == /\ pc[p] = "own"
          /\ IF Ours(p)
               THEN Goto(p, "unlink") /\ UNCHANGED alive
               ELSE Goto(p, "done") /\ alive' = alive \ {p}
          /\ UNCHANGED <<pace, seen, lock, old>>

Unlink(p) == /\ pc[p] = "unlink"
             /\ lock' = Absent
             /\ pc' = [q \in Procs |-> CASE q = p -> "done"
                                         [] pc[q] = "write" -> "orphan"
                                         [] OTHER -> pc[q]]
             /\ alive' = alive \ {p}
             /\ UNCHANGED <<pace, seen, old>>

(* A signal ends the process without the 'exit' event. *)
Kill(p) == /\ pc[p] \in {"run"} \cup Acquiring \cup Releasing
           /\ Goto(p, "dead")
           /\ alive' = alive \ {p}
           /\ UNCHANGED <<pace, seen, lock, old>>

(* The system gives a dead run's pid to another program. *)
ReusePid(p) == /\ pc[p] = "dead" /\ p \notin alive
               /\ alive' = alive \cup {p}
               /\ UNCHANGED <<pace, pc, seen, lock, old>>

Age(p) == /\ p \notin old
          /\ pc[p] \in {"dead"} \cup (IF Calm THEN {} ELSE {"write", "orphan", "run"} \cup Releasing)
          /\ old' = old \cup {p}
          /\ UNCHANGED <<pace, pc, seen, lock, alive>>

Acquire(p) == Look(p) \/ Read(p) \/ Judge(p) \/ Truncate(p) \/ Write(p)
Release(p) == Exit(p) \/ Own(p) \/ Unlink(p)

Next == \E p \in Procs : Acquire(p) \/ Retry(p) \/ Release(p) \/ Kill(p) \/ ReusePid(p) \/ Age(p)

Spec == Init /\ [][Next]_vars

(* An acquiring process is scheduled, time passes, and a refused run is     *)
(* tried again.  No run has to end and nothing has to be killed.            *)
FairSpec == Spec /\ \A p \in Procs : WF_vars(Acquire(p)) /\ WF_vars(Retry(p)) /\ WF_vars(Age(p))

-----------------------------------------------------------------------------
(* Two runs never work in the directory at the same time, unless they looked *)
(* at the file at the same time or one outlives the TTL. *)
Working(p) == pc[p] \in {"run"} \cup Releasing
MutualExclusion == Calm => \A p, q \in Procs : Working(p) /\ Working(q) => p = q

(* A run that works holds a lock file that names it: a third party that     *)
(* looks at the directory finds the owner, with the same two exceptions.    *)
OwnerIsNamed == Calm => \A p \in Procs : Working(p) => lock = p

(* No lock is stranded: a run that keeps being retried gets to work, after  *)
(* kills, with remote owners, torn files and pids given to other programs.  *)
(* Among runs that never outlive the TTL one at least gets to work.         *)
NoStrandedLock ==
  \A p \in Procs : pc[p] = "idle" ~> \/ pc[p] \in {"run", "dead"}
                                     \/ Calm /\ \E q \in Procs : Working(q)
=============================================================================
