------------------------------ MODULE NodeRun ------------------------------
(* One node's agent process, run after run: boot.rs brings the guest up and   *)
(* serves it, metered_run.rs bills it until it is broke, dead or out of time, *)
(* and run_agent.rs wraps both into a bootstrap (born, run, store the         *)
(* checkpoint, died) or a resume (restore, confirm, died).  firecracker.rs    *)
(* holds the VMM process the node starts and halts.                           *)
(*                                                                            *)
(* The driver awaits at every step.  Beside it run the tasks boot spawned (the*)
(* serve loop, a connection task, the settlement poller), each holding a      *)
(* handle of the exclusively locked treasury; the guest, which may die; and   *)
(* the host, which may kill the process but leaves the VMM alone.  A run may  *)
(* follow another in the same process.                                        *)
EXTENDS Integers, FiniteSets, FiniteSetsExt

CONSTANTS
  MaxRuns,    \* bound: runs of the agent
  Seed,       \* initial_sats
  Floor,      \* the meter's halt floor: brain.max_cost_sats, 0 turns it off
  MaxSats,    \* bound: the balance
  MaxWallet,  \* bound: spends and mints the wallet sees
  MaxCkpt     \* bound: checkpoints the guest submits

ASSUME NodeRunAssumption ==
  /\ MaxRuns \in Nat \ {0} /\ Seed \in 0 .. MaxSats /\ Floor \in Nat /\ MaxSats \in Nat
  /\ MaxWallet \in Nat /\ MaxCkpt \in Nat

Runs == 1 .. MaxRuns

VARIABLES
  at,         \* where the driver stands
  mode,       \* bootstrap or resume
  run,        \* the run
  vmm,        \* [Runs -> the VMM process of that jail]
  holders,    \* who in the process holds a treasury handle
  aborted,    \* tasks told to stop that still hold theirs
  inflight,   \* the guest's connection has a call that spends
  sats,       \* the treasury balance
  wallet,     \* spends and mints the wallet has seen
  backup,     \* the state of the wallet the last published snapshot shows
  estate,     \* the state of the wallet the awaited flush is publishing
  flushed,    \* what became of that flush
  fallback,   \* the detached flush of a dropped guard is pending
  latest,     \* the checkpoint in the gateway's handle, 0 for none
  taken,      \* the checkpoint the driver read
  disk,       \* whole checkpoints in the store
  torn,       \* checkpoint files a write left incomplete
  restored,   \* the checkpoint the running resume was given
  died,       \* the run whose death was announced last
  atHalt      \* wallet and checkpoint when the driver halted the VM

books == <<sats, wallet, backup>>
flush == <<estate, flushed>>
store == <<latest, taken, disk, torn, restored>>
tasks == <<holders, aborted, inflight>>
runVars == <<at, mode, run, vmm, holders, aborted, inflight, sats, wallet, backup, estate,
          flushed, fallback, latest, taken, disk, torn, restored, died, atHalt>>

RunInit ==
  /\ at = "off" /\ mode = "bootstrap" /\ run = 0 /\ vmm = [r \in Runs |-> "none"]
  /\ holders = {} /\ aborted = {} /\ inflight = FALSE
  /\ sats = Seed /\ wallet = 0 /\ backup = 0 /\ estate = 0 /\ flushed = "no" /\ fallback = FALSE
  /\ latest = 0 /\ taken = 0 /\ disk = {} /\ torn = {} /\ restored = 0
  /\ died = 0 /\ atHalt = [wallet |-> 0, ckpt |-> 0]

Returned == at \in {"off", "returned"}
Alive == run \in Runs /\ vmm[run] = "running"

----------------------------------------------------------------------------
(* The sandbox: the VMM of a jail.                                            *)

\* halt pauses and kills: every process of the jail's cgroup is gone after it.
Halted == vmm' = [vmm EXCEPT ![run] = "gone"]

\* The guest crashes or something outside kills the VMM.
GuestDies ==
  /\ \E r \in Runs : vmm[r] = "running" /\ vmm' = [vmm EXCEPT ![r] = "exited"]
  /\ UNCHANGED <<at, mode, run, tasks, books, flush, fallback, store, died, atHalt>>

\* The cgroup probe: no live process, and the read did not fail for another
\* reason than a missing file.
\* mutation: the VM's cached state is asked, which still says running.
is_alive_Latched == run \in Runs /\ vmm[run] \in {"running", "exited"}
is_alive == run \in Runs /\ vmm[run] = "running"

----------------------------------------------------------------------------
(* Start: run_bootstrap announces a birth, run_resume needs a checkpoint.     *)
(* The jail is named after the process: one that left its VMM behind is not   *)
(* followed by another run before the process has ended.                      *)

NewRun(m) ==
  /\ Returned /\ run < MaxRuns /\ ~(at = "returned" /\ Alive)
  /\ run' = run + 1 /\ mode' = m
  /\ latest' = 0 /\ taken' = 0 /\ flushed' = "no" /\ estate' = 0
  /\ atHalt' = [wallet |-> 0, ckpt |-> 0]

Bootstrap ==
  /\ NewRun("bootstrap")
  /\ at' = "rail" /\ restored' = 0
  /\ UNCHANGED <<vmm, tasks, books, fallback, disk, torn, died>>

\* The newest file by modification time; its name must match its content. Two puts
\* lie far enough apart for their files to differ in time: of equal ones the code
\* would take the first of the directory.
\* mutation: the content is not compared with the name.
Loadable_Unchecked(c) == c \in disk \cup torn
Loadable(c) == c \in disk
Newest(files) == IF files = {} THEN 0 ELSE Max(files)

Resume ==
  /\ NewRun("resume")
  /\ LET c == Newest(disk \cup torn) IN
       IF Loadable(c) THEN at' = "rail" /\ restored' = c
       ELSE at' = "returned" /\ restored' = 0
  /\ UNCHANGED <<vmm, tasks, books, fallback, disk, torn, died>>

----------------------------------------------------------------------------
(* Boot.                                                                      *)

\* An error before the VM starts: every handle opened so far is dropped.
Refused ==
  /\ at \in {"rail", "open", "boot"} /\ at' = "returned"
  /\ holders' = holders \ {"main"}
  /\ UNCHANGED <<mode, run, vmm, aborted, inflight, books, flush, fallback, store, died, atHalt>>

\* The treasury opens once nobody holds it, for as long as the opener retries.
Opens == holders = {}

\* The prepaid-key brain sets the balance to what the provider reports and
\* closes the store again; a zero is not believed, other brains skip this.
Reconcile ==
  /\ at = "rail" /\ at' = "open"
  /\ \/ Opens /\ sats' \in 1 .. MaxSats
     \/ UNCHANGED sats
  /\ UNCHANGED <<mode, run, vmm, tasks, wallet, backup, flush, fallback, store, died, atHalt>>

OpenStore ==
  /\ at = "open" /\ Opens
  /\ at' = "boot" /\ holders' = {"main"}
  /\ UNCHANGED <<mode, run, vmm, aborted, inflight, books, flush, fallback, store, died, atHalt>>

\* The VMM starts, the serve task and, for an agent that earns, the poller are
\* spawned; no await in between.
Boot ==
  /\ at = "boot" /\ at' = "dm"
  /\ vmm' = [vmm EXCEPT ![run] = "running"]
  /\ holders' \in {{"main", "serve"}, {"main", "serve", "poller"}}
  /\ UNCHANGED <<mode, run, aborted, inflight, books, flush, fallback, store, died, atHalt>>

\* The launch fails after the VMM may have come up: nothing kills it then.
BootFails ==
  /\ at = "boot" /\ at' = "returned"
  /\ vmm' \in {vmm, [vmm EXCEPT ![run] = "running"]}
  /\ holders' = {}
  /\ UNCHANGED <<mode, run, aborted, inflight, books, flush, fallback, store, died, atHalt>>

\* The DM identity or its quorum does not load: boot returns, the instance is
\* dropped unhalted and no ServeGuard exists to stop the tasks.
DmFails ==
  /\ at = "dm" /\ at' = "returned"
  /\ holders' = holders \ {"main"}
  /\ UNCHANGED <<mode, run, vmm, aborted, inflight, books, flush, fallback, store, died, atHalt>>

\* The ServeGuard is made and the hello awaited; a missing one only warns.
Hello ==
  /\ at = "dm"
  /\ at' = IF mode = "bootstrap" THEN "attach" ELSE "confirm"
  /\ UNCHANGED <<mode, run, vmm, tasks, books, flush, fallback, store, died, atHalt>>

----------------------------------------------------------------------------
(* The guest and the tasks beside the driver.                                 *)

Connect ==
  /\ Alive /\ "serve" \in holders \ aborted /\ "conn" \notin holders
  /\ holders' = holders \cup {"conn"}
  /\ UNCHANGED <<at, mode, run, vmm, aborted, inflight, books, flush, fallback, store, died, atHalt>>

Call ==
  /\ Alive /\ "conn" \in holders /\ ~inflight /\ inflight' = TRUE
  /\ UNCHANGED <<at, mode, run, vmm, holders, aborted, books, flush, fallback, store, died, atHalt>>

\* The call's spend lands, or it is denied; its caller may be gone by then.
CallEnds ==
  /\ inflight /\ inflight' = FALSE
  /\ \/ sats > 0 /\ wallet < MaxWallet /\ sats' = sats - 1 /\ wallet' = wallet + 1
     \/ UNCHANGED <<sats, wallet>>
  /\ UNCHANGED <<at, mode, run, vmm, holders, aborted, backup, flush, fallback, store, died, atHalt>>

\* A checkpoint of new content replaces the one in the handle.
SubmitCheckpoint ==
  /\ "conn" \in holders
  /\ LET c == Max({0, latest} \cup disk \cup torn) + 1 IN c <= MaxCkpt /\ latest' = c
  /\ UNCHANGED <<at, mode, run, vmm, tasks, books, flush, fallback, taken, disk, torn, restored, died, atHalt>>

\* The connection task notices that its peer is gone; a pending call is
\* cancelled with it.
Hangup ==
  /\ "conn" \in holders /\ ~Alive
  /\ holders' = holders \ {"conn"} /\ inflight' = FALSE
  /\ UNCHANGED <<at, mode, run, vmm, aborted, books, flush, fallback, store, died, atHalt>>

\* The poller finds a paid charge: it mints and credits.
PollerMints ==
  /\ "poller" \in holders /\ wallet < MaxWallet /\ sats < MaxSats
  /\ wallet' = wallet + 1 /\ sats' = sats + 1
  /\ UNCHANGED <<at, mode, run, vmm, tasks, backup, flush, fallback, store, died, atHalt>>

\* An aborted task ends at its next await and drops its handle.
TaskEnds ==
  /\ \E t \in aborted : holders' = holders \ {t} /\ aborted' = aborted \ {t}
  /\ UNCHANGED <<at, mode, run, vmm, inflight, books, flush, fallback, store, died, atHalt>>

\* The flusher's own rhythm, while the tasks that mutate the wallet live.
Backup ==
  /\ {"serve", "poller"} \cap holders # {} /\ backup' = wallet
  /\ UNCHANGED <<at, mode, run, vmm, tasks, sats, wallet, flush, fallback, store, died, atHalt>>

\* The flush a dropped guard leaves behind, detached from the driver.
FallbackFlush ==
  /\ fallback /\ fallback' = FALSE /\ backup' \in {backup, wallet}
  /\ UNCHANGED <<at, mode, run, vmm, tasks, sats, wallet, flush, store, died, atHalt>>

----------------------------------------------------------------------------
(* The metered run.                                                           *)

Attach ==
  /\ at = "attach" /\ at' \in {"ticking", "failing"}
  /\ UNCHANGED <<mode, run, vmm, tasks, books, flush, fallback, store, died, atHalt>>

floor_halt_reached(remaining) == Floor > 0 /\ remaining < Floor

\* One tick over a live guest, or one whose probe only failed to read: a burn
\* the balance does not cover, or a balance below the floor, ends the run.
MeterTick ==
  /\ at = "ticking"
  /\ \E burn \in 0 .. 1 :
       IF burn > sats THEN at' = "halting" /\ UNCHANGED sats
       ELSE /\ sats' = sats - burn
            /\ at' = IF floor_halt_reached(sats - burn) THEN "halting" ELSE at
  /\ UNCHANGED <<mode, run, vmm, tasks, wallet, backup, flush, fallback, store, died, atHalt>>

\* The guest is gone, or the run's deadline has passed.
Stops(why) ==
  /\ at = "ticking" /\ why /\ at' = "halting"
  /\ UNCHANGED <<mode, run, vmm, tasks, books, flush, fallback, store, died, atHalt>>
TickSeesDeath == Stops(~is_alive)
Deadline == Stops(TRUE)

\* A sample or a debit fails.
TickFails ==
  /\ at = "ticking" /\ at' = "failing"
  /\ UNCHANGED <<mode, run, vmm, tasks, books, flush, fallback, store, died, atHalt>>

\* The driver's return drops its treasury, and the guard its two tasks: they
\* are aborted, not joined, and the fallback flush fires.
GuardDropped ==
  /\ holders' = holders \ {"main"} /\ fallback' = TRUE
  /\ aborted' = aborted \cup ({"serve", "poller"} \cap holders)

\* An error of the metered run halts the VM and skips the awaited flush.
HaltOnError ==
  /\ at = "failing" /\ at' = "returned"
  /\ Halted /\ GuardDropped
  /\ UNCHANGED <<mode, run, inflight, books, flush, store, died, atHalt>>

NotedAtHalt == atHalt' = [wallet |-> wallet, ckpt |-> latest]

HaltVm ==
  /\ at = "halting" /\ at' = "flush"
  /\ Halted /\ NotedAtHalt
  /\ UNCHANGED <<mode, run, tasks, books, flush, fallback, store, died>>

\* flush_estate, awaited: the snapshot is taken and then published.
\* mutation: the snapshot is taken while the guest still runs.
FlushEstate_BeforeHalt ==
  /\ at \in {"halting", "flush"} /\ at' = IF at = "flush" THEN "flushing" ELSE at
  /\ estate' = IF at = "halting" THEN wallet ELSE estate
  /\ UNCHANGED <<mode, run, vmm, tasks, books, flushed, fallback, store, died, atHalt>>
FlushEstate ==
  /\ at = "flush" /\ at' = "flushing" /\ estate' = wallet
  /\ UNCHANGED <<mode, run, vmm, tasks, books, flushed, fallback, store, died, atHalt>>

FlushEnds ==
  /\ at = "flushing" /\ at' = "read"
  /\ \/ flushed' = "ok" /\ backup' = Max({backup, estate})
     \/ flushed' = "failed" /\ UNCHANGED backup
  /\ UNCHANGED <<mode, run, vmm, tasks, sats, wallet, estate, fallback, store, died, atHalt>>

\* The checkpoint is read from the handle and the metered run returns.
ReadCheckpoint ==
  /\ at = "read" /\ at' = "store" /\ taken' = latest
  /\ GuardDropped
  /\ UNCHANGED <<mode, run, vmm, inflight, books, flush, latest, disk, torn, restored, died, atHalt>>

----------------------------------------------------------------------------
(* The end of a bootstrap, and of a resume.                                   *)

\* A workload that must leave a checkpoint and left none fails here; one that
\* leaves none goes on to its death.
NothingToStore ==
  /\ at = "store" /\ taken = 0 /\ at' \in {"returned", "dying"}
  /\ UNCHANGED <<mode, run, vmm, tasks, books, flush, fallback, store, died, atHalt>>

\* put writes the file in place.
PutBegins ==
  /\ at = "store" /\ taken # 0 /\ at' = "putting" /\ torn' = torn \cup {taken}
  /\ UNCHANGED <<mode, run, vmm, tasks, books, flush, fallback, latest, taken, disk, restored, died, atHalt>>

Put ==
  /\ at = "putting" /\ at' = "dying"
  /\ torn' = torn \ {taken} /\ disk' = disk \cup {taken}
  /\ UNCHANGED <<mode, run, vmm, tasks, books, flush, fallback, latest, taken, restored, died, atHalt>>

PutFails ==
  /\ at \in {"store", "putting"} /\ taken # 0 /\ at' = "returned"
  /\ UNCHANGED <<mode, run, vmm, tasks, books, flush, fallback, store, died, atHalt>>

\* The 9100 died and the last 31000 face; run returns.
Die ==
  /\ at = "dying" /\ at' = "returned" /\ died' = run
  /\ IF mode = "resume" THEN GuardDropped ELSE UNCHANGED <<holders, aborted, fallback>>
  /\ UNCHANGED <<mode, run, vmm, inflight, books, flush, store, atHalt>>

\* A resume waits for the guest to confirm its restored state, or for the
\* timeout, and halts it: no meter and no awaited flush.
ConfirmRestore ==
  /\ at = "confirm" /\ at' = "dying"
  /\ Halted /\ NotedAtHalt
  /\ UNCHANGED <<mode, run, tasks, books, flush, fallback, store, died>>

----------------------------------------------------------------------------

\* The process is killed, or exits: its tasks are gone, a VMM stays.
ProcessEnds ==
  /\ at # "off" /\ at' = "off"
  /\ holders' = {} /\ aborted' = {} /\ inflight' = FALSE /\ fallback' = FALSE
  /\ UNCHANGED <<mode, run, vmm, books, flush, store, died, atHalt>>

Driver ==
  \/ Refused \/ Reconcile \/ OpenStore \/ Boot \/ BootFails \/ DmFails \/ Hello
  \/ Attach \/ MeterTick \/ TickSeesDeath \/ Deadline \/ TickFails \/ HaltOnError \/ HaltVm
  \/ FlushEstate \/ FlushEnds \/ ReadCheckpoint \/ NothingToStore \/ PutBegins \/ Put
  \/ PutFails \/ Die \/ ConfirmRestore

Beside ==
  \/ GuestDies \/ Connect \/ Call \/ CallEnds \/ SubmitCheckpoint \/ Hangup
  \/ PollerMints \/ TaskEnds \/ Backup \/ FallbackFlush

RunNext == Bootstrap \/ Resume \/ Driver \/ Beside \/ ProcessEnds

\* The driver's awaits end: sleeps, relay calls and halts have timeouts, and a
\* failing probe fails only for a while.  A task told to stop stops.
Fairness ==
  /\ WF_runVars(Attach) /\ WF_runVars(TickSeesDeath) /\ WF_runVars(HaltOnError) /\ WF_runVars(HaltVm)
  /\ WF_runVars(FlushEstate) /\ WF_runVars(FlushEnds) /\ WF_runVars(ReadCheckpoint)
  /\ WF_runVars(NothingToStore) /\ WF_runVars(PutBegins) /\ WF_runVars(Put) /\ WF_runVars(Die)
  /\ WF_runVars(TaskEnds) /\ WF_runVars(Hangup)

RunSpec == RunInit /\ [][RunNext]_runVars /\ Fairness

----------------------------------------------------------------------------

Places == {"off", "rail", "open", "boot", "dm", "attach", "confirm", "ticking", "failing",
           "halting", "flush", "flushing", "read", "store", "putting", "dying", "returned"}

\* The variables have their types (the driver's state of metered_run.rs).
RunTypeOK ==
  /\ at \in Places /\ mode \in {"bootstrap", "resume"} /\ run \in 0 .. MaxRuns
  /\ vmm \in [Runs -> {"none", "running", "exited", "gone"}]
  /\ holders \subseteq {"main", "serve", "conn", "poller"} /\ aborted \subseteq holders
  /\ inflight \in BOOLEAN /\ fallback \in BOOLEAN
  /\ sats \in 0 .. MaxSats /\ {wallet, backup, estate} \subseteq 0 .. MaxWallet
  /\ flushed \in {"no", "ok", "failed"}
  /\ {latest, taken, restored} \subseteq 0 .. MaxCkpt
  /\ disk \subseteq 1 .. MaxCkpt /\ torn \subseteq 1 .. MaxCkpt
  /\ died \in 0 .. MaxRuns
  /\ atHalt \in [wallet : 0 .. MaxWallet, ckpt : 0 .. MaxCkpt]

\* A run that ended in order and whose last flush went through leaves no spend
\* of its guest out of the backup: whatever had landed when the VM was halted
\* is in the published snapshot (the halt, flush_estate, return order of
\* metered_run.rs).
EstateCovered ==
  flushed = "ok" /\ at \in {"read", "store", "putting", "dying", "returned"}
    => backup >= atHalt.wallet

\* A death announced by a bootstrap is the end of its guest, and the agent can
\* be resumed where it stood when halted or later (put before died, the halt
\* before the checkpoint is read, the content check of get).
DeathIsResumable ==
  /\ died # 0 => vmm[died] # "running"
  /\ at = "returned" /\ died = run /\ mode = "bootstrap" /\ atHalt.ckpt # 0
       => LET c == Newest(disk \cup torn) IN c >= atHalt.ckpt /\ Loadable(c)
  /\ restored # 0 => restored \in disk

\* A run whose guest has died ends, and the treasury it held can be opened
\* again: the supervisor sees the exit, the next run gets the lock (the probe
\* of tick_until_exhausted, the aborts of ServeGuard).
DeadGuestEndsRun ==
  at = "ticking" /\ run # 0 /\ vmm[run] = "exited" ~> holders = {}

\* What metered_run.rs says of itself: the VM is always halted before it
\* returns, on an error as well.
HaltedOnReturn == Returned => \A r \in Runs : vmm[r] # "running"
=============================================================================
