---------------------------- MODULE AgentProofs ----------------------------
(* The agent's own process: the driver of a run (NodeRun) and the loop of its  *)
(* genome over the inbox (GenomeLoop).  What each promises for any number of   *)
(* runs, requests, lost calls and restarts.                                    *)
EXTENDS NodeRun, GenomeLoop, FiniteSetTheorems, WellFoundedInduction, TLAPS

(* The agent's process (NodeRun).                                              *)

(* The numbers a run keeps stay within their bounds, and a task told to stop   *)
(* is one of the two the guard aborts.                                         *)
NodeTypes ==
  /\ at \in Places /\ mode \in {"bootstrap", "resume"} /\ run \in 0 .. MaxRuns
  /\ vmm \in [1 .. MaxRuns -> {"none", "running", "exited", "gone"}]
  /\ holders \subseteq {"main", "serve", "conn", "poller"}
  /\ aborted \subseteq {"serve", "poller"} /\ aborted \subseteq holders
  /\ inflight \in BOOLEAN /\ fallback \in BOOLEAN /\ flushed \in {"no", "ok", "failed"}
  /\ sats \in 0 .. MaxSats
  /\ wallet \in 0 .. MaxWallet /\ backup \in 0 .. MaxWallet /\ estate \in 0 .. MaxWallet
  /\ latest \in 0 .. MaxCkpt /\ taken \in 0 .. MaxCkpt /\ restored \in 0 .. MaxCkpt
  /\ disk \subseteq 1 .. MaxCkpt /\ torn \subseteq 1 .. MaxCkpt
  /\ died \in 0 .. MaxRuns
  /\ atHalt \in [wallet : 0 .. MaxWallet, ckpt : 0 .. MaxCkpt]

(* Where the driver stands in a run.                                           *)
Before == {"rail", "open", "boot", "dm", "attach", "confirm", "ticking", "failing",
           "halting", "flush", "flushing"}
AfterHalt == {"flush", "flushing", "read", "store", "putting", "dying"}

(* A run is under way from its birth to its death, its VM is down once it has  *)
(* been halted, and only a resume waits for a confirmation.                    *)
RunInv ==
  /\ at # "off" => run # 0
  /\ died <= run /\ (at \notin {"off", "returned"} => died < run)
  /\ at \in AfterHalt => vmm[run] # "running"
  /\ died # 0 => vmm[died] # "running"
  /\ at = "boot" => holders = {"main"} /\ aborted = {}
  /\ at = "confirm" => mode = "resume"
  /\ at = "putting" => taken # 0

(* No flush of this run is reported before it ended, and its snapshot was      *)
(* taken after the halt.                                                       *)
EstateInv ==
  /\ atHalt.wallet <= wallet
  /\ at = "flushing" => atHalt.wallet <= estate
  /\ at \in Before => flushed = "no"
  /\ EstateCovered

(* The checkpoints of a run are newer than every file, and the one the driver  *)
(* read is the newest there was at the halt or a later one.                    *)
CheckpointInv ==
  /\ atHalt.ckpt <= latest /\ taken <= latest
  /\ latest # 0 => \A f \in disk \cup torn : f <= latest
  /\ taken # 0 => \A f \in disk \cup torn : f <= taken
  /\ at \in {"store", "putting"} => atHalt.ckpt <= taken
  /\ (mode = "bootstrap" /\ (at = "dying" \/ (at = "returned" /\ died = run))) =>
       atHalt.ckpt <= taken /\ (taken # 0 => taken \in disk)
  /\ restored # 0 => restored \in disk

NodeInv == NodeTypes /\ RunInv /\ EstateInv /\ CheckpointInv

(* Of finitely many things with a rank one ranks first: the sets of those that *)
(* rank no lower than one of them cannot shrink for ever.                      *)
LEMMA FirstExists ==
  ASSUME NEW S, IsFiniteSet(S), S # {}, NEW rank \in [S -> Int]
  PROVE  \E x \in S : \A y \in S : rank[x] >= rank[y]
<1> DEFINE Above(x) == {y \in S : rank[y] >= rank[x]}
           Shapes == {Above(x) : x \in S}
<1>1. IsWellFoundedOn(StrictSubsetOrdering(S), FiniteSubsetsOf(S))
  BY FS_StrictSubsetOrderingWellFounded
<1>2. FiniteSubsetsOf(S) = SUBSET S
  BY FS_FiniteSubsetsOfFinite
<1>3. Shapes \subseteq FiniteSubsetsOf(S) /\ Shapes # {}
  <2>1. \A x \in S : Above(x) \in SUBSET S
    OBVIOUS
  <2>2. PICK z \in S : TRUE
    OBVIOUS
  <2>3. Above(z) \in Shapes
    BY <2>2
  <2>4. \A A \in Shapes : \E x \in S : A = Above(x)
    OBVIOUS
  <2> HIDE DEF Shapes, Above
  <2> QED
    BY <1>2, <2>1, <2>3, <2>4
<1>4. PICK A \in Shapes : \A B \in Shapes : <<B, A>> \notin StrictSubsetOrdering(S)
  <2> HIDE DEF Shapes
  <2> QED
    BY <1>1, <1>3, WFMin
<1>5. PICK x \in S : A = Above(x)
  OBVIOUS
<1>6. SUFFICES ASSUME NEW y \in S, ~(rank[x] >= rank[y])
               PROVE  FALSE
  BY <1>5
<1>7. Above(y) \in SUBSET S /\ Above(x) \in SUBSET S
  OBVIOUS
<1>8. Above(y) \subseteq Above(x) /\ x \in Above(x) /\ x \notin Above(y)
  <2>1. rank[y] \in Int /\ rank[x] \in Int /\ rank[x] < rank[y] /\ rank[x] >= rank[x]
    BY <1>6
  <2>2. \A z \in S : rank[z] >= rank[y] => rank[z] >= rank[x]
    BY <2>1
  <2>3. Above(y) \subseteq Above(x)
    BY <2>2
  <2>4. x \in Above(x)
    BY <2>1
  <2>5. x \notin Above(y)
    BY <1>6
  <2> QED
    BY <2>3, <2>4, <2>5
<1>9. <<Above(y), Above(x)>> \in StrictSubsetOrdering(S)
  <2> HIDE DEF Above
  <2> QED
    BY <1>7, <1>8 DEF StrictSubsetOrdering
<1> QED
  BY <1>4, <1>5, <1>9

(* A finite set of integers that has a member has a largest one.               *)
LEMMA LargestExists ==
  ASSUME NEW S, IsFiniteSet(S), S \subseteq Int, S # {}
  PROVE  \E x \in S : \A y \in S : x >= y
<1> DEFINE rank == [x \in S |-> x]
<1>1. rank \in [S -> Int]
  OBVIOUS
<1>2. PICK x \in S : \A y \in S : rank[x] >= rank[y]
  <2> HIDE DEF rank
  <2> QED
    BY <1>1, FirstExists
<1> QED
  BY <1>2

(* The assumption on the constants, in the form the provers use.               *)
LEMMA NodeBounds ==
  ASSUME NodeRunAssumption
  PROVE  /\ MaxRuns \in Nat \ {0} /\ Seed \in 0 .. MaxSats /\ Floor \in Nat
         /\ MaxSats \in Nat /\ MaxWallet \in Nat /\ MaxCkpt \in Nat
BY DEF NodeRunAssumption

(* The later of two snapshots (flush_estate's publication).                    *)
LEMMA LaterOfTwo ==
  ASSUME NEW a \in Int, NEW b \in Int
  PROVE  Max({a, b}) \in {a, b} /\ Max({a, b}) >= b /\ Max({a, b}) >= a
<1>1. \E x \in {a, b} : \A y \in {a, b} : x >= y
  OBVIOUS
<1> QED
  BY <1>1 DEF Max

(* A checkpoint the guest submits is newer than every file and than the one it *)
(* replaces (checkpoint of the gateway's handle, named after its content).     *)
LEMMA SubmittedIsNewest ==
  ASSUME NodeRunAssumption, NodeTypes, SubmitCheckpoint
  PROVE  /\ latest' \in 1 .. MaxCkpt /\ latest' > latest
         /\ \A f \in disk \cup torn : latest' > f
<1> DEFINE S == {0, latest} \cup disk \cup torn
<1>1. S \subseteq 0 .. MaxCkpt /\ S # {} /\ MaxCkpt \in Nat
  <2>1. latest \in 0 .. MaxCkpt /\ disk \subseteq 0 .. MaxCkpt /\ torn \subseteq 0 .. MaxCkpt
    BY NodeBounds DEF NodeTypes
  <2> QED
    BY <2>1, NodeBounds
<1>2. IsFiniteSet(S) /\ S \subseteq Int
  <2>1. IsFiniteSet(0 .. MaxCkpt)
    BY <1>1, FS_Interval
  <2> QED
    BY <1>1, <2>1, FS_Subset
<1>3. \E x \in S : \A y \in S : x >= y
  <2> HIDE DEF S
  <2> QED
    BY <1>1, <1>2, LargestExists
<1>4. Max(S) \in S /\ \A y \in S : Max(S) >= y
  BY <1>3 DEF Max
<1>5. latest' = Max(S) + 1 /\ latest' <= MaxCkpt
  BY DEF SubmitCheckpoint
<1>6. latest \in S /\ disk \cup torn \subseteq S
  OBVIOUS
<1>7. Max(S) \in 0 .. MaxCkpt
  BY <1>1, <1>4
<1>8. latest \in Int /\ \A f \in disk \cup torn : f \in Int
  BY <1>1, <1>6
<1> HIDE DEF S
<1> QED
  BY <1>1, <1>4, <1>5, <1>6, <1>7, <1>8

(* Every step of the driver, of the guest and of the tasks keeps the types.    *)
LEMMA NodeTypesStep ==
  ASSUME NodeRunAssumption, NodeTypes, RunInv, [RunNext]_runVars
  PROVE  NodeTypes'
<1> USE NodeBounds DEF Runs
<1>1. CASE Bootstrap
  BY <1>1
  DEF Bootstrap, NewRun, Returned, tasks, books,
      NodeTypes, Places, RunInv
<1>2. CASE Resume
  <2>1. restored' \in {0} \cup disk /\ at' \in {"rail", "returned"} /\ mode' = "resume"
    BY <1>2 DEF Resume, Loadable, NewRun
  <2>2. restored' \in 0 .. MaxCkpt /\ at' \in Places
    BY <2>1 DEF NodeTypes, Places
  <2> QED
    BY <1>2, <2>1, <2>2 DEF Resume, NewRun, tasks, books, NodeTypes
<1>3. CASE Refused
  BY <1>3
  DEF Refused, books, flush, store, NodeTypes,
      Places, RunInv
<1>4. CASE Reconcile
  BY <1>4
  DEF Reconcile, Opens, tasks, flush, store,
      NodeTypes, Places, RunInv
<1>5. CASE OpenStore
  BY <1>5
  DEF OpenStore, Opens, books, flush, store,
      NodeTypes, Places, RunInv
<1>6. CASE Boot
  BY <1>6
  DEF Boot, books, flush, store, NodeTypes, Places,
      RunInv
<1>7. CASE BootFails
  BY <1>7
  DEF BootFails, books, flush, store, NodeTypes,
      Places, RunInv
<1>8. CASE DmFails
  BY <1>8
  DEF DmFails, books, flush, store, NodeTypes,
      Places, RunInv
<1>9. CASE Hello
  BY <1>9
  DEF Hello, tasks, books, flush, store, NodeTypes,
      Places, RunInv
<1>10. CASE Attach
  BY <1>10
  DEF Attach, tasks, books, flush, store, NodeTypes,
      Places, RunInv
<1>11. CASE MeterTick
  BY <1>11
  DEF MeterTick, floor_halt_reached, tasks, flush, store,
      NodeTypes, Places, RunInv
<1>12. CASE TickSeesDeath
  BY <1>12
  DEF TickSeesDeath, Stops, tasks, books, flush,
      store, NodeTypes, Places, RunInv
<1>13. CASE Deadline
  BY <1>13
  DEF Deadline, Stops, tasks, books, flush,
      store, NodeTypes, Places, RunInv
<1>14. CASE TickFails
  BY <1>14
  DEF TickFails, tasks, books, flush, store,
      NodeTypes, Places, RunInv
<1>15. CASE HaltOnError
  BY <1>15
  DEF HaltOnError, Halted, GuardDropped, books,
      flush, store, NodeTypes, Places, RunInv
<1>16. CASE HaltVm
  BY <1>16
  DEF HaltVm, Halted, NotedAtHalt, tasks, books,
      flush, store, NodeTypes, Places, RunInv
<1>17. CASE FlushEstate
  BY <1>17
  DEF FlushEstate, tasks, books, store, NodeTypes,
      Places, RunInv
<1>18. CASE FlushEnds
  <2>1. backup' \in 0 .. MaxWallet
    <3>1. backup \in 0 .. MaxWallet /\ estate \in 0 .. MaxWallet
      BY DEF NodeTypes
    <3>2. backup \in Int /\ estate \in Int
      BY <3>1
    <3>3. Max({backup, estate}) \in {backup, estate}
      BY <3>2, LaterOfTwo
    <3> QED
      BY <1>18, <3>1, <3>3 DEF FlushEnds
  <2> QED
    BY <1>18, <2>1
    DEF FlushEnds, tasks, store, NodeTypes, Places
<1>19. CASE ReadCheckpoint
  BY <1>19
  DEF ReadCheckpoint, GuardDropped, books, flush,
      NodeTypes, Places, RunInv
<1>20. CASE NothingToStore
  BY <1>20
  DEF NothingToStore, tasks, books, flush, store,
      NodeTypes, Places, RunInv
<1>21. CASE PutBegins
  BY <1>21
  DEF PutBegins, tasks, books, flush, NodeTypes,
      Places, RunInv
<1>22. CASE Put
  BY <1>22
  DEF Put, tasks, books, flush, NodeTypes, Places,
      RunInv
<1>23. CASE PutFails
  BY <1>23
  DEF PutFails, tasks, books, flush, store,
      NodeTypes, Places, RunInv
<1>24. CASE Die
  BY <1>24
  DEF Die, GuardDropped, books, flush, store,
      NodeTypes, Places, RunInv
<1>25. CASE ConfirmRestore
  BY <1>25
  DEF ConfirmRestore, Halted, NotedAtHalt, tasks,
      books, flush, store, NodeTypes, Places, RunInv
<1>26. CASE GuestDies
  BY <1>26
  DEF GuestDies, tasks, books, flush, store,
      NodeTypes, Places, RunInv
<1>27. CASE Connect
  BY <1>27
  DEF Connect, Alive, books, flush, store, NodeTypes,
      Places, RunInv
<1>28. CASE Call
  BY <1>28
  DEF Call, Alive, books, flush, store, NodeTypes,
      Places, RunInv
<1>29. CASE CallEnds
  <2>1. inflight' \in BOOLEAN
    BY <1>29 DEF CallEnds
  <2>2. sats' \in 0 .. MaxSats /\ wallet' \in 0 .. MaxWallet
    <3>1. CASE UNCHANGED <<sats, wallet>>
      BY <3>1 DEF NodeTypes
    <3>2. CASE sats > 0 /\ wallet < MaxWallet /\ sats' = sats - 1 /\ wallet' = wallet + 1
      BY <3>2 DEF NodeTypes
    <3> QED
      BY <1>29, <3>1, <3>2 DEF CallEnds
  <2> QED
    BY <1>29, <2>1, <2>2 DEF CallEnds, flush, store, NodeTypes
<1>30. CASE SubmitCheckpoint
  BY SubmittedIsNewest, <1>30
  DEF SubmitCheckpoint, tasks, books, flush, NodeTypes,
      Places
<1>31. CASE Hangup
  BY <1>31
  DEF Hangup, Alive, books, flush, store, NodeTypes,
      Places, RunInv
<1>32. CASE PollerMints
  BY <1>32
  DEF PollerMints, tasks, flush, store, NodeTypes,
      Places, RunInv
<1>33. CASE TaskEnds
  BY <1>33
  DEF TaskEnds, books, flush, store, NodeTypes,
      Places, RunInv
<1>34. CASE Backup
  BY <1>34
  DEF Backup, tasks, flush, store, NodeTypes, Places,
      RunInv
<1>35. CASE FallbackFlush
  BY <1>35
  DEF FallbackFlush, tasks, flush, store, NodeTypes,
      Places, RunInv
<1>36. CASE ProcessEnds
  BY <1>36
  DEF ProcessEnds, books, flush, store, NodeTypes,
      Places, RunInv
<1>37. CASE UNCHANGED runVars
  BY <1>37
  DEF runVars, NodeTypes, Places, RunInv
<1> QED
  BY <1>1, <1>2, <1>3, <1>4, <1>5, <1>6, <1>7, <1>8, <1>9, <1>10, <1>11,
     <1>12, <1>13, <1>14, <1>15, <1>16, <1>17, <1>18, <1>19, <1>20, <1>21,
     <1>22, <1>23, <1>24, <1>25, <1>26, <1>27, <1>28, <1>29, <1>30, <1>31,
     <1>32, <1>33, <1>34, <1>35, <1>36, <1>37
     DEF RunNext, Driver, Beside

(* A run is born after every death announced, its VM is halted before its end, *)
(* and its store is opened by nobody else (run_bootstrap, run_resume).         *)
LEMMA RunStep ==
  ASSUME NodeRunAssumption, NodeTypes, RunInv, [RunNext]_runVars
  PROVE  RunInv'
<1> USE NodeBounds DEF Runs
<1>1. CASE Bootstrap
  BY <1>1
  DEF Bootstrap, NewRun, Returned, tasks, books,
      NodeTypes, AfterHalt, RunInv
<1>2. CASE Resume
  BY <1>2
  DEF Resume,  NewRun, Returned, tasks, books,
      Newest, Loadable, NodeTypes, AfterHalt, RunInv
<1>3. CASE Refused
  BY <1>3
  DEF Refused, books, flush, store, NodeTypes, AfterHalt,
      RunInv
<1>4. CASE Reconcile
  BY <1>4
  DEF Reconcile, Opens, tasks, flush, store,
      NodeTypes, AfterHalt, RunInv
<1>5. CASE OpenStore
  BY <1>5
  DEF OpenStore, Opens, books, flush, store,
      NodeTypes, AfterHalt, RunInv
<1>6. CASE Boot
  BY <1>6
  DEF Boot, books, flush, store, NodeTypes, AfterHalt, RunInv
<1>7. CASE BootFails
  BY <1>7
  DEF BootFails, books, flush, store, NodeTypes, AfterHalt,
      RunInv
<1>8. CASE DmFails
  BY <1>8
  DEF DmFails, books, flush, store, NodeTypes, AfterHalt,
      RunInv
<1>9. CASE Hello
  BY <1>9
  DEF Hello, tasks, books, flush, store, NodeTypes,
      AfterHalt, RunInv
<1>10. CASE Attach
  BY <1>10
  DEF Attach, tasks, books, flush, store, NodeTypes,
      AfterHalt, RunInv
<1>11. CASE MeterTick
  BY <1>11
  DEF MeterTick, floor_halt_reached, tasks, flush, store,
      NodeTypes, AfterHalt, RunInv
<1>12. CASE TickSeesDeath
  BY <1>12
  DEF TickSeesDeath, Stops, tasks, books, flush,
      store, NodeTypes, AfterHalt, RunInv
<1>13. CASE Deadline
  BY <1>13
  DEF Deadline, Stops, tasks, books, flush,
      store, NodeTypes, AfterHalt, RunInv
<1>14. CASE TickFails
  BY <1>14
  DEF TickFails, tasks, books, flush, store,
      NodeTypes, AfterHalt, RunInv
<1>15. CASE HaltOnError
  BY <1>15
  DEF HaltOnError, Halted, GuardDropped, books,
      flush, store, NodeTypes, AfterHalt, RunInv
<1>16. CASE HaltVm
  BY <1>16
  DEF HaltVm, Halted, NotedAtHalt, tasks, books,
      flush, store, NodeTypes, AfterHalt, RunInv
<1>17. CASE FlushEstate
  BY <1>17
  DEF FlushEstate, tasks, books, store, NodeTypes, AfterHalt,
      RunInv
<1>18. CASE FlushEnds
  BY <1>18
  DEF FlushEnds, tasks, store, NodeTypes, AfterHalt, RunInv
<1>19. CASE ReadCheckpoint
  BY <1>19
  DEF ReadCheckpoint, GuardDropped, books, flush,
      NodeTypes, AfterHalt, RunInv
<1>20. CASE NothingToStore
  BY <1>20
  DEF NothingToStore, tasks, books, flush, store,
      NodeTypes, AfterHalt, RunInv
<1>21. CASE PutBegins
  BY <1>21
  DEF PutBegins, tasks, books, flush, NodeTypes, AfterHalt,
      RunInv
<1>22. CASE Put
  BY <1>22
  DEF Put, tasks, books, flush, NodeTypes, AfterHalt, RunInv
<1>23. CASE PutFails
  BY <1>23
  DEF PutFails, tasks, books, flush, store,
      NodeTypes, AfterHalt, RunInv
<1>24. CASE Die
  BY <1>24
  DEF Die, GuardDropped, books, flush, store,
      NodeTypes, AfterHalt, RunInv
<1>25. CASE ConfirmRestore
  BY <1>25
  DEF ConfirmRestore, Halted, NotedAtHalt, tasks,
      books, flush, store, NodeTypes, AfterHalt, RunInv
<1>26. CASE GuestDies
  BY <1>26
  DEF GuestDies, tasks, books, flush, store,
      NodeTypes, AfterHalt, RunInv
<1>27. CASE Connect
  BY <1>27
  DEF Connect, Alive, books, flush, store, NodeTypes,
      AfterHalt, RunInv
<1>28. CASE Call
  BY <1>28
  DEF Call, Alive, books, flush, store, NodeTypes,
      AfterHalt, RunInv
<1>29. CASE CallEnds
  BY <1>29
  DEF CallEnds, flush, store, NodeTypes, AfterHalt, RunInv
<1>30. CASE SubmitCheckpoint
  BY <1>30
  DEF SubmitCheckpoint, tasks, books, flush, NodeTypes,
      AfterHalt, RunInv
<1>31. CASE Hangup
  BY <1>31
  DEF Hangup, Alive, books, flush, store, NodeTypes,
      AfterHalt, RunInv
<1>32. CASE PollerMints
  BY <1>32
  DEF PollerMints, tasks, flush, store, NodeTypes, AfterHalt,
      RunInv
<1>33. CASE TaskEnds
  BY <1>33
  DEF TaskEnds, books, flush, store, NodeTypes, AfterHalt,
      RunInv
<1>34. CASE Backup
  BY <1>34
  DEF Backup, tasks, flush, store, NodeTypes, AfterHalt,
      RunInv
<1>35. CASE FallbackFlush
  BY <1>35
  DEF FallbackFlush, tasks, flush, store, NodeTypes,
      AfterHalt, RunInv
<1>36. CASE ProcessEnds
  BY <1>36
  DEF ProcessEnds, books, flush, store, NodeTypes, AfterHalt,
      RunInv
<1>37. CASE UNCHANGED runVars
  BY <1>37
  DEF runVars, NodeTypes, AfterHalt, RunInv
<1> QED
  BY <1>1, <1>2, <1>3, <1>4, <1>5, <1>6, <1>7, <1>8, <1>9, <1>10, <1>11,
     <1>12, <1>13, <1>14, <1>15, <1>16, <1>17, <1>18, <1>19, <1>20, <1>21,
     <1>22, <1>23, <1>24, <1>25, <1>26, <1>27, <1>28, <1>29, <1>30, <1>31,
     <1>32, <1>33, <1>34, <1>35, <1>36, <1>37
     DEF RunNext, Driver, Beside

(* The awaited flush publishes at least what the halt left (metered_run.rs).   *)
LEMMA EstateStep ==
  ASSUME NodeRunAssumption, NodeTypes, NodeTypes', EstateInv, [RunNext]_runVars
  PROVE  EstateInv'
<1> USE DEF NodeTypes
<1>1. CASE Bootstrap
  BY <1>1
  DEF Bootstrap, NewRun, Returned, tasks, books,
      EstateInv, EstateCovered, Before
<1>2. CASE Resume
  BY <1>2
  DEF Resume, NewRun, Returned, tasks, books,
      Newest, Loadable, EstateInv, EstateCovered, Before
<1>3. CASE Refused
  BY <1>3
  DEF Refused, books, flush, store, EstateInv,
      EstateCovered, Before
<1>4. CASE Reconcile
  BY <1>4
  DEF Reconcile, Opens, tasks, flush, store,
      EstateInv, EstateCovered, Before
<1>5. CASE OpenStore
  BY <1>5
  DEF OpenStore, Opens, books, flush, store,
      EstateInv, EstateCovered, Before
<1>6. CASE Boot
  BY <1>6
  DEF Boot, books, flush, store, EstateInv,
      EstateCovered, Before
<1>7. CASE BootFails
  BY <1>7
  DEF BootFails, books, flush, store, EstateInv,
      EstateCovered, Before
<1>8. CASE DmFails
  BY <1>8
  DEF DmFails, books, flush, store, EstateInv,
      EstateCovered, Before
<1>9. CASE Hello
  BY <1>9
  DEF Hello, tasks, books, flush, store, EstateInv,
      EstateCovered, Before
<1>10. CASE Attach
  BY <1>10
  DEF Attach, tasks, books, flush, store, EstateInv,
      EstateCovered, Before
<1>11. CASE MeterTick
  BY <1>11
  DEF MeterTick, floor_halt_reached, tasks, flush, store,
      EstateInv, EstateCovered, Before
<1>12. CASE TickSeesDeath
  BY <1>12
  DEF TickSeesDeath, Stops, tasks, books, flush,
      store, EstateInv, EstateCovered, Before
<1>13. CASE Deadline
  BY <1>13
  DEF Deadline, Stops, tasks, books, flush,
      store, EstateInv, EstateCovered, Before
<1>14. CASE TickFails
  BY <1>14
  DEF TickFails, tasks, books, flush, store,
      EstateInv, EstateCovered, Before
<1>15. CASE HaltOnError
  BY <1>15
  DEF HaltOnError, Halted, GuardDropped, books,
      flush, store, EstateInv, EstateCovered, Before
<1>16. CASE HaltVm
  BY <1>16
  DEF HaltVm, Halted, NotedAtHalt, tasks, books,
      flush, store, EstateInv, EstateCovered, Before
<1>17. CASE FlushEstate
  BY <1>17
  DEF FlushEstate, tasks, books, store, EstateInv,
      EstateCovered, Before
<1>18. CASE FlushEnds
  <2>1. backup \in Int /\ estate \in Int /\ wallet \in Int /\ atHalt.wallet \in Int
    OBVIOUS
  <2>2. Max({backup, estate}) \in {backup, estate} /\ Max({backup, estate}) >= estate
    BY <2>1, LaterOfTwo
  <2> QED
    BY <1>18, <2>1, <2>2
    DEF FlushEnds, tasks, store, EstateInv, EstateCovered, Before
<1>19. CASE ReadCheckpoint
  BY <1>19
  DEF ReadCheckpoint, GuardDropped, books, flush,
      EstateInv, EstateCovered, Before
<1>20. CASE NothingToStore
  BY <1>20
  DEF NothingToStore, tasks, books, flush, store,
      EstateInv, EstateCovered, Before
<1>21. CASE PutBegins
  BY <1>21
  DEF PutBegins, tasks, books, flush, EstateInv,
      EstateCovered, Before
<1>22. CASE Put
  BY <1>22
  DEF Put, tasks, books, flush, EstateInv,
      EstateCovered, Before
<1>23. CASE PutFails
  BY <1>23
  DEF PutFails, tasks, books, flush, store,
      EstateInv, EstateCovered, Before
<1>24. CASE Die
  BY <1>24
  DEF Die, GuardDropped, books, flush, store,
      EstateInv, EstateCovered, Before
<1>25. CASE ConfirmRestore
  BY <1>25
  DEF ConfirmRestore, Halted, NotedAtHalt, tasks,
      books, flush, store, EstateInv, EstateCovered,
      Before
<1>26. CASE GuestDies
  BY <1>26
  DEF GuestDies, tasks, books, flush, store,
      EstateInv, EstateCovered, Before
<1>27. CASE Connect
  BY <1>27
  DEF Connect, Alive, books, flush, store, EstateInv,
      EstateCovered, Before
<1>28. CASE Call
  BY <1>28
  DEF Call, Alive, books, flush, store, EstateInv,
      EstateCovered, Before
<1>29. CASE CallEnds
  BY <1>29
  DEF CallEnds, flush, store, EstateInv, EstateCovered,
      Before
<1>30. CASE SubmitCheckpoint
  BY <1>30
  DEF SubmitCheckpoint, tasks, books, flush, EstateInv,
      EstateCovered, Before
<1>31. CASE Hangup
  BY <1>31
  DEF Hangup, Alive, books, flush, store, EstateInv,
      EstateCovered, Before
<1>32. CASE PollerMints
  BY <1>32
  DEF PollerMints, tasks, flush, store, EstateInv,
      EstateCovered, Before
<1>33. CASE TaskEnds
  BY <1>33
  DEF TaskEnds, books, flush, store, EstateInv,
      EstateCovered, Before
<1>34. CASE Backup
  BY <1>34
  DEF Backup, tasks, flush, store, EstateInv,
      EstateCovered, Before
<1>35. CASE FallbackFlush
  BY <1>35
  DEF FallbackFlush, tasks, flush, store, EstateInv,
      EstateCovered, Before
<1>36. CASE ProcessEnds
  BY <1>36
  DEF ProcessEnds, books, flush, store, EstateInv,
      EstateCovered, Before
<1>37. CASE UNCHANGED runVars
  BY <1>37
  DEF runVars, EstateInv, EstateCovered, Before
<1> QED
  BY <1>1, <1>2, <1>3, <1>4, <1>5, <1>6, <1>7, <1>8, <1>9, <1>10, <1>11,
     <1>12, <1>13, <1>14, <1>15, <1>16, <1>17, <1>18, <1>19, <1>20, <1>21,
     <1>22, <1>23, <1>24, <1>25, <1>26, <1>27, <1>28, <1>29, <1>30, <1>31,
     <1>32, <1>33, <1>34, <1>35, <1>36, <1>37
     DEF RunNext, Driver, Beside

(* The checkpoint written after a halt is the newest file of the store, and    *)
(* the one the driver read (put before died, run_agent.rs).                    *)
LEMMA CheckpointStep ==
  ASSUME NodeRunAssumption, NodeTypes, NodeTypes', RunInv, CheckpointInv,
         [RunNext]_runVars
  PROVE  CheckpointInv'
<1> USE DEF NodeTypes
<1>1. CASE Bootstrap
  BY <1>1
  DEF Bootstrap, NewRun, Returned, tasks, books,
      CheckpointInv, RunInv
<1>2. CASE Resume
  BY <1>2
  DEF Resume, NewRun, Returned, tasks, books,
      Newest, Loadable, CheckpointInv, RunInv
<1>3. CASE Refused
  BY <1>3
  DEF Refused, books, flush, store, CheckpointInv, RunInv
<1>4. CASE Reconcile
  BY <1>4
  DEF Reconcile, Opens, tasks, flush, store,
      CheckpointInv, RunInv
<1>5. CASE OpenStore
  BY <1>5
  DEF OpenStore, Opens, books, flush, store,
      CheckpointInv, RunInv
<1>6. CASE Boot
  BY <1>6
  DEF Boot, books, flush, store, CheckpointInv, RunInv
<1>7. CASE BootFails
  BY <1>7
  DEF BootFails, books, flush, store, CheckpointInv,
      RunInv
<1>8. CASE DmFails
  BY <1>8
  DEF DmFails, books, flush, store, CheckpointInv, RunInv
<1>9. CASE Hello
  BY <1>9
  DEF Hello, tasks, books, flush, store,
      CheckpointInv, RunInv
<1>10. CASE Attach
  BY <1>10
  DEF Attach, tasks, books, flush, store,
      CheckpointInv, RunInv
<1>11. CASE MeterTick
  BY <1>11
  DEF MeterTick, floor_halt_reached, tasks, flush, store,
      CheckpointInv, RunInv
<1>12. CASE TickSeesDeath
  BY <1>12
  DEF TickSeesDeath, Stops, tasks, books, flush,
      store, CheckpointInv, RunInv
<1>13. CASE Deadline
  BY <1>13
  DEF Deadline, Stops, tasks, books, flush,
      store, CheckpointInv, RunInv
<1>14. CASE TickFails
  BY <1>14
  DEF TickFails, tasks, books, flush, store,
      CheckpointInv, RunInv
<1>15. CASE HaltOnError
  BY <1>15
  DEF HaltOnError, Halted, GuardDropped, books,
      flush, store, CheckpointInv, RunInv
<1>16. CASE HaltVm
  BY <1>16
  DEF HaltVm, Halted, NotedAtHalt, tasks, books,
      flush, store, CheckpointInv, RunInv
<1>17. CASE FlushEstate
  BY <1>17
  DEF FlushEstate, tasks, books, store, CheckpointInv,
      RunInv
<1>18. CASE FlushEnds
  BY <1>18
  DEF FlushEnds, tasks, store, CheckpointInv, RunInv
<1>19. CASE ReadCheckpoint
  BY <1>19
  DEF ReadCheckpoint, GuardDropped, books, flush,
      CheckpointInv, RunInv
<1>20. CASE NothingToStore
  BY <1>20
  DEF NothingToStore, tasks, books, flush, store,
      CheckpointInv, RunInv
<1>21. CASE PutBegins
  BY <1>21
  DEF PutBegins, tasks, books, flush, CheckpointInv,
      RunInv
<1>22. CASE Put
  BY <1>22
  DEF Put, tasks, books, flush, CheckpointInv, RunInv
<1>23. CASE PutFails
  BY <1>23
  DEF PutFails, tasks, books, flush, store,
      CheckpointInv, RunInv
<1>24. CASE Die
  BY <1>24
  DEF Die, GuardDropped, books, flush, store,
      CheckpointInv, RunInv
<1>25. CASE ConfirmRestore
  BY <1>25
  DEF ConfirmRestore, Halted, NotedAtHalt, tasks,
      books, flush, store, CheckpointInv, RunInv
<1>26. CASE GuestDies
  BY <1>26
  DEF GuestDies, tasks, books, flush, store,
      CheckpointInv, RunInv
<1>27. CASE Connect
  BY <1>27
  DEF Connect, Alive, books, flush, store,
      CheckpointInv, RunInv
<1>28. CASE Call
  BY <1>28
  DEF Call, Alive, books, flush, store,
      CheckpointInv, RunInv
<1>29. CASE CallEnds
  BY <1>29
  DEF CallEnds, flush, store, CheckpointInv, RunInv
<1>30. CASE SubmitCheckpoint
  <2>1. latest' \in Int /\ latest' > latest /\ \A f \in disk \cup torn : latest' > f
    <3>1. latest' \in 1 .. MaxCkpt /\ latest' > latest /\ \A f \in disk \cup torn : latest' > f
      <4> HIDE DEF NodeTypes
      <4> QED
        BY <1>30, SubmittedIsNewest
    <3> QED
      BY <3>1, NodeBounds
  <2>2. atHalt.ckpt \in Int /\ taken \in Int /\ latest \in Int
    OBVIOUS
  <2>3. \A f \in disk \cup torn : f \in Int
    OBVIOUS
  <2>4. \A f \in disk \cup torn : f <= latest'
    <3> SUFFICES ASSUME NEW f \in disk \cup torn PROVE f <= latest'
      OBVIOUS
    <3>1. f \in Int /\ latest' > f /\ latest' \in Int
      BY <2>1, <2>3
    <3> HIDE DEF NodeTypes
    <3> QED
      BY <3>1
  <2>5. atHalt.ckpt <= latest /\ taken <= latest
    BY DEF CheckpointInv
  <2>6. atHalt.ckpt <= latest' /\ taken <= latest'
    <3> HIDE DEF NodeTypes
    <3> QED
      BY <2>1, <2>2, <2>5
  <2>7. UNCHANGED <<at, mode, run, taken, disk, torn, restored, died, atHalt>>
    BY <1>30 DEF SubmitCheckpoint
  <2> QED
    BY <2>4, <2>6, <2>7 DEF CheckpointInv
<1>31. CASE Hangup
  BY <1>31
  DEF Hangup, Alive, books, flush, store,
      CheckpointInv, RunInv
<1>32. CASE PollerMints
  BY <1>32
  DEF PollerMints, tasks, flush, store, CheckpointInv,
      RunInv
<1>33. CASE TaskEnds
  BY <1>33
  DEF TaskEnds, books, flush, store, CheckpointInv, RunInv
<1>34. CASE Backup
  BY <1>34
  DEF Backup, tasks, flush, store, CheckpointInv, RunInv
<1>35. CASE FallbackFlush
  BY <1>35
  DEF FallbackFlush, tasks, flush, store, CheckpointInv,
      RunInv
<1>36. CASE ProcessEnds
  BY <1>36
  DEF ProcessEnds, books, flush, store, CheckpointInv,
      RunInv
<1>37. CASE UNCHANGED runVars
  BY <1>37
  DEF runVars, CheckpointInv, RunInv
<1> QED
  BY <1>1, <1>2, <1>3, <1>4, <1>5, <1>6, <1>7, <1>8, <1>9, <1>10, <1>11,
     <1>12, <1>13, <1>14, <1>15, <1>16, <1>17, <1>18, <1>19, <1>20, <1>21,
     <1>22, <1>23, <1>24, <1>25, <1>26, <1>27, <1>28, <1>29, <1>30, <1>31,
     <1>32, <1>33, <1>34, <1>35, <1>36, <1>37
     DEF RunNext, Driver, Beside

LEMMA NodeInit ==
  ASSUME NodeRunAssumption, RunInit
  PROVE  NodeInv
<1> USE NodeBounds
<1>1. NodeTypes
  <2>1. sats \in 0 .. MaxSats /\ 0 \in 0 .. MaxRuns /\ 0 \in 0 .. MaxWallet /\ 0 \in 0 .. MaxCkpt
    BY DEF RunInit
  <2>2. atHalt \in [wallet : 0 .. MaxWallet, ckpt : 0 .. MaxCkpt]
    BY <2>1 DEF RunInit
  <2>3. vmm \in [1 .. MaxRuns -> {"none", "running", "exited", "gone"}]
    BY DEF RunInit, Runs
  <2> QED
    BY <2>1, <2>2, <2>3 DEF RunInit, NodeTypes, Places
<1>2. RunInv /\ EstateInv /\ CheckpointInv
  BY DEF RunInit, RunInv, EstateInv, CheckpointInv, EstateCovered, Before, AfterHalt
<1> QED
  BY <1>1, <1>2 DEF NodeInv

LEMMA NodeStep ==
  ASSUME NodeRunAssumption, NodeInv, [RunNext]_runVars
  PROVE  NodeInv'
<1>1. NodeTypes'
  BY NodeTypesStep DEF NodeInv
<1>2. RunInv'
  BY RunStep DEF NodeInv
<1>3. EstateInv'
  BY <1>1, EstateStep DEF NodeInv
<1>4. CheckpointInv'
  BY <1>1, CheckpointStep DEF NodeInv
<1> QED
  BY <1>1, <1>2, <1>3, <1>4 DEF NodeInv

(* A resume finds the checkpoint of the last death: it is the newest file and  *)
(* whole, or torn files older than it do not hide it (get of the store).       *)
LEMMA Resumable ==
  ASSUME NodeRunAssumption, NodeInv
  PROVE  DeathIsResumable
<1>1. died # 0 => vmm[died] # "running"
  BY DEF NodeInv, RunInv
<1>2. restored # 0 => restored \in disk
  BY DEF NodeInv, CheckpointInv
<1>3. ASSUME at = "returned", died = run, mode = "bootstrap", atHalt.ckpt # 0
      PROVE  /\ Newest(disk \cup torn) >= atHalt.ckpt
             /\ Loadable(Newest(disk \cup torn))
  <2> DEFINE files == disk \cup torn
  <2>1. taken \in Nat /\ atHalt.ckpt \in Nat /\ \A f \in files : f \in Nat
    BY NodeBounds DEF NodeInv, NodeTypes
  <2>2. atHalt.ckpt <= taken
    BY <1>3 DEF NodeInv, CheckpointInv
  <2>3. taken # 0
    BY <1>3, <2>1, <2>2
  <2>4. taken \in disk
    BY <1>3, <2>3 DEF NodeInv, CheckpointInv
  <2>5. \A f \in files : f <= taken
    BY <2>3 DEF NodeInv, CheckpointInv
  <2>6. taken \in files
    BY <2>4
  <2>7. Newest(files) = Max(files)
    BY <2>6 DEF Newest
  <2>8. Max(files) = taken
    <3> HIDE DEF files
    <3>1. \A y \in files : taken >= y
      BY <2>1, <2>5
    <3>2. Max(files) \in files /\ Max(files) >= taken
      BY <2>6, <3>1 DEF Max
    <3> QED
      BY <2>1, <2>5, <3>2
  <2> QED
    BY <2>1, <2>2, <2>4, <2>7, <2>8 DEF Loadable
<1> QED
  BY <1>1, <1>2, <1>3 DEF DeathIsResumable

(* The variables of NodeRun have their types, whatever the numbers of runs,    *)
(* sats, checkpoints and wallet events (the driver's state, metered_run.rs).   *)
THEOREM NodeTypeCorrect == ASSUME NodeRunAssumption PROVE RunSpec => []RunTypeOK
<1>1. RunInit => NodeInv
  BY NodeInit
<1>2. NodeInv /\ [RunNext]_runVars => NodeInv'
  BY NodeStep
<1>3. NodeInv => RunTypeOK
  BY DEF NodeInv, NodeTypes, RunTypeOK, Runs
<1> QED
  BY <1>1, <1>2, <1>3, PTL DEF RunSpec

(* Whatever had landed when the VM was halted is in the snapshot the awaited   *)
(* flush published, for any number of runs, kills and calls in flight (the     *)
(* halt, flush_estate, return order of metered_run.rs).                        *)
THEOREM EstateIsCovered == ASSUME NodeRunAssumption PROVE RunSpec => []EstateCovered
<1>1. RunInit => NodeInv
  BY NodeInit
<1>2. NodeInv /\ [RunNext]_runVars => NodeInv'
  BY NodeStep
<1>3. NodeInv => EstateCovered
  BY DEF NodeInv, EstateInv
<1> QED
  BY <1>1, <1>2, <1>3, PTL DEF RunSpec

(* A death announced leaves no VM running and, after a bootstrap, a whole      *)
(* checkpoint at or past the halt that the next resume loads (put before died  *)
(* in run_agent.rs, the content check of get).                                 *)
THEOREM DeathsAreResumable ==
  ASSUME NodeRunAssumption PROVE RunSpec => []DeathIsResumable
<1>1. RunInit => NodeInv
  BY NodeInit
<1>2. NodeInv /\ [RunNext]_runVars => NodeInv'
  BY NodeStep
<1>3. NodeInv => DeathIsResumable
  BY Resumable
<1> QED
  BY <1>1, <1>2, <1>3, PTL DEF RunSpec

-----------------------------------------------------------------------------
(* The loops of the genome over the daemon's queue (GenomeLoop, Inbox).        *)

Kinds == {"dm", "job", "settled"}
Event == [inbox_seq : Nat, kind : Kinds, about : Requests, sats : Nat]
Serving == {"think", "charge", "books", "invoice", "answer", "reply"}

(* The events the daemon or the genome holds, and those not consumed yet.      *)
Known == inner \cup numbered \cup ({ev} \ {NoEvent})
Live == {e \in Known : e.inbox_seq > ack_seq}

(* Every event has a number of its own, below the next one; the one being      *)
(* served lies past the cursor; only the answer serves a settlement.           *)
QueueInv ==
  /\ next_seq \in Nat /\ ack_seq \in Nat /\ committed \in Nat /\ faults \in Nat
  /\ checkpoint \in Nat
  /\ charges \in [Requests -> Nat] /\ credited \in [Requests -> Nat]
  /\ IsFiniteSet(inner)
  /\ \A e \in Known : e \in Event /\ e.inbox_seq < next_seq
  /\ \A e \in Known, f \in Known : e.inbox_seq = f.inbox_seq => e = f
  /\ \A e \in numbered : e \notin inner /\ e # ev
  /\ ev # NoEvent => ack_seq < ev.inbox_seq /\ ev.kind \in Want
  /\ pc \in Serving \cup {"idle", "dead"}
  /\ pc \in Serving => ev # NoEvent
  /\ pc = "idle" /\ workload # "capable" => ev = NoEvent
  /\ pc \in Serving \ {"answer"} => ev.kind # "settled"
  /\ pc = "answer" => ev.kind = "settled"
  /\ workload \in {"oracle", "earn", "capable"}

(* A quote is a positive amount, of a workload that sells answers.             *)
PlanInv ==
  /\ workload # "capable" => \A t \in thoughts : t.sats \in Nat \ {0}
  /\ pc \in {"charge", "invoice"} => plan.sats \in Nat \ {0}

(* What is quoted, charged, awaited, settled and answered is one amount.       *)
PaidInv ==
  /\ pc = "invoice" => charges[ev.about] = plan.sats
  /\ \A p \in pending : p.about \in Requests /\ p.sats \in Nat \ {0}
                        /\ p.sats = charges[p.about]
  /\ \A e \in Known : e.kind = "settled" => e.sats = credited[e.about] /\ e.sats > 0
  /\ pc = "answer" => charges[ev.about] > 0 /\ ev.sats >= charges[ev.about]
  /\ \A m \in sent : m.what = "answer" =>
       /\ m.re \in Requests /\ m.to = m.re /\ workload = "oracle"
       /\ charges[m.re] > 0 /\ credited[m.re] >= charges[m.re]

(* Without a race, what is served is the oldest, and what waits for the queue  *)
(* is newer than all that is known.                                            *)
OrderInv ==
  ~Racing =>
    /\ ev # NoEvent => \A e \in Drainable(ack_seq, Want) : ev.inbox_seq <= e.inbox_seq
    /\ \A e \in numbered : \A f \in Known \ {e} : f.inbox_seq < e.inbox_seq

(* A request is settled by one event.  While it is live although an answer to  *)
(* it was sent, one call was lost, and that answer holds the key the next      *)
(* attempt will use.                                                           *)
AnswerTo(m, e) == m.what = "answer" /\ e.kind = "settled" /\ e.about = m.re

Retried(m, e) ==
  /\ faults = 1 /\ m.seq = seq
  /\ e \notin numbered
  /\ ev # NoEvent => ev = e
  /\ \A f \in Drainable(ack_seq, Want) : e.inbox_seq <= f.inbox_seq

OneSettlement ==
  \A e \in Known, f \in Known :
    e.kind = "settled" /\ f.kind = "settled" /\ e.about = f.about => e = f

OneAnswer ==
  \A m \in sent, n \in sent :
    m.what = "answer" /\ n.what = "answer" /\ m.re = n.re => m = n

OnceInv ==
  /\ OneSettlement
  /\ ~Racing /\ faults <= 1 =>
       OneAnswer /\ \A m \in sent, e \in Live : AnswerTo(m, e) => Retried(m, e)

LoopAssumption == GenomeAssumption /\ InboxAssumption
LoopInv == QueueInv /\ PlanInv /\ PaidInv /\ OrderInv /\ OnceInv

(* The assumptions on the constants, in the form the provers use.              *)
LEMMA LoopBounds ==
  ASSUME LoopAssumption
  PROVE  /\ Quotes \subseteq Nat \ {0} /\ MinCharge \in Nat /\ Racing \in BOOLEAN
         /\ NoEvent \notin Event
         /\ Workloads \subseteq {"oracle", "earn", "capable"}
BY DEF LoopAssumption, GenomeAssumption, InboxAssumption, Event, Kinds

(* The queue's oldest event is one of it, and there is one as long as it is    *)
(* not empty (min_by_key, pop_front).                                          *)
LEMMA OldestIsThere ==
  ASSUME NEW S, IsFiniteSet(S), S # {}, S \subseteq Event
  PROVE  Oldest(S) \in S /\ \A f \in S : Oldest(S).inbox_seq <= f.inbox_seq
<1> DEFINE age == [e \in S |-> -(e.inbox_seq)]
<1>1. age \in [S -> Int]
  BY DEF Event
<1>2. PICK x \in S : \A y \in S : age[x] >= age[y]
  <2> HIDE DEF age
  <2> QED
    BY <1>1, FirstExists
<1>3. \A f \in S : x.inbox_seq <= f.inbox_seq
  BY <1>2 DEF Event
<1> QED
  BY <1>3 DEF Oldest

(* What a poll leaves in the queue.                                            *)
LEMMA PruneKeeps ==
  ASSUME QueueInv, Prune(ack_seq)
  PROVE  inner' \subseteq inner /\ IsFiniteSet(inner')
<1>1. inner' \subseteq inner
  BY DEF Prune, After
<1> QED
  BY <1>1, FS_Subset DEF QueueInv

(* What the producer's turn at the queue changes: its event goes in, at most   *)
(* the oldest goes out.                                                        *)
LEMMA EnqueueKeeps ==
  ASSUME QueueInv, NEW x \in numbered, Enqueue(x)
  PROVE  /\ inner' \subseteq inner \cup {x} /\ x \in inner' /\ IsFiniteSet(inner')
         /\ numbered' = numbered \ {x} /\ UNCHANGED <<next_seq, seen>>
<1>1. IsFiniteSet(inner) /\ IsFiniteSet(inner \ {Oldest(inner)})
  BY FS_RemoveElement DEF QueueInv
<1>2. IsFiniteSet(inner \cup {x}) /\ IsFiniteSet((inner \ {Oldest(inner)}) \cup {x})
  BY <1>1, FS_AddElement
<1> QED
  BY <1>2 DEF Enqueue

(* What a poll offers is in the queue, past the cursor, and of a wanted kind.  *)
LEMMA PolledIsOldest ==
  ASSUME QueueInv, Drainable(ack_seq, Want) # {}
  PROVE  LET e == Oldest(Drainable(ack_seq, Want)) IN
         /\ e \in inner /\ e.inbox_seq > ack_seq /\ e.kind \in Want
         /\ \A f \in Drainable(ack_seq, Want) : e.inbox_seq <= f.inbox_seq
<1> DEFINE D == Drainable(ack_seq, Want)
<1>1. D \subseteq inner
  BY DEF Drainable, After
<1>2. IsFiniteSet(D) /\ D \subseteq Event
  BY <1>1, FS_Subset DEF QueueInv, Known
<1>3. Oldest(D) \in D /\ \A f \in D : Oldest(D).inbox_seq <= f.inbox_seq
  <2>1. D # {}
    OBVIOUS
  <2> HIDE DEF D
  <2> QED
    BY <1>2, <2>1, OldestIsThere
<1> QED
  BY <1>1, <1>3 DEF Drainable, After

(* Every step keeps the numbers of the events apart and the tick at its event. *)
LEMMA QueueStep ==
  ASSUME LoopAssumption, QueueInv, PlanInv, [Next]_vars
  PROVE  QueueInv'
<1> USE LoopBounds
<1>1. ASSUME NEW r \in Requests, screen_and_enqueue(r)
      PROVE  QueueInv'
  BY <1>1
  DEF screen_and_enqueue, push_typed_once, push_typed,
      InboxEvent, genomeVars, daemonVars, QueueInv, Known,
      Serving, Event, Kinds, Want
<1>2. ASSUME NEW r \in Requests, NEW short \in {0, 1}, Settle(r, charges[r] - short)
      PROVE  QueueInv'
  <2>1. charges[r] - short \in Nat
    BY <1>2 DEF QueueInv, Settle
  <2>2. InboxEvent("settled", r, charges[r] - short) \in Event
    BY <2>1 DEF InboxEvent, QueueInv, Event, Kinds
  <2>3. numbered' = numbered \cup {InboxEvent("settled", r, charges[r] - short)}
        /\ next_seq' = next_seq + 1 /\ inner' = inner
        /\ credited' = [credited EXCEPT ![r] = charges[r] - short]
        /\ UNCHANGED <<workload, genomeVars, charges, checkpoint, faults>>
    BY <1>2 DEF Settle, push_typed
  <2>4. InboxEvent("settled", r, charges[r] - short).inbox_seq = next_seq
    BY DEF InboxEvent
  <2> HIDE DEF InboxEvent
  <2> QED
    BY <2>1, <2>2, <2>3, <2>4
    DEF genomeVars, QueueInv, Known, Serving, Event, Kinds, Want
<1>3. ASSUME NEW x \in numbered, Delivered(x)
      PROVE  QueueInv'
  <2>1. Enqueue(x) /\ UNCHANGED <<workload, genomeVars, daemonVars, faults>>
    BY <1>3 DEF Delivered
  <2>2. IsFiniteSet(inner') /\ inner' \subseteq inner \cup {x} /\ numbered' = numbered \ {x}
        /\ next_seq' = next_seq
    BY <2>1, EnqueueKeeps
  <2> QED
    BY <2>1, <2>2 DEF genomeVars, daemonVars, QueueInv, Known, Want
<1>4. CASE IdleTick
  <2>1. IsFiniteSet(inner') /\ inner' \subseteq inner /\ faults' \in Nat
        /\ numbered' = numbered /\ next_seq' = next_seq
    BY <1>4, PruneKeeps DEF IdleTick, Prune, inboxVars, Fault, QueueInv
  <2> QED
    BY <1>4, <2>1
    DEF IdleTick, EndTick, tick_commits_seq, seq, QueueInv, Known,
        Serving, Want
<1>5. ASSUME NEW x \in inner \cup ({ev} \ {NoEvent}), Take(x)
      PROVE  QueueInv'
  <2>1. IsFiniteSet(inner') /\ inner' \subseteq inner
        /\ numbered' = numbered /\ next_seq' = next_seq
    BY <1>5, PruneKeeps DEF Take, Prune, inboxVars, QueueInv
  <2>2. x \in Known /\ x.inbox_seq > ack_seq /\ x.kind \in Want
    BY <1>5, PolledIsOldest DEF Take, QueueInv, Known
  <2>3. UNCHANGED <<workload, charges, credited, checkpoint, faults>>
    BY <1>5 DEF Take, daemonVars
  <2>4. CASE Consume(x)
    BY <2>1, <2>2, <2>3, <2>4
    DEF Consume, EndTick, tick_commits_seq, seq, QueueInv, Known,
        Serving, Event, Want
  <2>5. CASE pc' = FirstCall(x) /\ ev' = x /\ UNCHANGED <<committed, ack_seq>>
    <3>1. pc' \in {"answer", "books", "think"} /\ (pc' = "answer" <=> x.kind = "settled")
      BY <2>2, <2>5 DEF FirstCall, QueueInv, Known, Event, Kinds
    <3>2. ev' # NoEvent /\ ev' \in Known
      BY <2>2, <2>5 DEF QueueInv
    <3> QED
      BY <2>1, <2>2, <2>3, <2>5, <3>1, <3>2
      DEF QueueInv, Known, Serving, Event, Kinds, Want
  <2> QED
    BY <1>5, <2>4, <2>5 DEF Take
<1>6. CASE ThinkPerformed
  BY <1>6
  DEF ThinkPerformed, FollowPlan, Consume, EndTick,
      tick_commits_seq, seq, inboxVars, QueueInv, Known,
      Serving, Event, Kinds, Want
<1>7. CASE ThinkTransient
  BY <1>7
  DEF ThinkTransient, think_transient_or_consume, Transient,
      Fault, Consume, EndTick, tick_commits_seq, seq,
      inboxVars, QueueInv, Known, Serving, Event, Kinds, Want
<1>8. CASE ThinkBroke
  BY <1>8
  DEF ThinkBroke, inboxVars, daemonVars, QueueInv, Known,
      Serving, Event, Kinds, Want
<1>9. CASE ChargeRefused
  BY <1>9
  DEF ChargeRefused, Consume, EndTick, tick_commits_seq,
      seq, inboxVars, daemonVars, QueueInv, Known, Serving,
      Event, Kinds, Want
<1>10. CASE ChargeIssued
  BY <1>10
  DEF ChargeIssued, Issue, Consume, EndTick,
      tick_commits_seq, seq, inboxVars, QueueInv, Known,
      Serving, Event, Kinds, Want, PlanInv
<1>11. CASE ChargeLost
  BY <1>11
  DEF ChargeLost, Issue, Fault, Transient, EndTick,
      tick_commits_seq, seq, inboxVars, QueueInv, Known,
      Serving, Event, Kinds, Want, PlanInv
<1>12. CASE ReplySent
  BY <1>12
  DEF ReplySent, ReplyDone, Settled, Consume,
      EndTick, tick_commits_seq, seq, inboxVars,
      Sends, QueueInv, Known, Serving, Event, Kinds, Want
<1>13. CASE ReplyLost
  BY <1>13
  DEF ReplyLost, Fault, Transient, EndTick,
      tick_commits_seq, seq, inboxVars, Sends, QueueInv,
      Known, Serving, Event, Kinds, Want
<1>14. CASE Reboot
  BY <1>14, FS_EmptySet
  DEF Reboot, Fault, daemonVars, QueueInv, Known, Serving, Event, Kinds,
      Want
<1>15. CASE UNCHANGED vars
  BY <1>15
  DEF vars, inboxVars, genomeVars, daemonVars, QueueInv,
      Known, Serving, Event, Kinds, Want
<1> QED
  BY <1>1, <1>2, <1>3, <1>4, <1>5, <1>6, <1>7, <1>8, <1>9, <1>10, <1>11,
     <1>12, <1>13, <1>14, <1>15
     DEF Next, Tick

(* Every step keeps the quotes positive.                                       *)
LEMMA PlanStep ==
  ASSUME LoopAssumption, QueueInv, PlanInv, [Next]_vars
  PROVE  PlanInv'
<1> USE LoopBounds
<1>1. ASSUME NEW r \in Requests, screen_and_enqueue(r)
      PROVE  PlanInv'
  BY <1>1
  DEF screen_and_enqueue, push_typed_once, push_typed,
      InboxEvent, genomeVars, daemonVars, PlanInv, QueueInv,
      Serving
<1>2. ASSUME NEW r \in Requests, NEW short \in {0, 1}, Settle(r, charges[r] - short)
      PROVE  PlanInv'
  BY <1>2
  DEF Settle, push_typed, InboxEvent, genomeVars, PlanInv,
      QueueInv, Serving
<1>3. ASSUME NEW x \in numbered, Delivered(x)
      PROVE  PlanInv'
  BY <1>3
  DEF Delivered, Enqueue, genomeVars, daemonVars, PlanInv,
      QueueInv, Serving
<1>4. CASE IdleTick
  <2>1. pc' = "idle" /\ workload' = workload
    BY <1>4 DEF IdleTick, EndTick
  <2>2. workload = "capable" \/ thoughts' = thoughts
    BY <1>4 DEF IdleTick
  <2> QED
    BY <2>1, <2>2 DEF PlanInv
<1>5. ASSUME NEW x \in inner \cup ({ev} \ {NoEvent}), Take(x)
      PROVE  PlanInv'
  <2>1. UNCHANGED <<workload, thoughts>>
    BY <1>5 DEF Take, daemonVars
  <2>2. pc' = "idle" \/ pc' = FirstCall(x)
    BY <1>5 DEF Take, Consume, EndTick
  <2>3. pc' \notin {"charge", "invoice"}
    BY <2>2 DEF FirstCall
  <2> QED
    BY <2>1, <2>3 DEF PlanInv
<1>6. CASE ThinkPerformed
  <2>1. PICK t \in Completions : thoughts' = thoughts \cup {t} /\ FollowPlan(t)
    BY <1>6 DEF ThinkPerformed
  <2>2. workload # "capable" => t.sats \in Nat \ {0}
    BY DEF Completions, Plans, PlanInv
  <2>3. workload' = workload
    BY <1>6 DEF ThinkPerformed
  <2>4. plan'.sats \in Nat \ {0} \/ pc' \notin {"charge", "invoice"}
    <3>1. CASE workload # "capable" /\ pc' = "charge" /\ plan' = [t EXCEPT !.sats = Charged(t)]
      <4>1. Charged(t) \in Nat \ {0}
        BY <2>2, <3>1 DEF Charged
      <4>2. t \in thoughts \/ t \in [seq : {seq}, about : {ev.about}, action : {t.action}, sats : {t.sats}]
        BY DEF Completions, Plans
      <4> QED
        BY <3>1, <4>1, <4>2
    <3>2. CASE pc' \in {"reply", "idle"}
      BY <3>2
    <3> QED
      BY <2>1, <3>1, <3>2 DEF FollowPlan, EndTick, Consume
  <2> QED
    BY <2>1, <2>2, <2>3, <2>4 DEF PlanInv
<1>7. CASE ThinkTransient
  <2>1. pc' = "idle" /\ workload' = workload
    BY <1>7 DEF ThinkTransient, think_transient_or_consume, Consume,
            Transient, EndTick
  <2>2. \A t \in Completions : workload # "capable" => t.sats \in Nat \ {0}
    BY DEF Completions, Plans, PlanInv
  <2> QED
    BY <1>7, <2>1, <2>2 DEF ThinkTransient, PlanInv
<1>8. CASE ThinkBroke
  BY <1>8
  DEF ThinkBroke, inboxVars, daemonVars, PlanInv, QueueInv,
      Serving
<1>9. CASE ChargeRefused
  BY <1>9
  DEF ChargeRefused, Consume, EndTick, tick_commits_seq,
      seq, inboxVars, daemonVars, PlanInv, QueueInv, Serving
<1>10. CASE ChargeIssued
  BY <1>10
  DEF ChargeIssued, Issue, Consume, EndTick,
      tick_commits_seq, seq, inboxVars, PlanInv, QueueInv,
      Serving
<1>11. CASE ChargeLost
  BY <1>11
  DEF ChargeLost, Issue, Fault, Transient, EndTick,
      tick_commits_seq, seq, inboxVars, PlanInv, QueueInv,
      Serving
<1>12. CASE ReplySent
  BY <1>12
  DEF ReplySent, ReplyDone, Settled, Consume,
      EndTick, tick_commits_seq, seq, inboxVars,
      Sends, PlanInv, QueueInv, Serving
<1>13. CASE ReplyLost
  BY <1>13
  DEF ReplyLost, Fault, Transient, EndTick,
      tick_commits_seq, seq, inboxVars, Sends, PlanInv,
      QueueInv, Serving
<1>14. CASE Reboot
  BY <1>14
  DEF Reboot, Fault, daemonVars, PlanInv, QueueInv, Serving
<1>15. CASE UNCHANGED vars
  BY <1>15
  DEF vars, inboxVars, genomeVars, daemonVars, PlanInv,
      QueueInv, Serving
<1> QED
  BY <1>1, <1>2, <1>3, <1>4, <1>5, <1>6, <1>7, <1>8, <1>9, <1>10, <1>11,
     <1>12, <1>13, <1>14, <1>15
     DEF Next, Tick

(* An answer is sent about the settlement being served, to who paid it.        *)
LEMMA AnswerIsPaid ==
  ASSUME LoopAssumption, QueueInv, PaidInv, NEW ok, pc = "answer"
  PROVE  /\ Message(ok).what = "answer" /\ Message(ok).seq = seq
         /\ Message(ok).re = ev.about /\ Message(ok).to = ev.about
         /\ ev \in Known /\ ev.about \in Requests /\ ev.kind = "settled" /\ workload = "oracle"
         /\ charges[ev.about] > 0 /\ credited[ev.about] >= charges[ev.about]
<1>1. ev \in Known /\ ev \in Event /\ ev.kind = "settled" /\ ev.kind \in Want
  BY DEF QueueInv, Serving, Known
<1>2. workload = "oracle"
  BY <1>1 DEF Want, QueueInv
<1> QED
  BY <1>1, <1>2 DEF Message, PaidInv, Event

(* What the door may add to the messages sent.                                 *)
LEMMA OneMessage ==
  ASSUME ReplySent \/ ReplyLost
  PROVE  /\ pc \in Sends
         /\ \/ sent' = sent
            \/ ~Recorded /\ \E ok \in BOOLEAN : sent' = sent \cup {Message(ok)}
         /\ UNCHANGED <<workload, inner, numbered, thoughts, charges, credited>>
<1>1. CASE ReplySent
  BY <1>1 DEF ReplySent, inboxVars
<1>2. CASE ReplyLost
  BY <1>2 DEF ReplyLost, inboxVars
<1> QED
  BY <1>1, <1>2
(* Every step keeps charge, settlement and answer to one amount.               *)
LEMMA PaidStep ==
  ASSUME LoopAssumption, QueueInv, PlanInv, PaidInv, [Next]_vars
  PROVE  PaidInv'
<1> USE LoopBounds
<1>1. ASSUME NEW r \in Requests, screen_and_enqueue(r)
      PROVE  PaidInv'
  BY <1>1
  DEF screen_and_enqueue, push_typed_once, push_typed,
      InboxEvent, genomeVars, daemonVars, PlanInv, QueueInv,
      PaidInv, Known, Serving, Event, Kinds, Want
<1>2. ASSUME NEW r \in Requests, NEW short \in {0, 1}, Settle(r, charges[r] - short)
      PROVE  PaidInv'
  <2> DEFINE e == InboxEvent("settled", r, charges[r] - short)
  <2>1. numbered' = numbered \cup {e} /\ inner' = inner /\ charges[r] - short > 0 /\ credited[r] = 0
        /\ credited' = [credited EXCEPT ![r] = charges[r] - short]
        /\ UNCHANGED <<workload, genomeVars, charges, sent, thoughts>>
    BY <1>2 DEF Settle, push_typed
  <2>2. e.about = r /\ e.kind = "settled" /\ e.sats = charges[r] - short
    BY DEF InboxEvent
  <2> HIDE DEF e
  <2>3. Known' = Known \cup {e}
    BY <2>1 DEF Known, genomeVars
  <2>4. \A f \in Known : f.kind = "settled" => f.about # r
    BY <2>1 DEF PaidInv
  <2>5. \A f \in Known' : f.kind = "settled" => f.sats = credited'[f.about] /\ f.sats > 0
    BY <2>1, <2>2, <2>3, <2>4 DEF PaidInv, QueueInv, Event
  <2>6. \A m \in sent : m.what = "answer" => m.re # r
    BY <2>1 DEF PaidInv, QueueInv
  <2> QED
    BY <2>1, <2>5, <2>6 DEF PaidInv, QueueInv, genomeVars
<1>3. ASSUME NEW x \in numbered, Delivered(x)
      PROVE  PaidInv'
  <2>1. Known' \subseteq Known /\ UNCHANGED <<workload, genomeVars, daemonVars, faults>>
    BY <1>3, EnqueueKeeps DEF Delivered, Known, genomeVars
  <2> QED
    BY <2>1 DEF genomeVars, daemonVars, PaidInv
<1>4. CASE IdleTick
  <2>1. Known' \subseteq Known
    BY <1>4, PruneKeeps DEF IdleTick, Prune, inboxVars, Known
  <2> QED
    BY <1>4, <2>1 DEF IdleTick, EndTick, Waiting, PaidInv
<1>5. ASSUME NEW x \in inner \cup ({ev} \ {NoEvent}), Take(x)
      PROVE  PaidInv'
  <2>1. x \in Known /\ x.kind \in Want
    BY <1>5, PolledIsOldest DEF Take, QueueInv, Known
  <2>2. Known' \subseteq Known
    BY <1>5, <2>1, PruneKeeps
    DEF Take, Prune, inboxVars, Known, Consume
  <2>3. UNCHANGED <<workload, charges, credited, checkpoint, faults, sent>> /\ pending' \subseteq pending
    BY <1>5 DEF Take, daemonVars, Waiting
  <2>4. pc' \notin {"charge", "invoice"}
    BY <1>5 DEF Take, Consume, EndTick, FirstCall
  <2>5. pc' = "answer" => charges'[ev'.about] > 0 /\ ev'.sats >= charges'[ev'.about]
    <3> SUFFICES ASSUME pc' = "answer"
                 PROVE  charges'[ev'.about] > 0 /\ ev'.sats >= charges'[ev'.about]
      OBVIOUS
    <3>1. ~Unanswerable(x) /\ pc' = FirstCall(x) /\ ev' = x
      BY <1>5 DEF Take, Consume, EndTick
    <3>2. x.kind = "settled"
      BY <3>1 DEF FirstCall
    <3>3. PICK p \in Matches(x) : x.sats >= p.sats
      BY <3>1, <3>2 DEF Unanswerable
    <3>4. p \in pending /\ p.about = x.about
      BY DEF Matches, Waiting
    <3> QED
      BY <3>1, <3>3, <3>4, <2>3 DEF PaidInv
  <2> QED
    BY <2>2, <2>3, <2>4, <2>5 DEF PaidInv
<1>6. CASE ThinkPerformed
  BY <1>6
  DEF ThinkPerformed, FollowPlan, Consume, EndTick,
      tick_commits_seq, seq, inboxVars, PlanInv, QueueInv,
      PaidInv, Known, Serving, Event, Kinds, Want
<1>7. CASE ThinkTransient
  BY <1>7
  DEF ThinkTransient, think_transient_or_consume, Transient,
      Fault, Consume, EndTick, tick_commits_seq, seq,
      inboxVars, PlanInv, QueueInv, PaidInv, Known, Serving, Event,
      Kinds, Want
<1>8. CASE ThinkBroke
  BY <1>8
  DEF ThinkBroke, inboxVars, daemonVars, PlanInv, QueueInv,
      PaidInv, Known, Serving, Event, Kinds, Want
<1>9. CASE ChargeRefused
  BY <1>9
  DEF ChargeRefused, Consume, EndTick, tick_commits_seq,
      seq, inboxVars, daemonVars, PlanInv, QueueInv, PaidInv,
      Known, Serving, Event, Kinds, Want
<1>10. CASE ChargeIssued
  BY <1>10
  DEF ChargeIssued, Issue, Consume, EndTick,
      tick_commits_seq, seq, inboxVars, PlanInv, QueueInv,
      PaidInv, Known, Serving, Event, Kinds, Want
<1>11. CASE ChargeLost
  BY <1>11
  DEF ChargeLost, Issue, Fault, Transient, EndTick,
      tick_commits_seq, seq, inboxVars, PlanInv, QueueInv,
      PaidInv, Known, Serving, Event, Kinds, Want
<1>12. CASE ReplySent
  <2>1. Known' \subseteq Known /\ pc' = "idle"
    BY <1>12, OneMessage DEF ReplySent, ReplyDone, Consume, EndTick, Known
  <2>2. \A m \in sent' : m.what = "answer" =>
          m \in sent \/ \E ok \in BOOLEAN : m = Message(ok) /\ pc = "answer"
    BY <1>12, OneMessage DEF Message
  <2>3. \A m \in sent' : m.what = "answer" =>
          /\ m.re \in Requests /\ m.to = m.re /\ workload = "oracle"
          /\ charges[m.re] > 0 /\ credited[m.re] >= charges[m.re]
    BY <2>2, AnswerIsPaid DEF PaidInv
  <2>4. \A p \in pending' : p.about \in Requests /\ p.sats \in Nat \ {0}
                            /\ p.sats = charges[p.about]
    <3>1. CASE pc = "invoice"
      <4>1. ev.about \in Requests
        BY <3>1 DEF QueueInv, Serving, Known, Event
      <4> QED
        BY <1>12, <3>1, <4>1 DEF ReplySent, ReplyDone, Settled, PaidInv, PlanInv
    <3>2. CASE pc # "invoice"
      BY <1>12, <3>2 DEF ReplySent, ReplyDone, Settled, PaidInv
    <3> QED
      BY <3>1, <3>2
  <2> QED
    BY <1>12, OneMessage, <2>1, <2>3, <2>4 DEF PaidInv
<1>13. CASE ReplyLost
  <2>1. Known' \subseteq Known /\ pc' = "idle" /\ pending' = pending
    BY <1>13, OneMessage DEF ReplyLost, Transient, EndTick, Known
  <2>2. \A m \in sent' : m.what = "answer" =>
          m \in sent \/ \E ok \in BOOLEAN : m = Message(ok) /\ pc = "answer"
    BY <1>13, OneMessage DEF Message
  <2>3. \A m \in sent' : m.what = "answer" =>
          /\ m.re \in Requests /\ m.to = m.re /\ workload = "oracle"
          /\ charges[m.re] > 0 /\ credited[m.re] >= charges[m.re]
    BY <2>2, AnswerIsPaid DEF PaidInv
  <2> QED
    BY <1>13, OneMessage, <2>1, <2>3 DEF PaidInv
<1>14. CASE Reboot
  BY <1>14
  DEF Reboot, Fault, daemonVars, PlanInv, QueueInv, PaidInv,
      Known, Serving, Event, Kinds, Want
<1>15. CASE UNCHANGED vars
  BY <1>15
  DEF vars, inboxVars, genomeVars, daemonVars, PlanInv,
      QueueInv, PaidInv, Known, Serving, Event, Kinds, Want
<1> QED
  BY <1>1, <1>2, <1>3, <1>4, <1>5, <1>6, <1>7, <1>8, <1>9, <1>10, <1>11,
     <1>12, <1>13, <1>14, <1>15
     DEF Next, Tick

(* Every step keeps the order of the events, as long as producers do not race. *)
LEMMA OrderStep ==
  ASSUME LoopAssumption, ~Racing, QueueInv, OrderInv, [Next]_vars
  PROVE  OrderInv'
<1> USE LoopBounds
<1>1. ASSUME NEW r \in Requests, screen_and_enqueue(r)
      PROVE  OrderInv'
  <2> DEFINE e == InboxEvent(IF workload = "earn" THEN "job" ELSE "dm", r, 0)
  <2>1. numbered = {} /\ numbered' = numbered \cup {e} /\ inner' = inner
        /\ UNCHANGED <<workload, genomeVars>>
    BY <1>1 DEF screen_and_enqueue, push_typed_once, push_typed
  <2>2. e.inbox_seq = next_seq
    BY DEF InboxEvent
  <2> HIDE DEF e
  <2>3. \A f \in Known' : f = e \/ f.inbox_seq < e.inbox_seq
    BY <2>1, <2>2 DEF Known, QueueInv, genomeVars
  <2>4. ev' # NoEvent => \A f \in Drainable(ack_seq, Want)' : ev'.inbox_seq <= f.inbox_seq
    BY <2>1 DEF OrderInv, Drainable, After, Want, genomeVars
  <2> QED
    BY <2>1, <2>3, <2>4 DEF OrderInv
<1>2. ASSUME NEW r \in Requests, NEW short \in {0, 1}, Settle(r, charges[r] - short)
      PROVE  OrderInv'
  <2> DEFINE e == InboxEvent("settled", r, charges[r] - short)
  <2>1. numbered = {} /\ numbered' = numbered \cup {e} /\ inner' = inner
        /\ UNCHANGED <<workload, genomeVars>>
    BY <1>2 DEF Settle, push_typed_once, push_typed
  <2>2. e.inbox_seq = next_seq
    BY DEF InboxEvent
  <2> HIDE DEF e
  <2>3. \A f \in Known' : f = e \/ f.inbox_seq < e.inbox_seq
    BY <2>1, <2>2 DEF Known, QueueInv, genomeVars
  <2>4. ev' # NoEvent => \A f \in Drainable(ack_seq, Want)' : ev'.inbox_seq <= f.inbox_seq
    BY <2>1 DEF OrderInv, Drainable, After, Want, genomeVars
  <2> QED
    BY <2>1, <2>3, <2>4 DEF OrderInv
<1>3. ASSUME NEW x \in numbered, Delivered(x)
      PROVE  OrderInv'
  <2>1. /\ Known' \subseteq Known /\ numbered' \subseteq numbered /\ inner' \subseteq inner \cup {x}
        /\ UNCHANGED <<workload, genomeVars>>
    BY <1>3, EnqueueKeeps DEF Delivered, Known, genomeVars
  <2>2. ev # NoEvent => ev.inbox_seq <= x.inbox_seq
    BY DEF OrderInv, Known, QueueInv, Event
  <2>3. Drainable(ack_seq, Want)' \subseteq Drainable(ack_seq, Want) \cup {x}
    BY <2>1 DEF Drainable, After, Want, genomeVars
  <2>4. ev' = ev
    BY <2>1 DEF genomeVars
  <2> QED
    BY <2>1, <2>2, <2>3, <2>4 DEF OrderInv
<1>4. CASE IdleTick
  <2>1. Known' \subseteq Known /\ numbered' = numbered /\ ev' = NoEvent
    BY <1>4, PruneKeeps DEF IdleTick, Prune, inboxVars, Known
  <2> QED
    BY <2>1 DEF OrderInv
<1>5. ASSUME NEW x \in inner \cup ({ev} \ {NoEvent}), Take(x)
      PROVE  OrderInv'
  <2>1. x \in Known
    BY <1>5, PolledIsOldest DEF Take, Known
  <2>2. Known' \subseteq Known /\ numbered' = numbered
    BY <1>5, <2>1, PruneKeeps
    DEF Take, Prune, inboxVars, Known, Consume
  <2>3. CASE ev' = NoEvent
    BY <2>2, <2>3 DEF OrderInv
  <2>4. CASE ev' = x /\ UNCHANGED <<ack_seq, workload>>
    <3>1. Drainable(ack_seq, Want)' = Drainable(ack_seq, Want)
      BY <1>5, <2>4
      DEF Take, Prune, inboxVars, Drainable, After, Want
    <3>2. \A f \in Drainable(ack_seq, Want) : x.inbox_seq <= f.inbox_seq
      BY <1>5, PolledIsOldest DEF Take, OrderInv
    <3> QED
      BY <2>2, <2>4, <3>1, <3>2 DEF OrderInv
  <2> QED
    BY <1>5, <2>3, <2>4 DEF Take, Consume
<1>6. CASE ThinkPerformed
  BY <1>6
  DEF ThinkPerformed, FollowPlan, Consume, EndTick,
      tick_commits_seq, seq, inboxVars, QueueInv, OrderInv,
      Known, Serving, Drainable, After, Want
<1>7. CASE ThinkTransient
  BY <1>7
  DEF ThinkTransient, think_transient_or_consume, Transient,
      Fault, Consume, EndTick, tick_commits_seq, seq,
      inboxVars, QueueInv, OrderInv, Known, Serving, Drainable,
      After, Want
<1>8. CASE ThinkBroke
  BY <1>8
  DEF ThinkBroke, inboxVars, daemonVars, QueueInv, OrderInv,
      Known, Serving, Drainable, After, Want
<1>9. CASE ChargeRefused
  BY <1>9
  DEF ChargeRefused, Consume, EndTick, tick_commits_seq,
      seq, inboxVars, daemonVars, QueueInv, OrderInv, Known,
      Serving, Drainable, After, Want
<1>10. CASE ChargeIssued
  BY <1>10
  DEF ChargeIssued, Issue, Consume, EndTick,
      tick_commits_seq, seq, inboxVars, QueueInv, OrderInv,
      Known, Serving, Drainable, After, Want
<1>11. CASE ChargeLost
  BY <1>11
  DEF ChargeLost, Issue, Fault, Transient, EndTick,
      tick_commits_seq, seq, inboxVars, QueueInv, OrderInv,
      Known, Serving, Drainable, After, Want
<1>12. CASE ReplySent
  BY <1>12
  DEF ReplySent, ReplyDone, Settled, Consume,
      EndTick, tick_commits_seq, seq, inboxVars,
      Sends, QueueInv, OrderInv, Known, Serving, Drainable,
      After, Want
<1>13. CASE ReplyLost
  BY <1>13
  DEF ReplyLost, Fault, Transient, EndTick,
      tick_commits_seq, seq, inboxVars, Sends, QueueInv,
      OrderInv, Known, Serving, Drainable, After, Want
<1>14. CASE Reboot
  BY <1>14
  DEF Reboot, Fault, daemonVars, QueueInv, OrderInv, Known,
      Serving, Drainable, After, Want
<1>15. CASE UNCHANGED vars
  BY <1>15
  DEF vars, inboxVars, genomeVars, daemonVars, QueueInv,
      OrderInv, Known, Serving, Drainable, After, Want
<1> QED
  BY <1>1, <1>2, <1>3, <1>4, <1>5, <1>6, <1>7, <1>8, <1>9, <1>10, <1>11,
     <1>12, <1>13, <1>14, <1>15
     DEF Next, Tick

(* What leaves the messages alone and brings no event to life keeps the        *)
(* promise, if no settlement was live after its answer.                        *)
LEMMA NothingRetried ==
  ASSUME OnceInv, sent' = sent, Live' \subseteq Live, Known' \subseteq Known, faults' >= faults,
         QueueInv, faults' \in Nat,
         \A m \in sent, e \in Live : ~Racing /\ faults' <= 1 /\ AnswerTo(m, e) => e \notin Live'
  PROVE  OnceInv'
<1>1. OneSettlement'
  BY DEF OnceInv, OneSettlement
<1>2. ASSUME ~Racing, faults' <= 1
      PROVE  OneAnswer' /\ \A m \in sent', e \in Live' : AnswerTo(m, e)' => Retried(m, e)'
  <2>1. faults <= 1
    BY <1>2 DEF QueueInv
  <2>2. OneAnswer'
    BY <1>2, <2>1 DEF OnceInv, OneAnswer
  <2>3. \A m \in sent', e \in Live' : ~AnswerTo(m, e)
    BY <1>2
  <2>4. \A m, e : AnswerTo(m, e)' = AnswerTo(m, e)
    BY DEF AnswerTo
  <2> QED
    BY <2>2, <2>3, <2>4
<1> QED
  BY <1>1, <1>2 DEF OnceInv

(* A settlement that is live after its answer is what the genome serves next:  *)
(* it is not about to think or to charge.                                      *)
LEMMA RetriedIsServed ==
  ASSUME QueueInv, PaidInv, OnceInv, ~Racing, faults <= 1,
         NEW m \in sent, NEW e \in Live, AnswerTo(m, e)
  PROVE  /\ Retried(m, e) /\ pc \notin Serving \ {"answer"} /\ workload = "oracle"
         /\ e \in Known /\ (ev = NoEvent => e \in Drainable(ack_seq, Want))
<1>1. Retried(m, e)
  BY DEF OnceInv
<1>2. workload = "oracle" /\ e \in Known /\ e.inbox_seq > ack_seq
  BY DEF PaidInv, AnswerTo, Live
<1>3. ev = NoEvent => e \in Drainable(ack_seq, Want)
  BY <1>1, <1>2 DEF Retried, Known, Drainable, After, Want, AnswerTo
<1>4. pc \notin Serving \ {"answer"}
  BY <1>1 DEF Retried, QueueInv, AnswerTo
<1> QED
  BY <1>1, <1>2, <1>3, <1>4

(* A new answer goes out under a key that was not used.                        *)
LEMMA NewAnswer ==
  ASSUME ReplySent \/ ReplyLost
  PROVE  \A m \in sent' : m.what = "answer" =>
           \/ m \in sent
           \/ /\ ~Recorded /\ pc = "answer"
              /\ \E ok \in BOOLEAN : m = Message(ok)
<1> SUFFICES ASSUME NEW m \in sent', m.what = "answer", m \notin sent
             PROVE  /\ ~Recorded /\ pc = "answer"
                    /\ \E ok \in BOOLEAN : m = Message(ok)
  OBVIOUS
<1>1. ~Recorded /\ \E ok \in BOOLEAN : sent' = sent \cup {Message(ok)}
  BY OneMessage
<1>2. PICK ok \in BOOLEAN : m = Message(ok)
  BY <1>1
<1>3. pc = "answer"
  BY <1>2 DEF Message
<1> QED
  BY <1>1, <1>2, <1>3

(* The door lets no second answer out: the key of the first one is the next.   *)
LEMMA OneMoreAnswer ==
  ASSUME LoopAssumption, QueueInv, PaidInv, OnceInv, ~Racing, faults <= 1,
         ReplySent \/ ReplyLost
  PROVE  OneAnswer'
<1>1. \A m \in sent' : m.what = "answer" =>
        \/ m \in sent
        \/ /\ ~Recorded /\ pc = "answer"
           /\ \E ok \in BOOLEAN : m = Message(ok)
  BY NewAnswer
<1>2. ASSUME NEW m \in sent, NEW ok \in BOOLEAN, m.what = "answer", ~Recorded,
             pc = "answer", m.re = Message(ok).re
      PROVE  FALSE
  <2>1. ev \in Live /\ AnswerTo(m, ev)
    BY <1>2, AnswerIsPaid DEF Live, AnswerTo, QueueInv, Serving
  <2> QED
    BY <1>2, <2>1 DEF OnceInv, Retried, Recorded
<1>3. \A m, n \in sent : m.what = "answer" /\ n.what = "answer" /\ m.re = n.re => m = n
  BY DEF OnceInv, OneAnswer
<1>4. sent' = sent \/ \E ok \in BOOLEAN : sent' = sent \cup {Message(ok)}
  BY OneMessage
<1> QED
  BY <1>1, <1>2, <1>3, <1>4 DEF OneAnswer

(* Every step keeps a settlement answered once, as long as producers do not    *)
(* race and no second call is lost.                                            *)
LEMMA OnceStep ==
  ASSUME LoopAssumption, QueueInv, QueueInv', PaidInv, OrderInv, OnceInv, [Next]_vars
  PROVE  OnceInv'
<1> USE LoopBounds
<1>1. ASSUME NEW r \in Requests, screen_and_enqueue(r)
      PROVE  OnceInv'
  <2> DEFINE e == InboxEvent(IF workload = "earn" THEN "job" ELSE "dm", r, 0)
  <2>1. /\ numbered' = numbered \cup {e} /\ inner' = inner
        /\ UNCHANGED <<workload, genomeVars, sent, faults>>
    BY <1>1 DEF screen_and_enqueue, push_typed_once, push_typed, daemonVars
  <2>2. e.inbox_seq = next_seq /\ e.kind = (IF workload = "earn" THEN "job" ELSE "dm") /\ e.about = r
    BY DEF InboxEvent
  <2> HIDE DEF e
  <2>3. Known' = Known \cup {e} /\ Live' \subseteq Live \cup {e}
    BY <2>1 DEF Known, Live, genomeVars
  <2>4. Drainable(ack_seq, Want)' = Drainable(ack_seq, Want)
    BY <2>1 DEF Drainable, After, Want, genomeVars
  <2>5. \A f \in Known : f # e
    BY <2>2 DEF QueueInv
  <2>6. e.kind # "settled"
    BY <2>2
  <2>7. OneSettlement'
    BY <2>3, <2>6 DEF OnceInv, OneSettlement
  <2>8. ASSUME ~Racing, faults' <= 1
        PROVE  OneAnswer' /\ \A m \in sent', f \in Live' : AnswerTo(m, f)' => Retried(m, f)'
    <3>1. OneAnswer'
      BY <2>1, <2>8 DEF OnceInv, OneAnswer
    <3>2. ASSUME NEW m \in sent', NEW f \in Live', AnswerTo(m, f)'
          PROVE  Retried(m, f)'
      <4>1. f \in Live /\ f # e /\ AnswerTo(m, f)
        BY <2>3, <2>6, <2>1, <2>2, <3>2 DEF AnswerTo
      <4>2. Retried(m, f)
        BY <2>1, <2>8, <4>1 DEF OnceInv
      <4> QED
        BY <2>1, <2>4, <4>1, <4>2 DEF Retried, genomeVars, seq
    <3> QED
      BY <3>1, <3>2
  <2> QED
    BY <2>7, <2>8 DEF OnceInv
<1>2. ASSUME NEW r \in Requests, NEW short \in {0, 1}, Settle(r, charges[r] - short)
      PROVE  OnceInv'
  <2> DEFINE e == InboxEvent("settled", r, charges[r] - short)
  <2>1. /\ numbered' = numbered \cup {e} /\ inner' = inner
        /\ UNCHANGED <<workload, genomeVars, sent, faults>>
    BY <1>2 DEF Settle, push_typed_once, push_typed, daemonVars
  <2>2. e.inbox_seq = next_seq /\ e.kind = ("settled") /\ e.about = r
    BY DEF InboxEvent
  <2> HIDE DEF e
  <2>3. Known' = Known \cup {e} /\ Live' \subseteq Live \cup {e}
    BY <2>1 DEF Known, Live, genomeVars
  <2>4. Drainable(ack_seq, Want)' = Drainable(ack_seq, Want)
    BY <2>1 DEF Drainable, After, Want, genomeVars
  <2>5. \A f \in Known : f # e
    BY <2>2 DEF QueueInv
  <2>0. credited[r] = 0
    BY <1>2 DEF Settle
  <2>6. /\ \A f \in Known : f.kind = "settled" => f.about # r
        /\ \A m \in sent : m.what = "answer" => m.re # r
    BY <2>0 DEF PaidInv, QueueInv
  <2>7. OneSettlement'
    BY <2>2, <2>3, <2>6 DEF OnceInv, OneSettlement
  <2>8. ASSUME ~Racing, faults' <= 1
        PROVE  OneAnswer' /\ \A m \in sent', f \in Live' : AnswerTo(m, f)' => Retried(m, f)'
    <3>1. OneAnswer'
      BY <2>1, <2>8 DEF OnceInv, OneAnswer
    <3>2. ASSUME NEW m \in sent', NEW f \in Live', AnswerTo(m, f)'
          PROVE  Retried(m, f)'
      <4>1. f \in Live /\ f # e /\ AnswerTo(m, f)
        BY <2>3, <2>6, <2>1, <2>2, <3>2 DEF AnswerTo
      <4>2. Retried(m, f)
        BY <2>1, <2>8, <4>1 DEF OnceInv
      <4> QED
        BY <2>1, <2>4, <4>1, <4>2 DEF Retried, genomeVars, seq
    <3> QED
      BY <3>1, <3>2
  <2> QED
    BY <2>7, <2>8 DEF OnceInv
<1>3. ASSUME NEW x \in numbered, Delivered(x)
      PROVE  OnceInv'
  <2>1. /\ Known' \subseteq Known /\ numbered' \subseteq numbered /\ inner' \subseteq inner \cup {x}
        /\ UNCHANGED <<workload, sent, faults, genomeVars>>
    BY <1>3, EnqueueKeeps DEF Delivered, Known, genomeVars, daemonVars
  <2>2. Live' \subseteq Live
    BY <2>1 DEF Live, genomeVars
  <2>3. Drainable(ack_seq, Want)' \subseteq Drainable(ack_seq, Want) \cup {x}
    BY <2>1 DEF Drainable, After, Want, genomeVars
  <2>4. OneSettlement'
    BY <2>1 DEF OnceInv, OneSettlement
  <2>5. ASSUME ~Racing, faults' <= 1
        PROVE  OneAnswer' /\ \A m \in sent', f \in Live' : AnswerTo(m, f)' => Retried(m, f)'
    <3>1. OneAnswer'
      BY <2>1, <2>5 DEF OnceInv, OneAnswer
    <3>2. ASSUME NEW m \in sent', NEW f \in Live', AnswerTo(m, f)'
          PROVE  Retried(m, f)'
      <4>1. Retried(m, f)
        BY <2>1, <2>2, <2>5, <3>2 DEF OnceInv, AnswerTo
      <4>2. f \in Known /\ f # x
        BY <2>2, <4>1 DEF Retried, Live
      <4>3. f.inbox_seq <= x.inbox_seq
        BY <2>5, <4>2 DEF OrderInv, QueueInv, Event, Known
      <4> QED
        BY <2>1, <2>3, <4>1, <4>3 DEF Retried, genomeVars, seq
    <3> QED
      BY <3>1, <3>2
  <2> QED
    BY <2>4, <2>5 DEF OnceInv
<1>4. CASE IdleTick
  <2>1. /\ Known' \subseteq Known /\ sent' = sent /\ ack_seq' = ack_seq /\ faults' >= faults
        /\ faults' \in Nat /\ ev = NoEvent
        /\ (Drainable(ack_seq, Want) = {} \/ faults' = faults + 1)
    BY <1>4, PruneKeeps
    DEF IdleTick, Prune, inboxVars, Fault, Known, QueueInv
  <2>2. Live' \subseteq Live
    BY <2>1 DEF Live
  <2>3. ASSUME NEW m \in sent, NEW e \in Live, ~Racing, faults' <= 1, AnswerTo(m, e)
        PROVE  FALSE
    BY <2>1, <2>3, RetriedIsServed DEF Retried, QueueInv
  <2> QED
    BY <2>1, <2>2, <2>3, NothingRetried
<1>5. ASSUME NEW x \in inner \cup ({ev} \ {NoEvent}), Take(x)
      PROVE  OnceInv'
  <2>1. /\ x \in Known /\ x.inbox_seq > ack_seq /\ pc = "idle"
        /\ ev # NoEvent => x = ev
    BY <1>5, PolledIsOldest DEF Take, QueueInv, Known
  <2>2. Known' \subseteq Known /\ UNCHANGED <<workload, numbered, sent, faults>>
    BY <1>5, <2>1, PruneKeeps
    DEF Take, Prune, inboxVars, Known, Consume, daemonVars
  <2>3. ASSUME NEW m \in sent, NEW e \in Live, ~Racing, faults <= 1, AnswerTo(m, e)
        PROVE  e = x
    <3>1. Retried(m, e) /\ (ev = NoEvent => e \in Drainable(ack_seq, Want))
          /\ e \in Known
      BY <2>3, RetriedIsServed
    <3>2. CASE ev # NoEvent
      BY <2>1, <3>1, <3>2 DEF Retried
    <3>3. CASE ev = NoEvent
      <4>1. x \in Drainable(ack_seq, Want)
        BY <1>5, <3>3, PolledIsOldest DEF Take, Drainable, After
      <4>2. x.inbox_seq <= e.inbox_seq
        BY <1>5, <3>1, <3>3, PolledIsOldest DEF Take
      <4>3. e.inbox_seq <= x.inbox_seq
        BY <3>1, <4>1 DEF Retried
      <4> QED
        BY <2>1, <3>1, <4>2, <4>3 DEF QueueInv, Event
    <3> QED
      BY <3>2, <3>3
  <2>4. CASE Consume(x)
    <3>1. ack_seq' = x.inbox_seq
      BY <2>4 DEF Consume
    <3>2. Live' \subseteq Live /\ x \notin Live'
      BY <2>1, <2>2, <3>1 DEF Live, QueueInv, Event
    <3> QED
      BY <2>2, <2>3, <3>2, NothingRetried DEF QueueInv
  <2>5. CASE ev' = x /\ UNCHANGED <<ack_seq, committed>>
    <3>1. Drainable(ack_seq, Want)' = Drainable(ack_seq, Want)
      BY <1>5, <2>2, <2>5
      DEF Take, Prune, inboxVars, Drainable, After, Want
    <3>2. Live' \subseteq Live
      BY <2>2, <2>5 DEF Live
    <3>3. OneSettlement'
      BY <2>2 DEF OnceInv, OneSettlement
    <3>4. ASSUME ~Racing, faults' <= 1
          PROVE  OneAnswer' /\ \A m \in sent', f \in Live' : AnswerTo(m, f)' => Retried(m, f)'
      <4>1. OneAnswer'
        BY <2>2, <3>4 DEF OnceInv, OneAnswer
      <4>2. ASSUME NEW m \in sent', NEW f \in Live', AnswerTo(m, f)'
            PROVE  Retried(m, f)'
        <5>1. f = x /\ Retried(m, f)
          BY <2>2, <2>3, <3>2, <3>4, <4>2 DEF OnceInv, AnswerTo
        <5> QED
          BY <2>2, <2>5, <3>1, <5>1 DEF Retried, seq
      <4> QED
        BY <4>1, <4>2
    <3> QED
      BY <3>3, <3>4 DEF OnceInv
  <2> QED
    BY <1>5, <2>4, <2>5 DEF Take
<1>6. CASE ThinkPerformed
  <2>1. /\ Known' \subseteq Known /\ sent' = sent /\ ack_seq' >= ack_seq /\ faults' >= faults
        /\ faults' \in Nat /\ pc \in Serving \ {"answer"}
    BY <1>6
    DEF ThinkPerformed, FollowPlan, Consume, EndTick,
        tick_commits_seq, seq, inboxVars, QueueInv, Known,
        Serving, Event
  <2>2. Live' \subseteq Live
    BY <2>1 DEF Live, QueueInv, Event
  <2> QED
    BY <2>1, <2>2, NothingRetried, RetriedIsServed DEF QueueInv
<1>7. CASE ThinkTransient
  <2>1. /\ Known' \subseteq Known /\ sent' = sent /\ ack_seq' >= ack_seq /\ faults' >= faults
        /\ faults' \in Nat /\ pc \in Serving \ {"answer"}
    BY <1>7
    DEF ThinkTransient, think_transient_or_consume, Transient,
        Fault, Consume, EndTick, tick_commits_seq,
        seq, inboxVars, QueueInv, Known, Serving, Event
  <2>2. Live' \subseteq Live
    BY <2>1 DEF Live, QueueInv, Event
  <2> QED
    BY <2>1, <2>2, NothingRetried, RetriedIsServed DEF QueueInv
<1>8. CASE ThinkBroke
  <2>1. /\ Known' \subseteq Known /\ sent' = sent /\ ack_seq' >= ack_seq /\ faults' >= faults
        /\ faults' \in Nat /\ pc \in Serving \ {"answer"}
    BY <1>8
    DEF ThinkBroke, inboxVars, daemonVars, QueueInv, Known,
        Serving, Event
  <2>2. Live' \subseteq Live
    BY <2>1 DEF Live, QueueInv, Event
  <2> QED
    BY <2>1, <2>2, NothingRetried, RetriedIsServed DEF QueueInv
<1>9. CASE ChargeRefused
  <2>1. /\ Known' \subseteq Known /\ sent' = sent /\ ack_seq' >= ack_seq /\ faults' >= faults
        /\ faults' \in Nat /\ pc \in Serving \ {"answer"}
    BY <1>9
    DEF ChargeRefused, Consume, EndTick, tick_commits_seq,
        seq, inboxVars, daemonVars, QueueInv, Known, Serving,
        Event
  <2>2. Live' \subseteq Live
    BY <2>1 DEF Live, QueueInv, Event
  <2> QED
    BY <2>1, <2>2, NothingRetried, RetriedIsServed DEF QueueInv
<1>10. CASE ChargeIssued
  <2>1. /\ Known' \subseteq Known /\ sent' = sent /\ ack_seq' >= ack_seq /\ faults' >= faults
        /\ faults' \in Nat /\ pc \in Serving \ {"answer"}
    BY <1>10
    DEF ChargeIssued, Issue, Consume, EndTick,
        tick_commits_seq, seq, inboxVars, QueueInv, Known,
        Serving, Event
  <2>2. Live' \subseteq Live
    BY <2>1 DEF Live, QueueInv, Event
  <2> QED
    BY <2>1, <2>2, NothingRetried, RetriedIsServed DEF QueueInv
<1>11. CASE ChargeLost
  <2>1. /\ Known' \subseteq Known /\ sent' = sent /\ ack_seq' >= ack_seq /\ faults' >= faults
        /\ faults' \in Nat /\ pc \in Serving \ {"answer"}
    BY <1>11
    DEF ChargeLost, Issue, Fault, Transient, EndTick,
        tick_commits_seq, seq, inboxVars, QueueInv, Known,
        Serving, Event
  <2>2. Live' \subseteq Live
    BY <2>1 DEF Live, QueueInv, Event
  <2> QED
    BY <2>1, <2>2, NothingRetried, RetriedIsServed DEF QueueInv
<1>12. CASE ReplySent
  <2>1. /\ Known' \subseteq Known /\ faults' = faults /\ ack_seq' = ev.inbox_seq
        /\ ack_seq < ev.inbox_seq /\ pc \in Serving
    BY <1>12, OneMessage
    DEF ReplySent, ReplyDone, Consume, Known, QueueInv, Sends, Serving
  <2>2. Live' \subseteq Live /\ ev \notin Live'
    BY <2>1 DEF Live, QueueInv, Event, Known, Serving
  <2>3. \A m \in sent' : m.what = "answer" =>
          \/ m \in sent
          \/ /\ ~Recorded /\ pc = "answer"
             /\ \E ok \in BOOLEAN : m = Message(ok)
    BY <1>12, NewAnswer
  <2>4. OneSettlement'
    BY <2>1 DEF OnceInv, OneSettlement
  <2>5. ASSUME ~Racing, faults' <= 1
        PROVE  OneAnswer' /\ \A m \in sent', f \in Live' : AnswerTo(m, f)' => Retried(m, f)'
    <3>1. OneAnswer'
      BY <1>12, <2>1, <2>5, OneMoreAnswer
    <3>2. ASSUME NEW m \in sent', NEW f \in Live', AnswerTo(m, f)'
          PROVE  FALSE
      <4>1. f \in Live /\ f \in Known /\ f # ev /\ AnswerTo(m, f) /\ m.what = "answer"
        BY <2>2, <3>2 DEF Live, AnswerTo
      <4>2. CASE m \in sent
        BY <2>1, <2>5, <4>1, <4>2, RetriedIsServed DEF Retried, QueueInv, Serving
      <4>3. CASE pc = "answer" /\ \E ok \in BOOLEAN : m = Message(ok)
        BY <4>1, <4>3, AnswerIsPaid DEF OnceInv, OneSettlement, AnswerTo
      <4> QED
        BY <2>3, <4>1, <4>2, <4>3
    <3> QED
      BY <3>1, <3>2
  <2> QED
    BY <2>4, <2>5 DEF OnceInv
<1>13. CASE ReplyLost
  <2>1. /\ Known' \subseteq Known /\ faults' = faults + 1 /\ pc \in Serving
        /\ UNCHANGED <<workload, inner, numbered, ack_seq, committed>>
        /\ ev' \in {ev, NoEvent}
    BY <1>13, OneMessage
    DEF ReplyLost, Transient, EndTick, tick_commits_seq, Fault, Known,
        Sends, Serving, inboxVars
  <2>2. Live' \subseteq Live
    BY <2>1 DEF Live
  <2>3. \A m \in sent' : m.what = "answer" =>
          \/ m \in sent
          \/ /\ ~Recorded /\ pc = "answer"
             /\ \E ok \in BOOLEAN : m = Message(ok)
    BY <1>13, NewAnswer
  <2>4. OneSettlement'
    BY <2>1 DEF OnceInv, OneSettlement
  <2>5. ASSUME ~Racing, faults' <= 1
        PROVE  OneAnswer' /\ \A m \in sent', f \in Live' : AnswerTo(m, f)' => Retried(m, f)'
    <3>0. faults = 0
      BY <2>1, <2>5 DEF QueueInv
    <3>1. OneAnswer'
      BY <1>13, <3>0, <2>5, OneMoreAnswer
    <3>2. ASSUME NEW m \in sent', NEW f \in Live', AnswerTo(m, f)'
          PROVE  Retried(m, f)'
      <4>1. f \in Live /\ f \in Known /\ AnswerTo(m, f) /\ m.what = "answer"
        BY <2>2, <3>2 DEF Live, AnswerTo
      <4>2. m \notin sent
        BY <2>5, <3>0, <4>1 DEF OnceInv, Retried
      <4>3. /\ pc = "answer" /\ m.seq = seq /\ f = ev /\ ev # NoEvent
        BY <2>3, <4>1, <4>2, AnswerIsPaid DEF OnceInv, OneSettlement, AnswerTo, QueueInv, Serving
      <4>4. Drainable(ack_seq, Want)' = Drainable(ack_seq, Want)
        BY <2>1 DEF Drainable, After, Want
      <4>5. /\ faults' = 1 /\ m.seq = seq' /\ f \notin numbered'
            /\ ev' # NoEvent => ev' = f
        BY <2>1, <3>0, <4>3 DEF seq, QueueInv
      <4>6. \A g \in Drainable(ack_seq, Want) : f.inbox_seq <= g.inbox_seq
        BY <2>5, <4>3 DEF OrderInv
      <4> QED
        BY <4>4, <4>5, <4>6 DEF Retried
    <3> QED
      BY <3>1, <3>2
  <2> QED
    BY <2>4, <2>5 DEF OnceInv
<1>14. CASE Reboot
  <2>1. Known' = {} /\ Live' = {} /\ sent' = sent /\ faults' = faults + 1
    BY <1>14 DEF Reboot, Fault, daemonVars, Known, Live
  <2> QED
    BY <2>1, NothingRetried DEF QueueInv
<1>15. CASE UNCHANGED vars
  BY <1>15
  DEF vars, inboxVars, genomeVars, daemonVars, QueueInv,
      OnceInv, OneAnswer, OneSettlement, Retried, AnswerTo, Live, Known,
      Serving, Drainable, After, Want, seq
<1> QED
  BY <1>1, <1>2, <1>3, <1>4, <1>5, <1>6, <1>7, <1>8, <1>9, <1>10, <1>11,
     <1>12, <1>13, <1>14, <1>15
     DEF Next, Tick

(* When both loops start nothing is queued, awaited or sent.                   *)
LEMMA LoopInit ==
  ASSUME LoopAssumption, Init
  PROVE  LoopInv
<1> USE LoopBounds
<1>1. IsFiniteSet({})
  BY FS_EmptySet
<1>2. QueueInv /\ PlanInv /\ PaidInv /\ OrderInv
  BY <1>1
  DEF Init, InboxInit, NoPlan, QueueInv, PlanInv, PaidInv, OrderInv, Known,
      Serving
<1>3. OnceInv
  BY DEF Init, InboxInit, OnceInv, OneSettlement, OneAnswer, Known
<1> QED
  BY <1>2, <1>3 DEF LoopInv

(* A step keeps the invariant.                                                 *)
LEMMA LoopStep ==
  ASSUME LoopAssumption, LoopInv, [Next]_vars
  PROVE  LoopInv'
<1>1. QueueInv' /\ PlanInv' /\ PaidInv'
  BY QueueStep, PlanStep, PaidStep DEF LoopInv
<1>2. OrderInv'
  <2>1. CASE Racing
    BY <2>1 DEF OrderInv
  <2>2. CASE ~Racing
    BY <2>2, OrderStep DEF LoopInv
  <2> QED
    BY <2>1, <2>2
<1>3. OnceInv'
  BY <1>1, OnceStep DEF LoopInv
<1> QED
  BY <1>1, <1>2, <1>3 DEF LoopInv

(* Whatever calls are lost and however often the machine goes down, an answer  *)
(* was only ever sent to the customer who asked and paid the charge in full;   *)
(* and once, when producers do not race for the queue and no second call is    *)
(* lost after a first (oracle_tick_inner, oracle_answer_leg).                  *)
THEOREM AnswersArePaidOnce ==
  ASSUME LoopAssumption
  PROVE  Spec => []AnswersPaidOnce
<1>1. LoopInv => AnswersPaidOnce
  BY DEF LoopInv, PaidInv, OnceInv, OneAnswer, AnswersPaidOnce, Answers
<1> QED
  BY <1>1, LoopInit, LoopStep, PTL DEF Spec

(* One cursor spans direct messages, jobs and settlements; as long as          *)
(* producers do not race between their number and the queue's lock, a step     *)
(* never moves it past an event that waits in the queue (InboundQueue::drain,  *)
(* oldest first; push_typed).                                                  *)
THEOREM NoEventIsSkipped ==
  ASSUME LoopAssumption, ~Racing
  PROVE  Spec => NoEventSkipped
<1> DEFINE Kept == ack_seq' > ack_seq =>
                     \A e \in Drainable(ack_seq, Want) : e.inbox_seq >= ack_seq'
<1>1. ASSUME LoopInv, [Next]_vars
      PROVE  [Kept]_vars
  <2>1. ASSUME ack_seq' = ev.inbox_seq, ev # NoEvent
        PROVE  Kept
    BY <1>1, <2>1 DEF LoopInv, OrderInv, QueueInv, Known, Event, Drainable, After
  <2>2. ASSUME ack_seq' = ack_seq \/ ack_seq' = 0
        PROVE  Kept
    BY <1>1, <2>2 DEF LoopInv, QueueInv
  <2>3. ASSUME NEW x \in inner \cup ({ev} \ {NoEvent}), Take(x)
        PROVE  Kept
    <3>1. \A f \in Drainable(ack_seq, Want) : x.inbox_seq <= f.inbox_seq
      BY <1>1, <2>3, PolledIsOldest DEF Take, LoopInv, OrderInv
    <3>2. x \in Event /\ Drainable(ack_seq, Want) \subseteq Event
      BY <1>1 DEF LoopInv, QueueInv, Known, Drainable, After
    <3> QED
      BY <2>2, <2>3, <3>1, <3>2 DEF Take, Consume, Event
  <2>4. CASE ThinkPerformed \/ ThinkTransient \/ ThinkBroke
    BY <1>1, <2>1, <2>2, <2>4
    DEF ThinkPerformed, ThinkTransient, ThinkBroke, FollowPlan,
        think_transient_or_consume, Transient, Consume, LoopInv, QueueInv, Serving
  <2>5. CASE ChargeRefused \/ ChargeIssued \/ ChargeLost
    BY <1>1, <2>1, <2>2, <2>5
    DEF ChargeRefused, ChargeIssued, ChargeLost, Transient, Consume,
        LoopInv, QueueInv, Serving
  <2>6. CASE ReplySent \/ ReplyLost
    BY <1>1, <2>1, <2>2, <2>6
    DEF ReplySent, ReplyLost, ReplyDone, Transient, Consume,
        Sends, LoopInv, QueueInv, Serving
  <2>7. CASE \/ \E r \in Requests : screen_and_enqueue(r)
             \/ \E r \in Requests, short \in {0, 1} : Settle(r, charges[r] - short)
             \/ \E e \in numbered : Delivered(e)
    BY <2>2, <2>7 DEF screen_and_enqueue, Settle, Delivered, genomeVars
  <2>8. CASE IdleTick \/ Reboot
    BY <2>2, <2>8 DEF IdleTick, Reboot
  <2>9. CASE UNCHANGED vars
    BY <2>9
  <2> QED
    BY <1>1, <2>3, <2>4, <2>5, <2>6, <2>7, <2>8, <2>9 DEF Next, Tick
<1> QED
  BY <1>1, LoopInit, LoopStep, PTL DEF Spec, NoEventSkipped
=============================================================================
