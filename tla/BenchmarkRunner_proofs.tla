----------------------- MODULE BenchmarkRunner_proofs -----------------------
(***************************************************************************)
(* Proofs about BenchmarkRunner, for any number of seeds, runs and faults. *)
(***************************************************************************)
EXTENDS BenchmarkRunner, TLAPS

(* A seed is committed once; a run's seed is one that was committed.        *)
SeedsInv ==
  /\ seeding \in {"reset", "insert"} => seeded < MaxSeeds
  /\ run.seed <= seeded
  /\ Running => run.seed # None

(* The modes that get to each phase.                                        *)
PhaseInv ==
  /\ phase \in {"stop", "check"} => run.mode = "redis-down"
  /\ phase \in {"flush1", "reads", "scan"} => run.mode \in CacheModes
  /\ phase = "flush2" => run.mode = "cold-cache"
  /\ phase = "warmup" => run.mode = "warm-cache"

(* Endpoints are measured one after the other, and reported when all are.   *)
SamplesInv ==
  /\ phase \notin {"measure", "finally", "ended"} =>
       /\ run.at = 1
       /\ run.samples = {} /\ run.hits = {} /\ run.misses = {} /\ run.dead = {}
  /\ Running /\ run.report # "none" => phase = "finally"
  /\ \A i \in 1..Len(Order) :
       /\ i < run.at => Order[i] \in run.samples
       /\ i > run.at => Order[i] \notin run.samples

(* Where Redis is, as long as nobody else has stopped or started it.        *)
RedisInv ==
  run.undisturbed =>
    /\ phase = "ended" => up = run.found
    /\ phase = "stop" => up /\ named /\ run.found /\ ~run.stopped
    /\ phase \notin {"ended", "stop"} =>
         /\ run.stopped => run.found
         /\ up = (run.found /\ ~run.stopped)

(* What redis-down mode has made sure of when it measures.                  *)
DownInv ==
  /\ phase = "measure" /\ run.mode = "redis-down"
  /\ run.undisturbed /\ ~run.invalid /\ (named \/ mapped)
  => ~up /\ run.hits = {}

(* What cold-cache mode has made sure of, and how the cache fills again.    *)
ColdInv ==
  run.mode = "cold-cache" /\ ~run.skip /\ run.undisturbed /\ run.preflight =>
    /\ phase \in {"scan", "flush2", "measure"} => enabled /\ up
    /\ phase = "flush2" => named \/ mapped
    /\ phase = "measure" =>
         /\ cache \subseteq {Key(e, run.seed) : e \in run.samples}
         /\ run.samples \subseteq run.misses

(* A ticket that was gone when its status was measured is never looked up.  *)
DeadInv ==
  /\ "routing" \notin run.dead
  /\ Running /\ "status" \in run.dead => run.seed # live /\ "routing" \notin run.samples

IInv ==
  /\ TypeOK /\ SeedsInv /\ PhaseInv /\ SamplesInv
  /\ RedisInv /\ DownInv /\ ColdInv /\ DeadInv
  /\ ValidReportsAreOfTheirMode /\ ReportsMeasureLiveTickets

-----------------------------------------------------------------------------
LEMMA KeyTyped ==
  ASSUME NEW e \in Endpoints, NEW n \in Seeds PROVE Key(e, n) \in Keys
BY DEF Keys

LEMMA KeyOfItsEndpoint ==
  ASSUME NEW d, NEW e, NEW n, Key(d, n) = Key(e, n) PROVE d = e
BY DEF Key

LEMMA OrderIs ==
  /\ Len(Order) = 3 /\ 1..Len(Order) = {1, 2, 3}
  /\ Order[1] = "status" /\ Order[2] = "routing" /\ Order[3] = "similar"
BY DEF Order

(* A run may go on only when there is a seed that it is about.              *)
LEMMA SeedOfRun == TypeOK /\ SeedsInv /\ Running => run.seed \in Seeds
BY DEF TypeOK, SeedsInv, Run, Seeds, None

LEMMA RunFields ==
  ASSUME run \in Run
  PROVE  /\ run.mode \in Modes /\ run.skip \in BOOLEAN /\ run.seed \in Seeds \cup {None}
         /\ run.found \in BOOLEAN /\ run.stopped \in BOOLEAN
         /\ run.preflight \in BOOLEAN /\ run.invalid \in BOOLEAN
         /\ run.at \in {1, 2, 3}
         /\ run.hits \subseteq Endpoints /\ run.misses \subseteq Endpoints
         /\ run.samples \subseteq Endpoints /\ run.dead \subseteq Endpoints
         /\ run.report \in {"none", "valid", "invalid"} /\ run.undisturbed \in BOOLEAN
BY OrderIs DEF Run

LEMMA NewRunTyped ==
  ASSUME NEW m \in Modes, NEW skip \in BOOLEAN, up \in BOOLEAN, manifest \in Seeds \cup {None}
  PROVE  NewRun(m, skip) \in Run
BY OrderIs DEF NewRun, Run

(* The fields of a run that a step of another kind leaves as they are.      *)
SameRun ==
  /\ run'.mode = run.mode /\ run'.skip = run.skip /\ run'.seed = run.seed
  /\ run'.found = run.found

SameMeasures ==
  /\ run'.at = run.at /\ run'.samples = run.samples /\ run'.hits = run.hits
  /\ run'.misses = run.misses /\ run'.dead = run.dead /\ run'.report = run.report

SameChecks ==
  /\ run'.preflight = run.preflight /\ run'.invalid = run.invalid

LEMMA DisturbedChanges ==
  ASSUME TypeOK, Disturbed
  PROVE  /\ run' \in Run /\ SameRun /\ SameMeasures /\ SameChecks
         /\ run'.stopped = run.stopped /\ ~run'.undisturbed
BY DEF Disturbed, TypeOK, Run, SameRun, SameMeasures, SameChecks

LEMMA StopRedisChanges ==
  ASSUME TypeOK, StopRedis
  PROVE  /\ run' \in Run /\ SameRun /\ SameMeasures /\ SameChecks
         /\ up' \in BOOLEAN /\ faults' \in 0..MaxFaults
         /\ run'.undisturbed =>
              ~up' /\ run.undisturbed /\ run'.stopped = (named /\ up)
<1>1. CASE Disturbed /\ up' \in {up, FALSE} /\ faults < MaxFaults /\ faults' = faults + 1
  <2>1. faults' \in 0..MaxFaults
    BY <1>1, BenchmarkAssumption DEF TypeOK
  <2>2. up' = up \/ up' = FALSE
    BY <1>1
  <2>3. up' \in BOOLEAN
    BY <2>2 DEF TypeOK
  <2> QED
    BY <1>1, <2>1, <2>3, DisturbedChanges
<1>2. CASE up' = FALSE /\ UNCHANGED faults /\ run' = [run EXCEPT !.stopped = ContainerRunning]
  <2>1. ContainerRunning \in BOOLEAN /\ ContainerRunning = (named /\ up)
    BY DEF ContainerRunning
  <2>2. run' \in Run
    BY <1>2, <2>1 DEF TypeOK, Run
  <2>3. /\ SameRun /\ SameMeasures /\ SameChecks
        /\ run'.undisturbed = run.undisturbed /\ run'.stopped = ContainerRunning
    BY <1>2 DEF TypeOK, Run, SameRun, SameMeasures, SameChecks
  <2> QED
    BY <1>2, <2>1, <2>2, <2>3 DEF TypeOK
<1> QED
  BY <1>1, <1>2 DEF StopRedis

LEMMA MeasureChanges ==
  ASSUME TypeOK, Measure
  PROVE  /\ run' \in Run /\ SameRun /\ SameChecks
         /\ run'.stopped = run.stopped /\ run'.undisturbed = run.undisturbed
         /\ run'.at = run.at /\ run'.report = run.report
         /\ run'.samples = run.samples \cup {Order[run.at]}
         /\ \E hit \in BOOLEAN :
              /\ Reply(Order[run.at], hit)
              /\ run'.hits = run.hits \cup (IF hit THEN {Order[run.at]} ELSE {})
              /\ run'.misses = run.misses \cup (IF enabled /\ ~hit THEN {Order[run.at]} ELSE {})
         /\ run'.dead = run.dead \cup (IF run.seed # live THEN {Order[run.at]} ELSE {})
<1> DEFINE e == Order[run.at]
<1>1. PICK hit \in BOOLEAN :
        /\ Reply(e, hit)
        /\ run' = [run EXCEPT
             !.samples = @ \cup {e},
             !.hits = @ \cup (IF hit THEN {e} ELSE {}),
             !.misses = @ \cup (IF enabled /\ ~hit THEN {e} ELSE {}),
             !.dead = @ \cup (IF run.seed # live THEN {e} ELSE {})]
  BY DEF Measure
<1> DEFINE S == run.samples \cup {e}
           H == run.hits \cup (IF hit THEN {e} ELSE {})
           M == run.misses \cup (IF enabled /\ ~hit THEN {e} ELSE {})
           D == run.dead \cup (IF run.seed # live THEN {e} ELSE {})
<1>2. e \in Endpoints
  BY RunFields, OrderIs DEF TypeOK, Endpoints
<1>3. S \subseteq Endpoints /\ H \subseteq Endpoints /\ M \subseteq Endpoints /\ D \subseteq Endpoints
  BY <1>2, RunFields DEF TypeOK
<1>4. run' = [run EXCEPT !.samples = S, !.hits = H, !.misses = M, !.dead = D]
  BY <1>1
<1>5. Reply(e, hit)
  BY <1>1
<1> HIDE DEF S, H, M, D
<1>6. run' \in Run
  BY <1>3, <1>4 DEF TypeOK, Run
<1>7. /\ run'.samples = S /\ run'.hits = H /\ run'.misses = M /\ run'.dead = D
      /\ SameRun /\ SameChecks
      /\ run'.stopped = run.stopped /\ run'.undisturbed = run.undisturbed
      /\ run'.at = run.at /\ run'.report = run.report
  BY <1>4 DEF TypeOK, Run, SameRun, SameChecks
<1> QED
  BY <1>5, <1>6, <1>7 DEF S, H, M, D

LEMMA InitInv == Init => IInv
<1> SUFFICES ASSUME Init PROVE IInv
  OBVIOUS
<1>1. TypeOK
  <2>1. run \in Run
    BY NewRunTyped DEF Init, Modes, None
  <2>2. 0 \in 0..MaxSeeds /\ 0 \in 0..MaxRuns /\ 0 \in 0..MaxFaults /\ 0 \in 0..0
    BY BenchmarkAssumption
  <2>3. /\ up \in BOOLEAN /\ cache \subseteq Keys
        /\ live \in {None, seeded} /\ seeded \in 0..MaxSeeds /\ manifest \in 0..seeded
        /\ runs \in 0..MaxRuns /\ faults \in 0..MaxFaults
    BY <2>2 DEF Init, None
  <2> QED
    BY <2>1, <2>3 DEF Init, TypeOK, Phases
<1> QED
  BY <1>1, OrderIs DEF Init, IInv, NewRun, SeedsInv, PhaseInv, SamplesInv, RedisInv, DownInv, ColdInv,
     DeadInv, ValidReportsAreOfTheirMode, ReportsMeasureLiveTickets, Running, None

-----------------------------------------------------------------------------
LEMMA TypeKept == IInv /\ [Next]_vars => TypeOK'
<1> SUFFICES ASSUME TypeOK, SeedsInv, [Next]_vars PROVE TypeOK'
  BY DEF IInv
<1> USE BenchmarkAssumption DEF host, seeds
<1>t. \A x : x \in Run => [x EXCEPT !.undisturbed = FALSE] \in Run
  BY DEF Run
<1>1. ASSUME NEW reset \in BOOLEAN, StartSeed(reset) PROVE TypeOK'
  BY <1>1 DEF StartSeed, TypeOK
<1>2. CASE SeedClears
  BY <1>2 DEF SeedClears, TypeOK
<1>3. CASE SeedCommits
  BY <1>3 DEF SeedCommits, TypeOK, SeedsInv
<1>4. CASE SeedRefused
  BY <1>4 DEF SeedRefused, TypeOK
<1>5. CASE SeedWritesManifest
  BY <1>5 DEF SeedWritesManifest, TypeOK
<1>6. CASE SeedDies
  BY <1>6 DEF SeedDies, TypeOK
<1>7. CASE ClearSeedData
  BY <1>7 DEF ClearSeedData, TypeOK
<1>8. ASSUME NEW k \in Keys, Vanish(k) \/ OtherRead(k) PROVE TypeOK'
  BY <1>8 DEF Vanish, OtherRead, TypeOK
<1>9. CASE Toggle
  BY <1>9, <1>t DEF Toggle, Disturbed, TypeOK
<1>10. CASE Rebuild
  BY <1>10, <1>t DEF Rebuild, Disturbed, TypeOK
<1>11. ASSUME NEW m \in Modes, NEW manage \in BOOLEAN, NEW skip \in BOOLEAN, Start(m, manage, skip)
       PROVE  TypeOK'
  <2>1. manifest \in Seeds
    BY <1>11 DEF Start, TypeOK, Seeds, None
  <2>2. NewRun(m, skip) \in Run
    BY <2>1, NewRunTyped DEF TypeOK
  <2> QED
    BY <1>11, <2>2 DEF Start, TypeOK, Phases
<1>12. CASE StopRedis
  BY <1>12, StopRedisChanges DEF StopRedis, TypeOK, Phases, Goto
<1>13. CASE ApiAnswers
  BY <1>13, RunFields DEF ApiAnswers, Goto, AfterPreflight, TypeOK, Phases, Modes
<1>14. CASE Flush("flush1", "reads") \/ Flush("flush2", "measure")
  BY <1>14, <1>t DEF Flush, Goto, Flushed, Disturbed, TypeOK, Phases
<1>15. CASE PreflightReads
  <2>1. run.seed \in Seeds
    BY <1>15, SeedOfRun DEF PreflightReads, Goto, Running
  <2>2. Key("status", run.seed) \in Keys /\ Key("similar", run.seed) \in Keys
    BY <2>1, KeyTyped DEF Endpoints
  <2>3. PICK filled \in SUBSET {Key("status", run.seed), Key("similar", run.seed)} :
          /\ cache' = cache \cup filled
          /\ run' = [run EXCEPT !.preflight = Caching /\ Key("status", run.seed) \in cache']
    BY <1>15 DEF PreflightReads
  <2>4. (Caching /\ Key("status", run.seed) \in cache') \in BOOLEAN
    BY DEF TypeOK, Caching
  <2>5. run' \in Run
    BY <2>3, <2>4 DEF TypeOK, Run
  <2> QED
    BY <1>15, <2>2, <2>3, <2>5 DEF PreflightReads, Goto, TypeOK, Phases
<1>16. CASE PreflightScan
  <2>1. (run.preflight /\ Scanned # {}) \in BOOLEAN
    OBVIOUS
  <2>2. run' \in Run
    BY <1>16, <2>1 DEF PreflightScan, TypeOK, Run
  <2> QED
    BY <1>16, <2>2, RunFields DEF PreflightScan, Goto, AfterPreflight, TypeOK, Phases, Modes
<1>17. CASE CheckDown
  <2>1. (ContainerRunning \/ Ping) \in BOOLEAN
    OBVIOUS
  <2>2. run' \in Run
    BY <1>17, <2>1 DEF CheckDown, TypeOK, Run
  <2> QED
    BY <1>17, <2>2 DEF CheckDown, Goto, TypeOK, Phases
<1>18. ASSUME NEW e \in Endpoints, Warmup(e) PROVE TypeOK'
  <2>1. Key(e, run.seed) \in Keys
    BY <1>18, SeedOfRun, KeyTyped DEF Warmup, Running
  <2> QED
    BY <1>18, <2>1 DEF Warmup, Reply, TypeOK
<1>19. CASE WarmupEnds
  BY <1>19 DEF WarmupEnds, Goto, TypeOK, Phases
<1>20. CASE Measure
  <2>1. Order[run.at] \in Endpoints
    BY RunFields, OrderIs DEF TypeOK, Endpoints
  <2>2. Key(Order[run.at], run.seed) \in Keys
    BY <1>20, <2>1, SeedOfRun, KeyTyped DEF Measure, Running
  <2>3. cache' \subseteq Keys
    BY <1>20, <2>2 DEF Measure, Reply, TypeOK
  <2> QED
    BY <1>20, <2>3, MeasureChanges DEF Measure, TypeOK
<1>21. CASE MeasureNext
  <2>1. run.at + 1 \in 1..Len(Order)
    BY <1>21, RunFields, OrderIs DEF MeasureNext, TypeOK
  <2>2. run' \in Run
    BY <1>21, <2>1 DEF MeasureNext, TypeOK, Run
  <2> QED
    BY <1>21, <2>2 DEF MeasureNext, TypeOK
<1>22. CASE Report
  <2>1. run' \in Run
    BY <1>22 DEF Report, TypeOK, Run
  <2> QED
    BY <1>22, <2>1 DEF Report, Goto, TypeOK, Phases
<1>23. CASE Fail
  BY <1>23 DEF Fail, TypeOK, Phases
<1>24. CASE Restart
  BY <1>24, <1>t DEF Restart, Goto, Disturbed, TypeOK, Phases, Run
<1>25. CASE Killed
  BY <1>25, <1>t DEF Killed, Disturbed, TypeOK, Phases
<1>26. CASE UNCHANGED vars
  BY <1>26 DEF vars, TypeOK
<1> QED
  BY <1>1, <1>2, <1>3, <1>4, <1>5, <1>6, <1>7, <1>8, <1>9, <1>10, <1>11, <1>12, <1>13, <1>14,
     <1>15, <1>16, <1>17, <1>18, <1>19, <1>20, <1>21, <1>22, <1>23, <1>24, <1>25, <1>26 DEF Next


-----------------------------------------------------------------------------
(* What every kind of step does to a run.                                   *)
Quiet == UNCHANGED <<named, mapped, enabled, up, phase, run>>

LEMMA StartChanges ==
  ASSUME TypeOK, NEW m, NEW manage, NEW skip, Start(m, manage, skip)
  PROVE  /\ run'.mode = m /\ run'.skip = skip /\ run'.seed = manifest /\ run'.found = up
         /\ ~run'.stopped /\ ~run'.preflight /\ ~run'.invalid /\ run'.undisturbed
         /\ run'.at = 1 /\ run'.report = "none"
         /\ run'.hits = {} /\ run'.misses = {} /\ run'.samples = {} /\ run'.dead = {}
BY DEF Start, NewRun

LEMMA ReadsChanges ==
  ASSUME TypeOK, PreflightReads
  PROVE  /\ SameRun /\ SameMeasures
         /\ run'.stopped = run.stopped /\ run'.undisturbed = run.undisturbed
         /\ run'.invalid = run.invalid
         /\ run'.preflight => enabled /\ up
<1>1. PICK filled \in SUBSET {Key("status", run.seed), Key("similar", run.seed)} :
        run' = [run EXCEPT !.preflight = Caching /\ Key("status", run.seed) \in cache']
  BY DEF PreflightReads
<1>2. /\ SameRun /\ SameMeasures
      /\ run'.stopped = run.stopped /\ run'.undisturbed = run.undisturbed
      /\ run'.invalid = run.invalid
      /\ run'.preflight = (Caching /\ Key("status", run.seed) \in cache')
  BY <1>1 DEF TypeOK, Run, SameRun, SameMeasures
<1> QED
  BY <1>2 DEF Caching

LEMMA ScanChanges ==
  ASSUME TypeOK, PreflightScan
  PROVE  /\ SameRun /\ SameMeasures
         /\ run'.stopped = run.stopped /\ run'.undisturbed = run.undisturbed
         /\ run'.invalid = run.invalid
         /\ run'.preflight => run.preflight /\ (named \/ mapped)
<1>1. /\ SameRun /\ SameMeasures
      /\ run'.stopped = run.stopped /\ run'.undisturbed = run.undisturbed
      /\ run'.invalid = run.invalid
      /\ run'.preflight = (run.preflight /\ Scanned # {})
  BY DEF PreflightScan, TypeOK, Run, SameRun, SameMeasures
<1> QED
  BY <1>1 DEF Scanned, Ping, ContainerRunning

LEMMA CheckChanges ==
  ASSUME TypeOK, CheckDown
  PROVE  /\ SameRun /\ SameMeasures
         /\ run'.stopped = run.stopped /\ run'.undisturbed = run.undisturbed
         /\ run'.preflight = run.preflight
         /\ run'.invalid = ((named \/ mapped) /\ up)
<1>1. /\ SameRun /\ SameMeasures
      /\ run'.stopped = run.stopped /\ run'.undisturbed = run.undisturbed
      /\ run'.preflight = run.preflight
      /\ run'.invalid = (ContainerRunning \/ Ping)
  BY DEF CheckDown, TypeOK, Run, SameRun, SameMeasures
<1> QED
  BY <1>1 DEF ContainerRunning, Ping

LEMMA NextChanges ==
  ASSUME TypeOK, MeasureNext
  PROVE  /\ SameRun /\ SameChecks
         /\ run'.stopped = run.stopped /\ run'.undisturbed = run.undisturbed
         /\ run'.at = run.at + 1 /\ run'.samples = run.samples /\ run'.hits = run.hits
         /\ run'.misses = run.misses /\ run'.dead = run.dead /\ run'.report = run.report
BY DEF MeasureNext, TypeOK, Run, SameRun, SameChecks

LEMMA ReportChanges ==
  ASSUME TypeOK, Report
  PROVE  /\ SameRun /\ SameChecks
         /\ run'.stopped = run.stopped /\ run'.undisturbed = run.undisturbed
         /\ run'.at = run.at /\ run'.samples = run.samples /\ run'.hits = run.hits
         /\ run'.misses = run.misses /\ run'.dead = run.dead
         /\ run'.report \in {"valid", "invalid"}
         /\ run'.report = "valid" => ~Invalid
<1>1. /\ SameRun /\ SameChecks
      /\ run'.stopped = run.stopped /\ run'.undisturbed = run.undisturbed
      /\ run'.at = run.at /\ run'.samples = run.samples /\ run'.hits = run.hits
      /\ run'.misses = run.misses /\ run'.dead = run.dead
      /\ run'.report = IF Invalid THEN "invalid" ELSE "valid"
  BY DEF Report, TypeOK, Run, SameRun, SameChecks
<1> QED
  BY <1>1

(* The steps of the seed script, of the readers of the cache, of the wait   *)
(* and of the warmup leave the run alone.                                   *)
LEMMA StepKinds ==
  ASSUME TypeOK, [Next]_vars
  PROVE  \/ /\ Quiet
            /\ \/ UNCHANGED cache \/ phase = "warmup"
               \/ \E k \in Keys : Vanish(k) \/ OtherRead(k)
         \/ Toggle \/ Rebuild
         \/ \E m \in Modes, manage, skip \in BOOLEAN : Start(m, manage, skip)
         \/ StopRedis \/ ApiAnswers
         \/ Flush("flush1", "reads") \/ PreflightReads \/ PreflightScan
         \/ Flush("flush2", "measure") \/ CheckDown
         \/ WarmupEnds \/ Measure \/ MeasureNext \/ Report
         \/ Fail \/ Restart \/ Killed
<1> USE DEF host, seeds, Quiet
<1>1. CASE \E reset \in BOOLEAN : StartSeed(reset)
  BY <1>1 DEF StartSeed
<1>2. CASE SeedClears \/ SeedCommits \/ SeedRefused \/ SeedWritesManifest \/ SeedDies \/ ClearSeedData
  BY <1>2 DEF SeedClears, SeedCommits, SeedRefused, SeedWritesManifest, SeedDies, ClearSeedData
<1>3. CASE \E k \in Keys : Vanish(k) \/ OtherRead(k)
  BY <1>3 DEF Vanish, OtherRead
<1>4. CASE \E e \in Endpoints : Warmup(e)
  BY <1>4 DEF Warmup
<1>5. CASE UNCHANGED vars
  BY <1>5 DEF vars
<1> QED
  BY <1>1, <1>2, <1>3, <1>4, <1>5 DEF Next

-----------------------------------------------------------------------------
LEMMA PhaseKept == IInv /\ [Next]_vars => PhaseInv'
<1> SUFFICES ASSUME TypeOK, PhaseInv, [Next]_vars PROVE PhaseInv'
  BY DEF IInv
<1> USE DEF PhaseInv, Goto
<1>1. CASE Quiet
  BY <1>1 DEF Quiet
<1>2. CASE Toggle \/ Rebuild
  BY <1>2, DisturbedChanges DEF Toggle, Rebuild, SameRun
<1>3. ASSUME NEW m \in Modes, NEW manage \in BOOLEAN, NEW skip \in BOOLEAN, Start(m, manage, skip)
      PROVE  PhaseInv'
  BY <1>3, StartChanges DEF Start
<1>4. CASE StopRedis
  BY <1>4, StopRedisChanges DEF StopRedis
<1>5. CASE ApiAnswers
  BY <1>5, RunFields DEF ApiAnswers, AfterPreflight, CacheModes, Modes, TypeOK
<1>6. CASE Flush("flush1", "reads") \/ Flush("flush2", "measure")
  <2>1. CASE UNCHANGED run
    BY <1>6, <2>1 DEF Flush
  <2>2. CASE Disturbed
    BY <1>6, <2>2, DisturbedChanges DEF Flush, SameRun
  <2> QED
    BY <1>6, <2>1, <2>2 DEF Flush
<1>7. CASE PreflightReads
  BY <1>7, ReadsChanges DEF PreflightReads, SameRun
<1>8. CASE PreflightScan
  BY <1>8, ScanChanges, RunFields DEF PreflightScan, AfterPreflight, SameRun, CacheModes, Modes, TypeOK
<1>9. CASE CheckDown
  BY <1>9 DEF CheckDown
<1>10. CASE WarmupEnds \/ Fail
  BY <1>10 DEF WarmupEnds, Fail
<1>11. CASE Measure \/ MeasureNext
  BY <1>11 DEF Measure, MeasureNext
<1>12. CASE Report \/ Restart \/ Killed
  BY <1>12 DEF Report, Restart, Killed
<1> QED
  BY <1>1, <1>2, <1>3, <1>4, <1>5, <1>6, <1>7, <1>8, <1>9, <1>10, <1>11, <1>12, StepKinds


LEMMA SeedsKept == IInv /\ [Next]_vars => SeedsInv'
<1> SUFFICES ASSUME TypeOK, SeedsInv, [Next]_vars PROVE SeedsInv'
  BY DEF IInv
<1> USE DEF SeedsInv, host, seeds, Goto, Running, SameRun
<1>t. seeded \in Nat /\ MaxSeeds \in Nat /\ run.seed \in Nat
  BY BenchmarkAssumption, RunFields DEF TypeOK, Seeds, None
<1>1. ASSUME NEW reset \in BOOLEAN, StartSeed(reset) PROVE SeedsInv'
  BY <1>1, <1>t DEF StartSeed
<1>2. CASE SeedClears
  BY <1>2, <1>t DEF SeedClears
<1>3. CASE SeedCommits
  BY <1>3, <1>t DEF SeedCommits
<1>4. CASE SeedRefused \/ SeedWritesManifest \/ SeedDies \/ ClearSeedData
  BY <1>4, <1>t DEF SeedRefused, SeedWritesManifest, SeedDies, ClearSeedData
<1>5. ASSUME NEW k \in Keys, Vanish(k) \/ OtherRead(k) PROVE SeedsInv'
  BY <1>5 DEF Vanish, OtherRead
<1>6. CASE Toggle \/ Rebuild
  BY <1>6, DisturbedChanges DEF Toggle, Rebuild
<1>7. ASSUME NEW m \in Modes, NEW manage \in BOOLEAN, NEW skip \in BOOLEAN, Start(m, manage, skip)
      PROVE  SeedsInv'
  BY <1>7, <1>t, StartChanges DEF Start, TypeOK
<1>8. CASE StopRedis
  BY <1>8, StopRedisChanges DEF StopRedis
<1>9. CASE ApiAnswers \/ WarmupEnds
  BY <1>9 DEF ApiAnswers, WarmupEnds
<1>10. CASE Flush("flush1", "reads") \/ Flush("flush2", "measure")
  <2>1. CASE UNCHANGED run
    BY <1>10, <2>1 DEF Flush
  <2>2. CASE Disturbed
    BY <1>10, <2>2, DisturbedChanges DEF Flush
  <2> QED
    BY <1>10, <2>1, <2>2 DEF Flush
<1>11. CASE PreflightReads
  BY <1>11, ReadsChanges DEF PreflightReads
<1>12. CASE PreflightScan
  BY <1>12, ScanChanges DEF PreflightScan
<1>13. CASE CheckDown
  BY <1>13, CheckChanges DEF CheckDown
<1>14. ASSUME NEW e \in Endpoints, Warmup(e) PROVE SeedsInv'
  BY <1>14 DEF Warmup
<1>15. CASE Measure
  BY <1>15, MeasureChanges DEF Measure
<1>16. CASE MeasureNext
  BY <1>16, NextChanges DEF MeasureNext
<1>17. CASE Report
  BY <1>17, ReportChanges DEF Report
<1>18. CASE Fail
  BY <1>18 DEF Fail
<1>19. CASE Restart
  <2>1. CASE UNCHANGED run
    BY <1>19, <2>1 DEF Restart
  <2>2. CASE Disturbed
    BY <1>19, <2>2, DisturbedChanges DEF Restart
  <2> QED
    BY <1>19, <2>1, <2>2 DEF Restart
<1>20. CASE Killed
  BY <1>20, DisturbedChanges DEF Killed
<1>21. CASE UNCHANGED vars
  BY <1>21 DEF vars
<1> QED
  BY <1>1, <1>2, <1>3, <1>4, <1>5, <1>6, <1>7, <1>8, <1>9, <1>10, <1>11, <1>12, <1>13, <1>14,
     <1>15, <1>16, <1>17, <1>18, <1>19, <1>20, <1>21 DEF Next

LEMMA SamplesKept == IInv /\ [Next]_vars => SamplesInv'
<1> SUFFICES ASSUME TypeOK, SamplesInv, [Next]_vars PROVE SamplesInv'
  BY DEF IInv
<1> USE DEF SamplesInv, Goto, Running, SameMeasures
<1>t. run.at \in {1, 2, 3}
  BY RunFields DEF TypeOK
<1>1. CASE Quiet
  BY <1>1 DEF Quiet
<1>2. CASE Toggle \/ Rebuild
  BY <1>2, DisturbedChanges DEF Toggle, Rebuild
<1>3. ASSUME NEW m \in Modes, NEW manage \in BOOLEAN, NEW skip \in BOOLEAN, Start(m, manage, skip)
      PROVE  SamplesInv'
  BY <1>3, StartChanges DEF Start
<1>4. CASE StopRedis
  BY <1>4, StopRedisChanges DEF StopRedis
<1>5. CASE ApiAnswers
  BY <1>5, RunFields DEF ApiAnswers, AfterPreflight, Modes, TypeOK
<1>6. CASE Flush("flush1", "reads") \/ Flush("flush2", "measure")
  <2>1. CASE UNCHANGED run
    BY <1>6, <2>1 DEF Flush
  <2>2. CASE Disturbed
    BY <1>6, <2>2, DisturbedChanges DEF Flush
  <2> QED
    BY <1>6, <2>1, <2>2 DEF Flush
<1>7. CASE PreflightReads
  BY <1>7, ReadsChanges DEF PreflightReads
<1>8. CASE PreflightScan
  BY <1>8, ScanChanges, RunFields DEF PreflightScan, AfterPreflight, Modes, TypeOK
<1>9. CASE CheckDown
  BY <1>9, CheckChanges DEF CheckDown
<1>10. CASE WarmupEnds \/ Fail
  BY <1>10 DEF WarmupEnds, Fail
<1>11. CASE Measure
  <2>1. \A i \in 1..Len(Order) :
          /\ i > run.at => Order[i] # Order[run.at]
          /\ i < run.at => i # run.at
    BY <1>t, OrderIs
  <2>2. /\ phase = "measure" /\ phase' = "measure"
        /\ run'.at = run.at /\ run'.report = run.report
        /\ run'.samples = run.samples \cup {Order[run.at]}
    BY <1>11, MeasureChanges DEF Measure
  <2> QED
    BY <2>1, <2>2
<1>12. CASE MeasureNext
  <2>1. \A i \in 1..Len(Order) :
          /\ i < run.at + 1 => i < run.at \/ i = run.at
          /\ i > run.at + 1 => i > run.at
    BY <1>t
  <2> QED
    BY <1>12, <2>1, NextChanges DEF MeasureNext
<1>13. CASE Report
  BY <1>13, ReportChanges DEF Report
<1>14. CASE Restart
  <2>1. CASE UNCHANGED run
    BY <1>14, <2>1 DEF Restart
  <2>2. CASE Disturbed
    BY <1>14, <2>2, DisturbedChanges DEF Restart
  <2> QED
    BY <1>14, <2>1, <2>2 DEF Restart
<1>15. CASE Killed
  BY <1>15, DisturbedChanges DEF Killed
<1> QED
  BY <1>1, <1>2, <1>3, <1>4, <1>5, <1>6, <1>7, <1>8, <1>9, <1>10, <1>11, <1>12, <1>13, <1>14,
     <1>15, StepKinds

LEMMA RedisKept == IInv /\ [Next]_vars => RedisInv'
<1> SUFFICES ASSUME TypeOK, PhaseInv, RedisInv, [Next]_vars PROVE RedisInv'
  BY DEF IInv
<1> USE DEF RedisInv, Goto, Running, SameRun
<1>t. up \in BOOLEAN /\ named \in BOOLEAN /\ run.stopped \in BOOLEAN /\ run.found \in BOOLEAN
  BY RunFields DEF TypeOK
<1>1. CASE Quiet
  BY <1>1 DEF Quiet
<1>2. CASE Toggle \/ Rebuild
  BY <1>2, DisturbedChanges DEF Toggle, Rebuild
<1>3. ASSUME NEW m \in Modes, NEW manage \in BOOLEAN, NEW skip \in BOOLEAN, Start(m, manage, skip)
      PROVE  RedisInv'
  <2>1. /\ run'.found = up /\ ~run'.stopped /\ up' = up /\ named' = named
        /\ phase' = IF m = "redis-down" /\ manage /\ named /\ up THEN "stop" ELSE "wait"
    BY <1>3, StartChanges DEF Start, host, ContainerRunning
  <2> QED
    BY <2>1, <1>t
<1>4. CASE StopRedis
  <2>1. phase = "stop" /\ phase' = "wait"
    BY <1>4 DEF StopRedis
  <2> QED
    BY <1>4, <2>1, <1>t, StopRedisChanges
<1>5. CASE ApiAnswers
  <2>1. phase = "wait" /\ phase' \notin {"ended", "stop"}
    BY <1>5, RunFields DEF ApiAnswers, AfterPreflight, Modes, TypeOK
  <2> QED
    BY <1>5, <2>1 DEF ApiAnswers
<1>6. CASE Flush("flush1", "reads") \/ Flush("flush2", "measure")
  <2>1. CASE UNCHANGED run
    BY <1>6, <2>1 DEF Flush
  <2>2. CASE Disturbed
    BY <1>6, <2>2, DisturbedChanges
  <2> QED
    BY <1>6, <2>1, <2>2 DEF Flush
<1>7. CASE PreflightReads
  BY <1>7, ReadsChanges DEF PreflightReads
<1>8. CASE PreflightScan
  <2>1. phase = "scan" /\ phase' \notin {"ended", "stop"} /\ up' = up
    BY <1>8, RunFields DEF PreflightScan, AfterPreflight, Modes, TypeOK
  <2> QED
    BY <1>8, <2>1, ScanChanges
<1>9. CASE CheckDown
  BY <1>9, CheckChanges DEF CheckDown
<1>10. CASE WarmupEnds \/ Fail
  BY <1>10 DEF WarmupEnds, Fail, Phases
<1>11. CASE Measure
  BY <1>11, MeasureChanges DEF Measure
<1>12. CASE MeasureNext
  BY <1>12, NextChanges DEF MeasureNext
<1>13. CASE Report
  BY <1>13, ReportChanges DEF Report
<1>14. CASE Restart
  <2>1. CASE Disturbed
    BY <2>1, DisturbedChanges
  <2>2. CASE up' = (up \/ run.stopped) /\ UNCHANGED run
    <3>1. phase = "finally" /\ phase' = "ended"
      BY <1>14 DEF Restart
    <3> QED
      BY <2>2, <3>1, <1>t
  <2> QED
    BY <1>14, <2>1, <2>2 DEF Restart
<1>15. CASE Killed
  BY <1>15, DisturbedChanges DEF Killed
<1> QED
  BY <1>1, <1>2, <1>3, <1>4, <1>5, <1>6, <1>7, <1>8, <1>9, <1>10, <1>11, <1>12, <1>13, <1>14,
     <1>15, StepKinds


LEMMA DownKept == IInv /\ [Next]_vars => DownInv'
<1> SUFFICES ASSUME TypeOK, PhaseInv, SamplesInv, DownInv, [Next]_vars PROVE DownInv'
  BY DEF IInv
<1> USE DEF DownInv, Goto, Running, SameRun, SameMeasures, SameChecks, host
<1>1. CASE Quiet
  BY <1>1 DEF Quiet
<1>2. CASE Toggle \/ Rebuild
  BY <1>2, DisturbedChanges DEF Toggle, Rebuild
<1>3. ASSUME NEW m \in Modes, NEW manage \in BOOLEAN, NEW skip \in BOOLEAN, Start(m, manage, skip)
      PROVE  DownInv'
  BY <1>3 DEF Start
<1>4. CASE StopRedis \/ PreflightReads \/ Report \/ Fail \/ Restart \/ Killed
  BY <1>4 DEF StopRedis, PreflightReads, Report, Fail, Restart, Killed
<1>5. CASE ApiAnswers
  BY <1>5, RunFields DEF ApiAnswers, AfterPreflight, TypeOK
<1>6. CASE Flush("flush1", "reads")
  BY <1>6 DEF Flush
<1>7. CASE Flush("flush2", "measure")
  <2>1. run.mode = "cold-cache" /\ (UNCHANGED run \/ Disturbed)
    BY <1>7 DEF Flush, PhaseInv
  <2> QED
    BY <2>1, DisturbedChanges
<1>8. CASE PreflightScan
  BY <1>8, ScanChanges, RunFields DEF PreflightScan, AfterPreflight, PhaseInv, CacheModes, TypeOK
<1>9. CASE CheckDown
  BY <1>9, CheckChanges DEF CheckDown, SamplesInv
<1>10. CASE WarmupEnds
  BY <1>10 DEF WarmupEnds, PhaseInv
<1>11. CASE Measure
  <2>1. /\ phase = "measure" /\ up' = up /\ named' = named /\ mapped' = mapped
    BY <1>11 DEF Measure
  <2>2. PICK hit \in BOOLEAN :
          /\ Reply(Order[run.at], hit)
          /\ run'.hits = run.hits \cup (IF hit THEN {Order[run.at]} ELSE {})
    BY <1>11, MeasureChanges
  <2>3. ~up => ~hit
    BY <2>2 DEF Reply, Caching
  <2> QED
    BY <1>11, <2>1, <2>2, <2>3, MeasureChanges
<1>12. CASE MeasureNext
  BY <1>12, NextChanges DEF MeasureNext
<1> QED
  BY <1>1, <1>2, <1>3, <1>4, <1>5, <1>6, <1>7, <1>8, <1>9, <1>10, <1>11, <1>12, StepKinds

LEMMA ColdKept == IInv /\ [Next]_vars => ColdInv'
<1> SUFFICES ASSUME TypeOK, PhaseInv, SamplesInv, ColdInv, [Next]_vars PROVE ColdInv'
  BY DEF IInv
<1> USE DEF ColdInv, Goto, Running, SameRun, SameMeasures, SameChecks, host
<1>1. ASSUME NEW k \in Keys, Vanish(k) \/ OtherRead(k) PROVE ColdInv'
  <2>1. phase # "ended" => cache' \subseteq cache
    BY <1>1 DEF Vanish, OtherRead
  <2>2. Quiet
    BY <1>1 DEF Vanish, OtherRead, Quiet
  <2> QED
    BY <2>1, <2>2 DEF Quiet
<1>2. CASE Quiet /\ (UNCHANGED cache \/ phase = "warmup")
  BY <1>2 DEF Quiet
<1>3. CASE Toggle \/ Rebuild \/ Killed
  BY <1>3, DisturbedChanges DEF Toggle, Rebuild, Killed
<1>4. ASSUME NEW m \in Modes, NEW manage \in BOOLEAN, NEW skip \in BOOLEAN, Start(m, manage, skip)
      PROVE  ColdInv'
  BY <1>4, StartChanges
<1>5. CASE StopRedis
  BY <1>5 DEF StopRedis
<1>6. CASE ApiAnswers
  BY <1>6, RunFields DEF ApiAnswers, AfterPreflight, CacheModes, TypeOK
<1>7. CASE Flush("flush1", "reads")
  BY <1>7 DEF Flush
<1>8. CASE Flush("flush2", "measure")
  <2>1. CASE Disturbed
    BY <2>1, DisturbedChanges
  <2>2. CASE UNCHANGED run /\ cache' = Flushed
    <3>1. (named \/ mapped) /\ up => cache' = {}
      BY <2>2 DEF Flushed, Ping, ContainerRunning
    <3>2. phase = "flush2" /\ phase' = "measure" /\ up' = up /\ enabled' = enabled
      BY <1>8 DEF Flush
    <3>3. run.samples = {}
      BY <3>2 DEF SamplesInv
    <3> QED
      BY <2>2, <3>1, <3>2, <3>3
  <2> QED
    BY <1>8, <2>1, <2>2 DEF Flush
<1>9. CASE PreflightReads
  BY <1>9, ReadsChanges DEF PreflightReads
<1>10. CASE PreflightScan
  <2>1. /\ phase = "scan" /\ up' = up /\ enabled' = enabled
        /\ named' = named /\ mapped' = mapped
        /\ run.mode = "cold-cache" => phase' = "flush2"
    BY <1>10 DEF PreflightScan, AfterPreflight
  <2> QED
    BY <1>10, <2>1, ScanChanges
<1>11. CASE CheckDown
  BY <1>11, CheckChanges DEF CheckDown, PhaseInv
<1>12. CASE WarmupEnds
  BY <1>12 DEF WarmupEnds, PhaseInv
<1>13. CASE Measure
  <2> DEFINE e == Order[run.at]
  <2>1. phase = "measure" /\ phase' = phase /\ up' = up /\ enabled' = enabled
    BY <1>13 DEF Measure
  <2>2. PICK hit \in BOOLEAN :
          /\ Reply(e, hit)
          /\ run'.misses = run.misses \cup (IF enabled /\ ~hit THEN {e} ELSE {})
    BY <1>13, MeasureChanges
  <2>3. run'.samples = run.samples \cup {e} /\ run'.seed = run.seed
    BY <1>13, MeasureChanges
  <2>4. cache' \subseteq cache \cup {Key(e, run.seed)}
    BY <2>2 DEF Reply
  <2>5. hit => Key(e, run.seed) \in cache
    BY <2>2 DEF Reply
  <2>6. ASSUME cache \subseteq {Key(d, run.seed) : d \in run.samples},
               run.samples \subseteq run.misses, enabled
        PROVE  /\ cache' \subseteq {Key(d, run'.seed) : d \in run'.samples}
               /\ run'.samples \subseteq run'.misses
    <3>1. hit => e \in run.samples
      BY <2>5, <2>6, KeyOfItsEndpoint
    <3> HIDE DEF e
    <3> QED
      BY <2>2, <2>3, <2>4, <2>6, <3>1
  <2> QED
    BY <1>13, <2>1, <2>6, MeasureChanges
<1>14. CASE MeasureNext
  BY <1>14, NextChanges DEF MeasureNext
<1>15. CASE Report \/ Fail \/ Restart
  BY <1>15 DEF Report, Fail, Restart
<1> QED
  BY <1>1, <1>2, <1>3, <1>4, <1>5, <1>6, <1>7, <1>8, <1>9, <1>10, <1>11, <1>12, <1>13, <1>14,
     <1>15, StepKinds


LEMMA DeadKept == IInv /\ [Next]_vars => DeadInv'
<1> SUFFICES ASSUME TypeOK, SeedsInv, SamplesInv, DeadInv, [Next]_vars PROVE DeadInv'
  BY DEF IInv
<1> USE DEF DeadInv, Goto, Running, SameRun, SameMeasures, seeds
<1>t. run.at \in {1, 2, 3} /\ seeded \in Nat /\ run.seed \in Nat
  BY RunFields DEF TypeOK, Seeds, None
<1>1. ASSUME NEW reset \in BOOLEAN, StartSeed(reset) PROVE DeadInv'
  BY <1>1 DEF StartSeed
<1>2. CASE SeedClears \/ ClearSeedData
  BY <1>2 DEF SeedClears, ClearSeedData, SeedsInv
<1>3. CASE SeedCommits
  BY <1>3, <1>t DEF SeedCommits, SeedsInv
<1>4. CASE SeedRefused \/ SeedWritesManifest \/ SeedDies
  BY <1>4 DEF SeedRefused, SeedWritesManifest, SeedDies
<1>5. ASSUME NEW k \in Keys, Vanish(k) \/ OtherRead(k) PROVE DeadInv'
  BY <1>5 DEF Vanish, OtherRead
<1>6. CASE Toggle \/ Rebuild
  BY <1>6, DisturbedChanges DEF Toggle, Rebuild
<1>7. ASSUME NEW m \in Modes, NEW manage \in BOOLEAN, NEW skip \in BOOLEAN, Start(m, manage, skip)
      PROVE  DeadInv'
  BY <1>7, StartChanges
<1>8. CASE StopRedis
  BY <1>8, StopRedisChanges DEF StopRedis
<1>9. CASE ApiAnswers \/ WarmupEnds \/ Fail
  BY <1>9 DEF ApiAnswers, WarmupEnds, Fail, Phases
<1>10. CASE Flush("flush1", "reads") \/ Flush("flush2", "measure")
  <2>1. CASE UNCHANGED run
    BY <1>10, <2>1 DEF Flush
  <2>2. CASE Disturbed
    BY <1>10, <2>2, DisturbedChanges DEF Flush
  <2> QED
    BY <1>10, <2>1, <2>2 DEF Flush
<1>11. CASE PreflightReads
  BY <1>11, ReadsChanges DEF PreflightReads
<1>12. CASE PreflightScan
  BY <1>12, ScanChanges DEF PreflightScan
<1>13. CASE CheckDown
  BY <1>13, CheckChanges DEF CheckDown
<1>14. ASSUME NEW e \in Endpoints, Warmup(e) PROVE DeadInv'
  BY <1>14 DEF Warmup
<1>15. CASE Measure
  <2>1. /\ phase = "measure" /\ phase' = phase /\ live' = live /\ run'.seed = run.seed
        /\ run'.samples = run.samples \cup {Order[run.at]}
        /\ run'.dead = run.dead \cup (IF run.seed # live THEN {Order[run.at]} ELSE {})
    BY <1>15, MeasureChanges DEF Measure
  <2>2. Found(Order[run.at])
    BY <1>15 DEF Measure, Reply
  <2>3. CASE run.at = 1
    <3>1. Order[run.at] = "status" /\ Order[2] \notin run.samples
      BY <2>3, OrderIs DEF SamplesInv
    <3> QED
      BY <2>1, <3>1, OrderIs
  <2>4. CASE run.at = 2
    <3>1. run.seed = live /\ Order[run.at] = "routing"
      BY <2>2, <2>4, OrderIs DEF Found
    <3> QED
      BY <2>1, <3>1
  <2>5. CASE run.at = 3
    <3>1. Order[run.at] = "similar"
      BY <2>5, OrderIs
    <3> QED
      BY <2>1, <3>1
  <2> QED
    BY <1>t, <2>3, <2>4, <2>5
<1>16. CASE MeasureNext
  BY <1>16, NextChanges DEF MeasureNext
<1>17. CASE Report
  BY <1>17, ReportChanges DEF Report
<1>18. CASE Restart \/ Killed
  BY <1>18, DisturbedChanges DEF Restart, Killed
<1>19. CASE UNCHANGED vars
  BY <1>19 DEF vars
<1> QED
  BY <1>1, <1>2, <1>3, <1>4, <1>5, <1>6, <1>7, <1>8, <1>9, <1>10, <1>11, <1>12, <1>13, <1>14,
     <1>15, <1>16, <1>17, <1>18, <1>19 DEF Next

-----------------------------------------------------------------------------
(* A report is written once, by Report, of what was measured; the steps     *)
(* after it can only say that the run was disturbed.                        *)
LEMMA AfterReport ==
  ASSUME IInv, [Next]_vars, ~Report, run'.report # "none"
  PROVE  /\ SameRun /\ SameMeasures
         /\ run'.undisturbed => run.undisturbed /\ UNCHANGED <<named, mapped>>
<1> USE DEF IInv, SameRun, SameMeasures, SameChecks, host
<1>1. CASE Quiet
  BY <1>1 DEF Quiet
<1>2. CASE Toggle \/ Rebuild \/ Killed
  BY <1>2, DisturbedChanges DEF Toggle, Rebuild, Killed
<1>3. ASSUME NEW m \in Modes, NEW manage \in BOOLEAN, NEW skip \in BOOLEAN, Start(m, manage, skip)
      PROVE  run'.report = "none"
  BY <1>3, StartChanges
<1>4. CASE StopRedis
  BY <1>4, StopRedisChanges DEF StopRedis
<1>5. CASE ApiAnswers \/ WarmupEnds \/ Fail
  BY <1>5 DEF ApiAnswers, WarmupEnds, Fail
<1>6. CASE Flush("flush1", "reads") \/ Flush("flush2", "measure")
  BY <1>6, DisturbedChanges DEF Flush
<1>7. CASE PreflightReads
  BY <1>7, ReadsChanges DEF PreflightReads
<1>8. CASE PreflightScan
  BY <1>8, ScanChanges DEF PreflightScan
<1>9. CASE CheckDown
  BY <1>9, CheckChanges DEF CheckDown
<1>10. CASE Measure
  BY <1>10, MeasureChanges DEF Measure, SamplesInv, Running
<1>11. CASE MeasureNext
  BY <1>11, NextChanges DEF MeasureNext, SamplesInv, Running
<1>12. CASE Restart
  BY <1>12, DisturbedChanges DEF Restart
<1> QED
  BY <1>1, <1>2, <1>3, <1>4, <1>5, <1>6, <1>7, <1>8, <1>9, <1>10, <1>11, <1>12, StepKinds

LEMMA ReportedSamples == TypeOK /\ SamplesInv /\ Report => run.samples = Endpoints
<1> SUFFICES ASSUME TypeOK, SamplesInv, Report PROVE run.samples = Endpoints
  OBVIOUS
<1>1. run.at = 3 /\ Order[run.at] \in run.samples
  BY OrderIs DEF Report
<1>2. Order[1] \in run.samples /\ Order[2] \in run.samples
  BY <1>1, OrderIs DEF SamplesInv
<1> QED
  BY <1>1, <1>2, OrderIs, RunFields DEF TypeOK, Endpoints

LEMMA ModeKept == IInv /\ [Next]_vars => ValidReportsAreOfTheirMode'
<1> SUFFICES ASSUME IInv, [Next]_vars PROVE ValidReportsAreOfTheirMode'
  OBVIOUS
<1>1. CASE Report
  <2>1. /\ SameRun /\ SameChecks /\ UNCHANGED <<named, mapped>>
        /\ run'.undisturbed = run.undisturbed /\ run'.samples = run.samples
        /\ run'.hits = run.hits /\ run'.misses = run.misses
        /\ run'.report = "valid" => ~Invalid
    BY <1>1, ReportChanges DEF Report, host, IInv
  <2>2. phase = "measure" /\ run.samples = Endpoints
    BY <1>1, ReportedSamples DEF Report, Goto, IInv
  <2>3. run.mode \in Modes /\ run.misses \subseteq Endpoints
    BY RunFields DEF IInv, TypeOK
  <2> SUFFICES ASSUME run'.report = "valid", run.undisturbed, ~Invalid
               PROVE  /\ run.mode = "redis-down" /\ (named \/ mapped) => run.hits = {}
                      /\ run.mode = "cold-cache" /\ ~run.skip => run.misses = Endpoints
    BY <2>1 DEF ValidReportsAreOfTheirMode, SameRun
  <2>4. CASE run.mode = "redis-down"
    BY <2>2, <2>4 DEF IInv, DownInv, Invalid
  <2>5. CASE run.mode = "cold-cache"
    BY <2>2, <2>3, <2>5 DEF IInv, ColdInv, Invalid
  <2> QED
    BY <2>4, <2>5
<1>2. CASE ~Report /\ run'.report = "valid"
  <2>1. /\ SameRun /\ SameMeasures
        /\ run'.undisturbed => run.undisturbed /\ UNCHANGED <<named, mapped>>
    BY <1>2, AfterReport
  <2>2. run.mode \in Modes
    BY RunFields DEF IInv, TypeOK
  <2> SUFFICES ASSUME run'.undisturbed PROVE ValidReportsAreOfTheirMode'
    BY DEF ValidReportsAreOfTheirMode
  <2>3. /\ run.report = "valid" /\ run.undisturbed
        /\ named' = named /\ mapped' = mapped
        /\ run'.mode = run.mode /\ run'.skip = run.skip
        /\ run'.hits = run.hits /\ run'.misses = run.misses
    BY <1>2, <2>1 DEF SameRun, SameMeasures
  <2> QED
    BY <2>2, <2>3 DEF IInv, ValidReportsAreOfTheirMode, Modes
<1> QED
  BY <1>1, <1>2 DEF ValidReportsAreOfTheirMode

LEMMA ReportsKept == IInv /\ [Next]_vars => ReportsMeasureLiveTickets'
<1> SUFFICES ASSUME IInv, [Next]_vars PROVE ReportsMeasureLiveTickets'
  OBVIOUS
<1>1. CASE Report
  <2>1. phase = "measure" /\ run.samples = Endpoints /\ run'.dead = run.dead
    BY <1>1, ReportedSamples, ReportChanges DEF Report, Goto, IInv
  <2>2. "status" \notin run.dead /\ "routing" \notin run.dead
    BY <2>1 DEF IInv, DeadInv, Running, Endpoints
  <2> QED
    BY <2>1, <2>2, RunFields DEF IInv, TypeOK, Endpoints, ReportsMeasureLiveTickets
<1>2. CASE ~Report /\ run'.report # "none"
  BY <1>2, AfterReport DEF IInv, ReportsMeasureLiveTickets, SameMeasures
<1> QED
  BY <1>1, <1>2 DEF ReportsMeasureLiveTickets

-----------------------------------------------------------------------------
LEMMA Invariant == Spec => []IInv
<1>1. IInv /\ [Next]_vars => IInv'
  BY TypeKept, SeedsKept, PhaseKept, SamplesKept, RedisKept, DownKept, ColdKept, DeadKept,
     ModeKept, ReportsKept DEF IInv
<1> QED
  BY <1>1, InitInv, PTL DEF Spec

(* Every variable of the benchmark keeps its type, for any number of seeds, *)
(* runs and failures.                                                       *)
THEOREM TypeCorrect == Spec => []TypeOK
<1>1. IInv => TypeOK
  BY DEF IInv
<1> QED
  BY <1>1, Invariant, PTL

(* However the body of a run ends, the container is running afterwards if   *)
(* it was before: the restart in run_benchmark's finally makes up for every *)
(* stop that the runner made and remembered.                                *)
THEOREM RedisLeftAsFound == Spec => []RedisIsLeftAsFound
<1>1. IInv => RedisIsLeftAsFound
  BY DEF IInv, RedisInv, RedisIsLeftAsFound, Running
<1> QED
  BY <1>1, Invariant, PTL

(* What the runner's checks leave unmarked is about its mode: one look for  *)
(* a running Redis keeps hits out of a redis-down report, and preflight     *)
(* with the flush after it make every first answer of a cold run a miss.    *)
THEOREM ValidReports == Spec => []ValidReportsAreOfTheirMode
<1>1. IInv => ValidReportsAreOfTheirMode
  BY DEF IInv
<1> QED
  BY <1>1, Invariant, PTL

(* A report on a deleted ticket is never written, whatever is seeded or     *)
(* cleared meanwhile: a seed that is gone stays gone, and the endpoint      *)
(* measured after the cached status looks its ticket up.                    *)
THEOREM LiveTicketsReported == Spec => []ReportsMeasureLiveTickets
<1>1. IInv => ReportsMeasureLiveTickets
  BY DEF IInv
<1> QED
  BY <1>1, Invariant, PTL

=============================================================================
