--------------------------- MODULE BenchmarkRunner ---------------------------
(***************************************************************************)
(* The cache benchmark: the seed script, its clearing, and a run of the    *)
(* benchmark in one of its modes against the API's cache, with the Redis   *)
(* container that the runner may stop and has to start again.              *)
(*                                                                         *)
(* Seeding may go on in another shell during a run.  A benchmark has one   *)
(* sample ticket per seed; of the endpoints that look the ticket up before *)
(* the cache (routing-decision, draft-suggestion, events) one is kept.     *)
(***************************************************************************)
EXTENDS Naturals, Sequences

CONSTANTS
  MaxSeeds,    \* seeds (bound)
  MaxRuns,     \* benchmark runs (bound)
  MaxFaults    \* failures of a command or of a process (bound)

ASSUME BenchmarkAssumption ==
  MaxSeeds \in Nat /\ MaxRuns \in Nat /\ MaxFaults \in Nat

Modes == {"baseline", "cold-cache", "warm-cache", "redis-down"}
CacheModes == {"cold-cache", "warm-cache"}

(* build_endpoint_fns: the order in which the endpoints are measured.       *)
Order == <<"status", "routing", "similar">>
Endpoints == {"status", "routing", "similar"}

Seeds == 1..MaxSeeds
None == 0

(* Similarity keys do not depend on the tickets, so seeds share one.        *)
Key(e, seed) == [of |-> e, seed |-> IF e = "similar" THEN None ELSE seed]
Keys == {Key(e, seed) : e \in Endpoints, seed \in Seeds}

VARIABLES
  named,      \* the container given to the runner is the API's Redis
  mapped,     \* REDIS_URL reaches the API's Redis from the runner's host
  enabled,    \* CACHE_ENABLED of the API
  up,         \* the API's Redis is running
  cache,      \* keys in it
  live,       \* the seed whose tickets are in Postgres
  seeded,     \* seeds committed so far
  manifest,   \* the seed that the manifest names
  seeding,    \* where the seed script is
  phase,      \* where the benchmark is
  run,        \* the run: its arguments, what it found, what it measured
  runs,       \* runs started
  faults

host == <<named, mapped>>
seeds == <<live, seeded, manifest, seeding>>
vars == <<host, enabled, up, cache, seeds, phase, run, runs, faults>>

Phases == {"stop", "wait", "flush1", "reads", "scan", "flush2", "check",
           "warmup", "measure", "finally", "ended"}

Run == [mode : Modes, skip : BOOLEAN, seed : Seeds \cup {None},
        found : BOOLEAN,            \* up, when the run began
        stopped : BOOLEAN,          \* redis_stopped_by_runner
        preflight : BOOLEAN,        \* preflight.ok, so far
        invalid : BOOLEAN,          \* invalid_for_redis_down_analysis
        at : 1..Len(Order),         \* the endpoint being measured
        hits : SUBSET Endpoints,    \* endpoints with a hit
        misses : SUBSET Endpoints,  \* endpoints with a miss
        samples : SUBSET Endpoints, \* endpoints measured
        dead : SUBSET Endpoints,    \* endpoints measured on a deleted ticket
        report : {"none", "valid", "invalid"},
        undisturbed : BOOLEAN]      \* nothing else failed or touched Redis

NewRun(m, skip) ==
  [mode |-> m, skip |-> skip, seed |-> manifest, found |-> up,
   stopped |-> FALSE, preflight |-> FALSE, invalid |-> FALSE,
   at |-> 1, hits |-> {}, misses |-> {}, samples |-> {}, dead |-> {},
   report |-> "none", undisturbed |-> TRUE]

TypeOK ==
  /\ named \in BOOLEAN /\ mapped \in BOOLEAN /\ enabled \in BOOLEAN /\ up \in BOOLEAN
  /\ cache \subseteq Keys
  /\ live \in {None, seeded} /\ seeded \in 0..MaxSeeds
  /\ manifest \in 0..seeded
  /\ seeding \in {"idle", "reset", "insert", "manifest"}
  /\ phase \in Phases /\ run \in Run
  /\ runs \in 0..MaxRuns /\ faults \in 0..MaxFaults

Init ==
  /\ named \in BOOLEAN /\ mapped \in BOOLEAN /\ enabled \in BOOLEAN
  /\ up = TRUE
  /\ cache = {}
  /\ live = None /\ seeded = 0 /\ manifest = None /\ seeding = "idle"
  /\ phase = "ended" /\ run = NewRun("baseline", FALSE)
  /\ runs = 0 /\ faults = 0

Running == phase # "ended"
Goto(from, to) == phase = from /\ phase' = to

-----------------------------------------------------------------------------
(* run_seed and clear_phase4_benchmark_data *)

StartSeed(reset) ==
  /\ seeding = "idle" /\ seeded < MaxSeeds
  /\ seeding' = IF reset THEN "reset" ELSE "insert"
  /\ UNCHANGED <<host, enabled, up, cache, live, seeded, manifest, phase, run, runs, faults>>

(* The old rows are gone before the new ones are inserted.  Nothing tells   *)
(* the cache.                                                               *)
SeedClears ==
  /\ seeding = "reset"
  /\ seeding' = "insert" /\ live' = None
  /\ UNCHANGED <<host, enabled, up, cache, seeded, manifest, phase, run, runs, faults>>

(* Faulty variant: the manifest is written ahead of the commit.             *)
ManifestAheadOfCommit ==
  /\ seeding = "insert" /\ live = None
  /\ seeding' = "manifest" /\ manifest' = seeded + 1
  /\ UNCHANGED <<host, enabled, up, cache, live, seeded, phase, run, runs, faults>>

SeedCommits ==
  /\ seeding = "insert" /\ live = None
  /\ seeding' = "manifest" /\ live' = seeded + 1 /\ seeded' = seeded + 1
  /\ UNCHANGED <<host, enabled, up, cache, manifest, phase, run, runs, faults>>

(* Without --reset the unique external ids of the old rows are in the way.  *)
SeedRefused ==
  /\ seeding = "insert" /\ live # None
  /\ seeding' = "idle"
  /\ UNCHANGED <<host, enabled, up, cache, live, seeded, manifest, phase, run, runs, faults>>

SeedWritesManifest ==
  /\ seeding = "manifest"
  /\ seeding' = "idle" /\ manifest' = seeded
  /\ UNCHANGED <<host, enabled, up, cache, live, seeded, phase, run, runs, faults>>

SeedDies ==
  /\ seeding # "idle" /\ faults < MaxFaults
  /\ seeding' = "idle" /\ faults' = faults + 1
  /\ UNCHANGED <<host, enabled, up, cache, live, seeded, manifest, phase, run, runs>>

ClearSeedData ==
  /\ seeding = "idle" /\ live # None
  /\ live' = None
  /\ UNCHANGED <<host, enabled, up, cache, seeded, manifest, seeding, phase, run, runs, faults>>

-----------------------------------------------------------------------------
(* The API's cache and who else uses it *)

Caching == enabled /\ up

Disturbed == run' = [run EXCEPT !.undisturbed = FALSE]

(* The TTL, or the worker's invalidation.                                   *)
Vanish(k) ==
  /\ up /\ k \in cache
  /\ cache' = cache \ {k}
  /\ UNCHANGED <<host, enabled, up, seeds, phase, run, runs, faults>>

(* A run has the API to itself.                                             *)
OtherRead(k) ==
  /\ ~Running /\ Caching /\ k \notin cache
  /\ k.of = "similar" \/ k.seed = live
  /\ cache' = cache \cup {k}
  /\ UNCHANGED <<host, enabled, up, seeds, phase, run, runs, faults>>

(* Somebody stops or starts the container.                                  *)
Toggle ==
  /\ faults < MaxFaults
  /\ faults' = faults + 1
  /\ up' = ~up
  /\ Disturbed
  /\ UNCHANGED <<host, enabled, cache, seeds, phase, runs>>

(* make rebuild-api-baseline, make rebuild-api-cached: the API depends on   *)
(* Redis, so Compose starts it with either.                                 *)
Rebuild ==
  /\ ~Running
  /\ enabled' \in BOOLEAN
  /\ up' = TRUE
  /\ Disturbed
  /\ UNCHANGED <<host, cache, seeds, phase, runs, faults>>

-----------------------------------------------------------------------------
(* run_benchmark *)

(* docker_container_running, ping_redis.                                    *)
ContainerRunning == named /\ up
Ping == mapped /\ up

(* flush_cache_keys_with_fallback, scan_cache_keys_with_fallback: by        *)
(* REDIS_URL and by docker exec.                                            *)
Flushed == IF Ping \/ ContainerRunning THEN {} ELSE cache
Scanned == IF Ping \/ ContainerRunning THEN cache ELSE {}

Start(m, manage, skip) ==
  /\ ~Running /\ runs < MaxRuns /\ manifest # None
  /\ runs' = runs + 1
  /\ run' = NewRun(m, skip)
  /\ phase' = IF m = "redis-down" /\ manage /\ ContainerRunning THEN "stop" ELSE "wait"
  /\ UNCHANGED <<host, enabled, up, cache, seeds, faults>>

(* docker_stop_container: entries survive.  A stop that fails may have      *)
(* stopped the container all the same, and is not undone.                   *)
StopRedis ==
  /\ Goto("stop", "wait")
  /\ \/ /\ up' = FALSE
        /\ run' = [run EXCEPT !.stopped = ContainerRunning]
        /\ UNCHANGED faults
     \/ /\ faults < MaxFaults
        /\ faults' = faults + 1
        /\ up' \in {up, FALSE}
        /\ Disturbed
  /\ UNCHANGED <<host, enabled, cache, seeds, runs>>

AfterPreflight(m) ==
  CASE m = "cold-cache" -> "flush2" [] m = "redis-down" -> "check"
    [] m = "warm-cache" -> "warmup" [] OTHER -> "measure"

(* wait_for_api; that it gives up is one of the ways to Fail.               *)
ApiAnswers ==
  /\ Goto("wait", IF run.mode \in CacheModes /\ ~run.skip
                  THEN "flush1" ELSE AfterPreflight(run.mode))
  /\ UNCHANGED <<host, enabled, up, cache, seeds, run, runs, faults>>

(* Before preflight and, in cold-cache mode, after it.  A docker exec that  *)
(* fails is taken for an empty cache.                                       *)
Flush(from, to) ==
  /\ Goto(from, to)
  /\ \/ cache' = Flushed /\ UNCHANGED <<run, faults>>
     \/ /\ faults < MaxFaults /\ ~Ping
        /\ faults' = faults + 1
        /\ Disturbed
        /\ UNCHANGED cache
  /\ UNCHANGED <<host, enabled, up, seeds, runs>>

(* The status and then the similar tickets, twice each.                     *)
PreflightReads ==
  LET status == Key("status", run.seed) IN
  /\ Goto("reads", "scan")
  /\ run.seed = live \/ (Caching /\ status \in cache)
  /\ \E filled \in SUBSET {status, Key("similar", run.seed)} :
       /\ Caching \/ filled = {}
       /\ cache' = cache \cup filled
       /\ run' = [run EXCEPT !.preflight = Caching /\ status \in cache']
  /\ UNCHANGED <<host, enabled, up, seeds, runs, faults>>

PreflightScan ==
  /\ Goto("scan", AfterPreflight(run.mode))
  /\ run' = [run EXCEPT !.preflight = @ /\ Scanned # {}]
  /\ UNCHANGED <<host, enabled, up, cache, seeds, runs, faults>>

(* Faulty variant: only the container is asked.                             *)
CheckContainer ==
  /\ Goto("check", "measure")
  /\ run' = [run EXCEPT !.invalid = ContainerRunning]
  /\ UNCHANGED <<host, enabled, up, cache, seeds, runs, faults>>

(* _redis_down_analysis_invalid_async.                                      *)
CheckDown ==
  /\ Goto("check", "measure")
  /\ run' = [run EXCEPT !.invalid = ContainerRunning \/ Ping]
  /\ UNCHANGED <<host, enabled, up, cache, seeds, runs, faults>>

(* Faulty variant: all endpoints ask the cache before they look the ticket up. *)
CacheAheadOfLookup(e) ==
  e = "similar" \/ run.seed = live \/ (Caching /\ Key(e, run.seed) \in cache)

(* What is no 404: the status may come from the cache though the ticket is  *)
(* gone; the others look the ticket up first.                               *)
Found(e) ==
  \/ e = "similar" \/ run.seed = live
  \/ e = "status" /\ Caching /\ Key(e, run.seed) \in cache

Reply(e, hit) ==
  /\ Found(e)
  /\ IF hit
     THEN Caching /\ Key(e, run.seed) \in cache /\ UNCHANGED cache
     ELSE /\ e = "status" => run.seed = live
          /\ cache' \in {cache} \cup
               (IF Caching THEN {cache \cup {Key(e, run.seed)}} ELSE {})

Warmup(e) ==
  /\ phase = "warmup"
  /\ \E hit \in BOOLEAN : Reply(e, hit)
  /\ UNCHANGED <<host, enabled, up, seeds, phase, run, runs, faults>>

WarmupEnds ==
  /\ Goto("warmup", "measure")
  /\ UNCHANGED <<host, enabled, up, cache, seeds, run, runs, faults>>

(* bench_get, bench_similar: without a header neither counts.               *)
Measure ==
  LET e == Order[run.at] IN
  /\ phase = "measure"
  /\ \E hit \in BOOLEAN :
       /\ Reply(e, hit)
       /\ run' = [run EXCEPT
            !.samples = @ \cup {e},
            !.hits = @ \cup (IF hit THEN {e} ELSE {}),
            !.misses = @ \cup (IF enabled /\ ~hit THEN {e} ELSE {}),
            !.dead = @ \cup (IF run.seed # live THEN {e} ELSE {})]
  /\ UNCHANGED <<host, enabled, up, seeds, phase, runs, faults>>

MeasureNext ==
  /\ phase = "measure" /\ Order[run.at] \in run.samples /\ run.at < Len(Order)
  /\ run' = [run EXCEPT !.at = @ + 1]
  /\ UNCHANGED <<host, enabled, up, cache, seeds, phase, runs, faults>>

(* _cache_analysis_invalid, _baseline_analysis_invalid.                     *)
Invalid ==
  CASE run.mode = "baseline" -> run.hits \cup run.misses # {}
    [] run.mode = "redis-down" -> run.invalid
    [] run.mode = "warm-cache" -> run.hits = {} \/ (~run.skip /\ ~run.preflight)
    [] run.mode = "cold-cache" -> run.misses = {} \/ (~run.skip /\ ~run.preflight)

Report ==
  /\ Order[run.at] \in run.samples /\ run.at = Len(Order)
  /\ Goto("measure", "finally")
  /\ run' = [run EXCEPT !.report = IF Invalid THEN "invalid" ELSE "valid"]
  /\ UNCHANGED <<host, enabled, up, cache, seeds, runs, faults>>

(* An exception in the body: a 404 or another error answer, a timeout, an   *)
(* interrupt, a failing SCAN or DEL, an unwritable file.                    *)
Fail ==
  /\ phase \in Phases \ {"stop", "finally", "ended"}
  /\ phase' = "finally"
  /\ UNCHANGED <<host, enabled, up, cache, seeds, run, runs, faults>>

(* Faulty variant: Redis is started again after a report only.              *)
RestartAfterReport ==
  /\ Goto("finally", "ended")
  /\ up' = (up \/ (run.stopped /\ run.report # "none"))
  /\ UNCHANGED <<host, enabled, cache, seeds, run, runs, faults>>

(* finally: docker start, whose failure is only warned of.                  *)
Restart ==
  /\ Goto("finally", "ended")
  /\ \/ up' = (up \/ run.stopped) /\ UNCHANGED <<run, faults>>
     \/ /\ run.stopped /\ faults < MaxFaults
        /\ faults' = faults + 1
        /\ Disturbed
        /\ UNCHANGED up
  /\ UNCHANGED <<host, enabled, cache, seeds, runs>>

Killed ==
  /\ Running /\ faults < MaxFaults
  /\ faults' = faults + 1
  /\ phase' = "ended"
  /\ Disturbed
  /\ UNCHANGED <<host, enabled, up, cache, seeds, runs>>

Next ==
  \/ \E reset \in BOOLEAN : StartSeed(reset)
  \/ SeedClears \/ SeedCommits \/ SeedRefused \/ SeedWritesManifest \/ SeedDies
  \/ ClearSeedData
  \/ \E k \in Keys : Vanish(k) \/ OtherRead(k)
  \/ Toggle \/ Rebuild
  \/ \E m \in Modes, manage, skip \in BOOLEAN : Start(m, manage, skip)
  \/ StopRedis \/ ApiAnswers
  \/ Flush("flush1", "reads") \/ PreflightReads \/ PreflightScan
  \/ Flush("flush2", "measure") \/ CheckDown
  \/ \E e \in Endpoints : Warmup(e)
  \/ WarmupEnds \/ Measure \/ MeasureNext \/ Report
  \/ Fail \/ Restart \/ Killed

Spec == Init /\ [][Next]_vars

-----------------------------------------------------------------------------
(* Properties *)

(* However a run ends, by a report or an exception, Redis is running again  *)
(* afterwards if it was running before, unless a docker command failed, the *)
(* process was killed or somebody else stopped or started it.               *)
RedisIsLeftAsFound ==
  ~Running /\ run.undisturbed => up = run.found

(* A report that is not marked invalid is about what its mode says, though  *)
(* the runner checks less: in redis-down mode it asks once, before it       *)
(* measures, whether Redis is down, and no answer came from the cache; in   *)
(* cold-cache mode one miss is enough for it, and every endpoint had to go  *)
(* to Postgres.  For the first the runner must be able to see the API's     *)
(* Redis, for the second preflight must not be skipped.                     *)
ValidReportsAreOfTheirMode ==
  run.report = "valid" /\ run.undisturbed =>
    /\ run.mode = "redis-down" /\ (named \/ mapped) => run.hits = {}
    /\ run.mode = "cold-cache" /\ ~run.skip => run.misses = Endpoints

(* Although a status is served from the cache whether or not its ticket     *)
(* still exists, and the manifest may name deleted tickets, what a report   *)
(* says of a ticket was measured while the ticket existed: the endpoints    *)
(* measured later look it up.                                               *)
ReportsMeasureLiveTickets ==
  run.report # "none" => run.dead \subseteq {"similar"}

=============================================================================
