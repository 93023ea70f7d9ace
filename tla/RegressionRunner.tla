-------------------------- MODULE RegressionRunner --------------------------
(***************************************************************************)
(* svd2rust-regress: every job creates a crate, generates its code and     *)
(* checks it, with several jobs at once. Any command may fail, and the     *)
(* whole program may be killed at any point (with the commands it has      *)
(* started) and be run again over what it has left behind.                 *)
(***************************************************************************)
EXTENDS RegressionCases, Integers, FiniteSets

CONSTANTS
  Threads,   \* the size of rayon's pool
  MaxRuns    \* how often the program is started

ASSUME ThreadsAssumption == Threads \in Nat \ {0}
ASSUME MaxRunsAssumption == MaxRuns \in Nat

\* Code is told apart by its origin: the template of cargo init, or the run of
\* svd2rust-regress in which svd2rust generated it.
Nothing  == 0
Template == -1
Codes    == Template .. MaxRuns

VARIABLES
  phase,       \* what the program is doing
  run,         \* how often it was started
  options,     \* its command line
  pc,          \* the stage of each job
  any_fails,
  status,      \* the exit status
  crates,      \* the files in each job's directory
  manifest,    \* the members added to the manifest of the workspace
  guard,       \* what WorkspaceTomlGuard holds: no manifest, or one
  found,       \* the manifest as this run found it
  unrestored,  \* the guard has reported that it could not write the manifest
  checked      \* which checks of a job succeeded in this run, on what code

vars == <<phase, run, options, pc, any_fails, status, crates, manifest, guard, found,
          unrestored, checked>>
runVars == <<phase, run, options, guard, found, unrestored, status>>

Busy == {j \in Jobs : pc[j] \in Stages}

\* toml: the Cargo.toml of the crate. svd: how many SVD files were appended to
\* <chip>.svd. root: lib.rs beside Cargo.toml. lib: src/lib.rs.
NoCrate == [toml |-> "none", svd |-> 0, root |-> Nothing, lib |-> Nothing]

----------------------------------------------------------------------------
(* The program *)

\* TestAll::run, Test::run and make_case as far as the first job. diff takes no guard.
Start(o) ==
  /\ phase \in {"idle", "exited", "killed"} /\ run < MaxRuns
  /\ \E jobs \in JobSets(o) : pc' = [j \in Jobs |-> IF j \in jobs THEN "waiting" ELSE "idle"]
  /\ phase' = "running"
  /\ run' = run + 1
  /\ options' = o
  /\ guard' = IF o.command = "diff" THEN {} ELSE {manifest}
  /\ found' = manifest
  /\ any_fails' = FALSE /\ status' = 0 /\ unrestored' = FALSE
  /\ checked' = [j \in Jobs |-> {}]
  /\ UNCHANGED <<crates, manifest>>

\* `no test found for chip', `diff requires exactly one test case'.
Refuse(o) ==
  /\ phase \in {"idle", "exited", "killed"} /\ run < MaxRuns
  /\ JobSets(o) = {}
  /\ phase' = "exited"
  /\ run' = run + 1
  /\ options' = o
  /\ found' = manifest
  /\ pc' = [j \in Jobs |-> "idle"]
  /\ any_fails' = FALSE /\ status' = 1 /\ unrestored' = FALSE
  /\ checked' = [j \in Jobs |-> {}]
  /\ UNCHANGED <<crates, manifest, guard>>

Failed == {j \in Jobs : pc[j] = "failed"}

\* par_iter has come to its end; diff returns at the first error.
Over == /\ Busy = {}
        /\ (\E j \in Jobs : pc[j] = "waiting") => options.command = "diff" /\ Failed # {}

\* A mutant of DropGuard: the guard is left to exit(), which runs no destructors.
ForgetGuard ==
  /\ phase = "running" /\ Over /\ guard # {}
  /\ guard' = {}
  /\ UNCHANGED <<phase, run, options, pc, any_fails, status, crates, manifest, found,
                 unrestored, checked>>

\* The guard writes the manifest back, or reports that it could not. `tests' drops it
\* before it calls exit, `test' when it returns.
DropGuard ==
  /\ phase = "running" /\ Over
  /\ \E saved \in guard : \/ /\ manifest' = saved
                             /\ UNCHANGED unrestored
                          \/ /\ unrestored' = TRUE
                             /\ UNCHANGED manifest
  /\ guard' = {}
  /\ UNCHANGED <<phase, run, options, pc, any_fails, status, crates, found, checked>>

\* The status of `tests' is that of the flag its jobs share; the others return the error.
Exit ==
  /\ phase = "running" /\ Over /\ guard = {}
  /\ phase' = "exited"
  /\ status' = IF (IF options.command = "tests" THEN any_fails ELSE Failed # {}) THEN 1 ELSE 0
  /\ UNCHANGED <<run, options, pc, any_fails, crates, manifest, guard, found, unrestored, checked>>

Kill ==
  /\ phase = "running"
  /\ phase' = "killed"
  /\ pc' = [j \in Jobs |-> "idle"]
  /\ guard' = {}
  /\ UNCHANGED <<run, options, any_fails, status, crates, manifest, found, unrestored, checked>>

\* No run is left.
Ended == phase \in {"exited", "killed"} /\ run = MaxRuns /\ UNCHANGED vars

----------------------------------------------------------------------------
(* The stages of a job *)

\* A thread of the pool takes a job. The jobs of diff run one after the other.
Claim(j) ==
  /\ phase = "running" /\ pc[j] = "waiting"
  /\ IF options.command = "diff"
       THEN j.root = "current" => pc[[j EXCEPT !.root = "baseline"]] = "passed"
       ELSE Cardinality(Busy) < Threads
  /\ pc' = [pc EXCEPT ![j] = "remove"]
  /\ UNCHANGED <<runVars, any_fails, crates, manifest, checked>>

At(j, stage) == phase = "running" /\ pc[j] = stage

Pass(j, stage) == /\ At(j, stage)
                  /\ Wanted(stage, j.case, options)
                  /\ pc' = [pc EXCEPT ![j] = After(stage, options)]

Skip(j) ==
  /\ phase = "running" /\ pc[j] \in Stages
  /\ ~Wanted(pc[j], j.case, options)
  /\ pc' = [pc EXCEPT ![j] = After(@, options)]
  /\ UNCHANGED <<runVars, any_fails, crates, manifest, checked>>

\* A mutant of RemoveDir: the directory of an earlier run stays.
KeepDir(j) ==
  /\ Pass(j, "remove")
  /\ UNCHANGED <<runVars, any_fails, crates, manifest, checked>>

RemoveDir(j) ==
  /\ Pass(j, "remove")
  /\ crates' = [crates EXCEPT ![j] = NoCrate]
  /\ UNCHANGED <<runVars, any_fails, manifest, checked>>

\* What the next command of a job needs to succeed.
Ready(j) ==
  CASE pc[j] = "init"     -> crates[j].toml = "none"
    [] pc[j] = "toml"     -> crates[j].toml = "init"
    [] pc[j] = "svd2rust" -> crates[j].svd = 1
    [] pc[j] = "move"     -> crates[j].root # Nothing
    [] pc[j] \in {"tidy", "form"} -> crates[j].lib # Nothing
    [] pc[j] \in CheckStages -> crates[j].toml = "full" /\ crates[j].lib # Nothing
    [] OTHER              -> TRUE

\* cargo init leaves code that exists alone, and adds the crate to the workspace around it.
Initialised(crate) ==
  [crate EXCEPT !.toml = "init", !.lib = IF @ = Nothing THEN Template ELSE @]

CargoInit(j) ==
  /\ Pass(j, "init") /\ Ready(j)
  /\ crates' = [crates EXCEPT ![j] = Initialised(@)]
  /\ manifest' = manifest \cup {j}
  /\ UNCHANGED <<runVars, any_fails, checked>>

\* prepare_chip_test_toml appends to the file of cargo init.
PrepareToml(j) ==
  /\ Pass(j, "toml") /\ Ready(j)
  /\ crates' = [crates EXCEPT ![j].toml = "full"]
  /\ UNCHANGED <<runVars, any_fails, manifest, checked>>

\* A mutant of PrepareSvd: the download is repeated after it was written.
DownloadAgain(j) ==
  /\ Pass(j, "svd") \/ (At(j, "svd") /\ crates[j].svd < 2 /\ UNCHANGED pc)
  /\ crates' = [crates EXCEPT ![j].svd = @ + 1]
  /\ UNCHANGED <<runVars, any_fails, manifest, checked>>

\* file_helper appends what was downloaded.
PrepareSvd(j) ==
  /\ Pass(j, "svd")
  /\ crates' = [crates EXCEPT ![j].svd = @ + 1]
  /\ UNCHANGED <<runVars, any_fails, manifest, checked>>

\* svd2rust writes lib.rs into its working directory, whatever the target.
RunSvd2rust(j) ==
  /\ Pass(j, "svd2rust") /\ Ready(j)
  /\ crates' = [crates EXCEPT ![j].root = run]
  /\ UNCHANGED <<runVars, any_fails, manifest, checked>>

\* A mutant of MoveLib: the file stays where svd2rust wrote it.
LeaveLib(j) ==
  /\ Pass(j, "move") /\ Ready(j)
  /\ UNCHANGED <<runVars, any_fails, crates, manifest, checked>>

MoveLib(j) ==
  /\ Pass(j, "move") /\ Ready(j)
  /\ crates' = [crates EXCEPT ![j].lib = crates[j].root, ![j].root = Nothing]
  /\ UNCHANGED <<runVars, any_fails, manifest, checked>>

\* src/lib.rs is parsed and printed again.
Tidy(j) ==
  /\ Pass(j, "tidy") /\ Ready(j)
  /\ UNCHANGED <<runVars, any_fails, crates, manifest, checked>>

\* src/lib.rs is moved beside Cargo.toml, over what is there, split into src/, and removed.
Form(j) ==
  /\ Pass(j, "form") /\ Ready(j)
  /\ crates' = [crates EXCEPT ![j].root = Nothing]
  /\ UNCHANGED <<runVars, any_fails, manifest, checked>>

Rustfmt(j) ==
  /\ Pass(j, "rustfmt")
  /\ UNCHANGED <<runVars, any_fails, crates, manifest, checked>>

Check(j) ==
  /\ \E stage \in CheckStages :
       /\ Pass(j, stage) /\ Ready(j)
       /\ checked' = [checked EXCEPT ![j] = @ \cup {<<stage, crates[j].lib>>}]
  /\ UNCHANGED <<runVars, any_fails, crates, manifest>>

----------------------------------------------------------------------------
(* Failures: the error goes up to test, and for_each sets the flag. *)

\* (The flag is there for `tests' only, but does no harm in the others.)
Error(j) ==
  /\ pc' = [pc EXCEPT ![j] = "failed"]
  /\ any_fails' = TRUE
  /\ UNCHANGED <<runVars, checked>>

\* Mutants of Fail: the flag is not set; the job starts again.
FailQuietly(j) ==
  /\ phase = "running" /\ pc[j] \in Stages /\ Wanted(pc[j], j.case, options)
  /\ pc' = [pc EXCEPT ![j] = "failed"]
  /\ UNCHANGED <<runVars, any_fails, crates, manifest, checked>>

TryAgain(j) ==
  /\ phase = "running" /\ pc[j] \in Stages /\ Wanted(pc[j], j.case, options)
  /\ pc' = [pc EXCEPT ![j] = "waiting"]
  /\ UNCHANGED <<runVars, any_fails, crates, manifest, checked>>

\* Any stage may fail, before it has changed anything.
Fail(j) ==
  /\ phase = "running" /\ pc[j] \in Stages /\ Wanted(pc[j], j.case, options)
  /\ Error(j)
  /\ UNCHANGED <<crates, manifest>>

\* cargo init may fail when it has added the crate to the workspace already, and form
\* when src/lib.rs has been moved away.
FailHalfWay(j) ==
  \/ /\ At(j, "init") /\ Ready(j)
     /\ Error(j)
     /\ crates' = [crates EXCEPT ![j] = Initialised(@)]
     /\ manifest' = manifest \cup {j}
  \/ /\ At(j, "form") /\ options.form /\ Ready(j)
     /\ Error(j)
     /\ crates' = [crates EXCEPT ![j].root = crates[j].lib, ![j].lib = Nothing]
     /\ UNCHANGED manifest

----------------------------------------------------------------------------

Init ==
  /\ phase = "idle" /\ run = 0
  /\ options \in Options
  /\ pc = [j \in Jobs |-> "idle"]
  /\ any_fails = FALSE /\ status = 0
  /\ crates = [j \in Jobs |-> NoCrate]
  /\ manifest = {} /\ guard = {} /\ found = {} /\ unrestored = FALSE
  /\ checked = [j \in Jobs |-> {}]

JobStep(j) ==
  \/ Claim(j) \/ Skip(j) \/ RemoveDir(j) \/ CargoInit(j) \/ PrepareToml(j) \/ PrepareSvd(j)
  \/ RunSvd2rust(j) \/ MoveLib(j) \/ Tidy(j) \/ Form(j) \/ Rustfmt(j) \/ Check(j)
  \/ Fail(j) \/ FailHalfWay(j)

Finish == DropGuard \/ Exit

Next ==
  \/ \E o \in Options : Start(o) \/ Refuse(o)
  \/ \E j \in Jobs : JobStep(j)
  \/ Finish
  \/ Kill
  \/ Ended

\* Commands end, and the threads of the pool go on while there are jobs.
Fairness == WF_vars(\E j \in Jobs : JobStep(j)) /\ WF_vars(Finish)

Spec     == Init /\ [][Next]_vars
FairSpec == Spec /\ Fairness

----------------------------------------------------------------------------
(* Properties *)

\* Types, and: the SVD file of a crate is downloaded once, although file_helper appends.
RunnerTypeOK ==
  /\ phase \in {"idle", "running", "exited", "killed"}
  /\ run \in 0..MaxRuns
  /\ options \in Options
  /\ pc \in [Jobs -> Stages \cup {"idle", "waiting", "passed", "failed"}]
  /\ any_fails \in BOOLEAN
  /\ status \in {0, 1}
  /\ crates \in [Jobs -> [toml : {"none", "init", "full"}, svd : {0, 1}, root : Codes, lib : Codes]]
  /\ manifest \subseteq Jobs
  /\ guard = {} \/ \E saved \in SUBSET Jobs : guard = {saved}
  /\ found \subseteq Jobs
  /\ unrestored \in BOOLEAN
  /\ checked \in [Jobs -> SUBSET (CheckStages \X Codes)]

CheckedAsGenerated(j) ==
  pc[j] = "passed" =>
    /\ crates[j].lib = run
    /\ options.command # "diff" =>
         \A stage \in CheckStages : Wanted(stage, j.case, options) => <<stage, run>> \in checked[j]

\* A job reported as passed has run every check it was asked for, on the code that
\* svd2rust generated for it in this run and not on what was there before. This
\* holds for the targets whose lib.rs setup_case moves.
PassedMeansChecked == \A j \in Jobs : j.case.arch \in Moved => CheckedAsGenerated(j)

\* The same of every target: the README's steps 3 and 4, "Run `svd2rust` to generate
\* `output/<chip>/src/lib.rs`" and "Run `cargo check` to ensure the project still builds".
EveryPassMeansChecked == \A j \in Jobs : CheckedAsGenerated(j)

\* A job never meets what another run, killed at any point, left in its directory: all a
\* command needs is there, and only commands that fail by themselves make a job fail.
LeftoversDoNoHarm == \A j \in Busy : Ready(j)

\* The exit status is 0 if and only if the command was accepted and all its jobs passed,
\* in whatever order they ended and whichever failed (README, "Output").
StatusTellsOutcome ==
  phase = "exited" =>
    (status = 0 <=> JobSets(options) # {} /\ \A j \in Jobs : pc[j] \in {"idle", "passed"})

\* `tests' and `test' leave the manifest of the workspace as they found it, unless they say
\* that they could not write it (the workaround described in WorkspaceTomlGuard::new). A killed
\* run may leave crates in it, and so may diff, which relies on the patterns in Cargo.toml instead.
GuardedManifestRestored ==
  phase = "exited" /\ ~unrestored /\ options.command # "diff" => manifest = found

\* A run that is not killed comes to its end, however many of its jobs fail and however few
\* threads there are.
EveryRunEnds == phase = "running" ~> phase \in {"exited", "killed"}
=============================================================================
