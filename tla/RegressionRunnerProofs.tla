----------------------- MODULE RegressionRunnerProofs -----------------------
(***************************************************************************)
(* The safety properties of RegressionRunner, for every list of cases,     *)
(* every set of command lines, any pool of threads, any number of runs and *)
(* any place to be killed at.                                              *)
(***************************************************************************)
EXTENDS RegressionRunner, TLAPS

\* What the directory of a job holds at each stage of the job.
Progress(j) ==
  /\ pc[j] = "init" => crates[j] = NoCrate
  /\ pc[j] = "toml" => crates[j].toml = "init"
  /\ pc[j] \in Stages \ {"remove", "init", "toml"} => crates[j].toml = "full"
  /\ pc[j] \in {"toml", "svd"} => crates[j].svd = 0
  /\ pc[j] \in Stages \ {"remove", "init", "toml", "svd"} => crates[j].svd = 1
  /\ pc[j] = "move" => crates[j].root = run
  /\ pc[j] \in Stages \ {"remove", "init"} => crates[j].lib # Nothing
  /\ /\ pc[j] \in {"tidy", "form", "rustfmt", "passed"} \cup CheckStages
     /\ j.case.arch \in Moved
     => crates[j].lib = run

\* The checks that a job has behind it.
Done(stage, j) ==
  options.command # "diff" /\ j.case.arch \in Moved /\ Wanted(stage, j.case, options)
    => <<stage, run>> \in checked[j]

ChecksDone(j) ==
  /\ pc[j] \in {"docs_nightly", "docs_stable", "clippy", "passed"} => Done("check", j)
  /\ pc[j] \in {"docs_stable", "clippy", "passed"} => Done("docs_nightly", j)
  /\ pc[j] \in {"clippy", "passed"} => Done("docs_stable", j)
  /\ pc[j] = "passed" => Done("clippy", j)

\* No job runs outside a run.
Running == /\ phase # "running" => Busy = {}
           /\ phase # "idle" => run > 0
           /\ phase = "idle" => \A j \in Jobs : pc[j] = "idle"

\* The flag and the status know the outcome.
FlagKnows ==
  /\ phase = "running" => /\ JobSets(options) # {}
                          /\ any_fails <=> \E j \in Jobs : pc[j] = "failed"
  /\ StatusTellsOutcome

\* The guard holds the manifest that was found, until no job is left to change it.
GuardHolds ==
  /\ guard # {} => phase = "running" /\ guard = {found}
  /\ /\ phase = "running" /\ options.command # "diff" /\ guard = {}
     => /\ \A j \in Jobs : pc[j] \in {"idle", "passed", "failed"}
        /\ ~unrestored => manifest = found
  /\ GuardedManifestRestored

RunnerInv ==
  /\ RunnerTypeOK
  /\ \A j \in Jobs : Progress(j)
  /\ \A j \in Jobs : ChecksDone(j)
  /\ Running
  /\ FlagKnows
  /\ GuardHolds

----------------------------------------------------------------------------

PcType      == [Jobs -> Stages \cup {"idle", "waiting", "passed", "failed"}]
CrateType   == [toml : {"none", "init", "full"}, svd : {0, 1}, root : Codes, lib : Codes]
CheckedType == [Jobs -> SUBSET (CheckStages \X Codes)]

LEMMA RunIsCode == ASSUME run \in 0..MaxRuns PROVE run \in Codes /\ Template \in Codes /\ Nothing \in Codes
BY MaxRunsAssumption DEF Codes, Template, Nothing

\* What each stage is followed by.
LEMMA AfterFacts ==
  ASSUME NEW o
  PROVE  /\ After("remove", o) = "init"       /\ After("init", o) = "toml"
         /\ After("toml", o) = "svd"          /\ After("svd", o) = "svd2rust"
         /\ After("svd2rust", o) = "move"     /\ After("move", o) = "tidy"
         /\ After("tidy", o) = "form"         /\ After("form", o) = "rustfmt"
         /\ After("rustfmt", o) = IF o.command = "diff" THEN "passed" ELSE "check"
         /\ After("check", o) = "docs_nightly"
         /\ After("docs_nightly", o) = "docs_stable"
         /\ After("docs_stable", o) = "clippy"
         /\ After("clippy", o) = "passed"
BY DEF After, Following

\* A step of one job, in which the job keeps its part of the invariant and the flag is set
\* if it fails, keeps the invariant.
LEMMA JobKeepsInv ==
  ASSUME RunnerInv, NEW j \in Jobs, phase = "running", UNCHANGED runVars,
         pc[j] \in Stages \cup {"waiting"}, pc'[j] \in Stages \cup {"passed", "failed"},
         pc' \in PcType, crates' \in [Jobs -> CrateType], checked' \in CheckedType,
         \A k \in Jobs \ {j} : /\ pc'[k] = pc[k]
                               /\ crates'[k] = crates[k]
                               /\ checked'[k] = checked[k],
         manifest' \subseteq Jobs,
         any_fails' = (any_fails \/ pc'[j] = "failed"),
         Progress(j)', ChecksDone(j)'
  PROVE  RunnerInv'
<1>1. RunnerTypeOK'
  BY DEF RunnerInv, RunnerTypeOK, runVars, PcType, CrateType, CheckedType
<1>2. ASSUME NEW k \in Jobs PROVE Progress(k)' /\ ChecksDone(k)'
  <2>1. CASE k = j
    BY <2>1
  <2>2. CASE k # j
    <3>1. Progress(k) /\ ChecksDone(k)
      BY DEF RunnerInv
    <3>2. Progress(k)'
      BY <2>2, <3>1 DEF Progress, runVars
    <3>3. ChecksDone(k)'
      BY <2>2, <3>1 DEF ChecksDone, Done, runVars
    <3> QED BY <3>2, <3>3
  <2> QED BY <2>1, <2>2
<1>3. Running'
  BY DEF RunnerInv, Running, runVars
<1>4. FlagKnows'
  <2>1. phase' = "running" /\ any_fails \in BOOLEAN
    BY DEF RunnerInv, RunnerTypeOK, runVars
  <2>2. JobSets(options)' # {}
    BY DEF RunnerInv, FlagKnows, runVars, JobSets
  <2>3. any_fails' <=> \E k \in Jobs : pc'[k] = "failed"
    <3>1. any_fails <=> \E k \in Jobs : pc[k] = "failed"
      BY DEF RunnerInv, FlagKnows
    <3>2. pc[j] # "failed"
      BY DEF Stages, SetupStages, CheckStages
    <3> QED BY <3>1, <3>2
  <2> QED BY <2>1, <2>2, <2>3 DEF FlagKnows, StatusTellsOutcome
<1>5. GuardHolds'
  <2>1. pc[j] \notin {"idle", "passed", "failed"}
    BY DEF Stages, SetupStages, CheckStages
  <2> QED BY <2>1 DEF RunnerInv, GuardHolds, GuardedManifestRestored, runVars
<1> QED BY <1>1, <1>2, <1>3, <1>4, <1>5 DEF RunnerInv

----------------------------------------------------------------------------
(* The stages *)

LEMMA ClaimKeeps == ASSUME RunnerInv, NEW j \in Jobs, Claim(j) PROVE RunnerInv'
<1>1. pc'[j] = "remove" /\ \A k \in Jobs \ {j} : pc'[k] = pc[k]
  BY DEF Claim, RunnerInv, RunnerTypeOK
<1>2. pc' \in PcType
  BY DEF Claim, RunnerInv, RunnerTypeOK, PcType, Stages, SetupStages
<1>3. Progress(j)'
  BY <1>1 DEF Progress, CheckStages
<1>4. ChecksDone(j)'
  BY <1>1 DEF ChecksDone
<1> QED BY <1>1, <1>2, <1>3, <1>4, JobKeepsInv
       DEF Claim, RunnerInv, RunnerTypeOK, CrateType, CheckedType, Stages, SetupStages

\* What all steps over a stage have in common.
LEMMA PassFacts ==
  ASSUME RunnerInv, NEW j \in Jobs, NEW stage \in Stages,
         phase = "running", pc[j] = stage, pc' = [pc EXCEPT ![j] = After(stage, options)]
  PROVE  /\ pc'[j] = After(stage, options)
         /\ \A k \in Jobs \ {j} : pc'[k] = pc[k]
         /\ pc'[j] \in Stages \cup {"passed"}
         /\ pc' \in PcType
         /\ run \in 1..MaxRuns /\ run \in Codes /\ Template \in Codes /\ Nothing \in Codes
         /\ run # Nothing /\ Template # Nothing
<1>1. After(stage, options) \in Stages \cup {"passed"}
  BY AfterFacts DEF Stages, SetupStages, CheckStages
<1>2. run \in 1..MaxRuns
  BY DEF RunnerInv, RunnerTypeOK, Running
<1> QED BY <1>1, <1>2, RunIsCode DEF RunnerInv, RunnerTypeOK, PcType, Nothing, Template

\* A step over a stage that changes at most the files of the job keeps the invariant if the
\* files are what the next stage expects.
LEMMA PassKeepsInv ==
  ASSUME RunnerInv, NEW j \in Jobs, NEW stage \in SetupStages,
         phase = "running", pc[j] = stage, pc' = [pc EXCEPT ![j] = After(stage, options)],
         UNCHANGED <<runVars, any_fails, checked>>,
         NEW crate \in CrateType, crates' = [crates EXCEPT ![j] = crate],
         manifest' \subseteq Jobs,
         Progress(j)'
  PROVE  RunnerInv'
<1>1. /\ pc'[j] = After(stage, options)
      /\ \A k \in Jobs \ {j} : pc'[k] = pc[k]
      /\ pc'[j] \in Stages \cup {"passed"}
      /\ pc' \in PcType
  BY PassFacts DEF Stages
<1>2. ChecksDone(j)'
  <2>1. pc'[j] \notin {"docs_nightly", "docs_stable", "clippy"}
    BY <1>1, AfterFacts DEF SetupStages
  <2>2. pc'[j] = "passed" => options.command = "diff"
    BY <1>1, AfterFacts DEF SetupStages
  <2> QED BY <2>1, <2>2 DEF ChecksDone, Done, runVars
<1>3. /\ crates' \in [Jobs -> CrateType]
      /\ \A k \in Jobs \ {j} : crates'[k] = crates[k]
  BY DEF RunnerInv, RunnerTypeOK, CrateType
<1>4. checked' \in CheckedType
  BY DEF RunnerInv, RunnerTypeOK, CheckedType
<1>5. any_fails' = (any_fails \/ pc'[j] = "failed")
  BY <1>1 DEF RunnerInv, RunnerTypeOK, Stages, SetupStages, CheckStages
<1> QED BY <1>1, <1>2, <1>3, <1>4, <1>5, JobKeepsInv DEF Stages

LEMMA RemoveDirKeeps == ASSUME RunnerInv, NEW j \in Jobs, RemoveDir(j) PROVE RunnerInv'
<1> DEFINE crate == NoCrate
<1>1. /\ phase = "running" /\ pc[j] = "remove" /\ "remove" \in SetupStages /\ "remove" \in Stages
      /\ pc' = [pc EXCEPT ![j] = After("remove", options)]
  BY DEF RemoveDir, Pass, At, SetupStages, Stages
<1>2. /\ UNCHANGED <<runVars, any_fails, checked>>
      /\ crates' = [crates EXCEPT ![j] = crate]
      /\ manifest' \subseteq Jobs
  BY DEF RemoveDir, RunnerInv, RunnerTypeOK
<1>3. /\ pc'[j] = "init" /\ crates'[j] = crate /\ run' = run
      /\ run \in Codes /\ run # Nothing
      /\ Template \in Codes /\ Template # Nothing /\ Nothing \in Codes
  BY <1>1, <1>2, PassFacts, AfterFacts DEF RunnerInv, RunnerTypeOK, runVars
<1>4. crates[j] \in CrateType /\ Progress(j)
  BY DEF RunnerInv, RunnerTypeOK, CrateType
<1>5. crate \in CrateType
  BY <1>1, <1>3, <1>4 DEF CrateType, NoCrate, Initialised, Progress, Stages, SetupStages
<1>6. Progress(j)'
  BY <1>1, <1>3, <1>4
     DEF Progress, NoCrate, Initialised, CrateType, Stages, SetupStages, CheckStages
<1> HIDE DEF crate
<1> QED BY <1>1, <1>2, <1>5, <1>6, PassKeepsInv

LEMMA CargoInitKeeps == ASSUME RunnerInv, NEW j \in Jobs, CargoInit(j) PROVE RunnerInv'
<1> DEFINE crate == Initialised(crates[j])
<1>1. /\ phase = "running" /\ pc[j] = "init" /\ "init" \in SetupStages /\ "init" \in Stages
      /\ pc' = [pc EXCEPT ![j] = After("init", options)]
  BY DEF CargoInit, Pass, At, SetupStages, Stages
<1>2. /\ UNCHANGED <<runVars, any_fails, checked>>
      /\ crates' = [crates EXCEPT ![j] = crate]
      /\ manifest' \subseteq Jobs
  BY DEF CargoInit, RunnerInv, RunnerTypeOK
<1>3. /\ pc'[j] = "toml" /\ crates'[j] = crate /\ run' = run
      /\ run \in Codes /\ run # Nothing
      /\ Template \in Codes /\ Template # Nothing /\ Nothing \in Codes
  BY <1>1, <1>2, PassFacts, AfterFacts DEF RunnerInv, RunnerTypeOK, runVars
<1>4. crates[j] \in CrateType /\ Progress(j)
  BY DEF RunnerInv, RunnerTypeOK, CrateType
<1>5. crate \in CrateType
  BY <1>1, <1>3, <1>4 DEF CrateType, NoCrate, Initialised, Progress, Stages, SetupStages
<1>6. Progress(j)'
  BY <1>1, <1>3, <1>4
     DEF Progress, NoCrate, Initialised, CrateType, Stages, SetupStages, CheckStages
<1> HIDE DEF crate
<1> QED BY <1>1, <1>2, <1>5, <1>6, PassKeepsInv

LEMMA PrepareTomlKeeps == ASSUME RunnerInv, NEW j \in Jobs, PrepareToml(j) PROVE RunnerInv'
<1> DEFINE crate == [crates[j] EXCEPT !.toml = "full"]
<1>1. /\ phase = "running" /\ pc[j] = "toml" /\ "toml" \in SetupStages /\ "toml" \in Stages
      /\ pc' = [pc EXCEPT ![j] = After("toml", options)]
  BY DEF PrepareToml, Pass, At, SetupStages, Stages
<1>2. /\ UNCHANGED <<runVars, any_fails, checked>>
      /\ crates' = [crates EXCEPT ![j] = crate]
      /\ manifest' \subseteq Jobs
  BY DEF PrepareToml, RunnerInv, RunnerTypeOK
<1>3. /\ pc'[j] = "svd" /\ crates'[j] = crate /\ run' = run
      /\ run \in Codes /\ run # Nothing
      /\ Template \in Codes /\ Template # Nothing /\ Nothing \in Codes
  BY <1>1, <1>2, PassFacts, AfterFacts DEF RunnerInv, RunnerTypeOK, runVars
<1>4. crates[j] \in CrateType /\ Progress(j)
  BY DEF RunnerInv, RunnerTypeOK, CrateType
<1>5. crate \in CrateType
  BY <1>1, <1>3, <1>4 DEF CrateType, NoCrate, Initialised, Progress, Stages, SetupStages
<1>6. Progress(j)'
  BY <1>1, <1>3, <1>4
     DEF Progress, NoCrate, Initialised, CrateType, Stages, SetupStages, CheckStages
<1> HIDE DEF crate
<1> QED BY <1>1, <1>2, <1>5, <1>6, PassKeepsInv

LEMMA PrepareSvdKeeps == ASSUME RunnerInv, NEW j \in Jobs, PrepareSvd(j) PROVE RunnerInv'
<1> DEFINE crate == [crates[j] EXCEPT !.svd = @ + 1]
<1>1. /\ phase = "running" /\ pc[j] = "svd" /\ "svd" \in SetupStages /\ "svd" \in Stages
      /\ pc' = [pc EXCEPT ![j] = After("svd", options)]
  BY DEF PrepareSvd, Pass, At, SetupStages, Stages
<1>2. /\ UNCHANGED <<runVars, any_fails, checked>>
      /\ crates' = [crates EXCEPT ![j] = crate]
      /\ manifest' \subseteq Jobs
  BY DEF PrepareSvd, RunnerInv, RunnerTypeOK
<1>3. /\ pc'[j] = "svd2rust" /\ crates'[j] = crate /\ run' = run
      /\ run \in Codes /\ run # Nothing
      /\ Template \in Codes /\ Template # Nothing /\ Nothing \in Codes
  BY <1>1, <1>2, PassFacts, AfterFacts DEF RunnerInv, RunnerTypeOK, runVars
<1>4. crates[j] \in CrateType /\ Progress(j)
  BY DEF RunnerInv, RunnerTypeOK, CrateType
<1>5. crate \in CrateType
  BY <1>1, <1>3, <1>4 DEF CrateType, NoCrate, Initialised, Progress, Stages, SetupStages
<1>6. Progress(j)'
  BY <1>1, <1>3, <1>4
     DEF Progress, NoCrate, Initialised, CrateType, Stages, SetupStages, CheckStages
<1> HIDE DEF crate
<1> QED BY <1>1, <1>2, <1>5, <1>6, PassKeepsInv

LEMMA RunSvd2rustKeeps == ASSUME RunnerInv, NEW j \in Jobs, RunSvd2rust(j) PROVE RunnerInv'
<1> DEFINE crate == [crates[j] EXCEPT !.root = run]
<1>1. /\ phase = "running" /\ pc[j] = "svd2rust" /\ "svd2rust" \in SetupStages /\ "svd2rust" \in Stages
      /\ pc' = [pc EXCEPT ![j] = After("svd2rust", options)]
  BY DEF RunSvd2rust, Pass, At, SetupStages, Stages
<1>2. /\ UNCHANGED <<runVars, any_fails, checked>>
      /\ crates' = [crates EXCEPT ![j] = crate]
      /\ manifest' \subseteq Jobs
  BY DEF RunSvd2rust, RunnerInv, RunnerTypeOK
<1>3. /\ pc'[j] = "move" /\ crates'[j] = crate /\ run' = run
      /\ run \in Codes /\ run # Nothing
      /\ Template \in Codes /\ Template # Nothing /\ Nothing \in Codes
  BY <1>1, <1>2, PassFacts, AfterFacts DEF RunnerInv, RunnerTypeOK, runVars
<1>4. crates[j] \in CrateType /\ Progress(j)
  BY DEF RunnerInv, RunnerTypeOK, CrateType
<1>5. crate \in CrateType
  BY <1>1, <1>3, <1>4 DEF CrateType, NoCrate, Initialised, Progress, Stages, SetupStages
<1>6. Progress(j)'
  BY <1>1, <1>3, <1>4
     DEF Progress, NoCrate, Initialised, CrateType, Stages, SetupStages, CheckStages
<1> HIDE DEF crate
<1> QED BY <1>1, <1>2, <1>5, <1>6, PassKeepsInv

LEMMA MoveLibKeeps == ASSUME RunnerInv, NEW j \in Jobs, MoveLib(j) PROVE RunnerInv'
<1> DEFINE crate == [crates[j] EXCEPT !.lib = crates[j].root, !.root = Nothing]
<1>1. /\ phase = "running" /\ pc[j] = "move" /\ "move" \in SetupStages /\ "move" \in Stages
      /\ pc' = [pc EXCEPT ![j] = After("move", options)]
  BY DEF MoveLib, Pass, At, SetupStages, Stages
<1>2. /\ UNCHANGED <<runVars, any_fails, checked>>
      /\ crates' = [crates EXCEPT ![j] = crate]
      /\ manifest' \subseteq Jobs
  BY DEF MoveLib, RunnerInv, RunnerTypeOK
<1>3. /\ pc'[j] = "tidy" /\ crates'[j] = crate /\ run' = run
      /\ run \in Codes /\ run # Nothing
      /\ Template \in Codes /\ Template # Nothing /\ Nothing \in Codes
  BY <1>1, <1>2, PassFacts, AfterFacts DEF RunnerInv, RunnerTypeOK, runVars
<1>4. crates[j] \in CrateType /\ Progress(j)
  BY DEF RunnerInv, RunnerTypeOK, CrateType
<1>5. crate \in CrateType
  BY <1>1, <1>3, <1>4 DEF CrateType, NoCrate, Initialised, Progress, Stages, SetupStages
<1>6. Progress(j)'
  BY <1>1, <1>3, <1>4
     DEF Progress, NoCrate, Initialised, CrateType, Stages, SetupStages, CheckStages
<1> HIDE DEF crate
<1> QED BY <1>1, <1>2, <1>5, <1>6, PassKeepsInv

LEMMA TidyKeeps == ASSUME RunnerInv, NEW j \in Jobs, Tidy(j) PROVE RunnerInv'
<1> DEFINE crate == crates[j]
<1>1. /\ phase = "running" /\ pc[j] = "tidy" /\ "tidy" \in SetupStages /\ "tidy" \in Stages
      /\ pc' = [pc EXCEPT ![j] = After("tidy", options)]
  BY DEF Tidy, Pass, At, SetupStages, Stages
<1>2. /\ UNCHANGED <<runVars, any_fails, checked>>
      /\ crates' = [crates EXCEPT ![j] = crate]
      /\ manifest' \subseteq Jobs
  BY DEF Tidy, RunnerInv, RunnerTypeOK
<1>3. /\ pc'[j] = "form" /\ crates'[j] = crate /\ run' = run
      /\ run \in Codes /\ run # Nothing
      /\ Template \in Codes /\ Template # Nothing /\ Nothing \in Codes
  BY <1>1, <1>2, PassFacts, AfterFacts DEF RunnerInv, RunnerTypeOK, runVars
<1>4. crates[j] \in CrateType /\ Progress(j)
  BY DEF RunnerInv, RunnerTypeOK, CrateType
<1>5. crate \in CrateType
  BY <1>1, <1>3, <1>4 DEF CrateType, NoCrate, Initialised, Progress, Stages, SetupStages
<1>6. Progress(j)'
  BY <1>1, <1>3, <1>4
     DEF Progress, NoCrate, Initialised, CrateType, Stages, SetupStages, CheckStages
<1> HIDE DEF crate
<1> QED BY <1>1, <1>2, <1>5, <1>6, PassKeepsInv

LEMMA FormKeeps == ASSUME RunnerInv, NEW j \in Jobs, Form(j) PROVE RunnerInv'
<1> DEFINE crate == [crates[j] EXCEPT !.root = Nothing]
<1>1. /\ phase = "running" /\ pc[j] = "form" /\ "form" \in SetupStages /\ "form" \in Stages
      /\ pc' = [pc EXCEPT ![j] = After("form", options)]
  BY DEF Form, Pass, At, SetupStages, Stages
<1>2. /\ UNCHANGED <<runVars, any_fails, checked>>
      /\ crates' = [crates EXCEPT ![j] = crate]
      /\ manifest' \subseteq Jobs
  BY DEF Form, RunnerInv, RunnerTypeOK
<1>3. /\ pc'[j] = "rustfmt" /\ crates'[j] = crate /\ run' = run
      /\ run \in Codes /\ run # Nothing
      /\ Template \in Codes /\ Template # Nothing /\ Nothing \in Codes
  BY <1>1, <1>2, PassFacts, AfterFacts DEF RunnerInv, RunnerTypeOK, runVars
<1>4. crates[j] \in CrateType /\ Progress(j)
  BY DEF RunnerInv, RunnerTypeOK, CrateType
<1>5. crate \in CrateType
  BY <1>1, <1>3, <1>4 DEF CrateType, NoCrate, Initialised, Progress, Stages, SetupStages
<1>6. Progress(j)'
  BY <1>1, <1>3, <1>4
     DEF Progress, NoCrate, Initialised, CrateType, Stages, SetupStages, CheckStages
<1> HIDE DEF crate
<1> QED BY <1>1, <1>2, <1>5, <1>6, PassKeepsInv

LEMMA RustfmtKeeps == ASSUME RunnerInv, NEW j \in Jobs, Rustfmt(j) PROVE RunnerInv'
<1> DEFINE crate == crates[j]
<1>1. /\ phase = "running" /\ pc[j] = "rustfmt" /\ "rustfmt" \in SetupStages /\ "rustfmt" \in Stages
      /\ pc' = [pc EXCEPT ![j] = After("rustfmt", options)]
  BY DEF Rustfmt, Pass, At, SetupStages, Stages
<1>2. /\ UNCHANGED <<runVars, any_fails, checked>>
      /\ crates' = [crates EXCEPT ![j] = crate]
      /\ manifest' \subseteq Jobs
  BY DEF Rustfmt, RunnerInv, RunnerTypeOK
<1>3. /\ pc'[j] \in {"check", "passed"} /\ crates'[j] = crate /\ run' = run
      /\ run \in Codes /\ run # Nothing
      /\ Template \in Codes /\ Template # Nothing /\ Nothing \in Codes
  BY <1>1, <1>2, PassFacts, AfterFacts DEF RunnerInv, RunnerTypeOK, runVars
<1>4. crates[j] \in CrateType /\ Progress(j)
  BY DEF RunnerInv, RunnerTypeOK, CrateType
<1>5. crate \in CrateType
  BY <1>1, <1>3, <1>4 DEF CrateType, NoCrate, Initialised, Progress, Stages, SetupStages
<1>6. Progress(j)'
  BY <1>1, <1>3, <1>4
     DEF Progress, NoCrate, Initialised, CrateType, Stages, SetupStages, CheckStages
<1> HIDE DEF crate
<1> QED BY <1>1, <1>2, <1>5, <1>6, PassKeepsInv

\* The stages that a job may skip, each with its own consequence for the invariant.
LEMMA SkipKeeps == ASSUME RunnerInv, NEW j \in Jobs, Skip(j) PROVE RunnerInv'
<1>1. /\ phase = "running" /\ pc[j] \in Stages
      /\ ~Wanted(pc[j], j.case, options)
      /\ pc' = [pc EXCEPT ![j] = After(pc[j], options)]
      /\ UNCHANGED <<runVars, any_fails, crates, manifest, checked>>
  BY DEF Skip
<1>2. pc[j] \in {"move", "form", "rustfmt"} \cup CheckStages
  BY <1>1 DEF Wanted, Stages, SetupStages, CheckStages
<1>3. /\ pc'[j] = After(pc[j], options)
      /\ \A k \in Jobs \ {j} : pc'[k] = pc[k]
      /\ pc'[j] \in Stages \cup {"passed"}
      /\ pc' \in PcType
  BY <1>1, PassFacts
<1>4. pc[j] = "move" => j.case.arch \notin Moved
  BY <1>1 DEF Wanted
<1>5. /\ pc[j] = "move"         => pc'[j] = "tidy"
      /\ pc[j] = "form"         => pc'[j] = "rustfmt"
      /\ pc[j] = "rustfmt"      => pc'[j] = IF options.command = "diff" THEN "passed" ELSE "check"
      /\ pc[j] = "check"        => pc'[j] = "docs_nightly"
      /\ pc[j] = "docs_nightly" => pc'[j] = "docs_stable"
      /\ pc[j] = "docs_stable"  => pc'[j] = "clippy"
      /\ pc[j] = "clippy"       => pc'[j] = "passed"
  BY <1>3, AfterFacts
<1>6. Progress(j) /\ ChecksDone(j)
  BY DEF RunnerInv
<1>7. Progress(j)'
  BY <1>1, <1>2, <1>4, <1>5, <1>6 DEF Progress, Stages, SetupStages, CheckStages, runVars
<1>8. ChecksDone(j)'
  <2>1. CASE pc[j] \in {"move", "form", "rustfmt"}
    BY <1>1, <1>5, <2>1 DEF ChecksDone, Done, runVars
  <2>2. CASE pc[j] \in CheckStages
    <3>1. Done(pc[j], j)
      BY <1>1 DEF Done
    <3>2. \A stage \in CheckStages : Done(stage, j) => Done(stage, j)'
      BY <1>1 DEF Done, runVars
    <3> QED BY <1>5, <1>6, <2>2, <3>1, <3>2 DEF ChecksDone, CheckStages
  <2> QED BY <1>2, <2>1, <2>2
<1>9. /\ crates' \in [Jobs -> CrateType] /\ checked' \in CheckedType /\ manifest' \subseteq Jobs
      /\ any_fails' = (any_fails \/ pc'[j] = "failed")
  BY <1>1, <1>3 DEF RunnerInv, RunnerTypeOK, CrateType, CheckedType, Stages, SetupStages, CheckStages
<1> QED BY <1>1, <1>3, <1>7, <1>8, <1>9, JobKeepsInv

\* A check that succeeds is recorded with the code it ran on: the code of this run.
LEMMA CheckKeeps == ASSUME RunnerInv, NEW j \in Jobs, Check(j) PROVE RunnerInv'
<1>1. PICK stage \in CheckStages :
        /\ phase = "running" /\ pc[j] = stage
        /\ pc' = [pc EXCEPT ![j] = After(stage, options)]
        /\ checked' = [checked EXCEPT ![j] = @ \cup {<<stage, crates[j].lib>>}]
  BY DEF Check, Pass, At
<1>2. UNCHANGED <<runVars, any_fails, crates, manifest>>
  BY DEF Check
<1>3. /\ pc'[j] = After(stage, options)
      /\ \A k \in Jobs \ {j} : pc'[k] = pc[k]
      /\ pc'[j] \in Stages \cup {"passed"}
      /\ pc' \in PcType
  BY <1>1, PassFacts DEF Stages
<1>4. /\ stage = "check"        => pc'[j] = "docs_nightly"
      /\ stage = "docs_nightly" => pc'[j] = "docs_stable"
      /\ stage = "docs_stable"  => pc'[j] = "clippy"
      /\ stage = "clippy"       => pc'[j] = "passed"
  BY <1>3, AfterFacts
<1>5. Progress(j) /\ ChecksDone(j) /\ crates[j] \in CrateType
  BY DEF RunnerInv, RunnerTypeOK, CrateType
<1>6. Progress(j)'
  BY <1>1, <1>2, <1>4, <1>5 DEF Progress, Stages, SetupStages, CheckStages, runVars
<1>7. /\ checked' \in CheckedType
      /\ checked'[j] = checked[j] \cup {<<stage, crates[j].lib>>}
      /\ \A k \in Jobs \ {j} : checked'[k] = checked[k]
  BY <1>1, <1>5 DEF RunnerInv, RunnerTypeOK, CheckedType, CrateType
<1>8. ChecksDone(j)'
  <2>1. Done(stage, j)'
    <3>1. j.case.arch \in Moved => crates[j].lib = run
      BY <1>1, <1>5 DEF Progress
    <3> QED BY <1>2, <1>7, <3>1 DEF Done, runVars
  <2>2. \A other \in CheckStages : Done(other, j) => Done(other, j)'
    BY <1>2, <1>7 DEF Done, runVars
  <2> QED BY <1>1, <1>4, <1>5, <2>1, <2>2 DEF ChecksDone, CheckStages
<1>9. /\ crates' \in [Jobs -> CrateType] /\ manifest' \subseteq Jobs
      /\ any_fails' = (any_fails \/ pc'[j] = "failed")
  BY <1>2, <1>3 DEF RunnerInv, RunnerTypeOK, CrateType, Stages, SetupStages, CheckStages
<1>10. pc[j] \in Stages
  BY <1>1 DEF Stages
<1> QED BY <1>1, <1>2, <1>3, <1>6, <1>7, <1>8, <1>9, <1>10, JobKeepsInv

\* A job that fails expects nothing of its directory any more.
LEMMA ErrorKeeps ==
  ASSUME RunnerInv, NEW j \in Jobs, phase = "running", pc[j] \in Stages, Error(j),
         crates' \in [Jobs -> CrateType], \A k \in Jobs \ {j} : crates'[k] = crates[k],
         manifest' \subseteq Jobs
  PROVE  RunnerInv'
<1>1. /\ pc'[j] = "failed" /\ pc' \in PcType
      /\ \A k \in Jobs \ {j} : pc'[k] = pc[k]
      /\ any_fails' = TRUE /\ checked' = checked /\ UNCHANGED runVars
  BY DEF Error, RunnerInv, RunnerTypeOK, PcType
<1>2. Progress(j)' /\ ChecksDone(j)'
  BY <1>1 DEF Progress, ChecksDone, Stages, SetupStages, CheckStages
<1>3. checked' \in CheckedType
  BY <1>1 DEF RunnerInv, RunnerTypeOK, CheckedType
<1> QED BY <1>1, <1>2, <1>3, JobKeepsInv

LEMMA FailKeeps == ASSUME RunnerInv, NEW j \in Jobs, Fail(j) PROVE RunnerInv'
BY ErrorKeeps DEF Fail, RunnerInv, RunnerTypeOK, CrateType

LEMMA FailHalfWayKeeps == ASSUME RunnerInv, NEW j \in Jobs, FailHalfWay(j) PROVE RunnerInv'
<1>1. crates \in [Jobs -> CrateType] /\ manifest \subseteq Jobs
      /\ Template \in Codes /\ Nothing \in Codes
  BY RunIsCode DEF RunnerInv, RunnerTypeOK, CrateType
<1>2. CASE At(j, "init") /\ Error(j) /\ crates' = [crates EXCEPT ![j] = Initialised(@)]
           /\ manifest' = manifest \cup {j}
  <2>1. Initialised(crates[j]) \in CrateType
    BY <1>1 DEF Initialised, CrateType
  <2>2. crates' \in [Jobs -> CrateType] /\ \A k \in Jobs \ {j} : crates'[k] = crates[k]
    BY <1>1, <1>2, <2>1
  <2> QED BY <1>1, <1>2, <2>2, ErrorKeeps DEF At, Stages, SetupStages
<1>3. CASE At(j, "form") /\ Error(j) /\ UNCHANGED manifest
           /\ crates' = [crates EXCEPT ![j].root = crates[j].lib, ![j].lib = Nothing]
  <2>1. crates' \in [Jobs -> CrateType] /\ \A k \in Jobs \ {j} : crates'[k] = crates[k]
    BY <1>1, <1>3 DEF CrateType
  <2> QED BY <1>1, <1>3, <2>1, ErrorKeeps DEF At, Stages, SetupStages
<1> QED BY <1>2, <1>3 DEF FailHalfWay

----------------------------------------------------------------------------
(* The program *)

LEMMA StartKeeps == ASSUME RunnerInv, NEW o \in Options, Start(o) PROVE RunnerInv'
<1>1. PICK jobs \in JobSets(o) : pc' = [j \in Jobs |-> IF j \in jobs THEN "waiting" ELSE "idle"]
  BY DEF Start
<1>2. \A j \in Jobs : pc'[j] \in {"waiting", "idle"}
  BY <1>1
<1>3. /\ phase' = "running" /\ run' = run + 1 /\ run' \in 0..MaxRuns /\ options' = o
      /\ any_fails' = FALSE /\ status' = 0 /\ unrestored' = FALSE
      /\ found' = manifest /\ manifest' = manifest /\ crates' = crates
      /\ checked' = [j \in Jobs |-> {}]
      /\ guard' = IF o.command = "diff" THEN {} ELSE {manifest}
  BY MaxRunsAssumption DEF Start, RunnerInv, RunnerTypeOK
<1>4. RunnerTypeOK'
  BY <1>1, <1>3 DEF RunnerInv, RunnerTypeOK
<1>5. \A j \in Jobs : Progress(j)' /\ ChecksDone(j)'
  BY <1>2 DEF Progress, ChecksDone, Stages, SetupStages, CheckStages
<1>6. Running'
  BY <1>3 DEF Running, RunnerInv, RunnerTypeOK
<1>7. FlagKnows'
  BY <1>1, <1>2, <1>3 DEF FlagKnows, StatusTellsOutcome
<1>8. GuardHolds'
  BY <1>3 DEF GuardHolds, GuardedManifestRestored
<1> QED BY <1>4, <1>5, <1>6, <1>7, <1>8 DEF RunnerInv

LEMMA RefuseKeeps == ASSUME RunnerInv, NEW o \in Options, Refuse(o) PROVE RunnerInv'
<1>1. /\ phase' = "exited" /\ run' = run + 1 /\ run' \in 0..MaxRuns /\ options' = o
      /\ any_fails' = FALSE /\ status' = 1 /\ unrestored' = FALSE
      /\ found' = manifest /\ manifest' = manifest /\ crates' = crates
      /\ pc' = [j \in Jobs |-> "idle"] /\ checked' = [j \in Jobs |-> {}]
      /\ guard' = guard /\ phase # "running" /\ JobSets(o) = {}
  BY MaxRunsAssumption DEF Refuse, RunnerInv, RunnerTypeOK
<1>2. RunnerTypeOK'
  BY <1>1 DEF RunnerInv, RunnerTypeOK
<1>3. \A j \in Jobs : Progress(j)' /\ ChecksDone(j)'
  BY <1>1 DEF Progress, ChecksDone, Stages, SetupStages, CheckStages
<1>4. Running'
  BY <1>1 DEF Running, RunnerInv, RunnerTypeOK, Busy, Stages, SetupStages, CheckStages
<1>5. FlagKnows'
  BY <1>1 DEF FlagKnows, StatusTellsOutcome
<1>6. GuardHolds'
  BY <1>1 DEF RunnerInv, GuardHolds, GuardedManifestRestored
<1> QED BY <1>2, <1>3, <1>4, <1>5, <1>6 DEF RunnerInv

\* Steps that leave the jobs and their files alone.
LEMMA QuietSteps ==
  ASSUME RunnerInv, UNCHANGED <<pc, crates, checked, run, options>>
  PROVE  \A j \in Jobs : Progress(j)' /\ ChecksDone(j)'
<1>1. ASSUME NEW j \in Jobs PROVE Progress(j)'
  BY DEF RunnerInv, Progress
<1>2. ASSUME NEW j \in Jobs PROVE ChecksDone(j)'
  BY DEF RunnerInv, ChecksDone, Done
<1> QED BY <1>1, <1>2

\* When the guard writes the manifest back, no job is left that could change it again.
LEMMA DropGuardKeeps == ASSUME RunnerInv, DropGuard PROVE RunnerInv'
<1>1. /\ phase = "running" /\ phase' = "running" /\ guard = {found} /\ guard' = {}
      /\ UNCHANGED <<phase, run, options, pc, any_fails, status, crates, found, checked>>
      /\ \/ manifest' = found /\ unrestored' = unrestored
         \/ unrestored' = TRUE /\ manifest' = manifest
  BY DEF DropGuard, RunnerInv, GuardHolds
<1>2. RunnerTypeOK'
  BY <1>1 DEF RunnerInv, RunnerTypeOK
<1>3. \A j \in Jobs : Progress(j)' /\ ChecksDone(j)'
  BY <1>1, QuietSteps
<1>4. Running'
  BY <1>1 DEF RunnerInv, Running
<1>5. FlagKnows'
  BY <1>1 DEF RunnerInv, FlagKnows, StatusTellsOutcome, JobSets
<1>6. GuardHolds'
  <2>1. options.command # "diff" => \A j \in Jobs : pc[j] \in {"idle", "passed", "failed"}
    BY DEF DropGuard, Over, Busy, RunnerInv, RunnerTypeOK
  <2> QED BY <1>1, <2>1 DEF GuardHolds, GuardedManifestRestored
<1> QED BY <1>2, <1>3, <1>4, <1>5, <1>6 DEF RunnerInv

LEMMA ExitKeeps == ASSUME RunnerInv, Exit PROVE RunnerInv'
<1>1. /\ phase = "running" /\ phase' = "exited" /\ guard = {}
      /\ UNCHANGED <<run, options, pc, any_fails, crates, manifest, guard, found, unrestored,
                     checked>>
      /\ status' = IF (IF options.command = "tests" THEN any_fails ELSE Failed # {}) THEN 1 ELSE 0
      /\ Over
  BY DEF Exit
<1>2. RunnerTypeOK'
  BY <1>1 DEF RunnerInv, RunnerTypeOK
<1>3. \A j \in Jobs : Progress(j)' /\ ChecksDone(j)'
  BY <1>1, QuietSteps
<1>4. Running'
  BY <1>1 DEF RunnerInv, Running, Busy, Over
<1>5. FlagKnows'
  <2>1. any_fails <=> Failed # {}
    BY <1>1 DEF RunnerInv, FlagKnows, Failed
  <2>2. status' = IF Failed # {} THEN 1 ELSE 0
    BY <1>1, <2>1
  <2>3. Failed = {} => \A j \in Jobs : pc[j] \in {"idle", "passed"}
    BY <1>1 DEF Over, Busy, Failed, RunnerInv, RunnerTypeOK
  <2>4. Failed # {} => \E j \in Jobs : pc[j] \notin {"idle", "passed"}
    BY DEF Failed
  <2>5. JobSets(options) # {}
    BY <1>1 DEF RunnerInv, FlagKnows
  <2>6. JobSets(options)' = JobSets(options)
    BY <1>1 DEF JobSets
  <2>7. pc' = pc /\ phase' = "exited"
    BY <1>1
  <2> QED BY <2>2, <2>3, <2>4, <2>5, <2>6, <2>7 DEF FlagKnows, StatusTellsOutcome
<1>6. GuardHolds'
  BY <1>1 DEF RunnerInv, GuardHolds, GuardedManifestRestored
<1> QED BY <1>2, <1>3, <1>4, <1>5, <1>6 DEF RunnerInv

\* A killed run leaves its directories and the manifest as they are.
LEMMA KillKeeps == ASSUME RunnerInv, Kill PROVE RunnerInv'
<1>1. /\ phase = "running" /\ phase' = "killed" /\ pc' = [j \in Jobs |-> "idle"] /\ guard' = {}
      /\ UNCHANGED <<run, options, any_fails, status, crates, manifest, found, unrestored, checked>>
  BY DEF Kill
<1>2. RunnerTypeOK'
  BY <1>1 DEF RunnerInv, RunnerTypeOK
<1>3. \A j \in Jobs : Progress(j)' /\ ChecksDone(j)'
  BY <1>1 DEF Progress, ChecksDone, Stages, SetupStages, CheckStages
<1>4. Running'
  BY <1>1 DEF RunnerInv, Running, Busy, Stages, SetupStages, CheckStages
<1>5. FlagKnows'
  BY <1>1 DEF FlagKnows, StatusTellsOutcome
<1>6. GuardHolds'
  BY <1>1 DEF GuardHolds, GuardedManifestRestored
<1> QED BY <1>2, <1>3, <1>4, <1>5, <1>6 DEF RunnerInv

LEMMA StutterKeeps == ASSUME RunnerInv, UNCHANGED vars PROVE RunnerInv'
<1>1. \A j \in Jobs : Progress(j)' /\ ChecksDone(j)'
  BY QuietSteps DEF vars
<1>2. RunnerTypeOK' /\ Running' /\ GuardHolds'
  BY DEF vars, RunnerInv, RunnerTypeOK, Running, Busy, GuardHolds, GuardedManifestRestored
<1>3. FlagKnows'
  BY DEF vars, RunnerInv, FlagKnows, StatusTellsOutcome, JobSets
<1> QED BY <1>1, <1>2, <1>3 DEF RunnerInv

----------------------------------------------------------------------------

\* The invariant holds in every run over every list of cases.
THEOREM RunnerInvariant == Spec => []RunnerInv
<1>1. Init => RunnerInv
  <2> SUFFICES ASSUME Init PROVE RunnerInv
    OBVIOUS
  <2>1. RunnerTypeOK
    <3>1. 0 \in 0..MaxRuns /\ 0 \in Codes
      BY MaxRunsAssumption DEF Codes, Template
    <3>2. NoCrate \in CrateType
      BY <3>1 DEF NoCrate, CrateType, Nothing
    <3> QED BY <3>1, <3>2 DEF Init, RunnerTypeOK, CrateType
  <2>2. \A j \in Jobs : Progress(j) /\ ChecksDone(j)
    BY DEF Init, Progress, ChecksDone, Stages, SetupStages, CheckStages
  <2>3. Running /\ FlagKnows /\ GuardHolds
    BY DEF Init, Running, Busy, Stages, SetupStages, CheckStages, FlagKnows,
           StatusTellsOutcome, GuardHolds, GuardedManifestRestored
  <2> QED BY <2>1, <2>2, <2>3 DEF RunnerInv
<1>2. RunnerInv /\ [Next]_vars => RunnerInv'
  <2> SUFFICES ASSUME RunnerInv, [Next]_vars PROVE RunnerInv'
    OBVIOUS
  <2>1. ASSUME NEW o \in Options, Start(o) PROVE RunnerInv'
    BY <2>1, StartKeeps
  <2>2. ASSUME NEW o \in Options, Refuse(o) PROVE RunnerInv'
    BY <2>2, RefuseKeeps
  <2>3. ASSUME NEW j \in Jobs, JobStep(j) PROVE RunnerInv'
    <3>1. CASE Claim(j) \/ Skip(j) \/ RemoveDir(j) \/ CargoInit(j) \/ PrepareToml(j) \/ PrepareSvd(j)
      BY <3>1, ClaimKeeps, SkipKeeps, RemoveDirKeeps, CargoInitKeeps, PrepareTomlKeeps,
         PrepareSvdKeeps
    <3>2. CASE RunSvd2rust(j) \/ MoveLib(j) \/ Tidy(j) \/ Form(j) \/ Rustfmt(j) \/ Check(j)
      BY <3>2, RunSvd2rustKeeps, MoveLibKeeps, TidyKeeps, FormKeeps, RustfmtKeeps, CheckKeeps
    <3>3. CASE Fail(j) \/ FailHalfWay(j)
      BY <3>3, FailKeeps, FailHalfWayKeeps
    <3> QED BY <2>3, <3>1, <3>2, <3>3 DEF JobStep
  <2>4. CASE Finish
    BY <2>4, DropGuardKeeps, ExitKeeps DEF Finish
  <2>5. CASE Kill
    BY <2>5, KillKeeps
  <2>6. CASE UNCHANGED vars
    BY <2>6, StutterKeeps
  <2> QED BY <2>1, <2>2, <2>3, <2>4, <2>5, <2>6 DEF Next, Ended
<1> QED BY <1>1, <1>2, PTL DEF Spec

\* The types; in particular no SVD file is ever appended to another one.
THEOREM RunnerTypeCorrect == Spec => []RunnerTypeOK
<1>1. RunnerInv => RunnerTypeOK
  BY DEF RunnerInv
<1> QED BY <1>1, RunnerInvariant, PTL

\* What a job reports as passed was checked as generated in this run.
THEOREM PassesAreChecked == Spec => []PassedMeansChecked
<1>1. RunnerInv => PassedMeansChecked
  <2> SUFFICES ASSUME RunnerInv, NEW j \in Jobs, j.case.arch \in Moved, pc[j] = "passed"
               PROVE  CheckedAsGenerated(j)
    BY DEF PassedMeansChecked, CheckedAsGenerated
  <2>1. Progress(j) /\ ChecksDone(j)
    BY DEF RunnerInv
  <2> QED BY <2>1 DEF CheckedAsGenerated, Progress, ChecksDone, Done, CheckStages
<1> QED BY <1>1, RunnerInvariant, PTL

\* Whatever earlier runs left behind and wherever they were killed, it stops no job.
THEOREM LeftoversAreHarmless == Spec => []LeftoversDoNoHarm
<1>1. RunnerInv => LeftoversDoNoHarm
  <2> SUFFICES ASSUME RunnerInv, NEW j \in Busy PROVE Ready(j)
    BY DEF LeftoversDoNoHarm
  <2>1. j \in Jobs /\ pc[j] \in Stages /\ Progress(j) /\ run # Nothing
    BY DEF Busy, RunnerInv, Running, RunnerTypeOK, Nothing
  <2> QED BY <2>1 DEF Ready, Progress, NoCrate, Stages, SetupStages, CheckStages
<1> QED BY <1>1, RunnerInvariant, PTL

\* The exit status is right for any number of jobs, threads and failures.
THEOREM StatusIsRight == Spec => []StatusTellsOutcome
<1>1. RunnerInv => StatusTellsOutcome
  BY DEF RunnerInv, FlagKnows
<1> QED BY <1>1, RunnerInvariant, PTL

\* `tests' and `test' restore the manifest.
THEOREM ManifestIsRestored == Spec => []GuardedManifestRestored
<1>1. RunnerInv => GuardedManifestRestored
  BY DEF RunnerInv, GuardHolds
<1> QED BY <1>1, RunnerInvariant, PTL
=============================================================================
