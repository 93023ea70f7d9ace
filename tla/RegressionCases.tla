-------------------------- MODULE RegressionCases --------------------------
(***************************************************************************)
(* What svd2rust-regress is asked to do: its test cases, its options, and  *)
(* the jobs that a command makes of them.                                  *)
(*                                                                         *)
(* A job is a case and the directory under which its crate is created.     *)
(* The crate is output/<chip> for `tests' and `test', and                  *)
(* output/baseline/<chip> and output/current/<chip> for `diff'. No two     *)
(* cases of the lists in the repository get the same <chip>, so a job      *)
(* stands for its crate's directory.                                       *)
(***************************************************************************)
CONSTANTS
  Cases,     \* the list of test cases, as a set
  Options    \* the command lines

Commands == {"tests", "test", "diff"}
\* (A case for the target none ends in unreachable!() and is left out.)
Targets  == {"cortex-m", "msp430", "mips", "riscv", "xtensa-lx", "avr"}
RunWhen  == {"always", "not-short", "never"}

ASSUME CasesAssumption ==
  \A c \in Cases : /\ c.arch \in Targets
                   /\ c.run_when \in RunWhen
                   /\ c.should_pass \in BOOLEAN
                   /\ c.skip_check \in BOOLEAN

ASSUME OptionsAssumption ==
  \A o \in Options :
    /\ o.command \in Commands
    /\ \A flag \in {o.long_test, o.bad_tests, o.form, o.format,
                    o.clippy, o.docs_stable, o.docs_nightly} : flag \in BOOLEAN

----------------------------------------------------------------------------
(* Selection. chips, archs and mfgrs are what the patterns of the command  *)
(* line match; chips is empty if there is no pattern.                      *)

should_run(c, short_test) == ~(c.run_when = "not-short" /\ short_test)

PassesFilters(c, o) == c.arch \in o.archs /\ c.mfgr \in o.mfgrs

\* The cases that `tests' runs.
Selected(o) ==
  {c \in Cases : /\ should_run(c, ~o.long_test)
                 /\ PassesFilters(c, o)
                 /\ IF o.chips = {} THEN o.bad_tests \/ c.should_pass
                                    ELSE c.chip \in o.chips}

Job(roots, cases) == [root : roots, case : cases]

Jobs == Job({"output", "baseline", "current"}, Cases)

\* The sets of jobs a command may make. `tests' takes all the cases it selects.
\* The other two take one, which depends on the order of the list; `test' looks
\* at the chip alone, and `diff' at all filters but those of `tests'.
JobSets(o) ==
  CASE o.command = "tests" -> {Job({"output"}, Selected(o))}
    [] o.command = "test"  -> {Job({"output"}, {c}) : c \in {d \in Cases : d.chip \in o.chips}}
    [] o.command = "diff"  -> {Job({"baseline", "current"}, {c}) :
                                 c \in {d \in Cases : /\ PassesFilters(d, o)
                                                      /\ o.chips = {} \/ d.chip \in o.chips}}

----------------------------------------------------------------------------
(* The steps of a job: setup_case, then the checks of test.                *)

SetupStages == {"remove", "init", "toml", "svd", "svd2rust", "move", "tidy", "form", "rustfmt"}
CheckStages == {"check", "docs_nightly", "docs_stable", "clippy"}
Stages      == SetupStages \cup CheckStages

Following ==
  [remove |-> "init", init |-> "toml", toml |-> "svd", svd |-> "svd2rust",
   svd2rust |-> "move", move |-> "tidy", tidy |-> "form", form |-> "rustfmt",
   rustfmt |-> "check", check |-> "docs_nightly", docs_nightly |-> "docs_stable",
   docs_stable |-> "clippy", clippy |-> "passed"]

\* diff only sets its cases up.
After(stage, o) ==
  IF stage = "rustfmt" /\ o.command = "diff" THEN "passed" ELSE Following[stage]

\* The targets whose lib.rs is moved to src/lib.rs.
Moved == {"cortex-m", "mips", "msp430", "xtensa-lx", "avr"}

Wanted(stage, c, o) ==
  CASE stage = "move"         -> c.arch \in Moved
    [] stage = "form"         -> o.form
    [] stage = "rustfmt"      -> o.format
    [] stage = "check"        -> ~c.skip_check
    [] stage = "docs_nightly" -> o.docs_nightly
    [] stage = "docs_stable"  -> o.docs_stable
    [] stage = "clippy"       -> o.clippy
    [] OTHER                  -> TRUE
=============================================================================
