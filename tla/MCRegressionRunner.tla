------------------------- MODULE MCRegressionRunner -------------------------
(***************************************************************************)
(* A small list of cases and the command lines to run over it.             *)
(***************************************************************************)
EXTENDS RegressionRunner

Case(chip, mfgr, arch) ==
  [chip |-> chip, mfgr |-> mfgr, arch |-> arch,
   run_when |-> "always", should_pass |-> TRUE, skip_check |-> FALSE]

MCCases ==
  {Case("nrf51", "Nordic", "cortex-m"),
   Case("e310x", "SiFive", "riscv"),
   [Case("lpc17", "NXP", "cortex-m") EXCEPT
      !.run_when = "not-short", !.should_pass = FALSE, !.skip_check = TRUE]}

\* `tests' without options.
Plain ==
  [command |-> "tests", long_test |-> FALSE, bad_tests |-> FALSE, chips |-> {},
   archs |-> Targets, mfgrs |-> {"Nordic", "SiFive", "NXP"},
   form |-> FALSE, format |-> FALSE,
   clippy |-> FALSE, docs_stable |-> FALSE, docs_nightly |-> FALSE]

MCOptions ==
  {Plain,
   [Plain EXCEPT !.long_test = TRUE, !.bad_tests = TRUE, !.form = TRUE],
   [Plain EXCEPT !.archs = {"msp430"}],
   [Plain EXCEPT !.command = "test", !.chips = {"nrf51"}, !.form = TRUE, !.format = TRUE,
                 !.clippy = TRUE, !.docs_stable = TRUE, !.docs_nightly = TRUE],
   [Plain EXCEPT !.command = "test", !.chips = {"e310x"}, !.form = TRUE],
   [Plain EXCEPT !.command = "test", !.chips = {"avr64"}],
   [Plain EXCEPT !.command = "diff", !.chips = {"nrf51"}, !.format = TRUE]}
=============================================================================
