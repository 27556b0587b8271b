------------------------ MODULE MCMultiYearPipeline ------------------------
(* Values of config.setup for the instances of MultiYearPipeline. *)
EXTENDS MultiYearPipeline, TLC

Setup(clear, mode, patterns) ==
  [clear_tables |-> clear, clear_mode |-> mode, patterns |-> patterns]

DefaultSetup == Setup("unset", "year", Prefixes)
ResetSetup   == Setup("true", "all", Prefixes)

\* Configurations are only compared with each other.
MCSymmetry == Permutations(Configs)

MCTwoSetups == {DefaultSetup, ResetSetup}
MCDefault   == {DefaultSetup}
=============================================================================
