CONSTANTS
  Sources <- NoText
  Seps <- Seps_
  Packages <- Pk
  Entry = "./m"
SPECIFICATION CompilerSpec
INVARIANTS MeaningKept RefusedForCause
PROPERTY ImplementsLoading
