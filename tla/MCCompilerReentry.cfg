CONSTANTS
  Sources <- NoText
  Seps <- Seps_
  Packages <- Reentry
  Entry = "./m"
SPECIFICATION CompilerSpec
INVARIANT MeaningKept
