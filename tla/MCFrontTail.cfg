CONSTANTS
  Sources <- Texts
  Seps <- Seps_
  TextLen = 1
  LayoutLen = 1
  BracketLen = 1
SPECIFICATION FrontSpec
INVARIANT WholeProgram
