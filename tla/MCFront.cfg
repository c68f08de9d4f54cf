CONSTANTS
  Sources <- Texts
  Seps <- Seps_
  TextLen = 4
  LayoutLen = 4
  BracketLen = 3
SPECIFICATION FrontSpec
INVARIANTS LexTypeOK Tiled PositionsAgree BlocksBalance TokensBounded ArenaIsTree KeptOnce GroupsByPower SpansNest
