\* Every graph of four nodes and up to four links, from files written by hand;
\* what the creator makes of up to three nodes and three links.
CONSTANTS
  w = w
  x = x
  zero = zero
  one = one
  Names = {w, x, zero, one}
  None = none
  Numeral <- SmallNumeral
  Files <- SmallFiles
  MaxNodes = 3
  MaxLinks = 3
SPECIFICATION Spec
INVARIANTS LayersRight HasCycleRight  ValidatedIsPlaced
CHECK_DEADLOCK FALSE
