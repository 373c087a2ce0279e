-------------------------------- MODULE Groups --------------------------------
(* What any aggregate is about: the rows of one group, and its states.     *)

CONSTANTS
  Row,      \* the rows of the group
  Node,     \* its aggregate states: per thread, or per node of a window tree
  SqlNull   \* a row without a value, and the result over no values
=============================================================================
