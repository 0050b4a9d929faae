------------------------------ MODULE MCConsole ------------------------------
(***************************************************************************)
(* A console of two rows of three characters: a letter, return, delete, a  *)
(* key without a character, a button, and a mouse that moves by a          *)
(* character to the right or upwards and whose pointer reaches two cells.  *)
(***************************************************************************)
EXTENDS Console

MCKey(key, shift) == [t |-> "key", key |-> key, shift |-> shift]
MCMove(dx, dy) == [t |-> "move", dx |-> dx, dy |-> dy]

MCInputEvents ==
    { MCKey("KeyA", FALSE), MCKey("KeyReturn", FALSE), MCKey("KeyDelete", FALSE),
      MCKey("KeyZ", TRUE), [t |-> "button"], MCMove(8, 0), MCMove(0, -8) }

MCMouseStart == [x |-> 6, y |-> 4]
=============================================================================
