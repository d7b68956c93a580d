------------------------------ MODULE AtomicFile ------------------------------
(***************************************************************************)
(* What save_to promises of the state file: it only ever changes by being  *)
(* replaced, in one step, by all that the engine holds at that moment.     *)
(* The engine's memory changes freely, and is lost in a crash; the file    *)
(* can also be damaged from outside.                                       *)
(***************************************************************************)
CONSTANT Damaged

VARIABLES memory, contents

Mutate == contents' = contents

Replace ==
  /\ contents' = memory
  /\ UNCHANGED memory

Damage ==
  /\ contents' = Damaged
  /\ UNCHANGED memory

AtomicSpec == [][Mutate \/ Replace \/ Damage]_<<memory, contents>>
===============================================================================
