------------------------------- MODULE MCFrames -------------------------------
(***************************************************************************)
(* Frames with a few messages that differ in everything the encoding       *)
(* depends on, and with peers that send too little, more than a frame may  *)
(* hold, nothing at all, or another version.                               *)
(***************************************************************************)
EXTENDS Frames

NoVector == [d \in {} |-> 0]

Plain == [type |-> 1, group |-> NoValue, name |-> <<>>, req |-> NoVector, at |-> -1]
Full  == [type |-> 2, group |-> 81, name |-> <<7>>, req |-> [d \in {1} |-> 0], at |-> 4]
Long  == [type |-> 3, group |-> 5, name |-> <<7, 7>>, req |-> [d \in {0, 1} |-> 3], at |-> 1]

Large == [Long EXCEPT !.name = <<7, 7, 7>>]

Done    == [ok |-> 1, message |-> <<>>, limiting_dimension |-> NoValue,
            recall |-> <<>>, epoch |-> 1]
Limited == [ok |-> 0, message |-> <<9>>, limiting_dimension |-> 0,
            recall |-> <<1, 2>>, epoch |-> 0]

FrameOf(m, n, v) == [message |-> m, missing |-> n, version |-> v]

MCRequests ==
  { FrameOf(Plain, 0, 1), FrameOf(Full, 0, 1), FrameOf(Full, 1, 1),
    FrameOf(Long, 0, 1), FrameOf(Large, 0, 1), FrameOf(Plain, 0, 2) }

MCResponses ==
  { FrameOf(Done, 0, 1), FrameOf(Limited, 0, 1), FrameOf(Done, 5, 1),
    FrameOf(Limited, 1, 1) }
===============================================================================
