----------------------------- MODULE MessageQueue -----------------------------
(***************************************************************************)
(* What one direction of a connection promises the two programs at its     *)
(* ends: messages are read one at a time, each once, in the order in which *)
(* they were sent, and each as what Reading says its sender meant.         *)
(***************************************************************************)
EXTENDS Sequences, Naturals

CONSTANT Reading(_)

VARIABLES sent, delivered

QueueInit == sent = <<>> /\ delivered = <<>>

Put ==
  /\ Len(sent') = Len(sent) + 1
  /\ SubSeq(sent', 1, Len(sent)) = sent
  /\ UNCHANGED delivered

Take ==
  /\ Len(delivered) < Len(sent)
  /\ delivered' = Append(delivered, Reading(sent[Len(delivered) + 1]))
  /\ UNCHANGED sent

QueueSpec == QueueInit /\ [][Put \/ Take]_<<sent, delivered>>
===============================================================================
