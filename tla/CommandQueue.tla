---------------------------- MODULE CommandQueue ----------------------------
(***************************************************************************)
(* What the command FIFO promises: the host takes the words the driver has *)
(* written, each once and in order.  VmwareFifo implements it.             *)
(***************************************************************************)
EXTENDS Naturals, Sequences

CONSTANTS
  Words,
  NoWord,
  Capacity      (* words the host may lag behind                          *)

VARIABLES
  queue,        (* written and not yet taken                              *)
  taken         (* the word the host took last                            *)

Init == queue = <<>> /\ taken = NoWord

Put(w) ==
  /\ Len(queue) < Capacity
  /\ queue' = Append(queue, w)
  /\ UNCHANGED taken

Take ==
  /\ queue # <<>>
  /\ taken' = Head(queue)
  /\ queue' = Tail(queue)

Next == (\E w \in Words : Put(w)) \/ Take

Spec == Init /\ [][Next]_<<queue, taken>>
=============================================================================
