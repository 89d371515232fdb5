------------------------------- MODULE FrameQueue ------------------------------
(***************************************************************************)
(* What a capture ring promises its two sides, abstractly: frames come out *)
(* once each and in the order they went in, and no more than Room of them  *)
(* wait in between.  A frame is the number it has among those put.         *)
(***************************************************************************)
EXTENDS Naturals, Sequences

CONSTANT Room

VARIABLES
  queue,  \* frames put and not taken
  put,    \* how many were ever put
  taken   \* the frames the last Take returned

QueueInit == queue = << >> /\ put = 0 /\ taken = << >>

Put ==
  \E count \in 1..(Room - Len(queue)) :
    /\ queue' = queue \o [i \in 1..count |-> put + i]
    /\ put' = put + count
    /\ UNCHANGED taken

Take ==
  \E count \in 1..Len(queue) :
    /\ taken' = SubSeq(queue, 1, count)
    /\ queue' = SubSeq(queue, count + 1, Len(queue))
    /\ UNCHANGED put

QueueSpec == QueueInit /\ [][Put \/ Take]_<<queue, put, taken>>
================================================================================
