---------------------------------- MODULE Scene ---------------------------------
(***************************************************************************)
(* The part of the desktop application that a behaviour is about.          *)
(***************************************************************************)
VARIABLE about
================================================================================
