-------------------------- MODULE ExclusiveSessions ---------------------------
(***************************************************************************)
(* What the model pool promises about sessions, with no gate, queue, table *)
(* or eviction in it: a session is used by one user at a time and is not   *)
(* closed while it is used (ModelPool.cs:10-19).                           *)
(***************************************************************************)
CONSTANTS Users, Sessions

VARIABLES
  live,   \* the sessions that are open
  users   \* who uses each session

vars == <<live, users>>

Init ==
  /\ live = {}
  /\ users = [s \in Sessions |-> {}]

(* A session is opened for the user that asked for it.                     *)
Open(s, u) ==
  /\ s \notin live
  /\ users[s] = {}
  /\ live' = live \cup {s}
  /\ users' = [users EXCEPT ![s] = {u}]

Begin(s, u) ==
  /\ s \in live
  /\ users[s] = {}
  /\ users' = [users EXCEPT ![s] = {u}]
  /\ UNCHANGED live

End(s, u) ==
  /\ users[s] = {u}
  /\ users' = [users EXCEPT ![s] = {}]
  /\ UNCHANGED live

Close(s) ==
  /\ s \in live
  /\ users[s] = {}
  /\ live' = live \ {s}
  /\ UNCHANGED users

Next ==
  \E s \in Sessions :
    \/ Close(s)
    \/ \E u \in Users : Open(s, u) \/ Begin(s, u) \/ End(s, u)

Spec == Init /\ [][Next]_vars
================================================================================
