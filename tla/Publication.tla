----------------------------- MODULE Publication -----------------------------
(***************************************************************************)
(* What the database file promises its users: the path holds one database  *)
(* at a time, a build replaces it in one step, and an engine serves the    *)
(* database that was there when it was opened until it is dropped.  Only a *)
(* crash may bring an older database back, or leave a torn file, which     *)
(* nobody can open.                                                        *)
(***************************************************************************)
CONSTANTS Maps, Readers, None, Torn

VARIABLES
  current,  \* the density map at the path, None or Torn
  serving   \* of each reader: the density map of its engine, or None

Init ==
  /\ current = None
  /\ serving = [r \in Readers |-> None]

\* A build succeeds in replacing the database.
Publish ==
  /\ current' \in Maps
  /\ UNCHANGED serving

Open(r) ==
  /\ serving[r] = None /\ current \in Maps
  /\ serving' = [serving EXCEPT ![r] = current]
  /\ UNCHANGED current

Close(r) ==
  /\ serving' = [serving EXCEPT ![r] = None]
  /\ UNCHANGED current

Crash ==
  /\ current' \in Maps \union {None, Torn}
  /\ serving' = [r \in Readers |-> None]

Next ==
  \/ Publish
  \/ \E r \in Readers : Open(r) \/ Close(r)
  \/ Crash

Spec == Init /\ [][Next]_<<current, serving>>
=============================================================================
