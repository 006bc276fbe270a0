------------------------------ MODULE JitImage ------------------------------
(***************************************************************************)
(* What the backend promises of the JIT's contents: code enters under a    *)
(* name once, is never replaced or removed, and enters only when all the   *)
(* names it refers to are already there, for the resolver to find.         *)
(* LlvmPipeline implements it.                                             *)
(***************************************************************************)

CONSTANTS
  Name,     \* the names code may be installed under
  Absent,   \* what image[n] is while nothing is installed under n
  Refs(_)   \* the names a piece of code refers to

VARIABLE image

Loaded == { n \in Name : image[n] # Absent }

Init == image = [n \in Name |-> Absent]

Install(n) ==
  /\ image[n] = Absent
  /\ image'[n] # Absent
  /\ Refs(image'[n]) \subseteq Loaded
  /\ image' = [image EXCEPT ![n] = image'[n]]

Next == \E n \in Name : Install(n)

Spec == Init /\ [][Next]_image

\* No installed code refers to a name that is not installed: what the resolver of
\* LlvmBackend::addModule is asked for has been added.
Closed == \A n \in Loaded : Refs(image[n]) \subseteq Loaded
=============================================================================
