----------------------------- MODULE MCInotify -----------------------------
(* Instances of the library under a client *)
EXTENDS InotifyClient

CONSTANTS p1, p2, d1, d2

Watch2 == 1..2

Resolutions == {(p1 :> d1 @@ p2 :> d2), (p1 :> d1 @@ p2 :> d1)}
=============================================================================
