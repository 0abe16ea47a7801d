------------------------------ MODULE Placement ------------------------------
(***************************************************************************)
(* What the exchange of the module FingerMove promises of each fingerprint *)
(* file: it is kept by one holder, and it moves from a group to the main   *)
(* cache or from the main cache to a group only, through the network; it   *)
(* may get lost, but never comes back from that on its own.  The main      *)
(* cache and the groups do one thing at a time: files that move in one     *)
(* step move the same way.                                                 *)
(***************************************************************************)
CONSTANTS Main, Group, Files

VARIABLE place

Place == Group \cup {Main} \cup {"up", "down", "lost"}

\* The ways a file can go: Preconf and Afpmove of the main cache, movCntFile
\* and Afpmove of a group.
Way == {<<g, "up">> : g \in Group} \cup {<<"up", Main>>}
         \cup {<<Main, "down">>} \cup {<<"down", g>> : g \in Group}

Init == place \in [Files -> Group \cup {Main}]

Move(way) ==
  /\ place' \in [Files -> Place]
  /\ \A f \in Files : \/ place'[f] \in {place[f], "lost"}
                      \/ <<place[f], place'[f]>> = way

Next == \E way \in Way : Move(way)

Spec == Init /\ [][Next]_place
=============================================================================
