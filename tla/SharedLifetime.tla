--------------------------- MODULE SharedLifetime ---------------------------
(***************************************************************************)
(* What reference counting promises of an object that several threads use  *)
(* until one of them asks for its end: it is freed once, when it is being  *)
(* closed and nobody uses it, and nobody uses it again.                    *)
(***************************************************************************)
CONSTANT Users

VARIABLES
    users,    \* who uses the object
    closing,  \* its end was asked for
    freed     \* it is gone

TypeOK == users \subseteq Users /\ closing \in BOOLEAN /\ freed \in BOOLEAN

Init == users \in (SUBSET Users) \ {{}} /\ closing = FALSE /\ freed = FALSE

(* A new user needs an object that somebody keeps alive. *)
Enter(u) ==
    /\ ~freed /\ users # {}
    /\ users' = users \cup {u}
    /\ UNCHANGED <<closing, freed>>

Leave(u) ==
    /\ ~freed /\ u \in users
    /\ users' = users \ {u}
    /\ closing \/ users' # {}
    /\ UNCHANGED <<closing, freed>>

Close ==
    /\ ~freed
    /\ closing' = TRUE
    /\ UNCHANGED <<users, freed>>

Free ==
    /\ ~freed /\ closing /\ users = {}
    /\ freed' = TRUE
    /\ UNCHANGED <<users, closing>>

Next == \/ \E u \in Users : Enter(u) \/ Leave(u)
        \/ Close \/ Free

Spec == Init /\ [][Next]_<<users, closing, freed>>
=============================================================================
