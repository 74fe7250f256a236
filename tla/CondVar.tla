------------------------------- MODULE CondVar -------------------------------
(***************************************************************************)
(* What mt_adaptor.c expects of a mutex and its condition variable: wait   *)
(* gives up the mutex and falls asleep in one step, broadcast wakes        *)
(* everyone who sleeps at that moment and nobody else, and a woken thread  *)
(* comes back holding the mutex.  Broadcast is only called by the owner of *)
(* the mutex: unlock_completion_list, notify_sync_completion,              *)
(* notify_thread_ready and adaptor_finish all do so.                       *)
(***************************************************************************)
CONSTANTS Threads, NoThread

VARIABLES
    owner,   \* the thread that holds the mutex, or NoThread
    where    \* out, in (between lock and unlock), asleep or woken

cvVars == <<owner, where>>

Init == /\ owner = NoThread
        /\ where = [t \in Threads |-> "out"]

Move(t, place) == where' = [where EXCEPT ![t] = place]

Lock(t) ==
    /\ where[t] = "out" /\ owner = NoThread
    /\ owner' = t /\ Move(t, "in")

Unlock(t) ==
    /\ where[t] = "in" /\ owner = t
    /\ owner' = NoThread /\ Move(t, "out")

Wait(t) ==
    /\ where[t] = "in" /\ owner = t
    /\ owner' = NoThread /\ Move(t, "asleep")

Broadcast(t) ==
    /\ where[t] = "in" /\ owner = t
    /\ where' = [u \in Threads |->
                    IF where[u] = "asleep" THEN "woken" ELSE where[u]]
    /\ UNCHANGED owner

Return(t) ==
    /\ where[t] = "woken" /\ owner = NoThread
    /\ owner' = t /\ Move(t, "in")

Next == \E t \in Threads :
            Lock(t) \/ Unlock(t) \/ Wait(t) \/ Broadcast(t) \/ Return(t)

SafeSpec == Init /\ [][Next]_cvVars

(* Whoever is woken comes back, if everyone who holds the mutex lets go.   *)
Spec == SafeSpec /\ \A t \in Threads : SF_cvVars(Return(t))

=============================================================================
