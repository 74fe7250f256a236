----------------------------- MODULE WinCondVar -----------------------------
(***************************************************************************)
(* The condition variable of the Windows build (winport.c): a semaphore    *)
(* the waiters queue on, a counter of waiters, a broadcast flag and an     *)
(* auto-reset event by which the last waiter to leave releases the         *)
(* broadcaster.  A step is one call of the Windows API or one critical     *)
(* section of waiters_count_lock_.                                         *)
(*                                                                         *)
(* The threads are any users of a mutex with its condition variable.  What *)
(* they wait for is not modelled: they wait, broadcast and unlock in any   *)
(* order that holds the mutex, which the callers in mt_adaptor.c always    *)
(* do.  pthread_cond_signal has no caller.                                 *)
(***************************************************************************)
EXTENDS Integers, FiniteSets

CONSTANTS Threads, NoThread

ASSUME ThreadsAssumption == IsFiniteSet(Threads) /\ NoThread \notin Threads

VARIABLES
    owner,   \* the external mutex
    pc,      \* where each thread is
    count,   \* waiters_count_
    flag,    \* was_broadcast_
    sema,    \* the count of sema_
    done     \* is the event waiters_done_ set?

vars == <<owner, pc, count, flag, sema, done>>

Places == {"out", "in", "counted", "blocked", "token", "last", "relock",
           "await", "clear"}

At(place) == {t \in Threads : pc[t] = place}
Goto(t, place) == pc' = [pc EXCEPT ![t] = place]

Init ==
    /\ owner = NoThread
    /\ pc = [t \in Threads |-> "out"]
    /\ count = 0 /\ flag = FALSE /\ sema = 0 /\ done = FALSE

-----------------------------------------------------------------------------
(* pthread_mutex_lock, pthread_mutex_unlock *)
Lock(t) ==
    /\ pc[t] = "out" /\ owner = NoThread
    /\ owner' = t /\ Goto(t, "in")
    /\ UNCHANGED <<count, flag, sema, done>>

Unlock(t) ==
    /\ pc[t] = "in"
    /\ owner' = NoThread /\ Goto(t, "out")
    /\ UNCHANGED <<count, flag, sema, done>>

(* pthread_cond_wait: be counted ... *)
EnterWait(t) ==
    /\ pc[t] = "in"
    /\ count' = count + 1 /\ Goto(t, "counted")
    /\ UNCHANGED <<owner, flag, sema, done>>

(* ... SignalObjectAndWait: release the mutex and queue on the semaphore,  *)
(* in one step ...                                                         *)
Sleep(t) ==
    /\ pc[t] = "counted"
    /\ owner' = NoThread /\ Goto(t, "blocked")
    /\ UNCHANGED <<count, flag, sema, done>>

Available == sema > 0

TakeToken(t) ==
    /\ pc[t] = "blocked" /\ Available
    /\ sema' = sema - 1 /\ Goto(t, "token")
    /\ UNCHANGED <<owner, count, flag, done>>

(* ... be counted out; the last one of a broadcast has a duty ...          *)
LastButOne == flag /\ count = 2                               \* a mutation
LastWaiter == flag /\ count = 1

NotCountedOut == UNCHANGED count                              \* a mutation
CountOut      == count' = count - 1

LeaveWait(t) ==
    /\ pc[t] = "token"
    /\ CountOut
    /\ Goto(t, IF LastWaiter THEN "last" ELSE "relock")
    /\ UNCHANGED <<owner, flag, sema, done>>

(* ... and wait for the mutex. *)
SignalDone(t) ==
    /\ pc[t] = "last"
    /\ done' = TRUE /\ Goto(t, "relock")
    /\ UNCHANGED <<owner, count, flag, sema>>

Relock(t) ==
    /\ pc[t] = "relock" /\ owner = NoThread
    /\ owner' = t /\ Goto(t, "in")
    /\ UNCHANGED <<count, flag, sema, done>>

(* pthread_cond_broadcast, by a thread that holds the mutex *)
ReleaseOne     == sema' = sema + 1                            \* a mutation
ReleaseSurplus == sema' = sema + count + 1                    \* a mutation
ReleaseAll     == sema' = sema + count

MaybeUnlocked(t) == pc[t] \in {"in", "out"}                   \* a mutation
MayBroadcast(t)  == pc[t] = "in"

Broadcast(t) ==
    /\ MayBroadcast(t)
    /\ \/ /\ count > 0
          /\ flag' = TRUE
          /\ ReleaseAll
          /\ Goto(t, "await")
       \/ /\ count = 0
          /\ UNCHANGED <<flag, sema, pc>>
    /\ UNCHANGED <<owner, count, done>>

AwaitDone(t) ==
    /\ pc[t] = "await" /\ done
    /\ done' = FALSE /\ Goto(t, "clear")
    /\ UNCHANGED <<owner, count, flag, sema>>

ClearFlag(t) ==
    /\ pc[t] = "clear"
    /\ flag' = FALSE /\ Goto(t, "in")
    /\ UNCHANGED <<owner, count, sema, done>>

WaitStep(t) == \/ Sleep(t) \/ TakeToken(t) \/ LeaveWait(t) \/ SignalDone(t)
BroadcastStep(t) == AwaitDone(t) \/ ClearFlag(t)

Next == \E t \in Threads :
            \/ Lock(t) \/ Unlock(t) \/ EnterWait(t) \/ Broadcast(t)
            \/ WaitStep(t) \/ Relock(t) \/ BroadcastStep(t)

Spec == Init /\ [][Next]_vars

(***************************************************************************)
(* Threads run; a thread that holds the mutex does not keep it; Windows    *)
(* serves the waiters of a mutex in turn.                                  *)
(***************************************************************************)
Fairness == \A t \in Threads :
                /\ WF_vars(WaitStep(t)) /\ WF_vars(BroadcastStep(t))
                /\ WF_vars(Unlock(t) \/ EnterWait(t))
                /\ SF_vars(Relock(t))

FairSpec == Spec /\ Fairness

-----------------------------------------------------------------------------
(* Every variable keeps its type; the mutex is owned by the one thread     *)
(* that is between lock and unlock, awake (winport.c:85-209).              *)
Holding == {"in", "counted", "await", "clear"}

TypeOK ==
    /\ owner \in Threads \cup {NoThread}
    /\ pc \in [Threads -> Places]
    /\ count \in Nat /\ sema \in Nat
    /\ flag \in BOOLEAN /\ done \in BOOLEAN

(* waiters_count_ is the number of threads in pthread_cond_wait that have  *)
(* not been counted out: what a broadcast releases is what is queued.      *)
Waiters == {t \in Threads : pc[t] \in {"counted", "blocked", "token"}}

WaitersAreCounted == count = Cardinality(Waiters)

(* A semaphore token belongs to a sleeper the broadcast counted: there are *)
(* never more tokens than sleepers nor fewer, so that nobody who starts to *)
(* wait can take one meant for another, and none is left over.             *)
TokensMatchSleepers ==
    sema > 0 => /\ sema = Cardinality(At("blocked"))
                /\ At("await") # {}

(* "This assignment is okay, even without the <waiters_count_lock_> held   *)
(* because no other waiter threads can wake up to access it"               *)
(* (winport.c:163).                                                        *)
FlagIsPrivate ==
    At("clear") # {} => sema = 0 /\ At("token") = {} /\ count = 0

(* A broadcast returns: the event it waits for comes, whoever was last.    *)
BroadcastReturns == \A t \in Threads : pc[t] = "await" ~> pc[t] = "in"

(* The emulation is a condition variable. *)
Abstract == INSTANCE CondVar WITH
    where <- [t \in Threads |->
                 IF pc[t] = "out" THEN "out"
                 ELSE IF pc[t] \in Holding THEN "in"
                 ELSE IF pc[t] = "blocked" /\ sema = 0 THEN "asleep"
                 ELSE "woken"]

(* wait and broadcast behave, to every thread, like those of CondVar: also *)
(* that whoever a broadcast woke comes back with the mutex.                *)
IsCondVar == Abstract!Spec

=============================================================================
