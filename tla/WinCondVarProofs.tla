-------------------------- MODULE WinCondVarProofs --------------------------
(***************************************************************************)
(* For any number of threads, the emulation of winport.c counts its        *)
(* waiters, hands each its own token, and takes the steps of a condition   *)
(* variable.                                                               *)
(***************************************************************************)
EXTENDS WinCondVar, FiniteSetTheorems, TLAPS

(* Whoever is between lock and unlock, awake, owns the mutex. *)
MutexInv == \A t \in Threads : pc[t] \in Holding => owner = t

(* Between broadcasts there is no token, no event and no duty left.        *)
QuietInv ==
    ~flag => /\ sema = 0 /\ ~done
             /\ \A t \in Threads : pc[t] \notin {"token", "last", "await",
                                                "clear"}

(* During a broadcast somebody holds the mutex and every sleeper has a     *)
(* token.                                                                  *)
BusyInv ==
    flag => /\ sema = Cardinality(At("blocked"))
            /\ \E t \in Threads : pc[t] \in {"await", "clear"}

(* Once the last waiter has been counted out the semaphore is drained.     *)
Drained == /\ count = 0 /\ sema = 0
           /\ \A t \in Threads : pc[t] # "token"

LastInv ==
    /\ done => Drained /\ At("last") = {}
    /\ \A t \in Threads :
          /\ pc[t] = "last" => Drained /\ At("last") = {t}
          /\ pc[t] = "clear" => Drained /\ At("last") = {} /\ ~done

IInv == /\ TypeOK /\ MutexInv /\ WaitersAreCounted
        /\ QuietInv /\ BusyInv /\ LastInv

-----------------------------------------------------------------------------
LEMMA SetsAreFinite == IsFiniteSet(Waiters) /\ IsFiniteSet(At("blocked"))
<1>1. Waiters \in SUBSET Threads /\ At("blocked") \in SUBSET Threads
    BY DEF Waiters, At
<1> QED BY <1>1, ThreadsAssumption, FS_Subset

(* Waiting threads are what the counter and the semaphore say. *)
LEMMA Counting ==
    ASSUME IInv
    PROVE  /\ count = 0 => Waiters = {}
           /\ \A t \in Waiters : count > 0 /\ (count = 1 => Waiters = {t})
           /\ \A t \in At("blocked") : flag => sema > 0
           /\ sema = 0 /\ flag => At("blocked") = {}
<1> USE DEF IInv, WaitersAreCounted, BusyInv
<1>1. count = 0 => Waiters = {}
    BY SetsAreFinite, FS_EmptySet
<1>2. ASSUME NEW t \in Waiters PROVE count > 0 /\ (count = 1 => Waiters = {t})
    <2>1. Cardinality(Waiters \ {t}) = count - 1
        BY SetsAreFinite, FS_RemoveElement
    <2>2. IsFiniteSet(Waiters \ {t}) /\ count \in Nat
        BY SetsAreFinite, FS_RemoveElement DEF TypeOK
    <2>3. Cardinality(Waiters \ {t}) \in Nat
        BY <2>2, FS_CardinalityType
    <2>4. count = 1 => Waiters \ {t} = {}
        BY <2>1, <2>2, FS_EmptySet
    <2> QED BY <2>1, <2>2, <2>3, <2>4
<1>3. flag => (sema = 0 <=> At("blocked") = {})
    BY SetsAreFinite, FS_EmptySet
<1>4. sema \in Nat
    BY DEF TypeOK
<1> QED BY <1>1, <1>2, <1>3, <1>4

LEMMA TypeStep == TypeOK /\ (count = 0 => Waiters = {}) /\ [Next]_vars => TypeOK'
<1> SUFFICES ASSUME TypeOK, count = 0 => Waiters = {}, [Next]_vars PROVE TypeOK'
    OBVIOUS
<1> USE DEF TypeOK, Places, Goto
<1>1. CASE UNCHANGED vars
    BY <1>1 DEF vars
<1>2. ASSUME NEW t \in Threads, Lock(t) \/ Unlock(t) \/ EnterWait(t)
      PROVE  TypeOK'
    BY <1>2 DEF Lock, Unlock, EnterWait
<1>3. ASSUME NEW t \in Threads, Broadcast(t) PROVE TypeOK'
    <2>1. owner' = owner /\ count' = count /\ done' = done
        BY <1>3 DEF Broadcast
    <2>2. CASE count > 0
        <3>1. sema' = sema + count
            BY <1>3, <2>2 DEF Broadcast, ReleaseAll
        <3>2. pc' = [pc EXCEPT ![t] = "await"] /\ flag' = TRUE
            BY <1>3, <2>2 DEF Broadcast
        <3>3. sema' \in Nat
            BY <3>1
        <3> QED BY <2>1, <3>2, <3>3
    <2>3. CASE count = 0
        BY <1>3, <2>1, <2>3 DEF Broadcast
    <2> QED BY <2>2, <2>3
<1>4. ASSUME NEW t \in Threads, Sleep(t) \/ TakeToken(t) PROVE TypeOK'
    BY <1>4 DEF Sleep, TakeToken, Available
<1>5. ASSUME NEW t \in Threads, LeaveWait(t) PROVE TypeOK'
    <2>1. t \in Waiters
        BY <1>5 DEF LeaveWait, Waiters
    <2>2. count \in Nat \ {0}
        BY <2>1
    <2>3. count' \in Nat
        BY <1>5, <2>2 DEF LeaveWait, CountOut
    <2> QED BY <1>5, <2>3 DEF LeaveWait
<1>6. ASSUME NEW t \in Threads, SignalDone(t) \/ Relock(t) \/ BroadcastStep(t)
      PROVE  TypeOK'
    BY <1>6 DEF SignalDone, Relock, BroadcastStep, AwaitDone, ClearFlag
<1> QED BY <1>1, <1>2, <1>3, <1>4, <1>5, <1>6 DEF Next, WaitStep

LEMMA MutexStep == IInv /\ [Next]_vars => MutexInv'
<1> SUFFICES ASSUME IInv, [Next]_vars PROVE MutexInv'
    OBVIOUS
<1> USE DEF IInv, TypeOK, MutexInv, Holding, Goto
<1>1. CASE UNCHANGED vars
    BY <1>1 DEF vars
<1>2. ASSUME NEW t \in Threads,
             Lock(t) \/ Unlock(t) \/ EnterWait(t) \/ Sleep(t) \/ Relock(t)
      PROVE  MutexInv'
    BY <1>2, ThreadsAssumption DEF Lock, Unlock, EnterWait, Sleep, Relock
<1>3. ASSUME NEW t \in Threads, Broadcast(t) PROVE MutexInv'
    BY <1>3 DEF Broadcast, MayBroadcast
<1>4. ASSUME NEW t \in Threads, TakeToken(t) \/ LeaveWait(t) \/ SignalDone(t)
      PROVE  MutexInv'
    BY <1>4 DEF TakeToken, LeaveWait, SignalDone
<1>5. ASSUME NEW t \in Threads, BroadcastStep(t) PROVE MutexInv'
    BY <1>5 DEF BroadcastStep, AwaitDone, ClearFlag
<1> QED BY <1>1, <1>2, <1>3, <1>4, <1>5 DEF Next, WaitStep

(* What each step does to the set of waiters. *)
LEMMA CountStep == IInv /\ [Next]_vars => WaitersAreCounted'
<1> SUFFICES ASSUME IInv, [Next]_vars PROVE WaitersAreCounted'
    OBVIOUS
<1> USE DEF IInv, TypeOK, WaitersAreCounted, Goto
<1>1. CASE UNCHANGED vars
    <2>1. Waiters' = Waiters
        BY <1>1 DEF vars, Waiters
    <2> QED BY <1>1, <2>1 DEF vars
<1>2. ASSUME NEW t \in Threads, EnterWait(t) PROVE WaitersAreCounted'
    <2>1. Waiters' = Waiters \cup {t} /\ t \notin Waiters
        BY <1>2 DEF EnterWait, Waiters
    <2>2. Cardinality(Waiters') = Cardinality(Waiters) + 1
        BY <2>1, SetsAreFinite, FS_AddElement
    <2> QED BY <1>2, <2>2 DEF EnterWait
<1>3. ASSUME NEW t \in Threads, LeaveWait(t) PROVE WaitersAreCounted'
    <2>1. Waiters' = Waiters \ {t} /\ t \in Waiters
        BY <1>3 DEF LeaveWait, Waiters
    <2>2. Cardinality(Waiters') = Cardinality(Waiters) - 1
        BY <2>1, SetsAreFinite, FS_RemoveElement
    <2> QED BY <1>3, <2>2 DEF LeaveWait, CountOut
<1>4. ASSUME NEW t \in Threads, 
             Lock(t) \/ Unlock(t) \/ Sleep(t) \/ TakeToken(t) \/ SignalDone(t)
                \/ Relock(t) \/ Broadcast(t) \/ BroadcastStep(t)
      PROVE  WaitersAreCounted'
    <2>1. Waiters' = Waiters
        BY <1>4 DEF Lock, Unlock, Sleep, TakeToken, SignalDone, Relock,
                    Broadcast, MayBroadcast, BroadcastStep, AwaitDone,
                    ClearFlag, Waiters
    <2>2. count' = count
        BY <1>4 DEF Lock, Unlock, Sleep, TakeToken, SignalDone, Relock,
                    Broadcast, BroadcastStep, AwaitDone, ClearFlag
    <2> QED BY <2>1, <2>2
<1> QED BY <1>1, <1>2, <1>3, <1>4 DEF Next, WaitStep

(* Nobody can lock the mutex, or hold it to wait, while it is held for a   *)
(* broadcast.                                                              *)
LEMMA BroadcasterIsAlone ==
    ASSUME IInv, flag
    PROVE  /\ owner # NoThread
           /\ \A t \in Threads : pc[t] \notin {"in", "counted"}
<1>1. PICK b \in Threads : pc[b] \in {"await", "clear"}
    BY DEF IInv, BusyInv
<1>2. owner = b
    BY <1>1 DEF IInv, MutexInv, Holding
<1> QED BY <1>1, <1>2, ThreadsAssumption DEF IInv, MutexInv, Holding

LEMMA QuietStep == IInv /\ [Next]_vars => QuietInv'
<1> SUFFICES ASSUME IInv, [Next]_vars PROVE QuietInv'
    OBVIOUS
<1> USE DEF IInv, TypeOK, QuietInv, Goto
<1>1. CASE UNCHANGED vars
    BY <1>1 DEF vars
<1>2. ASSUME NEW t \in Threads,
             Lock(t) \/ Unlock(t) \/ EnterWait(t) \/ Sleep(t) \/ Relock(t)
      PROVE  QuietInv'
    BY <1>2 DEF Lock, Unlock, EnterWait, Sleep, Relock
<1>3. ASSUME NEW t \in Threads, Broadcast(t) PROVE QuietInv'
    BY <1>3 DEF Broadcast, MayBroadcast
<1>4. ASSUME NEW t \in Threads, TakeToken(t) PROVE QuietInv'
    BY <1>4 DEF TakeToken, Available
<1>5. ASSUME NEW t \in Threads, LeaveWait(t) \/ SignalDone(t) PROVE QuietInv'
    BY <1>5 DEF LeaveWait, SignalDone
<1>6. ASSUME NEW t \in Threads, AwaitDone(t) PROVE QuietInv'
    BY <1>6 DEF AwaitDone
<1>7. ASSUME NEW t \in Threads, ClearFlag(t) PROVE QuietInv'
    <2>1. Drained /\ At("last") = {} /\ ~done
        BY <1>7 DEF ClearFlag, LastInv
    <2>2. ASSUME NEW u \in Threads
          PROVE  pc'[u] \notin {"token", "last", "await", "clear"}
        <3>1. u = t \/ pc[u] \notin Holding
            BY <1>7 DEF ClearFlag, MutexInv, Holding
        <3> QED BY <1>7, <2>1, <3>1 DEF ClearFlag, Drained, At, Holding
    <2> QED BY <1>7, <2>1, <2>2 DEF ClearFlag, Drained
<1> QED BY <1>1, <1>2, <1>3, <1>4, <1>5, <1>6, <1>7
        DEF Next, WaitStep, BroadcastStep

LEMMA BusyStep == IInv /\ [Next]_vars => BusyInv'
<1> SUFFICES ASSUME IInv, [Next]_vars PROVE BusyInv'
    OBVIOUS
<1> USE DEF IInv, TypeOK, BusyInv, Goto
<1>1. CASE UNCHANGED vars
    BY <1>1 DEF vars, At
<1>2. ASSUME NEW t \in Threads,
             Lock(t) \/ Unlock(t) \/ EnterWait(t) \/ Sleep(t) \/ Relock(t)
      PROVE  BusyInv'
    <2>1. ~flag
        BY <1>2, BroadcasterIsAlone
           DEF Lock, Unlock, EnterWait, Sleep, Relock
    <2> QED BY <1>2, <2>1 DEF Lock, Unlock, EnterWait, Sleep, Relock
<1>3. ASSUME NEW t \in Threads, Broadcast(t) PROVE BusyInv'
    <2>1. CASE count = 0
        <3>1. ~flag /\ flag' = flag
            BY <1>3, <2>1, BroadcasterIsAlone DEF Broadcast, MayBroadcast
        <3> QED BY <3>1
    <2>2. CASE count > 0
        <3>1. ~flag /\ sema = 0
            BY <1>3, BroadcasterIsAlone DEF Broadcast, MayBroadcast, QuietInv
        <3>2. ASSUME NEW u \in Waiters PROVE pc[u] = "blocked"
            <4>1. pc[u] # "counted"
                BY <1>3 DEF Broadcast, MayBroadcast, MutexInv, Holding, Waiters
            <4>2. pc[u] # "token"
                BY <3>1 DEF QuietInv, Waiters
            <4> QED BY <4>1, <4>2 DEF Waiters
        <3>3. Waiters = At("blocked")
            BY <3>2 DEF Waiters, At
        <3>4. At("blocked")' = At("blocked")
            BY <1>3, <2>2 DEF Broadcast, MayBroadcast, At
        <3>5. sema' = Cardinality(At("blocked")')
            BY <1>3, <2>2, <3>1, <3>3, <3>4
               DEF Broadcast, ReleaseAll, WaitersAreCounted
        <3> QED BY <1>3, <2>2, <3>5 DEF Broadcast
    <2> QED BY <1>3, <2>1, <2>2 DEF Broadcast
<1>4. ASSUME NEW t \in Threads, TakeToken(t) PROVE BusyInv'
    <2>1. At("blocked")' = At("blocked") \ {t} /\ t \in At("blocked")
        BY <1>4 DEF TakeToken, At
    <2>2. Cardinality(At("blocked")') = Cardinality(At("blocked")) - 1
        BY <2>1, SetsAreFinite, FS_RemoveElement
    <2>3. flag => sema' = Cardinality(At("blocked")')
        BY <1>4, <2>2 DEF TakeToken
    <2> QED BY <1>4, <2>3 DEF TakeToken
<1>5. ASSUME NEW t \in Threads, LeaveWait(t) \/ SignalDone(t) PROVE BusyInv'
    <2>1. At("blocked")' = At("blocked")
        BY <1>5 DEF LeaveWait, SignalDone, At
    <2> QED BY <1>5, <2>1 DEF LeaveWait, SignalDone
<1>6. ASSUME NEW t \in Threads, AwaitDone(t) PROVE BusyInv'
    <2>1. At("blocked")' = At("blocked")
        BY <1>6 DEF AwaitDone, At
    <2> QED BY <1>6, <2>1 DEF AwaitDone
<1>7. ASSUME NEW t \in Threads, ClearFlag(t) PROVE BusyInv'
    BY <1>7 DEF ClearFlag
<1> QED BY <1>1, <1>2, <1>3, <1>4, <1>5, <1>6, <1>7
        DEF Next, WaitStep, BroadcastStep

LEMMA LastStep == IInv /\ [Next]_vars => LastInv'
<1> SUFFICES ASSUME IInv, [Next]_vars PROVE LastInv'
    OBVIOUS
<1> USE DEF IInv, TypeOK, LastInv, Goto, At, Drained
<1>1. CASE UNCHANGED vars
    BY <1>1 DEF vars
<1>2. ASSUME NEW t \in Threads,
             Lock(t) \/ Unlock(t) \/ EnterWait(t) \/ Sleep(t) \/ Relock(t)
      PROVE  LastInv'
    <2>1. ~flag
        BY <1>2, BroadcasterIsAlone
           DEF Lock, Unlock, EnterWait, Sleep, Relock
    <2>2. ~done /\ \A u \in Threads : pc[u] \notin {"last", "clear", "token"}
        BY <2>1 DEF QuietInv
    <2> QED BY <1>2, <2>2 DEF Lock, Unlock, EnterWait, Sleep, Relock
<1>3. ASSUME NEW t \in Threads, Broadcast(t) PROVE LastInv'
    <2>1. ~flag
        BY <1>3, BroadcasterIsAlone DEF Broadcast, MayBroadcast
    <2>2. ~done /\ \A u \in Threads : pc[u] \notin {"last", "clear", "token"}
        BY <2>1 DEF QuietInv
    <2> QED BY <1>3, <2>2 DEF Broadcast, MayBroadcast
<1>4. ASSUME NEW t \in Threads, TakeToken(t) PROVE LastInv'
    <2>1. ~done /\ \A u \in Threads : pc[u] \notin {"last", "clear"}
        BY <1>4 DEF TakeToken, Available
    <2> QED BY <1>4, <2>1 DEF TakeToken
<1>5. ASSUME NEW t \in Threads, LeaveWait(t) PROVE LastInv'
    <2>1. ~done /\ \A u \in Threads : pc[u] \notin {"last", "clear"}
        BY <1>5 DEF LeaveWait
    <2>2. flag
        BY <1>5 DEF LeaveWait, QuietInv
    <2>3. CASE count # 1
        BY <1>5, <2>1, <2>3 DEF LeaveWait, LastWaiter
    <2>4. CASE count = 1
        <3>1. t \in Waiters
            BY <1>5 DEF LeaveWait, Waiters
        <3>2. Waiters = {t}
            BY <2>4, <3>1, Counting
        <3>3. At("blocked") = {}
            BY <1>5, <3>2 DEF LeaveWait, Waiters
        <3>4. sema = 0
            BY <2>2, <3>3, FS_EmptySet DEF BusyInv
        <3>5. \A u \in Threads : pc'[u] # "token"
            BY <1>5, <3>2 DEF LeaveWait, Waiters
        <3>6. count' = 0 /\ sema' = 0 /\ done' = done
            BY <1>5, <2>4, <3>4 DEF LeaveWait, CountOut
        <3>7. pc' = [pc EXCEPT ![t] = "last"]
            BY <1>5, <2>2, <2>4 DEF LeaveWait, LastWaiter
        <3> QED BY <2>1, <3>5, <3>6, <3>7
    <2> QED BY <2>3, <2>4
<1>6. ASSUME NEW t \in Threads, SignalDone(t) PROVE LastInv'
    <2>1. \A u \in Threads : pc[u] # "clear" /\ (pc[u] = "last" => u = t)
        BY <1>6 DEF SignalDone
    <2> QED BY <1>6, <2>1 DEF SignalDone
<1>7. ASSUME NEW t \in Threads, BroadcastStep(t) PROVE LastInv'
    BY <1>7 DEF BroadcastStep, AwaitDone, ClearFlag
<1> QED BY <1>1, <1>2, <1>3, <1>4, <1>5, <1>6, <1>7 DEF Next, WaitStep

-----------------------------------------------------------------------------
LEMMA InvInit == Init => IInv
<1> SUFFICES ASSUME Init PROVE IInv
    OBVIOUS
<1>1. Waiters = {}
    BY DEF Init, Waiters
<1>2. WaitersAreCounted
    BY <1>1, FS_EmptySet DEF Init, WaitersAreCounted
<1> QED BY <1>2 DEF Init, IInv, TypeOK, Places, MutexInv, Holding, QuietInv,
                    BusyInv, LastInv, Drained, At

LEMMA InvStep == IInv /\ [Next]_vars => IInv'
<1> SUFFICES ASSUME IInv, [Next]_vars PROVE IInv'
    OBVIOUS
<1>1. TypeOK'
    BY Counting, TypeStep DEF IInv
<1> QED BY <1>1, MutexStep, CountStep, QuietStep, BusyStep, LastStep DEF IInv

LEMMA Inductive == Spec => []IInv
BY InvInit, InvStep, PTL DEF Spec

(* The types. *)
THEOREM TypesAreRight == Spec => []TypeOK
<1>1. IInv => TypeOK
    BY DEF IInv
<1> QED BY <1>1, Inductive, PTL

(* waiters_count_ counts the threads in pthread_cond_wait. *)
THEOREM WaitersStayCounted == Spec => []WaitersAreCounted
<1>1. IInv => WaitersAreCounted
    BY DEF IInv
<1> QED BY <1>1, Inductive, PTL

(* Nobody takes a wake-up meant for another thread, and none is left over. *)
THEOREM TokensAreOwed == Spec => []TokensMatchSleepers
<1>1. IInv => TokensMatchSleepers
    <2> SUFFICES ASSUME IInv, sema > 0
                 PROVE  sema = Cardinality(At("blocked")) /\ At("await") # {}
        BY DEF TokensMatchSleepers
    <2>1. flag
        BY DEF IInv, QuietInv
    <2> QED BY <2>1 DEF IInv, BusyInv, LastInv, Drained, At
<1> QED BY <1>1, Inductive, PTL

(* The unlocked assignment of was_broadcast_ has no reader. *)
THEOREM FlagHasOneWriter == Spec => []FlagIsPrivate
<1>1. IInv => FlagIsPrivate
    BY DEF IInv, FlagIsPrivate, LastInv, Drained, At
<1> QED BY <1>1, Inductive, PTL

-----------------------------------------------------------------------------
(* Every step of the emulation is a step of the condition variable, or     *)
(* none.                                                                   *)
LEMMA AbstractInit == Init => Abstract!Init
BY DEF Init, Abstract!Init

LEMMA AbstractStep == IInv /\ [Next]_vars => [Abstract!Next]_(Abstract!cvVars)
<1> SUFFICES ASSUME IInv, [Next]_vars PROVE [Abstract!Next]_(Abstract!cvVars)
    OBVIOUS
<1> USE DEF IInv, TypeOK, Goto, Holding, Abstract!cvVars
<1>1. CASE UNCHANGED vars
    BY <1>1 DEF vars
<1>2. ASSUME NEW t \in Threads, Lock(t) PROVE Abstract!Next
    <2>1. Abstract!Lock(t)
        BY <1>2 DEF Lock, Abstract!Lock, Abstract!Move
    <2> QED BY <2>1 DEF Abstract!Next
<1>3. ASSUME NEW t \in Threads, Unlock(t) PROVE Abstract!Next
    <2>1. Abstract!Unlock(t)
        BY <1>3 DEF Unlock, Abstract!Unlock, Abstract!Move, MutexInv
    <2> QED BY <2>1 DEF Abstract!Next
<1>4. ASSUME NEW t \in Threads,
             EnterWait(t) \/ SignalDone(t) \/ LeaveWait(t) \/ BroadcastStep(t)
      PROVE  UNCHANGED Abstract!cvVars
    BY <1>4 DEF EnterWait, SignalDone, LeaveWait, BroadcastStep, AwaitDone,
                ClearFlag
<1>5. ASSUME NEW t \in Threads, Sleep(t) PROVE Abstract!Next
    <2>1. ~flag
        BY <1>5, BroadcasterIsAlone DEF Sleep
    <2>2. sema = 0
        BY <2>1 DEF QuietInv
    <2>3. Abstract!Wait(t)
        BY <1>5, <2>2 DEF Sleep, Abstract!Wait, Abstract!Move, MutexInv
    <2> QED BY <2>3 DEF Abstract!Next
<1>6. ASSUME NEW t \in Threads, TakeToken(t) PROVE UNCHANGED Abstract!cvVars
    <2>1. flag
        BY <1>6 DEF TakeToken, Available, QuietInv
    <2>2. At("blocked")' = At("blocked") \ {t} /\ t \in At("blocked")
        BY <1>6 DEF TakeToken, At
    <2>3. Cardinality(At("blocked")') = sema'
        BY <1>6, <2>1, <2>2, SetsAreFinite, FS_RemoveElement
           DEF TakeToken, BusyInv
    <2>4. IsFiniteSet(At("blocked")')
        BY <2>2, SetsAreFinite, FS_RemoveElement
    <2>5. sema' = 0 => At("blocked")' = {}
        BY <2>3, <2>4, FS_EmptySet
    <2> QED BY <1>6, <2>5 DEF TakeToken, Available, At
<1>7. ASSUME NEW t \in Threads, Relock(t) PROVE Abstract!Next
    <2>1. Abstract!Return(t)
        BY <1>7 DEF Relock, Abstract!Return, Abstract!Move
    <2> QED BY <2>1 DEF Abstract!Next
<1>8. ASSUME NEW t \in Threads, Broadcast(t) PROVE Abstract!Next
    <2>1. ~flag
        BY <1>8, BroadcasterIsAlone DEF Broadcast, MayBroadcast
    <2>2. sema = 0
        BY <2>1 DEF QuietInv
    <2>3. CASE count > 0
        <3>1. sema' > 0
            BY <1>8, <2>2, <2>3 DEF Broadcast, ReleaseAll
        <3>2. Abstract!Broadcast(t)
            BY <1>8, <2>2, <2>3, <3>1
               DEF Broadcast, MayBroadcast, Abstract!Broadcast, MutexInv
        <3> QED BY <3>2 DEF Abstract!Next
    <2>4. CASE count = 0
        <3>1. Waiters = {}
            BY <2>4, Counting
        <3>2. \A u \in Threads : pc[u] # "blocked"
            BY <3>1 DEF Waiters
        <3>3. Abstract!Broadcast(t)
            BY <1>8, <2>2, <2>4, <3>2
               DEF Broadcast, MayBroadcast, Abstract!Broadcast, MutexInv
        <3> QED BY <3>3 DEF Abstract!Next
    <2> QED BY <1>8, <2>3, <2>4 DEF Broadcast
<1> QED BY <1>1, <1>2, <1>3, <1>4, <1>5, <1>6, <1>7, <1>8 DEF Next, WaitStep

(* The safety part of IsCondVar: a thread that waits sleeps until a        *)
(* broadcast made after it slept, and every sleeper is woken by it.        *)
THEOREM ImplementsCondVar == Spec => Abstract!SafeSpec
BY Inductive, AbstractInit, AbstractStep, PTL DEF Spec, Abstract!SafeSpec

=============================================================================
