--------------------------- MODULE HandleLifecycle ---------------------------
(***************************************************************************)
(* How long a zhandle_t lives: its reference counter, the two threads that *)
(* hold references, and zookeeper_close, which may be called by the thread *)
(* that created the handle, by a callback on the completion thread or by   *)
(* an authentication callback on the IO thread.                            *)
(*                                                                         *)
(* A thread's label names what it does next; a step is what it does up to  *)
(* the next point at which another thread may act.                         *)
(***************************************************************************)
EXTENDS Integers, Sequences, FiniteSets

CONSTANTS
    Plans,      \* who may call zookeeper_close: sets of threads
    Preempted,  \* closers interrupted between close_requested=1 and count
    MaxEvents   \* bound: the completions queued while the handle is open

Threads == {"io", "ct"}
Actors  == Threads \cup {"app"}

ASSUME LifecycleAssumption ==
    /\ Plans \subseteq SUBSET Actors
    /\ Preempted \subseteq Actors
    /\ MaxEvents \in Nat

VARIABLES
    refs,            \* zh->ref_counter
    closeRequested,  \* zh->close_requested
    at,              \* the label of each thread
    stack,           \* labels to return to from a call of zookeeper_close
    plan,            \* who will still call zookeeper_close
    completions,     \* how many entries completions_to_process has
    events,          \* how many were queued so far
    freed            \* free(zh) has run

vars == <<refs, closeRequested, at, stack, plan, completions, events, freed>>

Labels == {"start", "ready", "init", "live", "done", "exit", "last",
           "loop", "process", "asleep", "drain", "callback", "leaving",
           "count", "purge", "finish", "reap io", "reap ct", "join ct",
           "unfinish", "uncount", "destroy"}

-----------------------------------------------------------------------------
(* start_threads: the creator holds a reference until both threads run. *)
Init ==
    /\ refs = 1
    /\ closeRequested = FALSE
    /\ at = [a \in Actors |-> IF a = "app" THEN "init" ELSE "start"]
    /\ stack = [a \in Actors |-> <<>>]
    /\ plan \in Plans
    /\ completions = 0 /\ events = 0
    /\ freed = FALSE

Goto(a, label) == at' = [at EXCEPT ![a] = label]
Return(a) == /\ Goto(a, Head(stack[a]))
             /\ stack' = [stack EXCEPT ![a] = Tail(@)]

inc_ref_counter(i) == refs' = refs + i

(* api_epilog, the decrement; at "last" it goes on. *)
EpilogUncounted(a, next) ==                                   \* a mutation
    /\ Goto(a, next)
    /\ UNCHANGED <<refs, stack>>
api_epilog(a, next) ==
    /\ inc_ref_counter(-1)
    /\ IF refs = 1
       THEN /\ Goto(a, "last")
            /\ stack' = [stack EXCEPT ![a] = <<next>> \o @]
       ELSE Goto(a, next) /\ UNCHANGED stack

(* api_epilog, the test of close_requested by whoever reached 0 *)
LeaveHandle(a) ==                                             \* a mutation
    /\ at[a] = "last"
    /\ Return(a)
    /\ UNCHANGED <<refs, closeRequested, plan, completions, events, freed>>
Last(a) ==
    /\ at[a] = "last"
    /\ IF closeRequested THEN Goto(a, "count") /\ UNCHANGED stack
       ELSE Return(a)
    /\ UNCHANGED <<refs, closeRequested, plan, completions, events, freed>>

-----------------------------------------------------------------------------
(* The threads *)

(* do_io and do_completion start: api_prolog; notify_thread_ready *)
Start(t) ==
    /\ at[t] = "start"
    /\ inc_ref_counter(1)
    /\ Goto(t, "ready")
    /\ UNCHANGED <<closeRequested, stack, plan, completions, events, freed>>

Started == \A t \in Threads : at[t] # "start"

(* notify_thread_ready returns at the barrier *)
Begin(t) ==
    /\ at[t] = "ready" /\ Started
    /\ Goto(t, "loop")
    /\ UNCHANGED <<refs, closeRequested, stack, plan, completions, events,
                   freed>>

(* wait_for_others; api_epilog; zookeeper_init returns *)
InitReturns ==
    /\ at["app"] = "init" /\ Started
    /\ api_epilog("app", "live")
    /\ UNCHANGED <<closeRequested, plan, completions, events, freed>>

(* while(!zh->close_requested), in both threads; the IO thread goes on to  *)
(* zookeeper_process, the completion thread sleeps unless there is work.   *)
Loop(t) ==
    /\ at[t] = "loop"
    /\ \/ closeRequested /\ Goto(t, "leaving") /\ UNCHANGED refs
       \/ /\ ~closeRequested /\ t = "io"
          /\ inc_ref_counter(1) /\ Goto(t, "process")
       \/ /\ ~closeRequested /\ t = "ct"
          /\ Goto(t, IF completions = 0 THEN "asleep" ELSE "drain")
          /\ UNCHANGED refs
    /\ UNCHANGED <<closeRequested, stack, plan, completions, events, freed>>

(* pthread_cond_broadcast, by unlock_completion_list or adaptor_finish *)
Woken(labels) == [labels EXCEPT !["ct"] = IF @ = "asleep" THEN "drain" ELSE @]

(* zookeeper_process finds something to queue *)
IoQueue ==
    /\ at["io"] = "process"
    /\ events < MaxEvents
    /\ events' = events + 1
    /\ completions' = completions + 1
    /\ at' = Woken(at)
    /\ UNCHANGED <<refs, closeRequested, stack, plan, freed>>

(* zookeeper_process returns; is_unrecoverable may end the thread *)
IoProcessed ==
    /\ at["io"] = "process"
    /\ \E next \in {"loop", "leaving"} : api_epilog("io", next)
    /\ UNCHANGED <<closeRequested, plan, completions, events, freed>>

(* process_completions *)
CtDrain ==
    /\ at["ct"] = "drain"
    /\ IF completions = 0
       THEN Goto("ct", "loop") /\ UNCHANGED completions
       ELSE Goto("ct", "callback") /\ completions' = completions - 1
    /\ UNCHANGED <<refs, closeRequested, stack, plan, events, freed>>

CtCallbackReturns ==
    /\ at["ct"] = "callback"
    /\ Goto("ct", "drain")
    /\ UNCHANGED <<refs, closeRequested, stack, plan, completions, events,
                   freed>>

(* the thread function ends: api_epilog *)
Exit(t) ==
    /\ at[t] = "leaving"
    /\ api_epilog(t, "exit")
    /\ UNCHANGED <<closeRequested, plan, completions, events, freed>>

-----------------------------------------------------------------------------
(* zookeeper_close *)

(* Where each thread calls it, and what it returns to: the application     *)
(* once it has the handle, a watcher or completion on the completion       *)
(* thread, auth_completion_func in zookeeper_process.                      *)
Calls    == [app |-> "live", ct |-> "callback", io |-> "process"]
Returns  == [app |-> "done", ct |-> "callback", io |-> "process"]

zookeeper_close(a) ==
    /\ a \in plan
    /\ at[a] = Calls[a]
    /\ closeRequested' = TRUE
    /\ plan' = plan \ {a}
    /\ Goto(a, "count")
    /\ stack' = [stack EXCEPT ![a] = <<Returns[a]>> \o @]
    /\ UNCHANGED <<refs, completions, events, freed>>

(* if (inc_ref_counter(zh,1)>1): somebody else still uses the handle *)
CountLoosely(a) ==                                            \* a mutation
    /\ at[a] = "count"
    /\ Goto(a, IF refs >= 1 THEN "purge" ELSE "destroy")
    /\ UNCHANGED <<refs, closeRequested, stack, plan, completions, events,
                   freed>>
Count(a) ==
    /\ at[a] = "count"
    /\ inc_ref_counter(1)
    /\ Goto(a, IF refs + 1 > 1 THEN "purge" ELSE "destroy")
    /\ UNCHANGED <<closeRequested, stack, plan, completions, events, freed>>

(* free_completions(zh,1,ZCLOSING) may queue callbacks *)
Purge(a) ==
    /\ at[a] = "purge"
    /\ \/ Goto(a, "finish") /\ UNCHANGED completions
       \/ /\ completions' = completions + 1
          /\ at' = Woken([at EXCEPT ![a] = "finish"])
    /\ UNCHANGED <<refs, closeRequested, stack, plan, events, freed>>

(* adaptor_finish: api_prolog, then each thread is joined, or detached if  *)
(* it is the caller.                                                       *)
Finish(a) ==
    /\ at[a] = "finish"
    /\ inc_ref_counter(1)
    /\ Goto(a, "reap io")
    /\ UNCHANGED <<closeRequested, stack, plan, completions, events, freed>>

ReapIo(a) ==
    /\ at[a] = "reap io"
    /\ a = "io" \/ at["io"] = "exit"
    /\ Goto(a, "reap ct")
    /\ UNCHANGED <<refs, closeRequested, stack, plan, completions, events,
                   freed>>

(* the broadcast, unless the completion thread is the caller *)
Unsignalled(a) == Goto(a, "join ct")                          \* a mutation
Signal(a)      == at' = Woken([at EXCEPT ![a] = "join ct"])

ReapCt(a) ==
    /\ at[a] = "reap ct"
    /\ IF a = "ct"
       THEN Goto(a, "unfinish")
       ELSE Signal(a)
    /\ UNCHANGED <<refs, closeRequested, stack, plan, completions, events,
                   freed>>

JoinCt(a) ==
    /\ at[a] = "join ct"
    /\ at["ct"] = "exit"
    /\ Goto(a, "unfinish")
    /\ UNCHANGED <<refs, closeRequested, stack, plan, completions, events,
                   freed>>

Unfinish(a) ==
    /\ at[a] = "unfinish"
    /\ api_epilog(a, "uncount")
    /\ UNCHANGED <<closeRequested, plan, completions, events, freed>>

(* the closer's own api_epilog, then zookeeper_close returns *)
Uncount(a) ==
    /\ at[a] = "uncount"
    /\ inc_ref_counter(-1)
    /\ IF refs = 1 THEN Goto(a, "last") /\ UNCHANGED stack
       ELSE Return(a)
    /\ UNCHANGED <<closeRequested, plan, completions, events, freed>>

(* flush the CLOSE request, destroy, adaptor_destroy, free *)
Destroy(a) ==
    /\ at[a] = "destroy"
    /\ freed' = TRUE
    /\ Return(a)
    /\ UNCHANGED <<refs, closeRequested, plan, completions, events>>

-----------------------------------------------------------------------------
(* What a thread does by itself, as long as the handle is there *)
Step(a) ==
    /\ ~freed
    /\ \/ Last(a) \/ Count(a) \/ Purge(a) \/ Finish(a) \/ ReapIo(a)
       \/ ReapCt(a) \/ JoinCt(a) \/ Unfinish(a) \/ Uncount(a) \/ Destroy(a)
       \/ a \in Threads /\ (Start(a) \/ Begin(a) \/ Loop(a) \/ Exit(a))
       \/ a = "app" /\ InitReturns
       \/ a = "io" /\ IoProcessed
       \/ a = "ct" /\ (CtDrain \/ CtCallbackReturns)

(* What the servers and the program decide *)
Choice(a) ==
    /\ ~freed
    /\ zookeeper_close(a) \/ (a = "io" /\ IoQueue)

(* Nobody comes between the flag and the count of a closer that is not in  *)
(* Preempted.                                                              *)
Scheduled(a) == \A b \in Actors \ {a} : at[b] = "count" => b \in Preempted

(* The handle is gone, or rests: nobody calls zookeeper_close, and the IO  *)
(* thread has given up.                                                    *)
Over == freed \/ at = [app |-> "live", io |-> "exit", ct |-> "asleep"]

Next == \/ \E a \in Actors : Scheduled(a) /\ (Step(a) \/ Choice(a))
        \/ Over /\ UNCHANGED vars

Spec == Init /\ [][Next]_vars

(* Each thread runs.  Nobody is bound to call zookeeper_close. *)
FairSpec == Spec /\ \A a \in Actors : WF_vars(Scheduled(a) /\ Step(a))

-----------------------------------------------------------------------------
(* Properties *)

TypeOK ==
    /\ refs \in Nat
    /\ closeRequested \in BOOLEAN
    /\ at \in [Actors -> Labels]
    /\ stack \in [Actors -> Seq(Labels)]
    /\ plan \subseteq Actors
    /\ completions \in Nat /\ events \in Nat
    /\ freed \in BOOLEAN

(* How many references a thread owns, by what it does apart from closing,  *)
(* which is at the bottom of its stack, and by how far it is with closing: *)
(* one per api_prolog, and one as a closer that is counted.                *)
HomeRefs(label)  ==
    IF label \in {"start", "live", "done", "exit"} THEN 0
    ELSE IF label = "process" THEN 2 ELSE 1
CloseRefs(label) ==
    IF label \in {"purge", "finish", "uncount", "destroy"} THEN 1
    ELSE IF label \in {"reap io", "reap ct", "join ct", "unfinish"} THEN 2
    ELSE 0
Bottom(label, st) == IF st = <<>> THEN label ELSE st[Len(st)]
Load(label, st)   == HomeRefs(Bottom(label, st)) + CloseRefs(label)
Owned(a)          == Load(at[a], stack[a])

(* ref_counter is what its owners took and did not give back, at every     *)
(* moment of starting, closing and ending, while the handle exists.        *)
CountIsExact == ~freed => refs = Owned("app") + Owned("io") + Owned("ct")

(* What a thread does next uses the handle; the application's next step is *)
(* zookeeper_close, if any.                                                *)
UsesHandle(a) == \/ at[a] \notin {"exit", "done", "live"}
                 \/ at[a] = "live" /\ a \in plan

(* No thread uses the handle after free(zh): not the closer on its way out *)
(* of zookeeper_close, not a thread that has yet to end, not the creator   *)
(* on its way out of zookeeper_init, not a second closer.                  *)
NoUseAfterFree == freed => \A a \in Actors : ~UsesHandle(a)

(* Reference counting keeps its promise: the handle is freed once, by the  *)
(* last thread to leave, and nobody enters after that (SharedLifetime).    *)
Lifetime == INSTANCE SharedLifetime WITH
               Users <- Actors,
               users <- {a \in Actors : Owned(a) > 0 /\ at[a] # "destroy"},
               closing <- closeRequested
LifetimeHolds == Lifetime!Spec

(* zookeeper_close returns, whichever thread calls it. *)
CloseReturns == \A a \in Actors : at[a] = "purge" ~> at[a] = Returns[a]

(* Once zookeeper_close was called the handle is freed in the end. *)
HandleIsFreed == closeRequested ~> freed
=============================================================================
