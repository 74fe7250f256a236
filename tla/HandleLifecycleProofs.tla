------------------------ MODULE HandleLifecycleProofs ------------------------
(***************************************************************************)
(* Theorems about HandleLifecycle, for any plans of closing.               *)
(***************************************************************************)
EXTENDS HandleLifecycle, TLAPS

(* The labels of a thread that is not closing, and those of one that is    *)
HomeLabels == {"start", "ready", "init", "live", "done", "exit", "loop",
               "process", "asleep", "drain", "callback", "leaving"}
AwayLabels == {"last", "count", "purge", "finish", "reap io", "reap ct",
               "join ct", "unfinish", "uncount", "destroy"}

(* zookeeper_close is never nested: api_epilog reaches zero only when the  *)
(* thread leaves for good, so a stack holds at most the label of a caller. *)
AtHome(a) == at[a] \in HomeLabels /\ stack[a] = <<>>
Away(a)   == /\ at[a] \in AwayLabels
             /\ \E h \in HomeLabels \ {"start"} : stack[a] = <<h>>

TypesInv ==
    /\ refs \in Int
    /\ at \in [Actors -> Labels]
    /\ stack \in [Actors -> Seq(Labels)]
    /\ plan \subseteq Actors
    /\ closeRequested \in BOOLEAN /\ freed \in BOOLEAN

StackInv == \A a \in Actors : AtHome(a) \/ Away(a)

CountInv == TypesInv /\ StackInv /\ CountIsExact


(* What a label, and then a thread, owns *)
LEMMA HomeRefsValue ==
    ASSUME NEW l \in HomeLabels
    PROVE  /\ HomeRefs(l) \in 0..2
           /\ HomeRefs(l) = 0 <=> l \in {"start", "live", "done", "exit"}
           /\ l \in HomeLabels \ {"start", "live", "done", "exit", "process"}
                => HomeRefs(l) = 1
           /\ l = "process" => HomeRefs(l) = 2
  BY DEF HomeRefs, HomeLabels

LEMMA CloseRefsValue ==
    ASSUME NEW l \in AwayLabels
    PROVE  /\ CloseRefs(l) \in 0..2
           /\ l \in {"last", "count"} => CloseRefs(l) = 0
           /\ l \in {"purge", "finish", "uncount", "destroy"}
                => CloseRefs(l) = 1
           /\ l \in {"reap io", "reap ct", "join ct", "unfinish"}
                => CloseRefs(l) = 2
  <1>1. CloseRefs(l) \in 0..2
    BY DEF CloseRefs
  <1>2. l \in {"last", "count"} => CloseRefs(l) = 0
    BY DEF CloseRefs
  <1>3. l \in {"purge", "finish", "uncount", "destroy"} => CloseRefs(l) = 1
    BY DEF CloseRefs
  <1>4. l \in {"reap io", "reap ct", "join ct", "unfinish"}
          => CloseRefs(l) = 2
    BY DEF CloseRefs
  <1> QED
    BY <1>1, <1>2, <1>3, <1>4

LEMMA ZeroClose ==
    ASSUME NEW l \in AwayLabels, CloseRefs(l) = 0
    PROVE  l \in {"last", "count"}
  <1>1. 1 # 0 /\ 2 # 0
    OBVIOUS
  <1> QED
    BY <1>1, Zenon DEF CloseRefs, AwayLabels

LEMMA RefsAreNumbers ==
    /\ \A l \in HomeLabels : HomeRefs(l) \in Nat
    /\ \A l \in AwayLabels : CloseRefs(l) \in Nat
  BY DEF HomeRefs, CloseRefs

LEMMA AtHomeLoad ==
    ASSUME NEW l \in HomeLabels
    PROVE  Load(l, <<>>) = HomeRefs(l)
  <1>1. CloseRefs(l) = 0
    BY DEF CloseRefs, HomeLabels
  <1> QED
    BY <1>1, HomeRefsValue DEF Load, Bottom

LEMMA AwayLoad ==
    ASSUME NEW l \in AwayLabels, NEW h \in HomeLabels
    PROVE  Load(l, <<h>>) = HomeRefs(h) + CloseRefs(l)
  BY DEF Load, Bottom

LEMMA OwnedValue ==
    ASSUME StackInv, NEW a \in Actors
    PROVE  /\ Owned(a) \in 0..4
           /\ at[a] \in HomeLabels => Owned(a) = HomeRefs(at[a])
           /\ at[a] \in AwayLabels =>
                 \E h \in HomeLabels \ {"start"} :
                    /\ stack[a] = <<h>>
                    /\ Owned(a) = HomeRefs(h) + CloseRefs(at[a])
  <1>0. HomeLabels \cap AwayLabels = {}
    BY DEF HomeLabels, AwayLabels
  <1>1. CASE AtHome(a)
    BY <1>0, <1>1, AtHomeLoad, HomeRefsValue DEF AtHome, Owned
  <1>2. CASE Away(a)
    <2>1. PICK h \in HomeLabels \ {"start"} : stack[a] = <<h>>
      BY <1>2 DEF Away
    <2>2. Owned(a) = HomeRefs(h) + CloseRefs(at[a])
      BY <1>2, <2>1, AwayLoad DEF Away, Owned
    <2>3. HomeRefs(h) \in 0..2 /\ CloseRefs(at[a]) \in 0..2
      BY <1>2, HomeRefsValue, CloseRefsValue DEF Away
    <2> QED
      BY <1>0, <1>2, <2>1, <2>2, <2>3 DEF Away
  <1> QED
    BY <1>1, <1>2 DEF StackInv

-----------------------------------------------------------------------------
(* ref_counter is exact *)

(* Thread a gets label l, stack st and d references; the completion thread *)
(* may be woken on the way.                                                *)
Moves(a, l, st, d) ==
    /\ at' \in [Actors -> Labels]
    /\ at'[a] = l
    /\ \A b \in Actors \ {a} :
          at'[b] = at[b] \/ (at[b] = "asleep" /\ at'[b] = "drain")
    /\ stack' = [stack EXCEPT ![a] = st]
    /\ refs' = refs + d

(* A move keeps the counter exact if the new label owns d references more. *)
LEMMA MoveKeepsCount ==
    ASSUME CountInv, ~freed, NEW a \in Actors,
           NEW l, NEW st, NEW d \in Int, Moves(a, l, st, d),
           \/ l \in HomeLabels /\ st = <<>>
           \/ l \in AwayLabels /\ \E h \in HomeLabels \ {"start"} : st = <<h>>,
           Load(l, st) = Owned(a) + d,
           plan' \subseteq Actors, closeRequested' \in BOOLEAN,
           freed' \in BOOLEAN
    PROVE  CountInv'
  <1>1. stack' \in [Actors -> Seq(Labels)] /\ stack'[a] = st
    <2>1. HomeLabels \subseteq Labels
      BY DEF HomeLabels, Labels
    <2>2. CASE st = <<>>
      BY <2>2 DEF Moves, CountInv, TypesInv
    <2>3. ASSUME NEW h \in HomeLabels, st = <<h>>
          PROVE  stack' \in [Actors -> Seq(Labels)] /\ stack'[a] = st
      <3>1. <<h>> \in Seq(Labels)
        BY <2>1
      <3> QED
        BY <2>3, <3>1 DEF Moves, CountInv, TypesInv
    <2> QED
      BY <2>2, <2>3
  <1>2. \A b \in Actors \ {a} : stack'[b] = stack[b]
    BY DEF Moves, CountInv, TypesInv
  <1>3. TypesInv'
    BY <1>1 DEF Moves, CountInv, TypesInv
  <1>4. Owned(a)' = Owned(a) + d
    BY <1>1 DEF Owned, Moves
  <1>5. ASSUME NEW b \in Actors \ {a}
        PROVE  Owned(b)' = Owned(b) /\ (AtHome(b) \/ Away(b))'
    <2>1. CASE at'[b] = at[b]
      BY <1>2, <2>1 DEF Owned, CountInv, StackInv, AtHome, Away
    <2>2. CASE at[b] = "asleep" /\ at'[b] = "drain"
      <3>1. stack[b] = <<>> /\ stack'[b] = <<>>
        BY <1>2, <2>2 DEF CountInv, StackInv, AtHome, Away, AwayLabels
      <3>2. "asleep" \in HomeLabels /\ "drain" \in HomeLabels
        BY DEF HomeLabels
      <3>3. Load("asleep", <<>>) = Load("drain", <<>>)
        BY <3>2, AtHomeLoad, HomeRefsValue
      <3> QED
        BY <2>2, <3>1, <3>2, <3>3 DEF Owned, AtHome
    <2> QED
      BY <2>1, <2>2 DEF Moves
  <1>6. StackInv'
    <2>1. (AtHome(a) \/ Away(a))'
      BY <1>1 DEF Moves, AtHome, Away
    <2> QED
      BY <1>5, <2>1 DEF StackInv
  <1>7. CountIsExact'
    <2>1. \A b \in Actors : Owned(b) \in Int
      BY OwnedValue DEF CountInv
    <2>2. refs = Owned("app") + Owned("io") + Owned("ct")
      BY DEF CountInv, CountIsExact
    <2>3. refs' = refs + d
      BY DEF Moves
    <2>4. refs' = Owned("app")' + Owned("io")' + Owned("ct")'
      BY <1>4, <1>5, <2>1, <2>2, <2>3 DEF Actors, Threads
    <2> QED
      BY <2>4 DEF CountIsExact
  <1> QED
    BY <1>3, <1>6, <1>7 DEF CountInv

(* While the handle is there nobody owns more than the counter says. *)
LEMMA OwnedAtMostRefs ==
    ASSUME CountInv, ~freed
    PROVE  /\ \A a \in Actors : Owned(a) <= refs
           /\ \A a, b \in Actors : a # b => Owned(a) + Owned(b) <= refs
  <1>1. refs = Owned("app") + Owned("io") + Owned("ct")
    BY DEF CountInv, CountIsExact
  <1>2. \A a \in Actors : Owned(a) \in Nat
    BY OwnedValue DEF CountInv
  <1> QED
    BY <1>1, <1>2 DEF Actors, Threads


(* The four kinds of moves *)
Rest == /\ plan' \subseteq plan
        /\ closeRequested' \in BOOLEAN /\ freed' \in BOOLEAN

LEMMA RestTypes ==
    ASSUME CountInv, Rest
    PROVE  plan' \subseteq Actors /\ closeRequested' \in BOOLEAN
             /\ freed' \in BOOLEAN
  BY DEF Rest, CountInv, TypesInv

LEMMA HomeMove ==
    ASSUME CountInv, ~freed, Rest, NEW a \in Actors, NEW l \in HomeLabels,
           at[a] \in HomeLabels,
           Moves(a, l, <<>>, HomeRefs(l) - HomeRefs(at[a]))
    PROVE  CountInv'
  <1>1. Owned(a) = HomeRefs(at[a]) /\ HomeRefs(at[a]) \in Int
    BY OwnedValue, HomeRefsValue DEF CountInv
  <1>2. Load(l, <<>>) = HomeRefs(l) /\ HomeRefs(l) \in Int
    BY AtHomeLoad, HomeRefsValue
  <1>3. Load(l, <<>>) = Owned(a) + (HomeRefs(l) - HomeRefs(at[a]))
    BY <1>1, <1>2
  <1> QED
    BY <1>1, <1>2, <1>3, MoveKeepsCount DEF Rest, CountInv, TypesInv

LEMMA AwayMove ==
    ASSUME CountInv, ~freed, Rest, NEW a \in Actors, NEW l \in AwayLabels,
           at[a] \in AwayLabels,
           Moves(a, l, stack[a], CloseRefs(l) - CloseRefs(at[a]))
    PROVE  CountInv'
  <1>1. PICK h \in HomeLabels \ {"start"} :
           stack[a] = <<h>> /\ Owned(a) = HomeRefs(h) + CloseRefs(at[a])
    BY OwnedValue DEF CountInv
  <1>2. Load(l, <<h>>) = HomeRefs(h) + CloseRefs(l)
    BY AwayLoad
  <1>3. HomeRefs(h) \in Int /\ CloseRefs(l) \in Int /\ CloseRefs(at[a]) \in Int
    BY RefsAreNumbers
  <1>4. Load(l, <<h>>) = Owned(a) + (CloseRefs(l) - CloseRefs(at[a]))
    BY <1>1, <1>2, <1>3
  <1>5. \E k \in HomeLabels \ {"start"} : stack[a] = <<k>>
    BY <1>1
  <1>6. CloseRefs(l) - CloseRefs(at[a]) \in Int
    BY <1>3
  <1>7. Load(l, stack[a]) = Owned(a) + (CloseRefs(l) - CloseRefs(at[a]))
    BY <1>1, <1>4
  <1> QED
    BY <1>5, <1>6, <1>7, RestTypes, MoveKeepsCount

LEMMA CallMove ==
    ASSUME CountInv, ~freed, Rest, NEW a \in Actors, NEW l \in AwayLabels,
           NEW h \in HomeLabels \ {"start"}, at[a] \in HomeLabels,
           Moves(a, l, <<h>>,
                 HomeRefs(h) + CloseRefs(l) - HomeRefs(at[a]))
    PROVE  CountInv'
  <1>1. Owned(a) = HomeRefs(at[a]) /\ HomeRefs(at[a]) \in Int
    BY OwnedValue, HomeRefsValue DEF CountInv
  <1>2. Load(l, <<h>>) = HomeRefs(h) + CloseRefs(l)
    BY AwayLoad
  <1>3. HomeRefs(h) \in Int /\ CloseRefs(l) \in Int
    BY RefsAreNumbers
  <1>4. Load(l, <<h>>)
          = Owned(a) + (HomeRefs(h) + CloseRefs(l) - HomeRefs(at[a]))
    BY <1>1, <1>2, <1>3
  <1>5. \E k \in HomeLabels \ {"start"} : <<h>> = <<k>>
    OBVIOUS
  <1>6. HomeRefs(h) + CloseRefs(l) - HomeRefs(at[a]) \in Int
    BY <1>1, <1>3
  <1> QED
    BY <1>4, <1>5, <1>6, RestTypes, MoveKeepsCount

LEMMA ReturnMove ==
    ASSUME CountInv, ~freed, Rest, NEW a \in Actors, at[a] \in AwayLabels,
           Moves(a, Head(stack[a]), Tail(stack[a]), -CloseRefs(at[a]))
    PROVE  CountInv'
  <1>1. PICK h \in HomeLabels \ {"start"} :
           stack[a] = <<h>> /\ Owned(a) = HomeRefs(h) + CloseRefs(at[a])
    BY OwnedValue DEF CountInv
  <1>2. Head(stack[a]) = h /\ Tail(stack[a]) = <<>>
    BY <1>1
  <1>3. Load(h, <<>>) = HomeRefs(h)
    BY AtHomeLoad
  <1>4. HomeRefs(h) \in Int /\ CloseRefs(at[a]) \in Int
    BY RefsAreNumbers
  <1>5. Load(h, <<>>) = Owned(a) + (-CloseRefs(at[a]))
    BY <1>1, <1>3, <1>4
  <1>6. Moves(a, h, <<>>, -CloseRefs(at[a]))
    BY <1>2
  <1>7. -CloseRefs(at[a]) \in Int
    BY <1>4
  <1> QED
    BY <1>5, <1>6, <1>7, RestTypes, MoveKeepsCount


LEMMA GotoMoves ==
    ASSUME CountInv, NEW a \in Actors, NEW l \in Labels, NEW d \in Int,
           Goto(a, l), UNCHANGED stack, refs' = refs + d
    PROVE  Moves(a, l, stack[a], d)
  <1>1. stack' = [stack EXCEPT ![a] = stack[a]]
    BY DEF CountInv, TypesInv
  <1> QED
    BY <1>1 DEF Moves, Goto, CountInv, TypesInv

LEMMA WokenMoves ==
    ASSUME CountInv, NEW a \in Actors, NEW l \in Labels, l # "asleep",
           at' = Woken([at EXCEPT ![a] = l]), UNCHANGED stack,
           UNCHANGED refs
    PROVE  Moves(a, l, stack[a], 0)
  <1>1. stack' = [stack EXCEPT ![a] = stack[a]]
    BY DEF CountInv, TypesInv
  <1>2. refs' = refs + 0
    BY DEF CountInv, TypesInv
  <1>3. [at EXCEPT ![a] = l] \in [Actors -> Labels]
    BY DEF CountInv, TypesInv
  <1>4. at' \in [Actors -> Labels] /\ at'[a] = l
    BY <1>3 DEF Woken, CountInv, TypesInv, Labels
  <1>5. \A b \in Actors \ {a} :
           at'[b] = at[b] \/ (at[b] = "asleep" /\ at'[b] = "drain")
    BY <1>3 DEF Woken, CountInv, TypesInv
  <1> QED
    BY <1>1, <1>2, <1>4, <1>5 DEF Moves

LEMMA HomeStack ==
    ASSUME CountInv, NEW a \in Actors, at[a] \in HomeLabels
    PROVE  stack[a] = <<>>
  BY DEF CountInv, StackInv, AtHome, Away, HomeLabels, AwayLabels

(* From label to label, taking or giving back what the labels say *)
LEMMA HomeGoto ==
    ASSUME CountInv, ~freed, Rest, NEW a \in Actors, NEW l \in HomeLabels,
           at[a] \in HomeLabels, Goto(a, l), UNCHANGED stack,
           refs' = refs + (HomeRefs(l) - HomeRefs(at[a]))
    PROVE  CountInv'
  <1>1. HomeRefs(l) - HomeRefs(at[a]) \in Int
    BY RefsAreNumbers
  <1>2. l \in Labels
    BY DEF HomeLabels, Labels
  <1>3. Moves(a, l, <<>>, HomeRefs(l) - HomeRefs(at[a]))
    BY <1>1, <1>2, GotoMoves, HomeStack
  <1> QED
    BY <1>3, HomeMove

LEMMA AwayGoto ==
    ASSUME CountInv, ~freed, Rest, NEW a \in Actors, NEW l \in AwayLabels,
           at[a] \in AwayLabels, Goto(a, l), UNCHANGED stack,
           refs' = refs + (CloseRefs(l) - CloseRefs(at[a]))
    PROVE  CountInv'
  <1>1. CloseRefs(l) - CloseRefs(at[a]) \in Int
    BY RefsAreNumbers
  <1>2. l \in Labels
    BY DEF AwayLabels, Labels
  <1>3. Moves(a, l, stack[a], CloseRefs(l) - CloseRefs(at[a]))
    BY <1>1, <1>2, GotoMoves
  <1> QED
    BY <1>3, AwayMove

LEMMA AwayStay ==
    ASSUME CountInv, ~freed, Rest, NEW a \in Actors, NEW l \in AwayLabels,
           at[a] \in AwayLabels, Goto(a, l), UNCHANGED <<refs, stack>>,
           CloseRefs(l) = CloseRefs(at[a])
    PROVE  CountInv'
  <1>1. l \in Labels
    BY DEF AwayLabels, Labels
  <1>2. refs' = refs + 0
    BY DEF CountInv, TypesInv
  <1>3. Moves(a, l, stack[a], 0)
    BY <1>1, <1>2, GotoMoves
  <1>4. CloseRefs(l) - CloseRefs(at[a]) = 0
    BY RefsAreNumbers
  <1> QED
    BY <1>3, <1>4, AwayMove

LEMMA CallGoto ==
    ASSUME CountInv, ~freed, Rest, NEW a \in Actors, NEW l \in AwayLabels,
           NEW h \in HomeLabels \ {"start"}, at[a] \in HomeLabels,
           Goto(a, l), stack' = [stack EXCEPT ![a] = <<h>> \o @],
           refs' = refs + (HomeRefs(h) + CloseRefs(l) - HomeRefs(at[a]))
    PROVE  CountInv'
  <1>1. l \in Labels
    BY DEF AwayLabels, Labels
  <1>2. <<h>> \o stack[a] = <<h>>
    <2>1. stack[a] = <<>>
      BY HomeStack
    <2>2. <<h>> \o <<>> = <<h>>
      OBVIOUS
    <2> QED
      BY <2>1, <2>2
  <1>3. stack' = [stack EXCEPT ![a] = <<h>>]
    BY <1>2
  <1>4. Moves(a, l, <<h>>, HomeRefs(h) + CloseRefs(l) - HomeRefs(at[a]))
    BY <1>1, <1>3 DEF Moves, Goto, CountInv, TypesInv
  <1> QED
    BY <1>4, CallMove

LEMMA ReturnGoto ==
    ASSUME CountInv, ~freed, Rest, NEW a \in Actors, at[a] \in AwayLabels,
           Return(a), refs' = refs + (-CloseRefs(at[a]))
    PROVE  CountInv'
  <1>1. PICK h \in HomeLabels \ {"start"} : stack[a] = <<h>>
    BY OwnedValue DEF CountInv
  <1>2. Head(stack[a]) = h /\ h \in Labels
    <2>1. HomeLabels \subseteq Labels
      BY DEF HomeLabels, Labels
    <2> QED
      BY <1>1, <2>1
  <1>3. Moves(a, Head(stack[a]), Tail(stack[a]), -CloseRefs(at[a]))
    BY <1>2 DEF Moves, Return, Goto, CountInv, TypesInv
  <1> QED
    BY <1>3, ReturnMove


LEMMA CountInit ==
    ASSUME Init
    PROVE  CountInv
  <1>1. plan \subseteq Actors
    BY LifecycleAssumption DEF Init
  <1>2. stack \in [Actors -> Seq(Labels)]
    <2>1. <<>> \in Seq(Labels)
      OBVIOUS
    <2> QED
      BY <2>1 DEF Init
  <1>3. TypesInv
    <2>1. at \in [Actors -> Labels]
      BY DEF Init, Labels
    <2> QED
      <3>1. refs \in Int
        BY DEF Init
      <3>2. closeRequested \in BOOLEAN /\ freed \in BOOLEAN
        BY DEF Init
      <3> QED
        BY <1>1, <1>2, <2>1, <3>1, <3>2 DEF TypesInv
  <1>4. StackInv
    BY DEF Init, StackInv, AtHome, HomeLabels
  <1>5. \A a \in Actors : Owned(a) = HomeRefs(at[a])
    BY <1>4, OwnedValue DEF Init, HomeLabels
  <1>6. at["app"] = "init" /\ at["io"] = "start" /\ at["ct"] = "start"
    BY DEF Init, Actors, Threads
  <1>7. Owned("app") = 1 /\ Owned("io") = 0 /\ Owned("ct") = 0
    BY <1>5, <1>6 DEF HomeRefs, Actors, Threads
  <1>8. CountIsExact
    BY <1>7 DEF CountIsExact, Init
  <1> QED
    BY <1>3, <1>4, <1>8 DEF CountInv

(* The threads *)
LEMMA CountThreads ==
    ASSUME CountInv, ~freed, NEW t \in Threads,
           Start(t) \/ Begin(t) \/ Loop(t) \/ Exit(t)
    PROVE  CountInv'
  <1>0. t \in Actors /\ refs \in Int
    BY DEF Actors, CountInv, TypesInv
  <1>1. CASE Start(t)
    <2>1. refs' = refs + (HomeRefs("ready") - HomeRefs("start"))
      BY <1>1 DEF Start, inc_ref_counter, HomeRefs
    <2> QED
      BY <1>0, <1>1, <2>1, HomeGoto
         DEF Start, Rest, HomeLabels, CountInv, TypesInv
  <1>2. CASE Begin(t)
    <2>1. refs' = refs + (HomeRefs("loop") - HomeRefs("ready"))
      BY <1>0, <1>2 DEF Begin, HomeRefs
    <2> QED
      BY <1>0, <1>2, <2>1, HomeGoto
         DEF Begin, Rest, HomeLabels, CountInv, TypesInv
  <1>3. CASE Loop(t)
    <2>0. Rest
      BY <1>3 DEF Loop, Rest, CountInv, TypesInv
    <2>1. CASE Goto(t, "leaving") /\ UNCHANGED refs
      <3>1. refs' = refs + (HomeRefs("leaving") - HomeRefs("loop"))
        BY <1>0, <2>1 DEF HomeRefs
      <3> QED
        BY <1>0, <1>3, <2>0, <2>1, <3>1, HomeGoto DEF Loop, HomeLabels
    <2>2. CASE inc_ref_counter(1) /\ Goto(t, "process")
      <3>1. refs' = refs + (HomeRefs("process") - HomeRefs("loop"))
        BY <1>0, <2>2 DEF HomeRefs, inc_ref_counter
      <3> QED
        BY <1>0, <1>3, <2>0, <2>2, <3>1, HomeGoto DEF Loop, HomeLabels
    <2>3. ASSUME NEW l \in {"asleep", "drain"}, Goto(t, l), UNCHANGED refs
          PROVE  CountInv'
      <3>1. refs' = refs + (HomeRefs(l) - HomeRefs("loop"))
        BY <1>0, <2>3 DEF HomeRefs
      <3> QED
        BY <1>0, <1>3, <2>0, <2>3, <3>1, HomeGoto DEF Loop, HomeLabels
    <2> QED
      BY <1>3, <2>1, <2>2, <2>3 DEF Loop
  <1>4. CASE Exit(t)
    <2>0. Rest
      BY <1>4 DEF Exit, Rest, CountInv, TypesInv
    <2>1. CASE refs = 1
      <3>1. refs' = refs + (HomeRefs("exit") + CloseRefs("last")
                              - HomeRefs("leaving"))
        BY <1>0, <1>4
           DEF Exit, api_epilog, inc_ref_counter, HomeRefs, CloseRefs
      <3> QED
        BY <1>0, <1>4, <2>0, <2>1, <3>1, CallGoto
           DEF Exit, api_epilog, HomeLabels, AwayLabels
    <2>2. CASE refs # 1
      <3>1. refs' = refs + (HomeRefs("exit") - HomeRefs("leaving"))
        BY <1>0, <1>4 DEF Exit, api_epilog, inc_ref_counter, HomeRefs
      <3> QED
        BY <1>0, <1>4, <2>0, <2>2, <3>1, HomeGoto
           DEF Exit, api_epilog, HomeLabels
    <2> QED
      BY <2>1, <2>2
  <1> QED
    BY <1>1, <1>2, <1>3, <1>4

(* zookeeper_init, zookeeper_process and process_completions *)
LEMMA CountWork ==
    ASSUME CountInv, ~freed,
           \/ InitReturns \/ IoProcessed \/ IoQueue
           \/ CtDrain \/ CtCallbackReturns
    PROVE  CountInv'
  <1>0. {"app", "io", "ct"} = Actors /\ refs \in Int
    BY DEF Actors, Threads, CountInv, TypesInv
  <1>1. CASE InitReturns
    <2>0. Rest
      BY <1>1 DEF InitReturns, Rest, CountInv, TypesInv
    <2>1. CASE refs = 1
      <3>1. refs' = refs + (HomeRefs("live") + CloseRefs("last")
                              - HomeRefs("init"))
        BY <1>0, <1>1
           DEF InitReturns, api_epilog, inc_ref_counter, HomeRefs, CloseRefs
      <3> QED
        BY <1>0, <1>1, <2>0, <2>1, <3>1, CallGoto
           DEF InitReturns, api_epilog, HomeLabels, AwayLabels
    <2>2. CASE refs # 1
      <3>1. refs' = refs + (HomeRefs("live") - HomeRefs("init"))
        BY <1>0, <1>1 DEF InitReturns, api_epilog, inc_ref_counter, HomeRefs
      <3> QED
        BY <1>0, <1>1, <2>0, <2>2, <3>1, HomeGoto
           DEF InitReturns, api_epilog, HomeLabels
    <2> QED
      BY <2>1, <2>2
  <1>2. CASE IoProcessed
    <2>0. Rest
      BY <1>2 DEF IoProcessed, Rest, CountInv, TypesInv
    <2>1. at["io"] = "process" /\ HomeRefs("process") = 2
      BY <1>2 DEF IoProcessed, HomeRefs
    <2>2. refs # 1
      <3>1. Owned("io") = 2
        BY <1>0, <2>1, OwnedValue DEF CountInv, HomeLabels
      <3>2. Owned("io") <= refs
        BY <1>0, OwnedAtMostRefs
      <3> QED
        BY <1>0, <3>1, <3>2
    <2>3. PICK next \in {"loop", "leaving"} : api_epilog("io", next)
      BY <1>2 DEF IoProcessed
    <2>4. Goto("io", next) /\ UNCHANGED stack /\ refs' = refs + (-1)
      BY <2>2, <2>3 DEF api_epilog, inc_ref_counter
    <2>5. HomeRefs(next) - HomeRefs("process") = -1
      BY DEF HomeRefs
    <2>6. next \in HomeLabels /\ "process" \in HomeLabels
      BY DEF HomeLabels
    <2> QED
      BY <1>0, <2>0, <2>1, <2>4, <2>5, <2>6, HomeGoto
  <1>3. CASE IoQueue
    <2>1. at = [at EXCEPT !["io"] = "process"]
      BY <1>3 DEF IoQueue, CountInv, TypesInv
    <2>2. at' = Woken([at EXCEPT !["io"] = "process"])
      BY <1>3, <2>1 DEF IoQueue
    <2>3. Moves("io", "process", stack["io"], 0)
      BY <1>0, <1>3, <2>2, WokenMoves DEF IoQueue, Labels
    <2>4. stack["io"] = <<>> /\ "process" \in HomeLabels
      BY <1>0, <1>3, HomeStack DEF IoQueue, HomeLabels
    <2>5. HomeRefs("process") - HomeRefs("process") = 0
      BY DEF HomeRefs
    <2>6. Rest
      BY <1>3 DEF IoQueue, Rest, CountInv, TypesInv
    <2> QED
      BY <1>0, <1>3, <2>3, <2>4, <2>5, <2>6, HomeMove DEF IoQueue
  <1>4. CASE CtDrain
    <2>0. Rest
      BY <1>4 DEF CtDrain, Rest, CountInv, TypesInv
    <2>1. PICK l \in {"loop", "callback"} : Goto("ct", l)
      BY <1>4 DEF CtDrain
    <2>2. refs' = refs + (HomeRefs(l) - HomeRefs("drain"))
      BY <1>0, <1>4 DEF CtDrain, HomeRefs
    <2> QED
      BY <1>0, <1>4, <2>0, <2>1, <2>2, HomeGoto DEF CtDrain, HomeLabels
  <1>5. CASE CtCallbackReturns
    <2>0. Rest
      BY <1>5 DEF CtCallbackReturns, Rest, CountInv, TypesInv
    <2>1. refs' = refs + (HomeRefs("drain") - HomeRefs("callback"))
      BY <1>0, <1>5 DEF CtCallbackReturns, HomeRefs
    <2> QED
      BY <1>0, <1>5, <2>0, <2>1, HomeGoto DEF CtCallbackReturns, HomeLabels
  <1> QED
    BY <1>1, <1>2, <1>3, <1>4, <1>5


(* zookeeper_close *)
LEMMA CountClosing ==
    ASSUME CountInv, ~freed, NEW a \in Actors,
           \/ zookeeper_close(a) \/ Last(a) \/ Count(a) \/ Purge(a)
           \/ Finish(a) \/ ReapIo(a) \/ ReapCt(a) \/ JoinCt(a)
           \/ Unfinish(a) \/ Uncount(a) \/ Destroy(a)
    PROVE  CountInv'
  <1>0. refs \in Int
    BY DEF CountInv, TypesInv
  <1>1. CASE zookeeper_close(a)
    <2>1. Rest
      BY <1>1 DEF zookeeper_close, Rest, CountInv, TypesInv
    <2>2. /\ Calls[a] \in HomeLabels /\ Returns[a] \in HomeLabels \ {"start"}
          /\ HomeRefs(Calls[a]) = HomeRefs(Returns[a])
      BY DEF Calls, Returns, HomeLabels, HomeRefs, Actors, Threads
    <2>3. refs' = refs + (HomeRefs(Returns[a]) + CloseRefs("count")
                            - HomeRefs(Calls[a]))
      <3>1. CloseRefs("count") = 0 /\ HomeRefs(Returns[a]) \in Int
        BY <2>2, RefsAreNumbers DEF CloseRefs
      <3> QED
        BY <1>0, <1>1, <2>2, <3>1 DEF zookeeper_close
    <2>4. "count" \in AwayLabels
      BY DEF AwayLabels
    <2> QED
      BY <1>1, <2>1, <2>2, <2>3, <2>4, CallGoto DEF zookeeper_close
  <1>2. CASE Last(a)
    <2>1. Rest /\ at[a] = "last"
      BY <1>2 DEF Last, Rest, CountInv, TypesInv
    <2>2. CASE closeRequested
      <3>1. refs' = refs + (CloseRefs("count") - CloseRefs("last"))
        BY <1>0, <1>2 DEF Last, CloseRefs
      <3> QED
        BY <1>2, <2>1, <2>2, <3>1, AwayGoto DEF Last, AwayLabels
    <2>3. CASE ~closeRequested
      <3>1. refs' = refs + (-CloseRefs("last"))
        BY <1>0, <1>2 DEF Last, CloseRefs
      <3> QED
        BY <1>2, <2>1, <2>3, <3>1, ReturnGoto DEF Last, AwayLabels
    <2> QED
      BY <2>2, <2>3
  <1>3. CASE Count(a)
    <2>1. Rest /\ at[a] = "count"
      BY <1>3 DEF Count, Rest, CountInv, TypesInv
    <2>2. PICK l \in {"purge", "destroy"} : Goto(a, l)
      BY <1>3 DEF Count
    <2>3. refs' = refs + (CloseRefs(l) - CloseRefs("count"))
      <3>1. CloseRefs(l) - CloseRefs("count") = 1
        BY DEF CloseRefs
      <3>2. refs' = refs + 1
        BY <1>3 DEF Count, inc_ref_counter
      <3> QED
        BY <1>0, <3>1, <3>2
    <2> QED
      BY <1>3, <2>1, <2>2, <2>3, AwayGoto DEF Count, AwayLabels
  <1>4. CASE Purge(a)
    <2>1. Rest /\ at[a] = "purge"
      BY <1>4 DEF Purge, Rest, CountInv, TypesInv
    <2>2. CloseRefs("finish") - CloseRefs("purge") = 0
      BY DEF CloseRefs
    <2>3. "finish" \in AwayLabels /\ "purge" \in AwayLabels
      BY DEF AwayLabels
    <2>4. Moves(a, "finish", stack[a], 0)
      <3>1. CASE Goto(a, "finish")
        <4>1. refs' = refs + 0
          BY <1>0, <1>4 DEF Purge
        <4>2. UNCHANGED stack
          BY <1>4 DEF Purge
        <4>3. "finish" \in Labels
          BY DEF Labels
        <4> QED
          BY <3>1, <4>1, <4>2, <4>3, GotoMoves
      <3>2. CASE at' = Woken([at EXCEPT ![a] = "finish"])
        BY <1>4, <3>2, WokenMoves DEF Purge, Labels
      <3> QED
        BY <1>4, <3>1, <3>2 DEF Purge
    <2> QED
      BY <2>1, <2>2, <2>3, <2>4, AwayMove
  <1>5. CASE Finish(a)
    <2>1. Rest /\ at[a] = "finish"
      BY <1>5 DEF Finish, Rest, CountInv, TypesInv
    <2>2. refs' = refs + (CloseRefs("reap io") - CloseRefs("finish"))
      <3>1. CloseRefs("reap io") - CloseRefs("finish") = 1
        BY DEF CloseRefs
      <3>2. refs' = refs + 1
        BY <1>5 DEF Finish, inc_ref_counter
      <3> QED
        BY <1>0, <3>1, <3>2
    <2> QED
      BY <1>5, <2>1, <2>2, AwayGoto DEF Finish, AwayLabels
  <1>6. CASE ReapIo(a)
    <2>1. Rest /\ at[a] = "reap io"
      BY <1>6 DEF ReapIo, Rest, CountInv, TypesInv
    <2>2. CloseRefs("reap ct") = CloseRefs("reap io")
      BY DEF CloseRefs
    <2> QED
      BY <1>6, <2>1, <2>2, AwayStay DEF ReapIo, AwayLabels
  <1>7. CASE ReapCt(a)
    <2>1. Rest /\ at[a] = "reap ct"
      BY <1>7 DEF ReapCt, Rest, CountInv, TypesInv
    <2>2. CASE a = "ct"
      <3>1. CloseRefs("unfinish") = CloseRefs("reap ct")
        BY DEF CloseRefs
      <3> QED
        BY <1>7, <2>1, <2>2, <3>1, AwayStay DEF ReapCt, AwayLabels
    <2>3. CASE a # "ct"
      <3>1. Moves(a, "join ct", stack[a], 0)
        BY <1>7, <2>3, WokenMoves DEF ReapCt, Signal, Labels
      <3>2. CloseRefs("join ct") - CloseRefs("reap ct") = 0
        BY DEF CloseRefs
      <3>3. "join ct" \in AwayLabels /\ "reap ct" \in AwayLabels
        BY DEF AwayLabels
      <3> QED
        BY <2>1, <3>1, <3>2, <3>3, AwayMove
    <2> QED
      BY <2>2, <2>3
  <1>8. CASE JoinCt(a)
    <2>1. Rest /\ at[a] = "join ct"
      BY <1>8 DEF JoinCt, Rest, CountInv, TypesInv
    <2>2. CloseRefs("unfinish") = CloseRefs("join ct")
      BY DEF CloseRefs
    <2> QED
      BY <1>8, <2>1, <2>2, AwayStay DEF JoinCt, AwayLabels
  <1>9. CASE Unfinish(a)
    <2>1. Rest /\ at[a] = "unfinish"
      BY <1>9 DEF Unfinish, Rest, CountInv, TypesInv
    <2>2. refs # 1
      <3>1. PICK h \in HomeLabels \ {"start"} :
               Owned(a) = HomeRefs(h) + CloseRefs("unfinish")
        BY <2>1, OwnedValue DEF CountInv, AwayLabels
      <3>2. CloseRefs("unfinish") = 2 /\ HomeRefs(h) \in Nat
        BY RefsAreNumbers DEF CloseRefs
      <3>3. Owned(a) <= refs
        BY OwnedAtMostRefs
      <3> QED
        BY <1>0, <3>1, <3>2, <3>3
    <2>3. refs' = refs + (CloseRefs("uncount") - CloseRefs("unfinish"))
      BY <1>0, <1>9 DEF Unfinish, api_epilog, inc_ref_counter, CloseRefs
    <2> QED
      BY <1>9, <2>1, <2>2, <2>3, AwayGoto DEF Unfinish, api_epilog, AwayLabels
  <1>10. CASE Uncount(a)
    <2>1. Rest /\ at[a] = "uncount"
      BY <1>10 DEF Uncount, Rest, CountInv, TypesInv
    <2>2. CASE refs = 1
      <3>1. refs' = refs + (CloseRefs("last") - CloseRefs("uncount"))
        BY <1>0, <1>10 DEF Uncount, inc_ref_counter, CloseRefs
      <3> QED
        BY <1>10, <2>1, <2>2, <3>1, AwayGoto DEF Uncount, AwayLabels
    <2>3. CASE refs # 1
      <3>1. refs' = refs + (-CloseRefs("uncount"))
        BY <1>0, <1>10 DEF Uncount, inc_ref_counter, CloseRefs
      <3> QED
        BY <1>10, <2>1, <2>3, <3>1, ReturnGoto DEF Uncount, AwayLabels
    <2> QED
      BY <2>2, <2>3
  <1>11. CASE Destroy(a)
    <2>1. at[a] \in AwayLabels /\ freed' = TRUE
      BY <1>11 DEF Destroy, AwayLabels
    <2>2. PICK h \in HomeLabels \ {"start"} : stack[a] = <<h>>
      BY <2>1, OwnedValue DEF CountInv
    <2>3. Head(stack[a]) = h /\ Tail(stack[a]) = <<>> /\ h \in Labels
      <3>1. HomeLabels \subseteq Labels
        BY DEF HomeLabels, Labels
      <3> QED
        BY <2>2, <3>1
    <2>4. /\ at' = [at EXCEPT ![a] = h]
          /\ stack' = [stack EXCEPT ![a] = <<>>]
      BY <1>11, <2>3 DEF Destroy, Return, Goto
    <2>5. TypesInv'
      BY <1>11, <2>3, <2>4 DEF Destroy, CountInv, TypesInv
    <2>6. StackInv'
      BY <2>4 DEF CountInv, TypesInv, StackInv, AtHome, Away
    <2> QED
      BY <2>1, <2>5, <2>6 DEF CountInv, CountIsExact
  <1> QED
    BY <1>1, <1>2, <1>3, <1>4, <1>5, <1>6, <1>7, <1>8, <1>9, <1>10, <1>11

LEMMA CountNext ==
    ASSUME CountInv, [Next]_vars
    PROVE  CountInv'
  <1>1. CASE UNCHANGED vars
    BY <1>1 DEF vars, CountInv, TypesInv, StackInv, AtHome, Away,
                CountIsExact, Owned
  <1>2. ASSUME NEW a \in Actors, Step(a)
        PROVE  CountInv'
    <2>1. ~freed
      BY <1>2 DEF Step
    <2>2. CASE a \in Threads /\ (Start(a) \/ Begin(a) \/ Loop(a) \/ Exit(a))
      BY <2>1, <2>2, CountThreads
    <2>3. CASE InitReturns \/ IoProcessed \/ CtDrain \/ CtCallbackReturns
      BY <2>1, <2>3, CountWork
    <2> QED
      BY <1>2, <2>1, <2>2, <2>3, CountClosing DEF Step
  <1>3. ASSUME NEW a \in Actors, Choice(a)
        PROVE  CountInv'
    BY <1>3, CountClosing, CountWork DEF Choice
  <1> QED
    BY <1>1, <1>2, <1>3 DEF Next

(* ref_counter equals what its owners hold, whoever closes the handle and  *)
(* however often, until the handle is freed.                               *)
THEOREM CounterIsExact == Spec => []CountIsExact
  <1>1. Init => CountInv
    BY CountInit
  <1>2. CountInv /\ [Next]_vars => CountInv'
    BY CountNext
  <1>3. CountInv => CountIsExact
    BY DEF CountInv
  <1> QED
    BY <1>1, <1>2, <1>3, PTL DEF Spec


(* Every variable keeps its type, and the counter does not pass below 0. *)
BoundsInv == refs \in Nat /\ completions \in Nat /\ events \in Nat

LEMMA LoadIsANumber == \A l, st : Load(l, st) \in Nat
  <1>1. \A l : HomeRefs(l) \in Nat
    BY DEF HomeRefs
  <1>2. \A l : CloseRefs(l) \in Nat
    BY DEF CloseRefs
  <1> QED
    BY <1>1, <1>2 DEF Load

LEMMA BoundsNext ==
    ASSUME CountInv, BoundsInv, [Next]_vars
    PROVE  BoundsInv'
  <1>1. CASE UNCHANGED vars
    BY <1>1 DEF vars, BoundsInv
  <1>2. ASSUME NEW a \in Actors, Step(a) \/ Choice(a)
        PROVE  BoundsInv'
    <2>1. completions' \in Nat /\ events' \in Nat
      <3>1. CASE UNCHANGED <<completions, events>>
        BY <3>1 DEF BoundsInv
      <3>2. CASE IoQueue
        BY <3>2 DEF IoQueue, BoundsInv
      <3>3. CASE CtDrain
        BY <3>3 DEF CtDrain, BoundsInv
      <3>4. CASE Purge(a)
        BY <3>4 DEF Purge, BoundsInv
      <3> QED
        BY <1>2, <3>1, <3>2, <3>3, <3>4
           DEF Step, Choice, zookeeper_close, Last, Count, Finish, ReapIo,
               ReapCt, JoinCt, Unfinish, Uncount, Destroy, Start, Begin, Loop,
               Exit, InitReturns, IoProcessed, CtCallbackReturns
    <2>2. refs' \in Nat
      <3>1. CountInv'
        BY <1>2, CountClosing, CountThreads, CountWork DEF Step, Choice
      <3>2. CASE ~freed'
        <4>1. refs' = Owned("app")' + Owned("io")' + Owned("ct")'
          BY <3>1, <3>2 DEF CountInv, CountIsExact
        <4>2. \A b \in Actors : Owned(b)' \in Nat
          BY LoadIsANumber DEF Owned
        <4> QED
          BY <4>1, <4>2 DEF Actors, Threads
      <3>3. CASE freed'
        <4>1. ~freed
          BY <1>2 DEF Step, Choice
        <4>2. Destroy(a)
          BY <1>2, <3>3, <4>1
             DEF Step, Choice, zookeeper_close, Last, Count, Purge, Finish,
                 ReapIo, ReapCt, JoinCt, Unfinish, Uncount, Start, Begin, Loop,
                 Exit, InitReturns, IoProcessed, IoQueue, CtDrain,
                 CtCallbackReturns
        <4> QED
          BY <4>2 DEF Destroy, BoundsInv
      <3> QED
        BY <3>2, <3>3
    <2> QED
      BY <2>1, <2>2 DEF BoundsInv
  <1> QED
    BY <1>1, <1>2 DEF Next

(* Every variable keeps its type; in particular the counter never goes     *)
(* below 0.                                                                *)
THEOREM LifecycleTypes == Spec => []TypeOK
  <1>1. Init => CountInv /\ BoundsInv
    <2>1. Init => refs \in Nat /\ completions \in Nat /\ events \in Nat
      BY DEF Init
    <2> QED
      BY <2>1, CountInit DEF BoundsInv
  <1>2. CountInv /\ BoundsInv /\ [Next]_vars => (CountInv /\ BoundsInv)'
    BY CountNext, BoundsNext
  <1>3. CountInv /\ BoundsInv => TypeOK
    BY DEF CountInv, TypesInv, BoundsInv, TypeOK
  <1> QED
    BY <1>1, <1>2, <1>3, PTL DEF Spec

-----------------------------------------------------------------------------
(* Who may be left when the handle is destroyed *)

(* At most one thread will ever call zookeeper_close from outside          *)
(* api_epilog, and if it is the creator it is not interrupted between      *)
(* close_requested=1 and the count.                                        *)
OneCloser == /\ \A P \in Plans : \A a, b \in P : a = b
             /\ "app" \notin Preempted

Resting == {"live", "done", "exit"}

(* What the completion thread may do before close_requested *)
Serving == {"start", "ready", "loop", "asleep", "drain", "callback"}

(* The thread in api_epilog's zookeeper_close is the only one left. *)
LastOne(a) ==
    /\ stack[a] \in {<<"live">>, <<"done">>, <<"exit">>}
    /\ \A b \in Actors \ {a} : at[b] \in Resting

(* A closer that announced itself and is not counted: somebody, possibly   *)
(* itself, has a reference.                                                *)
Covered(a) ==
    \/ a \in Threads /\ stack[a] \in {<<"callback">>, <<"process">>}
    \/ a = "app" /\ stack[a] = <<"done">> /\ refs >= 1

StartInv  == at["app"] # "start" /\ (at["app"] = "init" \/ Started)
OpenInv   == \/ closeRequested /\ plan = {}
             \/ /\ ~closeRequested
                /\ \A a \in Actors : at[a] \in HomeLabels
                /\ at["ct"] \in Serving
CloserInv == \A a, b \in plan : a = b
ClosingInv ==
    \A a \in Actors :
       /\ at[a] \in {"last", "destroy"} => LastOne(a)
       /\ at[a] = "count" => LastOne(a) \/ Covered(a)
FreedInv == freed => closeRequested /\ \A a \in Actors : at[a] \in Resting

LastInv == StartInv /\ OpenInv /\ CloserInv /\ ClosingInv /\ FreedInv

-----------------------------------------------------------------------------
(* What the invariant needs to know of a step of thread a *)

(* about the others *)
Frame(a) ==
    /\ \A b \in Actors \ {a} :
          /\ stack'[b] = stack[b]
          /\ at'[b] = at[b] \/ (at[b] = "asleep" /\ at'[b] = "drain")
    /\ plan' \subseteq plan

(* about a itself *)
Change(a) ==
    /\ at[a] \notin Resting /\ at'[a] # "start"
    /\ at[a] = "init" => Started
    /\ at'[a] = "last" =>
          /\ refs = 1 /\ at[a] \in {"leaving", "init", "uncount"}
          /\ \/ stack'[a] \in {<<"exit">>, <<"live">>}
             \/ at[a] = "uncount" /\ stack'[a] = stack[a]
    /\ at'[a] = "count" =>
          at[a] = "last" /\ closeRequested /\ stack'[a] = stack[a]
    /\ at'[a] = "destroy" =>
          at[a] = "count" /\ refs <= 0 /\ stack'[a] = stack[a]
    /\ freed' => at[a] = "destroy" /\ at'[a] = Head(stack[a])
    /\ ~closeRequested /\ a = "ct" /\ at[a] \in Serving => at'[a] \in Serving
    /\ UNCHANGED <<closeRequested, plan>>
    /\ at[a] \in HomeLabels => at'[a] \in HomeLabels \cup {"last"}

LEMMA StepFacts ==
    ASSUME CountInv, NEW a \in Actors, Step(a)
    PROVE  Frame(a) /\ Change(a)
  <1>0. /\ ~freed /\ at \in [Actors -> Labels] /\ refs \in Int
        /\ stack \in [Actors -> Seq(Labels)]
    BY DEF Step, CountInv, TypesInv
  <1> USE DEF Frame, Change, Goto, Resting, Serving, HomeLabels
  <1>1. CASE a \in Threads /\ (Start(a) \/ Begin(a))
    BY <1>0, <1>1 DEF Start, Begin
  <1>2. CASE a \in Threads /\ Loop(a)
    BY <1>0, <1>2 DEF Loop
  <1>3. CASE a \in Threads /\ Exit(a)
    <2>1. stack[a] = <<>>
      BY <1>3, HomeStack DEF Exit
    <2>2. <<"exit">> \o <<>> = <<"exit">>
      OBVIOUS
    <2> QED
      BY <1>0, <1>3, <2>1, <2>2 DEF Exit, api_epilog
  <1>4. CASE a = "app" /\ InitReturns
    <2>1. stack[a] = <<>>
      BY <1>4, HomeStack DEF InitReturns
    <2>2. <<"live">> \o <<>> = <<"live">>
      OBVIOUS
    <2> QED
      BY <1>0, <1>4, <2>1, <2>2 DEF InitReturns, api_epilog
  <1>5. CASE a = "io" /\ IoProcessed
    <2>1. refs # 1
      <3>1. Owned("io") = 2 /\ Owned("io") <= refs
        BY <1>0, <1>5, OwnedValue, OwnedAtMostRefs
           DEF IoProcessed, CountInv, HomeRefs
      <3> QED
        BY <1>0, <3>1
    <2> QED
      BY <1>0, <1>5, <2>1 DEF IoProcessed, api_epilog
  <1>6. CASE a = "ct" /\ (CtDrain \/ CtCallbackReturns)
    BY <1>0, <1>6 DEF CtDrain, CtCallbackReturns
  <1>7. CASE Last(a) \/ Uncount(a)
    <2>1. at[a] \in AwayLabels
      BY <1>7 DEF Last, Uncount, AwayLabels
    <2>2. PICK h \in HomeLabels \ {"start"} : stack[a] = <<h>>
      BY <2>1, OwnedValue DEF CountInv
    <2>3. Head(stack[a]) = h
      BY <2>2
    <2>4. CASE Last(a)
      BY <1>0, <2>3, <2>4 DEF Last, Return
    <2>5. CASE Uncount(a)
      BY <1>0, <2>3, <2>5 DEF Uncount, Return
    <2> QED
      BY <1>7, <2>4, <2>5
  <1>8. CASE Count(a)
    BY <1>0, <1>8 DEF Count
  <1>9. CASE Purge(a)
    BY <1>0, <1>9 DEF Purge, Woken
  <1>10. CASE Finish(a) \/ ReapIo(a) \/ JoinCt(a)
    <2>1. CASE Finish(a)
      BY <1>0, <2>1 DEF Finish
    <2>2. CASE ReapIo(a)
      BY <1>0, <2>2 DEF ReapIo
    <2>3. CASE JoinCt(a)
      BY <1>0, <2>3 DEF JoinCt
    <2> QED
      BY <1>10, <2>1, <2>2, <2>3
  <1>11. CASE ReapCt(a)
    BY <1>0, <1>11 DEF ReapCt, Signal, Woken
  <1>12. CASE Unfinish(a)
    <2>1. refs # 1
      <3>1. at[a] = "unfinish" /\ "unfinish" \in AwayLabels
        BY <1>12 DEF Unfinish, AwayLabels
      <3>2. PICK h \in HomeLabels \ {"start"} :
               Owned(a) = HomeRefs(h) + CloseRefs("unfinish")
        BY <3>1, OwnedValue DEF CountInv
      <3>3. CloseRefs("unfinish") = 2 /\ HomeRefs(h) \in Nat
        BY RefsAreNumbers DEF CloseRefs
      <3>4. Owned(a) <= refs
        BY <1>0, OwnedAtMostRefs
      <3> QED
        BY <1>0, <3>2, <3>3, <3>4
    <2> QED
      BY <1>0, <1>12, <2>1 DEF Unfinish, api_epilog
  <1>13. CASE Destroy(a)
    <2>1. at[a] \in AwayLabels
      BY <1>13 DEF Destroy, AwayLabels
    <2>2. PICK h \in HomeLabels \ {"start"} : stack[a] = <<h>>
      BY <2>1, OwnedValue DEF CountInv
    <2>3. Head(stack[a]) = h
      BY <2>2
    <2> QED
      BY <1>0, <1>13, <2>3 DEF Destroy, Return
  <1> QED
    BY <1>1, <1>2, <1>3, <1>4, <1>5, <1>6, <1>7, <1>8, <1>9, <1>10, <1>11,
       <1>12, <1>13 DEF Step

(* Only one thread may be in api_epilog's zookeeper_close. *)
LEMMA OthersRest ==
    ASSUME ClosingInv, NEW a \in Actors, NEW b \in Actors \ {a},
           at[b] \in {"last", "count", "destroy"}
    PROVE  at[a] \in Resting \/ (at[b] = "count" /\ Covered(b))
  BY DEF ClosingInv, LastOne

(* Whoever gives back the last reference is alone. *)
LEMMA OnlyLeft ==
    ASSUME OneCloser, CountInv, LastInv, ~freed, NEW a \in Actors,
           Scheduled(a), refs = 1,
           at[a] \in {"leaving", "init", "uncount"}, at[a] = "init" => Started
    PROVE  /\ closeRequested /\ plan = {}
           /\ \A b \in Actors \ {a} : at[b] \in Resting
           /\ at[a] = "uncount" =>
                 stack[a] \in {<<"live">>, <<"done">>, <<"exit">>}
  <1>1. Owned(a) >= 1
    <2>1. CASE at[a] \in {"leaving", "init"}
      <3>1. at[a] \in HomeLabels /\ HomeRefs(at[a]) = 1
        BY <2>1 DEF HomeLabels, HomeRefs
      <3> QED
        BY <3>1, OwnedValue DEF CountInv
    <2>2. CASE at[a] = "uncount"
      <3>1. PICK h \in HomeLabels \ {"start"} :
               Owned(a) = HomeRefs(h) + CloseRefs("uncount")
        BY <2>2, OwnedValue DEF CountInv, AwayLabels
      <3>2. CloseRefs("uncount") = 1 /\ HomeRefs(h) \in Nat
        BY RefsAreNumbers DEF CloseRefs
      <3> QED
        BY <3>1, <3>2
    <2> QED
      BY <2>1, <2>2
  <1>2. ASSUME NEW b \in Actors \ {a}
        PROVE  Owned(b) = 0
    <2>1. Owned(a) + Owned(b) <= 1
      BY OwnedAtMostRefs
    <2>2. Owned(a) \in 0..4 /\ Owned(b) \in 0..4
      BY OwnedValue DEF CountInv
    <2> QED
      BY <1>1, <2>1, <2>2
  <1>3. ASSUME NEW b \in Actors \ {a}
        PROVE  at[b] \in Resting
    <2>1. CASE at[b] \in HomeLabels
      <3>1. HomeRefs(at[b]) = 0
        BY <1>2, <2>1, OwnedValue DEF CountInv
      <3>2. at[b] \in Resting \cup {"start"}
        BY <3>1 DEF HomeRefs, Resting
      <3>3. at[b] # "start"
        <4>1. SUFFICES ASSUME at[b] = "start"
                       PROVE  FALSE
          OBVIOUS
        <4>2. b \in Threads
          BY <4>1 DEF LastInv, StartInv, Actors
        <4>3. ~Started
          BY <4>1, <4>2 DEF Started
        <4>4. at["app"] = "init"
          BY <4>3 DEF LastInv, StartInv
        <4>5. a # "app"
          BY <4>3, <4>4
        <4>6. Owned("app") = 1
          BY <4>4, OwnedValue DEF CountInv, HomeLabels, HomeRefs, Actors
        <4> QED
          BY <1>2, <4>5, <4>6 DEF Actors
      <3> QED
        BY <3>2, <3>3
    <2>2. CASE at[b] \in AwayLabels
      <3>1. PICK h \in HomeLabels \ {"start"} :
               stack[b] = <<h>> /\ Owned(b) = HomeRefs(h) + CloseRefs(at[b])
        BY <2>2, OwnedValue DEF CountInv
      <3>2. HomeRefs(h) \in Nat /\ CloseRefs(at[b]) \in Nat
        BY <2>2, RefsAreNumbers
      <3>3. HomeRefs(h) = 0 /\ CloseRefs(at[b]) = 0
        BY <1>2, <3>1, <3>2
      <3>4. at[b] \in {"last", "count"}
        BY <2>2, <3>3, ZeroClose
      <3>5. at[b] = "count" /\ Covered(b)
        BY <3>4, OthersRest DEF LastInv, Resting
      <3>6. b \notin Threads
        <4>1. h \notin {"callback", "process"}
          BY <3>3 DEF HomeRefs
        <4>2. stack[b] \notin {<<"callback">>, <<"process">>}
          BY <3>1, <4>1
        <4>3. b \in Threads => b # "app"
          BY DEF Threads
        <4> QED
          BY <3>5, <4>2, <4>3 DEF Covered
      <3>7. b = "app" /\ b \in Preempted
        BY <3>5, <3>6 DEF Scheduled, Actors
      <3> QED
        BY <3>7 DEF OneCloser
    <2> QED
      BY <2>1, <2>2 DEF CountInv, StackInv, AtHome, Away
  <1>4. closeRequested /\ plan = {}
    <2>1. SUFFICES ASSUME \A b \in Actors : at[b] \in HomeLabels,
                          at["ct"] \in Serving
                   PROVE  FALSE
      BY DEF LastInv, OpenInv
    <2>2. a = "ct"
      BY <1>3, <2>1 DEF Actors, Threads, Resting, Serving
    <2> QED
      BY <2>1, <2>2 DEF Serving, HomeLabels
  <1>5. ASSUME at[a] = "uncount"
        PROVE  stack[a] \in {<<"live">>, <<"done">>, <<"exit">>}
    <2>1. PICK h \in HomeLabels \ {"start"} :
             stack[a] = <<h>> /\ Owned(a) = HomeRefs(h) + CloseRefs("uncount")
      BY <1>5, OwnedValue DEF CountInv, AwayLabels
    <2>2. HomeRefs(h) \in Nat /\ CloseRefs("uncount") = 1
      BY RefsAreNumbers DEF CloseRefs
    <2>3. Owned(a) <= 1
      BY OwnedAtMostRefs
    <2>4. HomeRefs(h) = 0
      BY <2>1, <2>2, <2>3
    <2>5. h \in {"live", "done", "exit"}
      BY <2>4 DEF HomeRefs
    <2> QED
      BY <2>1, <2>5
  <1> QED
    BY <1>3, <1>4, <1>5

LEMMA LastInit ==
    ASSUME OneCloser, Init
    PROVE  LastInv
  <1>1. /\ at["app"] = "init" /\ at["ct"] = "start"
        /\ \A a \in Actors : at[a] \in {"init", "start"}
    BY DEF Init, Actors, Threads
  <1>2. StartInv /\ OpenInv
    BY <1>1 DEF Init, StartInv, OpenInv, HomeLabels, Serving
  <1>3. CloserInv
    BY DEF OneCloser, Init, CloserInv
  <1>4. ClosingInv /\ FreedInv
    BY <1>1 DEF Init, ClosingInv, FreedInv
  <1> QED
    BY <1>2, <1>3, <1>4 DEF LastInv

(* A step of a thread that does not call zookeeper_close from outside *)
LEMMA LastStep ==
    ASSUME OneCloser, CountInv, LastInv, NEW a \in Actors, Scheduled(a),
           Step(a)
    PROVE  LastInv'
  <1>0. ~freed
    BY DEF Step
  <1>1. Frame(a) /\ Change(a)
    BY StepFacts
  <1>2. StartInv'
    <2>1. \A b \in Actors : at'[b] = "start" => at[b] = "start"
      BY <1>1 DEF Frame, Change
    <2>2. at["app"] = "init" => Started \/ at'["app"] = "init"
      BY <1>1 DEF Frame, Change, Actors
    <2>3. Started => Started'
      BY <2>1 DEF Started, Actors
    <2> QED
      BY <2>1, <2>2, <2>3 DEF LastInv, StartInv, Actors
  <1>3. at'[a] = "last" =>
           /\ closeRequested /\ plan = {} /\ LastOne(a)'
    <2>1. SUFFICES ASSUME at'[a] = "last"
                   PROVE  closeRequested /\ plan = {} /\ LastOne(a)'
      OBVIOUS
    <2>2. /\ closeRequested /\ plan = {}
          /\ \A b \in Actors \ {a} : at[b] \in Resting
          /\ at[a] = "uncount" =>
                stack[a] \in {<<"live">>, <<"done">>, <<"exit">>}
      BY <1>0, <1>1, <2>1, OnlyLeft DEF Change
    <2>3. \A b \in Actors \ {a} : at'[b] \in Resting
      BY <1>1, <2>2 DEF Frame, Resting
    <2>4. stack'[a] \in {<<"live">>, <<"done">>, <<"exit">>}
      BY <1>1, <2>1, <2>2 DEF Change
    <2> QED
      BY <2>2, <2>3, <2>4 DEF LastOne
  <1>4. OpenInv'
    <2>1. CASE closeRequested /\ plan = {}
      BY <1>1, <2>1 DEF Change, OpenInv
    <2>2. CASE /\ ~closeRequested
               /\ \A b \in Actors : at[b] \in HomeLabels
               /\ at["ct"] \in Serving
      <3>1. at'[a] \in HomeLabels
        BY <1>1, <1>3, <2>2 DEF Change
      <3>2. \A b \in Actors : at'[b] \in HomeLabels
        BY <1>1, <2>2, <3>1 DEF Frame, HomeLabels
      <3>3. at'["ct"] \in Serving
        BY <1>1, <2>2 DEF Frame, Change, Actors, Threads, Serving
      <3> QED
        BY <1>1, <2>2, <3>2, <3>3 DEF Change, OpenInv
    <2> QED
      BY <2>1, <2>2 DEF LastInv, OpenInv
  <1>5. CloserInv'
    BY <1>1 DEF Change, LastInv, CloserInv
  <1>6. ClosingInv'
    <2>1. ASSUME NEW b \in Actors \ {a},
                 at'[b] \in {"last", "count", "destroy"}
          PROVE  at'[b] = "count" /\ Covered(b)'
      <3>1. at'[b] = at[b] /\ stack'[b] = stack[b]
        BY <1>1, <2>1 DEF Frame
      <3>2. at[b] = "count" /\ Covered(b)
        BY <1>1, <2>1, <3>1, OthersRest DEF LastInv, Change
      <3>3. b # "app"
        BY <3>2 DEF Scheduled, OneCloser
      <3> QED
        BY <3>1, <3>2, <3>3 DEF Covered
    <2>2. at'[a] = "last" => LastOne(a)'
      BY <1>3
    <2>3. at[a] \in {"last", "count"} /\ LastOne(a) /\ stack'[a] = stack[a]
             => LastOne(a)'
      BY <1>1 DEF LastOne, Frame, Resting
    <2>4. at'[a] = "count" => LastOne(a)'
      BY <1>1, <2>3 DEF Change, LastInv, ClosingInv
    <2>5. at'[a] = "destroy" => LastOne(a)'
      <3>1. SUFFICES ASSUME at'[a] = "destroy"
                     PROVE  LastOne(a)'
        OBVIOUS
      <3>2. at[a] = "count" /\ refs <= 0 /\ stack'[a] = stack[a]
        BY <1>1, <3>1 DEF Change
      <3>3. ~Covered(a)
        <4>1. Owned(a) <= refs /\ refs \in Int
          BY <1>0, OwnedAtMostRefs DEF CountInv, TypesInv
        <4>2. PICK h \in HomeLabels \ {"start"} :
                 /\ stack[a] = <<h>>
                 /\ Owned(a) = HomeRefs(h) + CloseRefs("count")
          BY <3>2, OwnedValue DEF CountInv, AwayLabels
        <4>3. HomeRefs(h) \in Nat /\ CloseRefs("count") = 0
          BY RefsAreNumbers DEF CloseRefs
        <4>4. HomeRefs(h) = 0
          BY <3>2, <4>1, <4>2, <4>3
        <4>5. h \notin {"callback", "process"}
          BY <4>4 DEF HomeRefs
        <4>6. stack[a] \notin {<<"callback">>, <<"process">>}
          BY <4>2, <4>5
        <4>7. ~(refs >= 1)
          BY <3>2, <4>1
        <4> QED
          BY <4>6, <4>7 DEF Covered
      <3> QED
        BY <2>3, <3>2, <3>3 DEF LastInv, ClosingInv
    <2> QED
      BY <2>1, <2>2, <2>4, <2>5 DEF ClosingInv
  <1>7. FreedInv'
    <2>1. SUFFICES ASSUME freed'
                   PROVE  /\ closeRequested'
                          /\ \A b \in Actors : at'[b] \in Resting
      BY DEF FreedInv
    <2>2. at[a] = "destroy" /\ at'[a] = Head(stack[a])
      BY <1>1, <2>1 DEF Change
    <2>3. LastOne(a)
      BY <2>2 DEF LastInv, ClosingInv
    <2>4. at'[a] \in Resting
      BY <2>2, <2>3 DEF LastOne, Resting
    <2>5. \A b \in Actors \ {a} : at'[b] \in Resting
      BY <1>1, <2>3 DEF LastOne, Frame, Resting
    <2>6. closeRequested'
      BY <1>1, <2>2 DEF Change, LastInv, OpenInv, HomeLabels
    <2> QED
      BY <2>4, <2>5, <2>6
  <1> QED
    BY <1>2, <1>4, <1>5, <1>6, <1>7 DEF LastInv

(* zookeeper_close called by a thread of the program *)
LEMMA LastClose ==
    ASSUME OneCloser, CountInv, LastInv, ~freed, NEW a \in Actors,
           Scheduled(a), zookeeper_close(a)
    PROVE  LastInv'
  <1>1. /\ ~closeRequested /\ at["ct"] \in Serving
        /\ \A b \in Actors : at[b] \in HomeLabels
    BY DEF zookeeper_close, LastInv, OpenInv
  <1>2. closeRequested' /\ plan' = {}
    BY DEF zookeeper_close, LastInv, CloserInv
  <1>3. /\ at' = [at EXCEPT ![a] = "count"]
        /\ at \in [Actors -> Labels] /\ stack \in [Actors -> Seq(Labels)]
    BY DEF zookeeper_close, Goto, CountInv, TypesInv
  <1>4. at["app"] = "live" => refs >= 1
    <2>1. SUFFICES ASSUME at["app"] = "live"
                   PROVE  refs >= 1
      OBVIOUS
    <2>2. at["ct"] \in
             HomeLabels \ {"start", "live", "done", "exit", "process"}
      BY <1>1, <2>1
         DEF LastInv, StartInv, Started, Threads, Serving, HomeLabels
    <2>3. Owned("ct") = 1 /\ Owned("ct") <= refs
      BY <2>2, OwnedValue, OwnedAtMostRefs
         DEF CountInv, HomeRefs, Actors, Threads
    <2> QED
      BY <2>3
  <1>5. StartInv'
    BY <1>3 DEF LastInv, StartInv, Started, zookeeper_close, Calls, Actors,
                Threads
  <1>6. Covered(a)'
    <2>1. stack[a] = <<>>
      BY <1>1, HomeStack
    <2>2. <<Returns[a]>> \o <<>> = <<Returns[a]>>
      OBVIOUS
    <2>3. stack'[a] = <<Returns[a]>> /\ refs' = refs
      BY <1>3, <2>1, <2>2 DEF zookeeper_close
    <2>4. a = "app" => at["app"] = "live" /\ Returns[a] = "done"
      BY DEF zookeeper_close, Calls, Returns
    <2>5. a = "ct" => Returns[a] = "callback"
      BY DEF Returns
    <2>6. a = "io" => Returns[a] = "process"
      BY DEF Returns
    <2> QED
      BY <1>4, <2>3, <2>4, <2>5, <2>6 DEF Covered, Actors, Threads
  <1>7. ClosingInv'
    BY <1>1, <1>3, <1>6 DEF ClosingInv, HomeLabels
  <1> QED
    BY <1>2, <1>5, <1>7
       DEF LastInv, OpenInv, CloserInv, FreedInv, zookeeper_close

(* zookeeper_process queues something *)
LEMMA LastQueue ==
    ASSUME CountInv, LastInv, ~freed, IoQueue
    PROVE  LastInv'
  <1>1. /\ \A b \in Actors :
              at'[b] = at[b] \/ (at[b] = "asleep" /\ at'[b] = "drain")
        /\ UNCHANGED <<refs, closeRequested, stack, plan, freed>>
    BY DEF IoQueue, Woken, CountInv, TypesInv
  <1>2. StartInv'
    BY <1>1 DEF LastInv, StartInv, Started, Actors, Threads
  <1>3. OpenInv'
    BY <1>1 DEF LastInv, OpenInv, HomeLabels, Serving, Actors, Threads
  <1>4. ClosingInv'
    <2>1. \A a \in Actors : LastOne(a) => LastOne(a)'
      BY <1>1 DEF LastOne, Resting
    <2>2. \A a \in Actors : Covered(a) => Covered(a)'
      BY <1>1 DEF Covered
    <2> QED
      BY <1>1, <2>1, <2>2 DEF LastInv, ClosingInv
  <1> QED
    BY <1>1, <1>2, <1>3, <1>4 DEF LastInv, CloserInv, FreedInv

LEMMA LastNext ==
    ASSUME OneCloser, CountInv, LastInv, [Next]_vars
    PROVE  LastInv'
  <1>1. CASE UNCHANGED vars
    BY <1>1 DEF vars, LastInv, StartInv, Started, OpenInv, CloserInv,
                ClosingInv, LastOne, Covered, FreedInv
  <1>2. ASSUME NEW a \in Actors, Scheduled(a), Step(a)
        PROVE  LastInv'
    BY <1>2, LastStep
  <1>3. ASSUME NEW a \in Actors, Scheduled(a), Choice(a)
        PROVE  LastInv'
    BY <1>3, LastClose, LastQueue DEF Choice
  <1> QED
    BY <1>1, <1>2, <1>3 DEF Next

(* No thread uses the handle after free(zh), with any number of events, if *)
(* one thread, whichever, calls zookeeper_close, and the creator is not    *)
(* interrupted between the flag and the count.                             *)
THEOREM FreedIsUnused ==
    ASSUME OneCloser
    PROVE  Spec => []NoUseAfterFree
  <1>1. Init => CountInv /\ LastInv
    BY CountInit, LastInit
  <1>2. CountInv /\ LastInv /\ [Next]_vars => (CountInv /\ LastInv)'
    BY CountNext, LastNext
  <1>3. CountInv /\ LastInv => NoUseAfterFree
    BY DEF LastInv, FreedInv, OpenInv, NoUseAfterFree, UsesHandle, Resting,
           Serving, HomeLabels, Actors, Threads
  <1> QED
    BY <1>1, <1>2, <1>3, PTL DEF Spec

-----------------------------------------------------------------------------
(* The promise of SharedLifetime *)

Using == {a \in Actors : Owned(a) > 0 /\ at[a] # "destroy"}

(* While nobody closes, the creator or the completion thread keeps the     *)
(* handle.                                                                 *)
Kept == closeRequested \/ Using # {}

LEMMA SomebodyUses ==
    CountInv /\ LastInv => Kept
  <1> SUFFICES ASSUME CountInv, LastInv, ~closeRequested
               PROVE  Using # {}
    BY DEF Kept
  <1>0. {"app", "ct"} \subseteq Actors
    BY DEF Actors, Threads
  <1>1. CASE at["app"] = "init"
    <2>1. Owned("app") = 1
      BY <1>0, <1>1, OwnedValue DEF CountInv, HomeLabels, HomeRefs
    <2> QED
      BY <1>0, <1>1, <2>1 DEF Using
  <1>2. CASE at["app"] # "init"
    <2>1. at["ct"] \in
             HomeLabels \ {"start", "live", "done", "exit", "process"}
      BY <1>2 DEF LastInv, StartInv, OpenInv, Started, Threads, Serving,
                  HomeLabels
    <2>2. Owned("ct") = 1
      BY <1>0, <2>1, OwnedValue, HomeRefsValue DEF CountInv
    <2> QED
      BY <1>0, <2>1, <2>2 DEF Using, HomeLabels
  <1> QED
    BY <1>1, <1>2

(* A step of a thread moves no other thread in or out. *)
LEMMA OthersStay ==
    ASSUME CountInv, NEW a \in Actors, Frame(a), NEW b \in Actors \ {a}
    PROVE  (b \in Using)' <=> b \in Using
  <1>1. CASE at'[b] = at[b]
    BY <1>1 DEF Using, Owned, Frame
  <1>2. CASE at[b] = "asleep" /\ at'[b] = "drain"
    <2>1. stack[b] = <<>> /\ stack'[b] = <<>>
      BY <1>2 DEF Frame, CountInv, StackInv, AtHome, Away, AwayLabels
    <2>2. Load("asleep", <<>>) = Load("drain", <<>>)
      BY AtHomeLoad, HomeRefsValue DEF HomeLabels
    <2> QED
      BY <1>2, <2>1, <2>2 DEF Using, Owned
  <1> QED
    BY <1>1, <1>2 DEF Frame

(* A thread that does not use the handle, and acts on it, is starting, or  *)
(* it has given back the last reference or is an uncounted closer.         *)
LEMMA OutsideLabels ==
    ASSUME CountInv, NEW a \in Actors, a \notin Using, at[a] \notin Resting,
           at[a] # "destroy"
    PROVE  at[a] \in {"start", "last", "count"} /\ Owned(a) = 0
  <1>1. Owned(a) = 0
    <2>1. Owned(a) \in 0..4
      BY OwnedValue DEF CountInv
    <2> QED
      BY <2>1 DEF Using
  <1>2. CASE at[a] \in HomeLabels
    BY <1>1, <1>2, OwnedValue, HomeRefsValue DEF CountInv, Resting
  <1>3. CASE at[a] \in AwayLabels
    <2>1. PICK h \in HomeLabels \ {"start"} :
             Owned(a) = HomeRefs(h) + CloseRefs(at[a])
      BY <1>3, OwnedValue DEF CountInv
    <2>2. HomeRefs(h) \in Nat /\ CloseRefs(at[a]) \in Nat
      BY <1>3, RefsAreNumbers
    <2>3. CloseRefs(at[a]) = 0
      BY <1>1, <2>1, <2>2
    <2> QED
      BY <1>1, <1>3, <2>3, ZeroClose
  <1> QED
    BY <1>2, <1>3 DEF CountInv, StackInv, AtHome, Away

(* What a step of a thread is to SharedLifetime *)
LEMMA StepRefines ==
    ASSUME OneCloser, CountInv, LastInv, CountInv', LastInv', Kept',
           NEW a \in Actors, Scheduled(a), Step(a)
    PROVE  [Lifetime!Next]_<<Using, closeRequested, freed>>
  <1>0. ~freed /\ refs \in Int /\ at \in [Actors -> Labels]
    BY DEF Step, CountInv, TypesInv
  <1>1. Frame(a) /\ Change(a)
    BY StepFacts
  <1>2. /\ at[a] \notin Resting /\ closeRequested' = closeRequested
        /\ freed' => at[a] = "destroy"
        /\ freed' \in BOOLEAN /\ freed \in BOOLEAN
        /\ closeRequested \in BOOLEAN
    BY <1>1 DEF Change, CountInv, TypesInv
  <1>3. Using' \ {a} = Using \ {a}
    BY <1>1, OthersStay DEF Using
  <1>4. Using \subseteq Actors /\ Using' \subseteq Actors
    BY DEF Using
  <1>5. CASE a \in Using
    <2>1. freed' = freed
      <3>1. at[a] # "destroy"
        BY <1>5 DEF Using
      <3>2. freed' = FALSE /\ freed = FALSE
        BY <1>0, <1>2, <3>1
      <3> QED
        BY <3>2
    <2>2. CASE a \in Using'
      <3>1. Using' = Using
        BY <1>3, <1>5, <2>2
      <3> QED
        BY <1>2, <2>1, <3>1
    <2>3. CASE a \notin Using'
      <3>1. Using' = Using \ {a}
        BY <1>3, <2>3
      <3>2. closeRequested \/ Using' # {}
        BY <1>2 DEF Kept
      <3>3. Lifetime!Leave(a)
        BY <1>0, <1>2, <1>5, <2>1, <3>1, <3>2 DEF Lifetime!Leave, Using
      <3> QED
        BY <3>3 DEF Lifetime!Next
    <2> QED
      BY <2>2, <2>3
  <1>6. CASE at[a] = "destroy"
    <2>1. LastOne(a) /\ closeRequested
      BY <1>6 DEF LastInv, ClosingInv, OpenInv, HomeLabels
    <2>2. Destroy(a)
      BY <1>6 DEF Step, Last, Count, Purge, Finish, ReapIo, ReapCt, JoinCt,
                  Unfinish, Uncount, Start, Begin, Loop, Exit, InitReturns,
                  IoProcessed, CtDrain, CtCallbackReturns
    <2>3. ASSUME NEW b \in Actors \ {a}
          PROVE  Owned(b) = 0
      <3>1. at[b] \in Resting /\ at[b] \in HomeLabels
        BY <2>1 DEF LastOne, Resting, HomeLabels
      <3> QED
        BY <3>1, OwnedValue, HomeRefsValue DEF CountInv, Resting
    <2>4. Using = {}
      BY <1>6, <2>3 DEF Using
    <2>5. at'[a] \in Resting
      <3>1. at'[a] = Head(stack[a])
        BY <1>0, <2>2 DEF Destroy, Return, Goto
      <3> QED
        BY <2>1, <3>1 DEF LastOne, Resting
    <2>6. a \notin Using'
      <3>1. at'[a] \in HomeLabels
        BY <2>5 DEF Resting, HomeLabels
      <3>2. stack'[a] = <<>>
        BY <3>1 DEF CountInv, StackInv, AtHome, Away, HomeLabels, AwayLabels
      <3>3. Load(at'[a], <<>>) = 0
        BY <2>5, <3>1, AtHomeLoad, HomeRefsValue DEF Resting
      <3> QED
        BY <3>2, <3>3 DEF Using, Owned
    <2>7. Using' = {}
      BY <1>3, <2>4, <2>6
    <2>8. Lifetime!Free
      BY <1>0, <1>2, <2>1, <2>2, <2>4, <2>7 DEF Lifetime!Free, Destroy, Using
    <2> QED
      BY <2>8 DEF Lifetime!Next
  <1>7. CASE a \notin Using /\ at[a] # "destroy"
    <2>1. at[a] \in {"start", "last", "count"} /\ Owned(a) = 0
      BY <1>2, <1>7, OutsideLabels
    <2>2. freed' = freed
      <3>1. freed' = FALSE /\ freed = FALSE
        BY <1>0, <1>2, <1>7
      <3> QED
        BY <3>1
    <2>3. SUFFICES ASSUME a \in Using'
                   PROVE  Using # {}
      <3>1. CASE a \in Using'
        <4>1. Using' = Using \cup {a}
          BY <1>3, <3>1
        <4>2. Lifetime!Enter(a)
          BY <1>0, <1>2, <2>2, <2>3, <3>1, <4>1 DEF Lifetime!Enter, Using
        <4> QED
          BY <4>2 DEF Lifetime!Next
      <3>2. CASE a \notin Using'
        <4>1. Using' = Using
          BY <1>3, <1>7, <3>2
        <4> QED
          BY <1>2, <2>2, <4>1
      <3> QED
        BY <3>1, <3>2
    <2>4. CASE at[a] = "start"
      <3>1. a \in Threads /\ ~Started
        BY <2>4 DEF LastInv, StartInv, Started, Actors
      <3>2. at["app"] = "init" /\ "app" \in Actors
        BY <3>1 DEF LastInv, StartInv, Actors
      <3>3. Owned("app") = 1
        BY <3>2, OwnedValue DEF CountInv, HomeLabels, HomeRefs
      <3> QED
        BY <3>2, <3>3 DEF Using
    <2>5. CASE at[a] = "last"
      <3>1. closeRequested
        BY <2>5 DEF LastInv, OpenInv, HomeLabels
      <3>2. Last(a)
        BY <2>5 DEF Step, Destroy, Count, Purge, Finish, ReapIo, ReapCt,
                    JoinCt, Unfinish, Uncount, Start, Begin, Loop, Exit,
                    InitReturns, IoProcessed, CtDrain, CtCallbackReturns
      <3>3. at'[a] = "count" /\ stack' = stack
        BY <1>0, <3>1, <3>2 DEF Last, Goto
      <3>4. PICK h \in HomeLabels \ {"start"} : stack[a] = <<h>>
        BY <2>5, OwnedValue DEF CountInv, AwayLabels
      <3>5. /\ Load("last", <<h>>) = HomeRefs(h) + CloseRefs("last")
            /\ Load("count", <<h>>) = HomeRefs(h) + CloseRefs("count")
            /\ CloseRefs("last") = CloseRefs("count")
        BY AwayLoad, CloseRefsValue DEF AwayLabels
      <3>6. Owned(a)' = Owned(a)
        BY <2>5, <3>3, <3>4, <3>5 DEF Owned
      <3> QED
        BY <2>1, <2>3, <3>6 DEF Using
    <2>6. CASE at[a] = "count"
      <3>1. Count(a)
        BY <2>6 DEF Step, Destroy, Last, Purge, Finish, ReapIo, ReapCt,
                    JoinCt, Unfinish, Uncount, Start, Begin, Loop, Exit,
                    InitReturns, IoProcessed, CtDrain, CtCallbackReturns
      <3>2. at'[a] # "destroy"
        BY <2>3 DEF Using
      <3>3. refs >= 1
        BY <1>0, <3>1, <3>2 DEF Count, Goto
      <3>4. PICK b \in Actors : b # a /\ Owned(b) > 0
        <4>1. refs = Owned("app") + Owned("io") + Owned("ct")
          BY <1>0 DEF CountInv, CountIsExact
        <4>2. \A b \in Actors : Owned(b) \in 0..4
          BY OwnedValue DEF CountInv
        <4>3. {"app", "io", "ct"} = Actors
          BY DEF Actors, Threads
        <4> QED
          BY <2>1, <3>3, <4>1, <4>2, <4>3
      <3>5. at[b] # "destroy"
        BY <2>6, <3>4 DEF LastInv, ClosingInv, LastOne, Resting
      <3> QED
        BY <3>4, <3>5 DEF Using
    <2> QED
      BY <2>1, <2>4, <2>5, <2>6
  <1> QED
    BY <1>5, <1>6, <1>7

(* zookeeper_close, and what zookeeper_process queues *)
LEMMA ChoiceRefines ==
    ASSUME OneCloser, CountInv, LastInv, ~freed, NEW a \in Actors, Choice(a)
    PROVE  [Lifetime!Next]_<<Using, closeRequested, freed>>
  <1>1. CASE zookeeper_close(a)
    <2>1. /\ at' = [at EXCEPT ![a] = "count"] /\ at[a] = Calls[a]
          /\ stack' = [stack EXCEPT ![a] = <<Returns[a]>> \o @]
          /\ at \in [Actors -> Labels] /\ stack \in [Actors -> Seq(Labels)]
          /\ closeRequested' = TRUE /\ freed' = freed
      BY <1>1 DEF zookeeper_close, Goto, CountInv, TypesInv
    <2>2. /\ at[a] \in HomeLabels /\ Returns[a] \in HomeLabels \ {"start"}
          /\ HomeRefs(at[a]) = HomeRefs(Returns[a])
      BY <2>1, HomeRefsValue
         DEF Calls, Returns, Actors, Threads, HomeLabels, HomeRefs
    <2>3. stack[a] = <<>> /\ stack'[a] = <<Returns[a]>>
      <3>1. stack[a] = <<>>
        BY <2>2, HomeStack
      <3>2. <<Returns[a]>> \o <<>> = <<Returns[a]>>
        OBVIOUS
      <3> QED
        BY <2>1, <3>1, <3>2
    <2>4. Owned(a)' = Owned(a)
      <3>1. Load("count", <<Returns[a]>>) = HomeRefs(Returns[a])
        <4> DEFINE h == Returns[a]
        <4>1. h \in HomeLabels \ {"start"}
          BY <2>2
        <4> HIDE DEF h
        <4>2. Load("count", <<h>>) = HomeRefs(h) + CloseRefs("count")
          BY <4>1, AwayLoad DEF AwayLabels
        <4>3. CloseRefs("count") = 0 /\ HomeRefs(h) \in Nat
          BY <4>1, CloseRefsValue, RefsAreNumbers DEF AwayLabels
        <4>4. Load("count", <<h>>) = HomeRefs(h)
          BY <4>2, <4>3
        <4> QED
          BY <4>4 DEF h
      <3>2. Load(at[a], <<>>) = HomeRefs(at[a])
        BY <2>2, AtHomeLoad
      <3>3. at'[a] = "count"
        BY <2>1
      <3> QED
        BY <2>2, <2>3, <3>1, <3>2, <3>3 DEF Owned
    <2>5. \A b \in Actors : Owned(b)' = Owned(b)
      BY <2>1, <2>4 DEF Owned
    <2>6. \A b \in Actors : at'[b] = "destroy" <=> at[b] = "destroy"
      BY <2>1, <2>2 DEF HomeLabels
    <2>7. Using' = Using
      BY <2>5, <2>6 DEF Using
    <2>8. Lifetime!Close
      BY <2>1, <2>7 DEF Lifetime!Close, Using
    <2> QED
      BY <2>8 DEF Lifetime!Next
  <1>2. CASE IoQueue
    <2>1. /\ \A b \in Actors :
                at'[b] = at[b] \/ (at[b] = "asleep" /\ at'[b] = "drain")
          /\ UNCHANGED <<closeRequested, stack, plan, freed>>
      BY <1>2 DEF IoQueue, Woken, CountInv, TypesInv
    <2>2. ASSUME NEW b \in Actors
          PROVE  (b \in Using)' <=> b \in Using
      <3>1. PICK c \in Actors : b # c
        BY DEF Actors, Threads
      <3>2. Frame(c)
        BY <2>1 DEF Frame
      <3> QED
        BY <3>1, <3>2, OthersStay
    <2>3. Using' = Using
      BY <2>2 DEF Using
    <2> QED
      BY <2>1, <2>3
  <1> QED
    BY <1>1, <1>2 DEF Choice

(* The handle is freed once, when it is being closed and nobody uses it,   *)
(* and nobody takes a reference after that or when there is none left to   *)
(* keep it alive: HandleLifecycle implements SharedLifetime, if one thread *)
(* calls zookeeper_close as above.                                         *)
THEOREM LifetimeIsShared ==
    ASSUME OneCloser
    PROVE  Spec => LifetimeHolds
  <1>1. Init => CountInv /\ LastInv
    BY CountInit, LastInit
  <1>2. CountInv /\ LastInv /\ [Next]_vars => (CountInv /\ LastInv)'
    BY CountNext, LastNext
  <1>3. Init => Lifetime!Init
    <2> SUFFICES ASSUME Init
                 PROVE  Lifetime!Init
      OBVIOUS
    <2>1. closeRequested = FALSE /\ freed = FALSE
      BY DEF Init
    <2>2. Using # {} /\ Using \subseteq Actors
      BY <1>1, <2>1, SomebodyUses DEF Using, Kept
    <2>3. {a \in Actors : Owned(a) > 0 /\ at[a] # "destroy"}
             \in (SUBSET Actors) \ {{}}
      BY <2>2 DEF Using
    <2> QED
      BY <2>1, <2>3 DEF Lifetime!Init
  <1>k. CountInv /\ LastInv => Kept
    BY SomebodyUses
  <1>4. CountInv /\ LastInv /\ (CountInv /\ LastInv /\ Kept)' /\ [Next]_vars
           => [Lifetime!Next]_<<Using, closeRequested, freed>>
    <2> SUFFICES ASSUME CountInv, LastInv, CountInv', LastInv', Kept',
                        [Next]_vars
                 PROVE  [Lifetime!Next]_<<Using, closeRequested, freed>>
      OBVIOUS
    <2>1. CASE UNCHANGED vars
      BY <2>1 DEF vars, Using, Owned
    <2>2. ASSUME NEW a \in Actors, Scheduled(a), Step(a) \/ Choice(a)
          PROVE  [Lifetime!Next]_<<Using, closeRequested, freed>>
      BY <2>2, StepRefines, ChoiceRefines DEF Choice
    <2> QED
      BY <2>1, <2>2 DEF Next
  <1>5. CountInv /\ LastInv /\ (CountInv /\ LastInv /\ Kept)' /\ [Next]_vars
           => [Lifetime!Next]_<<{a \in Actors :
                                   Owned(a) > 0 /\ at[a] # "destroy"},
                                closeRequested, freed>>
    BY <1>4 DEF Using
  <1> QED
    BY <1>1, <1>2, <1>3, <1>k, <1>5, PTL
       DEF Spec, LifetimeHolds, Lifetime!Spec
=============================================================================
