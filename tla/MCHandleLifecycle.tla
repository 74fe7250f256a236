-------------------------- MODULE MCHandleLifecycle --------------------------
(***************************************************************************)
(* Instances of HandleLifecycle for TLC: who calls zookeeper_close.        *)
(***************************************************************************)
EXTENDS HandleLifecycle

(* One thread, any of the three *)
ByOne == {{"ct"}, {"io"}, {"app"}}
=============================================================================
