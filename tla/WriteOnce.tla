----------------------------- MODULE WriteOnce -----------------------------
(***************************************************************************)
(* What every store of this program promises: a name is given its content  *)
(* at most once, all at once, and keeps it.  Dataset manifests, published  *)
(* run directories and hosted artifacts are stores of this kind.           *)
(***************************************************************************)
CONSTANTS
  Names,
  Contents,
  Nothing       \* the content of a name that has not been published

VARIABLE store  \* store[n]: what a reader of the name finds

Publish(n, c) ==
  /\ store[n] = Nothing
  /\ store' = [store EXCEPT ![n] = c]

WriteOnceInit == store = [n \in Names |-> Nothing]

WriteOnceNext == \E n \in Names, c \in Contents : Publish(n, c)

WriteOnceSpec == WriteOnceInit /\ [][WriteOnceNext]_store
=============================================================================
