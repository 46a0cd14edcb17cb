------------------------------- MODULE Mutexes -------------------------------
(***************************************************************************)
(* Mutexes under two disciplines of their users; the variable object says  *)
(* which: "plain" is that of the constants of Mutex, in "nested" the wait  *)
(* lists are FIFO and a thread may take a second mutex and release the two *)
(* in the reverse order.                                                   *)
(***************************************************************************)
EXTENDS Mutex

CONSTANTS NestedUses, NestedSleeper   \* Uses and Sleeper of "nested"

VARIABLE object

mutexesVars == <<object, vars>>

Nested == INSTANCE Mutex WITH
  Flag <- "FIFO", Nesting <- "lifo", Uses <- NestedUses, Sleeper <- NestedSleeper

MutexesInit == Init /\ object \in {"plain", "nested"}

MutexesNext ==
  \/ object = "plain" /\ Next /\ UNCHANGED object
  \/ object = "nested" /\ Nested!Next /\ UNCHANGED object

MutexesSpec == MutexesInit /\ [][MutexesNext]_mutexesVars

-----------------------------------------------------------------------------
(* The owner is as urgent as each waiter (ipc.c:706-715), as long as no    *)
(* thread holds two mutexes: the release of the inner one takes back what  *)
(* the owner inherited through the outer one.                              *)
PlainInherits == object = "plain" => OwnerInherits
=============================================================================
