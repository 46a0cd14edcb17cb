------------------------------ MODULE MCThreads ------------------------------
(***************************************************************************)
(* Threads: sl sleeps, locks the scheduler and returns from its entry      *)
(* function; mgr sleeps and locks too and manages w1 and w2.  It makes w1, *)
(* starts it, resumes it and deletes it, while w1 suspends itself or       *)
(* exits; it also suspends, resumes and re-prioritises w2, which does not  *)
(* block.                                                                  *)
(***************************************************************************)
EXTENDS Threads, TLC

CONSTANTS sl, mgr, w1, w2

MCInitPrio == (sl :> 0) @@ (mgr :> 1) @@ (w1 :> 1) @@ (w2 :> 1) @@ (Idle :> 2)
MCBoot == (0 :> <<sl>>) @@ (1 :> <<mgr, w2>>) @@ (2 :> <<Idle>>)

MCMay ==
  {<<"lock", sl, sl>>, <<"lock", mgr, mgr>>}
  \cup {<<"sleep", t, t>> : t \in {sl, mgr}}
  \cup {<<op, mgr, w1>> : op \in {"create", "startup", "resume", "delete"}}
  \cup {<<"suspend", w1, w1>>, <<"exit", w1, w1>>, <<"exit", sl, sl>>}
  \cup {<<op, mgr, w2>> : op \in {"suspend", "resume", "priority"}}

ASSUME ThreadsAssumption /\ Disciplined
=============================================================================
