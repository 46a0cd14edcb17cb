------------------------------ MODULE Completion ------------------------------
(***************************************************************************)
(* A completion of the driver framework (completion.c): a flag set by      *)
(* whoever ends an operation and consumed by the one thread that waits for *)
(* the end.                                                                *)
(*                                                                         *)
(*   wait_sched, wait_error   queued; after rt_schedule()                  *)
(*   wait_clear               result read, interrupts still enabled        *)
(*   done_set                 rt_completion_done has seen the flag clear,  *)
(*                            outside any region                           *)
(*   call_sched               before the rt_schedule() of the return       *)
(*                                                                         *)
(* Receivers is completion->suspended_list.                                *)
(***************************************************************************)
EXTENDS Calls

CONSTANTS
  CompletionBoot,   \* how the threads were started
  Waiter            \* the thread that calls rt_completion_wait

CompletionAssumption ==
  /\ CallsAssumption /\ StartOK(CompletionBoot)
  /\ Waiter \in Thread \ {Idle}

VARIABLES
  status,     \* completion->flag
  result,     \* the local result of rt_completion_wait
  signalled   \* history: rt_completion_done was called since the last wait ended

completionVars == <<k, pc, status, result, signalled>>

CompletionPC == {"app", "wait_sched", "wait_error", "wait_clear", "done_set", "call_sched"}

CompletionTypeOK ==
  /\ k \in Kernel
  /\ pc \in [Thread -> CompletionPC]
  /\ {status, signalled} \subseteq BOOLEAN
  /\ result \in Error

CompletionInit ==
  /\ Started(CompletionBoot)
  /\ status = FALSE /\ signalled = FALSE /\ result = "EOK"

-----------------------------------------------------------------------------
(* rt_completion_wait; with timeout 0 and the flag clear nothing changes.  *)
CompletionWaitNow ==
  /\ At("app") /\ Me = Waiter /\ status
  /\ status' = FALSE /\ signalled' = FALSE
  /\ UNCHANGED <<k, pc, result>>

CompletionWaitBlock ==
  /\ At("app") /\ Me = Waiter /\ ~status
  /\ \E isTimed \in BOOLEAN : k' = Block(k, Receivers, Me, "FIFO", isTimed)
  /\ Go("wait_sched")
  /\ UNCHANGED <<status, result, signalled>>

CompletionWaitSchedule ==
  /\ At("wait_sched") /\ Go("wait_error")
  /\ k' = Schedule(k)
  /\ UNCHANGED <<status, result, signalled>>

CompletionWaitError ==
  /\ At("wait_error") /\ Go("wait_clear")
  /\ result' = k.err[Me]
  /\ UNCHANGED <<k, status, signalled>>

(* The flag is cleared whatever the result is: a completion that comes     *)
(* between the time-out and this region is lost.                           *)
CompletionWaitClearLeft ==               \* mutant: the status is left to the next wait
  /\ At("wait_clear") /\ Go("app")
  /\ signalled' = FALSE
  /\ UNCHANGED <<k, status, result>>

CompletionWaitClear ==
  /\ At("wait_clear") /\ Go("app")
  /\ status' = FALSE /\ signalled' = FALSE
  /\ UNCHANGED <<k, result>>

(* rt_completion_done *)
CompletionDoneTest ==
  /\ At("app") /\ Me # Idle /\ ~status
  /\ Go("done_set")
  /\ UNCHANGED <<k, status, result, signalled>>

CompletionDoneSet ==
  /\ At("done_set")
  /\ status' = TRUE /\ signalled' = TRUE
  /\ Wake(Receivers)
  /\ UNCHANGED result

(* in an interrupt handler *)
CompletionIsrDone ==
  /\ ~status
  /\ status' = TRUE /\ signalled' = TRUE
  /\ k' = ResumeOne(Receivers)
  /\ UNCHANGED <<pc, result>>

(* The steps of Calls leave the completion alone. *)
CompletionReturn == CallSchedule /\ UNCHANGED <<status, result, signalled>>
CompletionTick == Tick /\ UNCHANGED <<status, result, signalled>>

CompletionNext ==
  \/ CompletionWaitNow \/ CompletionWaitBlock \/ CompletionWaitSchedule \/ CompletionWaitError \/ CompletionWaitClear
  \/ CompletionDoneTest \/ CompletionDoneSet \/ CompletionIsrDone \/ CompletionReturn \/ CompletionTick

CompletionSpec == CompletionInit /\ [][CompletionNext]_completionVars

-----------------------------------------------------------------------------
(* No lost wake-up: nobody sleeps on a completed completion, and the       *)
(* assertion of rt_completion_wait holds ("only one thread can suspend on  *)
(* complete", completion.c:62).                                            *)
CompletionNobodyStranded ==
  /\ Waiters(k, Receivers) # <<>> => ~status
  /\ pc[Waiter] = "app" => Waiters(k, Receivers) = <<>>

(* A wait that succeeds was ended by a call of rt_completion_done made     *)
(* after the previous wait ended, not by an earlier one or by a time-out.  *)
CompletionAnswersRequest ==
  /\ status => signalled
  /\ pc[Waiter] = "wait_clear" /\ result = "EOK" => signalled
=============================================================================
