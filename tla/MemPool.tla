------------------------------- MODULE MemPool -------------------------------
(***************************************************************************)
(* A memory pool of mempool.c: equal blocks in a free list linked through  *)
(* their headers, threads that wait for a block, and a count of them kept  *)
(* beside the wait list, which is what rt_mp_free looks at.                *)
(*                                                                         *)
(*   app                          outside the kernel                       *)
(*   alloc_sched, alloc_error     queued; after rt_schedule()              *)
(*   alloc_again                  no error: before it tests the pool again *)
(*   call_sched                   rt_mp_free before its rt_schedule()      *)
(*                                                                         *)
(* Receivers is mp->suspend_thread.                                        *)
(***************************************************************************)
EXTENDS Calls

CONSTANTS
  MpBoot,         \* how the threads were started
  PoolBlock,      \* the blocks of the pool
  Pool,           \* the header of an allocated block: the pool
  MpUses,         \* the ways the pool is used, the values of uses
  MaxStale        \* bound: how far the count may run ahead of the wait list

MemPoolAssumption ==
  /\ CallsAssumption /\ StartOK(MpBoot)
  /\ IsFiniteSet(PoolBlock) /\ PoolBlock # {} /\ Null \notin PoolBlock /\ Pool \notin PoolBlock
  /\ Null # Pool
  /\ \A w \in MpUses : w \subseteq (Thread \ {Idle}) \X BOOLEAN
  /\ MaxStale \in Nat

VARIABLES
  uses,                \* who waits in rt_mp_alloc, and whether with a time-out
  list, header,        \* mp->block_list, and the first word of each block
  freeCount,           \* mp->block_free_count
  suspendCount,        \* mp->suspend_thread_count
  held,                \* the blocks each thread has
  stray                \* history: a list head was taken for a thread

mpPool == <<list, header, freeCount>>
mpVars == <<k, pc, uses, mpPool, suspendCount, held, timed, stray>>

MpPC == {"app", "alloc_sched", "alloc_error", "alloc_again", "call_sched"}

MpSize == Cardinality(PoolBlock)

MpTypeOK ==
  /\ k \in Kernel
  /\ pc \in [Thread -> MpPC]
  /\ list \in PoolBlock \cup {Null}
  /\ header \in [PoolBlock -> PoolBlock \cup {Null, Pool}]
  /\ freeCount \in 0 .. MpSize
  /\ suspendCount \in 0 .. Cardinality(Thread) + MaxStale
  /\ held \in [Thread -> SUBSET PoolBlock]
  /\ timed \subseteq Thread
  /\ stray \in BOOLEAN

(* The blocks from p on, following the headers *)
MpChain(p) == ChainOf(PoolBlock, header, p)

MpInit ==
  /\ Started(MpBoot)
  /\ uses \in MpUses
  /\ list \in PoolBlock /\ header \in [PoolBlock -> PoolBlock \cup {Null}]
  /\ LinkedAll(PoolBlock, list, header)
  /\ freeCount = MpSize /\ suspendCount = 0
  /\ held = [t \in Thread |-> {}]
  /\ timed = {} /\ stray = FALSE

-----------------------------------------------------------------------------
MpMayAlloc == Me \in {w[1] : w \in uses}

(* The block leaves the free list; its header then names its pool. *)
MpTakeBlockUnmoved ==          \* mutant: the list head is not moved
  /\ freeCount > 0
  /\ freeCount' = freeCount - 1
  /\ list' = list
  /\ header' = [header EXCEPT ![list] = Pool]
  /\ held' = [held EXCEPT ![Me] = @ \cup {list}]
  /\ Go("app")
  /\ UNCHANGED <<k, suspendCount, timed, stray>>

MpTakeBlock ==
  /\ freeCount > 0
  /\ freeCount' = freeCount - 1
  /\ list' = header[list]
  /\ header' = [header EXCEPT ![list] = Pool]
  /\ held' = [held EXCEPT ![Me] = @ \cup {list}]
  /\ Go("app")
  /\ UNCHANGED <<k, suspendCount, timed, stray>>

MpQueueUncounted(isTimed) ==   \* mutant: the waiter is not counted
  LET u == InsertFirst(Suspend(WithError(k, Me, "EOK"), Me), Wait(Receivers), Me)
  IN  /\ freeCount = 0
      /\ k' = IF isTimed THEN TimerStart(u, Me) ELSE u
      /\ Go("alloc_sched")
      /\ UNCHANGED <<mpPool, suspendCount, held, stray>>

(* The thread waits at the front of the list.  (The list has no flag: the  *)
(* last to come is served first.)                                          *)
MpQueue(isTimed) ==
  LET u == InsertFirst(Suspend(WithError(k, Me, "EOK"), Me), Wait(Receivers), Me)
  IN  /\ freeCount = 0
      /\ k' = IF isTimed THEN TimerStart(u, Me) ELSE u
      /\ suspendCount' = suspendCount + 1
      /\ Go("alloc_sched")
      /\ UNCHANGED <<mpPool, held, stray>>

(* rt_mp_alloc; with time 0 an empty pool only sets thread->error *)
MpAllocNow == At("app") /\ MpMayAlloc /\ MpTakeBlock

MpAllocFails ==
  /\ At("app") /\ MpMayAlloc /\ freeCount = 0
  /\ k' = WithError(k, Me, "ETIMEOUT")
  /\ UNCHANGED <<pc, mpPool, suspendCount, held, timed, stray>>

MpAllocWait ==
  /\ At("app")
  /\ \E isTimed \in BOOLEAN :
       /\ <<Me, isTimed>> \in uses
       /\ MpQueue(isTimed)
       /\ Patience(isTimed)

MpAllocSchedule ==
  /\ At("alloc_sched") /\ Go("alloc_error")
  /\ k' = Schedule(k)
  /\ UNCHANGED <<mpPool, suspendCount, held, timed, stray>>

MpAllocError ==
  /\ At("alloc_error") /\ Go(IF k.err[Me] = "EOK" THEN "alloc_again" ELSE "app")
  /\ UNCHANGED <<k, mpPool, suspendCount, held, timed, stray>>

MpAllocAgain == At("alloc_again") /\ MpTakeBlock

MpAllocWaitAgain == At("alloc_again") /\ MpQueue(Me \in timed) /\ UNCHANGED timed

MpAllocTimeUp ==
  /\ At("alloc_again") /\ freeCount = 0 /\ Me \in timed
  /\ k' = WithError(k, Me, "ETIMEOUT")
  /\ Go("app")
  /\ UNCHANGED <<mpPool, suspendCount, held, timed, stray>>

(* The region of rt_mp_free: the block goes back, and the count says       *)
(* whether a thread waits.  Taking the head of an empty list for a thread  *)
(* leaves kernel memory in a state outside this model: it stops there.     *)
MpGiveBlock(b) ==
  /\ freeCount' = freeCount + 1
  /\ header' = [header EXCEPT ![b] = list]
  /\ list' = b

MpWake ==
  IF Waiters(k, Receivers) = <<>>
  THEN stray' = TRUE /\ UNCHANGED suspendCount
  ELSE suspendCount' = suspendCount - 1 /\ UNCHANGED stray

MpResumed ==
  LET t == Waiters(k, Receivers)[1] IN Resume(WithError(k, t, "EOK"), t)

MpFree(b) ==
  /\ At("app") /\ b \in held[Me]
  /\ held' = [held EXCEPT ![Me] = @ \ {b}]
  /\ MpGiveBlock(b)
  /\ IF suspendCount > 0
     THEN /\ MpWake
          /\ k' = IF Waiters(k, Receivers) = <<>> THEN k ELSE MpResumed
          /\ Go("call_sched")
     ELSE UNCHANGED <<k, pc, suspendCount, stray>>
  /\ UNCHANGED timed

(* An interrupt handler frees a block that thread t gave to a driver. *)
MpIsrFree(t, b) ==
  /\ b \in held[t]
  /\ held' = [held EXCEPT ![t] = @ \ {b}]
  /\ MpGiveBlock(b)
  /\ IF suspendCount > 0
     THEN /\ MpWake
          /\ k' = IF Waiters(k, Receivers) = <<>> THEN k ELSE Schedule(MpResumed)
     ELSE UNCHANGED <<k, suspendCount, stray>>
  /\ UNCHANGED <<pc, timed>>

(* The steps of Calls leave the pool alone. *)
MpReturn == CallSchedule /\ UNCHANGED <<mpPool, suspendCount, held, timed, stray>>

MpTick ==
  /\ TickYield \/ \E t \in Thread :
                  suspendCount < Len(Waiters(k, Receivers)) + MaxStale /\ TickTimeout(t)
  /\ UNCHANGED <<mpPool, suspendCount, held, timed, stray>>

MpSteps ==
  \/ MpAllocNow \/ MpAllocFails \/ MpAllocWait \/ MpAllocSchedule \/ MpAllocError
  \/ MpAllocAgain \/ MpAllocWaitAgain \/ MpAllocTimeUp
  \/ \E b \in PoolBlock : MpFree(b) \/ \E t \in Thread : MpIsrFree(t, b)
  \/ MpReturn \/ MpTick

(* The model stops where the code takes a list head for a thread. *)
MpNext == ~stray /\ MpSteps /\ UNCHANGED uses

MpSpec == MpInit /\ [][MpNext]_mpVars

-----------------------------------------------------------------------------
(* Every block is free or held by one thread, the free ones are counted,   *)
(* and a held block still names its pool, which rt_mp_free relies on.      *)
MpBlocksAccounted ==
  LET c == MpChain(list)
  IN  /\ c[Len(c)] = Null /\ Len(c) = freeCount + 1
      /\ \A b \in PoolBlock :
           IsIn(c, b) <=> ~\E t \in Thread : b \in held[t]
      /\ \A t, u \in Thread : t # u => held[t] \cap held[u] = {}
      /\ \A t \in Thread, b \in PoolBlock : b \in held[t] => header[b] = Pool

MpUntimed == \A w \in uses : ~w[2]

(* No lost wake-up where nobody waits with a time-out: free blocks are     *)
(* matched by threads woken for them.                                      *)
MpNobodyStranded ==
  MpUntimed /\ Waiters(k, Receivers) # <<>> =>
    freeCount <= Cardinality(Woken({"alloc_sched", "alloc_error", "alloc_again"}, Receivers))

(* "get the suspended thread" (mempool.c:440): when the count says that a  *)
(* thread waits, there is one.                                             *)
FreeWakesAThread == ~stray
=============================================================================
