-------------------------------- MODULE MCIpc --------------------------------
(***************************************************************************)
(* Small objects for the model checker:                                    *)
(*                                                                         *)
(*   mailbox      two mails; th1 is more urgent than th2, both send and    *)
(*                receive, in the order of their priorities                *)
(*   queue        a message queue of two messages; th1 and th2 share the   *)
(*                processor, both send, th2 receives                       *)
(*   dataqueue    two items, low water mark 1; th1 pushes, both pop        *)
(*   pipe         two bytes; th2 reads and th1 writes one or two, with and *)
(*                without blocking, sharing the processor                  *)
(*   event        two bits; th1 and th2 receive, FIFO                      *)
(*   mempool      two blocks and threads of two priorities: three that     *)
(*                wait without a time-out, or two with and without         *)
(*   completion   th1 waits, the others and a driver complete              *)
(*                                                                         *)
(* and, when service says so, instead of the objects of Ipc, which keep    *)
(* their initial state, a semaphore: three users, th1 more urgent than th2 *)
(* and th3.                                                                *)
(***************************************************************************)
EXTENDS Ipc, Semaphore, TLC

CONSTANTS th1, th2, th3, idle, m1, m2, in, out

MCThread == {th1, th2, th3, idle}
MCPrio   == {0, 1, 2}
MCItem   == {1, 2}
MCMemory == {m1, m2}     \* the messages of the queue, the blocks of the pool
MCWaitQueue == {in, out}

(* th3 is last, at the priority of th2. *)
MCUrgent ==
  [ prio  |-> (th1 :> 0) @@ (th2 :> 1) @@ (th3 :> 1) @@ (idle :> 2),
    lists |-> (0 :> <<th1>>) @@ (1 :> <<th2, th3>>) @@ (2 :> <<idle>>) ]

MCEvents ==
  [ prio  |-> (th1 :> 0) @@ (th2 :> 0) @@ (th3 :> 1) @@ (idle :> 2),
    lists |-> (0 :> <<th1, th2>>) @@ (1 :> <<th3>>) @@ (2 :> <<idle>>) ]

(* Two users of one object need no third thread: th3 is not started. *)
MCPair ==
  [ prio  |-> (th1 :> 0) @@ (th2 :> 1) @@ (th3 :> 1) @@ (idle :> 2),
    lists |-> (0 :> <<th1>>) @@ (1 :> <<th2>>) @@ (2 :> <<idle>>) ]

MCEqual ==
  [ prio  |-> (th1 :> 1) @@ (th2 :> 1) @@ (th3 :> 1) @@ (idle :> 2),
    lists |-> (0 :> <<>>) @@ (1 :> <<th2, th1>>) @@ (2 :> <<idle>>) ]

MCFirst == {th1}
MCSecond == {th2}
MCBoth  == {th1, th2}
MCUses  == {{th1, th2, th3} \X {FALSE}, {th1, th2} \X BOOLEAN}

ASSUME IpcAssumption /\ SizeFits

(* The calls of the ring buffer that move one byte, for every state of the *)
(* ring in which the mirrors differ exactly if the write index is a lap    *)
(* ahead: rt_ringbuffer_putchar stores behind the other bytes if there is  *)
(* space, _putchar_force gives up the oldest byte if there is none, and    *)
(* _getchar takes the oldest (ringbuffer.c:197-284).                       *)
InMirrors == {r \in Ring : IF r.rm = r.wm THEN r.ri <= r.wi ELSE r.wi <= r.ri}

ASSUME \A r \in InMirrors :
  LET s    == Stored(r)
      full == Len(s) = Size
  IN  /\ GetChar(r) \in InMirrors
      /\ Stored(GetChar(r)) = IF s = <<>> THEN s ELSE Tail(s)
      /\ \A b \in Byte :
           /\ {PutChar(r, b), PutCharForce(r, b)} \subseteq InMirrors
           /\ Stored(PutChar(r, b)) = IF full THEN s ELSE Append(s, b)
           /\ Stored(PutCharForce(r, b)) = Append(IF full THEN Tail(s) ELSE s, b)

MCSemPrio == MCUrgent.prio
MCSemBoot == MCUrgent.lists

-----------------------------------------------------------------------------
VARIABLE service

mcvars == <<service, ipcVars, vars>>

MCInit ==
  /\ IpcInit /\ Init
  /\ \/ service = "exchange"
     \/ service = "semaphore" /\ object = "event"

MCNext ==
  \/ service = "exchange" /\ IpcNext /\ UNCHANGED <<service, vars>>
  \/ service = "semaphore" /\ Next /\ UNCHANGED <<service, ipcVars>>

MCSpec == MCInit /\ [][MCNext]_mcvars

(* NobodyStranded, MemoryAccounted, CopiedIntact, AnswersRequest,          *)
(* ClearedOnce and ImplementsFifo are those of Ipc, TypeOK,                *)
(* KernelConsistent, UnitsConserved and NoLostWakeup those of Semaphore.   *)
=============================================================================
