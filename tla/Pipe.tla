-------------------------------- MODULE Pipe --------------------------------
(***************************************************************************)
(* The pipe device (pipe.c): a ring buffer of bytes between threads (and   *)
(* interrupt handlers) that write and threads that read.  Each direction   *)
(* blocks or not, as the pipe was created.  A call copies at least one     *)
(* byte and as many as it can; it wakes one thread of the other side, and  *)
(* calls rt_schedule() before interrupts are enabled again.                *)
(*                                                                         *)
(*   read_sched, write_sched   suspended, before rt_schedule()             *)
(*   read_again, write_again   resumed, before the loop copies again       *)
(*                                                                         *)
(* Receivers is pipe->suspended_read_list, Senders suspended_write_list.   *)
(***************************************************************************)
EXTENDS Calls, RingBuffer

CONSTANTS
  PipeBoot,                   \* how the threads were started
  PipeMayRead, PipeMayWrite,  \* the threads that call rt_pipe_read, _write
  MaxRequest                  \* bound of the size of a call

PipeAssumption ==
  /\ RingAssumption /\ CallsAssumption /\ StartOK(PipeBoot)
  /\ PipeMayRead \cup PipeMayWrite \subseteq Thread \ {Idle}
  /\ MaxRequest \in Nat \ {0}

VARIABLES
  flag,     \* pipe->flag, a set of "BLOCK_RD" and "BLOCK_WR"
  ring,     \* pipe->ringbuffer
  wants     \* the number of bytes a thread is reading

pipeVars == <<k, pc, flag, ring, mail, wants, last>>

PipePC == {"app", "read_sched", "read_again", "write_sched", "write_again"}

PipeWritten == UNION {[1 .. n -> Byte] : n \in 1 .. MaxRequest}

PipeTypeOK ==
  /\ k \in Kernel
  /\ pc \in [Thread -> PipePC]
  /\ flag \subseteq {"BLOCK_RD", "BLOCK_WR"}
  /\ ring \in Ring
  /\ mail \in [Thread -> {<<>>} \cup PipeWritten] /\ wants \in [Thread -> 0 .. MaxRequest]
  /\ last \in {<<>>} \cup PipeWritten

(* rt_pipe_init *)
PipeInit ==
  /\ Started(PipeBoot)
  /\ flag \in SUBSET {"BLOCK_RD", "BLOCK_WR"}
  /\ ring = NewRing(CHOOSE b \in Byte : TRUE)
  /\ mail = [t \in Thread |-> <<>>] /\ wants = [t \in Thread |-> 0]
  /\ last = <<>>

-----------------------------------------------------------------------------
PipeTransfer(n) ==
  /\ DataLen(ring) > 0
  /\ last' = Taken(ring, n) /\ ring' = GetBytes(ring, n)
  /\ k' = ResumeOne(Senders)

PipeStore(s) ==
  /\ ring' = PutBytes(ring, s)
  /\ k' = ResumeOne(Receivers)
  /\ UNCHANGED last

PipeSuspended(q, sched) ==
  /\ k' = ListSuspend(k, q, Me, "FIFO")
  /\ Go(sched)
  /\ UNCHANGED <<ring, last>>

(* rt_pipe_read; a read that does not block and finds nothing changes      *)
(* nothing.                                                                *)
PipeRead(n) ==
  /\ At("app") /\ Me \in PipeMayRead
  /\ PipeTransfer(n)
  /\ UNCHANGED <<pc, flag, mail, wants>>

PipeReadWait(n) ==
  /\ At("app") /\ Me \in PipeMayRead
  /\ "BLOCK_RD" \in flag /\ DataLen(ring) = 0
  /\ PipeSuspended(Receivers, "read_sched")
  /\ wants' = [wants EXCEPT ![Me] = n]
  /\ UNCHANGED <<flag, mail>>

PipeReadAgain ==
  /\ At("read_again")
  /\ \/ PipeTransfer(wants[Me]) /\ Go("app")
     \/ DataLen(ring) = 0 /\ PipeSuspended(Receivers, "read_sched")
  /\ UNCHANGED <<flag, mail, wants>>

(* rt_pipe_write; without blocking it stores what fits, perhaps nothing.   *)
PipeWrite(s) ==
  /\ At("app") /\ Me \in PipeMayWrite
  /\ "BLOCK_WR" \in flag => SpaceLen(ring) > 0
  /\ PipeStore(s)
  /\ UNCHANGED <<pc, flag, mail, wants>>

PipeWriteWait(s) ==
  /\ At("app") /\ Me \in PipeMayWrite
  /\ "BLOCK_WR" \in flag /\ SpaceLen(ring) = 0
  /\ PipeSuspended(Senders, "write_sched")
  /\ mail' = [mail EXCEPT ![Me] = s]
  /\ UNCHANGED <<flag, wants>>

PipeWriteAgain ==
  /\ At("write_again")
  /\ \/ SpaceLen(ring) > 0 /\ PipeStore(mail[Me]) /\ Go("app")
     \/ SpaceLen(ring) = 0 /\ PipeSuspended(Senders, "write_sched")
  /\ UNCHANGED <<flag, mail, wants>>

PipeWaitSchedule ==
  /\ \/ At("read_sched") /\ Go("read_again")
     \/ At("write_sched") /\ Go("write_again")
  /\ k' = Schedule(k)
  /\ UNCHANGED <<flag, ring, mail, wants, last>>

(* An interrupt handler uses the side of the pipe that does not block. *)
PipeIsrRead(n) ==
  /\ "BLOCK_RD" \notin flag /\ PipeTransfer(n)
  /\ UNCHANGED <<pc, flag, mail, wants>>

PipeIsrWrite(s) ==
  /\ "BLOCK_WR" \notin flag /\ PipeStore(s)
  /\ UNCHANGED <<pc, flag, mail, wants>>

(* The time slice of a thread ends; no call of a pipe has a time-out. *)
PipeYield == TickYield /\ UNCHANGED <<flag, ring, mail, wants, last>>

PipeNext ==
  \/ \E n \in 1 .. MaxRequest : PipeRead(n) \/ PipeReadWait(n) \/ PipeIsrRead(n)
  \/ \E s \in PipeWritten : PipeWrite(s) \/ PipeWriteWait(s) \/ PipeIsrWrite(s)
  \/ PipeReadAgain \/ PipeWriteAgain \/ PipeWaitSchedule \/ PipeYield

PipeSpec == PipeInit /\ [][PipeNext]_pipeVars

-----------------------------------------------------------------------------
(* A call wakes one thread whatever it leaves behind, which is enough for  *)
(* one reader and one writer: while one waits, there is nothing for it in  *)
(* the buffer.                                                             *)
PipeNobodyStranded ==
  /\ Waiters(k, Receivers) # <<>> => DataLen(ring) = 0
  /\ Waiters(k, Senders) # <<>> => SpaceLen(ring) = 0

(* The bytes are read once, in the order they were written. *)
PipeContents == Stored(ring)
=============================================================================
