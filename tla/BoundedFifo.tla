---------------------------- MODULE BoundedFifo ----------------------------
(***************************************************************************)
(* What a mailbox, a message queue, a data queue or a pipe promises: a     *)
(* queue of at most capacity items, each delivered once, the oldest first. *)
(* A step moves at most burst items.  What else a kind of queue has is in  *)
(* offers:                                                                 *)
(*   "urgent"  an item may go to the front                                 *)
(*   "reset"   the queue may be emptied                                    *)
(*   "overrun" an item may be stored in a full queue; from then on nothing *)
(*             is promised                                                 *)
(***************************************************************************)
EXTENDS Naturals, Sequences

CONSTANT Item

VARIABLES
  queue,      \* the items accepted and not delivered, oldest first
  delivered,  \* the items delivered last
  lost,       \* a full queue was overrun
  capacity, burst, offers   \* the kind of queue

fifoVars == <<queue, delivered, lost>>

FifoInit == queue = <<>> /\ delivered = <<>> /\ lost = FALSE

Put(s) ==
  /\ Len(queue) + Len(s) <= capacity
  /\ queue' = queue \o s
  /\ UNCHANGED delivered

PutUrgent(x) ==
  /\ "urgent" \in offers
  /\ Len(queue) < capacity
  /\ queue' = <<x>> \o queue
  /\ UNCHANGED delivered

Get(n) ==
  /\ n <= Len(queue)
  /\ delivered' = SubSeq(queue, 1, n)
  /\ queue' = SubSeq(queue, n + 1, Len(queue))

Reset == "reset" \in offers /\ queue' = <<>> /\ UNCHANGED delivered

Overrun == "overrun" \in offers /\ Len(queue) = capacity

FifoNext ==
  \/ /\ lost = FALSE /\ lost' = FALSE
     /\ \/ \E n \in 1 .. burst : Get(n) \/ \E s \in [1 .. n -> Item] : Put(s)
        \/ \E x \in Item : PutUrgent(x)
        \/ Reset
  \/ lost' = TRUE /\ (lost \/ Overrun)

FifoSpec == FifoInit /\ [][FifoNext]_fifoVars
=============================================================================
