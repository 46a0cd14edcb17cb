------------------------------- MODULE UartTx -------------------------------
(***************************************************************************)
(* The transmitter of USART2 (usart2.c): Uart2_Put_Buf stores a frame in   *)
(* the ring WIFI_TxBuffer and enables the TXE interrupt, which sends one   *)
(* byte each time and is disabled when it has caught up.  The indices are  *)
(* bytes and wrap where the ring ends.  What the bytes are is left out.    *)
(*                                                                         *)
(* One thread calls Uart2_Put_Buf; the interrupt comes anywhere in a call. *)
(*   store   in the loop, left bytes to go                                 *)
(*   test    before the test of TXEIE                                      *)
(*                                                                         *)
(* The handler sends only if frames are exchanged (socket_start).  If it   *)
(* does not, nothing clears the cause of the interrupt: it comes again as  *)
(* soon as the handler has returned, and no thread executes.               *)
(*                                                                         *)
(* Nobody asks whether a frame finds room.  The store index overtakes the  *)
(* send index if a frame is stored in a full ring, and also if it is       *)
(* stored while a lap of old bytes is sent (see Ahead); what was stored    *)
(* and not sent is then lost.  The history overrun says so until the       *)
(* interrupt has caught up.                                                *)
(***************************************************************************)
EXTENDS Naturals

CONSTANTS
  TxSize,      \* the size of the ring, 256
  Frames       \* the lengths of the frames

UartTxAssumption == TxSize \in Nat \ {0} /\ Frames \subseteq 1 .. TxSize - 1

VARIABLES
  count_2, TxCounter_2,    \* where the next byte is stored, and sent
  txeie,                   \* USART_CR1_TXEIE
  put, left,               \* the call of Uart2_Put_Buf
  exchanging,              \* socket_start: frames are exchanged
  owed, overrun            \* history: the bytes stored and not sent, or that
                           \* some of them are lost

index    == <<count_2, TxCounter_2>>
txVars   == <<index, txeie, put, left, owed, overrun>>
uartVars == <<txVars, exchanging>>

UartTypeOK ==
  /\ {count_2, TxCounter_2, left} \subseteq 0 .. TxSize - 1 /\ owed \in 0 .. TxSize
  /\ put \in {"app", "store", "test"}
  /\ {txeie, overrun, exchanging} \subseteq BOOLEAN

TxInit ==
  /\ count_2 = 0 /\ TxCounter_2 = 0 /\ txeie = FALSE
  /\ put = "app" /\ left = 0 /\ owed = 0 /\ overrun = FALSE

UartInit == TxInit /\ exchanging = FALSE

-----------------------------------------------------------------------------
Following(i) == (i + 1) % TxSize

(* USART2_IRQHandler interrupts whatever executes, without an end. *)
Storm == txeie /\ ~exchanging

(* The bytes the enabled interrupt sends until it is disabled.  If a call  *)
(* enabled it on an empty ring, that is a lap of old bytes.                *)
Ahead ==
  LET gap == (count_2 + TxSize - TxCounter_2) % TxSize
  IN  IF gap = 0 THEN TxSize ELSE gap

(* Uart2_Put_Buf; it has no test for a full ring. *)
PutFrame(n) ==
  /\ ~Storm /\ put = "app"
  /\ put' = "store" /\ left' = n
  /\ UNCHANGED <<index, txeie, owed, overrun>>

PutByte ==
  /\ ~Storm /\ put = "store"
  /\ count_2' = Following(count_2)
  /\ left' = left - 1 /\ put' = IF left = 1 THEN "test" ELSE "store"
  /\ overrun' = (overrun \/ (count_2 = TxCounter_2 /\ owed > 0))
  /\ owed' = IF overrun' THEN 0 ELSE owed + 1
  /\ UNCHANGED <<TxCounter_2, txeie>>

PutEnd ==
  /\ ~Storm /\ put = "test"
  /\ txeie' = TRUE /\ put' = "app"
  /\ UNCHANGED <<index, left, owed, overrun>>

(* USART2_IRQHandler with a socket: one byte. *)
SendByteEarly ==           \* mutant: disabled before the last byte
  /\ txeie /\ exchanging
  /\ TxCounter_2' = Following(TxCounter_2)
  /\ txeie' = (Following(TxCounter_2') # count_2)
  /\ owed' = IF Ahead <= owed THEN owed - 1 ELSE owed
  /\ overrun' = (overrun /\ txeie')
  /\ UNCHANGED <<count_2, put, left>>

SendByte ==
  /\ txeie /\ exchanging
  /\ TxCounter_2' = Following(TxCounter_2)
  /\ txeie' = (TxCounter_2' # count_2)
  /\ owed' = IF Ahead <= owed THEN owed - 1 ELSE owed
  /\ overrun' = (overrun /\ txeie')
  /\ UNCHANGED <<count_2, put, left>>

(* Without a socket it leaves everything as it was. *)
SendNothing == Storm /\ UNCHANGED txVars

(* The procedures of cc3200.c turn from commands to frames and back. *)
TurnSocket ==
  /\ ~Storm /\ put = "app"
  /\ exchanging' = ~exchanging
  /\ UNCHANGED txVars

UartNext ==
  \/ /\ PutByte \/ PutEnd \/ SendByte \/ SendNothing \/ \E n \in Frames : PutFrame(n)
     /\ UNCHANGED exchanging
  \/ TurnSocket

UartSpec == UartInit /\ [][UartNext]_uartVars

-----------------------------------------------------------------------------
(* No byte is left behind: between calls the interrupt is enabled as long  *)
(* as a byte is not sent, wherever in a call it was disabled               *)
(* (usart2.c:201-208, 258-267) - as long as no byte was stored where the   *)
(* interrupt reads next while bytes wait.  That the store index stays      *)
(* behind the send index is left to the callers.                           *)
PendingIsSent == put = "app" /\ owed > 0 /\ ~overrun => txeie
=============================================================================
