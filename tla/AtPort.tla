------------------------------- MODULE AtPort -------------------------------
(***************************************************************************)
(* AT commands to the Wi-Fi module: cc3200_send_cmd and cc3200_check_cmd   *)
(* (cc3200.c) with the interrupts of USART2 and TIM7 (usart2.c), which     *)
(* gather what the module answers in batches.  A batch ends when nothing   *)
(* came for the period of TIM7, or when the buffer is full; what comes     *)
(* before it has been looked at is dropped.                                *)
(*                                                                         *)
(* The two interrupts have the same priority (no priority group is set),   *)
(* so that they do not interrupt each other.  A thread that sleeps between *)
(* two looks at the batch may be late by any time: an interrupt can come   *)
(* anywhere between its steps.                                             *)
(***************************************************************************)
EXTENDS Naturals, Sequences

CONSTANTS
  MaxLen,      \* USART2_MAX_RECV_LEN
  Char,        \* what the module sends
  Ack          \* the answer that is waited for

Nul == "nul"     \* the terminator

AtPortAssumption ==
  /\ MaxLen \in Nat \ {0} /\ Nul \notin Char
  /\ Ack \in Seq(Char) /\ Ack # <<>>

VARIABLES
  done, len,      \* USART2_RX_STA: bit 15 and the bits below
  buf,            \* USART2_RX_BUF, and the byte behind it, where the
                  \* terminator of a full batch goes
  fresh,          \* history: the cells written since the command was sent
  timer,          \* TIM7 is enabled
  framing,        \* socket_start: frames are read, nothing goes into the batch
  waits,          \* cc3200_send_cmd waits for the answer
  found           \* history: the cells of the answer it found

portVars == <<done, len, buf, fresh, timer, framing, waits, found>>

Cell == 0 .. MaxLen

PortTypeOK ==
  /\ done \in BOOLEAN /\ len \in Cell
  /\ buf \in [Cell -> Char \cup {Nul}]
  /\ fresh \subseteq Cell /\ found \subseteq Cell
  /\ {timer, framing, waits} \subseteq BOOLEAN

(* usart2_init *)
PortInit ==
  /\ done = FALSE /\ len = 0
  /\ buf = [i \in Cell |-> Nul]
  /\ fresh = {} /\ found = {}
  /\ timer = FALSE /\ framing = FALSE /\ waits = FALSE

-----------------------------------------------------------------------------
(* cc3200_send_cmd: the batch is emptied, the command is sent. *)
SendKeeps ==               \* mutant: a batch that is there is kept
  /\ ~waits /\ waits' = TRUE
  /\ fresh' = {} /\ found' = {}
  /\ UNCHANGED <<done, len, buf, timer, framing>>

Send ==
  /\ ~waits /\ waits' = TRUE
  /\ done' = FALSE /\ len' = 0
  /\ fresh' = {} /\ found' = {}
  /\ UNCHANGED <<buf, timer, framing>>

(* strstr: the cells of the first place where the answer stands in the     *)
(* text that the terminator ends; none if it does not.                     *)
Terminated == [buf EXCEPT ![len] = Nul]

Stands(b, i) ==
  /\ i + Len(Ack) - 1 <= MaxLen
  /\ \A j \in 1 .. Len(Ack) : b[i + j - 1] = Ack[j]
  /\ \A j \in 0 .. i : b[j] # Nul

Matched(b) ==
  IF \E i \in Cell : Stands(b, i)
  THEN LET i == CHOOSE i \in Cell : Stands(b, i) /\ \A j \in 0 .. i - 1 : ~Stands(b, j)
       IN  i .. i + Len(Ack) - 1
  ELSE {}

(* A look at the batch, cc3200_check_cmd: the command succeeds and the     *)
(* batch stays, ...                                                        *)
Answered ==
  /\ waits /\ done /\ Matched(Terminated) # {}
  /\ buf' = Terminated
  /\ waits' = FALSE /\ found' = Matched(Terminated)
  /\ UNCHANGED <<done, len, fresh, timer, framing>>

(* ... or another one may begin, if there is time to wait; ...             *)
Another ==
  /\ waits /\ done /\ Matched(Terminated) = {}
  /\ buf' = Terminated
  /\ done' = FALSE /\ len' = 0
  /\ waits' \in BOOLEAN
  /\ UNCHANGED <<fresh, timer, framing, found>>

(* ... or there is none, and the time is up. *)
TimeUp ==
  /\ waits /\ ~done
  /\ waits' = FALSE
  /\ UNCHANGED <<done, len, buf, fresh, timer, framing, found>>

(* The procedures of cc3200.c turn from commands to frames and back. *)
SetSocket ==
  /\ ~waits
  /\ framing' = ~framing
  /\ UNCHANGED <<done, len, buf, fresh, timer, waits, found>>

(* USART2_IRQHandler, without a socket: a character *)
StoreLate(c) ==            \* mutant: TIM7 is enabled by the second character
  /\ ~framing /\ ~done /\ len < MaxLen
  /\ buf' = [buf EXCEPT ![len] = c]
  /\ len' = len + 1 /\ fresh' = fresh \cup {len}
  /\ timer' = (timer \/ len = 1)
  /\ UNCHANGED <<done, framing, waits, found>>

Store(c) ==
  /\ ~framing /\ ~done /\ len < MaxLen
  /\ buf' = [buf EXCEPT ![len] = c]
  /\ len' = len + 1 /\ fresh' = fresh \cup {len}
  /\ timer' = (timer \/ len = 0)
  /\ UNCHANGED <<done, framing, waits, found>>

Overflow ==
  /\ ~framing /\ ~done /\ len = MaxLen
  /\ done' = TRUE
  /\ UNCHANGED <<len, buf, fresh, timer, framing, waits, found>>

(* TIM7_IRQHandler *)
BatchEnd ==
  /\ timer /\ timer' = FALSE
  /\ done' = TRUE
  /\ UNCHANGED <<len, buf, fresh, framing, waits, found>>

PortNext ==
  \/ Send \/ Answered \/ Another \/ TimeUp \/ SetSocket
  \/ \E c \in Char : Store(c)
  \/ Overflow \/ BatchEnd

PortSpec == PortInit /\ [][PortNext]_portVars

-----------------------------------------------------------------------------
(* "0: sent (the awaited answer was received)" (cc3200.c:88): the answer a *)
(* command succeeds with has been received since it was sent, whatever the *)
(* buffer still holds of earlier batches.                                  *)
AckIsFresh == found \subseteq fresh

(* A batch that has begun ends: the timer that will mark it runs           *)
(* (usart2.c:236-241, 419-427).                                            *)
BatchIsTimed == len > 0 /\ ~done => timer
=============================================================================
