---------------------------- MODULE FirmwareProofs ----------------------------
(***************************************************************************)
(* The uses of USART2.  The link to the phone, for every set of phones and *)
(* addresses: while it is up its frames are read.  The AT commands, for    *)
(* every size of the receive buffer and every answer: a command succeeds   *)
(* with an answer that came after it was sent, and a batch that has begun  *)
(* will be marked.  The transmitter, for every size of the ring and of the *)
(* frames: no byte is left behind, as long as none is overrun.             *)
(***************************************************************************)
EXTENDS WifiLink, AtPort, UartTx, KernelProofs

(***************************************************************************)
(* WifiLink                                                                *)
(***************************************************************************)
(* The places of the cc3200 thread in each state of its machine. *)
Places ==
  /\ Main_Fuction_state \in 0 .. 5
  /\ Main_Fuction_state = 0 => pc \in {"delay", "turn", "join", "phone"}
  /\ Main_Fuction_state = 1 => pc \in {"delay", "turn", "port", "port_wait"}
  /\ Main_Fuction_state = 2 => pc \in {"delay", "turn", "reset", "phone"}
  /\ Main_Fuction_state = 3 => pc \in {"delay", "turn", "udp", "udp_config", "udp_wait"}
  /\ Main_Fuction_state = 4 => pc \in {"delay", "turn"}
  /\ Main_Fuction_state = 5 =>
       pc \in {"delay", "turn", "idle", "net", "snp", "end", "forget", "forget_ip",
               "poll", "poll_delay", "compare", "again", "again_config", "again_wait"}

(* The link is up only where the thread stays in a meeting or goes to one. *)
UpInMeeting ==
  net_complete_flag =>
    /\ Main_Fuction_state \in {4, 5}
    /\ pc \in {"delay", "turn", "idle", "net", "snp", "end"}

(* The socket is open where the link is about to be up. *)
SocketOnTheWay ==
  /\ pc = "udp_wait" => socket_start
  /\ Main_Fuction_state = 4 => socket_start
  /\ Main_Fuction_state = 5 /\ pc # "again_config" => socket_start

LinkInv == Places /\ UpInMeeting /\ SocketOnTheWay

LEMMA LinkSuffices == LinkInv => ConnectedListens
BY DEF LinkInv, UpInMeeting, SocketOnTheWay, ConnectedListens

LEMMA LinkInitially == Init => LinkInv
BY DEF Init, LinkInv, Places, UpInMeeting, SocketOnTheWay

(* The steps of the cc3200 thread, state by state. *)
LEMMA Cc3200Keeps ==
  ASSUME LinkInv, Cc3200
  PROVE  LinkInv'
<1> USE DEF LinkInv, Places, UpInMeeting, SocketOnTheWay,
            link, phone, keys, count, Go, EndTurn, Turn
<1>1. CASE Wake
  BY <1>1 DEF Wake
<1>2. CASE Start \/ Joined
  BY <1>2 DEF Start, Joined
<1>3. CASE SetUdpPort \/ PortOpen \/ PortUp
  BY <1>3 DEF SetUdpPort, PortOpen, PortUp
<1>4. CASE NetKeyResets
  BY <1>4 DEF NetKeyResets
<1>5. CASE ResetDone \/ NoNetKey
  BY <1>5 DEF ResetDone, NoNetKey
<1>6. CASE PhoneTest
  BY <1>6 DEF PhoneTest
<1>7. CASE SetUdpIp \/ UdpClose \/ UdpOpen
  BY <1>7 DEF SetUdpIp, UdpClose, UdpOpen
<1>8. CASE UdpUp
  BY <1>8 DEF UdpUp
<1>9. CASE Connected
  BY <1>9 DEF Connected
<1>10. CASE InMeeting \/ IdleAnswer \/ MeetingGoesOn
  BY <1>10 DEF InMeeting, IdleAnswer, MeetingGoesOn
<1>11. CASE NetKeyAnswer \/ SnpKeyAnswer
  BY <1>11 DEF NetKeyAnswer, SnpKeyAnswer, KeyAnswer
<1>12. CASE MeetingEnds
  BY <1>12 DEF MeetingEnds
<1>13. CASE ForgetFirst \/ ForgetIp
  BY <1>13 DEF ForgetFirst, ForgetIp
<1>14. CASE LinkLost \/ PollAgain
  BY <1>14 DEF LinkLost, PollAgain
<1>15. CASE Poll
  BY <1>15 DEF Poll
<1>16. CASE SameIp \/ OtherIp
  BY <1>16 DEF SameIp, OtherIp
<1>17. CASE AgainClose \/ AgainOpen \/ AgainUp
  BY <1>17 DEF AgainClose, AgainOpen, AgainUp
<1> QED BY <1>1, <1>2, <1>3, <1>4, <1>5, <1>6, <1>7, <1>8, <1>9, <1>10, <1>11,
           <1>12, <1>13, <1>14, <1>15, <1>16, <1>17 DEF Cc3200

(* The led and the Key threads, which may run while the cc3200 thread      *)
(* sleeps or anywhere.                                                     *)
LEMMA ThreadsKeep ==
  ASSUME LinkInv, Beat \/ BeatLost \/ KeyRelease \/ \E key \in Keys : KeyPush(key)
  PROVE  LinkInv'
BY DEF LinkInv, Places, UpInMeeting, SocketOnTheWay,
       link, phone, keys, count, Beat, BeatLost, KeyRelease, KeyPush

(* The frames, which come anywhere between two steps while the socket is   *)
(* open.                                                                   *)
LEMMA FramesKeep ==
  ASSUME WifiLinkAssumption, LinkInv,
         \/ RequestWrong \/ HeartBeat \/ EndMeeting
         \/ \E id \in Phones : Search(id)
         \/ \E id \in Phones, ip \in IPs : RequestFirst(id, ip) \/ RequestAgain(id, ip)
  PROVE  LinkInv'
<1> USE DEF LinkInv, Places, UpInMeeting, SocketOnTheWay,
            phone, keys, count, Frame
<1>1. CASE RequestWrong
  BY <1>1 DEF RequestWrong
<1>2. CASE HeartBeat \/ EndMeeting
  BY <1>2 DEF HeartBeat, EndMeeting
<1>3. CASE \E id \in Phones : Search(id)
  BY <1>3 DEF Search
<1>4. ASSUME NEW id \in Phones, NEW ip \in IPs, RequestFirst(id, ip) PROVE LinkInv'
  BY <1>4 DEF RequestFirst, WifiLinkAssumption
<1>5. ASSUME NEW id \in Phones, NEW ip \in IPs, RequestAgain(id, ip) PROVE LinkInv'
  BY <1>5 DEF RequestAgain, WifiLinkAssumption
<1> QED BY <1>1, <1>2, <1>3, <1>4, <1>5

LEMMA LinkStep ==
  ASSUME WifiLinkAssumption, LinkInv, [Next]_vars
  PROVE  LinkInv'
<1>1. CASE UNCHANGED vars
  BY <1>1 DEF vars, link, phone, keys, count, LinkInv, Places, UpInMeeting,
              SocketOnTheWay
<1> QED BY <1>1, Cc3200Keeps, ThreadsKeep, FramesKeep DEF Next

(* While the link is up the frames of the phone are read.                  *)
THEOREM UpListens ==
  ASSUME WifiLinkAssumption
  PROVE  Spec => []ConnectedListens
<1>1. Init => LinkInv
  BY LinkInitially
<1>2. LinkInv /\ [Next]_vars => LinkInv'
  BY LinkStep
<1>3. LinkInv => ConnectedListens
  BY LinkSuffices
<1> QED BY <1>1, <1>2, <1>3, PTL DEF Spec

(***************************************************************************)
(* AtPort                                                                  *)
(***************************************************************************)
(* The buffer still holds what earlier commands left behind the end of the *)
(* batch; the terminator keeps strstr from it.  What is before the end was *)
(* written since the command was sent.                                     *)
PortInv ==
  /\ len \in Cell
  /\ buf \in [Cell -> Char \cup {Nul}]
  /\ {i \in Cell : i < len} \subseteq fresh
  /\ AckIsFresh
  /\ BatchIsTimed

LEMMA CellFacts ==
  ASSUME AtPortAssumption
  PROVE  /\ MaxLen \in Nat /\ 0 \in Cell /\ Cell \subseteq Nat
         /\ \A i \in Cell : i < MaxLen => i + 1 \in Cell
         /\ Ack \in Seq(Char) /\ Len(Ack) \in Nat /\ Nul \notin Char
<1>1. MaxLen \in Nat /\ Ack \in Seq(Char) /\ Nul \notin Char
  BY DEF AtPortAssumption
<1>2. Len(Ack) \in Nat
  BY <1>1
<1> QED BY <1>1, <1>2 DEF Cell

(* An answer found in the terminated text lies before its end. *)
LEMMA MatchBeforeEnd ==
  ASSUME AtPortAssumption, PortInv, NEW c \in Matched(Terminated)
  PROVE  c \in fresh
<1> DEFINE b == Terminated
<1>1. /\ MaxLen \in Nat /\ Cell = 0 .. MaxLen /\ len \in Cell /\ Len(Ack) \in Nat
      /\ buf \in [Cell -> Char \cup {Nul}] /\ Ack \in Seq(Char) /\ Nul \notin Char
  BY CellFacts DEF PortInv, Cell
<1>2. b[len] = Nul
  BY <1>1 DEF Terminated
<1>3. \E i \in Cell : Stands(b, i)
  BY DEF Matched
<1>4. PICK i \in Cell : Stands(b, i) /\ Matched(b) = i .. i + Len(Ack) - 1
  <2> DEFINE Found(i) == i \in Cell /\ Stands(b, i) /\ \A j \in 0 .. i - 1 : ~Stands(b, j)
  <2>1. \E i \in Cell : Found(i)
    <3> DEFINE S == {i \in Cell : Stands(b, i)}
    <3>1. S # {} /\ S \in SUBSET Nat
      BY <1>3, CellFacts
    <3>2. PICK i \in S : \A j \in S : i <= j
      BY <3>1, LeastElementExists
    <3>3. \A j \in 0 .. i - 1 : ~Stands(b, j)
      <4> SUFFICES ASSUME NEW j \in 0 .. i - 1, Stands(b, j) PROVE FALSE
        OBVIOUS
      <4>1. j \in S
        BY <1>1, <3>2
      <4> QED BY <1>1, <3>2, <4>1
    <3> QED BY <3>2, <3>3
  <2>2. Found(CHOOSE i \in Cell : Found(i))
    BY <2>1
  <2> QED BY <1>3, <2>2 DEF Matched
<1>5. /\ i + Len(Ack) - 1 <= MaxLen
      /\ \A j \in 1 .. Len(Ack) : b[i + j - 1] = Ack[j]
      /\ \A j \in 0 .. i : b[j] # Nul
  BY <1>4 DEF Stands
<1>6. c \in i .. i + Len(Ack) - 1
  BY <1>4
<1>7. ASSUME NEW j \in 1 .. Len(Ack) PROVE b[i + j - 1] # Nul
  BY <1>1, <1>5
<1>8. i < len
  <2> SUFFICES ASSUME len \in 0 .. i PROVE FALSE
    BY <1>1
  <2> QED BY <1>2, <1>5
<1>9. ~(len \in i .. i + Len(Ack) - 1)
  <2> SUFFICES ASSUME len \in i .. i + Len(Ack) - 1 PROVE FALSE
    OBVIOUS
  <2>1. len - i + 1 \in 1 .. Len(Ack) /\ i + (len - i + 1) - 1 = len
    BY <1>1
  <2> QED BY <1>2, <1>7, <2>1
<1>10. c \in Cell /\ c < len
  BY <1>1, <1>5, <1>6, <1>8, <1>9
<1> QED BY <1>10 DEF PortInv

LEMMA PortInitially == AtPortAssumption /\ PortInit => PortInv
BY CellFacts DEF PortInit, PortInv, AckIsFresh, BatchIsTimed

LEMMA PortStep ==
  ASSUME AtPortAssumption, PortInv, [PortNext]_portVars
  PROVE  PortInv'
<1>1. /\ MaxLen \in Nat /\ 0 \in Cell /\ Cell \subseteq Nat /\ len \in Cell
      /\ \A i \in Cell : i < MaxLen => i + 1 \in Cell
      /\ buf \in [Cell -> Char \cup {Nul}]
      /\ Terminated \in [Cell -> Char \cup {Nul}]
  BY CellFacts DEF PortInv, Terminated
<1>2. {i \in Cell : i < 0} = {}
  <2>1. \A i \in Cell : ~(i < 0)
    BY <1>1
  <2> QED BY <2>1
<1>3. CASE Send
  <2>1. BatchIsTimed'
    <3>1. len' = 0
      BY <1>3 DEF Send
    <3> QED BY <3>1 DEF BatchIsTimed
  <2> QED BY <1>1, <1>2, <1>3, <2>1, Zenon DEF Send, PortInv, AckIsFresh
<1>4. CASE Answered
  <2>1. found' \subseteq fresh
    BY <1>4, MatchBeforeEnd DEF Answered
  <2> QED BY <1>1, <1>4, <2>1 DEF Answered, PortInv, AckIsFresh, BatchIsTimed
<1>5. CASE Another
  <2>1. BatchIsTimed'
    <3>1. len' = 0
      BY <1>5 DEF Another
    <3> QED BY <3>1 DEF BatchIsTimed
  <2> QED BY <1>1, <1>2, <1>5, <2>1, Zenon DEF Another, PortInv, AckIsFresh
<1>6. CASE TimeUp \/ SetSocket
  BY <1>6 DEF TimeUp, SetSocket, PortInv, AckIsFresh, BatchIsTimed
<1>7. ASSUME NEW c \in Char, Store(c) PROVE PortInv'
  <2>1. /\ ~done /\ len < MaxLen /\ len' = len + 1 /\ fresh' = fresh \cup {len}
        /\ buf' = [buf EXCEPT ![len] = c] /\ timer' = (timer \/ len = 0)
        /\ UNCHANGED <<done, found>>
    BY <1>7 DEF Store
  <2>2. \A i \in Cell : i < len' => i < len \/ i = len
    BY <1>1, <2>1
  <2>3. BatchIsTimed'
    <3>1. timer'
      <4>1. len = 0 \/ len > 0
        BY <1>1
      <4>2. len > 0 => timer
        BY <2>1, Zenon DEF PortInv, BatchIsTimed
      <4> QED BY <2>1, <4>1, <4>2, Zenon
    <3> QED BY <3>1, Zenon DEF BatchIsTimed
  <2>4. /\ len' \in Cell /\ buf' \in [Cell -> Char \cup {Nul}]
        /\ {i \in Cell : i < len'} \subseteq fresh'
    BY <1>1, <2>1, <2>2 DEF PortInv
  <2>5. AckIsFresh'
    BY <2>1 DEF PortInv, AckIsFresh
  <2> QED BY <2>3, <2>4, <2>5, Zenon DEF PortInv
<1>8. CASE Overflow \/ BatchEnd
  BY <1>8 DEF Overflow, BatchEnd, PortInv, AckIsFresh, BatchIsTimed
<1>9. CASE UNCHANGED portVars
  BY <1>9 DEF portVars, PortInv, AckIsFresh, BatchIsTimed
<1> QED BY <1>3, <1>4, <1>5, <1>6, <1>7, <1>8, <1>9 DEF PortNext

(* The answer a command succeeds with came after it was sent, however long *)
(* the thread sleeps between two looks and whatever earlier batches left   *)
(* in the buffer.                                                          *)
THEOREM AnswersAreFresh ==
  ASSUME AtPortAssumption
  PROVE  PortSpec => []AckIsFresh
<1>1. PortInit => PortInv
  BY PortInitially
<1>2. PortInv /\ [PortNext]_portVars => PortInv'
  BY PortStep
<1>3. PortInv => AckIsFresh
  BY DEF PortInv
<1> QED BY <1>1, <1>2, <1>3, PTL DEF PortSpec

(* A batch that has begun has its timer running until it is marked.        *)
THEOREM BatchesAreTimed ==
  ASSUME AtPortAssumption
  PROVE  PortSpec => []BatchIsTimed
<1>1. PortInit => PortInv
  BY PortInitially
<1>2. PortInv /\ [PortNext]_portVars => PortInv'
  BY PortStep
<1>3. PortInv => BatchIsTimed
  BY DEF PortInv
<1> QED BY <1>1, <1>2, <1>3, PTL DEF PortSpec

(***************************************************************************)
(* UartTx                                                                  *)
(***************************************************************************)
(* What is stored between the two indices, without the lap that makes      *)
(* equal indices mean a full ring                                          *)
Gap(c, s) == IF s <= c THEN c - s ELSE c - s + TxSize

Counted ==
  /\ {count_2, TxCounter_2} \subseteq 0 .. TxSize - 1
  /\ owed \in 0 .. TxSize /\ left \in 0 .. TxSize - 1
  /\ put \in {"app", "store", "test"} /\ txeie \in BOOLEAN /\ overrun \in BOOLEAN

(* The bytes not sent are among those the interrupt will send; while it is *)
(* disabled they are those between the indices.  What is lost is not       *)
(* counted, and the interrupt is enabled until it has caught up.           *)
Between ==
  LET gap == Gap(count_2, TxCounter_2)
  IN  /\ IF txeie THEN owed <= gap \/ gap = 0 ELSE owed = gap
      /\ overrun => txeie /\ owed = 0

(* A call that finds the interrupt disabled stores less than a lap.        *)
Roomy ==
  LET gap == Gap(count_2, TxCounter_2)
  IN  /\ put = "app" => left = 0 /\ (~txeie => gap = 0)
      /\ put = "store" => left > 0 /\ (~txeie => gap + left < TxSize)
      /\ put = "test" => left = 0

TxInv == Counted /\ Between /\ Roomy

LEMMA IndexFacts ==
  ASSUME UartTxAssumption, NEW i \in 0 .. TxSize - 1
  PROVE  /\ TxSize \in Nat \ {0}
         /\ Following(i) = IF i = TxSize - 1 THEN 0 ELSE i + 1
         /\ Following(i) \in 0 .. TxSize - 1
<1>1. TxSize \in Nat /\ TxSize > 0 /\ i \in Nat /\ i <= TxSize - 1
  BY DEF UartTxAssumption
<1>2. CASE i = TxSize - 1
  <2>1. i + 1 \in TxSize .. 2 * TxSize - 1
    BY <1>1, <1>2
  <2>2. (i + 1) % TxSize = i + 1 - TxSize
    BY <1>1, <2>1, OneLap
  <2> QED BY <1>1, <1>2, <2>2 DEF Following
<1>3. CASE i # TxSize - 1
  <2>1. i + 1 \in 0 .. TxSize - 1
    BY <1>1, <1>3
  <2>2. (i + 1) % TxSize = i + 1
    BY <1>1, <2>1, NoLap
  <2> QED BY <1>1, <1>3, <2>1, <2>2 DEF Following
<1> QED BY <1>2, <1>3

LEMMA AheadIs ==
  ASSUME UartTxAssumption, Counted
  PROVE  LET gap == Gap(count_2, TxCounter_2)
         IN  /\ gap \in 0 .. TxSize - 1
             /\ Ahead = IF gap = 0 THEN TxSize ELSE gap
<1> DEFINE n == count_2 + TxSize - TxCounter_2
           gap == Gap(count_2, TxCounter_2)
<1>1. /\ TxSize \in Nat /\ TxSize > 0
      /\ count_2 \in 0 .. TxSize - 1 /\ TxCounter_2 \in 0 .. TxSize - 1
  BY DEF UartTxAssumption, Counted
<1>2. gap \in 0 .. TxSize - 1 /\ (n = gap \/ n = gap + TxSize)
  BY <1>1 DEF Gap
<1>3. n % TxSize = gap
  <2>1. CASE n = gap
    <3>1. n \in 0 .. TxSize - 1
      BY <1>2, <2>1
    <3>2. n % TxSize = n
      BY ONLY <1>1, <3>1, NoLap
    <3> QED BY <2>1, <3>2
  <2>2. CASE n = gap + TxSize
    <3>1. n \in TxSize .. 2 * TxSize - 1 /\ n - TxSize = gap
      BY <1>1, <1>2, <2>2
    <3>2. n % TxSize = n - TxSize
      BY ONLY <1>1, <3>1, OneLap
    <3> QED BY <3>1, <3>2
  <2> QED BY <1>2, <2>1, <2>2
<1> QED BY <1>2, <1>3 DEF Ahead

(* A byte stored widens the gap, a byte sent narrows it, across the wrap   *)
(* of either index.                                                        *)
LEMMA GapSteps ==
  ASSUME UartTxAssumption, Counted
  PROVE  LET gap == Gap(count_2, TxCounter_2)
         IN  /\ gap + 1 < TxSize => Gap(Following(count_2), TxCounter_2) = gap + 1
             /\ gap + 1 = TxSize => Gap(Following(count_2), TxCounter_2) = 0
             /\ gap = 0 <=> count_2 = TxCounter_2
             /\ gap > 0 => Gap(count_2, Following(TxCounter_2)) = gap - 1
             /\ gap = 0 => Gap(count_2, Following(TxCounter_2)) = TxSize - 1
             /\ Gap(count_2, Following(TxCounter_2)) = 0 <=> Following(TxCounter_2) = count_2
<1>1. /\ TxSize \in Nat \ {0}
      /\ count_2 \in 0 .. TxSize - 1 /\ TxCounter_2 \in 0 .. TxSize - 1
  BY DEF UartTxAssumption, Counted
<1>2. \A i \in 0 .. TxSize - 1 : Following(i) = IF i = TxSize - 1 THEN 0 ELSE i + 1
  BY IndexFacts
<1> QED BY <1>1, <1>2 DEF Gap

LEMMA TxStarts ==
  ASSUME UartTxAssumption, UartInit
  PROVE  TxInv
<1>1. TxSize \in Nat \ {0} /\ 0 \in 0 .. TxSize - 1
  BY DEF UartTxAssumption
<1>2. /\ count_2 = 0 /\ TxCounter_2 = 0 /\ owed = 0 /\ left = 0
      /\ txeie = FALSE /\ put = "app" /\ overrun = FALSE
  BY DEF UartInit, TxInit
<1>3. Gap(count_2, TxCounter_2) = 0
  BY <1>2 DEF Gap
<1>4. /\ {count_2, TxCounter_2} \subseteq 0 .. TxSize - 1
      /\ owed \in 0 .. TxSize /\ left \in 0 .. TxSize - 1
  <2>1. 0 \in 0 .. TxSize
    BY <1>1
  <2> QED BY <1>1, <1>2, <2>1
<1>5. put \in {"app", "store", "test"} /\ txeie \in BOOLEAN /\ overrun \in BOOLEAN
  BY <1>2
<1>6. Between /\ Roomy
  BY <1>2, <1>3 DEF Between, Roomy
<1> QED BY <1>4, <1>5, <1>6 DEF TxInv, Counted

LEMMA TxStep ==
  ASSUME UartTxAssumption, TxInv, [UartNext]_uartVars
  PROVE  TxInv'
<1> DEFINE gap == Gap(count_2, TxCounter_2)
<1>1. /\ TxSize \in Nat \ {0} /\ Frames \subseteq 1 .. TxSize - 1
      /\ count_2 \in 0 .. TxSize - 1 /\ TxCounter_2 \in 0 .. TxSize - 1
      /\ owed \in 0 .. TxSize /\ left \in 0 .. TxSize - 1 /\ txeie \in BOOLEAN /\ overrun \in BOOLEAN
      /\ Following(count_2) \in 0 .. TxSize - 1 /\ Following(TxCounter_2) \in 0 .. TxSize - 1
  BY IndexFacts DEF UartTxAssumption, TxInv, Counted
<1>2. /\ gap \in 0 .. TxSize - 1
      /\ Ahead = IF gap = 0 THEN TxSize ELSE gap
  BY AheadIs DEF TxInv
<1>3. ASSUME NEW n \in Frames, PutFrame(n) PROVE TxInv'
  <2>1. n \in 1 .. TxSize - 1 /\ put = "app" /\ (~txeie => gap = 0)
    BY <1>1, <1>3 DEF PutFrame, TxInv, Roomy
  <2> QED BY <1>1, <1>3, <2>1 DEF PutFrame, index, TxInv, Counted, Between, Roomy
<1>4. CASE PutByte
  <2>1. left > 0 /\ put = "store" /\ (~txeie => gap + left < TxSize)
    BY <1>4 DEF PutByte, TxInv, Roomy
  <2>2. /\ gap + 1 < TxSize => Gap(count_2, TxCounter_2)' = gap + 1
        /\ gap + 1 = TxSize => Gap(count_2, TxCounter_2)' = 0
        /\ gap = 0 <=> count_2 = TxCounter_2
    BY <1>4, GapSteps DEF PutByte, TxInv
  <2>3. /\ txeie => owed <= gap \/ gap = 0
        /\ ~txeie => owed = gap /\ ~overrun
        /\ overrun => txeie
    BY DEF TxInv, Between
  <2>4. /\ overrun' = (overrun \/ (count_2 = TxCounter_2 /\ owed > 0))
        /\ owed' = IF overrun' THEN 0 ELSE owed + 1
        /\ count_2' = Following(count_2) /\ TxCounter_2' = TxCounter_2 /\ txeie' = txeie
        /\ left' = left - 1 /\ put' = IF left = 1 THEN "test" ELSE "store"
    BY <1>4 DEF PutByte
  <2> HIDE DEF gap
  <2>5. overrun' \in BOOLEAN /\ (overrun' => txeie' /\ owed' = 0)
    BY <1>1, <1>2, <2>2, <2>3, <2>4
  <2>6. IF txeie' THEN owed' <= Gap(count_2, TxCounter_2)' \/ Gap(count_2, TxCounter_2)' = 0
                  ELSE owed' = Gap(count_2, TxCounter_2)'
    <3>1. CASE overrun'
      <4>1. txeie' /\ owed' = 0
        BY <2>5, <3>1
      <4>2. gap + 1 < TxSize \/ gap + 1 = TxSize
        BY <1>1, <1>2
      <4> QED BY <1>1, <1>2, <2>2, <4>1, <4>2
    <3>2. CASE ~overrun'
      <4>1. owed' = owed + 1 /\ (gap = 0 => ~(owed > 0))
        BY <2>2, <2>4, <3>2
      <4>2. CASE txeie
        <5>1. owed <= gap
          BY <1>1, <1>2, <2>3, <4>1, <4>2
        <5>2. gap + 1 < TxSize \/ gap + 1 = TxSize
          BY <1>1, <1>2
        <5> QED BY <1>1, <1>2, <2>2, <2>4, <4>1, <4>2, <5>1, <5>2
      <4>3. CASE ~txeie
        <5>1. owed = gap /\ gap + 1 < TxSize
          BY <1>1, <1>2, <2>1, <2>3, <4>3
        <5> QED BY <2>2, <2>4, <4>1, <4>3, <5>1
      <4> QED BY <4>2, <4>3
    <3> QED BY <3>1, <3>2
  <2>7. Between'
    BY <2>5, <2>6 DEF Between
  <2>8. owed' \in 0 .. TxSize
    BY <1>1, <1>2, <2>1, <2>2, <2>3, <2>4
  <2>9. Counted'
    BY <1>1, <2>1, <2>4, <2>5, <2>8 DEF Counted
  <2>10. Roomy'
    <3>1. ~txeie => Gap(count_2, TxCounter_2)' = gap + 1
      BY <1>1, <1>2, <2>1, <2>2
    <3> QED BY <1>1, <1>2, <2>1, <2>4, <3>1 DEF Roomy
  <2> QED BY <2>7, <2>9, <2>10 DEF TxInv
<1>5. CASE PutEnd
  <2>1. ~txeie => owed = gap /\ gap = owed
    BY DEF TxInv, Between
  <2> QED BY <1>1, <1>2, <1>5, <2>1 DEF PutEnd, index, TxInv, Counted, Between, Roomy
<1>6. CASE SendByte
  <2>1. /\ txeie /\ UNCHANGED <<count_2, put, left>>
        /\ TxCounter_2' = Following(TxCounter_2)
        /\ txeie' = (TxCounter_2' # count_2)
        /\ owed' = IF Ahead <= owed THEN owed - 1 ELSE owed
        /\ overrun' = (overrun /\ txeie')
    BY <1>6 DEF SendByte
  <2>2. /\ gap > 0 => Gap(count_2, TxCounter_2)' = gap - 1
        /\ gap = 0 => Gap(count_2, TxCounter_2)' = TxSize - 1
        /\ Gap(count_2, TxCounter_2)' = 0 <=> ~txeie'
    BY <2>1, GapSteps DEF TxInv
  <2>3. (owed <= gap \/ gap = 0) /\ (overrun => owed = 0)
    BY <2>1 DEF TxInv, Between
  <2> HIDE DEF gap
  <2>4. /\ owed' \in 0 .. TxSize /\ (gap > 0 => owed' <= gap - 1) /\ (gap = 0 => owed' <= TxSize - 1)
        /\ overrun => owed' = 0
    BY <1>1, <1>2, <2>1, <2>3
  <2>5. Counted'
    BY <1>1, <2>1, <2>4 DEF TxInv, Counted
  <2>6. Between'
    <3>1. owed' <= Gap(count_2, TxCounter_2)'
      BY <1>1, <1>2, <2>2, <2>4
    <3>2. Gap(count_2, TxCounter_2)' = 0 => owed' = 0
      BY <1>1, <2>4, <3>1
    <3>3. overrun' => txeie' /\ owed' = 0
      BY <2>1, <2>4
    <3> QED BY <2>2, <3>1, <3>2, <3>3 DEF Between
  <2>7. Roomy'
    BY <1>1, <1>2, <2>1, <2>2, <2>4 DEF TxInv, Roomy, Counted
  <2> QED BY <2>5, <2>6, <2>7 DEF TxInv
<1>7. CASE SendNothing \/ TurnSocket \/ UNCHANGED uartVars
  BY <1>7 DEF SendNothing, TurnSocket, uartVars, txVars, index, TxInv, Counted, Between, Roomy, Gap
<1> QED BY <1>3, <1>4, <1>5, <1>6, <1>7 DEF UartNext

(* No byte is left behind with the interrupt disabled, wherever it comes   *)
(* in a call of Uart2_Put_Buf and wherever the indices wrap, until a byte  *)
(* is stored where the interrupt reads next while stored bytes wait: in a  *)
(* full ring, or when it meets a lap of old bytes.  From then on until it  *)
(* has caught up nothing is said; the code has no test that would keep a   *)
(* caller from it (usart2.c:201-208, 258-267).                             *)
THEOREM NoByteLeft ==
  ASSUME UartTxAssumption
  PROVE  UartSpec => []PendingIsSent
<1>1. UartInit => TxInv
  BY TxStarts
<1>2. TxInv /\ [UartNext]_uartVars => TxInv'
  BY TxStep
<1>3. TxInv => PendingIsSent
  <2> SUFFICES ASSUME TxInv, put = "app", owed > 0, ~txeie PROVE FALSE
    BY DEF PendingIsSent, TxInv, Counted
  <2> QED BY DEF TxInv, Roomy, Between
<1> QED BY <1>1, <1>2, <1>3, PTL DEF UartSpec
=============================================================================
