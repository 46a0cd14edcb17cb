------------------------------- MODULE LinkTx -------------------------------
(***************************************************************************)
(* WifiLink with the frames it sends through UartTx.  While one is stored  *)
(* the cc3200 thread does nothing else; the transmit interrupt comes at    *)
(* any moment.  A frame of 17 bytes takes 1.5 ms at 115200 baud, the sleep *)
(* between two turns at most a tick of 1 ms: the next turn often begins    *)
(* before the frame is out.                                                *)
(***************************************************************************)
EXTENDS WifiLink

CONSTANTS TxSize, Frames

VARIABLES
  count_2, TxCounter_2, txeie, put, left, owed, overrun,    \* UartTx
  searching_flag

transmit == <<count_2, TxCounter_2, txeie, put, left, owed, overrun>>

T == INSTANCE UartTx WITH exchanging <- socket_start

linkTxVars == <<vars, transmit, searching_flag>>

LinkTxInit == Init /\ T!TxInit /\ searching_flag = FALSE

-----------------------------------------------------------------------------
(* The step of the cc3200 thread that comes next stores a frame ... *)
Answers ==
  \/ pc = "phone" /\ searching_flag
  \/ Turn(4) /\ net_complete_flag
  \/ pc = "idle" /\ "is_idle" \in asked
  \/ pc = "net" /\ "net_long_push" \in F_key_state
  \/ pc = "snp" /\ "snp_short_push" \in F_key_state
  \/ pc = "compare" /\ Pre_Phone_IP = Phone_IP
  \/ pc = "again_wait"

(* ... or may store one: the pen has written, or the time is checked. *)
MayAnswer ==
  \/ Answers
  \/ Turn(5) /\ net_complete_flag
  \/ pc = "end" /\ "meeting_end" \notin asked

(* In state 2 the frame is stored before the test of Phone_IP, here after  *)
(* it: a request received meanwhile counts in the next turn.               *)
Cc3200Sends ==
  /\ ~T!Storm /\ put = "app" /\ Cc3200
  /\ searching_flag' = (searching_flag /\ pc # "phone")
  /\ \/ MayAnswer /\ \E n \in Frames : T!PutFrame(n)
     \/ ~Answers /\ UNCHANGED transmit

Transmit ==
  /\ T!PutByte \/ T!PutEnd \/ T!SendByte
  /\ UNCHANGED <<vars, searching_flag>>

(* The frame 0x78, and that with the bar code of another board *)
SearchFrame ==
  /\ \/ searching_flag' = TRUE /\ \E id \in Phones : Search(id)
     \/ searching_flag' = FALSE /\ Frame
        /\ UNCHANGED <<net_complete_flag, net_reconnect_flag, phone, asked>>
  /\ UNCHANGED transmit

(* The other frames and threads.  The led thread is less urgent than the   *)
(* cc3200 thread, which it does not find in a call.                        *)
Others ==
  /\ ~T!Storm
  /\ \/ put = "app" /\ (Beat \/ BeatLost)
     \/ KeyRelease \/ \E key \in Keys : KeyPush(key)
     \/ RequestWrong \/ HeartBeat \/ EndMeeting
     \/ \E id \in Phones, ip \in IPs : RequestFirst(id, ip) \/ RequestAgain(id, ip)
  /\ UNCHANGED <<transmit, searching_flag>>

LinkTxNext == Cc3200Sends \/ Transmit \/ SearchFrame \/ Others

(* The cc3200 thread goes on, and USART2 transmits. *)
LinkTxSpec ==
  /\ LinkTxInit /\ [][LinkTxNext]_linkTxVars
  /\ WF_linkTxVars(Cc3200Sends) /\ WF_linkTxVars(Transmit)

-----------------------------------------------------------------------------
(* "The socket is built for the second time, communication is established" *)
(* (cc3200.c:303): cc3200_set_udpIP comes to its end.                      *)
UdpIpSet == pc = "udp" ~> Main_Fuction_state = 4
=============================================================================
