------------------------------ MODULE WifiLink ------------------------------
(***************************************************************************)
(* The board's link to the phone: the state machine of cc3200_thread_entry *)
(* (application.c) with the procedures of cc3200.c it calls, the frames    *)
(* wifi_data_deal takes in the interrupt of USART2, the led thread, which  *)
(* counts missed heart beats, and the Key thread.                          *)
(*                                                                         *)
(* The cc3200 thread (priority 19) is interrupted and preempted by the Key *)
(* thread (17) anywhere; the led thread (20) runs only while it sleeps.    *)
(* A value of pc is a place where an interrupt makes a difference.  The AT *)
(* commands, which only exchange text with the Wi-Fi module, are the       *)
(* sleeps between the changes of socket_start; they may fail unnoticed.    *)
(* Frames to the phone are not modelled, nor the flags that only ask for   *)
(* one (searching_flag, time_checking_flag, pen_data_ready), nor the LEDs  *)
(* (see LedSeq).                                                           *)
(***************************************************************************)
EXTENDS Naturals

CONSTANTS
  Phones,       \* the phones, by ID
  IPs, NoIp,    \* their addresses; none: Phone_IP[0] = 0
  NoPhone       \* Phone_ID when nothing is stored

WifiLinkAssumption == NoIp \notin IPs /\ NoPhone \notin Phones

VARIABLES
  Main_Fuction_state, pc,               \* the cc3200 thread
  beat,                                 \* the led thread
  net_complete_flag, net_reconnect_flag,
  is_First_connect, Phone_IP, Phone_ID, Pre_Phone_IP,
  asked,                                \* is_idle_flag, meeting_end_flag
  F_key_state, key_lock_flag,
  heart_beat_lose_cnt,
  socket_start                          \* frames are read; otherwise answers to AT commands

link  == <<net_complete_flag, net_reconnect_flag, socket_start>>
phone == <<is_First_connect, Phone_IP, Phone_ID, Pre_Phone_IP>>
keys  == <<F_key_state, key_lock_flag>>
count == <<beat, heart_beat_lose_cnt>>
vars  == <<Main_Fuction_state, pc, link, phone, asked, keys, count>>

Keys == {"net_long_push", "snp_short_push"}     \* the keys the link reads

Sleeping ==
  {"delay", "join", "port", "port_wait", "reset", "udp_config", "udp_wait",
   "poll_delay", "again_config", "again_wait"}
Running ==
  {"turn", "phone", "udp", "idle", "net", "snp", "end", "forget", "forget_ip",
   "poll", "compare", "again"}

TypeOK ==
  /\ Main_Fuction_state \in 0 .. 5 /\ pc \in Sleeping \cup Running
  /\ beat \in {"test", "clear"} /\ heart_beat_lose_cnt \in 0 .. 4
  /\ net_complete_flag \in BOOLEAN /\ net_reconnect_flag \in BOOLEAN
  /\ is_First_connect \in BOOLEAN /\ socket_start \in BOOLEAN
  /\ Phone_IP \in IPs \cup {NoIp} /\ Pre_Phone_IP \in IPs \cup {NoIp}
  /\ Phone_ID \in Phones \cup {NoPhone}
  /\ asked \subseteq {"is_idle", "meeting_end"}
  /\ F_key_state \subseteq Keys /\ key_lock_flag \in BOOLEAN

Init ==
  /\ Main_Fuction_state = 0 /\ pc = "turn" /\ beat = "test"
  /\ net_complete_flag = FALSE /\ net_reconnect_flag = FALSE
  /\ is_First_connect = TRUE /\ socket_start = FALSE
  /\ Phone_IP = NoIp /\ Pre_Phone_IP = NoIp /\ Phone_ID = NoPhone
  /\ asked = {} /\ F_key_state = {} /\ key_lock_flag = TRUE
  /\ heart_beat_lose_cnt = 0

-----------------------------------------------------------------------------
(* The cc3200 thread *)

Turn(s) == pc = "turn" /\ Main_Fuction_state = s

(* From one place to the next in the same state of the machine. *)
Go(from, to) == pc = from /\ pc' = to /\ UNCHANGED Main_Fuction_state

(* The end of a turn, in state s. *)
EndTurn(s) == pc' = "delay" /\ Main_Fuction_state' = s

Wake ==
  /\ Go("delay", "turn")
  /\ UNCHANGED <<link, phone, asked, keys, count>>

(* 0: join a network *)
Start ==
  /\ Turn(0) /\ Go("turn", "join")
  /\ socket_start' = FALSE
  /\ UNCHANGED <<net_complete_flag, net_reconnect_flag, phone, asked, keys, count>>

Joined ==
  /\ pc = "join" /\ EndTurn(1)
  /\ UNCHANGED <<link, phone, asked, keys, count>>

(* 1: listen for a phone *)
SetUdpPort ==
  /\ Turn(1) /\ Go("turn", "port")
  /\ UNCHANGED <<link, phone, asked, keys, count>>

PortOpen ==
  /\ Go("port", "port_wait")
  /\ socket_start' = TRUE
  /\ UNCHANGED <<net_complete_flag, net_reconnect_flag, phone, asked, keys, count>>

PortUp ==
  /\ pc = "port_wait" /\ EndTurn(2)
  /\ UNCHANGED <<link, phone, asked, keys, count>>

(* 2: wait for a phone.  After a reset the rest of the turn is still done. *)
NetKeyResets ==
  /\ Turn(2) /\ "net_long_push" \in F_key_state /\ Go("turn", "reset")
  /\ F_key_state' = {} /\ socket_start' = FALSE
  /\ UNCHANGED <<net_complete_flag, net_reconnect_flag, phone, asked, key_lock_flag, count>>

ResetDone ==
  /\ pc = "reset" /\ pc' = "phone" /\ Main_Fuction_state' = 0
  /\ UNCHANGED <<link, phone, asked, keys, count>>

NoNetKey ==
  /\ Turn(2) /\ "net_long_push" \notin F_key_state /\ Go("turn", "phone")
  /\ UNCHANGED <<link, phone, asked, keys, count>>

PhoneTestNew ==          \* mutant: waits for another address than the last one
  /\ pc = "phone"
  /\ EndTurn(IF Phone_IP \notin {NoIp, Pre_Phone_IP} THEN 3 ELSE Main_Fuction_state)
  /\ UNCHANGED <<link, phone, asked, keys, count>>

PhoneTest ==
  /\ pc = "phone" /\ EndTurn(IF Phone_IP # NoIp THEN 3 ELSE Main_Fuction_state)
  /\ UNCHANGED <<link, phone, asked, keys, count>>

(* 3: connect to the phone *)
SetUdpIp ==
  /\ Turn(3) /\ Go("turn", "udp")
  /\ Pre_Phone_IP' = Phone_IP
  /\ UNCHANGED <<link, is_First_connect, Phone_IP, Phone_ID, asked, keys, count>>

UdpClose ==
  /\ Go("udp", "udp_config")
  /\ socket_start' = FALSE
  /\ UNCHANGED <<net_complete_flag, net_reconnect_flag, phone, asked, keys, count>>

UdpOpen ==
  /\ Go("udp_config", "udp_wait")
  /\ socket_start' = TRUE
  /\ UNCHANGED <<net_complete_flag, net_reconnect_flag, phone, asked, keys, count>>

UdpUp ==
  /\ pc = "udp_wait" /\ EndTurn(4)
  /\ net_complete_flag' = TRUE
  /\ UNCHANGED <<net_reconnect_flag, socket_start, phone, asked, keys, count>>

(* 4: connected *)
Connected ==
  /\ Turn(4) /\ EndTurn(IF net_complete_flag THEN 5 ELSE 4)
  /\ UNCHANGED <<link, phone, asked, keys, count>>

(* 5: the meeting *)
InMeeting ==
  /\ Turn(5) /\ net_complete_flag /\ Go("turn", "idle")
  /\ UNCHANGED <<link, phone, asked, keys, count>>

IdleAnswerAlways ==      \* mutant: the count starts again every turn
  /\ Go("idle", "net")
  /\ asked' = asked \ {"is_idle"} /\ heart_beat_lose_cnt' = 0
  /\ UNCHANGED <<link, phone, keys, beat>>

IdleAnswer ==
  /\ Go("idle", "net")
  /\ asked' = asked \ {"is_idle"}
  /\ heart_beat_lose_cnt' = IF "is_idle" \in asked THEN 0 ELSE heart_beat_lose_cnt
  /\ UNCHANGED <<link, phone, keys, beat>>

(* A key that is answered clears them all. *)
KeyAnswer(place, key, next) ==
  /\ Go(place, next)
  /\ F_key_state' = IF key \in F_key_state THEN {} ELSE F_key_state
  /\ UNCHANGED <<link, phone, asked, key_lock_flag, count>>

NetKeyAnswer == KeyAnswer("net", "net_long_push", "snp")
SnpKeyAnswer == KeyAnswer("snp", "snp_short_push", "end")

MeetingEnds ==
  /\ "meeting_end" \in asked /\ Go("end", "forget")
  /\ asked' = asked \ {"meeting_end"}
  /\ net_complete_flag' = FALSE
  /\ UNCHANGED <<net_reconnect_flag, socket_start, phone, keys, count>>

ForgetFirst ==
  /\ Go("forget", "forget_ip")
  /\ is_First_connect' = TRUE
  /\ UNCHANGED <<link, Phone_IP, Phone_ID, Pre_Phone_IP, asked, keys, count>>

ForgetIp ==
  /\ pc = "forget_ip" /\ EndTurn(1)
  /\ Phone_IP' = NoIp
  /\ UNCHANGED <<link, is_First_connect, Phone_ID, Pre_Phone_IP, asked, keys, count>>

MeetingGoesOn ==
  /\ pc = "end" /\ "meeting_end" \notin asked /\ EndTurn(5)
  /\ UNCHANGED <<link, phone, asked, keys, count>>

(* 5, the link is lost: cc3200_reconnect *)
LinkLost ==
  /\ Turn(5) /\ ~net_complete_flag /\ Go("turn", "poll")
  /\ UNCHANGED <<link, phone, asked, keys, count>>

PollForgets ==           \* mutant: begins by forgetting the request
  /\ Go("poll", "poll_delay")
  /\ net_reconnect_flag' = FALSE
  /\ UNCHANGED <<net_complete_flag, socket_start, phone, asked, keys, count>>

Poll ==
  /\ Go("poll", IF net_reconnect_flag THEN "compare" ELSE "poll_delay")
  /\ net_reconnect_flag' = FALSE
  /\ UNCHANGED <<net_complete_flag, socket_start, phone, asked, keys, count>>

PollAgain ==
  /\ Go("poll_delay", "poll")
  /\ UNCHANGED <<link, phone, asked, keys, count>>

SameIp ==
  /\ pc = "compare" /\ Pre_Phone_IP = Phone_IP /\ EndTurn(5)
  /\ net_complete_flag' = TRUE
  /\ UNCHANGED <<net_reconnect_flag, socket_start, phone, asked, keys, count>>

OtherIpEarly ==          \* mutant: the link is up before the socket is
  /\ Pre_Phone_IP # Phone_IP /\ Go("compare", "again")
  /\ Pre_Phone_IP' = Phone_IP /\ net_complete_flag' = TRUE
  /\ UNCHANGED <<net_reconnect_flag, socket_start, is_First_connect, Phone_IP, Phone_ID,
                 asked, keys, count>>

OtherIp ==
  /\ Pre_Phone_IP # Phone_IP /\ Go("compare", "again")
  /\ Pre_Phone_IP' = Phone_IP
  /\ UNCHANGED <<link, is_First_connect, Phone_IP, Phone_ID, asked, keys, count>>

AgainClose ==
  /\ Go("again", "again_config")
  /\ socket_start' = FALSE
  /\ UNCHANGED <<net_complete_flag, net_reconnect_flag, phone, asked, keys, count>>

AgainOpen ==
  /\ Go("again_config", "again_wait")
  /\ socket_start' = TRUE
  /\ UNCHANGED <<net_complete_flag, net_reconnect_flag, phone, asked, keys, count>>

AgainUp ==
  /\ pc = "again_wait" /\ EndTurn(5)
  /\ net_complete_flag' = TRUE
  /\ UNCHANGED <<net_reconnect_flag, socket_start, phone, asked, keys, count>>

Cc3200 ==
  \/ Wake
  \/ Start \/ Joined \/ SetUdpPort \/ PortOpen \/ PortUp
  \/ NetKeyResets \/ ResetDone \/ NoNetKey \/ PhoneTest
  \/ SetUdpIp \/ UdpClose \/ UdpOpen \/ UdpUp \/ Connected
  \/ InMeeting \/ IdleAnswer \/ NetKeyAnswer \/ SnpKeyAnswer
  \/ MeetingEnds \/ ForgetFirst \/ ForgetIp \/ MeetingGoesOn
  \/ LinkLost \/ Poll \/ PollAgain \/ SameIp \/ OtherIp
  \/ AgainClose \/ AgainOpen \/ AgainUp

-----------------------------------------------------------------------------
(* The led thread: once a second, while the cc3200 thread sleeps.  It may  *)
(* be preempted between the test of the count and the end of the link.     *)

Beat ==
  /\ beat = "test" /\ pc \in Sleeping /\ net_complete_flag
  /\ heart_beat_lose_cnt' = heart_beat_lose_cnt + 1
  /\ beat' = IF heart_beat_lose_cnt' >= 4 THEN "clear" ELSE "test"
  /\ UNCHANGED <<Main_Fuction_state, pc, link, phone, asked, keys>>

BeatLost ==
  /\ beat = "clear" /\ pc \in Sleeping
  /\ heart_beat_lose_cnt' = 0 /\ net_complete_flag' = FALSE /\ beat' = "test"
  /\ UNCHANGED <<Main_Fuction_state, pc, net_reconnect_flag, socket_start, phone, asked, keys>>

(* The Key thread: a key counts once until all are released. *)
KeyPush(key) ==
  /\ ~key_lock_flag
  /\ F_key_state' = F_key_state \cup {key} /\ key_lock_flag' = TRUE
  /\ UNCHANGED <<Main_Fuction_state, pc, link, phone, asked, count>>

KeyRelease ==
  /\ key_lock_flag' = FALSE
  /\ UNCHANGED <<Main_Fuction_state, pc, link, phone, asked, F_key_state, count>>

-----------------------------------------------------------------------------
(* The interrupt of USART2: a frame is complete. *)

Frame == socket_start /\ UNCHANGED <<Main_Fuction_state, pc, socket_start, keys, count>>

(* 0x75, with the bar code of another board *)
RequestWrong ==
  /\ Frame
  /\ net_complete_flag' = FALSE
  /\ UNCHANGED <<net_reconnect_flag, phone, asked>>

(* 0x75 from a phone: it pairs with the board ... *)
RequestFirst(id, ip) ==
  /\ Frame /\ is_First_connect
  /\ is_First_connect' = FALSE /\ Phone_IP' = ip /\ Phone_ID' = id
  /\ UNCHANGED <<net_complete_flag, net_reconnect_flag, Pre_Phone_IP, asked>>

(* ... or connects again, if it is the one that is paired. *)
RequestAgain(id, ip) ==
  /\ Frame /\ ~is_First_connect /\ id = Phone_ID
  /\ Phone_IP' = ip /\ net_reconnect_flag' = TRUE
  /\ UNCHANGED <<net_complete_flag, is_First_connect, Phone_ID, Pre_Phone_IP, asked>>

(* 0x78, with the right bar code *)
Search(id) ==
  /\ Frame
  /\ Phone_ID' = id
  /\ UNCHANGED <<net_complete_flag, net_reconnect_flag, is_First_connect, Phone_IP,
                 Pre_Phone_IP, asked>>

(* 0xA9 *)
HeartBeat ==
  /\ Frame
  /\ asked' = asked \cup {"is_idle"}
  /\ UNCHANGED <<net_complete_flag, net_reconnect_flag, phone>>

(* 0xA1 *)
EndMeeting ==
  /\ Frame
  /\ asked' = (asked \cup {"meeting_end"}) \ {"is_idle"}
  /\ UNCHANGED <<net_complete_flag, net_reconnect_flag, phone>>

Next ==
  \/ Cc3200
  \/ Beat \/ BeatLost
  \/ KeyRelease \/ \E key \in Keys : KeyPush(key)
  \/ RequestWrong \/ HeartBeat \/ EndMeeting
  \/ \E id \in Phones : Search(id)
  \/ \E id \in Phones, ip \in IPs : RequestFirst(id, ip) \/ RequestAgain(id, ip)

Spec == Init /\ [][Next]_vars

-----------------------------------------------------------------------------
(* While the link is up the frames of the phone are read: no procedure     *)
(* that talks AT with the module runs under it (usart2.c:226-252).         *)
ConnectedListens == net_complete_flag => socket_start

(* wifi.c:228-230: a phone that connects again is the one whose ID was     *)
(* stored at the first connection: the stored ID is not changed later.     *)
FirstPhoneKept == [][Phone_ID' # Phone_ID => is_First_connect]_vars
=============================================================================
