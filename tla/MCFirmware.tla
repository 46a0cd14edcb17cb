----------------------------- MODULE MCFirmware -----------------------------
(***************************************************************************)
(* The firmware's own parts; the variable object says which:               *)
(*                                                                         *)
(*   link   WifiLink, with one phone that has two addresses                *)
(*   led    LedSeq: two threads and the timer thread, whose calls do not   *)
(*          overlap, with three sequences                                  *)
(*   commands   AtPort: a buffer of four characters, an answer of two      *)
(*   frames     UartTx: frames of one and three bytes in a ring of eight   *)
(*                                                                         *)
(* While one of them is checked the others keep their initial state.       *)
(***************************************************************************)
EXTENDS WifiLink, AtPort, UartTx, LedSeq, LedShapes

CONSTANTS c, d

VARIABLE object

mcvars == <<object, vars, portVars, uartVars, ledVars>>

MCAck == <<"O", "K">>

TwoCallers == <<c, d>>
UsesAll    == [x \in App |-> Seqs]

ASSUME
  /\ WifiLinkAssumption /\ AtPortAssumption
  /\ UartTxAssumption /\ LedSeqAssumption

OnLink == object = "link" /\ UNCHANGED <<object, portVars, uartVars, ledVars>>
OnLed  == object = "led" /\ UNCHANGED <<object, vars, portVars, uartVars>>
OnCommands == object = "commands" /\ UNCHANGED <<object, vars, uartVars, ledVars>>
OnFrames == object = "frames" /\ UNCHANGED <<object, vars, portVars, ledVars>>

MCInit ==
  /\ Init /\ PortInit /\ UartInit /\ LedInit
  /\ object \in {"link", "led", "commands", "frames"}

MCNext ==
  \/ OnLink /\ Wake
  \/ OnLink /\ Start
  \/ OnLink /\ Joined
  \/ OnLink /\ SetUdpPort
  \/ OnLink /\ PortOpen
  \/ OnLink /\ PortUp
  \/ OnLink /\ NetKeyResets
  \/ OnLink /\ ResetDone
  \/ OnLink /\ NoNetKey
  \/ OnLink /\ PhoneTest
  \/ OnLink /\ SetUdpIp
  \/ OnLink /\ UdpClose
  \/ OnLink /\ UdpOpen
  \/ OnLink /\ UdpUp
  \/ OnLink /\ Connected
  \/ OnLink /\ InMeeting
  \/ OnLink /\ IdleAnswer
  \/ OnLink /\ NetKeyAnswer
  \/ OnLink /\ SnpKeyAnswer
  \/ OnLink /\ MeetingEnds
  \/ OnLink /\ ForgetFirst
  \/ OnLink /\ ForgetIp
  \/ OnLink /\ MeetingGoesOn
  \/ OnLink /\ LinkLost
  \/ OnLink /\ Poll
  \/ OnLink /\ PollAgain
  \/ OnLink /\ SameIp
  \/ OnLink /\ OtherIp
  \/ OnLink /\ AgainClose
  \/ OnLink /\ AgainOpen
  \/ OnLink /\ AgainUp
  \/ OnLink /\ Beat
  \/ OnLink /\ BeatLost
  \/ OnLink /\ KeyRelease
  \/ OnLink /\ RequestWrong
  \/ OnLink /\ HeartBeat
  \/ OnLink /\ EndMeeting
  \/ \E key \in Keys :
       \/ OnLink /\ KeyPush(key)
  \/ \E id \in Phones :
       \/ OnLink /\ Search(id)
  \/ \E id \in Phones, ip \in IPs :
       \/ OnLink /\ RequestFirst(id, ip)
       \/ OnLink /\ RequestAgain(id, ip)
  \/ OnLed /\ Expire
  \/ \E t \in LedThread :
       \/ OnLed /\ Call(t)
       \/ OnLed /\ CallTake(t)
       \/ OnLed /\ CallSet(t)
       \/ OnLed /\ CallForget(t)
       \/ OnLed /\ CallChoose(t)
       \/ OnLed /\ CallGive(t)
       \/ OnLed /\ CallTest(t)
       \/ OnLed /\ ReadActive(t)
       \/ OnLed /\ ReadState(t)
       \/ OnLed /\ Advance(t)
       \/ OnLed /\ StepTake(t)
       \/ OnLed /\ StepLoop(t)
       \/ OnLed /\ StepStop(t)
       \/ OnLed /\ StepForget(t)
       \/ OnLed /\ StepChoose(t)
       \/ OnLed /\ StepLed(t)
       \/ OnLed /\ StepWait(t)
       \/ OnLed /\ StepGive(t)
  \/ OnCommands /\ Send
  \/ OnCommands /\ Answered
  \/ OnCommands /\ Another
  \/ OnCommands /\ TimeUp
  \/ OnCommands /\ SetSocket
  \/ \E ch \in Char :
       \/ OnCommands /\ Store(ch)
  \/ OnCommands /\ Overflow
  \/ OnCommands /\ BatchEnd
  \/ \E n \in Frames :
       \/ OnFrames /\ PutFrame(n) /\ UNCHANGED exchanging
  \/ OnFrames /\ PutByte /\ UNCHANGED exchanging
  \/ OnFrames /\ PutEnd /\ UNCHANGED exchanging
  \/ OnFrames /\ SendByte /\ UNCHANGED exchanging
  \/ OnFrames /\ SendNothing /\ UNCHANGED exchanging
  \/ OnFrames /\ TurnSocket

(* The cc3200 thread goes on: its sleeps end, it is preempted for a short  *)
(* time only, and the Wi-Fi module it waits for comes up in the end.  The  *)
(* led thread is due again and again and gets the processor in a sleep.    *)
Fairness ==
  /\ WF_mcvars(OnLink /\ Cc3200)
  /\ SF_mcvars(OnLink /\ Beat)
  /\ SF_mcvars(OnLink /\ BeatLost)

MCSpec == MCInit /\ [][MCNext]_mcvars /\ Fairness

-----------------------------------------------------------------------------
(* ConnectedListens is that of WifiLink, AckIsFresh and BatchIsTimed those *)
(* of AtPort, PendingIsSent of UartTx; MostUrgentActive and RunningGoesOn  *)
(* are those of LedSeq for calls that do not overlap.                      *)

(* A phone that falls silent is noticed: the link does not stay up without *)
(* heart beats (application.c:79-87, 159-164).                             *)
SilenceNoticed == ~ <>[](net_complete_flag /\ "is_idle" \notin asked)

(* A phone that asks while the board waits for one is connected, also one  *)
(* that comes back with its old address, or whose first request fell       *)
(* between the two steps that forget the last phone and that asks again    *)
(* (application.c:102-152, 182-184, wifi.c:244-282).                       *)
PairedIsConnected ==
  (Main_Fuction_state \in 0 .. 2 /\ Phone_IP # NoIp) ~> net_complete_flag

(* In a meeting whose link is lost, a request to connect again is not      *)
(* forgotten (application.c:203-215, cc3200.c:385-429).                    *)
ReconnectAnswered ==
  (Main_Fuction_state = 5 /\ ~net_complete_flag /\ net_reconnect_flag)
    ~> (net_complete_flag \/ Main_Fuction_state # 5)
=============================================================================
