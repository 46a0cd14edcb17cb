------------------------------- MODULE LedSeq -------------------------------
(***************************************************************************)
(* The LED sequences of ledseq.c for one LED.  Each sequence has a state,  *)
(* the step it is at; the most urgent sequence that is not stopped is the  *)
(* active one.  ledseq_run and ledseq_stop are called by the application's *)
(* threads, runLedseq also by the timer thread when the LED's timer        *)
(* expires.  A binary semaphore, ledseqSem, covers parts of them.          *)
(*                                                                         *)
(* The threads run one at a time: the most urgent one that is not waiting. *)
(* A thread outside its calls lets the others run.                         *)
(***************************************************************************)
EXTENDS Integers, Sequences, FiniteSets

CONSTANTS
  Caller,        \* the application's threads, the most urgent first (a sequence)
  TimerThread,   \* the timer thread, more urgent than all of them
  None,          \* nobody; no sequence
  Steps,         \* sequences[]: for each priority, its steps
  Uses,          \* the sequences each thread runs and stops
  Alone          \* TRUE: calls and time-outs do not overlap

STOP == -1       \* LEDSEQ_STOP as a state

App    == {Caller[i] : i \in DOMAIN Caller}
LedThread == App \cup {TimerThread}
Seqs   == DOMAIN Steps

(* Every sequence ends with LEDSEQ_LOOP or LEDSEQ_STOP (ledseq.c:30-121).  *)
LedSeqAssumption ==
  /\ TimerThread \notin App /\ None \notin LedThread
  /\ Steps \in Seq(Seq([action : {"wait", "loop", "stop"}, value : BOOLEAN]))
  /\ None \notin Seqs
  /\ \A p \in Seqs : Len(Steps[p]) > 0 /\ Steps[p][Len(Steps[p])].action # "wait"
  /\ Uses \in [App -> SUBSET Seqs]
  /\ Alone \in BOOLEAN

VARIABLES
  state,       \* state[led]
  active,      \* activeSeq[led], None if it is LEDSEQ_STOP
  led,         \* what the LED shows
  started,     \* the timer has been started; it is periodic
  sem,         \* who has taken ledseqSem, and the threads that wait for it
  at           \* each thread: its place and its local variables

ledVars == <<state, active, led, started, sem, at>>

PC == {"out", "take", "set", "forget", "choose", "give", "test",
       "read_active", "read_state", "advance", "step_take", "step",
       "step_forget", "step_choose", "step_led", "step_give"}

(* A state is an index from 0; a step read beyond the end goes on there.   *)
Longest == CHOOSE n \in {Len(Steps[p]) : p \in Seqs} : \A p \in Seqs : Len(Steps[p]) <= n

LedTypeOK ==
  /\ state \in [Seqs -> STOP .. Longest + Cardinality(LedThread)]
  /\ active \in Seqs \cup {None}
  /\ led \in BOOLEAN /\ started \in BOOLEAN
  /\ sem.holder \in LedThread \cup {None} /\ sem.waiting \in Seq(LedThread)
  /\ at \in [LedThread -> [pc : PC, seq : Seqs \cup {None}, stop : BOOLEAN,
                           prio : Seqs \cup {None},
                           idx : STOP .. Longest + Cardinality(LedThread),
                           leave : BOOLEAN]]

Out == [pc |-> "out", seq |-> None, stop |-> FALSE, prio |-> None, idx |-> 0, leave |-> FALSE]

LedInit ==
  /\ state = [p \in Seqs |-> STOP] /\ active = None
  /\ led = FALSE /\ started = FALSE
  /\ sem = [holder |-> None, waiting |-> <<>>]
  /\ at = [t \in LedThread |-> Out]

-----------------------------------------------------------------------------
Waits(t) == \E i \in DOMAIN sem.waiting : sem.waiting[i] = t
MoreUrgent(t) ==
  IF t = TimerThread THEN {}
  ELSE {TimerThread} \cup
       {u \in App : \E i, j \in DOMAIN Caller : Caller[i] = u /\ Caller[j] = t /\ i < j}

Busy(t) == at[t].pc # "out"
Runs(t) == ~Waits(t) /\ \A u \in MoreUrgent(t) : Busy(u) => Waits(u)
In(t, pc) == Runs(t) /\ at[t].pc = pc
GoTo(t, pc) == at' = [at EXCEPT ![t].pc = pc]
Quiet == \A t \in LedThread : ~Busy(t)

(* rt_sem_take and rt_sem_release: the first waiter gets the semaphore.    *)
Take(t) ==
  sem' = IF sem.holder = None THEN [sem EXCEPT !.holder = t]
         ELSE [sem EXCEPT !.waiting = Append(@, t)]
Give ==
  sem' = IF sem.waiting = <<>> THEN [sem EXCEPT !.holder = None]
         ELSE [holder |-> sem.waiting[1], waiting |-> Tail(sem.waiting)]

(* updateActive: two writes of activeSeq, the LED switched off between     *)
Forget == active' = None /\ led' = FALSE
First  == {p \in Seqs : state[p] # STOP}
ChooseLast == active' = IF First = {} THEN None ELSE CHOOSE p \in First : \A q \in First : q <= p
Choose == active' = IF First = {} THEN None ELSE CHOOSE p \in First : \A q \in First : p <= q

-----------------------------------------------------------------------------
(* ledseq_run and ledseq_stop *)

Call(t) ==
  /\ In(t, "out") /\ t # TimerThread
  /\ Alone => Quiet
  /\ \E p \in Uses[t], s \in BOOLEAN :
       at' = [at EXCEPT ![t] = [Out EXCEPT !.pc = "take", !.seq = p, !.stop = s]]
  /\ UNCHANGED <<state, active, led, started, sem>>

CallTake(t) ==
  /\ In(t, "take") /\ Take(t) /\ GoTo(t, "set")
  /\ UNCHANGED <<state, active, led, started>>

CallSet(t) ==
  /\ In(t, "set") /\ GoTo(t, "forget")
  /\ state' = [state EXCEPT ![at[t].seq] = IF at[t].stop THEN STOP ELSE 0]
  /\ UNCHANGED <<active, led, started, sem>>

CallForget(t) ==
  /\ In(t, "forget") /\ GoTo(t, "choose") /\ Forget
  /\ UNCHANGED <<state, started, sem>>

CallChoose(t) ==
  /\ In(t, "choose") /\ GoTo(t, "give") /\ Choose
  /\ UNCHANGED <<state, led, started, sem>>

CallGive(t) ==
  /\ In(t, "give") /\ Give
  /\ GoTo(t, IF at[t].stop THEN "read_active" ELSE "test")
  /\ UNCHANGED <<state, active, led, started>>

CallTestMissing(t) ==          \* mutant: never runs the first step
  /\ In(t, "test") /\ GoTo(t, "out")
  /\ UNCHANGED <<state, active, led, started, sem>>

CallTest(t) ==
  /\ In(t, "test")
  /\ GoTo(t, IF active = at[t].seq THEN "read_active" ELSE "out")
  /\ UNCHANGED <<state, active, led, started, sem>>

-----------------------------------------------------------------------------
(* runLedseq *)

Expire ==
  /\ In(TimerThread, "out") /\ started
  /\ Alone => Quiet
  /\ at' = [at EXCEPT ![TimerThread] = [Out EXCEPT !.pc = "read_active"]]
  /\ UNCHANGED <<state, active, led, started, sem>>

ReadActive(t) ==
  /\ In(t, "read_active")
  /\ at' = [at EXCEPT ![t] = IF active = None THEN Out
                             ELSE [@ EXCEPT !.pc = "read_state", !.prio = active]]
  /\ UNCHANGED <<state, active, led, started, sem>>

ReadState(t) ==
  /\ In(t, "read_state")
  /\ at' = [at EXCEPT ![t].pc = "advance", ![t].idx = state[at[t].prio]]
  /\ UNCHANGED <<state, active, led, started, sem>>

(* state++: the build may add to the value read above or read it again.    *)
Advance(t) ==
  /\ In(t, "advance") /\ GoTo(t, "step_take")
  /\ \E from \in {at[t].idx, state[at[t].prio]} :
       state' = [state EXCEPT ![at[t].prio] = from + 1]
  /\ UNCHANGED <<active, led, started, sem>>

StepTake(t) ==
  /\ In(t, "step_take") /\ Take(t) /\ GoTo(t, "step")
  /\ UNCHANGED <<state, active, led, started>>

InSequence(t) == at[t].idx + 1 \in DOMAIN Steps[at[t].prio]
StepOf(t) == Steps[at[t].prio][at[t].idx + 1]

(* What is beyond a sequence is not known: a thread that gets there stops. *)
(* Every wait of ledseq.c lasts for a while (step->action is not 0).       *)
StepLoop(t) ==
  /\ In(t, "step") /\ InSequence(t) /\ StepOf(t).action = "loop"
  /\ state' = [state EXCEPT ![at[t].prio] = 0]
  /\ GoTo(t, "step_give")
  /\ UNCHANGED <<active, led, started, sem>>

StepStop(t) ==
  /\ In(t, "step") /\ InSequence(t) /\ StepOf(t).action = "stop"
  /\ state' = [state EXCEPT ![at[t].prio] = STOP]
  /\ GoTo(t, "step_forget")
  /\ UNCHANGED <<active, led, started, sem>>

StepForget(t) ==
  /\ In(t, "step_forget") /\ GoTo(t, "step_choose") /\ Forget
  /\ UNCHANGED <<state, started, sem>>

StepChoose(t) ==
  /\ In(t, "step_choose") /\ GoTo(t, "step_led") /\ Choose
  /\ UNCHANGED <<state, led, started, sem>>

StepLed(t) ==
  /\ In(t, "step_led") /\ GoTo(t, "step_give")
  /\ led' = StepOf(t).value
  /\ UNCHANGED <<state, active, started, sem>>

StepWait(t) ==
  /\ In(t, "step") /\ InSequence(t) /\ StepOf(t).action = "wait"
  /\ led' = StepOf(t).value
  /\ started' = TRUE
  /\ at' = [at EXCEPT ![t].pc = "step_give", ![t].leave = TRUE]
  /\ UNCHANGED <<state, active, sem>>

StepGive(t) ==
  /\ In(t, "step_give") /\ Give
  /\ at' = [at EXCEPT ![t] = IF @.leave THEN Out ELSE [@ EXCEPT !.pc = "read_active"]]
  /\ UNCHANGED <<state, active, led, started>>

LedNext ==
  \/ Expire
  \/ \E t \in LedThread :
       \/ Call(t) \/ CallTake(t) \/ CallSet(t) \/ CallForget(t) \/ CallChoose(t)
       \/ CallGive(t) \/ CallTest(t)
       \/ ReadActive(t) \/ ReadState(t) \/ Advance(t) \/ StepTake(t)
       \/ StepLoop(t) \/ StepStop(t) \/ StepForget(t) \/ StepChoose(t)
       \/ StepLed(t) \/ StepWait(t) \/ StepGive(t)

LedSpec == LedInit /\ [][LedNext]_ledVars

-----------------------------------------------------------------------------
(* ledseq.c:6-8: the semaphore makes sure that a timer that expires while  *)
(* the timeout function is still at work does not put the sequences in     *)
(* disorder: a step is read at an index of its sequence, not at that of a  *)
(* sequence that is stopped, -1, or beyond the end.                        *)
StepsInSequence == \A t \in LedThread : In(t, "step") => InSequence(t)

(* Between calls the active sequence is the most urgent one that runs.     *)
MostUrgentActive ==
  Quiet => /\ active = None <=> First = {}
           /\ active # None => active \in First /\ \A p \in First : active <= p

(* A sequence that runs goes on (ledseq.c:203-266): between calls the      *)
(* active one has stopped at a step that waits, and the timer that will    *)
(* end the wait is started.  (Whether the LED still shows that step is     *)
(* another matter: ledseq_run of a less urgent sequence switches it off.)  *)
RunningGoesOn ==
  Quiet /\ active # None =>
    /\ started
    /\ state[active] \in DOMAIN Steps[active]
    /\ Steps[active][state[active]].action = "wait"
=============================================================================
