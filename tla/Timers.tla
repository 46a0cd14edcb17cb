------------------------------- MODULE Timers -------------------------------
(***************************************************************************)
(* The timers of timer.c: the hard list, checked in the tick interrupt,    *)
(* the soft list, checked by the timer thread, and the thread itself.      *)
(* RT_TIMER_SKIP_LIST_LEVEL is 1, so that each list is one sorted list.    *)
(*                                                                         *)
(* tm is the memory the calls share:                                       *)
(*   list     the hard and the soft list, from head->next on               *)
(*   active   the timers with RT_TIMER_FLAG_ACTIVATED                      *)
(*   periodic the timers with RT_TIMER_FLAG_PERIODIC                       *)
(*   timeout  timer->timeout_tick                                          *)
(*   init     timer->init_tick                                             *)
(*   ready    timer_thread.stat is READY                                   *)
(*                                                                         *)
(* The timer thread is the most urgent thread of the firmware: an          *)
(* application thread, "app", runs only while it waits.  The tick          *)
(* interrupt runs to its end, one expired timer a step; other interrupt    *)
(* handlers start timers in one step.  A thread's call is cut where        *)
(* rt_timer_start and rt_timer_stop enable interrupts.  Ticks are counted  *)
(* modulo TickMod, so that RT_TICK_MAX is TickMod - 1.                     *)
(*                                                                         *)
(* rt_thread_resume(&timer_thread) is one step here; what its own windows  *)
(* let through is the subject of Threads.                                  *)
(***************************************************************************)
EXTENDS Integers, Lists

CONSTANTS
  Timer,           \* the timers
  SoftTimer,       \* those with RT_TIMER_FLAG_SOFT_TIMER
  ThreadTimer,     \* the hard timer of the timer thread (its thread_timer)
  NoTimer,         \* no timer; the head of a list
  TickMod,         \* ticks wrap at TickMod (2^32 in the code)
  FirstTick,       \* rt_tick when the model begins
  LastTick,        \* bound: no tick follows this one (TickMod: no bound)
  MaxLag,          \* bound: ticks a call or a round of the timer thread lasts
  InitTicks,       \* the init_tick each timer may have
  Periodic,        \* the timers created with RT_TIMER_FLAG_PERIODIC
  AppOp,           \* the calls <<op, timer>> of the application thread
  IsrStart,        \* the timers that other interrupt handlers start
  CallbackOp       \* the calls <<timer, op, timer>> of the timeout functions

Op == {"start", "stop", "detach"}
Used == Timer \ {ThreadTimer}
Calls(t) == {co \in CallbackOp : co[1] = t}

TimersAssumption ==
  /\ SoftTimer \subseteq Timer /\ ThreadTimer \in Timer \ SoftTimer
  /\ NoTimer \notin Timer
  /\ TickMod \in Nat /\ FirstTick \in 0 .. TickMod - 1 /\ LastTick \in 0 .. TickMod
  /\ MaxLag \in Nat
  /\ \A t \in Timer : InitTicks[t] \subseteq 1 .. (TickMod - 1) \div 2 - 1
  /\ Periodic \subseteq Used /\ IsrStart \subseteq Used
  /\ AppOp \subseteq Op \X Used /\ CallbackOp \subseteq Used \X Op \X Used

(* What the order of the lists needs.  A timer that one context is         *)
(* starting, with interrupts enabled, is not started by another one: that  *)
(* would link it, then stamp it or link it again.                          *)
AppStarts         == {o[2] : o \in {x \in AppOp : x[1] = "start"}}
CallbackStarts(S) == {co[3] : co \in {x \in CallbackOp : x[1] \in S /\ x[2] = "start"}}
InterruptStarts   == IsrStart \cup CallbackStarts(Timer \ SoftTimer)
Restarted         == Periodic \cap SoftTimer     \* by the timer thread

OneStarter ==
  /\ AppStarts \cap CallbackStarts(SoftTimer) = {}
  /\ InterruptStarts \cap (AppStarts \cup CallbackStarts(SoftTimer) \cup Restarted) = {}

(* What the timer thread needs: between its look at the soft list and its  *)
(* sleep no interrupt handler starts a timer it would have to see, as      *)
(* rt_timer_start wakes it only if it sleeps (timer.c:395-406).            *)
SoftInThreads == InterruptStarts \cap SoftTimer = {}

(* What the saved n of rt_soft_timer_check needs: no timeout function      *)
(* stops or detaches another soft timer than its own.                      *)
StopsOnlyOwn ==
  \A co \in CallbackOp : co[2] # "start" /\ co[3] \in SoftTimer => co[3] = co[1]

(* Half a turn of the tick is longer than the model runs, or, with hard    *)
(* timers only, than a time-out and the longest call.                      *)
Half == (TickMod - 1) \div 2

NoWrap ==
  /\ FirstTick <= LastTick /\ LastTick < Half
  /\ \A t \in Timer : \A d \in InitTicks[t] : LastTick + d < Half

HardOnly ==
  /\ SoftTimer = {} /\ MaxLag < Half
  /\ \A t \in Timer : \A d \in InitTicks[t] : d + MaxLag < Half

InReach == NoWrap \/ HardOnly

VARIABLES
  tick,       \* rt_tick
  tm,         \* see above
  op,         \* the call each thread is in: its place and its timer
  isr,        \* "check" while rt_timer_check runs, "none" otherwise
  tt,         \* the timer thread: its place, its local variables, and in late
              \* (history) the ticks between its look at the clock and its sleep
  lag,        \* bound: ticks since no call was under way
  detached    \* history: the timers that were detached

timersVars == <<tick, tm, op, isr, tt, lag, detached>>

Context == {"app", "timer"}
TickMax == TickMod - 1

OpPC == {"none", "start", "start_stamp", "start_insert", "start_wake",
         "stop", "stop_unlink", "stop_clear", "detach"}
ThreadPC == {"next", "decide", "sleep", "check", "loop", "call", "return"}

Memory ==
  [ list     : [{"hard", "soft"} -> Seq(Timer)],
    active   : SUBSET Timer,
    periodic : SUBSET Timer,
    timeout  : [Timer -> 0 .. TickMax],
    init     : [Timer -> 0 .. TickMax],
    ready    : BOOLEAN ]

TimersTypeOK ==
  /\ tick \in 0 .. TickMax
  /\ tm \in Memory
  /\ op \in [Context -> [pc : OpPC, tmr : Timer \cup {NoTimer}]]
  /\ isr \in {"none", "check"}
  /\ tt \in [pc : ThreadPC, next : 0 .. TickMax, now : 0 .. TickMax,
             n : SoftTimer \cup {NoTimer}, t : SoftTimer \cup {NoTimer},
             late : 0 .. MaxLag]
  /\ lag \in 0 .. MaxLag
  /\ detached \subseteq Timer

NoOp == [pc |-> "none", tmr |-> NoTimer]

TimersInit ==
  /\ tick = FirstTick
  /\ \E d \in [Timer -> 0 .. TickMax] :
       /\ \A t \in Timer : d[t] \in InitTicks[t]
       /\ tm = [ list |-> [l \in {"hard", "soft"} |-> <<>>],
                active |-> {}, periodic |-> Periodic,
                timeout |-> [t \in Timer |-> 0], init |-> d, ready |-> TRUE ]
  /\ op = [c \in Context |-> NoOp]
  /\ isr = "none"
  /\ tt = [pc |-> "next", next |-> 0, now |-> 0, n |-> NoTimer, t |-> NoTimer,
            late |-> 0]
  /\ lag = 0 /\ detached = {}

-----------------------------------------------------------------------------
(* timer.c, on the memory u *)

ListOf(t) == IF t \in SoftTimer THEN "soft" ELSE "hard"
Linked(u, t) == IsIn(u.list[ListOf(t)], t)

(* How far tick b is ahead of tick a; "now" has reached tick b if it is    *)
(* less than half a turn ahead of it.                                      *)
Ahead(a, b) == (b - a) % TickMod
Due(u, t, now) == Ahead(u.timeout[t], now) < Half

(* _rt_timer_remove *)
TimerRemove(u, t) == [u EXCEPT !.list[ListOf(t)] = Drop(@, t)]

Clear(u, t) == [u EXCEPT !.active = @ \ {t}]

(* The insertion of rt_timer_start: before the first timer that expires    *)
(* later, after those of the same tick.                                    *)
InsertUnwrapped(u, t) ==         \* mutant: compares ticks without the wrap
  LET s == u.list[ListOf(t)]
      p == LeastOf({i \in 1 .. Len(s) + 1 :
                      i = Len(s) + 1 \/ u.timeout[s[i]] > u.timeout[t]})
  IN  [u EXCEPT !.list[ListOf(t)] = LinkIn(s, p, t), !.active = @ \cup {t}]

Later(u, t, x) == Ahead(u.timeout[t], u.timeout[x]) \in 1 .. Half - 1
Place(u, s, t) == LeastOf({i \in 1 .. Len(s) + 1 : i = Len(s) + 1 \/ Later(u, t, s[i])})

Insert(u, t) ==
  LET s == u.list[ListOf(t)]
  IN  [u EXCEPT !.list[ListOf(t)] = LinkIn(s, Place(u, s, t), t), !.active = @ \cup {t}]

Stamp(u, t) == [u EXCEPT !.timeout[t] = (tick + u.init[t]) % TickMod]

(* rt_timer_stop *)
Stop(u, t) == IF t \in u.active THEN Clear(TimerRemove(u, t), t) ELSE u

(* rt_thread_resume(&timer_thread): its own timer is stopped. *)
WakeThread(u) == [Stop(u, ThreadTimer) EXCEPT !.ready = TRUE]
WakeIfWaiting(u, t) == IF t \in SoftTimer /\ ~u.ready THEN WakeThread(u) ELSE u

(* A whole call with interrupts disabled *)
Start(u, t) == WakeIfWaiting(Insert(Stamp(Clear(TimerRemove(u, t), t), t), t), t)

Called(u, o, t) ==
  CASE o = "start" -> Start(u, t) [] o = "stop" -> Stop(u, t) [] OTHER -> TimerRemove(u, t)

(* What follows the timeout function of t in rt_timer_check: a periodic    *)
(* timer is started again, any other is marked as stopped.                 *)
Rearm(u, t) ==
  IF t \in u.periodic \cap u.active THEN Start(Clear(u, t), t) ELSE Clear(u, t)

-----------------------------------------------------------------------------
(* rt_timer_start, rt_timer_stop and rt_timer_detach called by a thread *)

May(c) ==
  /\ isr = "none"
  /\ IF c = "timer" THEN tm.ready ELSE ~tm.ready

In(c, pc) == May(c) /\ op[c].pc = pc
OpGo(c, pc) == op' = [op EXCEPT ![c] = IF pc = "none" THEN NoOp ELSE [@ EXCEPT !.pc = pc]]

AppCall ==
  /\ In("app", "none")
  /\ \E o \in AppOp :
       /\ o[2] \notin detached
       /\ op' = [op EXCEPT !["app"] = [pc |-> o[1], tmr |-> o[2]]]
  /\ UNCHANGED <<tick, tm, isr, tt, lag, detached>>

StartRemove(c) ==
  /\ In(c, "start") /\ OpGo(c, "start_stamp")
  /\ tm' = Clear(TimerRemove(tm, op[c].tmr), op[c].tmr)
  /\ UNCHANGED <<tick, isr, tt, lag, detached>>

StartStamp(c) ==
  /\ In(c, "start_stamp") /\ OpGo(c, "start_insert")
  /\ tm' = Stamp(tm, op[c].tmr)
  /\ UNCHANGED <<tick, isr, tt, lag, detached>>

StartInsert(c) ==
  /\ In(c, "start_insert")
  /\ OpGo(c, IF op[c].tmr \in SoftTimer THEN "start_wake" ELSE "none")
  /\ tm' = Insert(tm, op[c].tmr)
  /\ UNCHANGED <<tick, isr, tt, lag, detached>>

StartNoWake(c) ==              \* mutant: the timer thread is not told
  /\ In(c, "start_wake") /\ OpGo(c, "none")
  /\ UNCHANGED <<tick, tm, isr, tt, lag, detached>>

StartWake(c) ==
  /\ In(c, "start_wake") /\ OpGo(c, "none")
  /\ tm' = WakeIfWaiting(tm, op[c].tmr)
  /\ UNCHANGED <<tick, isr, tt, lag, detached>>

StopTest(c) ==
  /\ In(c, "stop")
  /\ OpGo(c, IF op[c].tmr \in tm.active THEN "stop_unlink" ELSE "none")
  /\ UNCHANGED <<tick, tm, isr, tt, lag, detached>>

StopUnlink(c) ==
  /\ In(c, "stop_unlink") /\ OpGo(c, "stop_clear")
  /\ tm' = TimerRemove(tm, op[c].tmr)
  /\ UNCHANGED <<tick, isr, tt, lag, detached>>

StopClear(c) ==
  /\ In(c, "stop_clear") /\ OpGo(c, "none")
  /\ tm' = Clear(tm, op[c].tmr)
  /\ UNCHANGED <<tick, isr, tt, lag, detached>>

Detach(c) ==
  /\ In(c, "detach") /\ OpGo(c, "none")
  /\ tm' = TimerRemove(tm, op[c].tmr)
  /\ detached' = detached \cup {op[c].tmr}
  /\ UNCHANGED <<tick, isr, tt, lag>>

(* rt_timer_control with RT_TIMER_CTRL_SET_TIME *)
SetTime ==
  /\ In("app", "none")
  /\ \E o \in AppOp, d \in 0 .. TickMax :
       /\ d \in InitTicks[o[2]] /\ d # tm.init[o[2]]
       /\ tm' = [tm EXCEPT !.init[o[2]] = d]
  /\ UNCHANGED <<tick, op, isr, tt, lag, detached>>

-----------------------------------------------------------------------------
(* rt_tick_increase and rt_timer_check *)

Quiet == ~tm.ready /\ op["app"].pc = "none"

TickIncrease ==
  /\ isr = "none" /\ isr' = "check"
  /\ tick # LastTick /\ tick' = (tick + 1) % TickMod
  /\ lag' = IF Quiet THEN 0 ELSE lag + 1
  /\ lag' <= MaxLag
  /\ tt' = IF tt.pc = "sleep" THEN [tt EXCEPT !.late = @ + 1] ELSE tt
  /\ UNCHANGED <<tm, op, detached>>

HardDue == tm.list["hard"] # <<>> /\ Due(tm, tm.list["hard"][1], tick)

(* The timer of the timer thread: rt_thread_timeout *)
ExpireSleep ==
  /\ isr = "check" /\ HardDue /\ tm.list["hard"][1] = ThreadTimer
  /\ tm' = [Clear(TimerRemove(tm, ThreadTimer), ThreadTimer) EXCEPT !.ready = TRUE]
  /\ UNCHANGED <<tick, op, isr, tt, lag, detached>>

(* Any other: its timeout function makes one of its calls, or none. *)
ExpireHard ==
  /\ isr = "check" /\ HardDue /\ tm.list["hard"][1] # ThreadTimer
  /\ LET t == tm.list["hard"][1]
         u == TimerRemove(tm, t)
     IN  \/ tm' = Rearm(u, t) /\ UNCHANGED detached
         \/ \E co \in Calls(t) :
              /\ tm' = Rearm(Called(u, co[2], co[3]), t)
              /\ detached' = IF co[2] = "detach" THEN detached \cup {co[3]} ELSE detached
  /\ UNCHANGED <<tick, op, isr, tt, lag>>

CheckEnd ==
  /\ isr = "check" /\ ~HardDue
  /\ isr' = "none"
  /\ UNCHANGED <<tick, tm, op, tt, lag, detached>>

(* Another interrupt handler starts a timer. *)
IsrStarts ==
  /\ isr = "none"
  /\ \E t \in IsrStart : tm' = Start(tm, t)
  /\ UNCHANGED <<tick, op, isr, tt, lag, detached>>

-----------------------------------------------------------------------------
(* rt_thread_timer_entry and rt_soft_timer_check *)

NotChecking == In("timer", "none")
ThreadAt(pc) == NotChecking /\ tt.pc = pc

NextTimeout ==
  /\ ThreadAt("next")
  /\ tt' = [tt EXCEPT !.pc = "decide",
                      !.next = IF tm.list["soft"] = <<>> THEN TickMax
                               ELSE tm.timeout[tm.list["soft"][1]]]
  /\ UNCHANGED <<tick, tm, op, isr, lag, detached>>

Round(pc) == tt' = [tt EXCEPT !.pc = pc]

SuspendSelf ==
  /\ ThreadAt("decide") /\ tt.next = TickMax
  /\ tm' = [Stop(tm, ThreadTimer) EXCEPT !.ready = FALSE]
  /\ Round("check")
  /\ UNCHANGED <<tick, op, isr, lag, detached>>

(* The tick is read, with interrupts enabled, and what is left until the   *)
(* first timer expires computed, if that is ahead.                         *)
ReadTick ==
  /\ ThreadAt("decide") /\ tt.next # TickMax
  /\ LET d == Ahead(tick, tt.next)
     IN  tt' = IF d < Half THEN [tt EXCEPT !.pc = "sleep", !.next = d, !.late = 0]
                           ELSE [tt EXCEPT !.pc = "check"]
  /\ UNCHANGED <<tick, tm, op, isr, lag, detached>>

(* rt_thread_delay: the ticks that were left, counted from now on *)
DelaySelf ==
  /\ ThreadAt("sleep")
  /\ tm' = Start([Stop(tm, ThreadTimer) EXCEPT
                    !.ready = FALSE, !.init[ThreadTimer] = tt.next], ThreadTimer)
  /\ Round("check")
  /\ UNCHANGED <<tick, op, isr, lag, detached>>

FirstSoft == IF tm.list["soft"] = <<>> THEN NoTimer ELSE tm.list["soft"][1]

CheckBeginStale ==             \* mutant: goes on where the last round stopped
  /\ ThreadAt("check")
  /\ tt' = [tt EXCEPT !.pc = "loop", !.now = tick, !.n = IF @ = NoTimer THEN FirstSoft ELSE @]
  /\ UNCHANGED <<tick, tm, op, isr, lag, detached>>

CheckBegin ==
  /\ ThreadAt("check")
  /\ tt' = [tt EXCEPT !.pc = "loop", !.now = tick, !.n = FirstSoft]
  /\ UNCHANGED <<tick, tm, op, isr, lag, detached>>

(* t->row.next: a node out of the list is linked to itself. *)
NextOf(t) ==
  LET s == tm.list["soft"]
      p == {i \in DOMAIN s : s[i] = t}
  IN  IF p = {} THEN t
      ELSE LET i == CHOOSE j \in p : TRUE IN IF i < Len(s) THEN s[i + 1] ELSE NoTimer

Looking == ThreadAt("loop") /\ tt.n # NoTimer /\ Due(tm, tt.n, tt.now)

CallSoft ==
  /\ Looking
  /\ tt' = [tt EXCEPT !.pc = "call", !.n = NextOf(tt.n), !.t = tt.n]
  /\ tm' = TimerRemove(tm, tt.n)
  /\ UNCHANGED <<tick, op, isr, lag, detached>>

CheckDone ==
  /\ ThreadAt("loop") /\ ~Looking
  /\ Round("next")
  /\ UNCHANGED <<tick, tm, op, isr, lag, detached>>

(* The timeout function of tt.t *)
Callback ==
  /\ ThreadAt("call") /\ Round("return")
  /\ \/ UNCHANGED op
     \/ \E co \in Calls(tt.t) :
          op' = [op EXCEPT !["timer"] = [pc |-> co[2], tmr |-> co[3]]]
  /\ UNCHANGED <<tick, tm, isr, lag, detached>>

CallbackReturn ==
  /\ ThreadAt("return")
  /\ tt' = [tt EXCEPT !.pc = "loop", !.now = tick]
  /\ tm' = Clear(tm, tt.t)
  /\ op' = IF tt.t \in tm.periodic \cap tm.active
           THEN [op EXCEPT !["timer"] = [pc |-> "start", tmr |-> tt.t]] ELSE op
  /\ UNCHANGED <<tick, isr, lag, detached>>

TimersNext ==
  \/ AppCall \/ SetTime
  \/ \E c \in Context :
       \/ StartRemove(c) \/ StartStamp(c) \/ StartInsert(c) \/ StartWake(c)
       \/ StopTest(c) \/ StopUnlink(c) \/ StopClear(c) \/ Detach(c)
  \/ TickIncrease \/ ExpireSleep \/ ExpireHard \/ CheckEnd \/ IsrStarts
  \/ NextTimeout \/ SuspendSelf \/ ReadTick \/ DelaySelf
  \/ CheckBegin \/ CallSoft \/ CheckDone \/ Callback \/ CallbackReturn

TimersSpec == TimersInit /\ [][TimersNext]_timersVars

-----------------------------------------------------------------------------
(* Both lists stay sorted by expiry, across the wrap of the tick: only the *)
(* first timer is looked at.                                               *)
SortedLists ==
  \A l \in {"hard", "soft"} :
    \A i, j \in DOMAIN tm.list[l] :
      i < j => /\ tm.list[l][i] # tm.list[l][j]
               /\ Ahead(tm.timeout[tm.list[l][i]], tm.timeout[tm.list[l][j]]) < Half

(* rt_timer_check leaves no timer behind whose time has come. *)
ChecksAll ==
  isr = "check" /\ isr' = "none" =>
    \A i \in DOMAIN tm.list["hard"] : ~Due(tm, tm.list["hard"][i], tick)

CheckLeavesNothingDue == [][ChecksAll]_timersVars

(* While the timer thread waits, it is woken when the first soft timer     *)
(* expires, later only by the ticks that came between its look at the      *)
(* clock and its sleep (timer.c:650, 656), unless a call is about to wake  *)
(* it.                                                                     *)
SoftWatched ==
  ~tm.ready /\ tm.list["soft"] # <<>> =>
    \/ \E c \in Context : op[c].pc = "start_wake"
    \/ /\ Linked(tm, ThreadTimer)
       /\ Ahead(tm.timeout[ThreadTimer], tm.timeout[FirstSoft] + tt.late) < Half

(* A timeout function is called for a timer that is in the list: one that  *)
(* was started, and was not stopped since ("This function will stop the    *)
(* timer", timer.c:413).                                                   *)
CallsStarted == tt.pc = "loop" /\ tt'.pc = "call" => Linked(tm, tt'.t)

OnlyStartedExpire == [][CallsStarted]_timersVars
=============================================================================
