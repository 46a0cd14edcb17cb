----------------------------- MODULE CallsProofs -----------------------------
(***************************************************************************)
(* What the calls of the objects keep, for any number of threads, any      *)
(* priorities and any start: for the calls that all objects share and for  *)
(* the completion, the event, the mailbox, the data queue and the pipe.    *)
(* For each object there is an inductive invariant (...Inv), what follows  *)
(* from it (...Holds), that it holds at first (...Start) and that each     *)
(* step keeps it and moves the contents as a bounded queue does (...Step). *)
(***************************************************************************)
EXTENDS Completion, Event, Mailbox, DataQueue, Pipe, KernelProofs

-----------------------------------------------------------------------------
(* What all the objects have in common                                     *)

(* Where a thread that waits in Receivers, or in Senders, is in its call,  *)
(* and where it is before its rt_schedule().                               *)
RecvPlaces ==
  {"recv_sched", "recv_error", "pop_sched", "pop_error", "read_sched", "read_again",
   "alloc_sched", "alloc_error", "wait_sched", "wait_error"}
SendPlaces ==
  {"send_sched", "send_error", "push_sched", "push_error", "write_sched", "write_again"}
SchedPlaces ==
  {"recv_sched", "pop_sched", "read_sched", "alloc_sched", "wait_sched",
   "send_sched", "push_sched", "write_sched"}

Waits(u, q, t) == IsIn(u.lists[Wait(q)], t)

(* What holds of the kernel record and of the threads' places whenever     *)
(* interrupts are enabled: the promises of KernelOps, and that the         *)
(* suspended threads are the queued ones, all inside a call that waits.    *)
Sound(u, p) ==
  /\ KernelOK(u)
  /\ u.stat[Idle] = "READY"
  /\ \A t \in Thread :
       /\ u.stat[t] \in {"READY", "SUSPEND", "INIT"}
       /\ u.stat[t] = "SUSPEND" <=> Waits(u, Receivers, t) \/ Waits(u, Senders, t)
       /\ Waits(u, Receivers, t) => p[t] \in RecvPlaces
       /\ Waits(u, Senders, t) => p[t] \in SendPlaces
  /\ u.stat[u.cur] # "READY" => u.stat[u.cur] = "SUSPEND" /\ p[u.cur] \in SchedPlaces

(* Nobody who waits has an error yet.                                      *)
Calm(u) == \A t \in Thread : Waits(u, Receivers, t) \/ Waits(u, Senders, t) => u.err[t] = "EOK"

(* From u to w the suspended threads of X are made READY, nothing else     *)
(* happens to the wait lists, and only a READY thread is switched to.      *)
Wakes(u, w, X) ==
  /\ KernelOK(w) /\ w.nest = u.nest
  /\ X \subseteq Thread
  /\ \A t \in X : u.stat[t] = "SUSPEND" /\ w.stat[t] = "READY"
  /\ \A t \in Thread \ X : w.stat[t] = u.stat[t]
  /\ \A q \in {Receivers, Senders}, t \in Thread : Waits(w, q, t) <=> Waits(u, q, t) /\ t \notin X
  /\ w.cur = u.cur \/ w.stat[w.cur] = "READY"

(* Whose wait a wake-up of q ends                                          *)
First(u, q) == IF Waiters(u, q) = <<>> THEN {} ELSE {Waiters(u, q)[1]}

LEMMA CallFacts ==
  ASSUME CallsAssumption
  PROVE  /\ Receivers \in WaitQueue /\ Senders \in WaitQueue /\ Receivers # Senders
         /\ Idle \in Thread
         /\ Wait(Receivers) \in ListHeads /\ Wait(Senders) \in ListHeads
BY HeadsAreHeads DEF CallsAssumption

LEMMA SoundFacts ==
  ASSUME CallsAssumption, NEW u, NEW p, Sound(u, p)
  PROVE  /\ KernelOK(u) /\ u \in Kernel /\ u.cur \in Thread /\ u.nest \in Nat
         /\ u.stat \in [Thread -> Stat] /\ u.err \in [Thread -> Error]
         /\ \A t \in Thread : ~(Waits(u, Receivers, t) /\ Waits(u, Senders, t))
<1>1. KernelOK(u) /\ u \in Kernel
  BY DEF Sound, KernelOK
<1>2. \A t \in Thread : ~(Waits(u, Receivers, t) /\ Waits(u, Senders, t))
  BY <1>1, CallFacts, HeadsAreHeads DEF KernelOK, OneList, Waits
<1> QED BY <1>1, <1>2, KernelFields

LEMMA WaitersFacts ==
  ASSUME CallsAssumption, NEW u, KernelOK(u), NEW q \in {Receivers, Senders}
  PROVE  /\ Waiters(u, q) \in Seq(Thread)
         /\ Waiters(u, q) = <<>> <=> \A x \in Thread : ~Waits(u, q, x)
         /\ Waiters(u, q) # <<>> => Waiters(u, q)[1] \in Thread /\ Waits(u, q, Waiters(u, q)[1])
         /\ First(u, q) \subseteq {x \in Thread : Waits(u, q, x)}
         /\ First(u, q) = {} <=> \A x \in Thread : ~Waits(u, q, x)
<1> DEFINE s == u.lists[Wait(q)]
<1>1. s \in Seq(Thread)
  BY CallFacts, KernelFields DEF KernelOK
<1>2. Waiters(u, q) = s
  BY DEF Waiters
<1> HIDE DEF s
<1>3. s = <<>> <=> \A x \in Thread : ~IsIn(s, x)
  BY <1>1, EmptyList
<1>4. s # <<>> => s[1] \in Thread /\ IsIn(s, s[1])
  BY <1>1 DEF IsIn
<1>5. \A x : Waits(u, q, x) <=> IsIn(s, x)
  BY DEF s, Waits
<1> QED BY <1>1, <1>2, <1>3, <1>4, <1>5 DEF First

-----------------------------------------------------------------------------
(* Soundness is kept by each kernel operation a step is made of.           *)

(* The thread that is not on its way to rt_schedule is READY and may go    *)
(* to any place.                                                           *)
LEMMA SoundMove ==
  ASSUME CallsAssumption, NEW u, NEW p, NEW b, Sound(u, p), u.stat[u.cur] = "READY",
         DOMAIN p = Thread
  PROVE  Sound(u, [p EXCEPT ![u.cur] = b])
<1>1. u.cur \in Thread
  BY SoundFacts
<1> QED BY <1>1 DEF Sound

LEMMA SoundReady ==
  ASSUME CallsAssumption, NEW u, NEW p, Sound(u, p), p[u.cur] \notin SchedPlaces
  PROVE  /\ u.stat[u.cur] = "READY" /\ u.cur \in Thread
         /\ ~Waits(u, Receivers, u.cur) /\ ~Waits(u, Senders, u.cur)
<1>1. u.cur \in Thread
  BY SoundFacts
<1> QED BY <1>1 DEF Sound

LEMMA SoundWakes ==
  ASSUME CallsAssumption, NEW u, NEW p, NEW w, NEW X, Sound(u, p), Wakes(u, w, X)
  PROVE  Sound(w, p)
<1>1. u.cur \in Thread /\ w.cur \in Thread /\ Idle \in Thread
  BY SoundFacts, CallFacts, KernelFields DEF Wakes, KernelOK
<1>2. w.stat[Idle] = "READY" /\ KernelOK(w)
  BY <1>1 DEF Sound, Wakes
<1>3. ASSUME NEW t \in Thread
      PROVE  /\ w.stat[t] \in {"READY", "SUSPEND", "INIT"}
             /\ w.stat[t] = "SUSPEND" <=> Waits(w, Receivers, t) \/ Waits(w, Senders, t)
             /\ Waits(w, Receivers, t) => p[t] \in RecvPlaces
             /\ Waits(w, Senders, t) => p[t] \in SendPlaces
  BY DEF Sound, Wakes
<1>4. w.stat[w.cur] # "READY" => w.stat[w.cur] = "SUSPEND" /\ p[w.cur] \in SchedPlaces
  BY <1>1 DEF Sound, Wakes
<1> QED BY <1>2, <1>3, <1>4 DEF Sound

LEMMA WakesTwice ==
  ASSUME NEW u, NEW v, NEW w, NEW X, NEW Y, Wakes(u, v, X), Wakes(v, w, Y)
  PROVE  Wakes(u, w, X \cup Y)
<1>1. v.cur \in Thread /\ w.cur \in Thread
  BY KernelFields DEF Wakes, KernelOK
<1>2. w.cur = u.cur \/ w.stat[w.cur] = "READY"
  BY <1>1 DEF Wakes
<1> QED BY <1>2 DEF Wakes

LEMMA WakesSchedule ==
  ASSUME CallsAssumption, NEW u, NEW p, Sound(u, p)
  PROVE  /\ Wakes(u, Schedule(u), {}) /\ Sound(Schedule(u), p)
         /\ Schedule(u).lists = u.lists /\ Schedule(u).stat = u.stat
         /\ Schedule(u).err = u.err /\ Schedule(u).armed = u.armed
         /\ u.nest = 0 => Schedule(u).stat[Schedule(u).cur] = "READY"
         /\ u.nest # 0 => Schedule(u).cur = u.cur
<1> DEFINE w == Schedule(u)
<1>1. KernelOK(u) /\ Idle \in Thread /\ u.stat[Idle] = "READY"
  BY CallFacts DEF Sound
<1>2. /\ KernelOK(w)
      /\ w.stat = u.stat /\ w.lists = u.lists /\ w.nest = u.nest /\ w.err = u.err
      /\ w.armed = u.armed
      /\ u.nest = 0 => w.stat[w.cur] = "READY"
      /\ u.nest # 0 => w.cur = u.cur
  BY <1>1, ScheduleProperties
<1>3. u.nest \in Nat
  BY SoundFacts
<1> HIDE DEF w
<1>4. Wakes(u, w, {})
  BY <1>2, <1>3 DEF Wakes, Waits
<1>5. Sound(w, p)
  BY <1>4, SoundWakes
<1> QED BY <1>2, <1>4, <1>5 DEF w

LEMMA FirstIsSuspended ==
  ASSUME CallsAssumption, NEW u, NEW p, Sound(u, p), NEW q \in {Receivers, Senders},
         Waiters(u, q) # <<>>
  PROVE  /\ Waiters(u, q)[1] \in Thread /\ u.stat[Waiters(u, q)[1]] = "SUSPEND"
         /\ First(u, q) = {Waiters(u, q)[1]} /\ Waits(u, q, Waiters(u, q)[1])
<1>1. KernelOK(u)
  BY DEF Sound
<1>2. Waiters(u, q)[1] \in Thread /\ Waits(u, q, Waiters(u, q)[1])
  BY <1>1, WaitersFacts
<1> QED BY <1>2 DEF Sound, First

LEMMA WakesListResume ==
  ASSUME CallsAssumption, NEW u, NEW p, Sound(u, p), NEW q \in {Receivers, Senders},
         Waiters(u, q) # <<>>
  PROVE  LET w == ListResume(u, q)
         IN  /\ Wakes(u, w, First(u, q)) /\ Sound(w, p)
             /\ w.cur = u.cur /\ w.err = u.err
             /\ u.stat[u.cur] = "READY" => w.stat[w.cur] = "READY"
<1> DEFINE x == Waiters(u, q)[1]
           w == ListResume(u, q)
<1>1. x \in Thread /\ u.stat[x] = "SUSPEND" /\ First(u, q) = {x}
  BY FirstIsSuspended
<1>2. w = Resume(u, x)
  BY DEF ListResume
<1> HIDE DEF x, w
<1>3. KernelOK(u) /\ u.cur \in Thread /\ u.stat \in [Thread -> Stat]
  BY SoundFacts
<1>4. /\ KernelOK(w)
      /\ w.stat = Put(u.stat, x, "READY")
      /\ w.cur = u.cur /\ w.nest = u.nest /\ w.err = u.err
      /\ \A o \in WaitQueue, t \in Thread :
           IsIn(w.lists[Wait(o)], t) <=> IsIn(u.lists[Wait(o)], t) /\ t # x
  BY <1>1, <1>2, <1>3, ResumeProperties
<1>5. w.stat[x] = "READY" /\ \A t \in Thread \ {x} : w.stat[t] = u.stat[t]
  BY <1>1, <1>3, <1>4 DEF Put
<1>6. Wakes(u, w, {x})
  BY <1>1, <1>4, <1>5, CallFacts DEF Wakes, Waits
<1>7. Sound(w, p)
  BY <1>6, SoundWakes
<1> QED BY <1>1, <1>3, <1>4, <1>5, <1>6, <1>7 DEF w

(* A wake-up with interrupts disabled and the rt_schedule() after it       *)
LEMMA WakesResumeSchedule ==
  ASSUME CallsAssumption, NEW u, NEW p, Sound(u, p), NEW q \in {Receivers, Senders},
         Waiters(u, q) # <<>>
  PROVE  LET w == Schedule(ListResume(u, q))
         IN  /\ Wakes(u, w, First(u, q)) /\ Sound(w, p) /\ w.err = u.err
             /\ u.nest # 0 => w.cur = u.cur
<1> DEFINE v == ListResume(u, q)
           w == Schedule(v)
<1>1. Wakes(u, v, First(u, q)) /\ Sound(v, p) /\ v.err = u.err /\ v.nest = u.nest /\ v.cur = u.cur
  BY WakesListResume DEF Wakes
<1> HIDE DEF v
<1>2. Wakes(v, w, {}) /\ Sound(w, p) /\ w.err = v.err /\ (v.nest # 0 => w.cur = v.cur)
  BY <1>1, WakesSchedule
<1> HIDE DEF w
<1>3. Wakes(u, w, First(u, q) \cup {})
  BY <1>1, <1>2, WakesTwice
<1>4. First(u, q) \cup {} = First(u, q)
  OBVIOUS
<1> QED BY <1>1, <1>2, <1>3, <1>4 DEF v, w

LEMMA WakesNobody ==
  ASSUME NEW u, KernelOK(u), CallsAssumption
  PROVE  Wakes(u, u, {})
BY DEF Wakes

LEMMA WakesResumeOne ==
  ASSUME CallsAssumption, NEW p, Sound(k, p), NEW q \in {Receivers, Senders}
  PROVE  LET w == ResumeOne(q)
         IN  /\ Wakes(k, w, First(k, q)) /\ Sound(w, p) /\ w.err = k.err
             /\ k.nest # 0 => w.cur = k.cur
<1>1. CASE Waiters(k, q) = <<>>
  BY <1>1, WakesNobody DEF ResumeOne, First, Sound
<1>2. CASE Waiters(k, q) # <<>>
  BY <1>2, WakesResumeSchedule DEF ResumeOne
<1> QED BY <1>1, <1>2

LEMMA WakesTimeout ==
  ASSUME CallsAssumption, NEW u, NEW p, Sound(u, p), NEW x \in Thread, x \in u.armed
  PROVE  LET w == Timeout(u, x)
         IN  /\ Wakes(u, w, {x}) /\ Sound(w, p)
             /\ w.err[x] = "ETIMEOUT" /\ \A t \in Thread \ {x} : w.err[t] = u.err[t]
             /\ Waits(u, Receivers, x) \/ Waits(u, Senders, x)
             /\ u.nest # 0 => w.cur = u.cur
<1> DEFINE w == Timeout(u, x)
<1>1. KernelOK(u) /\ u.stat \in [Thread -> Stat] /\ u.err \in [Thread -> Error] /\ u.nest \in Nat
  BY SoundFacts
<1> HIDE DEF w
<1>2. /\ KernelOK(w)
      /\ u.stat[x] = "SUSPEND"
      /\ w.stat = Put(u.stat, x, "READY")
      /\ w.nest = u.nest
      /\ w.err = Put(u.err, x, "ETIMEOUT")
      /\ u.nest = 0 => w.stat[w.cur] = "READY"
      /\ u.nest # 0 => w.cur = u.cur
      /\ \A q \in WaitQueue, t \in Thread :
           IsIn(w.lists[Wait(q)], t) <=> IsIn(u.lists[Wait(q)], t) /\ t # x
  BY <1>1, TimeoutProperties DEF w
<1>3. /\ w.stat[x] = "READY" /\ \A t \in Thread \ {x} : w.stat[t] = u.stat[t]
      /\ w.err[x] = "ETIMEOUT" /\ \A t \in Thread \ {x} : w.err[t] = u.err[t]
  BY <1>1, <1>2 DEF Put
<1>4. Wakes(u, w, {x})
  BY <1>1, <1>2, <1>3, CallFacts DEF Wakes, Waits
<1>5. Sound(w, p)
  BY <1>4, SoundWakes
<1>6. Waits(u, Receivers, x) \/ Waits(u, Senders, x)
  BY <1>2 DEF Sound
<1> QED BY <1>2, <1>3, <1>4, <1>5, <1>6 DEF w

LEMMA WakesYield ==
  ASSUME CallsAssumption, NEW u, NEW p, Sound(u, p)
  PROVE  /\ Wakes(u, Yield(u), {}) /\ Sound(Yield(u), p) /\ Yield(u).err = u.err
         /\ \A q \in {Receivers, Senders} : Waiters(Yield(u), q) = Waiters(u, q)
         /\ u.nest # 0 => Yield(u).cur = u.cur
<1> DEFINE w == Yield(u)
<1>1. KernelOK(u)
  BY DEF Sound
<1> HIDE DEF w
<1>2. /\ KernelOK(w)
      /\ w.stat = u.stat /\ w.nest = u.nest /\ w.err = u.err
      /\ w.cur = u.cur \/ w.stat[w.cur] = "READY"
      /\ u.nest # 0 => w.cur = u.cur
      /\ \A q \in WaitQueue : w.lists[Wait(q)] = u.lists[Wait(q)]
  BY <1>1, YieldProperties DEF w
<1>3. Wakes(u, w, {})
  BY <1>2, CallFacts DEF Wakes, Waits
<1>4. Sound(w, p)
  BY <1>3, SoundWakes
<1> QED BY <1>2, <1>3, <1>4, CallFacts DEF w, Waiters

(* thread->error of a thread that does not wait                            *)
LEMMA SoundError ==
  ASSUME CallsAssumption, NEW u, NEW p, Sound(u, p), NEW x \in Thread, NEW e \in Error
  PROVE  LET w == WithError(u, x, e)
         IN  /\ Wakes(u, w, {}) /\ Sound(w, p)
             /\ w.cur = u.cur /\ w.lists = u.lists /\ w.stat = u.stat
             /\ w.err[x] = e /\ \A t \in Thread \ {x} : w.err[t] = u.err[t]
<1> DEFINE w == WithError(u, x, e)
<1>1. KernelOK(u) /\ u.err \in [Thread -> Error]
  BY SoundFacts
<1>2. /\ KernelOK(w)
      /\ w.stat = u.stat /\ w.lists = u.lists /\ w.cur = u.cur /\ w.nest = u.nest
      /\ w.err = Put(u.err, x, e)
  BY <1>1, SetError
<1> HIDE DEF w
<1>3. Wakes(u, w, {})
  BY <1>2 DEF Wakes, Waits
<1>4. Sound(w, p)
  BY <1>3, SoundWakes
<1> QED BY <1>1, <1>2, <1>3, <1>4 DEF w, Put

LEMMA ErrorStep ==
  ASSUME CallsAssumption, NEW p, Sound(k, p), NEW x \in Thread, NEW e \in Error,
         k' = WithError(k, x, e)
  PROVE  Wakes(k, k', {}) /\ Sound(k', p) /\ \A t \in Thread \ {x} : k'.err[t] = k.err[t]
<1> DEFINE w == WithError(k, x, e)
<1>1. /\ Wakes(k, w, {}) /\ Sound(w, p)
      /\ w.cur = k.cur /\ w.lists = k.lists /\ w.stat = k.stat
      /\ w.err[x] = e /\ \A t \in Thread \ {x} : w.err[t] = k.err[t]
  BY SoundError
<1>2. k' = w
  OBVIOUS
<1> HIDE DEF w
<1> QED BY <1>1, <1>2

(* The scheduler lock                                                      *)
LEMMA SoundNest ==
  ASSUME CallsAssumption, NEW u, NEW p, Sound(u, p), NEW n \in Nat
  PROVE  LET w == [u EXCEPT !.nest = n]
         IN  /\ Sound(w, p) /\ w.nest = n
             /\ w.cur = u.cur /\ w.lists = u.lists /\ w.stat = u.stat /\ w.err = u.err
             /\ \A q, t : Waits(w, q, t) <=> Waits(u, q, t)
<1> DEFINE w == [u EXCEPT !.nest = n]
<1>1. KernelOK(u) /\ u \in Kernel
  BY SoundFacts
<1>2. /\ w \in Kernel /\ w.nest = n /\ w.cur = u.cur /\ w.lists = u.lists /\ w.stat = u.stat
      /\ w.err = u.err /\ w.prio = u.prio /\ w.group = u.group /\ w.armed = u.armed
  BY <1>1 DEF Kernel
<1> HIDE DEF w
<1>3. KernelOK(w)
  BY <1>1, <1>2 DEF KernelOK, OneList, ReadyListed, GroupExact, TimersOfSuspended
<1>4. \A q, t : Waits(w, q, t) <=> Waits(u, q, t)
  BY <1>2 DEF Waits
<1>5. Sound(w, p)
  BY <1>2, <1>3, <1>4 DEF Sound
<1> QED BY <1>2, <1>4, <1>5 DEF w

(* The current thread is queued in q and goes on to its rt_schedule().     *)
Joins(u, w, q) ==
  /\ KernelOK(w) /\ w.nest = u.nest /\ w.cur = u.cur
  /\ w.stat[u.cur] = "SUSPEND"
  /\ \A t \in Thread \ {u.cur} : w.stat[t] = u.stat[t]
  /\ \A o \in {Receivers, Senders}, t \in Thread :
       Waits(w, o, t) <=> Waits(u, o, t) \/ (o = q /\ t = u.cur)

LEMMA SoundJoins ==
  ASSUME CallsAssumption, NEW u, NEW p, Sound(u, p), DOMAIN p = Thread,
         u.stat[u.cur] = "READY", u.cur # Idle, NEW q \in {Receivers, Senders}, NEW w,
         Joins(u, w, q), NEW b \in SchedPlaces,
         b \in (IF q = Receivers THEN RecvPlaces ELSE SendPlaces)
  PROVE  Sound(w, [p EXCEPT ![u.cur] = b])
<1> DEFINE x == u.cur
           r == [p EXCEPT ![x] = b]
<1>1. x \in Thread /\ Idle \in Thread /\ w.cur = x /\ Receivers # Senders
  BY SoundFacts, CallFacts DEF Joins
<1>2. r[x] = b /\ \A t \in Thread \ {x} : r[t] = p[t]
  BY <1>1
<1> HIDE DEF r
<1>3. w.stat[Idle] = "READY" /\ KernelOK(w)
  BY <1>1 DEF Joins, Sound
<1>4. ASSUME NEW t \in Thread
      PROVE  /\ w.stat[t] \in {"READY", "SUSPEND", "INIT"}
             /\ w.stat[t] = "SUSPEND" <=> Waits(w, Receivers, t) \/ Waits(w, Senders, t)
             /\ Waits(w, Receivers, t) => r[t] \in RecvPlaces
             /\ Waits(w, Senders, t) => r[t] \in SendPlaces
  <2>1. CASE t = x
    <3>1. ~Waits(u, Receivers, t) /\ ~Waits(u, Senders, t)
      BY <1>1, <2>1 DEF Sound
    <3> QED BY <1>1, <1>2, <2>1, <3>1 DEF Joins
  <2>2. CASE t # x
    <3>1. /\ w.stat[t] = u.stat[t] /\ r[t] = p[t]
          /\ \A o \in {Receivers, Senders} : Waits(w, o, t) <=> Waits(u, o, t)
      BY <1>2, <2>2 DEF Joins
    <3> QED BY <3>1 DEF Sound
  <2> QED BY <2>1, <2>2
<1>5. w.stat[w.cur] = "SUSPEND" /\ r[w.cur] \in SchedPlaces
  BY <1>1, <1>2 DEF Joins
<1>6. Sound(w, r)
  BY <1>3, <1>4, <1>5 DEF Sound
<1> QED BY <1>6 DEF r

LEMMA JoinsBlock ==
  ASSUME CallsAssumption, NEW u, NEW p, Sound(u, p), u.stat[u.cur] = "READY",
         NEW q \in {Receivers, Senders}, NEW order, NEW late
  PROVE  LET w == Block(u, q, u.cur, order, late)
         IN  /\ Joins(u, w, q)
             /\ w.err[u.cur] = "EOK" /\ \A t \in Thread \ {u.cur} : w.err[t] = u.err[t]
<1> DEFINE x == u.cur
           w == Block(u, q, x, order, late)
<1>1. KernelOK(u) /\ x \in Thread /\ u.stat \in [Thread -> Stat] /\ u.err \in [Thread -> Error]
      /\ q \in WaitQueue /\ Receivers \in WaitQueue /\ Senders \in WaitQueue
  BY SoundFacts, CallFacts
<1>2. x = u.cur /\ w = Block(u, q, x, order, late) /\ u.stat[x] = "READY"
  OBVIOUS
<1> HIDE DEF x, w
<1>3. /\ KernelOK(w)
      /\ w.stat = Put(u.stat, x, "SUSPEND")
      /\ w.cur = u.cur /\ w.nest = u.nest
      /\ w.err = Put(u.err, x, "EOK")
      /\ \A o \in WaitQueue, t \in Thread :
           IsIn(w.lists[Wait(o)], t)
             <=> (IsIn(u.lists[Wait(o)], t) /\ t # x) \/ (o = q /\ t = x)
  BY <1>1, <1>2, BlockProperties
<1>4. ~Waits(u, Receivers, x) /\ ~Waits(u, Senders, x)
  BY <1>1, <1>2 DEF Sound
<1>5. \A o \in {Receivers, Senders}, t \in Thread :
        Waits(w, o, t) <=> Waits(u, o, t) \/ (o = q /\ t = x)
  BY <1>1, <1>3, <1>4 DEF Waits
<1>6. /\ w.stat[x] = "SUSPEND" /\ \A t \in Thread \ {x} : w.stat[t] = u.stat[t]
      /\ w.err[x] = "EOK" /\ \A t \in Thread \ {x} : w.err[t] = u.err[t]
  BY <1>1, <1>3 DEF Put
<1> QED BY <1>2, <1>3, <1>5, <1>6 DEF Joins, x, w

LEMMA JoinsListSuspend ==
  ASSUME CallsAssumption, NEW u, NEW p, Sound(u, p), u.stat[u.cur] = "READY",
         NEW q \in {Receivers, Senders}, NEW order
  PROVE  Joins(u, ListSuspend(u, q, u.cur, order), q)
<1> DEFINE x == u.cur
           w == ListSuspend(u, q, x, order)
<1>1. KernelOK(u) /\ x \in Thread /\ u.stat \in [Thread -> Stat]
      /\ q \in WaitQueue /\ Receivers \in WaitQueue /\ Senders \in WaitQueue
  BY SoundFacts, CallFacts
<1>2. x = u.cur /\ w = ListSuspend(u, q, x, order) /\ u.stat[x] = "READY"
  OBVIOUS
<1> HIDE DEF x, w
<1>3. /\ KernelOK(w)
      /\ w.stat = Put(u.stat, x, "SUSPEND")
      /\ w.cur = u.cur /\ w.nest = u.nest
      /\ \A o \in WaitQueue, t \in Thread :
           IsIn(w.lists[Wait(o)], t)
             <=> (IsIn(u.lists[Wait(o)], t) /\ t # x) \/ (o = q /\ t = x)
  BY <1>1, <1>2, ListSuspendProperties
<1>4. ~Waits(u, Receivers, x) /\ ~Waits(u, Senders, x)
  BY <1>1, <1>2 DEF Sound
<1>5. \A o \in {Receivers, Senders}, t \in Thread :
        Waits(w, o, t) <=> Waits(u, o, t) \/ (o = q /\ t = x)
  BY <1>1, <1>3, <1>4 DEF Waits
<1>6. w.stat[x] = "SUSPEND" /\ \A t \in Thread \ {x} : w.stat[t] = u.stat[t]
  BY <1>1, <1>3 DEF Put
<1> QED BY <1>2, <1>3, <1>5, <1>6 DEF Joins, x, w

(* A loop that wakes the first waiter of q with an error, turn by turn     *)
Gone(u, w, q) == {t \in Thread : Waits(u, q, t) /\ ~Waits(w, q, t)}

LEMMA WakesFirstError ==
  ASSUME CallsAssumption, NEW u, NEW p, Sound(u, p), NEW q \in {Receivers, Senders},
         Waiters(u, q) # <<>>
  PROVE  LET w == ResumeFirstWithError(u, q)
         IN  /\ Wakes(u, w, First(u, q)) /\ Sound(w, p)
             /\ w.cur = u.cur /\ (u.stat[u.cur] = "READY" => w.stat[w.cur] = "READY")
             /\ \A t \in First(u, q) : w.err[t] = "ERROR"
             /\ \A t \in Thread \ First(u, q) : w.err[t] = u.err[t]
             /\ Len(Waiters(w, q)) = Len(Waiters(u, q)) - 1
<1> DEFINE x == Waiters(u, q)[1]
           v == WithError(u, x, "ERROR")
           w == ResumeFirstWithError(u, q)
<1>1. x \in Thread /\ u.stat[x] = "SUSPEND" /\ First(u, q) = {x} /\ Waits(u, q, x)
  BY FirstIsSuspended
<1>2. KernelOK(u) /\ u.cur \in Thread /\ u.stat \in [Thread -> Stat] /\ u.err \in [Thread -> Error]
      /\ q \in WaitQueue /\ Receivers \in WaitQueue /\ Senders \in WaitQueue
  BY SoundFacts, CallFacts
<1>3. /\ KernelOK(w)
      /\ w.stat = Put(u.stat, x, "READY")
      /\ w.cur = u.cur /\ w.nest = u.nest
      /\ w.err = Put(u.err, x, "ERROR")
      /\ \A o \in WaitQueue, t \in Thread :
           IsIn(w.lists[Wait(o)], t) <=> IsIn(u.lists[Wait(o)], t) /\ t # x
  BY <1>1, <1>2, ResumeFirstProperties
<1>4. Len(Waiters(w, q)) = Len(Waiters(u, q)) - 1
  <2> HIDE DEF x
  <2>1. KernelOK(v) /\ v.stat = u.stat /\ v.lists = u.lists
    BY <1>1, <1>2, SetError DEF Error
  <2>2. w = Resume(v, x)
    BY DEF ResumeFirstWithError, x
  <2> HIDE DEF v, w
  <2>3. w.lists[Wait(q)] = Drop(u.lists[Wait(q)], x)
    BY <1>1, <1>2, <2>1, <2>2, ResumeWaiters DEF KernelOK
  <2> DEFINE s == u.lists[Wait(q)]
  <2>4. s \in Seq(Thread) /\ IsIn(s, x)
    BY <1>1, <1>2, CallFacts, KernelFields DEF KernelOK, Waits
  <2> HIDE DEF s
  <2> DEFINE i == CHOOSE j \in DOMAIN s : s[j] = x
  <2>5. Drop(s, x) = LinkOut(s, i) /\ i \in 1 .. Len(s)
    BY <2>4 DEF Drop, IsIn
  <2> HIDE DEF i
  <2>6. Len(Drop(s, x)) = Len(s) - 1
    BY <2>4, <2>5, LinkOutProperties
  <2> QED BY <2>3, <2>6 DEF s, Waiters
<1> HIDE DEF x, w
<1>5. w.stat[x] = "READY" /\ \A t \in Thread \ {x} : w.stat[t] = u.stat[t]
  BY <1>1, <1>2, <1>3 DEF Put
<1>6. Wakes(u, w, {x})
  BY <1>1, <1>2, <1>3, <1>5 DEF Wakes, Waits
<1>7. Sound(w, p)
  BY <1>6, SoundWakes
<1> QED BY <1>1, <1>2, <1>3, <1>4, <1>5, <1>6, <1>7 DEF w, Put

ErrorLoop(u, p, q, f) ==
  /\ f[0] = u
  /\ \A i \in 1 .. Len(Waiters(u, q)) :
       Sound(f[i - 1], p) /\ Waiters(f[i - 1], q) # <<>>
         => f[i] = ResumeFirstWithError(f[i - 1], q)

ErrorTurn(u, p, q, i, w) ==
  /\ Sound(w, p) /\ Len(Waiters(w, q)) = Len(Waiters(u, q)) - i
  /\ Wakes(u, w, Gone(u, w, q))
  /\ w.cur = u.cur /\ (u.stat[u.cur] = "READY" => w.stat[w.cur] = "READY")
  /\ \A t \in Gone(u, w, q) : w.err[t] = "ERROR"
  /\ \A t \in Thread \ Gone(u, w, q) : w.err[t] = u.err[t]

LEMMA ErrorTurns ==
  ASSUME CallsAssumption, NEW u, NEW p, Sound(u, p), NEW q \in {Receivers, Senders},
         NEW f, ErrorLoop(u, p, q, f)
  PROVE  \A i \in 0 .. Len(Waiters(u, q)) : ErrorTurn(u, p, q, i, f[i])
<1> DEFINE n == Len(Waiters(u, q))
           P(w) == /\ Wakes(u, w, Gone(u, w, q))
                   /\ w.cur = u.cur /\ (u.stat[u.cur] = "READY" => w.stat[w.cur] = "READY")
                   /\ \A t \in Gone(u, w, q) : w.err[t] = "ERROR"
                   /\ \A t \in Thread \ Gone(u, w, q) : w.err[t] = u.err[t]
           T == {i \in Nat : i <= n => Sound(f[i], p) /\ Len(Waiters(f[i], q)) = n - i /\ P(f[i])}
<1>1. KernelOK(u) /\ n \in Nat
  BY WaitersFacts DEF Sound
<1> HIDE DEF n
<1>2. 0 \in T
  <2>1. Gone(u, u, q) = {}
    BY DEF Gone
  <2>2. P(u)
    BY <1>1, <2>1, WakesNobody
  <2>3. f[0] = u
    BY DEF ErrorLoop
  <2> QED BY <1>1, <2>2, <2>3 DEF n
<1>3. ASSUME NEW i \in Nat, i \in T PROVE i + 1 \in T
  <2>1. SUFFICES ASSUME i + 1 <= n
                 PROVE  Sound(f[i + 1], p) /\ Len(Waiters(f[i + 1], q)) = n - (i + 1) /\ P(f[i + 1])
    OBVIOUS
  <2>2. Sound(f[i], p) /\ Len(Waiters(f[i], q)) = n - i /\ P(f[i])
    BY <1>1, <1>3, <2>1
  <2> DEFINE v == f[i]  w == f[i + 1]
  <2>3. Waiters(v, q) # <<>>
    <3>1. Len(Waiters(v, q)) # 0
      BY <1>1, <2>1, <2>2
    <3> QED BY <3>1
  <2>4. w = ResumeFirstWithError(v, q)
    <3>1. i + 1 \in 1 .. n /\ (i + 1) - 1 = i
      BY <1>1, <2>1
    <3> QED BY <2>2, <2>3, <3>1 DEF n, ErrorLoop
  <2> HIDE DEF P
  <2>5. Sound(v, p) /\ P(v)
    BY <2>2
  <2>5a. Len(Waiters(v, q)) = n - i
    BY <2>2
  <2> HIDE DEF v, w
  <2>6. /\ Wakes(v, w, First(v, q)) /\ Sound(w, p)
        /\ w.cur = v.cur /\ (v.stat[v.cur] = "READY" => w.stat[w.cur] = "READY")
        /\ \A t \in First(v, q) : w.err[t] = "ERROR"
        /\ \A t \in Thread \ First(v, q) : w.err[t] = v.err[t]
        /\ Len(Waiters(w, q)) = Len(Waiters(v, q)) - 1
    BY <2>3, <2>4, <2>5, WakesFirstError
  <2>7. First(v, q) \subseteq {t \in Thread : Waits(v, q, t)}
    BY <2>5, WaitersFacts DEF Sound
  <2>8. Gone(u, w, q) = Gone(u, v, q) \cup First(v, q)
    BY <2>5, <2>6, <2>7 DEF Gone, Wakes, P
  <2>9. Wakes(u, w, Gone(u, w, q))
    BY <2>5, <2>6, <2>8, WakesTwice DEF P
  <2>10. P(w)
    <3>1. w.cur = u.cur /\ (u.stat[u.cur] = "READY" => w.stat[w.cur] = "READY")
      BY <2>5, <2>6 DEF P
    <3>2. \A t \in First(v, q) : t \notin Gone(u, v, q)
      BY <2>7 DEF Gone
    <3>3. \A t \in Gone(u, w, q) : w.err[t] = "ERROR"
      <4> TAKE t \in Gone(u, w, q)
      <4>1. t \in Thread
        BY DEF Gone
      <4>2. CASE t \in First(v, q)
        BY <2>6, <4>2
      <4>3. CASE t \notin First(v, q)
        <5>1. w.err[t] = v.err[t] /\ t \in Gone(u, v, q)
          BY <2>6, <2>8, <4>1, <4>3
        <5> QED BY <2>5, <5>1 DEF P
      <4> QED BY <4>2, <4>3
    <3>4. \A t \in Thread \ Gone(u, w, q) : w.err[t] = u.err[t]
      <4> TAKE t \in Thread \ Gone(u, w, q)
      <4>1. t \notin First(v, q) /\ t \notin Gone(u, v, q)
        BY <2>8
      <4> QED BY <2>5, <2>6, <4>1 DEF P
    <3> QED BY <2>9, <3>1, <3>3, <3>4 DEF P
  <2> QED BY <1>1, <2>5a, <2>6, <2>10 DEF w
<1>4. Nat \subseteq T
  <2> HIDE DEF T
  <2> QED BY <1>2, <1>3, Induct
<1> QED BY <1>1, <1>4 DEF n, ErrorTurn

LEMMA WakesAll ==
  ASSUME CallsAssumption, NEW u, NEW p, Sound(u, p), NEW q \in {Receivers, Senders}
  PROVE  LET w == ResumeAllWithError(u, q)
             X == {t \in Thread : Waits(u, q, t)}
         IN  /\ Wakes(u, w, X) /\ Sound(w, p)
             /\ w.cur = u.cur /\ (u.stat[u.cur] = "READY" => w.stat[w.cur] = "READY")
             /\ \A t \in X : w.err[t] = "ERROR"
             /\ \A t \in Thread \ X : w.err[t] = u.err[t]
             /\ \A t \in Thread : ~Waits(w, q, t)
<1> DEFINE n == Len(Waiters(u, q))
           S == {y \in Kernel : Sound(y, p)}
           step == [z \in Nat \X S |->
                      IF Waiters(z[2], q) = <<>> THEN z[2] ELSE ResumeFirstWithError(z[2], q)]
           After(f) == f = [i \in 0 .. n |->
                              IF i = 0 THEN u ELSE ResumeFirstWithError(f[i - 1], q)]
           X == {t \in Thread : Waits(u, q, t)}
<1>1. KernelOK(u) /\ n \in Nat /\ u \in S
  BY WaitersFacts, SoundFacts DEF Sound
<1>2. \A y \in S, i \in Nat : step[<<i, y>>] \in S
  <2> TAKE y \in S, i \in Nat
  <2>1. CASE Waiters(y, q) = <<>>
    BY <2>1
  <2>2. CASE Waiters(y, q) # <<>>
    <3>1. Sound(ResumeFirstWithError(y, q), p)
      BY <2>2, WakesFirstError
    <3>2. ResumeFirstWithError(y, q) \in S
      BY <3>1, SoundFacts
    <3> QED BY <2>2, <3>2
  <2> QED BY <2>1, <2>2
<1>2a. \A y \in S, i \in Nat : Waiters(y, q) # <<>> => step[<<i, y>>] = ResumeFirstWithError(y, q)
  OBVIOUS
<1>2b. n = Len(Waiters(u, q)) /\ \A y \in S : Sound(y, p)
  OBVIOUS
<1> HIDE DEF n, S, step
<1>3. PICK g : Iteration(S, u, step, n, g)
  <2>1. u \in S
    BY <1>1
  <2>2. n \in Nat
    BY <1>1
  <2>3. \A y \in S, i \in Nat : step[<<i, y>>] \in S
    BY <1>2
  <2> QED BY <2>1, <2>2, <2>3, Iterated
<1>4. g[0] = u /\ \A i \in 1 .. n : Sound(g[i - 1], p) /\ Waiters(g[i - 1], q) # <<>>
                     => g[i] = ResumeFirstWithError(g[i - 1], q)
  <2>1. g[0] = u
    BY <1>3 DEF Iteration
  <2>2. ASSUME NEW i \in 1 .. n, Waiters(g[i - 1], q) # <<>>
        PROVE  g[i] = ResumeFirstWithError(g[i - 1], q)
    <3>1. i \in 0 .. n /\ i # 0 /\ i - 1 \in 0 .. n /\ i \in Nat
      BY <1>1
    <3>2. g[i] = step[<<i, g[i - 1]>>]
      BY <1>3, <3>1 DEF Iteration
    <3>3. g[i - 1] \in S
      BY <1>3, <3>1 DEF Iteration
    <3> QED BY <1>2a, <2>2, <3>1, <3>2, <3>3
  <2> QED BY <2>1, <2>2
<1>5. \A i \in 0 .. n : Sound(g[i], p) /\ Len(Waiters(g[i], q)) = n - i
  <2>1. ErrorLoop(u, p, q, g)
    BY <1>2b, <1>4 DEF ErrorLoop
  <2>2. \A i \in 0 .. Len(Waiters(u, q)) : ErrorTurn(u, p, q, i, g[i])
    BY <2>1, ErrorTurns
  <2> QED BY <1>2b, <2>2 DEF ErrorTurn
<1>6. After(g)
  <2>1. ASSUME NEW i \in 1 .. n PROVE g[i] = ResumeFirstWithError(g[i - 1], q)
    <3>1. i - 1 \in 0 .. n /\ n - (i - 1) # 0
      BY <1>1
    <3>2. Sound(g[i - 1], p) /\ Len(Waiters(g[i - 1], q)) # 0
      BY <1>5, <3>1
    <3>3. Waiters(g[i - 1], q) # <<>>
      BY <3>2
    <3> QED BY <1>4, <3>2, <3>3
  <2>2. g[0] = u
    BY <1>4
  <2> DEFINE h == [i \in 0 .. n |-> IF i = 0 THEN u ELSE ResumeFirstWithError(g[i - 1], q)]
  <2>3. DOMAIN h = 0 .. n /\ \A i \in 0 .. n : h[i] = g[i]
    <3>1. \A i \in 0 .. n : i = 0 \/ i \in 1 .. n
      BY <1>1
    <3> QED BY <2>1, <2>2, <3>1
  <2>4. g = [i \in 0 .. n |-> g[i]]
    BY <1>3 DEF Iteration
  <2>5. h = [i \in 0 .. n |-> h[i]]
    OBVIOUS
  <2> HIDE DEF h
  <2>6. g = h
    BY <2>3, <2>4, <2>5
  <2> QED BY <2>6 DEF h
<1> DEFINE f == CHOOSE h : After(h)
           w == f[n]
<1>7. After(f)
  <2> HIDE DEF After
  <2> QED BY <1>6
<1>8. ResumeAllWithError(u, q) = w
  BY DEF ResumeAllWithError, n
<1> HIDE DEF f
<1>9. f[0] = u /\ \A i \in 1 .. n : f[i] = ResumeFirstWithError(f[i - 1], q)
  BY <1>1, <1>7
<1> HIDE DEF After
<1>10. n \in 0 .. n
  BY <1>1
<1>11. /\ Sound(w, p) /\ Len(Waiters(w, q)) = n - n
       /\ Wakes(u, w, Gone(u, w, q))
       /\ w.cur = u.cur /\ (u.stat[u.cur] = "READY" => w.stat[w.cur] = "READY")
       /\ \A t \in Gone(u, w, q) : w.err[t] = "ERROR"
       /\ \A t \in Thread \ Gone(u, w, q) : w.err[t] = u.err[t]
  <2>1. ErrorLoop(u, p, q, f)
    BY <1>2b, <1>9 DEF ErrorLoop
  <2>2. \A i \in 0 .. Len(Waiters(u, q)) : ErrorTurn(u, p, q, i, f[i])
    BY <2>1, ErrorTurns
  <2> QED BY <1>2b, <1>10, <2>2 DEF ErrorTurn
<1>12. \A t \in Thread : ~Waits(w, q, t)
  <2>1. Waiters(w, q) = <<>>
    <3> HIDE DEF w
    <3>1. Len(Waiters(w, q)) = 0 /\ Waiters(w, q) \in Seq(Thread)
      BY <1>1, <1>11, WaitersFacts DEF Sound
    <3> QED BY <3>1
  <2> QED BY <1>11, <2>1, WaitersFacts DEF Sound
<1>13. Gone(u, w, q) = X
  BY <1>12 DEF Gone
<1> QED BY <1>8, <1>11, <1>12, <1>13

-----------------------------------------------------------------------------
(* Who waits has no error. *)
LEMMA CalmWakes ==
  ASSUME NEW u, NEW w, NEW X, Wakes(u, w, X), Calm(u),
         \A t \in Thread \ X : w.err[t] = u.err[t]
  PROVE  Calm(w)
BY DEF Calm, Wakes

LEMMA CalmJoins ==
  ASSUME NEW u, NEW w, NEW q, Joins(u, w, q), Calm(u),
         w.err[u.cur] = "EOK", \A t \in Thread \ {u.cur} : w.err[t] = u.err[t]
  PROVE  Calm(w)
BY DEF Calm, Joins

LEMMA BootedIdle ==
  ASSUME NEW pr, NEW bl, NEW u, BootLists(pr, bl), Idle \in Thread, IsIn(bl[pr[Idle]], Idle),
         u = Booted(pr, bl)
  PROVE  /\ u \in Kernel /\ OneList(u) /\ GroupExact(u)
         /\ \A p \in Prio, t \in Thread :
              IsIn(u.lists[Ready(p)], t) <=> IsIn(bl[pr[t]], t) /\ pr[t] = p
         /\ u.prio = pr
         /\ \A t \in Thread : u.stat[t] = "READY"
         /\ u.nest = 0 /\ u.armed = {}
         /\ \A q \in WaitQueue : u.lists[Wait(q)] = <<>>
         /\ u.lists[Defunct] = <<>>
         /\ IsIn(bl[pr[u.cur]], u.cur)
         /\ \A t \in Thread : IsIn(bl[pr[t]], t) => pr[u.cur] <= pr[t]
BY BootedLists

LEMMA StartedSound ==
  ASSUME CallsAssumption, NEW b, StartOK(b), Started(b)
  PROVE  /\ Sound(k, pc) /\ Calm(k) /\ k.nest = 0 /\ k \in Kernel
         /\ k.stat[k.cur] = "READY"
         /\ \A t \in Thread : pc[t] = "app" /\ ~Waits(k, Receivers, t) /\ ~Waits(k, Senders, t)
<1> DEFINE s == [t \in Thread |-> IF IsIn(b.lists[b.prio[t]], t) THEN "READY" ELSE "INIT"]
           u == Booted(b.prio, b.lists)
<1>1. BootLists(b.prio, b.lists) /\ IsIn(b.lists[b.prio[Idle]], Idle) /\ Idle \in Thread
      /\ Receivers \in WaitQueue /\ Senders \in WaitQueue
  BY CallFacts DEF StartOK
<1>2. u = Booted(b.prio, b.lists) /\ u.err = [t \in Thread |-> "EOK"]
  BY DEF Booted
<1>3. k = [u EXCEPT !.stat = s] /\ \A t \in Thread : pc[t] = "app"
  BY DEF Started
<1> HIDE DEF u
<1>4. /\ u \in Kernel /\ OneList(u) /\ GroupExact(u)
      /\ \A p \in Prio, t \in Thread :
           IsIn(u.lists[Ready(p)], t) <=> IsIn(b.lists[b.prio[t]], t) /\ b.prio[t] = p
      /\ u.prio = b.prio
      /\ u.nest = 0 /\ u.armed = {}
      /\ \A q \in WaitQueue : u.lists[Wait(q)] = <<>>
      /\ IsIn(b.lists[b.prio[u.cur]], u.cur)
  <2> DEFINE pr == b.prio  bl == b.lists
  <2>1. IsIn(bl[pr[Idle]], Idle)
    BY <1>1
  <2>1a. Idle \in Thread
    BY <1>1
  <2>1b. BootLists(pr, bl)
    BY <1>1
  <2>1c. u = Booted(pr, bl)
    BY <1>2
  <2> HIDE DEF pr, bl
  <2>2. /\ u \in Kernel /\ OneList(u) /\ GroupExact(u)
        /\ \A p \in Prio, t \in Thread :
             IsIn(u.lists[Ready(p)], t) <=> IsIn(bl[pr[t]], t) /\ pr[t] = p
        /\ u.prio = pr
        /\ \A t \in Thread : u.stat[t] = "READY"
        /\ u.nest = 0 /\ u.armed = {}
        /\ \A q \in WaitQueue : u.lists[Wait(q)] = <<>>
        /\ u.lists[Defunct] = <<>>
        /\ IsIn(bl[pr[u.cur]], u.cur)
        /\ \A t \in Thread : IsIn(bl[pr[t]], t) => pr[u.cur] <= pr[t]
    BY <2>1, <2>1a, <2>1b, <2>1c, BootedIdle
  <2> QED BY <2>2 DEF pr, bl
<1>5. /\ k.prio = u.prio /\ k.lists = u.lists /\ k.group = u.group /\ k.cur = u.cur
      /\ k.nest = 0 /\ k.err = u.err /\ k.armed = {} /\ k.stat = s
      /\ k \in Kernel
  <2>1. s \in [Thread -> Stat]
    BY DEF Stat
  <2> HIDE DEF s
  <2> QED BY <1>3, <1>4, <2>1 DEF Kernel
<1>6. KernelOK(k)
  <2>1. ReadyListed(k)
    BY <1>4, <1>5 DEF ReadyListed
  <2>2. OneList(k) /\ GroupExact(k) /\ TimersOfSuspended(k)
    BY <1>4, <1>5 DEF OneList, GroupExact, TimersOfSuspended
  <2> QED BY <1>5, <2>1, <2>2 DEF KernelOK
<1>7. \A t \in Thread : ~Waits(k, Receivers, t) /\ ~Waits(k, Senders, t)
  <2>1. k.lists[Wait(Receivers)] = <<>> /\ k.lists[Wait(Senders)] = <<>>
    BY <1>1, <1>4, <1>5
  <2> QED BY <2>1 DEF Waits, IsIn
<1>8. k.cur \in Thread /\ k.stat[k.cur] = "READY" /\ k.stat[Idle] = "READY"
  BY <1>1, <1>4, <1>5, KernelFields
<1>9. \A t \in Thread : k.stat[t] \in {"READY", "INIT"}
  BY <1>5
<1>10. Sound(k, pc)
  BY <1>6, <1>7, <1>8, <1>9 DEF Sound
<1>11. Calm(k)
  BY <1>7 DEF Calm
<1> QED BY <1>3, <1>5, <1>7, <1>8, <1>10, <1>11

-----------------------------------------------------------------------------
(* No thread leaves the places; only c moves; who waits is at the places. *)
Remain(p, r, places) == \A t \in Thread : p[t] \in places => r[t] \in places
OnlyMoves(p, r, c) == \A t \in Thread \ {c} : r[t] = p[t]
WaitAt(u, p, places, q) == \A t \in Thread : Waits(u, q, t) => p[t] \in places

(* Transfers and wake-ups: while threads wait in q, each of n things that  *)
(* lie ready has a thread woken for it that has not taken it yet.          *)
WokenFor(u, p, places, q) ==
  {t \in Thread : p[t] \in places /\ ~Waits(u, q, t) /\ u.err[t] = "EOK"}

Matched(n, u, p, places, q) ==
  (\E t \in Thread : Waits(u, q, t)) => n <= Cardinality(WokenFor(u, p, places, q))

LEMMA WokenIsWokenFor ==
  ASSUME NEW places, NEW q
  PROVE  Woken(places, q) = WokenFor(k, pc, places, q)
BY DEF Woken, WokenFor, Waits, Waiters

LEMMA WokenFinite ==
  ASSUME IsFiniteSet(Thread), NEW u, NEW p, NEW places, NEW q
  PROVE  /\ IsFiniteSet(WokenFor(u, p, places, q))
         /\ Cardinality(WokenFor(u, p, places, q)) \in Nat
<1>1. WokenFor(u, p, places, q) \in SUBSET Thread
  BY DEF WokenFor
<1>2. IsFiniteSet(WokenFor(u, p, places, q))
  BY <1>1, FS_Subset
<1> QED BY <1>2, FS_CardinalityType

(* Nothing is added; *)
LEMMA MatchedKept ==
  ASSUME IsFiniteSet(Thread), NEW u, NEW w, NEW p, NEW r, NEW places, NEW q,
         NEW n \in Int, NEW m \in Int, m <= n,
         Matched(n, u, p, places, q),
         WokenFor(u, p, places, q) \subseteq WokenFor(w, r, places, q),
         \A t \in Thread : Waits(w, q, t) => \E x \in Thread : Waits(u, q, x)
  PROVE  Matched(m, w, r, places, q)
<1> DEFINE A == WokenFor(u, p, places, q)  B == WokenFor(w, r, places, q)
<1>1. IsFiniteSet(B) /\ Cardinality(A) \in Nat /\ Cardinality(B) \in Nat
  BY WokenFinite
<1>2. Cardinality(A) <= Cardinality(B)
  <2> HIDE DEF A, B
  <2>1. A \in SUBSET B
    BY DEF A, B
  <2> QED BY <1>1, <2>1, FS_Subset
<1>3. SUFFICES ASSUME NEW t \in Thread, Waits(w, q, t) PROVE m <= Cardinality(B)
  BY DEF Matched
<1>4. n <= Cardinality(A)
  BY <1>3 DEF Matched
<1> QED BY <1>1, <1>2, <1>4

(* the thread c takes one; *)
LEMMA MatchedTaken ==
  ASSUME IsFiniteSet(Thread), NEW u, NEW w, NEW p, NEW r, NEW places, NEW q,
         NEW n \in Int, NEW m \in Int, m <= n - 1, NEW c,
         Matched(n, u, p, places, q),
         WokenFor(u, p, places, q) \ {c} \subseteq WokenFor(w, r, places, q),
         \A t \in Thread : Waits(w, q, t) => \E x \in Thread : Waits(u, q, x)
  PROVE  Matched(m, w, r, places, q)
<1> DEFINE A == WokenFor(u, p, places, q)  B == WokenFor(w, r, places, q)
<1>1. IsFiniteSet(A) /\ IsFiniteSet(B) /\ Cardinality(A) \in Nat /\ Cardinality(B) \in Nat
  BY WokenFinite
<1>2. Cardinality(A) - 1 <= Cardinality(B)
  <2> HIDE DEF A, B
  <2>1. A \ {c} \in SUBSET B
    BY DEF A, B
  <2>2. Cardinality(A \ {c}) <= Cardinality(B)
    BY <1>1, <2>1, FS_Subset
  <2>3. Cardinality(A \ {c}) = IF c \in A THEN Cardinality(A) - 1 ELSE Cardinality(A)
    BY <1>1, FS_RemoveElement
  <2> QED BY <1>1, <2>2, <2>3
<1>3. SUFFICES ASSUME NEW t \in Thread, Waits(w, q, t) PROVE m <= Cardinality(B)
  BY DEF Matched
<1>4. n <= Cardinality(A)
  BY <1>3 DEF Matched
<1> QED BY <1>1, <1>2, <1>4

(* one is added and its first waiter is woken.                             *)
LEMMA MatchedGiven ==
  ASSUME CallsAssumption, IsFiniteSet(Thread),
         NEW u, NEW w, NEW p, NEW r, NEW places, NEW q \in {Receivers, Senders},
         NEW n \in Int, NEW m \in Int, m <= n + 1,
         Matched(n, u, p, places, q), KernelOK(u), Calm(u),
         Wakes(u, w, First(u, q)), w.err = u.err,
         WaitAt(u, p, places, q), Remain(p, r, places)
  PROVE  Matched(m, w, r, places, q)
<1> DEFINE A == WokenFor(u, p, places, q)  B == WokenFor(w, r, places, q)
<1>1. IsFiniteSet(A) /\ IsFiniteSet(B) /\ Cardinality(A) \in Nat /\ Cardinality(B) \in Nat
  BY WokenFinite
<1>2. SUFFICES ASSUME NEW t \in Thread, Waits(w, q, t) PROVE m <= Cardinality(B)
  BY DEF Matched
<1>3. Waits(u, q, t)
  BY <1>2 DEF Wakes
<1>4. n <= Cardinality(A)
  BY <1>3 DEF Matched
<1>5. PICK x \in Thread : First(u, q) = {x} /\ Waits(u, q, x)
  BY <1>3, WaitersFacts DEF First
<1>6. x \notin A /\ u.err[x] = "EOK"
  BY <1>5 DEF WokenFor, Calm
<1>7. A \cup {x} \subseteq B
  BY <1>5, <1>6 DEF WokenFor, Wakes, WaitAt, Remain
<1> HIDE DEF A, B
<1>8. Cardinality(A \cup {x}) = Cardinality(A) + 1
  BY <1>1, <1>6, FS_AddElement
<1>9. A \cup {x} \in SUBSET B
  BY <1>7
<1>10. Cardinality(A \cup {x}) <= Cardinality(B)
  BY <1>1, <1>9, FS_Subset
<1> QED BY <1>1, <1>4, <1>8, <1>10

(* Nothing lies ready.                                                     *)
LEMMA MatchedNothing ==
  ASSUME IsFiniteSet(Thread), NEW u, NEW p, NEW places, NEW q, NEW n \in Int, n <= 0
  PROVE  Matched(n, u, p, places, q)
<1>1. Cardinality(WokenFor(u, p, places, q)) \in Nat
  BY WokenFinite
<1> QED BY <1>1 DEF Matched
-----------------------------------------------------------------------------
(* The steps of Calls, as steps of a sound state. *)
LEMMA GoStep ==
  ASSUME CallsAssumption, Sound(k, pc), DOMAIN pc = Thread, pc[Me] \notin SchedPlaces,
         NEW b, Go(b)
  PROVE  /\ Me \in Thread /\ k.stat[Me] = "READY"
         /\ ~Waits(k, Receivers, Me) /\ ~Waits(k, Senders, Me)
         /\ Sound(k, pc') /\ DOMAIN pc' = Thread
         /\ pc'[Me] = b /\ \A t \in Thread \ {Me} : pc'[t] = pc[t]
<1>1. /\ Me \in Thread /\ k.stat[Me] = "READY"
      /\ ~Waits(k, Receivers, Me) /\ ~Waits(k, Senders, Me)
  BY SoundReady DEF Me
<1>2. pc' = [pc EXCEPT ![k.cur] = b]
  BY DEF Go, Me
<1>3. Sound(k, [pc EXCEPT ![k.cur] = b])
  BY <1>1, SoundMove DEF Me
<1> QED BY <1>1, <1>2, <1>3 DEF Me

LEMMA WakeStep ==
  ASSUME CallsAssumption, Sound(k, pc), DOMAIN pc = Thread, pc[Me] \notin SchedPlaces,
         NEW q \in {Receivers, Senders}, Wake(q)
  PROVE  /\ Me \in Thread /\ ~Waits(k, Receivers, Me) /\ ~Waits(k, Senders, Me)
         /\ Sound(k', pc') /\ DOMAIN pc' = Thread /\ Wakes(k, k', First(k, q)) /\ k'.err = k.err
         /\ k'.cur = k.cur
         /\ pc'[Me] \in {"app", "call_sched"} /\ \A t \in Thread \ {Me} : pc'[t] = pc[t]
         /\ pc' \in {[pc EXCEPT ![Me] = "app"], [pc EXCEPT ![Me] = "call_sched"]}
<1>1. CASE Waiters(k, q) = <<>>
  <2>1. Go("app") /\ k' = k
    BY <1>1 DEF Wake
  <2>2. First(k, q) = {}
    BY <1>1 DEF First
  <2>3. Wakes(k, k', First(k, q))
    BY <2>1, <2>2, WakesNobody DEF Sound
  <2> HIDE DEF First
  <2>4. pc' = [pc EXCEPT ![Me] = "app"]
    BY <2>1 DEF Go
  <2> QED BY <2>1, <2>3, <2>4, GoStep
<1>2. CASE Waiters(k, q) # <<>>
  <2>1. Go("call_sched") /\ k' = ListResume(k, q)
    BY <1>2 DEF Wake
  <2>2. /\ Me \in Thread /\ ~Waits(k, Receivers, Me) /\ ~Waits(k, Senders, Me)
        /\ Sound(k, pc') /\ DOMAIN pc' = Thread
        /\ pc'[Me] = "call_sched" /\ \A t \in Thread \ {Me} : pc'[t] = pc[t]
    BY <2>1, GoStep
  <2>3. Wakes(k, k', First(k, q)) /\ Sound(k', pc') /\ k'.err = k.err /\ k'.cur = k.cur
    BY <1>2, <2>1, <2>2, WakesListResume
  <2>4. pc' = [pc EXCEPT ![Me] = "call_sched"]
    BY <2>1 DEF Go
  <2> QED BY <2>2, <2>3, <2>4
<1> QED BY <1>1, <1>2

LEMMA ScheduleStep ==
  ASSUME CallsAssumption, Sound(k, pc), DOMAIN pc = Thread, k.nest = 0,
         NEW b, Go(b), k' = Schedule(k),
         pc[Me] \in RecvPlaces => b \in RecvPlaces,
         pc[Me] \in SendPlaces => b \in SendPlaces
  PROVE  /\ Me \in Thread /\ Sound(k', pc') /\ DOMAIN pc' = Thread
         /\ Wakes(k, k', {}) /\ k'.err = k.err
         /\ pc'[Me] = b /\ \A t \in Thread \ {Me} : pc'[t] = pc[t]
<1>1. Me \in Thread
  BY SoundFacts DEF Me
<1>2. /\ Wakes(k, k', {}) /\ Sound(k', pc) /\ k'.err = k.err
      /\ k'.stat[k'.cur] = "READY" /\ k'.stat = k.stat /\ k'.lists = k.lists
  BY WakesSchedule
<1>3. pc'[Me] = b /\ (\A t \in Thread \ {Me} : pc'[t] = pc[t]) /\ DOMAIN pc' = Thread
  BY <1>1 DEF Go
<1>4. Sound(k', pc')
  <2>1. \A t \in Thread : Waits(k', Receivers, t) => pc'[t] \in RecvPlaces
    BY <1>2, <1>3 DEF Sound
  <2>2. \A t \in Thread : Waits(k', Senders, t) => pc'[t] \in SendPlaces
    BY <1>2, <1>3 DEF Sound
  <2> QED BY <1>2, <2>1, <2>2 DEF Sound
<1> QED BY <1>1, <1>2, <1>3, <1>4

LEMMA BlockStep ==
  ASSUME CallsAssumption, Sound(k, pc), DOMAIN pc = Thread, pc[Me] \notin SchedPlaces,
         Me # Idle, NEW q \in {Receivers, Senders}, NEW order, NEW late,
         k' = Block(k, q, Me, order, late), NEW b \in SchedPlaces, Go(b),
         b \in (IF q = Receivers THEN RecvPlaces ELSE SendPlaces)
  PROVE  /\ Me \in Thread /\ Sound(k', pc') /\ DOMAIN pc' = Thread
         /\ ~Waits(k, Receivers, Me) /\ ~Waits(k, Senders, Me)
         /\ Joins(k, k', q)
         /\ k'.err[Me] = "EOK" /\ \A t \in Thread \ {Me} : k'.err[t] = k.err[t]
         /\ pc'[Me] = b /\ \A t \in Thread \ {Me} : pc'[t] = pc[t]
<1>1. /\ Me \in Thread /\ k.stat[Me] = "READY"
      /\ ~Waits(k, Receivers, Me) /\ ~Waits(k, Senders, Me)
      /\ DOMAIN pc' = Thread
      /\ pc'[Me] = b /\ \A t \in Thread \ {Me} : pc'[t] = pc[t]
  BY GoStep
<1>2. /\ Joins(k, k', q)
      /\ k'.err[Me] = "EOK" /\ \A t \in Thread \ {Me} : k'.err[t] = k.err[t]
  BY <1>1, JoinsBlock DEF Me
<1>3. Sound(k', [pc EXCEPT ![k.cur] = b])
  BY <1>1, <1>2, SoundJoins DEF Me
<1>4. pc' = [pc EXCEPT ![k.cur] = b]
  BY DEF Go, Me
<1> QED BY <1>1, <1>2, <1>3, <1>4

LEMMA ReturnStep ==
  ASSUME CallsAssumption, Sound(k, pc), DOMAIN pc = Thread, CallSchedule
  PROVE  /\ Me \in Thread /\ Sound(k', pc') /\ DOMAIN pc' = Thread
         /\ Wakes(k, k', {}) /\ k'.err = k.err
         /\ pc[Me] = "call_sched" /\ pc'[Me] = "app"
         /\ \A t \in Thread \ {Me} : pc'[t] = pc[t]
<1>1. pc[Me] = "call_sched" /\ Go("app") /\ k' = Schedule(k)
  BY DEF CallSchedule, At
<1>2. pc[Me] \notin SchedPlaces
  BY <1>1 DEF SchedPlaces
<1>3. /\ Me \in Thread /\ Sound(k, pc') /\ DOMAIN pc' = Thread
      /\ pc'[Me] = "app" /\ \A t \in Thread \ {Me} : pc'[t] = pc[t]
  BY <1>1, <1>2, GoStep
<1>4. /\ Wakes(k, k', {}) /\ Sound(k', pc') /\ k'.err = k.err
  BY <1>1, <1>3, WakesSchedule
<1> QED BY <1>1, <1>3, <1>4

(* Who is woken by a tick has timed out. *)
LEMMA TickStep ==
  ASSUME CallsAssumption, Sound(k, pc), Tick
  PROVE  \E X \in SUBSET Thread :
           /\ Wakes(k, k', X) /\ Sound(k', pc') /\ pc' = pc
           /\ \A t \in X : k'.err[t] = "ETIMEOUT"
           /\ \A t \in Thread \ X : k'.err[t] = k.err[t]
           /\ \A t \in X : Waits(k, Receivers, t) \/ Waits(k, Senders, t)
           /\ k.nest # 0 => k'.cur = k.cur
<1>1. pc' = pc
  BY DEF Tick, TickYield, TickTimeout
<1>2. CASE TickYield
  <2>1. Wakes(k, k', {}) /\ Sound(k', pc) /\ k'.err = k.err /\ (k.nest # 0 => k'.cur = k.cur)
    BY <1>2, WakesYield DEF TickYield
  <2> QED BY <1>1, <2>1
<1>3. ASSUME NEW x \in Thread, TickTimeout(x)
      PROVE  \E X \in SUBSET Thread :
               /\ Wakes(k, k', X) /\ Sound(k', pc') /\ pc' = pc
               /\ \A t \in X : k'.err[t] = "ETIMEOUT"
               /\ \A t \in Thread \ X : k'.err[t] = k.err[t]
               /\ \A t \in X : Waits(k, Receivers, t) \/ Waits(k, Senders, t)
               /\ k.nest # 0 => k'.cur = k.cur
  <2>1. x \in k.armed /\ k' = Timeout(k, x)
    BY <1>3 DEF TickTimeout
  <2>2. /\ Wakes(k, k', {x}) /\ Sound(k', pc)
        /\ k'.err[x] = "ETIMEOUT" /\ \A t \in Thread \ {x} : k'.err[t] = k.err[t]
        /\ Waits(k, Receivers, x) \/ Waits(k, Senders, x)
        /\ k.nest # 0 => k'.cur = k.cur
    BY <2>1, WakesTimeout
  <2>3. {x} \in SUBSET Thread
    OBVIOUS
  <2> QED BY <1>1, <2>2, <2>3
<1> QED BY <1>2, <1>3 DEF Tick
(* Threads that were woken stay so while others are woken too. *)
Awakens(u, p, w, X) ==
  Sound(u, p) /\ Wakes(u, w, X) /\ \A t \in Thread \ X : w.err[t] = u.err[t]

Others(q) == IF q = Receivers THEN SendPlaces ELSE RecvPlaces

LEMMA WokenStays ==
  ASSUME NEW u, NEW w, NEW p, NEW r, NEW X, NEW places, NEW q \in {Receivers, Senders},
         Awakens(u, p, w, X), places \cap Others(q) = {},
         Remain(p, r, places)
  PROVE  WokenFor(u, p, places, q) \subseteq WokenFor(w, r, places, q)
<1>1. SUFFICES ASSUME NEW t \in Thread, p[t] \in places, ~Waits(u, q, t), u.err[t] = "EOK"
               PROVE  ~Waits(w, q, t) /\ w.err[t] = "EOK"
  BY DEF WokenFor, Remain
<1>2. ~Waits(w, q, t)
  BY <1>1 DEF Wakes, Awakens
<1>3. t \notin X
  <2>1. SUFFICES ASSUME u.stat[t] = "SUSPEND" PROVE FALSE
    BY DEF Wakes, Awakens
  <2>2. CASE q = Receivers
    BY <1>1, <2>1, <2>2 DEF Sound, Awakens, Others
  <2>3. CASE q # Receivers
    BY <1>1, <2>1, <2>3 DEF Sound, Awakens, Others
  <2> QED BY <2>2, <2>3
<1> QED BY <1>1, <1>2, <1>3 DEF Awakens

LEMMA MatchedWakes ==
  ASSUME IsFiniteSet(Thread),
         NEW u, NEW w, NEW p, NEW r, NEW X, NEW places, NEW q \in {Receivers, Senders},
         NEW n \in Int, NEW m \in Int, m <= n, Matched(n, u, p, places, q),
         Awakens(u, p, w, X), places \cap Others(q) = {},
         Remain(p, r, places)
  PROVE  Matched(m, w, r, places, q)
<1>1. WokenFor(u, p, places, q) \subseteq WokenFor(w, r, places, q)
  BY WokenStays
<1>2. \A t \in Thread : Waits(w, q, t) => \E x \in Thread : Waits(u, q, x)
  BY DEF Wakes, Awakens
<1> QED BY <1>1, <1>2, MatchedKept

(* As MatchedWakes, where c leaves the places. *)
LEMMA MatchedWakesTaken ==
  ASSUME IsFiniteSet(Thread),
         NEW u, NEW w, NEW p, NEW r, NEW X, NEW places, NEW q \in {Receivers, Senders},
         NEW n \in Int, NEW m \in Int, m <= n - 1, Matched(n, u, p, places, q),
         Awakens(u, p, w, X), places \cap Others(q) = {},
         NEW c, OnlyMoves(p, r, c)
  PROVE  Matched(m, w, r, places, q)
<1>1. Remain(p, p, places)
  BY DEF Remain
<1>1a. WokenFor(u, p, places, q) \subseteq WokenFor(w, p, places, q)
  BY <1>1, WokenStays
<1>2. WokenFor(w, p, places, q) \ {c} \subseteq WokenFor(w, r, places, q)
  BY DEF WokenFor, OnlyMoves
<1>3. WokenFor(u, p, places, q) \ {c} \subseteq WokenFor(w, r, places, q)
  BY <1>1a, <1>2
<1>4. \A t \in Thread : Waits(w, q, t) => \E x \in Thread : Waits(u, q, x)
  BY DEF Wakes, Awakens
<1> QED BY <1>3, <1>4, MatchedTaken

(* The current thread, which was not woken for q, queues in the other list. *)
LEMMA MatchedJoins ==
  ASSUME IsFiniteSet(Thread), CallsAssumption,
         NEW u, NEW w, NEW p, NEW r, NEW places,
         NEW q \in {Receivers, Senders}, NEW o \in {Receivers, Senders}, o # q,
         NEW n \in Int, Matched(n, u, p, places, q),
         u.cur \in Thread, Joins(u, w, o), p[u.cur] \notin places,
         OnlyMoves(p, r, u.cur), OnlyMoves(u.err, w.err, u.cur)
  PROVE  Matched(n, w, r, places, q)
<1>1. \A t \in Thread : Waits(w, q, t) <=> Waits(u, q, t)
  BY DEF Joins
<1>2. WokenFor(u, p, places, q) \subseteq WokenFor(w, r, places, q)
  BY <1>1 DEF WokenFor, OnlyMoves
<1> QED BY <1>1, <1>2, MatchedKept

-----------------------------------------------------------------------------
(* Items in a circle of cells. *)
Circle(f, N, o, n) == [i \in 1 .. n |-> f[(o + i - 1) % N]]

LEMMA ModRange ==
  ASSUME NEW N \in Nat, N > 0, NEW a \in Nat
  PROVE  a % N \in 0 .. N - 1
OBVIOUS

LEMMA ModShift ==
  ASSUME NEW N \in Nat, N > 0, NEW a \in Nat, NEW b \in Nat
  PROVE  ((a % N) + b) % N = (a + b) % N
<1> DEFINE q == a \div N  r == a % N  x == (r + b) \div N  y == (r + b) % N
<1>1. q \in Nat /\ r \in 0 .. N - 1 /\ a = q * N + r
  OBVIOUS
<1>2. x \in Nat /\ y \in 0 .. N - 1 /\ r + b = x * N + y
  BY <1>1
<1>3. a + b = (q + x) * N + y
  <2> HIDE DEF q, r, x, y
  <2>1. (q + x) * N = q * N + x * N
    BY <1>1, <1>2
  <2> QED BY <1>1, <1>2, <2>1
<1>4. (a + b) % N = y
  <2> HIDE DEF q, r, x, y
  <2>1. q + x \in Int
    BY <1>1, <1>2
  <2> QED BY <1>2, <1>3, <2>1, Remainder
<1> QED BY <1>4

LEMMA ModApart ==
  ASSUME NEW N \in Nat, N > 0, NEW a \in Nat, NEW b \in Nat, a < b, b - a < N
  PROVE  a % N # b % N
<1> DEFINE q == a \div N  r == a % N  x == b \div N  y == b % N
<1>1. q \in Int /\ r \in 0 .. N - 1 /\ a = q * N + r
  OBVIOUS
<1>2. x \in Int /\ y \in 0 .. N - 1 /\ b = x * N + y
  OBVIOUS
<1>3. SUFFICES ASSUME r = y PROVE FALSE
  OBVIOUS
<1> HIDE DEF q, r, x, y
<1>4. b - a = x * N - q * N
  BY <1>1, <1>2, <1>3
<1> DEFINE d == x - q
<1>5. x * N - q * N = d * N /\ d \in Int
  BY <1>1, <1>2
<1> HIDE DEF d
<1>6. CASE d <= 0
  <2>1. d * N <= 0
    BY <1>5, <1>6
  <2> QED BY <1>4, <1>5, <2>1
<1>7. CASE d >= 1
  <2>1. d * N >= N
    BY <1>5, <1>7
  <2> QED BY <1>4, <1>5, <2>1
<1> QED BY <1>5, <1>6, <1>7

Cells(f, N, V) == f \in [0 .. N - 1 -> V]
OneCell(f, g, i, x) == g = [f EXCEPT ![i] = x]
Longer(s, t, x) == t = Append(s, x)
Shorter(s, t, x) == Len(s) > 0 /\ x = s[1] /\ t = SubSeq(s, 2, Len(s))

LEMMA CircleStore ==
  ASSUME NEW N \in Nat, N > 0, NEW V, NEW f, Cells(f, N, V), NEW o \in Nat,
         NEW n \in Nat, n < N, NEW x \in V,
         NEW c, c = (o + n) % N, NEW g, OneCell(f, g, c, x), NEW m, m = n + 1
  PROVE  /\ Circle(f, N, o, n) \in Seq(V) /\ Len(Circle(f, N, o, n)) = n
         /\ Longer(Circle(f, N, o, n), Circle(g, N, o, m), x)
<1> DEFINE s == Circle(f, N, o, n)
           w == Circle(g, N, o, n + 1)
<1>1. \A j \in 1 .. n + 1 : (o + j - 1) % N \in 0 .. N - 1
  BY ModRange
<1>2. (o + n) % N \in 0 .. N - 1
  BY ModRange
<1>3. s \in Seq(V) /\ Len(s) = n
  BY <1>1 DEF Circle, Cells
<1>4. \A j \in 1 .. n : w[j] = s[j]
  <2> TAKE j \in 1 .. n
  <2>1. (o + j - 1) % N # (o + n) % N
    <3>1. o + j - 1 \in Nat /\ o + n \in Nat /\ o + j - 1 < o + n /\ (o + n) - (o + j - 1) < N
      OBVIOUS
    <3> QED BY <3>1, ModApart
  <2>2. w[j] = g[(o + j - 1) % N] /\ s[j] = f[(o + j - 1) % N]
    BY DEF Circle
  <2> QED BY <1>1, <2>1, <2>2 DEF OneCell, Cells
<1>5. w[n + 1] = x
  <2>1. o + (n + 1) - 1 = o + n /\ n + 1 \in 1 .. n + 1
    OBVIOUS
  <2>2. w[n + 1] = g[o + (n + 1) - 1] \/ w[n + 1] = g[(o + (n + 1) - 1) % N]
    BY <2>1 DEF Circle
  <2>3. w[n + 1] = g[(o + n) % N]
    BY <2>1 DEF Circle
  <2> QED BY <1>2, <2>3 DEF OneCell, Cells
<1>6. \A j \in 1 .. n + 1 : w[j] = Append(s, x)[j]
  <2> HIDE DEF s, w
  <2> QED BY <1>3, <1>4, <1>5
<1>7. w = [i \in 1 .. n + 1 |-> w[i]]
  BY DEF Circle
<1>8. Append(s, x) = [j \in 1 .. n + 1 |-> Append(s, x)[j]]
  <2> HIDE DEF s
  <2> DEFINE a == Append(s, x)
  <2>1. a \in Seq(V) /\ Len(a) = n + 1
    BY <1>3
  <2> HIDE DEF a
  <2>2. a = [j \in 1 .. n + 1 |-> a[j]]
    BY <2>1
  <2> QED BY <2>2 DEF a
<1> HIDE DEF s, w
<1>9. w = Append(s, x)
  BY <1>6, <1>7, <1>8
<1> QED BY <1>3, <1>9 DEF s, w, Longer

LEMMA CircleFetch ==
  ASSUME NEW N \in Nat, N > 0, NEW V, NEW f, Cells(f, N, V), NEW o \in Nat,
         NEW n \in Nat, n > 0, NEW b, b = o + 1, NEW m, m = n - 1,
         NEW c, c = o % N, NEW x, x = f[c]
  PROVE  /\ Circle(f, N, o, n) \in Seq(V) /\ Len(Circle(f, N, o, n)) = n
         /\ Shorter(Circle(f, N, o, n), Circle(f, N, b, m), x)
<1> DEFINE s == Circle(f, N, o, n)
           w == Circle(f, N, o + 1, n - 1)
<1>1. \A i \in 1 .. n : (o + i - 1) % N \in 0 .. N - 1
  BY ModRange
<1>2. s \in Seq(V) /\ Len(s) = n
  BY <1>1 DEF Circle, Cells
<1>3. f[o % N] = s[1]
  <2>1. o + 1 - 1 = o /\ 1 \in 1 .. n
    OBVIOUS
  <2> QED BY <2>1 DEF Circle
<1>4. \A i \in 1 .. n - 1 : w[i] = s[i + 1]
  <2> TAKE i \in 1 .. n - 1
  <2>1. (o + 1) + i - 1 = o + (i + 1) - 1 /\ i + 1 \in 1 .. n
    OBVIOUS
  <2>2. w[i] = f[((o + 1) + i - 1) % N] /\ s[i + 1] = f[(o + (i + 1) - 1) % N]
    BY <2>1 DEF Circle
  <2> QED BY <2>1, <2>2
<1>5. \A i \in 1 .. n - 1 : SubSeq(s, 2, n)[i] = s[i + 1]
  <2> HIDE DEF s
  <2> QED BY <1>2
<1>6. w = [i \in 1 .. n - 1 |-> w[i]]
  BY DEF Circle
<1>7. SubSeq(s, 2, n) = [i \in 1 .. n - 1 |-> SubSeq(s, 2, n)[i]]
  <2> HIDE DEF s
  <2> QED BY <1>2
<1> HIDE DEF s, w
<1>8. w = SubSeq(s, 2, n)
  BY <1>4, <1>5, <1>6, <1>7
<1> QED BY <1>2, <1>3, <1>8 DEF s, w, Shorter

(* What one step does to a queue s that holds at most n items of V, and to *)
(* the items d delivered last; t and e are their values after it, and o    *)
(* says what else than put and get the queue has.                          *)
FifoMove(s, t, d, e, n, V, o) ==
  \/ t = s /\ e = d
  \/ \E x \in V : Len(s) < n /\ t = Append(s, x) /\ e = d
  \/ \E x \in V : "urgent" \in o /\ Len(s) < n /\ t = <<x>> \o s /\ e = d
  \/ Len(s) > 0 /\ e = <<s[1]>> /\ t = SubSeq(s, 2, Len(s))
  \/ "reset" \in o /\ t = <<>> /\ e = d

(* An index that runs from 0 to N - 1 and wraps, and the difference of two *)
LEMMA Around ==
  ASSUME NEW N \in Nat, N > 0, NEW a \in 0 .. N - 1, NEW b \in 0 .. N - 1
  PROVE  /\ (a - b) % N = IF b <= a THEN a - b ELSE a - b + N
         /\ (a + 1) % N = IF a = N - 1 THEN 0 ELSE a + 1
<1>1. CASE b <= a
  BY <1>1, NoLap
<1>2. CASE a < b
  <2>1. a - b + N \in 0 .. N - 1 /\ -1 \in Int /\ (-1) * N + (a - b + N) = a - b
    BY <1>2
  <2>2. ((-1) * N + (a - b + N)) % N = a - b + N
    BY <2>1, Remainder
  <2> QED BY <1>2, <2>1, <2>2
<1>3. CASE a = N - 1
  <2>1. N \in N .. 2 * N - 1 /\ a + 1 = N /\ N - N = 0
    BY <1>3
  <2> QED BY <1>1, <1>2, <1>3, <2>1, OneLap
<1>4. CASE a # N - 1
  <2>1. a + 1 \in 0 .. N - 1
    BY <1>4
  <2> QED BY <1>1, <1>2, <1>4, <2>1, NoLap
<1> QED BY <1>3, <1>4

LEMMA ModOf ==
  ASSUME NEW S \in Nat, S > 0, NEW N \in Nat, N > 0, N % S = 0, NEW a \in 0 .. 2 * N - 1
  PROVE  (a % N) % S = a % S
<1>1. CASE a < N
  BY <1>1, NoLap
<1>2. CASE a >= N
  <2> DEFINE q == N \div S  p == a \div S  r == a % S
  <2>1. q \in Int /\ N = S * q
    OBVIOUS
  <2>2. p \in Int /\ r \in 0 .. S - 1 /\ a = S * p + r
    OBVIOUS
  <2> HIDE DEF q, p, r
  <2>3. a - N = (p - q) * S + r /\ p - q \in Int
    BY <2>1, <2>2
  <2>4. (a - N) % S = r
    <3>1. ASSUME NEW w \in Int, a - N = w * S + r PROVE (a - N) % S = r
      <4>1. (w * S + r) % S = r
        BY <2>2, Remainder
      <4> QED BY <3>1, <4>1
    <3> QED BY <2>3, <3>1
  <2>5. a % N = a - N
    BY <1>2, OneLap
  <2> QED BY <2>4, <2>5 DEF r
<1> QED BY <1>1, <1>2

-----------------------------------------------------------------------------
(* The ring buffer                                                         *)

(* What the indices and the mirror bits of a ring have to do with each     *)
(* other: the write index is a lap ahead exactly if the mirrors differ.    *)
Consistent(r) == IF r.rm = r.wm THEN r.ri <= r.wi ELSE r.wi <= r.ri

LEMMA LengthInRange ==
  ASSUME RingAssumption, NEW r \in Ring
  PROVE  /\ DataLen(r) \in 0 .. Size
         /\ SpaceLen(r) \in 0 .. Size
<1> QED BY DEF RingAssumption, Ring, DataLen, SpaceLen

(* Plus and Wraps add modulo the size and tell the lap.                    *)
LEMMA PlusInRange ==
  ASSUME RingAssumption, NEW i \in 0 .. Size - 1, NEW n \in 0 .. Size
  PROVE  /\ Plus(i, n) \in 0 .. Size - 1
         /\ ~Wraps(i, n) => Plus(i, n) = i + n
         /\ Wraps(i, n) => Plus(i, n) = i + n - Size
<1> QED BY DEF RingAssumption, Plus, Wraps

LEMMA PlusPlus ==
  ASSUME RingAssumption, NEW i \in 0 .. Size - 1, NEW a \in 0 .. Size, NEW b \in 0 .. Size,
         a + b \in 0 .. Size - 1
  PROVE  Plus(Plus(i, a), b) = Plus(i, a + b)
<1>1. Size \in Nat /\ i \in Int /\ a \in Int /\ b \in Int
  BY DEF RingAssumption
<1> QED BY <1>1 DEF Plus

(* Laps: the write index is DataLen ahead of the read index; and an amount *)
(* for which that is so is DataLen.                                        *)
Lead(r, d) ==
  /\ r.rm = r.wm => r.wi = r.ri + d
  /\ r.rm # r.wm => r.wi = r.ri + d - Size

LEMMA LengthIsLead ==
  ASSUME RingAssumption, NEW r \in Ring, Consistent(r)
  PROVE  Lead(r, DataLen(r))
<1>1. r.ri \in 0 .. Size - 1 /\ r.wi \in 0 .. Size - 1 /\ Size \in Nat
  BY DEF Ring, RingAssumption
<1>2. CASE r.rm = r.wm
  <2>1. r.ri <= r.wi
    BY <1>2 DEF Consistent
  <2>2. DataLen(r) = r.wi - r.ri
    BY <1>1, <1>2, <2>1 DEF DataLen
  <2> QED BY <1>1, <1>2, <2>2 DEF Lead
<1>3. CASE r.rm # r.wm
  <2>1. r.wi <= r.ri
    BY <1>3 DEF Consistent
  <2>2. DataLen(r) = Size - (r.ri - r.wi)
    BY <1>1, <1>3, <2>1 DEF DataLen
  <2> QED BY <1>1, <1>3, <2>2 DEF Lead
<1> QED BY <1>2, <1>3

LEMMA LeadIsLength ==
  ASSUME RingAssumption, NEW r \in Ring, NEW d \in 0 .. Size, Lead(r, d)
  PROVE  Consistent(r) /\ DataLen(r) = d
<1>1. r.ri \in 0 .. Size - 1 /\ r.wi \in 0 .. Size - 1 /\ Size \in Nat
  BY DEF Ring, RingAssumption
<1>2. CASE r.rm = r.wm
  <2>1. r.wi = r.ri + d
    BY <1>2 DEF Lead
  <2> QED BY <1>1, <1>2, <2>1 DEF DataLen, Consistent
<1>3. CASE r.rm # r.wm
  <2>1. r.wi = r.ri + d - Size
    BY <1>3 DEF Lead
  <2> QED BY <1>1, <1>3, <2>1 DEF DataLen, Consistent
<1> QED BY <1>2, <1>3

(* The cell that is x bytes behind the read index, seen from a write index *)
(* that is d ahead of it.                                                  *)
LEMMA CellFromWriter ==
  ASSUME RingAssumption, NEW i \in 0 .. Size - 1, NEW w \in 0 .. Size - 1,
         NEW d \in 0 .. Size, w = i + d \/ w = i + d - Size,
         NEW x \in 0 .. Size - 1
  PROVE  Ahead(w, Plus(i, x)) = IF x >= d THEN x - d ELSE x - d + Size
<1> QED BY DEF RingAssumption, Ahead, Plus

LEMMA StoredIsSeq ==
  ASSUME RingAssumption, NEW r \in Ring, NEW n \in Nat
  PROVE  /\ Taken(r, n) \in Seq(Byte)
         /\ Len(Taken(r, n)) = AtMost(n, DataLen(r))
         /\ \A i \in 1 .. AtMost(n, DataLen(r)) : Taken(r, n)[i] = r.buf[Plus(r.ri, i - 1)]
<1> DEFINE m == AtMost(n, DataLen(r))
<1>1. DataLen(r) \in 0 .. Size /\ Size \in Nat
  BY LengthInRange DEF RingAssumption
<1>2. m \in Nat /\ m <= Size
  BY <1>1 DEF AtMost
<1>3. ASSUME NEW i \in 1 .. m PROVE r.buf[Plus(r.ri, i - 1)] \in Byte
  <2>1. r.ri \in 0 .. Size - 1 /\ i - 1 \in 0 .. Size
    BY <1>1, <1>2 DEF Ring
  <2>2. Plus(r.ri, i - 1) \in 0 .. Size - 1
    BY <2>1, PlusInRange
  <2> QED BY <2>2 DEF Ring
<1>4. Taken(r, n) = [i \in 1 .. m |-> r.buf[Plus(r.ri, i - 1)]]
  BY DEF Taken
<1> HIDE DEF m
<1>5. Taken(r, n) \in [1 .. m -> Byte]
  BY <1>3, <1>4
<1> QED
  BY <1>2, <1>4, <1>5 DEF m

(* rt_ringbuffer_put appends what it accepts.                              *)
LEMMA PutAppends ==
  ASSUME RingAssumption, NEW r \in Ring, Consistent(r), NEW s \in Seq(Byte)
  PROVE  /\ PutBytes(r, s) \in Ring /\ Consistent(PutBytes(r, s))
         /\ Accepted(r, s) \in Seq(Byte)
         /\ Len(Accepted(r, s)) = AtMost(Len(s), SpaceLen(r))
         /\ DataLen(PutBytes(r, s)) = DataLen(r) + Len(Accepted(r, s))
         /\ Stored(PutBytes(r, s)) = Stored(r) \o Accepted(r, s)
<1> DEFINE a == Accepted(r, s)  n == Len(a)  q == PutBytes(r, s)
<1>1. DataLen(r) \in 0 .. Size /\ SpaceLen(r) = Size - DataLen(r) /\ Size \in Nat \ {0}
  BY LengthInRange DEF RingAssumption, SpaceLen
<1>2. a \in Seq(Byte) /\ n = AtMost(Len(s), SpaceLen(r)) /\ n \in 0 .. SpaceLen(r)
  <2>1. AtMost(Len(s), SpaceLen(r)) \in 0 .. Len(s)
    BY <1>1 DEF AtMost
  <2> QED BY <2>1, <1>1 DEF Accepted, AtMost
<1>3. CASE SpaceLen(r) = 0
  <2>1. q = r /\ n = 0 /\ a = << >>
    BY <1>2, <1>3 DEF PutBytes
  <2>2. Stored(r) \in Seq(Byte)
    BY StoredIsSeq, <1>1 DEF Stored
  <2> QED BY <1>1, <1>2, <2>1, <2>2
<1>4. CASE SpaceLen(r) # 0
  <2>1. q = [buf |-> [j \in 0 .. Size - 1 |->
                         IF Ahead(r.wi, j) < n THEN a[Ahead(r.wi, j) + 1] ELSE r.buf[j]],
             ri |-> r.ri, wi |-> Plus(r.wi, n), rm |-> r.rm,
             wm |-> IF Wraps(r.wi, n) THEN ~r.wm ELSE r.wm]
    BY <1>4 DEF PutBytes, Advance, Ring
  <2>2. r.wi \in 0 .. Size - 1 /\ r.ri \in 0 .. Size - 1 /\ r.wm \in BOOLEAN /\ r.rm \in BOOLEAN
        /\ r.buf \in [0 .. Size - 1 -> Byte]
    BY DEF Ring
  <2>3. /\ Plus(r.wi, n) \in 0 .. Size - 1
        /\ ~Wraps(r.wi, n) => Plus(r.wi, n) = r.wi + n
        /\ Wraps(r.wi, n) => Plus(r.wi, n) = r.wi + n - Size
    <3>1. n \in 0 .. Size
      BY <1>1, <1>2
    <3> HIDE DEF n
    <3> QED BY <2>2, <3>1, PlusInRange
  <2>4. ASSUME NEW j \in 0 .. Size - 1 PROVE Ahead(r.wi, j) \in 0 .. Size - 1
    BY <2>2, <1>1 DEF Ahead
  <2>5. q \in Ring
    <3>1. ASSUME NEW j \in 0 .. Size - 1, Ahead(r.wi, j) < n PROVE a[Ahead(r.wi, j) + 1] \in Byte
      <4> DEFINE i == Ahead(r.wi, j)
      <4>1. i \in 0 .. Size - 1 /\ i < n
        BY <2>4, <3>1
      <4>2. n \in Nat /\ Len(a) = n /\ Size \in Nat
        BY <1>1, <1>2
      <4> HIDE DEF i, n
      <4>3. i + 1 \in 1 .. n
        BY <4>1, <4>2
      <4> HIDE DEF a
      <4>4. a[i + 1] \in Byte
        BY <4>2, <4>3, <1>2
      <4> QED BY <4>4 DEF i
    <3>2. [j \in 0 .. Size - 1 |-> IF Ahead(r.wi, j) < n THEN a[Ahead(r.wi, j) + 1] ELSE r.buf[j]]
            \in [0 .. Size - 1 -> Byte]
      BY <2>2, <3>1
    <3>3. (IF Wraps(r.wi, n) THEN ~r.wm ELSE r.wm) \in BOOLEAN
      BY <2>2
    <3> HIDE DEF q
    <3> QED BY <2>1, <2>2, <2>3, <3>2, <3>3 DEF Ring
  <2>6. Consistent(q) /\ DataLen(q) = DataLen(r) + n
    <3>1. Lead(r, DataLen(r))
      BY LengthIsLead
    <3>2. DataLen(r) + n \in 0 .. Size
      BY <1>1, <1>2
    <3>3. q.ri = r.ri /\ q.rm = r.rm /\ q.wi = Plus(r.wi, n)
      BY <2>1
    <3>4. Lead(q, DataLen(r) + n)
      <4>1. CASE ~Wraps(r.wi, n)
        <5>1. q.wm = r.wm /\ q.wi = r.wi + n
          BY <2>1, <2>3, <4>1
        <5>2. n \in Nat /\ DataLen(r) \in Nat
          BY <1>1, <1>2
        <5>3. CASE r.rm = r.wm
          <6>1. r.wi = r.ri + DataLen(r)
            BY <3>1, <5>3 DEF Lead
          <6> HIDE DEF q, n
          <6> QED BY <2>2, <3>3, <5>1, <5>2, <5>3, <6>1 DEF Lead
        <5>4. CASE r.rm # r.wm
          <6>1. r.wi = r.ri + DataLen(r) - Size
            BY <3>1, <5>4 DEF Lead
          <6> HIDE DEF q, n
          <6> QED BY <1>1, <2>2, <3>3, <5>1, <5>2, <5>4, <6>1 DEF Lead
        <5> QED BY <5>3, <5>4
      <4>2. CASE Wraps(r.wi, n)
        <5>1. q.wm = ~r.wm /\ q.wi = r.wi + n - Size
          BY <2>1, <2>3, <4>2
        <5>2. r.rm = r.wm
          <6>1. SUFFICES ASSUME r.rm # r.wm PROVE FALSE
            OBVIOUS
          <6>2. r.wi = r.ri + DataLen(r) - Size
            BY <3>1, <6>1 DEF Lead
          <6>3. Size - r.wi <= n
            BY <4>2, <1>1, <1>2, <2>2 DEF Wraps
          <6> QED BY <6>2, <6>3, <1>1, <1>2, <2>2
        <5>3. r.wi = r.ri + DataLen(r) /\ q.rm # q.wm
          BY <3>1, <3>3, <5>1, <5>2, <2>2 DEF Lead
        <5>4. n \in Nat /\ DataLen(r) \in Nat
          BY <1>1, <1>2
        <5> HIDE DEF q, n
        <5> QED BY <1>1, <2>2, <3>3, <5>1, <5>3, <5>4 DEF Lead
      <4> QED BY <4>1, <4>2
    <3> HIDE DEF q, n
    <3> QED BY <2>5, <3>2, <3>4, LeadIsLength
  <2>7. Stored(q) = Stored(r) \o a
    <3> DEFINE d == DataLen(r)
    <3>1. d \in 0 .. Size /\ n \in Nat /\ d + n <= Size
      BY <1>1, <1>2
    <3>2. q.ri = r.ri /\ (r.wi = r.ri + d \/ r.wi = r.ri + d - Size)
      BY <2>1, LengthIsLead DEF Lead
    <3>3. q.buf = [j \in 0 .. Size - 1 |->
                     IF Ahead(r.wi, j) < n THEN a[Ahead(r.wi, j) + 1] ELSE r.buf[j]]
      BY <2>1
    <3>4. a \in Seq(Byte) /\ Len(a) = n
      BY <1>2
    <3> HIDE DEF a, n, q, d
    <3>5. /\ Stored(q) \in Seq(Byte) /\ Len(Stored(q)) = d + n
          /\ \A i \in 1 .. d + n : Stored(q)[i] = q.buf[Plus(r.ri, i - 1)]
      <4>1. AtMost(Size, DataLen(q)) = d + n /\ Size \in Nat
        BY <2>6, <3>1, <1>1 DEF AtMost, d
      <4>2. /\ Taken(q, Size) \in Seq(Byte)
            /\ Len(Taken(q, Size)) = AtMost(Size, DataLen(q))
            /\ \A i \in 1 .. AtMost(Size, DataLen(q)) : Taken(q, Size)[i] = q.buf[Plus(q.ri, i - 1)]
        BY <2>5, <4>1, StoredIsSeq
      <4>3. Stored(q) = Taken(q, Size) /\ q.ri = r.ri
        BY <3>2 DEF Stored
      <4> QED BY <4>1, <4>2, <4>3
    <3>6. /\ Stored(r) \in Seq(Byte) /\ Len(Stored(r)) = d
          /\ \A i \in 1 .. d : Stored(r)[i] = r.buf[Plus(r.ri, i - 1)]
      <4>1. AtMost(Size, DataLen(r)) = d
        BY <3>1, <1>1 DEF AtMost, d
      <4> QED BY <4>1, <1>1, StoredIsSeq DEF Stored
    <3>7. ASSUME NEW x \in 0 .. d + n - 1
          PROVE  /\ Plus(r.ri, x) \in 0 .. Size - 1
                 /\ q.buf[Plus(r.ri, x)] = IF x < d THEN r.buf[Plus(r.ri, x)] ELSE a[x - d + 1]
      <4>1. x \in 0 .. Size - 1
        BY <3>1, <1>1
      <4>2. Plus(r.ri, x) \in 0 .. Size - 1
        <5>1. x \in 0 .. Size
          BY <4>1, <1>1
        <5> QED BY <2>2, <5>1, PlusInRange
      <4>3. Ahead(r.wi, Plus(r.ri, x)) = IF x >= d THEN x - d ELSE x - d + Size
        BY <2>2, <3>1, <3>2, <4>1, CellFromWriter
      <4>4. CASE x < d
        <5>1. ~(Ahead(r.wi, Plus(r.ri, x)) < n)
          BY <3>1, <4>1, <4>3, <4>4, <1>1
        <5> QED BY <3>3, <4>2, <4>4, <5>1
      <4>5. CASE x >= d
        <5>1. Ahead(r.wi, Plus(r.ri, x)) < n
          BY <3>1, <4>1, <4>3, <4>5, <1>1
        <5>2. q.buf[Plus(r.ri, x)] = a[Ahead(r.wi, Plus(r.ri, x)) + 1]
          BY <3>3, <4>2, <5>1
        <5> QED BY <4>1, <4>2, <4>3, <4>5, <5>2, <3>1
      <4> QED BY <4>1, <4>4, <4>5, <3>1
    <3>8. Stored(r) \o a \in Seq(Byte) /\ Len(Stored(r) \o a) = d + n
      BY <3>4, <3>6, ConcatProperties, Zenon
    <3>9. ASSUME NEW i \in 1 .. d + n PROVE Stored(q)[i] = (Stored(r) \o a)[i]
      <4>1. i - 1 \in 0 .. d + n - 1 /\ i \in Int
        BY <3>1
      <4>2. Stored(q)[i] = IF i - 1 < d THEN r.buf[Plus(r.ri, i - 1)] ELSE a[i - 1 - d + 1]
        BY <4>1, <3>5, <3>7
      <4>3. CASE i - 1 < d
        <5>1. i \in 1 .. d
          BY <4>1, <4>3, <3>1
        <5> QED BY <4>2, <4>3, <5>1, <3>6, <3>4
      <4>4. CASE ~(i - 1 < d)
        <5>1. ~(i <= d) /\ i - 1 - d + 1 = i - d /\ i - d \in 1 .. n
          BY <4>1, <4>4, <3>1
        <5>2. (Stored(r) \o a)[i] = a[i - d]
          <6>1. (Stored(r) \o a)[i] = IF i <= d THEN Stored(r)[i] ELSE a[i - d]
            BY <3>6, <3>4, ConcatProperties, Zenon
          <6> QED BY <5>1, <6>1
        <5> QED BY <4>2, <4>4, <5>1, <5>2
      <4> QED BY <4>3, <4>4
    <3> QED BY <3>5, <3>8, <3>9, <3>1, SeqEqual
  <2> QED BY <1>2, <2>5, <2>6, <2>7
<1> QED BY <1>3, <1>4

(* rt_ringbuffer_get delivers the oldest bytes and keeps the others.       *)
LEMMA GetTakes ==
  ASSUME RingAssumption, NEW r \in Ring, Consistent(r), NEW n \in Nat
  PROVE  /\ GetBytes(r, n) \in Ring /\ Consistent(GetBytes(r, n))
         /\ Stored(r) \in Seq(Byte) /\ Len(Stored(r)) = DataLen(r)
         /\ Taken(r, n) = SubSeq(Stored(r), 1, AtMost(n, DataLen(r)))
         /\ Stored(GetBytes(r, n)) = SubSeq(Stored(r), AtMost(n, DataLen(r)) + 1, DataLen(r))
<1> DEFINE d == DataLen(r)  m == AtMost(n, d)  q == GetBytes(r, n)
<1>1. d \in 0 .. Size /\ Size \in Nat \ {0} /\ m \in 0 .. d
  BY LengthInRange DEF RingAssumption, AtMost
<1>2. r.wi \in 0 .. Size - 1 /\ r.ri \in 0 .. Size - 1 /\ r.wm \in BOOLEAN /\ r.rm \in BOOLEAN
      /\ r.buf \in [0 .. Size - 1 -> Byte]
  BY DEF Ring
<1>3. Lead(r, d)
  BY LengthIsLead
<1>4. /\ Stored(r) \in Seq(Byte) /\ Len(Stored(r)) = d
      /\ \A i \in 1 .. d : Stored(r)[i] = r.buf[Plus(r.ri, i - 1)]
  <2>1. AtMost(Size, d) = d
    BY <1>1 DEF AtMost
  <2> HIDE DEF d
  <2> QED BY <1>1, <2>1, StoredIsSeq DEF Stored, d
<1>5. Taken(r, n) = SubSeq(Stored(r), 1, m)
  <2>1. /\ Taken(r, n) \in Seq(Byte) /\ Len(Taken(r, n)) = m
        /\ \A i \in 1 .. m : Taken(r, n)[i] = r.buf[Plus(r.ri, i - 1)]
    BY StoredIsSeq
  <2> HIDE DEF d, m
  <2>2. /\ SubSeq(Stored(r), 1, m) \in Seq(Byte) /\ Len(SubSeq(Stored(r), 1, m)) = m
        /\ \A i \in 1 .. m : SubSeq(Stored(r), 1, m)[i] = Stored(r)[i]
    BY <1>1, <1>4
  <2>3. ASSUME NEW i \in 1 .. m PROVE Taken(r, n)[i] = SubSeq(Stored(r), 1, m)[i]
    <3>1. i \in 1 .. d
      BY <1>1
    <3> QED BY <1>4, <2>1, <2>2, <3>1
  <2> QED BY <2>1, <2>2, <2>3, SeqEqual
<1>6. CASE d = 0
  <2>1. q = r /\ m = 0
    BY <1>1, <1>6 DEF GetBytes
  <2>2. SubSeq(Stored(r), 1, 0) = Stored(r)
    <3>1. Len(SubSeq(Stored(r), 1, 0)) = 0 /\ SubSeq(Stored(r), 1, 0) \in Seq(Byte)
      BY <1>4
    <3> QED BY <3>1, <1>4, <1>6, SeqEqual
  <2> QED BY <1>4, <1>5, <1>6, <2>1, <2>2
<1>7. CASE d # 0
  <2>1. q = [buf |-> r.buf, ri |-> Plus(r.ri, m), wi |-> r.wi,
             rm |-> IF Wraps(r.ri, m) THEN ~r.rm ELSE r.rm, wm |-> r.wm]
    BY <1>7 DEF GetBytes, Ring
  <2>2. /\ Plus(r.ri, m) \in 0 .. Size - 1
        /\ ~Wraps(r.ri, m) => Plus(r.ri, m) = r.ri + m
        /\ Wraps(r.ri, m) => Plus(r.ri, m) = r.ri + m - Size
    <3>1. m \in 0 .. Size
      BY <1>1
    <3> HIDE DEF m
    <3> QED BY <1>2, <3>1, PlusInRange
  <2>3. q \in Ring
    <3>1. (IF Wraps(r.ri, m) THEN ~r.rm ELSE r.rm) \in BOOLEAN
      BY <1>2
    <3> HIDE DEF q, m
    <3> QED BY <1>2, <2>1, <2>2, <3>1 DEF Ring
  <2>4. Lead(q, d - m)
    <3>1. q.wi = r.wi /\ q.wm = r.wm /\ q.ri = Plus(r.ri, m)
      BY <2>1
    <3>2. CASE ~Wraps(r.ri, m)
      <4>1. q.rm = r.rm /\ q.ri = r.ri + m
        BY <2>1, <2>2, <3>2
      <4>2. CASE r.rm = r.wm
        <5>1. r.wi = r.ri + d
          BY <1>3, <4>2 DEF Lead
        <5> HIDE DEF q, m, d
        <5> QED BY <1>1, <1>2, <3>1, <4>1, <4>2, <5>1 DEF Lead
      <4>3. CASE r.rm # r.wm
        <5>1. r.wi = r.ri + d - Size
          BY <1>3, <4>3 DEF Lead
        <5> HIDE DEF q, m, d
        <5> QED BY <1>1, <1>2, <3>1, <4>1, <4>3, <5>1 DEF Lead
      <4> QED BY <4>2, <4>3
    <3>3. CASE Wraps(r.ri, m)
      <4>1. q.rm = ~r.rm /\ q.ri = r.ri + m - Size
        BY <2>1, <2>2, <3>3
      <4>2. r.rm # r.wm
        <5>1. SUFFICES ASSUME r.rm = r.wm PROVE FALSE
          OBVIOUS
        <5>2. r.wi = r.ri + d
          BY <1>3, <5>1 DEF Lead
        <5>3. Size - r.ri <= m
          BY <3>3, <1>1, <1>2 DEF Wraps
        <5> HIDE DEF m, d
        <5> QED BY <5>2, <5>3, <1>1, <1>2
      <4>3. r.wi = r.ri + d - Size /\ q.rm = q.wm
        BY <1>2, <1>3, <3>1, <4>1, <4>2 DEF Lead
      <4> HIDE DEF q, m, d
      <4> QED BY <1>1, <1>2, <3>1, <4>1, <4>3 DEF Lead
    <3> QED BY <3>2, <3>3
  <2>5. Consistent(q) /\ DataLen(q) = d - m
    <3>1. d - m \in 0 .. Size
      BY <1>1
    <3> HIDE DEF q, m, d
    <3> QED BY <2>3, <2>4, <3>1, LeadIsLength
  <2>6. Stored(q) = SubSeq(Stored(r), m + 1, d)
    <3>1. q.buf = r.buf /\ q.ri = Plus(r.ri, m)
      BY <2>1
    <3> HIDE DEF q, m, d
    <3>2. /\ Stored(q) \in Seq(Byte) /\ Len(Stored(q)) = d - m
          /\ \A i \in 1 .. d - m : Stored(q)[i] = r.buf[Plus(q.ri, i - 1)]
      <4>1. AtMost(Size, DataLen(q)) = d - m
        BY <1>1, <2>5 DEF AtMost
      <4>2. /\ Stored(q) \in Seq(Byte) /\ Len(Stored(q)) = AtMost(Size, DataLen(q))
            /\ \A i \in 1 .. AtMost(Size, DataLen(q)) : Stored(q)[i] = q.buf[Plus(q.ri, i - 1)]
        BY <1>1, <2>3, StoredIsSeq DEF Stored
      <4> QED BY <3>1, <4>1, <4>2
    <3>3. /\ SubSeq(Stored(r), m + 1, d) \in Seq(Byte)
          /\ Len(SubSeq(Stored(r), m + 1, d)) = d - m
          /\ \A i \in 1 .. d - m : SubSeq(Stored(r), m + 1, d)[i] = Stored(r)[m + i]
      BY <1>1, <1>4
    <3>4. ASSUME NEW i \in 1 .. d - m PROVE Stored(q)[i] = Stored(r)[m + i]
      <4>1. m + i \in 1 .. d /\ m + i - 1 \in 0 .. Size - 1
        BY <1>1
      <4>2. Plus(q.ri, i - 1) = Plus(r.ri, m + i - 1)
        <5>1. m \in 0 .. Size /\ i - 1 \in 0 .. Size /\ m + (i - 1) \in 0 .. Size - 1
          BY <1>1, <4>1
        <5>2. Plus(Plus(r.ri, m), i - 1) = Plus(r.ri, m + (i - 1))
          BY <1>2, <5>1, PlusPlus
        <5>3. m + (i - 1) = m + i - 1
          BY <1>1
        <5> QED BY <3>1, <5>2, <5>3
      <4>3. Stored(r)[m + i] = r.buf[Plus(r.ri, (m + i) - 1)]
        BY <1>4, <4>1
      <4>4. (m + i) - 1 = m + i - 1
        BY <1>1
      <4> QED BY <3>2, <4>2, <4>3, <4>4
    <3> QED BY <1>1, <3>2, <3>3, <3>4, SeqEqual
  <2> QED BY <1>4, <1>5, <2>3, <2>5, <2>6
<1> QED BY <1>6, <1>7

-----------------------------------------------------------------------------
(* One byte at a time: _putchar and _getchar are PutBytes and GetBytes of  *)
(* one byte in what they do to the indices.                                *)
LEMMA NextIsPlus ==
  ASSUME RingAssumption, NEW i \in 0 .. Size - 1
  PROVE  Next1(i) = Plus(i, 1) /\ (Wraps(i, 1) <=> i = Size - 1)
<1> QED BY DEF RingAssumption, Next1, Plus, Wraps

LEMMA GetCharIsGet ==
  ASSUME RingAssumption, NEW r \in Ring
  PROVE  GetChar(r) = GetBytes(r, 1)
<1>1. r.ri \in 0 .. Size - 1 /\ DataLen(r) \in 0 .. Size /\ Size \in Nat
  BY LengthInRange DEF Ring, RingAssumption
<1>2. CASE DataLen(r) = 0
  BY <1>2 DEF GetBytes, GetChar
<1>3. CASE DataLen(r) # 0
  <2>1. AtMost(1, DataLen(r)) = 1
    BY <1>1, <1>3 DEF AtMost
  <2>2. Next1(r.ri) = Plus(r.ri, 1) /\ (Wraps(r.ri, 1) <=> r.ri = Size - 1)
    BY <1>1, NextIsPlus
  <2> QED BY <1>3, <2>1, <2>2 DEF GetBytes, GetChar, Ring
<1> QED BY <1>2, <1>3

LEMMA PutCharIsPut ==
  ASSUME RingAssumption, NEW r \in Ring, NEW b \in Byte
  PROVE  PutChar(r, b) = PutBytes(r, <<b>>)
<1>1. /\ r.wi \in 0 .. Size - 1 /\ r.buf \in [0 .. Size - 1 -> Byte]
      /\ SpaceLen(r) \in 0 .. Size /\ Size \in Nat
  BY LengthInRange DEF Ring, RingAssumption
<1>2. CASE SpaceLen(r) = 0
  BY <1>2 DEF PutBytes, PutChar
<1>3. CASE SpaceLen(r) # 0
  <2> DEFINE a == Accepted(r, <<b>>)
  <2>1. a = <<b>>
    <3>1. AtMost(Len(<<b>>), SpaceLen(r)) = 1
      BY <1>1, <1>3 DEF AtMost
    <3>2. SubSeq(<<b>>, 1, 1) = <<b>>
      <4>1. <<b>> \in Seq(Byte) /\ Len(<<b>>) = 1
        OBVIOUS
      <4> QED BY <4>1, SubSeqFull
    <3> QED BY <3>1, <3>2 DEF Accepted
  <2>2. Len(a) = 1 /\ a[1] = b
    BY <2>1
  <2>3. Next1(r.wi) = Plus(r.wi, 1) /\ (Wraps(r.wi, 1) <=> r.wi = Size - 1)
    BY <1>1, NextIsPlus
  <2> HIDE DEF a
  <2>4. [r.buf EXCEPT ![r.wi] = b] =
          [j \in 0 .. Size - 1 |-> IF Ahead(r.wi, j) < Len(a) THEN a[Ahead(r.wi, j) + 1] ELSE r.buf[j]]
    <3>1. ASSUME NEW j \in 0 .. Size - 1
          PROVE  IF j = r.wi THEN Ahead(r.wi, j) = 0 ELSE ~(Ahead(r.wi, j) < 1)
      BY <1>1 DEF Ahead
    <3>2. ASSUME NEW j \in 0 .. Size - 1
          PROVE  (IF j = r.wi THEN b ELSE r.buf[j])
                   = (IF Ahead(r.wi, j) < Len(a) THEN a[Ahead(r.wi, j) + 1] ELSE r.buf[j])
      <4>1. CASE j = r.wi
        BY <2>2, <3>1, <4>1
      <4>2. CASE j # r.wi
        BY <2>2, <3>1, <4>2
      <4> QED BY <4>1, <4>2
    <3>3. [r.buf EXCEPT ![r.wi] = b] = [j \in 0 .. Size - 1 |-> IF j = r.wi THEN b ELSE r.buf[j]]
      BY <1>1
    <3> QED BY <3>2, <3>3
  <2>5. PutBytes(r, <<b>>) = [Advance(r, Len(a)) EXCEPT !.buf = [r.buf EXCEPT ![r.wi] = b]]
    BY <1>3, <2>4 DEF PutBytes, a
  <2>6. PutBytes(r, <<b>>) =
          [buf |-> [r.buf EXCEPT ![r.wi] = b], ri |-> r.ri, wi |-> Plus(r.wi, 1),
           rm |-> r.rm, wm |-> IF Wraps(r.wi, 1) THEN ~r.wm ELSE r.wm]
    BY <2>2, <2>5 DEF Advance, Ring
  <2>7. PutChar(r, b) =
          [buf |-> [r.buf EXCEPT ![r.wi] = b], ri |-> r.ri, wi |-> Next1(r.wi),
           rm |-> r.rm, wm |-> IF r.wi = Size - 1 THEN ~r.wm ELSE r.wm]
    BY <1>3 DEF PutChar, Ring
  <2> QED BY <2>3, <2>6, <2>7
<1> QED BY <1>2, <1>3

(* rt_ringbuffer_putchar_force gives up the oldest byte of a full buffer.  *)
LEMMA ForceDropsOldest ==
  ASSUME RingAssumption, NEW r \in Ring, Consistent(r), NEW b \in Byte
  PROVE  PutCharForce(r, b) = IF SpaceLen(r) = 0 THEN PutChar(GetChar(r), b) ELSE PutChar(r, b)
<1>1. /\ r.wi \in 0 .. Size - 1 /\ r.ri \in 0 .. Size - 1 /\ r.rm \in BOOLEAN /\ r.wm \in BOOLEAN
      /\ DataLen(r) \in 0 .. Size /\ SpaceLen(r) = Size - DataLen(r) /\ Size \in Nat \ {0}
  BY LengthInRange DEF Ring, RingAssumption, SpaceLen
<1>2. SpaceLen(r) = 0 <=> r.ri = r.wi /\ r.rm # r.wm
  BY <1>1 DEF DataLen
<1>3. CASE SpaceLen(r) # 0
  <2>1. PutCharForce(r, b) = PutChar(r, b)
    BY <1>2, <1>3 DEF PutCharForce, PutChar, Ring
  <2> QED BY <1>3, <2>1
<1>4. CASE SpaceLen(r) = 0
  <2> DEFINE g == GetChar(r)
  <2>1. DataLen(r) # 0
    BY <1>1, <1>4
  <2>2. g = [r EXCEPT !.ri = Next1(r.ri), !.rm = IF r.ri = Size - 1 THEN ~r.rm ELSE r.rm]
    BY <2>1 DEF GetChar, Ring
  <2>3. g.wi = r.wi /\ g.wm = r.wm /\ g.buf = r.buf /\ g.ri = Next1(r.ri)
        /\ g.rm = IF r.ri = Size - 1 THEN ~r.rm ELSE r.rm
    BY <2>2 DEF Ring
  <2>4. g \in Ring
    <3>1. Next1(r.ri) \in 0 .. Size - 1
      BY <1>1 DEF Next1
    <3>2. (IF r.ri = Size - 1 THEN ~r.rm ELSE r.rm) \in BOOLEAN
      BY <1>1
    <3> QED BY <2>2, <3>1, <3>2 DEF Ring
  <2> HIDE DEF g
  <2>5. SpaceLen(g) # 0
    <3>1. ~(g.ri = g.wi /\ g.rm # g.wm)
      BY <1>1, <1>2, <1>4, <2>3 DEF Next1
    <3>2. DataLen(g) # Size
      BY <1>1, <2>3, <2>4, <3>1 DEF DataLen, Ring
    <3>3. DataLen(g) \in 0 .. Size
      BY <2>4, LengthInRange
    <3> QED BY <1>1, <3>2, <3>3 DEF SpaceLen
  <2>6. PutChar(g, b) =
          [buf |-> [g.buf EXCEPT ![g.wi] = b], ri |-> g.ri, wi |-> Next1(g.wi),
           rm |-> g.rm, wm |-> IF g.wi = Size - 1 THEN ~g.wm ELSE g.wm]
    BY <2>4, <2>5 DEF PutChar, Ring
  <2>7. PutCharForce(r, b) =
          [buf |-> [r.buf EXCEPT ![r.wi] = b], ri |-> Next1(r.wi), wi |-> Next1(r.wi),
           rm |-> IF r.wi = Size - 1 THEN ~r.rm ELSE r.rm,
           wm |-> IF r.wi = Size - 1 THEN ~r.wm ELSE r.wm]
    <3>1. PutCharForce(r, b) =
            [r EXCEPT !.buf[r.wi] = b, !.wi = Next1(@), !.wm = IF r.wi = Size - 1 THEN ~@ ELSE @,
                      !.ri = Next1(r.wi), !.rm = IF r.wi = Size - 1 THEN ~@ ELSE @]
      <4>1. r.ri = r.wi /\ r.rm # r.wm
        BY <1>2, <1>4
      <4> QED BY <4>1 DEF PutCharForce
    <3> QED BY <3>1 DEF Ring
  <2>8. PutCharForce(r, b) = PutChar(g, b)
    BY <1>2, <1>4, <2>3, <2>6, <2>7
  <2> QED BY <1>4, <2>8 DEF g
<1> QED BY <1>3, <1>4

-----------------------------------------------------------------------------
(* The completion                                                          *)

(* Only Waiter waits, for a flag that is not set; its wait was ended by a  *)
(* call of rt_completion_done made since the wait before.                  *)
CompletionInv ==
  /\ CompletionTypeOK
  /\ Sound(k, pc) /\ k.nest = 0
  /\ \A t \in Thread :
       /\ ~Waits(k, Senders, t)
       /\ pc[t] \in {"wait_sched", "wait_error", "wait_clear"} => t = Waiter
  /\ Waits(k, Receivers, Waiter) => ~status
  /\ status => signalled
  /\ (/\ pc[Waiter] \in {"wait_sched", "wait_error"}
      /\ ~Waits(k, Receivers, Waiter) /\ k.err[Waiter] = "EOK") => signalled
  /\ pc[Waiter] = "wait_clear" /\ result = "EOK" => signalled

LEMMA CompletionFacts ==
  ASSUME CompletionAssumption, CompletionInv
  PROVE  /\ CallsAssumption /\ Sound(k, pc) /\ KernelOK(k) /\ DOMAIN pc = Thread /\ k.nest = 0
         /\ Me \in Thread /\ k.err \in [Thread -> Error] /\ pc \in [Thread -> CompletionPC]
         /\ Waiter \in Thread
         /\ \A t \in Thread : ~Waits(k, Senders, t) /\ (Waits(k, Receivers, t) => t = Waiter)
<1>1. CallsAssumption /\ Sound(k, pc) /\ DOMAIN pc = Thread /\ pc \in [Thread -> CompletionPC] /\ k.nest = 0
  BY DEF CompletionAssumption, CompletionInv, CompletionTypeOK
<1>2. KernelOK(k) /\ k.cur \in Thread /\ k.err \in [Thread -> Error]
  BY <1>1, SoundFacts
<1>3. ASSUME NEW t \in Thread, Waits(k, Receivers, t) PROVE t = Waiter
  <2>1. pc[t] \in RecvPlaces \cap CompletionPC
    BY <1>1, <1>3 DEF Sound
  <2>2. pc[t] \in {"wait_sched", "wait_error"}
    BY <2>1 DEF RecvPlaces, CompletionPC
  <2> QED BY <2>2 DEF CompletionInv
<1> QED BY <1>1, <1>2, <1>3 DEF Me, CompletionInv, CompletionAssumption

LEMMA CompletionHolds ==
  ASSUME CompletionAssumption, CompletionInv
  PROVE  CompletionNobodyStranded /\ CompletionAnswersRequest
<1>1. /\ CallsAssumption /\ KernelOK(k) /\ Sound(k, pc) /\ Waiter \in Thread
      /\ \A t \in Thread : ~Waits(k, Senders, t) /\ (Waits(k, Receivers, t) => t = Waiter)
  BY CompletionFacts
<1>2. Waiters(k, Receivers) # <<>> => Waits(k, Receivers, Waiter)
  BY <1>1, WaitersFacts
<1>3. Waits(k, Receivers, Waiter) => pc[Waiter] # "app"
  BY <1>1 DEF Sound, RecvPlaces
<1> QED BY <1>2, <1>3 DEF CompletionInv, CompletionNobodyStranded, CompletionAnswersRequest

LEMMA CompletionStart ==
  ASSUME CompletionAssumption, CompletionInit
  PROVE  CompletionInv
<1>1. CallsAssumption /\ StartOK(CompletionBoot) /\ Started(CompletionBoot)
  BY DEF CompletionAssumption, CompletionInit
<1>2. /\ Sound(k, pc) /\ k.nest = 0 /\ k \in Kernel
      /\ \A t \in Thread : pc[t] = "app" /\ ~Waits(k, Receivers, t) /\ ~Waits(k, Senders, t)
  BY <1>1, StartedSound
<1>3. pc \in [Thread -> CompletionPC]
  BY <1>1 DEF Started, CompletionPC
<1>4. CompletionTypeOK
  BY <1>2, <1>3 DEF CompletionTypeOK, CompletionInit, Error
<1> QED BY <1>2, <1>4 DEF CompletionInv, CompletionInit, CompletionAssumption

(* Every step keeps the invariant: rt_completion_done makes the waiter     *)
(* ready with the flag set, and only the waiter clears it.                 *)
LEMMA CompletionStep ==
  ASSUME CompletionAssumption, CompletionInv, CompletionNext
  PROVE  CompletionInv'
<1>1. /\ CallsAssumption /\ Sound(k, pc) /\ KernelOK(k) /\ DOMAIN pc = Thread /\ k.nest = 0
      /\ Me \in Thread /\ k.err \in [Thread -> Error] /\ pc \in [Thread -> CompletionPC]
      /\ Waiter \in Thread /\ Waiter # Idle
      /\ \A t \in Thread : ~Waits(k, Senders, t) /\ (Waits(k, Receivers, t) => t = Waiter)
  BY CompletionFacts DEF CompletionAssumption
<1>2. First(k, Receivers) = {t \in Thread : Waits(k, Receivers, t)}
  <2>1. First(k, Receivers) \subseteq {t \in Thread : Waits(k, Receivers, t)}
    BY <1>1, WaitersFacts
  <2>2. First(k, Receivers) = {} <=> \A t \in Thread : ~Waits(k, Receivers, t)
    BY <1>1, WaitersFacts
  <2> QED BY <1>1, <2>1, <2>2
<1>3. \A t \in Thread : /\ pc[t] \in {"wait_sched", "wait_error", "wait_clear"} => t = Waiter
  BY DEF CompletionInv
<1>4. /\ status \in BOOLEAN /\ signalled \in BOOLEAN /\ result \in Error
  BY DEF CompletionInv, CompletionTypeOK
<1>5. (Sound(k', pc') /\ pc' \in [Thread -> CompletionPC] /\ status' \in BOOLEAN
        /\ signalled' \in BOOLEAN /\ result' \in Error) => CompletionTypeOK'
  BY SoundFacts, <1>1 DEF CompletionTypeOK
<1>6. CASE CompletionWaitNow
  <2>1. /\ pc[Me] = "app" /\ Me = Waiter /\ status /\ status' = FALSE /\ signalled' = FALSE
        /\ k' = k /\ pc' = pc /\ result' = result
    BY <1>6 DEF CompletionWaitNow, At
  <2>2. ~Waits(k, Receivers, Waiter)
    BY <2>1 DEF CompletionInv
  <2>3. CompletionTypeOK'
    BY <1>1, <1>4, <1>5, <2>1
  <2>4. pc'[Waiter] = "app"
    BY <2>1
  <2> HIDE DEF CompletionInv
  <2> QED BY <1>1, <1>3, <2>1, <2>2, <2>3, <2>4 DEF CompletionInv
<1>7. CASE CompletionWaitBlock
  <2>1. PICK late \in BOOLEAN : k' = Block(k, Receivers, Me, "FIFO", late)
    BY <1>7 DEF CompletionWaitBlock
  <2>2. /\ pc[Me] = "app" /\ Me = Waiter /\ ~status /\ Go("wait_sched")
        /\ status' = status /\ signalled' = signalled /\ result' = result
    BY <1>7 DEF CompletionWaitBlock, At
  <2>3. pc[Me] \notin SchedPlaces /\ "wait_sched" \in SchedPlaces /\ "wait_sched" \in RecvPlaces
    BY <2>2 DEF SchedPlaces, RecvPlaces
  <2>4. /\ Sound(k', pc') /\ DOMAIN pc' = Thread /\ Joins(k, k', Receivers)
        /\ pc'[Me] = "wait_sched" /\ \A t \in Thread \ {Me} : pc'[t] = pc[t]
    BY <1>1, <2>1, <2>2, <2>3, BlockStep, CallFacts
  <2>5. pc' \in [Thread -> CompletionPC]
    BY <1>1, <2>2 DEF Go, CompletionPC
  <2>6. CompletionTypeOK'
    BY <1>4, <1>5, <2>2, <2>4, <2>5
  <2>7. k'.nest = 0 /\ \A t \in Thread : ~Waits(k', Senders, t)
    BY <1>1, <2>4, CallFacts DEF Joins
  <2>8. Waits(k', Receivers, Waiter)
    BY <1>1, <2>2, <2>4, CallFacts DEF Joins, Me
  <2>9. \A t \in Thread : pc'[t] \in {"wait_sched", "wait_error", "wait_clear"} => t = Waiter
    BY <1>3, <2>2, <2>4
  <2>10. status => signalled
    BY DEF CompletionInv
  <2> HIDE DEF CompletionInv
  <2> QED BY <2>2, <2>4, <2>6, <2>7, <2>8, <2>9, <2>10 DEF CompletionInv
<1>8. CASE CompletionWaitSchedule
  <2>1. /\ pc[Me] = "wait_sched" /\ Go("wait_error") /\ k' = Schedule(k)
        /\ status' = status /\ signalled' = signalled /\ result' = result
    BY <1>8 DEF CompletionWaitSchedule, At
  <2>2. "wait_error" \in RecvPlaces /\ pc[Me] \notin SendPlaces
    BY <2>1 DEF RecvPlaces, SendPlaces
  <2>3. /\ Sound(k', pc') /\ DOMAIN pc' = Thread /\ Wakes(k, k', {}) /\ k'.err = k.err
        /\ pc'[Me] = "wait_error" /\ \A t \in Thread \ {Me} : pc'[t] = pc[t]
    BY <1>1, <2>1, <2>2, ScheduleStep
  <2>4. pc' \in [Thread -> CompletionPC]
    BY <1>1, <2>1 DEF Go, CompletionPC
  <2>5. CompletionTypeOK'
    BY <1>4, <1>5, <2>1, <2>3, <2>4
  <2>6. Me = Waiter
    BY <1>1, <1>3, <2>1
  <2>7. k'.nest = 0 /\ \A t \in Thread : ~Waits(k', Senders, t) /\ (Waits(k', Receivers, t) <=> Waits(k, Receivers, t))
    BY <1>1, <2>3 DEF Wakes
  <2> QED BY <1>1, <1>3, <2>1, <2>3, <2>5, <2>6, <2>7 DEF CompletionInv
<1>9. CASE CompletionWaitError
  <2>1. /\ pc[Me] = "wait_error" /\ Go("wait_clear") /\ k' = k /\ result' = k.err[Me]
        /\ status' = status /\ signalled' = signalled
    BY <1>9 DEF CompletionWaitError, At
  <2>2. pc[Me] \notin SchedPlaces
    BY <2>1 DEF SchedPlaces
  <2>3. /\ Sound(k', pc') /\ pc'[Me] = "wait_clear" /\ \A t \in Thread \ {Me} : pc'[t] = pc[t]
        /\ ~Waits(k, Receivers, Me)
    BY <1>1, <2>1, <2>2, GoStep
  <2>4. pc' \in [Thread -> CompletionPC]
    BY <1>1, <2>1 DEF Go, CompletionPC
  <2>5. CompletionTypeOK'
    BY <1>1, <1>4, <1>5, <2>1, <2>3, <2>4
  <2>6. Me = Waiter
    BY <1>1, <1>3, <2>1
  <2> QED BY <1>1, <1>3, <2>1, <2>3, <2>5, <2>6 DEF CompletionInv
<1>10. CASE CompletionWaitClear
  <2>1. /\ pc[Me] = "wait_clear" /\ Go("app") /\ k' = k /\ result' = result
        /\ status' = FALSE /\ signalled' = FALSE
    BY <1>10 DEF CompletionWaitClear, At
  <2>2. pc[Me] \notin SchedPlaces
    BY <2>1 DEF SchedPlaces
  <2>3. /\ Sound(k', pc') /\ pc'[Me] = "app" /\ \A t \in Thread \ {Me} : pc'[t] = pc[t]
    BY <1>1, <2>1, <2>2, GoStep
  <2>4. pc' \in [Thread -> CompletionPC]
    BY <1>1, <2>1 DEF Go, CompletionPC
  <2>5. CompletionTypeOK'
    BY <1>1, <1>4, <1>5, <2>1, <2>3, <2>4
  <2>6. Me = Waiter
    BY <1>1, <1>3, <2>1
  <2> QED BY <1>1, <1>3, <2>1, <2>3, <2>5, <2>6 DEF CompletionInv
<1>11. CASE CompletionDoneTest
  <2>1. /\ pc[Me] = "app" /\ Go("done_set") /\ k' = k /\ result' = result
        /\ status' = status /\ signalled' = signalled
    BY <1>11 DEF CompletionDoneTest, At
  <2>2. pc[Me] \notin SchedPlaces
    BY <2>1 DEF SchedPlaces
  <2>3. /\ Sound(k', pc') /\ pc'[Me] = "done_set" /\ \A t \in Thread \ {Me} : pc'[t] = pc[t]
    BY <1>1, <2>1, <2>2, GoStep
  <2>4. pc' \in [Thread -> CompletionPC]
    BY <1>1, <2>1 DEF Go, CompletionPC
  <2>5. CompletionTypeOK'
    BY <1>1, <1>4, <1>5, <2>1, <2>3, <2>4
  <2> QED BY <1>1, <1>3, <2>1, <2>3, <2>5 DEF CompletionInv
<1>12. CASE CompletionDoneSet
  <2>1. /\ pc[Me] = "done_set" /\ status' = TRUE /\ signalled' = TRUE /\ Wake(Receivers)
        /\ result' = result
    BY <1>12 DEF CompletionDoneSet, At
  <2>2. pc[Me] \notin SchedPlaces
    BY <2>1 DEF SchedPlaces
  <2>3. /\ Sound(k', pc') /\ Wakes(k, k', First(k, Receivers))
        /\ pc'[Me] \in {"app", "call_sched"} /\ \A t \in Thread \ {Me} : pc'[t] = pc[t]
        /\ pc' \in {[pc EXCEPT ![Me] = "app"], [pc EXCEPT ![Me] = "call_sched"]}
    BY <1>1, <2>1, <2>2, WakeStep, CallFacts
  <2>4. pc' \in [Thread -> CompletionPC]
    BY <1>1, <2>3 DEF CompletionPC
  <2>5. CompletionTypeOK'
    BY <1>4, <1>5, <2>1, <2>3, <2>4
  <2>6. k'.nest = 0 /\ \A t \in Thread : ~Waits(k', Senders, t) /\ ~Waits(k', Receivers, t)
    BY <1>1, <1>2, <2>3 DEF Wakes
  <2>7. \A t \in Thread : pc'[t] \in {"wait_sched", "wait_error", "wait_clear"} => t = Waiter
    BY <1>3, <2>3
  <2> HIDE DEF CompletionInv
  <2> QED BY <1>1, <2>1, <2>3, <2>5, <2>6, <2>7 DEF CompletionInv
<1>13. CASE CompletionIsrDone
  <2>1. /\ status' = TRUE /\ signalled' = TRUE /\ k' = ResumeOne(Receivers)
        /\ result' = result /\ pc' = pc
    BY <1>13 DEF CompletionIsrDone
  <2>2. Wakes(k, k', First(k, Receivers)) /\ Sound(k', pc)
    BY <1>1, <2>1, WakesResumeOne, CallFacts
  <2>3. CompletionTypeOK'
    BY <1>1, <1>4, <1>5, <2>1, <2>2
  <2>4. k'.nest = 0 /\ \A t \in Thread : ~Waits(k', Senders, t) /\ ~Waits(k', Receivers, t)
    BY <1>1, <1>2, <2>2 DEF Wakes
  <2> HIDE DEF CompletionInv
  <2> QED BY <1>1, <1>3, <2>1, <2>2, <2>3, <2>4 DEF CompletionInv
<1>14. CASE CompletionReturn
  <2>1. CallSchedule /\ status' = status /\ signalled' = signalled /\ result' = result
    BY <1>14 DEF CompletionReturn
  <2>2. /\ Sound(k', pc') /\ Wakes(k, k', {}) /\ k'.err = k.err
        /\ pc[Me] = "call_sched" /\ pc'[Me] = "app"
        /\ \A t \in Thread \ {Me} : pc'[t] = pc[t]
    BY <1>1, <2>1, ReturnStep
  <2>3. pc' \in [Thread -> CompletionPC]
    BY <1>1, <2>1 DEF CallSchedule, Go, CompletionPC
  <2>4. CompletionTypeOK'
    BY <1>4, <1>5, <2>1, <2>2, <2>3
  <2>5. k'.nest = 0 /\ \A t \in Thread : ~Waits(k', Senders, t) /\ (Waits(k', Receivers, t) <=> Waits(k, Receivers, t))
    BY <1>1, <2>2 DEF Wakes
  <2> QED BY <1>1, <1>3, <2>1, <2>2, <2>4, <2>5 DEF CompletionInv
<1>15. CASE CompletionTick
  <2>1. Tick /\ status' = status /\ signalled' = signalled /\ result' = result
    BY <1>15 DEF CompletionTick
  <2>2. PICK X \in SUBSET Thread :
           /\ Wakes(k, k', X) /\ Sound(k', pc') /\ pc' = pc
           /\ \A t \in X : k'.err[t] = "ETIMEOUT"
           /\ \A t \in Thread \ X : k'.err[t] = k.err[t]
    BY <1>1, <2>1, TickStep
  <2>3. CompletionTypeOK'
    BY <1>1, <1>4, <1>5, <2>1, <2>2
  <2>4. k'.nest = 0 /\ \A t \in Thread : ~Waits(k', Senders, t) /\ (Waits(k', Receivers, t) <=> Waits(k, Receivers, t) /\ t \notin X)
    BY <1>1, <2>2 DEF Wakes
  <2>5. Waiter \notin X \/ k'.err[Waiter] # "EOK"
    BY <2>2
  <2> QED BY <1>1, <1>3, <2>1, <2>2, <2>3, <2>4, <2>5 DEF CompletionInv
<1> QED BY <1>6, <1>7, <1>8, <1>9, <1>10, <1>11, <1>12, <1>13, <1>14, <1>15 DEF CompletionNext

-----------------------------------------------------------------------------
(* The event                                                               *)

EventPlaces == {"recv_sched", "recv_error"}

(* What rt_event_send left in event_set, a, answers the request w. *)
EventAnswer(a, w) ==
  /\ a.bits # {} /\ a.bits \subseteq w.bits
  /\ w.all => a.bits = w.bits

(* Who waits has its request as it made it, who was woken for it has an    *)
(* answer, and keeps it until it has copied it.                            *)
EventHears(u, p, a, w) ==
  \A t \in Thread :
    /\ Waits(u, Receivers, t) => a[t] = w[t]
    /\ p[t] \in EventPlaces /\ ~Waits(u, Receivers, t) /\ u.err[t] = "EOK" => EventAnswer(a[t], w[t])
    /\ p[t] = "recv_copy" => EventAnswer(a[t], w[t]) /\ u.err[t] = "EOK"

EventUnheard(u, s, a) ==
  \A t \in Thread : Waits(u, Receivers, t) => ~EventSatisfied(a[t], s)

EventCalls == Sound(k, pc) /\ Calm(k) /\ k.nest = 0

EventCallers ==
  /\ pc \in [Thread -> EventPC] /\ pc[Idle] \in {"app", "call_sched"}
  /\ set \subseteq Bit
  /\ asked \in [Thread -> EventRequest] /\ wish \in [Thread -> EventRequest]

EventInv ==
  EventCalls /\ EventCallers /\ EventUnheard(k, set, asked) /\ EventHears(k, pc, asked, wish)

LEMMA EventFacts ==
  ASSUME EventAssumption, EventInv
  PROVE  /\ CallsAssumption /\ Sound(k, pc) /\ Calm(k) /\ k.nest = 0 /\ KernelOK(k)
         /\ DOMAIN pc = Thread /\ pc \in [Thread -> EventPC] /\ Me \in Thread /\ Idle \in Thread
         /\ pc[Idle] \in {"app", "call_sched"} /\ k.err \in [Thread -> Error]
         /\ set \subseteq Bit
         /\ asked \in [Thread -> EventRequest] /\ wish \in [Thread -> EventRequest]
<1>1. CallsAssumption /\ Sound(k, pc) /\ pc \in [Thread -> EventPC]
  BY DEF EventAssumption, EventInv, EventCalls, EventCallers
<1>2. KernelOK(k) /\ Me \in Thread /\ k.err \in [Thread -> Error]
  BY <1>1, SoundFacts DEF Me
<1>3. Idle \in Thread
  BY <1>1, CallFacts
<1> QED BY <1>1, <1>2, <1>3 DEF EventInv, EventCalls, EventCallers

LEMMA EventHolds ==
  ASSUME EventAssumption, EventInv
  PROVE  EventNoSatisfiedWaiter /\ EventAnswersRequest
<1>1. EventNoSatisfiedWaiter
  BY DEF EventNoSatisfiedWaiter, EventWaiting, Waiters, Waits, EventInv, EventUnheard
<1>2. EventAnswersRequest
  BY DEF EventAnswersRequest, EventInv, EventHears, EventAnswer
<1> QED BY <1>1, <1>2

-----------------------------------------------------------------------------
(* Requests *)

LEMMA EventFewer ==
  ASSUME NEW r, NEW s, NEW z, z \subseteq s, ~EventSatisfied(r, s)
  PROVE  ~EventSatisfied(r, z)
BY DEF EventSatisfied

(* The request r, answered with the bits s *)
EventAnswered(r, s) == [r EXCEPT !.bits = @ \cap s]

LEMMA EventIsAnswer ==
  ASSUME NEW s \in SUBSET Bit, NEW r \in EventRequest, EventSatisfied(r, s),
         NEW a, a = EventAnswered(r, s)
  PROVE  /\ a \in EventRequest /\ EventAnswer(a, r)
         /\ a.bits \subseteq s /\ a.clear = r.clear /\ r.clear \in BOOLEAN
<1>1. r.bits \subseteq Bit /\ r.bits # {} /\ r.all \in BOOLEAN /\ r.clear \in BOOLEAN
  BY DEF EventRequest, EventBitSet
<1>2. a = [r EXCEPT !.bits = r.bits \cap s]
  BY DEF EventAnswered
<1>3. a.bits = r.bits \cap s /\ a.all = r.all /\ a.clear = r.clear
  BY <1>2 DEF EventRequest
<1>4. r.bits \cap s # {} /\ (r.all => r.bits \cap s = r.bits)
  BY <1>1 DEF EventSatisfied
<1>5. r.bits \cap s \in EventBitSet
  BY <1>1, <1>4 DEF EventBitSet
<1>6. a \in EventRequest
  BY <1>2, <1>5 DEF EventRequest
<1> QED BY <1>1, <1>3, <1>4, <1>6 DEF EventAnswer

-----------------------------------------------------------------------------
(* The loop of rt_event_send *)

LEMMA WakesResume ==
  ASSUME CallsAssumption, NEW u, NEW p, Sound(u, p), NEW q \in {Receivers, Senders},
         NEW x \in Thread, Waits(u, q, x), NEW w, w = Resume(u, x)
  PROVE  Wakes(u, w, {x}) /\ Sound(w, p) /\ w.cur = u.cur /\ w.err = u.err
<1>1. KernelOK(u) /\ u.stat[x] = "SUSPEND" /\ u.stat \in [Thread -> Stat]
  BY SoundFacts DEF Sound
<1>2. /\ KernelOK(w)
      /\ w.stat = Put(u.stat, x, "READY")
      /\ w.cur = u.cur /\ w.nest = u.nest /\ w.err = u.err
      /\ \A o \in WaitQueue, t \in Thread :
           IsIn(w.lists[Wait(o)], t) <=> IsIn(u.lists[Wait(o)], t) /\ t # x
  BY <1>1, ResumeProperties
<1>3. w.stat[x] = "READY" /\ \A t \in Thread \ {x} : w.stat[t] = u.stat[t]
  BY <1>1, <1>2 DEF Put
<1>4. Wakes(u, w, {x})
  BY <1>1, <1>2, <1>3, CallFacts DEF Wakes, Waits
<1>5. Sound(w, p)
  BY <1>4, SoundWakes
<1> QED BY <1>2, <1>4, <1>5

(* The state of the loop, which starts from kernel u, bits s and requests a *)
EventLoopStates(p) ==
  {st \in [j : Kernel, s : SUBSET Bit, q : [Thread -> EventRequest]] : Sound(st.j, p)}

EventLoop(base, p, f) ==
  /\ f[0] = base
  /\ \A i \in 1 .. Len(Waiters(base.j, Receivers)) :
       f[i - 1] \in EventLoopStates(p)
         /\ Waits(f[i - 1].j, Receivers, Waiters(base.j, Receivers)[i])
         => f[i] = EventVisit(f[i - 1], Waiters(base.j, Receivers)[i])

(* Who has been woken, has an answer; *)
EventGone(base, st) == Gone(base.j, st.j, Receivers)

EventGiven(base, st) ==
  \A t \in Thread :
    IF t \in EventGone(base, st)
    THEN /\ EventAnswer(st.q[t], base.q[t]) /\ st.q[t].clear = base.q[t].clear
         /\ st.q[t].clear => st.q[t].bits \cap st.s = {}
    ELSE st.q[t] = base.q[t]

(* no two that clear have a bit in common; *)
EventDealt(base, st) ==
  \A t, x \in EventGone(base, st) :
    t # x /\ st.q[t].clear /\ st.q[x].clear => st.q[t].bits \cap st.q[x].bits = {}

(* and the first i waiters have been looked at, the others still wait.     *)
EventSeen(base, i, st) ==
  \A l \in 1 .. Len(Waiters(base.j, Receivers)) :
    LET t == Waiters(base.j, Receivers)[l]
    IN  IF l <= i
        THEN Waits(st.j, Receivers, t) => ~EventSatisfied(base.q[t], st.s)
        ELSE Waits(st.j, Receivers, t)

EventTurn(base, p, i, st) ==
  /\ st \in EventLoopStates(p) /\ st.j.err = base.j.err /\ st.j.cur = base.j.cur
  /\ Wakes(base.j, st.j, EventGone(base, st))
  /\ EventGiven(base, st) /\ EventDealt(base, st) /\ EventSeen(base, i, st)

(* What a turn of the loop does for t, with request r, from st to z        *)
EventVisited(p, st, t, r, z) ==
  /\ z \in EventLoopStates(p)
  /\ ~EventSatisfied(r, st.s) => z = st
  /\ EventSatisfied(r, st.s) =>
       /\ Wakes(st.j, z.j, {t}) /\ z.j.err = st.j.err /\ z.j.cur = st.j.cur
       /\ z.q[t] \in EventRequest /\ EventAnswer(z.q[t], r)
       /\ z.q[t].bits \subseteq st.s /\ z.q[t].clear = r.clear
       /\ \A x \in Thread \ {t} : z.q[x] = st.q[x]
       /\ z.s \subseteq st.s /\ (z.q[t].clear => z.q[t].bits \cap z.s = {})

LEMMA EventVisitIs ==
  ASSUME CallsAssumption, NEW p, NEW st \in EventLoopStates(p), NEW t \in Thread,
         Waits(st.j, Receivers, t), NEW z, z = EventVisit(st, t),
         NEW r, r = st.q[t]
  PROVE  EventVisited(p, st, t, r, z)
<1>1. /\ Sound(st.j, p) /\ st.j \in Kernel /\ st.s \in SUBSET Bit
      /\ st.q \in [Thread -> EventRequest] /\ st.q[t] \in EventRequest
  BY DEF EventLoopStates
<1>2. CASE ~EventSatisfied(st.q[t], st.s)
  BY <1>2 DEF EventVisit, EventVisited
<1>3. CASE EventSatisfied(st.q[t], st.s)
  <2> DEFINE a == EventAnswered(st.q[t], st.s)
             w == Resume(st.j, t)
             c == IF a.clear THEN st.s \ a.bits ELSE st.s
             b == [st.q EXCEPT ![t] = a]
  <2>1. z = [j |-> w, s |-> c, q |-> b]
    BY <1>3 DEF EventVisit, EventAnswered
  <2>1a. a = EventAnswered(st.q[t], st.s)
    OBVIOUS
  <2> HIDE DEF a
  <2>2. /\ a \in EventRequest /\ EventAnswer(a, st.q[t])
        /\ a.bits \subseteq st.s /\ a.clear = st.q[t].clear /\ a.clear \in BOOLEAN
    <3> DEFINE y == st.q[t]  e == st.s
    <3>1. a = EventAnswered(y, e) /\ y \in EventRequest /\ e \in SUBSET Bit /\ EventSatisfied(y, e)
      BY <1>1, <1>3, <2>1a
    <3> HIDE DEF y, e
    <3>2. /\ a \in EventRequest /\ EventAnswer(a, y)
          /\ a.bits \subseteq e /\ a.clear = y.clear /\ y.clear \in BOOLEAN
      BY <3>1, EventIsAnswer
    <3> QED BY <3>2 DEF y, e
  <2>3. Wakes(st.j, w, {t}) /\ Sound(w, p) /\ w.err = st.j.err /\ w.cur = st.j.cur
    BY <1>1, WakesResume
  <2>4. w \in Kernel
    BY <2>3, SoundFacts
  <2>5. /\ b \in [Thread -> EventRequest] /\ b[t] = a
        /\ \A x \in Thread \ {t} : b[x] = st.q[x]
    BY <1>1, <2>2
  <2>6. c \in SUBSET Bit /\ c \subseteq st.s /\ (a.clear => a.bits \cap c = {})
    BY <1>1, <2>2
  <2> HIDE DEF w, b, c
  <2>7. z.j = w /\ z.s = c /\ z.q = b
    BY <2>1
  <2>8. z \in EventLoopStates(p)
    BY <2>1, <2>3, <2>4, <2>5, <2>6 DEF EventLoopStates
  <2> QED BY <1>3, <2>2, <2>3, <2>5, <2>6, <2>7, <2>8 DEF EventVisited
<1> QED BY <1>2, <1>3

LEMMA EventTurnNext ==
  ASSUME CallsAssumption, NEW p, NEW base \in EventLoopStates(p), NEW i \in Nat,
         NEW n, n = Len(Waiters(base.j, Receivers)), i + 1 <= n,
         NEW st, EventTurn(base, p, i, st),
         NEW t, t = Waiters(base.j, Receivers)[i + 1], NEW z, z = EventVisit(st, t)
  PROVE  EventTurn(base, p, i + 1, z)
<1> DEFINE W == Waiters(base.j, Receivers)
           G == EventGone(base, st)
           H == EventGone(base, z)
<1>1. /\ KernelOK(base.j) /\ base.j \in Kernel /\ base.s \in SUBSET Bit
      /\ base.q \in [Thread -> EventRequest] /\ Sound(base.j, p)
  BY SoundFacts DEF EventLoopStates
<1>2. /\ W \in Seq(Thread) /\ n = Len(W) /\ n \in Nat
      /\ \A l, m \in 1 .. n : W[l] = W[m] => l = m
      /\ \A l \in 1 .. n : W[l] \in Thread /\ Waits(base.j, Receivers, W[l])
  <2>1. W \in Seq(Thread) /\ n = Len(W)
    BY <1>1, WaitersFacts
  <2>2. \A l, m \in DOMAIN W : W[l] = W[m] => l = m
    BY <1>1, CallFacts DEF KernelOK, OneList, Waiters
  <2>3. \A l \in DOMAIN W : Waits(base.j, Receivers, W[l])
    BY DEF Waits, Waiters, IsIn
  <2> HIDE DEF W
  <2>4. DOMAIN W = 1 .. n /\ n \in Nat /\ \A l \in 1 .. n : W[l] \in Thread
    BY <2>1
  <2> QED BY <2>1, <2>2, <2>3, <2>4
<1>3. i + 1 \in 1 .. n /\ t = W[i + 1]
  BY <1>2
<1>4. t \in Thread /\ Waits(base.j, Receivers, t)
  BY <1>2, <1>3
<1>5. /\ st \in EventLoopStates(p) /\ st.j.err = base.j.err /\ st.j.cur = base.j.cur
      /\ Wakes(base.j, st.j, G)
      /\ EventGiven(base, st) /\ EventDealt(base, st)
      /\ st.q \in [Thread -> EventRequest] /\ st.s \in SUBSET Bit
  BY DEF EventTurn, EventLoopStates
<1>6. \A l \in 1 .. n :
        IF l <= i
        THEN Waits(st.j, Receivers, W[l]) => ~EventSatisfied(base.q[W[l]], st.s)
        ELSE Waits(st.j, Receivers, W[l])
  BY DEF EventTurn, EventSeen
<1> HIDE DEF W
<1>7. Waits(st.j, Receivers, t)
  BY <1>2, <1>3, <1>6
<1>8. t \notin G
  BY <1>7 DEF EventGone, Gone
<1>9. st.q[t] = base.q[t]
  BY <1>4, <1>5, <1>8 DEF EventGiven
<1>10. /\ z \in EventLoopStates(p)
       /\ ~EventSatisfied(base.q[t], st.s) => z = st
       /\ EventSatisfied(base.q[t], st.s) =>
            /\ Wakes(st.j, z.j, {t}) /\ z.j.err = st.j.err /\ z.j.cur = st.j.cur
            /\ z.q[t] \in EventRequest /\ EventAnswer(z.q[t], base.q[t])
            /\ z.q[t].bits \subseteq st.s /\ z.q[t].clear = base.q[t].clear
            /\ \A x \in Thread \ {t} : z.q[x] = st.q[x]
            /\ z.s \subseteq st.s /\ (z.q[t].clear => z.q[t].bits \cap z.s = {})
  <2> DEFINE r == base.q[t]
  <2>1. r = st.q[t] /\ st \in EventLoopStates(p) /\ t \in Thread /\ Waits(st.j, Receivers, t)
    BY <1>4, <1>5, <1>7, <1>9
  <2> HIDE DEF r, EventLoopStates
  <2>2. EventVisited(p, st, t, r, z)
    BY <2>1, EventVisitIs
  <2> QED BY <2>2 DEF EventVisited, r
<1>11. ASSUME EventSeen(base, i + 1, z), z.j.err = base.j.err, z.j.cur = base.j.cur,
              Wakes(base.j, z.j, EventGone(base, z)), EventGiven(base, z), EventDealt(base, z)
       PROVE  EventTurn(base, p, i + 1, z)
  BY <1>10, <1>11 DEF EventTurn
<1>12. ASSUME \A l \in 1 .. n :
                IF l <= i + 1
                THEN Waits(z.j, Receivers, W[l]) => ~EventSatisfied(base.q[W[l]], z.s)
                ELSE Waits(z.j, Receivers, W[l])
       PROVE  EventSeen(base, i + 1, z)
  BY <1>2, <1>12 DEF EventSeen, W
<1>13. CASE ~EventSatisfied(base.q[t], st.s)
  <2>1. z = st
    BY <1>10, <1>13
  <2>2. \A l \in 1 .. n :
          IF l <= i + 1
          THEN Waits(z.j, Receivers, W[l]) => ~EventSatisfied(base.q[W[l]], z.s)
          ELSE Waits(z.j, Receivers, W[l])
    <3> TAKE l \in 1 .. n
    <3>1. CASE l <= i + 1 /\ l # i + 1
      <4>1. l <= i
        BY <1>2, <3>1
      <4> QED BY <1>6, <2>1, <3>1, <4>1
    <3>2. CASE l = i + 1
      BY <1>2, <1>3, <1>13, <2>1, <3>2
    <3>3. CASE ~(l <= i + 1)
      <4>1. ~(l <= i)
        BY <1>2, <3>3
      <4> QED BY <1>6, <2>1, <3>3, <4>1
    <3> QED BY <3>1, <3>2, <3>3
  <2>3. EventSeen(base, i + 1, z)
    BY <1>12, <2>2
  <2> QED BY <1>5, <1>11, <2>1, <2>3
<1>14. CASE EventSatisfied(base.q[t], st.s)
  <2>1. /\ Wakes(st.j, z.j, {t}) /\ z.j.err = st.j.err /\ z.j.cur = st.j.cur
        /\ z.q[t] \in EventRequest /\ EventAnswer(z.q[t], base.q[t])
        /\ z.q[t].bits \subseteq st.s /\ z.q[t].clear = base.q[t].clear
        /\ \A x \in Thread \ {t} : z.q[x] = st.q[x]
        /\ z.s \subseteq st.s /\ (z.q[t].clear => z.q[t].bits \cap z.s = {})
    BY <1>10, <1>14
  <2>2. \A x \in Thread : Waits(z.j, Receivers, x) <=> Waits(st.j, Receivers, x) /\ x # t
    BY <2>1 DEF Wakes
  <2>3. H = G \cup {t}
    <3>1. \A x \in Thread : x \in H <=> x \in G \/ x = t
      BY <1>4, <2>2 DEF EventGone, Gone
    <3>2. H \subseteq Thread /\ G \subseteq Thread
      BY DEF EventGone, Gone
    <3> HIDE DEF G, H
    <3> QED BY <1>4, <3>1, <3>2
  <2>4. Wakes(base.j, z.j, H)
    <3>1. Wakes(base.j, st.j, G) /\ Wakes(st.j, z.j, {t})
      BY <1>5, <2>1
    <3> HIDE DEF G, H
    <3>2. Wakes(base.j, z.j, G \cup {t})
      BY <3>1, WakesTwice
    <3> QED BY <2>3, <3>2
  <2>5. G \subseteq Thread /\ H \subseteq Thread
    BY DEF EventGone, Gone
  <2>6. \A x \in Thread :
          IF x \in G
          THEN /\ EventAnswer(st.q[x], base.q[x]) /\ st.q[x].clear = base.q[x].clear
               /\ st.q[x].clear => st.q[x].bits \cap st.s = {}
          ELSE st.q[x] = base.q[x]
    BY <1>5 DEF EventGiven
  <2>7. \A x, y \in G : x # y /\ st.q[x].clear /\ st.q[y].clear => st.q[x].bits \cap st.q[y].bits = {}
    BY <1>5 DEF EventDealt
  <2>8. EventGiven(base, z)
    <3>1. ASSUME NEW x \in Thread
          PROVE  IF x \in H
                 THEN /\ EventAnswer(z.q[x], base.q[x]) /\ z.q[x].clear = base.q[x].clear
                      /\ z.q[x].clear => z.q[x].bits \cap z.s = {}
                 ELSE z.q[x] = base.q[x]
      <4> HIDE DEF G, H
      <4>1. CASE x = t
        BY <2>1, <2>3, <4>1
      <4>2. CASE x # t
        <5>1. z.q[x] = st.q[x] /\ (x \in H <=> x \in G)
          BY <2>1, <2>3, <4>2
        <5> QED BY <2>1, <2>6, <5>1
      <4> QED BY <4>1, <4>2
    <3> QED BY <3>1 DEF EventGiven
  <2>9. EventDealt(base, z)
    <3>1. ASSUME NEW x \in H, NEW y \in H, x # y, z.q[x].clear, z.q[y].clear
          PROVE  z.q[x].bits \cap z.q[y].bits = {}
      <4> HIDE DEF G, H
      <4>1. CASE x # t /\ y # t
        <5>1. x \in G /\ y \in G /\ z.q[x] = st.q[x] /\ z.q[y] = st.q[y]
          BY <2>1, <2>3, <2>5, <4>1
        <5> QED BY <2>7, <3>1, <5>1
      <4>2. CASE x = t
        <5>1. y \in G /\ y \in Thread /\ z.q[y] = st.q[y]
          BY <2>1, <2>3, <2>5, <3>1, <4>2
        <5>2. st.q[y].bits \cap st.s = {}
          BY <2>6, <3>1, <5>1
        <5> QED BY <2>1, <4>2, <5>1, <5>2
      <4>3. CASE y = t
        <5>1. x \in G /\ x \in Thread /\ z.q[x] = st.q[x]
          BY <2>1, <2>3, <2>5, <3>1, <4>3
        <5>2. st.q[x].bits \cap st.s = {}
          BY <2>6, <3>1, <5>1
        <5> QED BY <2>1, <4>3, <5>1, <5>2
      <4> QED BY <4>1, <4>2, <4>3
    <3> QED BY <3>1 DEF EventDealt
  <2>10. \A l \in 1 .. n :
          IF l <= i + 1
          THEN Waits(z.j, Receivers, W[l]) => ~EventSatisfied(base.q[W[l]], z.s)
          ELSE Waits(z.j, Receivers, W[l])
    <3> TAKE l \in 1 .. n
    <3>0. W[l] \in Thread
      BY <1>2
    <3>1. CASE l <= i + 1 /\ l # i + 1
      <4>1. l <= i
        BY <1>2, <3>1
      <4>2. Waits(z.j, Receivers, W[l]) => Waits(st.j, Receivers, W[l])
        BY <2>2, <3>0
      <4>3. Waits(z.j, Receivers, W[l]) => ~EventSatisfied(base.q[W[l]], st.s)
        BY <1>6, <4>1, <4>2
      <4>4. Waits(z.j, Receivers, W[l]) => ~EventSatisfied(base.q[W[l]], z.s)
        BY <2>1, <4>3, EventFewer
      <4> QED BY <3>1, <4>4
    <3>2. CASE l = i + 1
      <4>1. ~Waits(z.j, Receivers, W[l])
        BY <1>3, <1>4, <2>2, <3>2
      <4> QED BY <1>2, <3>2, <4>1
    <3>3. CASE ~(l <= i + 1)
      <4>1. ~(l <= i) /\ l # i + 1
        BY <1>2, <3>3
      <4>2. W[l] # t
        BY <1>2, <1>3, <4>1
      <4> QED BY <1>6, <2>2, <3>0, <3>3, <4>1, <4>2
    <3> QED BY <3>1, <3>2, <3>3
  <2>11. EventSeen(base, i + 1, z)
    BY <1>12, <2>10
  <2> QED BY <1>5, <1>11, <2>1, <2>4, <2>8, <2>9, <2>11
<1> QED BY <1>13, <1>14

LEMMA EventTurns ==
  ASSUME CallsAssumption, NEW p, NEW base \in EventLoopStates(p),
         NEW f, EventLoop(base, p, f)
  PROVE  \A i \in 0 .. Len(Waiters(base.j, Receivers)) : EventTurn(base, p, i, f[i])
<1> DEFINE n == Len(Waiters(base.j, Receivers))
           T == {i \in Nat : i <= n => EventTurn(base, p, i, f[i])}
<1>1. KernelOK(base.j) /\ base.j \in Kernel /\ Sound(base.j, p) /\ base.q \in [Thread -> EventRequest]
  BY SoundFacts DEF EventLoopStates
<1>2. n \in Nat /\ n = Len(Waiters(base.j, Receivers))
  BY <1>1, WaitersFacts
<1>3. \A l \in 1 .. n : Waits(base.j, Receivers, Waiters(base.j, Receivers)[l])
  <2>1. Waiters(base.j, Receivers) \in Seq(Thread)
    BY <1>1, WaitersFacts
  <2>2. \A l \in DOMAIN Waiters(base.j, Receivers) :
          Waits(base.j, Receivers, Waiters(base.j, Receivers)[l])
    BY DEF Waits, Waiters, IsIn
  <2> QED BY <1>2, <2>1, <2>2
<1> HIDE DEF n
<1>4. 0 \in T
  <2>1. EventGone(base, base) = {}
    BY DEF EventGone, Gone
  <2>2. Wakes(base.j, base.j, {})
    BY <1>1, WakesNobody
  <2>3. EventGiven(base, base) /\ EventDealt(base, base)
    BY <2>1 DEF EventGiven, EventDealt
  <2>4. EventSeen(base, 0, base)
    <3>1. \A l \in 1 .. n : ~(l <= 0)
      BY <1>2
    <3> QED BY <1>2, <1>3, <3>1 DEF EventSeen
  <2>5. EventTurn(base, p, 0, base)
    BY <2>1, <2>2, <2>3, <2>4 DEF EventTurn
  <2>6. f[0] = base
    BY DEF EventLoop
  <2> QED BY <2>5, <2>6
<1>5. ASSUME NEW i \in Nat, i \in T PROVE i + 1 \in T
  <2>1. SUFFICES ASSUME i + 1 <= n PROVE EventTurn(base, p, i + 1, f[i + 1])
    OBVIOUS
  <2> DEFINE st == f[i]  z == f[i + 1]  t == Waiters(base.j, Receivers)[i + 1]
  <2>2. EventTurn(base, p, i, st)
    BY <1>2, <1>5, <2>1
  <2>3. i + 1 \in 1 .. n /\ (i + 1) - 1 = i /\ ~(i + 1 <= i)
    BY <1>2, <2>1
  <2>4. Waits(st.j, Receivers, t) /\ st \in EventLoopStates(p)
    BY <1>2, <2>2, <2>3 DEF EventTurn, EventSeen
  <2>5. z = EventVisit(st, t)
    BY <1>2, <2>3, <2>4 DEF EventLoop
  <2>6. t = Waiters(base.j, Receivers)[i + 1]
    OBVIOUS
  <2> HIDE DEF st, z, t
  <2>7. EventTurn(base, p, i + 1, z)
    BY <1>2, <2>1, <2>2, <2>5, <2>6, EventTurnNext
  <2> QED BY <2>7 DEF z
<1>6. Nat \subseteq T
  <2> HIDE DEF T
  <2> QED BY <1>4, <1>5, Induct
<1> QED BY <1>2, <1>6

LEMMA EventSent ==
  ASSUME CallsAssumption, NEW p, NEW bits,
         NEW base \in EventLoopStates(p), base = [j |-> k, s |-> set \cup bits, q |-> asked],
         NEW m, m = Len(Waiters(k, Receivers))
  PROVE  EventTurn(base, p, m, EventAfterSend(bits))
<1> DEFINE n == Len(Waiters(k, Receivers))
           W == Waiters(k, Receivers)
           S == EventLoopStates(p)
           step == [z \in Nat \X S |->
                      IF z[1] \in 1 .. n /\ Waits(z[2].j, Receivers, W[z[1]])
                      THEN EventVisit(z[2], W[z[1]]) ELSE z[2]]
           After(f) == f = [i \in 0 .. n |->
                              IF i = 0 THEN [j |-> k, s |-> set \cup bits, q |-> asked]
                              ELSE EventVisit(f[i - 1], Waiters(k, Receivers)[i])]
<1>1. base.j = k /\ base \in S
  OBVIOUS
<1>2. KernelOK(k) /\ Sound(base.j, p)
  BY <1>1, SoundFacts DEF EventLoopStates
<1>3. n \in Nat /\ W \in Seq(Thread) /\ n = m /\ \A i \in 1 .. n : W[i] \in Thread
  BY <1>2, WaitersFacts
<1>4. \A y \in S, i \in Nat : step[<<i, y>>] \in S
  <2> TAKE y \in S, i \in Nat
  <2>1. CASE i \in 1 .. n /\ Waits(y.j, Receivers, W[i])
    <3> DEFINE t == W[i]  z == EventVisit(y, t)  r == y.q[t]
    <3>1. t \in Thread /\ Waits(y.j, Receivers, t) /\ y \in EventLoopStates(p)
      BY <1>3, <2>1
    <3>2. step[<<i, y>>] = z
      BY <2>1
    <3>3. z = EventVisit(y, t) /\ r = y.q[t]
      OBVIOUS
    <3> HIDE DEF t, z, r, step
    <3>4. EventVisited(p, y, t, r, z)
      BY <3>1, <3>3, EventVisitIs
    <3> QED BY <3>2, <3>4 DEF EventVisited
  <2>2. CASE ~(i \in 1 .. n /\ Waits(y.j, Receivers, W[i]))
    BY <2>2
  <2> QED BY <2>1, <2>2
<1>5. \A y \in S, i \in 1 .. n : Waits(y.j, Receivers, W[i]) => step[<<i, y>>] = EventVisit(y, W[i])
  BY <1>3
<1>6. n = Len(Waiters(base.j, Receivers)) /\ W = Waiters(base.j, Receivers)
  BY <1>1
<1>7. S = EventLoopStates(p)
  OBVIOUS
<1>7a. W = Waiters(k, Receivers)
  OBVIOUS
<1> HIDE DEF n, W, S, step
<1>8. PICK g : Iteration(S, base, step, n, g)
  <2>1. base \in S
    BY <1>1
  <2>2. n \in Nat
    BY <1>3
  <2>3. \A y \in S, i \in Nat : step[<<i, y>>] \in S
    BY <1>4
  <2> QED BY <2>1, <2>2, <2>3, Iterated
<1>9. EventLoop(base, p, g)
  <2>1. g[0] = base
    BY <1>8 DEF Iteration
  <2>2. ASSUME NEW i \in 1 .. n, g[i - 1] \in S, Waits(g[i - 1].j, Receivers, W[i])
        PROVE  g[i] = EventVisit(g[i - 1], W[i])
    <3>1. i \in 0 .. n /\ i # 0
      BY <1>3
    <3>2. g[i] = step[<<i, g[i - 1]>>]
      BY <1>8, <3>1 DEF Iteration
    <3> QED BY <1>5, <2>2, <3>2
  <2> QED BY <1>6, <1>7, <2>1, <2>2 DEF EventLoop
<1>10. \A i \in 0 .. n : EventTurn(base, p, i, g[i])
  <2>1. base \in EventLoopStates(p)
    OBVIOUS
  <2>2. \A i \in 0 .. Len(Waiters(base.j, Receivers)) : EventTurn(base, p, i, g[i])
    BY <1>9, <2>1, EventTurns
  <2> QED BY <1>6, <2>2
<1>11. After(g)
  <2>1. ASSUME NEW i \in 1 .. n PROVE g[i] = EventVisit(g[i - 1], W[i])
    <3>1. i - 1 \in 0 .. n /\ ~(i <= i - 1)
      BY <1>3
    <3>2. EventTurn(base, p, i - 1, g[i - 1])
      BY <1>10, <3>1
    <3>3. g[i - 1] \in EventLoopStates(p) /\ Waits(g[i - 1].j, Receivers, W[i])
      BY <1>6, <3>1, <3>2 DEF EventTurn, EventSeen
    <3> QED BY <1>6, <1>9, <3>3 DEF EventLoop
  <2>2. g[0] = [j |-> k, s |-> set \cup bits, q |-> asked]
    BY <1>9 DEF EventLoop
  <2> DEFINE h == [i \in 0 .. n |-> IF i = 0 THEN [j |-> k, s |-> set \cup bits, q |-> asked]
                                    ELSE EventVisit(g[i - 1], Waiters(k, Receivers)[i])]
  <2>3. DOMAIN h = 0 .. n /\ \A i \in 0 .. n : h[i] = g[i]
    <3>1. \A i \in 0 .. n : i = 0 \/ i \in 1 .. n
      BY <1>3
    <3> QED BY <1>7a, <2>1, <2>2, <3>1
  <2>4. g = [i \in 0 .. n |-> g[i]]
    BY <1>8 DEF Iteration
  <2>5. h = [i \in 0 .. n |-> h[i]]
    OBVIOUS
  <2> HIDE DEF h
  <2>6. g = h
    BY <2>3, <2>4, <2>5
  <2> QED BY <2>6 DEF h
<1> DEFINE f == CHOOSE h : After(h)
<1>12. After(f)
  <2> HIDE DEF After
  <2> QED BY <1>11
<1>13. EventAfterSend(bits) = f[n]
  BY DEF EventAfterSend, n
<1> HIDE DEF f
<1>14. f[0] = base /\ \A i \in 1 .. n : f[i] = EventVisit(f[i - 1], W[i])
  <2>1. f = [i \in 0 .. n |-> IF i = 0 THEN base ELSE EventVisit(f[i - 1], W[i])]
    BY <1>7a, <1>12
  <2> HIDE DEF After
  <2>2. 0 \in 0 .. n /\ \A i \in 1 .. n : i \in 0 .. n /\ i # 0
    BY <1>3
  <2>3. \A i \in 0 .. n : f[i] = IF i = 0 THEN base ELSE EventVisit(f[i - 1], W[i])
    BY <2>1
  <2> QED BY <2>2, <2>3
<1> HIDE DEF After
<1>15. EventLoop(base, p, f)
  BY <1>6, <1>14 DEF EventLoop
<1>16. base \in EventLoopStates(p)
  OBVIOUS
<1>17. \A i \in 0 .. Len(Waiters(base.j, Receivers)) : EventTurn(base, p, i, f[i])
  BY <1>15, <1>16, EventTurns
<1>18. n \in 0 .. n
  BY <1>3
<1> QED BY <1>3, <1>6, <1>13, <1>17, <1>18

(* The bits a send has given to receivers that clear them                  *)
EventClears(u, w, a, b, z) ==
  LET Cleared(t) == Waits(u, Receivers, t) /\ ~Waits(w, Receivers, t) /\ w.err[t] = "EOK" /\ a[t].clear
  IN  \A t \in Thread :
        Cleared(t) => /\ b[t].bits \cap z = {}
                      /\ \A x \in Thread : Cleared(x) /\ t # x => b[t].bits \cap b[x].bits = {}

LEMMA EventClearsIs ==
  ASSUME EventClears(k, k', asked, asked', set')
  PROVE  EventClearsOnce
BY DEF EventClearsOnce, EventClears, EventWaiting, Waiters, Waits

(* Whoever is in the call after a step from p to r, was in it before.      *)
EventComes(u, p, r) ==
  \A t \in Thread :
    /\ r[t] \in EventPlaces => p[t] \in EventPlaces
    /\ r[t] = "recv_copy" =>
         p[t] = "recv_copy" \/ (p[t] \in EventPlaces /\ u.err[t] = "EOK" /\ ~Waits(u, Receivers, t))

LEMMA EventSendKept ==
  ASSUME CallsAssumption, NEW p, NEW r, NEW base, base.j = k, base.q = asked,
         NEW n, n = Len(Waiters(k, Receivers)), NEW st, EventTurn(base, r, n, st),
         Sound(k, p), Calm(k), EventHears(k, p, asked, wish), EventComes(k, p, r),
         NEW w, Wakes(st.j, w, {}), w.err = st.j.err
  PROVE  /\ Sound(w, r) /\ Calm(w) /\ w.nest = k.nest
         /\ st.s \in SUBSET Bit /\ st.q \in [Thread -> EventRequest]
         /\ EventUnheard(w, st.s, st.q) /\ EventHears(w, r, st.q, wish)
         /\ EventClears(k, w, asked, st.q, st.s)
<1> DEFINE G == EventGone(base, st)
           W == Waiters(k, Receivers)
<1>1. base.j = k /\ base.q = asked /\ G = Gone(k, st.j, Receivers)
  BY DEF EventGone
<1>2. /\ st \in EventLoopStates(r) /\ st.j.err = k.err
      /\ Wakes(k, st.j, G) /\ EventGiven(base, st) /\ EventDealt(base, st)
      /\ EventSeen(base, Len(W), st)
  BY <1>1 DEF EventTurn
<1>3. Sound(st.j, r) /\ st.s \in SUBSET Bit /\ st.q \in [Thread -> EventRequest]
  BY <1>2 DEF EventLoopStates
<1>4. Sound(w, r)
  BY <1>3, SoundWakes
<1>5. \A q \in {Receivers, Senders}, t \in Thread : Waits(w, q, t) <=> Waits(st.j, q, t)
  BY DEF Wakes
<1>6. \A q \in {Receivers, Senders}, t \in Thread : Waits(w, q, t) => Waits(k, q, t) /\ t \notin G
  BY <1>2, <1>5 DEF Wakes
<1>7. \A t \in Thread : t \in G <=> Waits(k, Receivers, t) /\ ~Waits(w, Receivers, t)
  BY <1>1, <1>5 DEF Gone
<1> HIDE DEF G
<1>8. Calm(w)
  BY <1>2, <1>6 DEF Calm
<1>9. w.nest = k.nest
  BY <1>2 DEF Wakes
<1>10. \A t \in Thread :
         IF t \in G
         THEN /\ EventAnswer(st.q[t], asked[t]) /\ st.q[t].clear = asked[t].clear
              /\ st.q[t].clear => st.q[t].bits \cap st.s = {}
         ELSE st.q[t] = asked[t]
  BY <1>1, <1>2 DEF EventGiven, G
<1>11. EventUnheard(w, st.s, st.q)
  <2>1. SUFFICES ASSUME NEW t \in Thread, Waits(w, Receivers, t)
                 PROVE  ~EventSatisfied(st.q[t], st.s)
    BY DEF EventUnheard
  <2>2. Waits(k, Receivers, t) /\ Waits(st.j, Receivers, t) /\ st.q[t] = asked[t]
    BY <1>5, <1>6, <1>10, <2>1
  <2>3. PICK l \in DOMAIN W : W[l] = t
    BY <2>2 DEF Waits, Waiters, IsIn
  <2>4. W \in Seq(Thread)
    <3>1. KernelOK(k)
      BY DEF Sound
    <3> QED BY <3>1, WaitersFacts
  <2>5. l \in 1 .. Len(W) /\ l <= Len(W)
    BY <2>3, <2>4
  <2>6. Waits(st.j, Receivers, W[l]) => ~EventSatisfied(asked[W[l]], st.s)
    BY <1>1, <1>2, <2>5 DEF EventSeen
  <2> QED BY <2>2, <2>3, <2>6
<1>12. \A t \in Thread : t \in G => p[t] \in RecvPlaces /\ ~(p[t] = "recv_copy") /\ asked[t] = wish[t]
  BY <1>7 DEF Sound, EventHears, RecvPlaces
<1>13. EventHears(w, r, st.q, wish)
  <2> SUFFICES ASSUME NEW t \in Thread
               PROVE  /\ Waits(w, Receivers, t) => st.q[t] = wish[t]
                      /\ r[t] \in EventPlaces /\ ~Waits(w, Receivers, t) /\ w.err[t] = "EOK"
                           => EventAnswer(st.q[t], wish[t])
                      /\ r[t] = "recv_copy" => EventAnswer(st.q[t], wish[t]) /\ w.err[t] = "EOK"
    BY DEF EventHears
  <2>1. Waits(w, Receivers, t) => st.q[t] = wish[t]
    BY <1>6, <1>10 DEF EventHears
  <2>2. ASSUME r[t] \in EventPlaces, ~Waits(w, Receivers, t), w.err[t] = "EOK"
        PROVE  EventAnswer(st.q[t], wish[t])
    <3>1. CASE t \in G
      BY <1>10, <1>12, <3>1
    <3>2. CASE t \notin G
      <4>1. ~Waits(k, Receivers, t) /\ k.err[t] = "EOK" /\ st.q[t] = asked[t] /\ p[t] \in EventPlaces
        BY <1>2, <1>7, <1>10, <2>2, <3>2 DEF EventComes
      <4> QED BY <4>1 DEF EventHears
    <3> QED BY <3>1, <3>2
  <2>3. ASSUME r[t] = "recv_copy" PROVE EventAnswer(st.q[t], wish[t]) /\ w.err[t] = "EOK"
    <3>1. EventAnswer(asked[t], wish[t]) /\ k.err[t] = "EOK"
      BY <2>3 DEF EventHears, EventComes
    <3>2. t \notin G
      BY <1>7, <1>12, <2>3 DEF EventComes
    <3> QED BY <1>2, <1>10, <3>1, <3>2
  <2> QED BY <2>1, <2>2, <2>3
<1>14. EventClears(k, w, asked, st.q, st.s)
  <2>1. \A t \in G : asked[t].clear => st.q[t].bits \cap st.s = {}
    BY <1>10, <1>7 DEF EventGone, Gone, G
  <2>2. \A t, x \in G : t # x /\ asked[t].clear /\ asked[x].clear => st.q[t].bits \cap st.q[x].bits = {}
    <3>1. G \subseteq Thread
      BY DEF G, EventGone, Gone
    <3> QED BY <1>2, <1>10, <3>1 DEF EventDealt, G
  <2> QED BY <1>7, <2>1, <2>2 DEF EventClears
<1> QED BY <1>3, <1>4, <1>8, <1>9, <1>11, <1>13, <1>14

-----------------------------------------------------------------------------
(* The steps that wake nobody but with an error *)

EventKeeps(u, w, X, r, a, b) ==
  \A t \in Thread : r[t] = "app" \/ (b[t] = a[t] /\ (t \in X \/ w.err[t] = u.err[t]))

EventLate(w, X) == \A t \in X : w.err[t] # "EOK"

EventTyped(p, s, a, b) ==
  /\ p \in [Thread -> EventPC] /\ p[Idle] \in {"app", "call_sched"} /\ s \subseteq Bit
  /\ a \in [Thread -> EventRequest] /\ b \in [Thread -> EventRequest]

LEMMA EventQuiet ==
  ASSUME EventAssumption, EventInv, EventTyped(pc', set', asked', wish'), Sound(k', pc'),
         NEW X, Wakes(k, k', X), EventLate(k', X), set' \subseteq set,
         EventKeeps(k, k', X, pc', asked, asked'), EventKeeps(k, k', X, pc', wish, wish'),
         EventComes(k, pc, pc')
  PROVE  EventInv' /\ EventClearsOnce
<1>1. /\ CallsAssumption /\ Sound(k, pc) /\ Calm(k) /\ k.nest = 0
      /\ EventUnheard(k, set, asked) /\ EventHears(k, pc, asked, wish)
  BY EventFacts DEF EventInv
<1>2. \A q \in {Receivers, Senders}, t \in Thread : Waits(k', q, t) <=> Waits(k, q, t) /\ t \notin X
  BY DEF Wakes
<1>3. ASSUME NEW q \in {Receivers, Senders}, NEW t \in Thread, Waits(k', q, t)
      PROVE  asked'[t] = asked[t] /\ wish'[t] = wish[t] /\ k'.err[t] = k.err[t]
  <2>1. pc'[t] # "app" /\ t \notin X
    BY <1>2, <1>3 DEF Sound, RecvPlaces, SendPlaces
  <2> QED BY <2>1 DEF EventKeeps
<1>4. Calm(k')
  BY <1>1, <1>2, <1>3 DEF Calm
<1>5. EventUnheard(k', set', asked')
  <2>1. SUFFICES ASSUME NEW t \in Thread, Waits(k', Receivers, t)
                 PROVE  ~EventSatisfied(asked'[t], set')
    BY DEF EventUnheard
  <2>2. ~EventSatisfied(asked[t], set) /\ asked'[t] = asked[t]
    BY <1>1, <1>2, <1>3, <2>1 DEF EventUnheard
  <2> QED BY <2>2, EventFewer
<1>6. \A t \in X : t \in Thread /\ (pc[t] \in RecvPlaces \/ pc[t] \in SendPlaces)
                   /\ (Waits(k, Receivers, t) \/ Waits(k, Senders, t))
  BY <1>1 DEF Wakes, Sound
<1>7. EventHears(k', pc', asked', wish')
  <2> SUFFICES ASSUME NEW t \in Thread
               PROVE  /\ Waits(k', Receivers, t) => asked'[t] = wish'[t]
                      /\ pc'[t] \in EventPlaces /\ ~Waits(k', Receivers, t) /\ k'.err[t] = "EOK"
                           => EventAnswer(asked'[t], wish'[t])
                      /\ pc'[t] = "recv_copy" => EventAnswer(asked'[t], wish'[t]) /\ k'.err[t] = "EOK"
    BY DEF EventHears
  <2>1. Waits(k', Receivers, t) => asked'[t] = wish'[t]
    BY <1>1, <1>2, <1>3 DEF EventHears
  <2>2. ASSUME pc'[t] \in EventPlaces, ~Waits(k', Receivers, t), k'.err[t] = "EOK"
        PROVE  EventAnswer(asked'[t], wish'[t])
    <3>1. t \notin X /\ pc'[t] # "app"
      BY <2>2 DEF EventLate, EventPlaces
    <3>2. asked'[t] = asked[t] /\ wish'[t] = wish[t] /\ k.err[t] = "EOK" /\ pc[t] \in EventPlaces
      BY <2>2, <3>1 DEF EventKeeps, EventComes
    <3>3. ~Waits(k, Receivers, t)
      BY <1>2, <2>2, <3>1
    <3> QED BY <1>1, <3>2, <3>3 DEF EventHears
  <2>3. ASSUME pc'[t] = "recv_copy" PROVE EventAnswer(asked'[t], wish'[t]) /\ k'.err[t] = "EOK"
    <3>1. asked'[t] = asked[t] /\ wish'[t] = wish[t] /\ (t \in X \/ k'.err[t] = k.err[t])
      BY <2>3 DEF EventKeeps
    <3>2. EventAnswer(asked[t], wish[t]) /\ k.err[t] = "EOK"
      BY <1>1, <2>3 DEF EventHears, EventComes
    <3>3. t \notin X
      <4>1. CASE pc[t] = "recv_copy"
        BY <1>6, <4>1 DEF RecvPlaces, SendPlaces
      <4>2. CASE pc[t] \in EventPlaces /\ ~Waits(k, Receivers, t)
        <5>1. pc[t] \notin SendPlaces
          BY <4>2 DEF EventPlaces, SendPlaces
        <5>2. ~Waits(k, Senders, t)
          BY <1>1, <5>1 DEF Sound
        <5> QED BY <1>6, <4>2, <5>2
      <4> QED BY <2>3, <4>1, <4>2 DEF EventComes
    <3> QED BY <3>1, <3>2, <3>3
  <2> QED BY <2>1, <2>2, <2>3
<1>8. EventInv'
  <2>1. k'.nest = 0
    BY <1>1 DEF Wakes
  <2> QED BY <1>4, <1>5, <1>7, <2>1 DEF EventInv, EventCalls, EventCallers, EventTyped,
                                  EventUnheard, EventHears, Sound, Calm
<1>9. EventClears(k, k', asked, asked', set')
  BY <1>2 DEF EventClears, EventLate
<1> QED BY <1>8, <1>9, EventClearsIs

LEMMA EventNoRequestIs ==
  ASSUME EventAssumption
  PROVE  EventNoRequest \in EventRequest
BY DEF EventAssumption, EventNoRequest, EventRequest, EventBitSet

LEMMA EventStart ==
  ASSUME EventAssumption, EventInit
  PROVE  EventInv
<1>1. CallsAssumption /\ Started(EventBoot) /\ StartOK(EventBoot)
  BY DEF EventInit, EventAssumption
<1>2. /\ Sound(k, pc) /\ Calm(k) /\ k.nest = 0
      /\ \A t \in Thread : pc[t] = "app" /\ ~Waits(k, Receivers, t) /\ ~Waits(k, Senders, t)
  BY <1>1, StartedSound
<1>3. EventCallers
  <2>1. pc \in [Thread -> EventPC] /\ pc[Idle] = "app"
    BY <1>1, <1>2, CallFacts DEF EventPC, Started
  <2>2. EventNoRequest \in EventRequest
    BY EventNoRequestIs
  <2> QED BY <2>1, <2>2 DEF EventCallers, EventInit
<1>4. EventUnheard(k, set, asked) /\ EventHears(k, pc, asked, wish)
  BY <1>2 DEF EventUnheard, EventHears, EventPlaces
<1> QED BY <1>2, <1>3, <1>4 DEF EventInv, EventCalls

-----------------------------------------------------------------------------
(* The steps *)

LEMMA EventSendsInv ==
  ASSUME EventAssumption, EventInv, Sound(k', pc'), Calm(k'), k'.nest = 0,
         EventTyped(pc', set', asked', wish'),
         EventUnheard(k', set', asked'), EventHears(k', pc', asked', wish'),
         EventClears(k, k', asked, asked', set')
  PROVE  EventInv' /\ EventClearsOnce
<1>1. EventClearsOnce
  BY EventClearsIs
<1> QED BY <1>1 DEF EventInv, EventCalls, EventCallers, EventTyped, EventUnheard, EventHears, Sound, Calm

LEMMA EventBase ==
  ASSUME CallsAssumption, NEW p, Sound(k, p), NEW bits \in EventBitSet,
         set \subseteq Bit, asked \in [Thread -> EventRequest],
         NEW base, base = [j |-> k, s |-> set \cup bits, q |-> asked]
  PROVE  base \in EventLoopStates(p)
<1>1. k \in Kernel
  BY SoundFacts
<1> QED BY <1>1 DEF EventLoopStates, EventBitSet

LEMMA EventSendStep ==
  ASSUME EventAssumption, EventInv, NEW bits \in EventBitSet, EventSend(bits)
  PROVE  EventInv' /\ EventClearsOnce
<1> DEFINE st == EventAfterSend(bits)
           base == [j |-> k, s |-> set \cup bits, q |-> asked]
           b == IF st.j # k THEN "call_sched" ELSE "app"
           n == Len(Waiters(k, Receivers))
<1>1. pc[Me] = "app" /\ Go(b) /\ k' = st.j /\ set' = st.s /\ asked' = st.q /\ wish' = wish
  BY DEF EventSend, At
<1>2. b \in {"app", "call_sched"} /\ st = EventAfterSend(bits) /\ n = Len(Waiters(k, Receivers))
      /\ base = [j |-> k, s |-> set \cup bits, q |-> asked]
  OBVIOUS
<1> HIDE DEF st, b, n, base
<1>3. /\ CallsAssumption /\ Sound(k, pc) /\ Calm(k) /\ k.nest = 0 /\ DOMAIN pc = Thread
      /\ set \subseteq Bit /\ asked \in [Thread -> EventRequest]
      /\ EventHears(k, pc, asked, wish)
  BY EventFacts DEF EventInv
<1>4. pc[Me] \notin SchedPlaces
  BY <1>1 DEF SchedPlaces
<1>5. /\ Me \in Thread /\ Sound(k, pc')
      /\ pc'[Me] = b /\ \A t \in Thread \ {Me} : pc'[t] = pc[t]
  BY <1>1, <1>3, <1>4, GoStep
<1>6. base \in EventLoopStates(pc')
  BY <1>2, <1>3, <1>5, EventBase
<1>7. EventTurn(base, pc', n, st)
  BY <1>2, <1>3, <1>6, EventSent
<1>7a. base.j = k /\ base.q = asked
  BY <1>2
<1>8. EventComes(k, pc, pc')
  BY <1>2, <1>5 DEF EventComes, EventPlaces
<1>9. KernelOK(st.j)
  BY <1>7 DEF EventTurn, Wakes
<1>10. Wakes(st.j, st.j, {})
  BY <1>3, <1>9, WakesNobody
<1>11. Wakes(st.j, k', {}) /\ k'.err = st.j.err
  BY <1>1, <1>10
<1>12. /\ Sound(k', pc') /\ Calm(k') /\ k'.nest = k.nest
       /\ st.s \in SUBSET Bit /\ st.q \in [Thread -> EventRequest]
       /\ EventUnheard(k', st.s, st.q) /\ EventHears(k', pc', st.q, wish)
       /\ EventClears(k, k', asked, st.q, st.s)
  BY <1>2, <1>3, <1>7, <1>7a, <1>8, <1>11, EventSendKept
<1>13. EventTyped(pc', set', asked', wish')
  <2>1. pc \in [Thread -> EventPC] /\ wish \in [Thread -> EventRequest] /\ Idle \in Thread
        /\ pc[Idle] \in {"app", "call_sched"}
    BY EventFacts
  <2>2. pc' \in [Thread -> EventPC] /\ pc'[Idle] \in {"app", "call_sched"}
    BY <1>1, <1>2, <1>5, <2>1 DEF Go, EventPC
  <2> QED BY <1>1, <1>12, <2>1, <2>2 DEF EventTyped
<1>14. /\ EventUnheard(k', set', asked') /\ EventHears(k', pc', asked', wish')
       /\ EventClears(k, k', asked, asked', set') /\ k'.nest = 0
  BY <1>1, <1>3, <1>12
<1> QED BY <1>12, <1>13, <1>14, EventSendsInv

LEMMA EventIsrSendStep ==
  ASSUME EventAssumption, EventInv, NEW bits \in EventBitSet, EventIsrSend(bits)
  PROVE  EventInv' /\ EventClearsOnce
<1> DEFINE st == EventAfterSend(bits)
           base == [j |-> k, s |-> set \cup bits, q |-> asked]
           n == Len(Waiters(k, Receivers))
<1>1. /\ k' = IF st.j # k THEN Schedule(st.j) ELSE k
      /\ set' = st.s /\ asked' = st.q /\ pc' = pc /\ wish' = wish
  BY DEF EventIsrSend
<1>2. /\ st = EventAfterSend(bits) /\ n = Len(Waiters(k, Receivers))
      /\ base = [j |-> k, s |-> set \cup bits, q |-> asked]
  OBVIOUS
<1> HIDE DEF st, n, base
<1>3. /\ CallsAssumption /\ Sound(k, pc) /\ Calm(k) /\ k.nest = 0
      /\ set \subseteq Bit /\ asked \in [Thread -> EventRequest]
      /\ EventHears(k, pc, asked, wish)
  BY EventFacts DEF EventInv
<1>6. base \in EventLoopStates(pc)
  BY <1>2, <1>3, EventBase
<1>7. EventTurn(base, pc, n, st)
  BY <1>2, <1>3, <1>6, EventSent
<1>7a. base.j = k /\ base.q = asked
  BY <1>2
<1>8. EventComes(k, pc, pc)
  BY DEF EventComes
<1>9. KernelOK(st.j) /\ Sound(st.j, pc)
  BY <1>7 DEF EventTurn, Wakes, EventLoopStates
<1>11. Wakes(st.j, k', {}) /\ k'.err = st.j.err
  <2>1. CASE st.j # k
    BY <1>1, <1>3, <1>9, <2>1, WakesSchedule
  <2>2. CASE st.j = k
    BY <1>1, <1>3, <1>9, <2>2, WakesNobody
  <2> QED BY <2>1, <2>2
<1>12. /\ Sound(k', pc) /\ Calm(k') /\ k'.nest = k.nest
       /\ st.s \in SUBSET Bit /\ st.q \in [Thread -> EventRequest]
       /\ EventUnheard(k', st.s, st.q) /\ EventHears(k', pc, st.q, wish)
       /\ EventClears(k, k', asked, st.q, st.s)
  BY <1>2, <1>3, <1>7, <1>7a, <1>8, <1>11, EventSendKept
<1>13. EventTyped(pc', set', asked', wish')
  BY <1>1, <1>12, EventFacts DEF EventTyped
<1>14. /\ EventUnheard(k', set', asked') /\ EventHears(k', pc', asked', wish')
       /\ EventClears(k, k', asked, asked', set') /\ k'.nest = 0 /\ Sound(k', pc')
  BY <1>1, <1>3, <1>12
<1> QED BY <1>12, <1>13, <1>14, EventSendsInv

LEMMA EventRecvNowStep ==
  ASSUME EventAssumption, EventInv, NEW r \in EventRequest, EventRecvNow(r) \/ EventRecvFails(r)
  PROVE  EventInv' /\ EventClearsOnce
<1>1. /\ CallsAssumption /\ Sound(k, pc) /\ pc \in [Thread -> EventPC] /\ Me \in Thread
      /\ pc[Idle] \in {"app", "call_sched"} /\ set \subseteq Bit
      /\ asked \in [Thread -> EventRequest] /\ wish \in [Thread -> EventRequest]
  BY EventFacts
<1>2. PICK e \in {"EOK", "ETIMEOUT"} : k' = WithError(k, Me, e)
  BY DEF EventRecvNow, EventRecvFails
<1>3. /\ pc[Me] = "app" /\ pc' = pc /\ asked' = asked /\ wish' = wish /\ set' \subseteq set
  BY DEF EventRecvNow, EventRecvFails, At
<1>4. e \in Error
  BY DEF Error
<1>5. /\ Wakes(k, k', {}) /\ Sound(k', pc)
      /\ \A t \in Thread \ {Me} : k'.err[t] = k.err[t]
  BY <1>1, <1>2, <1>4, ErrorStep
<1>6. EventTyped(pc', set', asked', wish') /\ Sound(k', pc')
  BY <1>1, <1>3, <1>5 DEF EventTyped
<1>7. EventKeeps(k, k', {}, pc', asked, asked') /\ EventKeeps(k, k', {}, pc', wish, wish')
  BY <1>3, <1>5 DEF EventKeeps
<1>8. EventLate(k', {}) /\ EventComes(k, pc, pc')
  BY <1>3 DEF EventLate, EventComes
<1> QED BY <1>3, <1>5, <1>6, <1>7, <1>8, EventQuiet

LEMMA EventScheduleStep ==
  ASSUME EventAssumption, EventInv, EventRecvSchedule
  PROVE  EventInv' /\ EventClearsOnce
<1>1. /\ CallsAssumption /\ Sound(k, pc) /\ pc \in [Thread -> EventPC] /\ Me \in Thread
      /\ pc[Idle] \in {"app", "call_sched"} /\ set \subseteq Bit /\ k.nest = 0
      /\ asked \in [Thread -> EventRequest] /\ wish \in [Thread -> EventRequest] /\ DOMAIN pc = Thread
  BY EventFacts
<1>2. pc[Me] = "recv_sched" /\ Go("recv_error") /\ k' = Schedule(k)
      /\ set' = set /\ asked' = asked /\ wish' = wish
  BY DEF EventRecvSchedule, At
<1>3. "recv_error" \in RecvPlaces /\ pc[Me] \notin SendPlaces
  BY <1>2 DEF RecvPlaces, SendPlaces
<1>4. /\ Sound(k', pc') /\ Wakes(k, k', {}) /\ k'.err = k.err
      /\ pc'[Me] = "recv_error" /\ \A t \in Thread \ {Me} : pc'[t] = pc[t]
  BY <1>1, <1>2, <1>3, ScheduleStep
<1>5. Me # Idle
  BY <1>1, <1>2
<1>6. EventTyped(pc', set', asked', wish')
  BY <1>1, <1>2, <1>4, <1>5, CallFacts DEF EventTyped, EventPC, Go
<1>7. EventKeeps(k, k', {}, pc', asked, asked') /\ EventKeeps(k, k', {}, pc', wish, wish')
  BY <1>2, <1>4 DEF EventKeeps
<1>8. EventLate(k', {}) /\ EventComes(k, pc, pc')
  BY <1>2, <1>4 DEF EventLate, EventComes, EventPlaces
<1> QED BY <1>2, <1>4, <1>6, <1>7, <1>8, EventQuiet

LEMMA EventReturnsStep ==
  ASSUME EventAssumption, EventInv, EventReturn, k' = k, set' = set, pc[Me] \notin SchedPlaces
  PROVE  EventInv' /\ EventClearsOnce
<1>1. /\ CallsAssumption /\ Sound(k, pc) /\ pc \in [Thread -> EventPC] /\ Me \in Thread
      /\ pc[Idle] \in {"app", "call_sched"} /\ set \subseteq Bit /\ KernelOK(k)
      /\ asked \in [Thread -> EventRequest] /\ wish \in [Thread -> EventRequest] /\ DOMAIN pc = Thread
  BY EventFacts
<1>2. /\ Go("app") /\ asked' = [asked EXCEPT ![Me] = EventNoRequest]
      /\ wish' = [wish EXCEPT ![Me] = EventNoRequest]
  BY DEF EventReturn
<1>3. /\ Sound(k, pc')
      /\ pc'[Me] = "app" /\ \A t \in Thread \ {Me} : pc'[t] = pc[t]
  BY <1>1, <1>2, GoStep
<1>4. Wakes(k, k', {}) /\ Sound(k', pc')
  BY <1>1, <1>3, WakesNobody
<1>5. EventTyped(pc', set', asked', wish')
  BY <1>1, <1>2, <1>3, EventNoRequestIs DEF EventTyped, EventPC, Go
<1>6. EventKeeps(k, k', {}, pc', asked, asked') /\ EventKeeps(k, k', {}, pc', wish, wish')
  BY <1>1, <1>2, <1>3 DEF EventKeeps
<1>7. EventLate(k', {}) /\ EventComes(k, pc, pc')
  BY <1>3 DEF EventLate, EventComes, EventPlaces
<1> QED BY <1>4, <1>5, <1>6, <1>7, EventQuiet

LEMMA EventRecvErrorStep ==
  ASSUME EventAssumption, EventInv, EventRecvError
  PROVE  EventInv' /\ EventClearsOnce
<1>1. /\ CallsAssumption /\ Sound(k, pc) /\ pc \in [Thread -> EventPC] /\ Me \in Thread
      /\ pc[Idle] \in {"app", "call_sched"} /\ set \subseteq Bit /\ KernelOK(k)
      /\ asked \in [Thread -> EventRequest] /\ wish \in [Thread -> EventRequest] /\ DOMAIN pc = Thread
  BY EventFacts
<1>2. pc[Me] = "recv_error" /\ k' = k /\ set' = set
  BY DEF EventRecvError, At
<1>3. pc[Me] \notin SchedPlaces
  BY <1>2 DEF SchedPlaces
<1>4. CASE k.err[Me] = "EOK"
  <2>1. Go("recv_copy") /\ asked' = asked /\ wish' = wish
    BY <1>4 DEF EventRecvError
  <2>2. /\ Sound(k, pc') /\ ~Waits(k, Receivers, Me)
        /\ pc'[Me] = "recv_copy" /\ \A t \in Thread \ {Me} : pc'[t] = pc[t]
    BY <1>1, <1>3, <2>1, GoStep
  <2>3. Wakes(k, k', {}) /\ Sound(k', pc')
    BY <1>1, <1>2, <2>2, WakesNobody
  <2>4. Me # Idle
    BY <1>1, <1>2
  <2>5. EventTyped(pc', set', asked', wish')
    BY <1>1, <1>2, <2>1, <2>2, <2>4, CallFacts DEF EventTyped, EventPC, Go
  <2>6. EventKeeps(k, k', {}, pc', asked, asked') /\ EventKeeps(k, k', {}, pc', wish, wish')
    BY <1>2, <2>1 DEF EventKeeps
  <2>7. EventLate(k', {}) /\ EventComes(k, pc, pc')
    BY <1>2, <1>4, <2>2 DEF EventLate, EventComes, EventPlaces
  <2> QED BY <1>2, <2>3, <2>5, <2>6, <2>7, EventQuiet
<1>5. CASE k.err[Me] # "EOK"
  <2>1. EventReturn
    BY <1>5 DEF EventRecvError
  <2> QED BY <1>2, <1>3, <2>1, EventReturnsStep
<1> QED BY <1>4, <1>5

LEMMA EventRecvCopyStep ==
  ASSUME EventAssumption, EventInv, EventRecvCopy
  PROVE  EventInv' /\ EventClearsOnce
<1>1. pc[Me] = "recv_copy" /\ EventReturn /\ k' = k /\ set' = set
  BY DEF EventRecvCopy, At
<1>2. pc[Me] \notin SchedPlaces
  BY <1>1 DEF SchedPlaces
<1> QED BY <1>1, <1>2, EventReturnsStep

LEMMA EventCallEndStep ==
  ASSUME EventAssumption, EventInv, EventCallEnd
  PROVE  EventInv' /\ EventClearsOnce
<1>1. /\ CallsAssumption /\ Sound(k, pc) /\ pc \in [Thread -> EventPC] /\ Me \in Thread
      /\ pc[Idle] \in {"app", "call_sched"} /\ set \subseteq Bit
      /\ asked \in [Thread -> EventRequest] /\ wish \in [Thread -> EventRequest] /\ DOMAIN pc = Thread
  BY EventFacts
<1>2. CallSchedule /\ set' = set /\ asked' = asked /\ wish' = wish
  BY DEF EventCallEnd
<1>3. /\ Sound(k', pc') /\ Wakes(k, k', {}) /\ k'.err = k.err
      /\ pc'[Me] = "app" /\ \A t \in Thread \ {Me} : pc'[t] = pc[t]
  BY <1>1, <1>2, ReturnStep
<1>4. EventTyped(pc', set', asked', wish')
  BY <1>1, <1>2, <1>3 DEF EventTyped, EventPC, CallSchedule, Go
<1>5. EventKeeps(k, k', {}, pc', asked, asked') /\ EventKeeps(k, k', {}, pc', wish, wish')
  BY <1>2, <1>3 DEF EventKeeps
<1>6. EventLate(k', {}) /\ EventComes(k, pc, pc')
  BY <1>3 DEF EventLate, EventComes, EventPlaces
<1> QED BY <1>2, <1>3, <1>4, <1>5, <1>6, EventQuiet

LEMMA EventResetStep ==
  ASSUME EventAssumption, EventInv, EventReset
  PROVE  EventInv' /\ EventClearsOnce
<1> DEFINE X == {t \in Thread : Waits(k, Receivers, t)}
<1>1. /\ CallsAssumption /\ Sound(k, pc) /\ pc \in [Thread -> EventPC] /\ Me \in Thread
      /\ pc[Idle] \in {"app", "call_sched"}
      /\ asked \in [Thread -> EventRequest] /\ wish \in [Thread -> EventRequest] /\ DOMAIN pc = Thread
  BY EventFacts
<1>2. /\ pc[Me] = "app" /\ Go("call_sched") /\ k' = ResumeAllWithError(k, Receivers) /\ set' = {}
      /\ asked' = asked /\ wish' = wish
  BY DEF EventReset, At
<1>3. pc[Me] \notin SchedPlaces
  BY <1>2 DEF SchedPlaces
<1>4. /\ Sound(k, pc')
      /\ pc'[Me] = "call_sched" /\ \A t \in Thread \ {Me} : pc'[t] = pc[t]
  BY <1>1, <1>2, <1>3, GoStep
<1>5. /\ Wakes(k, k', X) /\ Sound(k', pc')
      /\ \A t \in X : k'.err[t] = "ERROR"
      /\ \A t \in Thread \ X : k'.err[t] = k.err[t]
  <2> DEFINE w == ResumeAllWithError(k, Receivers)
  <2>1. CallsAssumption /\ Sound(k, pc') /\ Receivers \in {Receivers, Senders}
    BY <1>1, <1>4
  <2>2. /\ Wakes(k, w, X) /\ Sound(w, pc')
        /\ w.cur = k.cur /\ (k.stat[k.cur] = "READY" => w.stat[w.cur] = "READY")
        /\ \A t \in X : w.err[t] = "ERROR"
        /\ \A t \in Thread \ X : w.err[t] = k.err[t]
        /\ \A t \in Thread : ~Waits(w, Receivers, t)
    BY <2>1, WakesAll
  <2>3. k' = w
    BY <1>2
  <2> HIDE DEF w, X
  <2> QED BY <2>2, <2>3
<1> HIDE DEF X
<1>6. EventTyped(pc', set', asked', wish')
  BY <1>1, <1>2, <1>4 DEF EventTyped, EventPC, Go
<1>7. EventKeeps(k, k', X, pc', asked, asked') /\ EventKeeps(k, k', X, pc', wish, wish')
  BY <1>2, <1>5 DEF EventKeeps
<1>8. EventLate(k', X)
  BY <1>5 DEF EventLate
<1>9. EventComes(k, pc, pc') /\ set' \subseteq set
  BY <1>2, <1>4 DEF EventComes, EventPlaces
<1> QED BY <1>5, <1>6, <1>7, <1>8, <1>9, EventQuiet

LEMMA EventTickStep ==
  ASSUME EventAssumption, EventInv, EventTick
  PROVE  EventInv' /\ EventClearsOnce
<1>1. /\ CallsAssumption /\ Sound(k, pc) /\ pc \in [Thread -> EventPC]
      /\ pc[Idle] \in {"app", "call_sched"} /\ set \subseteq Bit
      /\ asked \in [Thread -> EventRequest] /\ wish \in [Thread -> EventRequest]
  BY EventFacts
<1>2. Tick /\ set' = set /\ asked' = asked /\ wish' = wish
  BY DEF EventTick
<1>3. PICK X \in SUBSET Thread :
        /\ Wakes(k, k', X) /\ Sound(k', pc') /\ pc' = pc
        /\ \A t \in X : k'.err[t] = "ETIMEOUT"
        /\ \A t \in Thread \ X : k'.err[t] = k.err[t]
  BY <1>1, <1>2, TickStep
<1>4. EventTyped(pc', set', asked', wish')
  BY <1>1, <1>2, <1>3 DEF EventTyped
<1>5. EventKeeps(k, k', X, pc', asked, asked') /\ EventKeeps(k, k', X, pc', wish, wish')
  BY <1>2, <1>3 DEF EventKeeps
<1>6. EventLate(k', X) /\ EventComes(k, pc, pc')
  BY <1>3 DEF EventLate, EventComes
<1> QED BY <1>2, <1>3, <1>4, <1>5, <1>6, EventQuiet

LEMMA EventRecvWaitStep ==
  ASSUME EventAssumption, EventInv, NEW r \in EventRequest, EventRecvWait(r)
  PROVE  EventInv' /\ EventClearsOnce
<1>1. /\ CallsAssumption /\ Sound(k, pc) /\ pc \in [Thread -> EventPC] /\ Me \in Thread
      /\ pc[Idle] \in {"app", "call_sched"} /\ set \subseteq Bit /\ k.nest = 0 /\ Calm(k)
      /\ asked \in [Thread -> EventRequest] /\ wish \in [Thread -> EventRequest] /\ DOMAIN pc = Thread
      /\ EventUnheard(k, set, asked) /\ EventHears(k, pc, asked, wish)
  BY EventFacts DEF EventInv
<1>2. /\ pc[Me] = "app" /\ Me \in EventMayRecv /\ ~EventSatisfied(r, set) /\ set' = set
      /\ asked' = [asked EXCEPT ![Me] = r] /\ wish' = [wish EXCEPT ![Me] = r] /\ Go("recv_sched")
  BY DEF EventRecvWait, At
<1>3. PICK late \in BOOLEAN : k' = Block(k, Receivers, Me, EventFlag, late)
  BY DEF EventRecvWait
<1>4. Me # Idle /\ pc[Me] \notin SchedPlaces
  BY <1>2 DEF EventAssumption, SchedPlaces
<1>5. "recv_sched" \in SchedPlaces /\ "recv_sched" \in RecvPlaces
  BY DEF SchedPlaces, RecvPlaces
<1>6. /\ Sound(k', pc') /\ ~Waits(k, Receivers, Me) /\ ~Waits(k, Senders, Me)
      /\ Joins(k, k', Receivers)
      /\ k'.err[Me] = "EOK" /\ \A t \in Thread \ {Me} : k'.err[t] = k.err[t]
      /\ pc'[Me] = "recv_sched" /\ \A t \in Thread \ {Me} : pc'[t] = pc[t]
  BY <1>1, <1>2, <1>3, <1>4, <1>5, BlockStep
<1>7. /\ \A o \in {Receivers, Senders}, t \in Thread : Waits(k', o, t) <=> Waits(k, o, t) \/ (o = Receivers /\ t = Me)
      /\ k'.nest = 0
  BY <1>1, <1>6 DEF Joins, Me
<1>8. /\ asked'[Me] = r /\ wish'[Me] = r
      /\ \A t \in Thread \ {Me} : asked'[t] = asked[t] /\ wish'[t] = wish[t]
  BY <1>1, <1>2
<1>9. Calm(k')
  BY <1>1, <1>6, <1>7 DEF Calm
<1>10. EventUnheard(k', set', asked')
  BY <1>1, <1>2, <1>7, <1>8 DEF EventUnheard
<1>11. EventHears(k', pc', asked', wish')
  <2> SUFFICES ASSUME NEW t \in Thread
               PROVE  /\ Waits(k', Receivers, t) => asked'[t] = wish'[t]
                      /\ pc'[t] \in EventPlaces /\ ~Waits(k', Receivers, t) /\ k'.err[t] = "EOK"
                           => EventAnswer(asked'[t], wish'[t])
                      /\ pc'[t] = "recv_copy" => EventAnswer(asked'[t], wish'[t]) /\ k'.err[t] = "EOK"
    BY DEF EventHears
  <2>1. CASE t = Me
    BY <1>6, <1>7, <1>8, <2>1
  <2>2. CASE t # Me
    BY <1>1, <1>6, <1>7, <1>8, <2>2 DEF EventHears
  <2> QED BY <2>1, <2>2
<1>12. EventClears(k, k', asked, asked', set')
  BY <1>7 DEF EventClears
<1>13. EventTyped(pc', set', asked', wish')
  BY <1>1, <1>2, <1>4, <1>6, CallFacts DEF EventTyped, EventPC, Go
<1> QED BY <1>6, <1>7, <1>9, <1>10, <1>11, <1>12, <1>13, EventSendsInv

LEMMA EventStep ==
  ASSUME EventAssumption, EventInv, EventNext
  PROVE  EventInv' /\ EventClearsOnce
<1>1. ASSUME NEW bits \in EventBitSet, EventSend(bits) PROVE EventInv' /\ EventClearsOnce
  BY <1>1, EventSendStep
<1>2. ASSUME NEW bits \in EventBitSet, EventIsrSend(bits) PROVE EventInv' /\ EventClearsOnce
  BY <1>2, EventIsrSendStep
<1>3. ASSUME NEW r \in EventRequest, EventRecvNow(r) \/ EventRecvFails(r)
      PROVE  EventInv' /\ EventClearsOnce
  BY <1>3, EventRecvNowStep
<1>4. ASSUME NEW r \in EventRequest, EventRecvWait(r) PROVE EventInv' /\ EventClearsOnce
  BY <1>4, EventRecvWaitStep
<1> QED BY <1>1, <1>2, <1>3, <1>4, EventScheduleStep, EventRecvErrorStep, EventRecvCopyStep,
           EventCallEndStep, EventResetStep, EventTickStep DEF EventNext

-----------------------------------------------------------------------------
(* The mailbox                                                             *)

(* The ring is consistent, and mails and free slots are matched by the     *)
(* threads woken for them.                                                 *)
MbCalls ==
  /\ Sound(k, pc) /\ Calm(k) /\ k.nest = 0
  /\ Matched(entry, k, pc, MbRecvCalls, Receivers)
  /\ Matched(MbSize - entry, k, pc, MbSendCalls, Senders)

MbInv ==
  /\ MbTypeOK
  /\ MbCalls
  /\ pc[Idle] = "app"
  /\ inOffset = (outOffset + entry) % MbSize

LEMMA MbFacts ==
  ASSUME MailboxAssumption, MbInv
  PROVE  /\ CallsAssumption /\ Sound(k, pc) /\ KernelOK(k) /\ DOMAIN pc = Thread /\ k.nest = 0
         /\ Me \in Thread /\ k.err \in [Thread -> Error] /\ pc \in [Thread -> MbPC]
         /\ MbSize \in Nat /\ MbSize > 0 /\ entry \in Nat /\ entry <= MbSize
         /\ inOffset \in 0 .. MbSize - 1 /\ outOffset \in 0 .. MbSize - 1
         /\ Receivers \in {Receivers, Senders} /\ Senders \in {Receivers, Senders}
         /\ Receivers # Senders /\ Calm(k)
<1>1. CallsAssumption /\ Sound(k, pc) /\ DOMAIN pc = Thread /\ pc \in [Thread -> MbPC] /\ k.nest = 0
  BY DEF MailboxAssumption, MbInv, MbCalls, MbTypeOK
<1>2. KernelOK(k) /\ k.cur \in Thread /\ k.err \in [Thread -> Error]
  BY <1>1, SoundFacts
<1>3. /\ MbSize \in Nat /\ MbSize > 0 /\ entry \in Nat /\ entry <= MbSize
      /\ inOffset \in 0 .. MbSize - 1 /\ outOffset \in 0 .. MbSize - 1
  BY DEF MailboxAssumption, MbInv, MbTypeOK
<1> QED BY <1>1, <1>2, <1>3, CallFacts DEF Me, MbInv, MbCalls

LEMMA MbHolds ==
  ASSUME MailboxAssumption, MbInv
  PROVE  MbNobodyStranded
<1>1. CallsAssumption /\ KernelOK(k)
  BY MbFacts
<1>2. /\ Waiters(k, Receivers) # <<>> => \E t \in Thread : Waits(k, Receivers, t)
      /\ Waiters(k, Senders) # <<>> => \E t \in Thread : Waits(k, Senders, t)
  BY <1>1, WaitersFacts
<1>3. /\ Woken(MbRecvCalls, Receivers) = WokenFor(k, pc, MbRecvCalls, Receivers)
      /\ Woken(MbSendCalls, Senders) = WokenFor(k, pc, MbSendCalls, Senders)
  BY WokenIsWokenFor
<1>4. /\ Matched(entry, k, pc, MbRecvCalls, Receivers)
      /\ Matched(MbSize - entry, k, pc, MbSendCalls, Senders)
  BY DEF MbInv, MbCalls
<1> QED BY <1>2, <1>3, <1>4 DEF MbNobodyStranded, Matched

LEMMA MbStart ==
  ASSUME MailboxAssumption, IsFiniteSet(Thread), MbInit
  PROVE  MbInv /\ MbContents = <<>>
<1>1. CallsAssumption /\ StartOK(MbBoot) /\ Started(MbBoot)
      /\ MbSize \in Nat /\ MbSize > 0 /\ Mail # {}
  BY DEF MailboxAssumption, MbInit
<1>2. /\ Sound(k, pc) /\ Calm(k) /\ k.nest = 0 /\ k \in Kernel
      /\ \A t \in Thread : pc[t] = "app" /\ ~Waits(k, Receivers, t) /\ ~Waits(k, Senders, t)
  BY <1>1, StartedSound
<1>3. pc \in [Thread -> MbPC]
  BY <1>1 DEF Started, MbPC
<1>4. MbTypeOK
  BY <1>1, <1>2, <1>3 DEF MbTypeOK, MbInit
<1>5. MbCalls
  BY <1>2 DEF MbCalls, Matched
<1>6. (outOffset + entry) % MbSize = 0
  BY <1>1, NoLap DEF MbInit
<1>7. MbContents = <<>>
  BY DEF MbInit, MbContents
<1> QED BY <1>1, <1>2, <1>4, <1>5, <1>6, <1>7, CallFacts DEF MbInv, MbInit

(* What the ring does *)
MbStores(x) == MbStore(x) /\ entry < MbSize
MbFetches == MbFetch /\ entry > 0
MbEmpties == entry' = 0 /\ inOffset' = 0 /\ outOffset' = 0 /\ pool' = pool /\ last' = last
MbRests == UNCHANGED <<pool, entry, inOffset, outOffset, last>>

LEMMA MbNextIs ==
  ASSUME MbSize \in Nat, MbSize > 0, NEW i \in 0 .. MbSize - 1
  PROVE  MbNextOffset(i) = (i + 1) % MbSize /\ MbNextOffset(i) \in 0 .. MbSize - 1
<1>1. CASE i + 1 < MbSize
  BY <1>1, NoLap DEF MbNextOffset
<1>2. CASE i + 1 >= MbSize
  BY <1>2, OneLap DEF MbNextOffset
<1> QED BY <1>1, <1>2

MbRingOK ==
  /\ pool \in [0 .. MbSize - 1 -> Mail]
  /\ entry \in 0 .. MbSize
  /\ inOffset \in 0 .. MbSize - 1 /\ outOffset \in 0 .. MbSize - 1
  /\ last \in {<<>>} \cup {<<x>> : x \in Mail}
  /\ inOffset = (outOffset + entry) % MbSize

LEMMA MbRing ==
  ASSUME MailboxAssumption, MbRingOK,
         (\E x \in Mail : MbStores(x)) \/ MbFetches \/ MbEmpties \/ MbRests
  PROVE  MbRingOK' /\ FifoMove(MbContents, MbContents', last, last', MbSize, Mail, {"reset"})
<1>1. /\ MbSize \in Nat /\ MbSize > 0 /\ entry \in Nat /\ entry <= MbSize
      /\ pool \in [0 .. MbSize - 1 -> Mail]
      /\ inOffset \in 0 .. MbSize - 1 /\ outOffset \in 0 .. MbSize - 1 /\ outOffset \in Nat
      /\ inOffset = (outOffset + entry) % MbSize
  BY DEF MailboxAssumption, MbRingOK
<1>2. MbContents = Circle(pool, MbSize, outOffset, entry)
  BY DEF MbContents, Circle
<1>3. MbContents' = Circle(pool', MbSize, outOffset', entry')
  BY DEF MbContents, Circle
<1>4. ASSUME NEW x \in Mail, MbStores(x)
      PROVE  MbRingOK' /\ FifoMove(MbContents, MbContents', last, last', MbSize, Mail, {"reset"})
  <2>1. /\ entry < MbSize /\ pool' = [pool EXCEPT ![inOffset] = x]
        /\ inOffset' = (inOffset + 1) % MbSize /\ inOffset' \in 0 .. MbSize - 1
        /\ entry' = entry + 1 /\ outOffset' = outOffset /\ last' = last
    BY <1>1, <1>4, MbNextIs DEF MbStores, MbStore
  <2>2. (((outOffset + entry) % MbSize) + 1) % MbSize = (outOffset + entry + 1) % MbSize
    BY <1>1, ModShift
  <2>3. inOffset' = (outOffset' + entry') % MbSize
    BY <1>1, <2>1, <2>2
  <2>4. MbRingOK'
    BY <1>1, <1>4, <2>1, <2>3 DEF MbRingOK
  <2>4a. Cells(pool, MbSize, Mail) /\ OneCell(pool, pool', inOffset, x)
    BY <1>1, <2>1 DEF Cells, OneCell
  <2>5. /\ Circle(pool, MbSize, outOffset, entry) \in Seq(Mail)
        /\ Len(Circle(pool, MbSize, outOffset, entry)) = entry
        /\ Longer(Circle(pool, MbSize, outOffset, entry), Circle(pool', MbSize, outOffset, entry'), x)
    BY <1>1, <1>4, <2>1, <2>4a, CircleStore
  <2>6. Len(MbContents) < MbSize /\ MbContents' = Append(MbContents, x) /\ last' = last
    BY <1>1, <1>2, <1>3, <2>1, <2>5 DEF Longer
  <2> QED BY <1>4, <2>4, <2>6 DEF FifoMove
<1>5. CASE MbFetches
  <2>1. /\ entry > 0 /\ last' = <<pool[outOffset]>> /\ pool' = pool /\ inOffset' = inOffset
        /\ outOffset' = (outOffset + 1) % MbSize /\ outOffset' \in 0 .. MbSize - 1
        /\ entry' = entry - 1
    BY <1>1, <1>5, MbNextIs DEF MbFetches, MbFetch
  <2>2. (((outOffset + 1) % MbSize) + (entry - 1)) % MbSize = ((outOffset + 1) + (entry - 1)) % MbSize
    BY <1>1, <2>1, ModShift
  <2>3. (outOffset + 1) + (entry - 1) = outOffset + entry
    BY <1>1
  <2>4. inOffset' = (outOffset' + entry') % MbSize
    BY <1>1, <2>1, <2>2, <2>3
  <2>5. last' \in {<<x>> : x \in Mail}
    BY <1>1, <2>1
  <2>6. MbRingOK'
    BY <1>1, <2>1, <2>4, <2>5 DEF MbRingOK
  <2>8. outOffset % MbSize = outOffset
    BY <1>1, NoLap
  <2> DEFINE o == outOffset + 1  m == entry - 1  x == pool[outOffset]
  <2>6a. Cells(pool, MbSize, Mail)
    BY <1>1 DEF Cells
  <2>6b. o = outOffset + 1 /\ m = entry - 1 /\ x = pool[outOffset] /\ outOffset = outOffset % MbSize
    BY <2>8
  <2> HIDE DEF o, m, x
  <2>7. /\ Circle(pool, MbSize, outOffset, entry) \in Seq(Mail)
        /\ Len(Circle(pool, MbSize, outOffset, entry)) = entry
        /\ Shorter(Circle(pool, MbSize, outOffset, entry), Circle(pool, MbSize, o, m), x)
    <3>1. MbSize \in Nat /\ MbSize > 0 /\ outOffset \in Nat /\ entry \in Nat /\ entry > 0
      BY <1>1, <2>1
    <3> QED BY <2>6a, <2>6b, <3>1, CircleFetch
  <2>9. Circle(pool, MbSize, (outOffset + 1) % MbSize, entry - 1)
          = Circle(pool, MbSize, outOffset + 1, entry - 1)
    <3>1. ASSUME NEW i \in 1 .. entry - 1
          PROVE  (((outOffset + 1) % MbSize) + i - 1) % MbSize = ((outOffset + 1) + i - 1) % MbSize
      <4>1. (((outOffset + 1) % MbSize) + (i - 1)) % MbSize = ((outOffset + 1) + (i - 1)) % MbSize
        BY <1>1, ModShift
      <4>2. (outOffset + 1) % MbSize \in Int
        BY <1>1
      <4>3. /\ ((outOffset + 1) % MbSize) + (i - 1) = ((outOffset + 1) % MbSize) + i - 1
            /\ (outOffset + 1) + (i - 1) = (outOffset + 1) + i - 1
        BY <1>1, <4>2
      <4> QED BY <4>1, <4>3
    <3> QED BY <3>1 DEF Circle
  <2>10. Len(MbContents) > 0 /\ last' = <<MbContents[1]>>
         /\ MbContents' = SubSeq(MbContents, 2, Len(MbContents))
    BY <1>1, <1>2, <1>3, <2>1, <2>6b, <2>7, <2>9 DEF Shorter
  <2> QED BY <2>6, <2>10 DEF FifoMove
<1>6. CASE MbEmpties
  <2>1. entry' = 0 /\ inOffset' = 0 /\ outOffset' = 0 /\ pool' = pool /\ last' = last
    BY <1>6 DEF MbEmpties
  <2>2. (0 + 0) % MbSize = 0
    BY <1>1, NoLap
  <2>3. MbContents' = <<>>
    BY <2>1 DEF MbContents
  <2> QED BY <1>1, <2>1, <2>2, <2>3 DEF MbRingOK, FifoMove
<1>7. CASE MbRests
  BY <1>1, <1>7 DEF MbRests, MbRingOK, FifoMove, MbContents
<1> QED BY <1>4, <1>5, <1>6, <1>7

-----------------------------------------------------------------------------
LEMMA MbPlaces ==
  /\ MbRecvCalls \cap SendPlaces = {} /\ MbSendCalls \cap RecvPlaces = {}
  /\ MbRecvCalls \cap MbSendCalls = {}
  /\ {"app", "call_sched"} \cap (MbRecvCalls \cup MbSendCalls \cup SchedPlaces) = {}
  /\ {"send_error", "send_again", "recv_error", "recv_again"} \cap SchedPlaces = {}
  /\ \A b \in MbPC : b \in RecvPlaces => b \in MbRecvCalls
  /\ \A b \in MbPC : b \in SendPlaces => b \in MbSendCalls
BY DEF MbRecvCalls, MbSendCalls, SendPlaces, RecvPlaces, SchedPlaces, MbPC

(* A mail is stored and a receiver woken. *)
LEMMA MbGivesMail ==
  ASSUME MailboxAssumption, IsFiniteSet(Thread), MbInv,
         entry' = entry + 1, Sound(k', pc'), Wakes(k, k', First(k, Receivers)), k'.err = k.err,
         \A t \in Thread \ {Me} : pc'[t] = pc[t],
         \/ pc' = pc
         \/ pc[Me] \in {"app", "send_again"} /\ pc'[Me] \in {"app", "call_sched"},
         pc' = pc => entry < MbSize
  PROVE  MbCalls'
<1>1. /\ CallsAssumption /\ Sound(k, pc) /\ KernelOK(k) /\ DOMAIN pc = Thread /\ k.nest = 0
      /\ Me \in Thread /\ pc \in [Thread -> MbPC] /\ Calm(k)
      /\ MbSize \in Nat /\ MbSize > 0 /\ entry \in Nat /\ entry <= MbSize
      /\ Receivers \in {Receivers, Senders} /\ Senders \in {Receivers, Senders}
  BY MbFacts
<1>2. k'.nest = 0
  BY <1>1 DEF Wakes
<1>3. Calm(k')
  BY <1>1, CalmWakes
<1>4. /\ Matched(entry, k, pc, MbRecvCalls, Receivers)
      /\ Matched(MbSize - entry, k, pc, MbSendCalls, Senders)
  BY DEF MbInv, MbCalls
<1>5. entry \in Int /\ entry + 1 \in Int /\ entry + 1 <= entry + 1
      /\ MbSize - entry \in Int /\ MbSize - (entry + 1) \in Int
      /\ MbSize - (entry + 1) <= MbSize - entry - 1
  BY <1>1
<1>6. WaitAt(k, pc, MbRecvCalls, Receivers)
  BY <1>1, MbPlaces DEF Sound, WaitAt
<1>7. Remain(pc, pc', MbRecvCalls)
  BY <1>1 DEF MbRecvCalls, Remain
<1>8. Matched(entry + 1, k', pc', MbRecvCalls, Receivers)
  BY <1>1, <1>4, <1>5, <1>6, <1>7, MatchedGiven
<1>9. Matched(MbSize - (entry + 1), k', pc', MbSendCalls, Senders)
  <2> DEFINE n == MbSize - entry  m == MbSize - (entry + 1)
  <2>1. Matched(n, k, pc, MbSendCalls, Senders)
    BY <1>4
  <2>2. n \in Int /\ m \in Int /\ m <= n - 1
    BY <1>5
  <2>3. Awakens(k, pc, k', First(k, Receivers))
    BY <1>1 DEF Awakens
  <2>4. OnlyMoves(pc, pc', Me)
    BY DEF OnlyMoves
  <2>5. MbSendCalls \cap Others(Senders) = {}
    BY <1>1, MbPlaces, MbFacts DEF Others
  <2> HIDE DEF n, m
  <2>6. Matched(m, k', pc', MbSendCalls, Senders)
    BY <1>1, <2>1, <2>2, <2>3, <2>4, <2>5, MatchedWakesTaken
  <2> QED BY <2>6 DEF m
<1> QED BY <1>2, <1>3, <1>8, <1>9 DEF MbCalls

(* A mail is fetched and a sender woken. *)
LEMMA MbGivesSlot ==
  ASSUME MailboxAssumption, IsFiniteSet(Thread), MbInv,
         entry' = entry - 1, Sound(k', pc'), Wakes(k, k', First(k, Senders)), k'.err = k.err,
         \A t \in Thread \ {Me} : pc'[t] = pc[t],
         \/ pc' = pc
         \/ pc[Me] \in {"app", "recv_again"} /\ pc'[Me] \in {"app", "call_sched"},
         entry > 0
  PROVE  MbCalls'
<1>1. /\ CallsAssumption /\ Sound(k, pc) /\ KernelOK(k) /\ DOMAIN pc = Thread /\ k.nest = 0
      /\ Me \in Thread /\ pc \in [Thread -> MbPC] /\ Calm(k)
      /\ MbSize \in Nat /\ MbSize > 0 /\ entry \in Nat /\ entry <= MbSize
      /\ Receivers \in {Receivers, Senders} /\ Senders \in {Receivers, Senders}
  BY MbFacts
<1>2. k'.nest = 0
  BY <1>1 DEF Wakes
<1>3. Calm(k')
  BY <1>1, CalmWakes
<1>4. /\ Matched(entry, k, pc, MbRecvCalls, Receivers)
      /\ Matched(MbSize - entry, k, pc, MbSendCalls, Senders)
  BY DEF MbInv, MbCalls
<1>6. WaitAt(k, pc, MbSendCalls, Senders)
  BY <1>1, MbPlaces DEF Sound, WaitAt
<1>7. Remain(pc, pc', MbSendCalls)
  BY <1>1 DEF MbSendCalls, Remain
<1>8. Matched(MbSize - (entry - 1), k', pc', MbSendCalls, Senders)
  <2> DEFINE n == MbSize - entry  m == MbSize - (entry - 1)
  <2>1. Matched(n, k, pc, MbSendCalls, Senders)
    BY <1>4
  <2>2. n \in Int /\ m \in Int /\ m <= n + 1
    BY <1>1
  <2> HIDE DEF n, m
  <2>3. Matched(m, k', pc', MbSendCalls, Senders)
    BY <1>1, <1>6, <1>7, <2>1, <2>2, MatchedGiven
  <2> QED BY <2>3 DEF m
<1>9. Matched(entry - 1, k', pc', MbRecvCalls, Receivers)
  <2> DEFINE m == entry - 1
  <2>1. Matched(entry, k, pc, MbRecvCalls, Receivers)
    BY <1>4
  <2>2. entry \in Int /\ m \in Int /\ m <= entry - 1
    BY <1>1
  <2>3. Awakens(k, pc, k', First(k, Senders))
    BY <1>1 DEF Awakens
  <2>4. OnlyMoves(pc, pc', Me)
    BY DEF OnlyMoves
  <2>5. MbRecvCalls \cap Others(Receivers) = {}
    BY MbPlaces DEF Others
  <2> HIDE DEF m
  <2>6. Matched(m, k', pc', MbRecvCalls, Receivers)
    BY <1>1, <2>1, <2>2, <2>3, <2>4, <2>5, MatchedWakesTaken
  <2> QED BY <2>6 DEF m
<1> QED BY <1>2, <1>3, <1>8, <1>9 DEF MbCalls

(* The ring stays, and the current thread waits for what is not there. *)
LEMMA MbQueues ==
  ASSUME MailboxAssumption, IsFiniteSet(Thread), MbInv, entry' = entry,
         NEW q \in {Receivers, Senders}, Sound(k', pc'), Joins(k, k', q),
         k'.err[Me] = "EOK", \A t \in Thread \ {Me} : k'.err[t] = k.err[t],
         \A t \in Thread \ {Me} : pc'[t] = pc[t],
         IF q = Receivers THEN entry = 0 /\ pc[Me] \in {"app", "recv_again"}
                          ELSE entry = MbSize /\ pc[Me] \in {"app", "send_again"}
  PROVE  MbCalls'
<1>1. /\ CallsAssumption /\ Sound(k, pc) /\ KernelOK(k) /\ DOMAIN pc = Thread /\ k.nest = 0
      /\ Me \in Thread /\ pc \in [Thread -> MbPC] /\ Calm(k)
      /\ MbSize \in Nat /\ MbSize > 0 /\ entry \in Nat /\ entry <= MbSize
      /\ Receivers \in {Receivers, Senders} /\ Senders \in {Receivers, Senders}
      /\ Receivers # Senders /\ Me = k.cur
  BY MbFacts DEF Me
<1>2. k'.nest = 0
  BY <1>1 DEF Joins
<1>3. Calm(k')
  BY <1>1, CalmJoins
<1>4. /\ Matched(entry, k, pc, MbRecvCalls, Receivers)
      /\ Matched(MbSize - entry, k, pc, MbSendCalls, Senders)
  BY DEF MbInv, MbCalls
<1>5. OnlyMoves(pc, pc', k.cur) /\ OnlyMoves(k.err, k'.err, k.cur)
  BY <1>1 DEF OnlyMoves
<1>6. Matched(entry, k', pc', MbRecvCalls, Receivers)
  <2>1. CASE q = Receivers
    <3>1. entry \in Int /\ entry <= 0
      BY <1>1, <2>1
    <3> QED BY <3>1, MatchedNothing
  <2>2. CASE q = Senders
    <3>1. pc[k.cur] \notin MbRecvCalls
      BY <1>1, <2>2 DEF MbRecvCalls
    <3>2. Joins(k, k', Senders) /\ Senders # Receivers /\ k.cur \in Thread /\ entry \in Int
      BY <1>1, <2>2
    <3>3. Matched(entry, k, pc, MbRecvCalls, Receivers)
      BY <1>4
    <3> QED BY <1>1, <1>5, <3>1, <3>2, <3>3, MatchedJoins
  <2> QED BY <2>1, <2>2
<1>7. Matched(MbSize - entry, k', pc', MbSendCalls, Senders)
  <2> DEFINE n == MbSize - entry
  <2>1. CASE q = Senders
    <3>1. n \in Int /\ n <= 0
      BY <1>1, <2>1
    <3> HIDE DEF n
    <3>2. Matched(n, k', pc', MbSendCalls, Senders)
      BY <3>1, MatchedNothing
    <3> QED BY <3>2 DEF n
  <2>2. CASE q = Receivers
    <3>1. pc[k.cur] \notin MbSendCalls
      BY <1>1, <2>2 DEF MbSendCalls
    <3>2. Joins(k, k', Receivers) /\ Receivers # Senders /\ k.cur \in Thread /\ n \in Int
      BY <1>1, <2>2
    <3>3. Matched(n, k, pc, MbSendCalls, Senders)
      BY <1>4
    <3> HIDE DEF n
    <3>4. Matched(n, k', pc', MbSendCalls, Senders)
      BY <1>1, <1>5, <3>1, <3>2, <3>3, MatchedJoins
    <3> QED BY <3>4 DEF n
  <2> QED BY <2>1, <2>2
<1> QED BY <1>2, <1>3, <1>6, <1>7 DEF MbCalls

(* The ring stays, threads are woken with an error or without a change of  *)
(* place; no thread that was woken for something gives it up.              *)
LEMMA MbRestful ==
  ASSUME MailboxAssumption, IsFiniteSet(Thread), MbInv, entry' = entry,
         NEW X, Awakens(k, pc, k', X), Sound(k', pc'),
         Remain(pc, pc', MbRecvCalls), Remain(pc, pc', MbSendCalls)
  PROVE  MbCalls'
<1>1. /\ CallsAssumption /\ KernelOK(k) /\ k.nest = 0 /\ Calm(k)
      /\ MbSize \in Nat /\ entry \in Nat
      /\ Receivers \in {Receivers, Senders} /\ Senders \in {Receivers, Senders}
      /\ Receivers # Senders
  BY MbFacts
<1>2. k'.nest = 0
  BY <1>1 DEF Wakes, Awakens
<1>3. Calm(k')
  BY <1>1, CalmWakes DEF Awakens
<1>4. /\ Matched(entry, k, pc, MbRecvCalls, Receivers)
      /\ Matched(MbSize - entry, k, pc, MbSendCalls, Senders)
  BY DEF MbInv, MbCalls
<1>5. MbRecvCalls \cap Others(Receivers) = {} /\ MbSendCalls \cap Others(Senders) = {}
  BY <1>1, MbPlaces DEF Others
<1>6. Matched(entry, k', pc', MbRecvCalls, Receivers)
  <2>1. entry \in Int /\ entry <= entry /\ Matched(entry, k, pc, MbRecvCalls, Receivers)
    BY <1>1, <1>4
  <2> QED BY <1>1, <1>5, <2>1, MatchedWakes
<1>7. Matched(MbSize - entry, k', pc', MbSendCalls, Senders)
  <2> DEFINE n == MbSize - entry
  <2>1. n \in Int /\ n <= n /\ Matched(n, k, pc, MbSendCalls, Senders)
    BY <1>1, <1>4
  <2> HIDE DEF n
  <2>2. Matched(n, k', pc', MbSendCalls, Senders)
    BY <1>1, <1>5, <2>1, MatchedWakes
  <2> QED BY <2>2 DEF n
<1> QED BY <1>2, <1>3, <1>6, <1>7 DEF MbCalls

(* The current thread, which has nothing to take, leaves. *)
LEMMA MbLeaves ==
  ASSUME MailboxAssumption, IsFiniteSet(Thread), MbInv, entry' = entry,
         Sound(k', pc'), Wakes(k, k', {}),
         \A t \in Thread \ {Me} : k'.err[t] = k.err[t] /\ pc'[t] = pc[t],
         ~Waits(k, Receivers, Me), ~Waits(k, Senders, Me),
         \/ pc[Me] = "send_again" /\ entry = MbSize
         \/ pc[Me] = "recv_again" /\ entry = 0
         \/ k.err[Me] # "EOK"
  PROVE  MbCalls'
<1>1. /\ CallsAssumption /\ KernelOK(k) /\ k.nest = 0 /\ Calm(k)
      /\ MbSize \in Nat /\ entry \in Nat /\ entry <= MbSize /\ Me \in Thread
  BY MbFacts
<1>2. /\ k'.nest = 0
      /\ \A t \in Thread : /\ Waits(k', Receivers, t) <=> Waits(k, Receivers, t)
                           /\ Waits(k', Senders, t) <=> Waits(k, Senders, t)
  BY <1>1 DEF Wakes
<1>3. Calm(k')
  BY <1>2 DEF Calm, MbInv, MbCalls
<1>4. /\ Matched(entry, k, pc, MbRecvCalls, Receivers)
      /\ Matched(MbSize - entry, k, pc, MbSendCalls, Senders)
  BY DEF MbInv, MbCalls
<1>5. Matched(entry, k', pc', MbRecvCalls, Receivers)
  <2>1. CASE entry = 0
    <3>1. entry \in Int /\ entry <= 0
      BY <2>1
    <3> QED BY <3>1, MatchedNothing
  <2>2. CASE ~(entry = 0)
    <3>1. Me \notin WokenFor(k, pc, MbRecvCalls, Receivers)
      BY <1>1, <2>2 DEF WokenFor, MbRecvCalls
    <3>2. WokenFor(k, pc, MbRecvCalls, Receivers) \subseteq WokenFor(k', pc', MbRecvCalls, Receivers)
      BY <1>2, <3>1 DEF WokenFor
    <3>3. \A t \in Thread : Waits(k', Receivers, t) => \E x \in Thread : Waits(k, Receivers, x)
      BY <1>2
    <3>4. entry \in Int /\ entry <= entry /\ Matched(entry, k, pc, MbRecvCalls, Receivers)
      BY <1>1, <1>4
    <3> QED BY <3>2, <3>3, <3>4, MatchedKept
  <2> QED BY <2>1, <2>2
<1>6. Matched(MbSize - entry, k', pc', MbSendCalls, Senders)
  <2> DEFINE n == MbSize - entry
  <2>1. CASE entry = MbSize
    <3>1. n \in Int /\ n <= 0
      BY <1>1, <2>1
    <3> HIDE DEF n
    <3>2. Matched(n, k', pc', MbSendCalls, Senders)
      BY <3>1, MatchedNothing
    <3> QED BY <3>2 DEF n
  <2>2. CASE entry # MbSize
    <3>1. Me \notin WokenFor(k, pc, MbSendCalls, Senders)
      BY <1>1, <2>2 DEF WokenFor, MbSendCalls
    <3>2. WokenFor(k, pc, MbSendCalls, Senders) \subseteq WokenFor(k', pc', MbSendCalls, Senders)
      BY <1>2, <3>1 DEF WokenFor
    <3>3. \A t \in Thread : Waits(k', Senders, t) => \E x \in Thread : Waits(k, Senders, x)
      BY <1>2
    <3>4. n \in Int /\ n <= n /\ Matched(n, k, pc, MbSendCalls, Senders)
      BY <1>1, <1>4
    <3> HIDE DEF n
    <3>5. Matched(n, k', pc', MbSendCalls, Senders)
      BY <3>2, <3>3, <3>4, MatchedKept
    <3> QED BY <3>5 DEF n
  <2> QED BY <2>1, <2>2
<1> QED BY <1>2, <1>3, <1>5, <1>6 DEF MbCalls

(* The callers' own state *)
MbCallers ==
  /\ pc \in [Thread -> MbPC] /\ pc[Idle] = "app"
  /\ mail \in [Thread -> Mail] /\ timed \subseteq Thread

LEMMA MbParts ==
  ASSUME MailboxAssumption, MbCalls', MbRingOK', MbCallers'
  PROVE  MbInv'
<1>1. CallsAssumption /\ Sound(k', pc')
  BY DEF MailboxAssumption, MbCalls
<1>2. k' \in Kernel
  BY <1>1, SoundFacts
<1> QED BY <1>2 DEF MbInv, MbTypeOK, MbRingOK, MbCallers

LEMMA MbRingNow ==
  ASSUME MbInv
  PROVE  MbRingOK /\ MbCallers
BY DEF MbInv, MbTypeOK, MbRingOK, MbCallers

LEMMA MbGo ==
  ASSUME MailboxAssumption, MbInv, NEW b \in MbPC, Go(b), Me # Idle
  PROVE  pc' \in [Thread -> MbPC] /\ pc'[Idle] = "app"
<1>1. pc \in [Thread -> MbPC] /\ pc[Idle] = "app" /\ Idle \in Thread
  BY DEF MbInv, MbTypeOK, MailboxAssumption, CallsAssumption
<1> QED BY <1>1 DEF Go

LEMMA MbPatience ==
  ASSUME MailboxAssumption, MbInv, NEW b, Patience(b)
  PROVE  timed' \subseteq Thread
<1>1. Me \in Thread /\ timed \subseteq Thread
  BY MbFacts DEF MbInv, MbTypeOK
<1> QED BY <1>1 DEF Patience

(* A transfer by a thread, *)
MbPuts == \E x \in Mail : MbStores(x) /\ Wake(Receivers) /\ pc[Me] \in {"app", "send_again"}
MbGets == MbFetches /\ Wake(Senders) /\ pc[Me] \in {"app", "recv_again"}
MbIsrPuts == \E x \in Mail : MbStores(x) /\ k' = ResumeOne(Receivers)
MbIsrGets == MbFetches /\ k' = ResumeOne(Senders)

LEMMA MbTransfer ==
  ASSUME MailboxAssumption, IsFiniteSet(Thread), MbInv,
         UNCHANGED <<mail, timed>>,
         MbPuts \/ MbGets,
         Me # Idle
  PROVE  MbInv' /\ FifoMove(MbContents, MbContents', last, last', MbSize, Mail, {"reset"})
<1>1. /\ CallsAssumption /\ Sound(k, pc) /\ DOMAIN pc = Thread
      /\ Me \in Thread /\ pc \in [Thread -> MbPC]
  BY MbFacts
<1>2. pc[Me] \notin SchedPlaces
  BY DEF SchedPlaces, MbPuts, MbGets
<1>3. PICK q \in {Receivers, Senders} : Wake(q)
  BY DEF MbPuts, MbGets
<1>4. pc' \in {[pc EXCEPT ![Me] = "app"], [pc EXCEPT ![Me] = "call_sched"]}
  BY <1>1, <1>2, <1>3, WakeStep
<1>5. MbCallers'
  BY <1>1, <1>4, MbRingNow, CallFacts DEF MbCallers, MbPC
<1>6. MbRingOK' /\ FifoMove(MbContents, MbContents', last, last', MbSize, Mail, {"reset"})
  BY MbRing, MbRingNow DEF MbPuts, MbGets
<1>7. ASSUME NEW x \in Mail, MbStores(x), Wake(Receivers), pc[Me] \in {"app", "send_again"}
      PROVE  MbCalls'
  <2>1. /\ Sound(k', pc') /\ Wakes(k, k', First(k, Receivers)) /\ k'.err = k.err
        /\ pc'[Me] \in {"app", "call_sched"} /\ \A t \in Thread \ {Me} : pc'[t] = pc[t]
    BY <1>1, <1>2, <1>7, WakeStep, CallFacts
  <2>2. entry' = entry + 1 /\ entry < MbSize
    BY <1>7 DEF MbStores, MbStore
  <2> QED BY <1>7, <2>1, <2>2, MbGivesMail
<1>8. ASSUME MbGets
      PROVE  MbCalls'
  <2>1. /\ Sound(k', pc') /\ Wakes(k, k', First(k, Senders)) /\ k'.err = k.err
        /\ pc'[Me] \in {"app", "call_sched"} /\ \A t \in Thread \ {Me} : pc'[t] = pc[t]
    BY <1>1, <1>2, <1>8, WakeStep, CallFacts DEF MbGets
  <2>2. entry' = entry - 1 /\ entry > 0
    BY <1>8 DEF MbGets, MbFetches, MbFetch
  <2> QED BY <1>8, <2>1, <2>2, MbGivesSlot DEF MbGets
<1>9. CASE MbPuts
  <2>1. PICK x \in Mail : MbStores(x) /\ Wake(Receivers) /\ pc[Me] \in {"app", "send_again"}
    BY <1>9 DEF MbPuts
  <2>2. MbCalls'
    BY <1>7, <2>1
  <2> QED BY <1>5, <1>6, <2>2, MbParts
<1>10. CASE MbGets
  <2>1. MbCalls'
    BY <1>8, <1>10
  <2> QED BY <1>5, <1>6, <2>1, MbParts
<1> QED BY <1>9, <1>10

(* and by an interrupt handler *)
LEMMA MbTransferIsr ==
  ASSUME MailboxAssumption, IsFiniteSet(Thread), MbInv,
         UNCHANGED <<pc, mail, timed>>,
         MbIsrPuts \/ MbIsrGets
  PROVE  MbInv' /\ FifoMove(MbContents, MbContents', last, last', MbSize, Mail, {"reset"})
<1>1. CallsAssumption /\ Sound(k, pc) /\ Receivers \in {Receivers, Senders} /\ Senders \in {Receivers, Senders}
  BY MbFacts
<1>5. MbCallers'
  BY MbRingNow DEF MbCallers
<1>6. MbRingOK' /\ FifoMove(MbContents, MbContents', last, last', MbSize, Mail, {"reset"})
  BY MbRing, MbRingNow DEF MbIsrPuts, MbIsrGets
<1>7. ASSUME NEW x \in Mail, MbStores(x), k' = ResumeOne(Receivers)
      PROVE  MbCalls'
  <2>1. Sound(k', pc') /\ Wakes(k, k', First(k, Receivers)) /\ k'.err = k.err
    BY <1>1, <1>7, WakesResumeOne
  <2>2. entry' = entry + 1 /\ entry < MbSize
    BY <1>7 DEF MbStores, MbStore
  <2> QED BY <2>1, <2>2, MbGivesMail
<1>8. ASSUME MbIsrGets
      PROVE  MbCalls'
  <2>1. Sound(k', pc') /\ Wakes(k, k', First(k, Senders)) /\ k'.err = k.err
    BY <1>1, <1>8, WakesResumeOne DEF MbIsrGets
  <2>2. entry' = entry - 1 /\ entry > 0
    BY <1>8 DEF MbIsrGets, MbFetches, MbFetch
  <2> QED BY <2>1, <2>2, MbGivesSlot
<1>9. CASE MbIsrPuts
  <2>1. PICK x \in Mail : MbStores(x) /\ k' = ResumeOne(Receivers)
    BY <1>9 DEF MbIsrPuts
  <2>2. MbCalls'
    BY <1>7, <2>1
  <2> QED BY <1>5, <1>6, <2>2, MbParts
<1>10. CASE MbIsrGets
  <2>1. MbCalls'
    BY <1>8, <1>10
  <2> QED BY <1>5, <1>6, <2>1, MbParts
<1> QED BY <1>9, <1>10

(* Every step keeps the invariant, and moves the contents as a queue.      *)
LEMMA MbStep ==
  ASSUME MailboxAssumption, IsFiniteSet(Thread), MbInv, MbNext
  PROVE  MbInv' /\ FifoMove(MbContents, MbContents', last, last', MbSize, Mail, {"reset"})
<1>1. /\ CallsAssumption /\ Sound(k, pc) /\ KernelOK(k) /\ DOMAIN pc = Thread /\ k.nest = 0
      /\ Me \in Thread /\ k.err \in [Thread -> Error] /\ pc \in [Thread -> MbPC]
      /\ Receivers \in {Receivers, Senders} /\ Senders \in {Receivers, Senders}
      /\ Receivers # Senders /\ Me = k.cur
  BY MbFacts DEF Me
<1>2. MbRingOK /\ MbCallers
  BY MbRingNow
<1>3. /\ pc[Me] # "app" => Me # Idle
      /\ Me \in MbMaySend \cup MbMayRecv => Me # Idle
  BY <1>2 DEF MbCallers, MailboxAssumption
<1>4. (MbRests \/ MbEmpties) => MbRingOK' /\ FifoMove(MbContents, MbContents', last, last', MbSize, Mail, {"reset"})
  BY <1>2, MbRing
<1>5. ASSUME NEW x \in Mail, MbSend(x)
      PROVE  MbInv' /\ FifoMove(MbContents, MbContents', last, last', MbSize, Mail, {"reset"})
  <2>1. pc[Me] = "app" /\ Me # Idle /\ MbStores(x) /\ Wake(Receivers) /\ UNCHANGED <<mail, timed>>
    BY <1>3, <1>5 DEF MbSend, At, MbStores
  <2> QED BY <2>1, MbTransfer DEF MbPuts, MbGets
<1>6. ASSUME NEW x \in Mail, MbSendWait(x)
      PROVE  MbInv' /\ FifoMove(MbContents, MbContents', last, last', MbSize, Mail, {"reset"})
  <2>1. PICK late \in BOOLEAN : k' = Block(k, Senders, Me, MbFlag, late) /\ Patience(late)
    BY <1>6 DEF MbSendWait, MbWaitIn
  <2>2. /\ pc[Me] = "app" /\ Me # Idle /\ entry = MbSize /\ Go("send_sched")
        /\ mail' = [mail EXCEPT ![Me] = x] /\ MbRests
    BY <1>3, <1>6 DEF MbSendWait, At, mbRing, MbRests
  <2>3. pc[Me] \notin SchedPlaces /\ "send_sched" \in SchedPlaces /\ "send_sched" \in SendPlaces
    BY <2>2 DEF SchedPlaces, SendPlaces
  <2>4. /\ Sound(k', pc') /\ Joins(k, k', Senders)
        /\ k'.err[Me] = "EOK" /\ \A t \in Thread \ {Me} : k'.err[t] = k.err[t]
        /\ \A t \in Thread \ {Me} : pc'[t] = pc[t]
    BY <1>1, <2>1, <2>2, <2>3, BlockStep
  <2>5. MbCalls'
    BY <1>1, <2>2, <2>4, MbQueues DEF MbRests
  <2>6. pc' \in [Thread -> MbPC] /\ pc'[Idle] = "app" /\ timed' \subseteq Thread
    BY <2>1, <2>2, MbGo, MbPatience DEF MbPC
  <2>7. MbCallers'
    BY <1>2, <2>2, <2>6 DEF MbCallers
  <2> QED BY <1>4, <2>2, <2>5, <2>7, MbParts
<1>7. ASSUME NEW x \in Mail, MbIsrSend(x)
      PROVE  MbInv' /\ FifoMove(MbContents, MbContents', last, last', MbSize, Mail, {"reset"})
  <2>1. MbStores(x) /\ k' = ResumeOne(Receivers) /\ UNCHANGED <<pc, mail, timed>>
    BY <1>7 DEF MbIsrSend, MbStores
  <2> QED BY <2>1, MbTransferIsr DEF MbIsrPuts, MbIsrGets
<1>8. CASE MbRecv
  <2>1. pc[Me] = "app" /\ Me # Idle /\ MbFetches /\ Wake(Senders) /\ UNCHANGED <<mail, timed>>
    BY <1>3, <1>8 DEF MbRecv, At, MbFetches
  <2> QED BY <2>1, MbTransfer DEF MbPuts, MbGets
<1>9. CASE MbRecvWait
  <2>1. PICK late \in BOOLEAN : k' = Block(k, Receivers, Me, MbFlag, late) /\ Patience(late)
    BY <1>9 DEF MbRecvWait, MbWaitIn
  <2>2. /\ pc[Me] = "app" /\ Me # Idle /\ entry = 0 /\ Go("recv_sched")
        /\ mail' = mail /\ MbRests
    BY <1>3, <1>9 DEF MbRecvWait, At, mbRing, MbRests
  <2>3. pc[Me] \notin SchedPlaces /\ "recv_sched" \in SchedPlaces /\ "recv_sched" \in RecvPlaces
    BY <2>2 DEF SchedPlaces, RecvPlaces
  <2>4. /\ Sound(k', pc') /\ Joins(k, k', Receivers)
        /\ k'.err[Me] = "EOK" /\ \A t \in Thread \ {Me} : k'.err[t] = k.err[t]
        /\ \A t \in Thread \ {Me} : pc'[t] = pc[t]
    BY <1>1, <2>1, <2>2, <2>3, BlockStep
  <2>5. MbCalls'
    BY <1>1, <2>2, <2>4, MbQueues DEF MbRests
  <2>6. pc' \in [Thread -> MbPC] /\ pc'[Idle] = "app" /\ timed' \subseteq Thread
    BY <2>1, <2>2, MbGo, MbPatience DEF MbPC
  <2>7. MbCallers'
    BY <1>2, <2>2, <2>6 DEF MbCallers
  <2> QED BY <1>4, <2>2, <2>5, <2>7, MbParts
<1>10. CASE MbIsrRecv
  <2>1. MbFetches /\ k' = ResumeOne(Senders) /\ UNCHANGED <<pc, mail, timed>>
    BY <1>10 DEF MbIsrRecv, MbFetches
  <2> QED BY <2>1, MbTransferIsr DEF MbIsrPuts, MbIsrGets
<1>11. CASE MbReset
  <2> DEFINE v == ResumeAllWithError(k, Receivers)
  <2>1. /\ pc[Me] = "app" /\ Me # Idle /\ k' = ResumeAllWithError(v, Senders) /\ Go("call_sched")
        /\ mail' = mail /\ timed' = timed /\ MbEmpties
    BY <1>11 DEF MbReset, At, MbEmpties
  <2>2. pc[Me] \notin SchedPlaces
    BY <2>1 DEF SchedPlaces
  <2>3. k.stat[k.cur] = "READY" /\ Sound(k, pc')
    BY <1>1, <2>1, <2>2, GoStep
  <2> DEFINE X == {t \in Thread : Waits(k, Receivers, t)}
             Y == {t \in Thread : Waits(v, Senders, t)}
  <2>4. /\ Wakes(k, v, X) /\ Sound(v, pc')
        /\ v.cur = k.cur /\ (k.stat[k.cur] = "READY" => v.stat[v.cur] = "READY")
        /\ \A t \in X : v.err[t] = "ERROR"
        /\ \A t \in Thread \ X : v.err[t] = k.err[t]
        /\ \A t \in Thread : ~Waits(v, Receivers, t)
    BY <1>1, <2>3, WakesAll
  <2>4a. k' = ResumeAllWithError(v, Senders)
    BY <2>1
  <2>4b. CallsAssumption /\ Senders \in {Receivers, Senders}
    BY <1>1
  <2> HIDE DEF v
  <2>4c. Sound(v, pc')
    BY <2>4
  <2> DEFINE w == ResumeAllWithError(v, Senders)
  <2>4d. /\ Wakes(v, w, Y) /\ Sound(w, pc')
         /\ w.cur = v.cur /\ (v.stat[v.cur] = "READY" => w.stat[w.cur] = "READY")
         /\ \A t \in Y : w.err[t] = "ERROR"
         /\ \A t \in Thread \ Y : w.err[t] = v.err[t]
         /\ \A t \in Thread : ~Waits(w, Senders, t)
    BY <2>4b, <2>4c, WakesAll
  <2> HIDE DEF w
  <2>4e. k' = w
    BY <2>4a DEF w
  <2>5. /\ Wakes(v, k', Y) /\ Sound(k', pc')
        /\ \A t \in Thread : ~Waits(k', Senders, t)
    BY <2>4d, <2>4e
  <2>6. \A t \in Thread : ~Waits(k', Receivers, t)
    BY <2>4, <2>5 DEF Wakes
  <2>7. k'.nest = 0
    BY <1>1, <2>4, <2>5 DEF Wakes
  <2>8. MbCalls'
    BY <2>5, <2>6, <2>7 DEF MbCalls, Calm, Matched
  <2>9. pc' \in [Thread -> MbPC] /\ pc'[Idle] = "app"
    BY <2>1, MbGo DEF MbPC
  <2>10. MbCallers'
    BY <1>2, <2>1, <2>9 DEF MbCallers
  <2> QED BY <1>4, <2>1, <2>8, <2>10, MbParts
<1>12. CASE MbWaitSchedule
  <2>1. /\ k' = Schedule(k) /\ mail' = mail /\ timed' = timed /\ MbRests
    BY <1>12 DEF MbWaitSchedule, mbRing, MbRests
  <2>2. PICK b \in {"send_error", "recv_error"} :
          /\ Go(b)
          /\ pc[Me] = (IF b = "send_error" THEN "send_sched" ELSE "recv_sched")
    BY <1>12 DEF MbWaitSchedule, At
  <2>3. /\ pc[Me] \in RecvPlaces => b \in RecvPlaces
        /\ pc[Me] \in SendPlaces => b \in SendPlaces
        /\ b \in MbPC
    BY <2>2 DEF RecvPlaces, SendPlaces, MbPC
  <2>4. /\ Sound(k', pc') /\ Wakes(k, k', {}) /\ k'.err = k.err
        /\ pc'[Me] = b /\ \A t \in Thread \ {Me} : pc'[t] = pc[t]
    BY <1>1, <2>1, <2>2, <2>3, ScheduleStep
  <2>5. Awakens(k, pc, k', {}) /\ Sound(k', pc')
    BY <1>1, <2>4 DEF Awakens
  <2>6. Remain(pc, pc', MbRecvCalls) /\ Remain(pc, pc', MbSendCalls)
    BY <2>2, <2>4 DEF Remain, MbRecvCalls, MbSendCalls
  <2>7. MbCalls'
    BY <2>1, <2>5, <2>6, MbRestful DEF MbRests
  <2>8. pc' \in [Thread -> MbPC] /\ pc'[Idle] = "app"
    BY <1>3, <2>2, <2>3, MbGo
  <2>9. MbCallers'
    BY <1>2, <2>1, <2>8 DEF MbCallers
  <2> QED BY <1>4, <2>1, <2>7, <2>9, MbParts
<1>13. CASE MbReadError
  <2>1. /\ k' = k /\ mail' = mail /\ timed' = timed /\ MbRests
    BY <1>13 DEF MbReadError, mbRing, MbRests
  <2>2. PICK b \in {"send_again", "recv_again", "app"} :
          /\ Go(b)
          /\ pc[Me] \in {"send_error", "recv_error"}
          /\ b = "app" <=> k.err[Me] # "EOK"
          /\ b = "send_again" => pc[Me] = "send_error"
          /\ b = "recv_again" => pc[Me] = "recv_error"
    BY <1>13 DEF MbReadError, At
  <2>3. pc[Me] \notin SchedPlaces /\ b \in MbPC
    BY <2>2 DEF SchedPlaces, MbPC
  <2>4. /\ Sound(k', pc') /\ ~Waits(k, Receivers, Me) /\ ~Waits(k, Senders, Me)
        /\ pc'[Me] = b /\ \A t \in Thread \ {Me} : pc'[t] = pc[t]
    BY <1>1, <2>1, <2>2, <2>3, GoStep
  <2>5. Wakes(k, k', {})
    BY <1>1, <2>1, WakesNobody
  <2>6. MbCalls'
    <3>1. CASE b = "app"
      BY <2>1, <2>2, <2>4, <2>5, <3>1, MbLeaves DEF MbRests
    <3>2. CASE b # "app"
      <4>1. Awakens(k, pc, k', {}) /\ Sound(k', pc')
        BY <1>1, <2>1, <2>4, <2>5 DEF Awakens
      <4>2. Remain(pc, pc', MbRecvCalls) /\ Remain(pc, pc', MbSendCalls)
        BY <2>2, <2>4, <3>2 DEF Remain, MbRecvCalls, MbSendCalls
      <4> QED BY <2>1, <4>1, <4>2, MbRestful DEF MbRests
    <3> QED BY <3>1, <3>2
  <2>8. pc' \in [Thread -> MbPC] /\ pc'[Idle] = "app"
    BY <1>3, <2>2, <2>3, MbGo
  <2>9. MbCallers'
    BY <1>2, <2>1, <2>8 DEF MbCallers
  <2> QED BY <1>4, <2>1, <2>6, <2>9, MbParts
<1>14. CASE MbReturn
  <2>1. CallSchedule /\ mail' = mail /\ timed' = timed /\ MbRests
    BY <1>14 DEF MbReturn, mbRing, MbRests
  <2>2. /\ Sound(k', pc') /\ Wakes(k, k', {}) /\ k'.err = k.err
        /\ pc[Me] = "call_sched" /\ pc'[Me] = "app"
        /\ \A t \in Thread \ {Me} : pc'[t] = pc[t]
    BY <1>1, <2>1, ReturnStep
  <2>5. Awakens(k, pc, k', {}) /\ Sound(k', pc')
    BY <1>1, <2>2 DEF Awakens
  <2>6. Remain(pc, pc', MbRecvCalls) /\ Remain(pc, pc', MbSendCalls)
    BY <2>2 DEF Remain, MbRecvCalls, MbSendCalls
  <2>7. MbCalls'
    BY <2>1, <2>5, <2>6, MbRestful DEF MbRests
  <2>8. pc' \in [Thread -> MbPC] /\ pc'[Idle] = "app"
    BY <1>3, <2>1, <2>2, MbGo DEF CallSchedule, MbPC
  <2>9. MbCallers'
    BY <1>2, <2>1, <2>8 DEF MbCallers
  <2> QED BY <1>4, <2>1, <2>7, <2>9, MbParts
<1>15. CASE MbSendAgain
  <2>1. pc[Me] = "send_again" /\ Me # Idle /\ MbStores(mail[Me]) /\ Wake(Receivers) /\ UNCHANGED <<mail, timed>>
    BY <1>3, <1>15 DEF MbSendAgain, At, MbStores
  <2>2. mail[Me] \in Mail
    BY <1>1, <1>2 DEF MbCallers
  <2> QED BY <2>1, <2>2, MbTransfer DEF MbPuts
<1>16. CASE MbSendWaitAgain
  <2> DEFINE late == Me \in timed
  <2>2. /\ pc[Me] = "send_again" /\ Me # Idle /\ entry = MbSize /\ Go("send_sched")
        /\ k' = Block(k, Senders, Me, MbFlag, late)
        /\ mail' = mail /\ timed' = timed /\ MbRests
    BY <1>3, <1>16 DEF MbSendWaitAgain, MbWaitIn, At, mbRing, MbRests
  <2>3. pc[Me] \notin SchedPlaces /\ "send_sched" \in SchedPlaces /\ "send_sched" \in SendPlaces
    BY <2>2 DEF SchedPlaces, SendPlaces
  <2> HIDE DEF late
  <2>4. /\ Sound(k', pc') /\ Joins(k, k', Senders)
        /\ k'.err[Me] = "EOK" /\ \A t \in Thread \ {Me} : k'.err[t] = k.err[t]
        /\ \A t \in Thread \ {Me} : pc'[t] = pc[t]
    BY <1>1, <2>2, <2>3, BlockStep
  <2>5. MbCalls'
    BY <1>1, <2>2, <2>4, MbQueues DEF MbRests
  <2>6. pc' \in [Thread -> MbPC] /\ pc'[Idle] = "app"
    BY <2>2, MbGo DEF MbPC
  <2>7. MbCallers'
    BY <1>2, <2>2, <2>6 DEF MbCallers
  <2> QED BY <1>4, <2>2, <2>5, <2>7, MbParts
<1>17. CASE MbRecvAgain
  <2>1. pc[Me] = "recv_again" /\ Me # Idle /\ MbFetches /\ Wake(Senders) /\ UNCHANGED <<mail, timed>>
    BY <1>3, <1>17 DEF MbRecvAgain, At, MbFetches
  <2> QED BY <2>1, MbTransfer DEF MbPuts, MbGets
<1>18. CASE MbRecvWaitAgain
  <2> DEFINE late == Me \in timed
  <2>2. /\ pc[Me] = "recv_again" /\ Me # Idle /\ entry = 0 /\ Go("recv_sched")
        /\ k' = Block(k, Receivers, Me, MbFlag, late)
        /\ mail' = mail /\ timed' = timed /\ MbRests
    BY <1>3, <1>18 DEF MbRecvWaitAgain, MbWaitIn, At, mbRing, MbRests
  <2>3. pc[Me] \notin SchedPlaces /\ "recv_sched" \in SchedPlaces /\ "recv_sched" \in RecvPlaces
    BY <2>2 DEF SchedPlaces, RecvPlaces
  <2> HIDE DEF late
  <2>4. /\ Sound(k', pc') /\ Joins(k, k', Receivers)
        /\ k'.err[Me] = "EOK" /\ \A t \in Thread \ {Me} : k'.err[t] = k.err[t]
        /\ \A t \in Thread \ {Me} : pc'[t] = pc[t]
    BY <1>1, <2>2, <2>3, BlockStep
  <2>5. MbCalls'
    BY <1>1, <2>2, <2>4, MbQueues DEF MbRests
  <2>6. pc' \in [Thread -> MbPC] /\ pc'[Idle] = "app"
    BY <2>2, MbGo DEF MbPC
  <2>7. MbCallers'
    BY <1>2, <2>2, <2>6 DEF MbCallers
  <2> QED BY <1>4, <2>2, <2>5, <2>7, MbParts
<1>19. ASSUME NEW e \in Error, k' = WithError(k, Me, e), Go("app"), UNCHANGED <<mail, timed>>, MbRests,
              \/ pc[Me] = "send_again" /\ entry = MbSize
              \/ pc[Me] = "recv_again" /\ entry = 0
       PROVE  MbInv' /\ FifoMove(MbContents, MbContents', last, last', MbSize, Mail, {"reset"})
  <2>1. pc[Me] \notin SchedPlaces /\ Me # Idle
    BY <1>3, <1>19 DEF SchedPlaces
  <2>2. /\ Sound(k, pc') /\ ~Waits(k, Receivers, Me) /\ ~Waits(k, Senders, Me)
        /\ \A t \in Thread \ {Me} : pc'[t] = pc[t]
    BY <1>1, <1>19, <2>1, GoStep
  <2>3. Wakes(k, k', {}) /\ Sound(k', pc') /\ \A t \in Thread \ {Me} : k'.err[t] = k.err[t]
    BY <1>1, <1>19, <2>2, ErrorStep
  <2>4. MbCalls'
    BY <1>19, <2>2, <2>3, MbLeaves DEF MbRests
  <2>5. pc' \in [Thread -> MbPC] /\ pc'[Idle] = "app"
    BY <1>19, <2>1, MbGo DEF MbPC
  <2>6. MbCallers'
    BY <1>2, <1>19, <2>5 DEF MbCallers
  <2> QED BY <1>4, <1>19, <2>4, <2>6, MbParts
<1>20. CASE MbSendTimeUp
  <2>1. /\ k' = WithError(k, Me, "EOK") /\ Go("app") /\ UNCHANGED <<mail, timed>> /\ MbRests
        /\ pc[Me] = "send_again" /\ entry = MbSize /\ "EOK" \in Error
    BY <1>20 DEF MbSendTimeUp, At, mbRing, MbRests, Error
  <2> QED BY <1>19, <2>1
<1>21. CASE MbRecvTimeUp
  <2>1. /\ k' = WithError(k, Me, "ETIMEOUT") /\ Go("app") /\ UNCHANGED <<mail, timed>> /\ MbRests
        /\ pc[Me] = "recv_again" /\ entry = 0 /\ "ETIMEOUT" \in Error
    BY <1>21 DEF MbRecvTimeUp, At, mbRing, MbRests, Error
  <2> QED BY <1>19, <2>1
<1>22. CASE MbTick
  <2>1. Tick /\ mail' = mail /\ timed' = timed /\ MbRests
    BY <1>22 DEF MbTick, mbRing, MbRests
  <2>2. PICK X \in SUBSET Thread :
           /\ Wakes(k, k', X) /\ Sound(k', pc') /\ pc' = pc
           /\ \A t \in Thread \ X : k'.err[t] = k.err[t]
    BY <1>1, <2>1, TickStep
  <2>5. Awakens(k, pc, k', X) /\ Sound(k', pc')
    BY <1>1, <2>2 DEF Awakens
  <2>6. Remain(pc, pc', MbRecvCalls) /\ Remain(pc, pc', MbSendCalls)
    BY <2>2 DEF Remain
  <2>7. MbCalls'
    BY <2>1, <2>5, <2>6, MbRestful DEF MbRests
  <2>9. MbCallers'
    BY <1>2, <2>1, <2>2 DEF MbCallers
  <2> QED BY <1>4, <2>1, <2>7, <2>9, MbParts
<1> QED BY <1>5, <1>6, <1>7, <1>8, <1>9, <1>10, <1>11, <1>12, <1>13, <1>14, <1>15, <1>16,
           <1>17, <1>18, <1>20, <1>21, <1>22 DEF MbNext

-----------------------------------------------------------------------------
(* The data queue                                                          *)

DqPushCalls == {"push_sched", "push_error", "push_again"}
DqPopCalls  == {"pop_sched", "pop_error", "pop_again"}
DqResetting == {"reset_pop", "wake_pop", "reset_push", "wake_push"}

(* At most one thread pushes. *)
OnePusher == \A t, u \in DqMayPush : t = u

(* The scheduler is locked by a reset, which the current thread makes.     *)
DqNest(u, p) ==
  /\ u.nest = IF p[u.cur] \in DqResetting THEN 1 ELSE 0
  /\ \A t \in Thread \ {u.cur} : p[t] \notin DqResetting

(* A pusher that waits is counted on by the flag, while no item is overrun. *)
DqMarked(u) ==
  ~overrun /\ (\E t \in Thread : Waits(u, Senders, t)) =>
    waiting /\ (DqCount > Lwm \/ DqFull \/ fault # "none")

DqCalls ==
  /\ Sound(k, pc) /\ Calm(k) /\ DqNest(k, pc)
  /\ Matched(DqCount, k, pc, DqPopCalls, Receivers)
  /\ DqMarked(k)

DqRingOK ==
  /\ slots \in [0 .. DqSize - 1 -> Item]
  /\ getIndex \in 0 .. IndexRange - 1 /\ putIndex \in 0 .. IndexRange - 1
  /\ overrun \in BOOLEAN /\ (~overrun => DqCount <= DqSize)
  /\ last \in {<<>>} \cup {<<x>> : x \in Item}

(* The callers' own state *)
DqCallers ==
  /\ pc \in [Thread -> DqPC] /\ pc[Idle] = "app"
  /\ \A t \in Thread : pc[t] \in DqPushCalls => t \in DqMayPush
  /\ mail \in [Thread -> Item] /\ timed \subseteq Thread
  /\ waiting \in BOOLEAN /\ fault \in {"none", "stray", "masked"}

DqInv == DqCalls /\ DqRingOK /\ DqCallers

(* The count of the items follows the indices round. *)
LEMMA DqCounts ==
  ASSUME DataQueueAssumption, getIndex \in 0 .. IndexRange - 1, putIndex \in 0 .. IndexRange - 1
  PROVE  /\ IndexRange \in Nat /\ IndexRange > 0
         /\ DqCount \in 0 .. IndexRange - 1 /\ (DqEmpty <=> DqCount = 0)
         /\ DqFull => DqCount = DqSize
         /\ DqIndex(getIndex + 1) \in 0 .. IndexRange - 1
         /\ DqIndex(putIndex + 1) \in 0 .. IndexRange - 1
         /\ DqIndex(DqIndex(putIndex + 1) - getIndex)
              = IF DqCount = IndexRange - 1 THEN 0 ELSE DqCount + 1
         /\ DqCount > 0 => DqIndex(putIndex - DqIndex(getIndex + 1)) = DqCount - 1
         /\ DqCount > 0 /\ DqLeft >= 0 => DqLeft = DqCount - 1
         /\ DqLeft \in Int
<1> DEFINE N == IndexRange  a == putIndex  b == getIndex
<1>1. N \in Nat /\ DqSize \in Nat /\ DqSize > 0 /\ DqSize < N /\ a \in 0 .. N - 1 /\ b \in 0 .. N - 1
  BY DEF DataQueueAssumption
<1> DEFINE p == (a + 1) % N  g == (b + 1) % N
<1>2. /\ (a - b) % N = IF b <= a THEN a - b ELSE a - b + N
      /\ p = IF a = N - 1 THEN 0 ELSE a + 1
      /\ g = IF b = N - 1 THEN 0 ELSE b + 1
  BY <1>1, Around
<1>3. p \in 0 .. N - 1 /\ g \in 0 .. N - 1
  BY <1>1, <1>2
<1> HIDE DEF p, g
<1>4. /\ (p - b) % N = IF b <= p THEN p - b ELSE p - b + N
      /\ (a - g) % N = IF g <= a THEN a - g ELSE a - g + N
  BY <1>1, <1>3, Around
<1>5. /\ DqCount = (a - b) % N /\ DqLeft = a - g
      /\ DqIndex(a + 1) = p /\ DqIndex(b + 1) = g
      /\ DqIndex(DqIndex(a + 1) - b) = (p - b) % N
      /\ DqIndex(a - DqIndex(b + 1)) = (a - g) % N
      /\ DqEmpty <=> b = a
      /\ DqFull <=> a - b = DqSize
  BY DEF DqCount, DqIndex, DqLeft, DqEmpty, DqFull, p, g
<1> HIDE DEF N, a, b
<1>6. /\ DqCount = IF b <= a THEN a - b ELSE a - b + N
      /\ DqIndex(DqIndex(a + 1) - b) = IF b <= p THEN p - b ELSE p - b + N
      /\ DqIndex(a - DqIndex(b + 1)) = IF g <= a THEN a - g ELSE a - g + N
  BY <1>2, <1>4, <1>5
<1>7. /\ DqCount \in 0 .. N - 1 /\ (DqEmpty <=> DqCount = 0) /\ (DqFull => DqCount = DqSize)
      /\ DqLeft \in Int /\ N > 0
  BY <1>1, <1>3, <1>5, <1>6
<1>8. DqIndex(DqIndex(a + 1) - b) = IF DqCount = N - 1 THEN 0 ELSE DqCount + 1
  BY <1>1, <1>2, <1>6
<1>9. DqCount > 0 => DqIndex(a - DqIndex(b + 1)) = DqCount - 1
  BY <1>1, <1>2, <1>6
<1>10. DqCount > 0 /\ DqLeft >= 0 => DqLeft = DqCount - 1
  BY <1>1, <1>2, <1>5, <1>6
<1> QED BY <1>1, <1>3, <1>5, <1>7, <1>8, <1>9, <1>10 DEF N, a, b

LEMMA DqFacts ==
  ASSUME DataQueueAssumption, DqInv
  PROVE  /\ CallsAssumption /\ Sound(k, pc) /\ KernelOK(k) /\ DOMAIN pc = Thread
         /\ Me \in Thread /\ Me = k.cur /\ k.err \in [Thread -> Error] /\ pc \in [Thread -> DqPC]
         /\ DqSize \in Nat /\ DqSize > 0 /\ DqCount \in Nat /\ (~overrun => DqCount <= DqSize)
         /\ overrun \in BOOLEAN /\ Lwm \in Nat /\ Lwm <= DqSize
         /\ Receivers \in {Receivers, Senders} /\ Senders \in {Receivers, Senders}
         /\ Receivers # Senders /\ Calm(k) /\ DqNest(k, pc)
         /\ Matched(DqCount, k, pc, DqPopCalls, Receivers) /\ DqMarked(k)
         /\ DqRingOK /\ DqCallers
         /\ pc[Me] # "app" => Me # Idle
         /\ Me \in DqMayPush \cup DqMayPop => Me # Idle
<1>1. CallsAssumption /\ Sound(k, pc) /\ DOMAIN pc = Thread /\ pc \in [Thread -> DqPC]
  BY DEF DataQueueAssumption, DqInv, DqCalls, DqCallers
<1>2. KernelOK(k) /\ k.cur \in Thread /\ k.err \in [Thread -> Error]
  BY <1>1, SoundFacts
<1>3. DqSize \in Nat /\ DqSize > 0 /\ Lwm \in Nat /\ Lwm <= DqSize
      /\ DqMayPush \cup DqMayPop \subseteq Thread \ {Idle}
  BY DEF DataQueueAssumption
<1>4. DqCount \in Nat /\ (~overrun => DqCount <= DqSize) /\ overrun \in BOOLEAN
  BY DqCounts DEF DqInv, DqRingOK
<1>5. DqCalls /\ DqRingOK /\ DqCallers
  BY DEF DqInv
<1> QED BY <1>1, <1>2, <1>3, <1>4, <1>5, CallFacts DEF Me, DqCalls, DqCallers

LEMMA DqHolds ==
  ASSUME DataQueueAssumption, DqInv
  PROVE  DqNobodyStranded
<1>1. CallsAssumption /\ KernelOK(k) /\ DqMarked(k)
      /\ Matched(DqCount, k, pc, DqPopCalls, Receivers)
  BY DqFacts
<1>2. /\ Waiters(k, Receivers) # <<>> => \E t \in Thread : Waits(k, Receivers, t)
      /\ Waiters(k, Senders) # <<>> => \E t \in Thread : Waits(k, Senders, t)
  BY <1>1, WaitersFacts
<1>3. Woken(DqPopCalls, Receivers) = WokenFor(k, pc, DqPopCalls, Receivers)
  BY WokenIsWokenFor
<1> QED BY <1>1, <1>2, <1>3 DEF DqNobodyStranded, Matched, DqMarked, DqPopCalls

LEMMA DqStart ==
  ASSUME DataQueueAssumption, IsFiniteSet(Thread), DqInit
  PROVE  DqInv /\ DqContents = <<>>
<1>1. CallsAssumption /\ StartOK(DqBoot) /\ Started(DqBoot)
      /\ DqSize \in Nat /\ DqSize > 0 /\ Item # {}
      /\ getIndex = 0 /\ putIndex = 0 /\ overrun = FALSE
      /\ 0 \in 0 .. IndexRange - 1
  BY DEF DataQueueAssumption, DqInit
<1>2. /\ Sound(k, pc) /\ Calm(k) /\ k.nest = 0 /\ k \in Kernel
      /\ \A t \in Thread : pc[t] = "app" /\ ~Waits(k, Receivers, t) /\ ~Waits(k, Senders, t)
  BY <1>1, StartedSound
<1>3. pc \in [Thread -> DqPC] /\ k.cur \in Thread /\ Idle \in Thread
  BY <1>1, <1>2, CallFacts DEF Started, DqPC, Kernel
<1>4. DqCallers
  BY <1>1, <1>2, <1>3 DEF DqCallers, DqInit, DqPushCalls
<1>5. DqCount = 0
  BY <1>1, DqCounts DEF DqEmpty
<1>5a. DqRingOK
  <2>1. slots \in [0 .. DqSize - 1 -> Item]
    BY <1>1 DEF DqInit
  <2>2. last \in {<<>>} \cup {<<x>> : x \in Item}
    BY DEF DqInit
  <2>3. overrun \in BOOLEAN
    BY <1>1
  <2>4. DqCount <= DqSize
    <3>1. 0 <= DqSize /\ DqCount = 0
      BY <1>1, <1>5
    <3> QED BY <3>1
  <2>5. getIndex \in 0 .. IndexRange - 1 /\ putIndex \in 0 .. IndexRange - 1
    BY <1>1
  <2> QED BY <2>1, <2>2, <2>3, <2>4, <2>5 DEF DqRingOK
<1>6. DqNest(k, pc)
  BY <1>2, <1>3 DEF DqNest, DqResetting
<1>7. DqCalls
  BY <1>2, <1>6 DEF DqCalls, Matched, DqMarked
<1>8. DqContents = <<>>
  BY <1>5 DEF DqContents
<1> QED BY <1>4, <1>5a, <1>7, <1>8 DEF DqInv

-----------------------------------------------------------------------------
(* What the ring does *)
DqStores(x) == DqStore(x) /\ ~DqFull
DqFetches == DqFetch /\ ~DqEmpty
DqRests == UNCHANGED <<slots, getIndex, putIndex, overrun, last>>

(* What a step does to the items: while none is overrun it moves one, and  *)
(* one is overrun only when the ring is full.                              *)
DqMove ==
  /\ overrun => overrun'
  /\ ~overrun' => FifoMove(DqContents, DqContents', last, last', DqSize, Item, {})
  /\ ~overrun /\ overrun' => Len(DqContents) = DqSize

(* The mask finds the cells of the ring, also where the index wraps. *)
LEMMA DqCells ==
  ASSUME DataQueueAssumption, SizeFits, NEW f, NEW o \in 0 .. IndexRange, NEW n \in 0 .. IndexRange - 1
  PROVE  [i \in 1 .. n |-> f[DqSlot(DqIndex(o + i - 1))]] = Circle(f, DqSize, o, n)
<1>1. /\ DqSize \in Nat /\ DqSize > 0 /\ IndexRange \in Nat /\ IndexRange > 0
      /\ IndexRange % DqSize = 0
      /\ \A j \in 0 .. IndexRange - 1 : DqSlot(j) = j % DqSize
  BY DEF DataQueueAssumption, SizeFits
<1>2. ASSUME NEW i \in 1 .. n PROVE DqSlot(DqIndex(o + i - 1)) = (o + i - 1) % DqSize
  <2>1. o + i - 1 \in 0 .. 2 * IndexRange - 1
    BY <1>1
  <2>2. (o + i - 1) % IndexRange \in 0 .. IndexRange - 1
    BY <1>1, <2>1, ModRange
  <2> QED BY <1>1, <2>1, <2>2, ModOf DEF DqIndex
<1> QED BY <1>2 DEF Circle

LEMMA DqRing ==
  ASSUME DataQueueAssumption, SizeFits, DqRingOK,
         (\E x \in Item : DqStores(x)) \/ DqFetches \/ DqRests
  PROVE  DqRingOK' /\ DqMove
<1>1. /\ DqSize \in Nat /\ DqSize > 0 /\ IndexRange \in Nat /\ IndexRange > 0 /\ DqSize < IndexRange
      /\ slots \in [0 .. DqSize - 1 -> Item] /\ overrun \in BOOLEAN
      /\ getIndex \in 0 .. IndexRange - 1 /\ putIndex \in 0 .. IndexRange - 1
      /\ getIndex \in 0 .. IndexRange /\ getIndex + 1 \in 0 .. IndexRange
      /\ getIndex \in Nat /\ putIndex \in Nat /\ IndexRange % DqSize = 0
      /\ \A j \in 0 .. IndexRange - 1 : DqSlot(j) = j % DqSize
  <2>1. /\ DqSize \in Nat /\ DqSize > 0 /\ IndexRange \in Nat /\ IndexRange > 0
        /\ DqSize < IndexRange
    BY DEF DataQueueAssumption
  <2>2. /\ slots \in [0 .. DqSize - 1 -> Item] /\ overrun \in BOOLEAN
        /\ getIndex \in 0 .. IndexRange - 1 /\ putIndex \in 0 .. IndexRange - 1
    BY DEF DqRingOK
  <2>3. /\ IndexRange % DqSize = 0
        /\ \A j \in 0 .. IndexRange - 1 : DqSlot(j) = j % DqSize
    BY DEF SizeFits
  <2> QED BY <2>1, <2>2, <2>3
<1>2. DqCount \in 0 .. IndexRange - 1 /\ DqCount \in Nat
  BY <1>1, DqCounts
<1>2a. DqCount = IF getIndex <= putIndex THEN putIndex - getIndex
                                         ELSE putIndex - getIndex + IndexRange
  BY <1>1, Around DEF DqCount, DqIndex
<1>3. DqContents = Circle(slots, DqSize, getIndex, DqCount)
  BY <1>1, <1>2, DqCells DEF DqContents
<1>4. Cells(slots, DqSize, Item)
  BY <1>1 DEF Cells
<1>4a. DqSlot(putIndex) = putIndex % DqSize /\ DqSlot(getIndex) = getIndex % DqSize
  BY <1>1
<1>4b. putIndex % DqSize \in 0 .. DqSize - 1 /\ getIndex % DqSize \in 0 .. DqSize - 1
  BY <1>1, ModRange
<1>4c. Len(DqContents) = DqCount
  BY <1>2, <1>3 DEF Circle
<1>5. ASSUME NEW x \in Item, DqStores(x)
      PROVE  DqRingOK' /\ DqMove
  <2> DEFINE i == putIndex % DqSize  m == DqCount + 1  n == DqCount
  <2>1. /\ slots' = [slots EXCEPT ![i] = x] /\ putIndex' = DqIndex(putIndex + 1)
        /\ getIndex' = getIndex /\ last' = last /\ overrun' = (overrun \/ n = DqSize)
    BY <1>4a, <1>5 DEF DqStores, DqStore
  <2>2. putIndex' \in 0 .. IndexRange - 1 /\ overrun' \in BOOLEAN
    BY <1>1, <2>1, DqCounts
  <2>3. DqCount' = DqIndex(DqIndex(putIndex + 1) - getIndex)
    BY <2>1 DEF DqCount
  <2>4. DqCount' = IF n = IndexRange - 1 THEN 0 ELSE m
    BY <1>1, <2>3, DqCounts
  <2>5. ~overrun' => ~overrun /\ n # DqSize /\ n <= DqSize
    BY <2>1, DqRingOK DEF DqRingOK
  <2>6. ~overrun' => ~overrun /\ n < DqSize /\ DqCount' = m /\ m <= DqSize
    BY <1>1, <1>2, <2>4, <2>5
  <2>7. DqRingOK'
    <3>1. slots' \in [0 .. DqSize - 1 -> Item]
      BY <1>1, <1>5, <2>1
    <3>2. ~overrun' => DqCount' <= DqSize
      BY <2>6
    <3>3. last' \in {<<>>} \cup {<<y>> : y \in Item}
      BY <2>1 DEF DqRingOK
    <3> QED BY <1>1, <2>1, <2>2, <3>1, <3>2, <3>3 DEF DqRingOK
  <2>8. ASSUME ~overrun' PROVE FifoMove(DqContents, DqContents', last, last', DqSize, Item, {})
    <3>1. n < DqSize /\ DqCount' = m
      BY <2>6, <2>8
    <3>2. DqContents' = Circle(slots', DqSize, getIndex, m)
      <4>1. m \in 0 .. IndexRange - 1
        BY <1>1, <1>2, <3>1
      <4>2. DqContents' = [j \in 1 .. m |-> slots'[DqSlot(DqIndex(getIndex + j - 1))]]
        BY <2>1, <3>1 DEF DqContents
      <4> HIDE DEF m
      <4> QED BY <1>1, <4>1, <4>2, DqCells
    <3>3. i = (getIndex + n) % DqSize
      <4>1. CASE getIndex <= putIndex
        <5>1. getIndex + n = putIndex
          BY <1>1, <1>2a, <4>1
        <5> QED BY <5>1
      <4>2. CASE putIndex < getIndex
        <5>1. getIndex + n = putIndex + IndexRange
          BY <1>1, <1>2a, <4>2
        <5>2. putIndex + IndexRange \in IndexRange .. 2 * IndexRange - 1
              /\ (putIndex + IndexRange) - IndexRange = putIndex
          BY <1>1
        <5>3. (putIndex + IndexRange) % IndexRange = putIndex
          BY <1>1, <5>2, OneLap
        <5>4. ((putIndex + IndexRange) % IndexRange) % DqSize = (putIndex + IndexRange) % DqSize
          <6>1. putIndex + IndexRange \in 0 .. 2 * IndexRange - 1
            BY <1>1
          <6> HIDE DEF i, m, n
          <6> QED BY <1>1, <6>1, ModOf
        <5> QED BY <5>1, <5>3, <5>4
      <4> QED BY <1>1, <4>1, <4>2
    <3>4. OneCell(slots, slots', i, x) /\ m = n + 1
      BY <2>1 DEF OneCell
    <3> HIDE DEF i, m, n
    <3>5. n \in Nat /\ n = DqCount
      BY <1>2 DEF n
    <3>6. /\ Circle(slots, DqSize, getIndex, n) \in Seq(Item)
          /\ Len(Circle(slots, DqSize, getIndex, n)) = n
          /\ Longer(Circle(slots, DqSize, getIndex, n), Circle(slots', DqSize, getIndex, m), x)
      BY <1>1, <1>4, <1>5, <3>1, <3>3, <3>4, <3>5, CircleStore
    <3>7. Len(DqContents) < DqSize /\ DqContents' = Append(DqContents, x) /\ last' = last
      BY <1>3, <2>1, <3>1, <3>2, <3>5, <3>6 DEF Longer
    <3> QED BY <1>5, <3>7 DEF FifoMove
  <2>9. (overrun => overrun') /\ (~overrun /\ overrun' => n = DqSize)
    BY <2>1
  <2> QED BY <1>4c, <2>7, <2>8, <2>9 DEF DqMove
<1>6. CASE DqFetches
  <2> DEFINE i == getIndex % DqSize  m == DqCount - 1  n == DqCount  o == getIndex + 1
             x == slots[getIndex % DqSize]
  <2>1. /\ ~DqEmpty /\ slots' = slots /\ putIndex' = putIndex
        /\ getIndex' = DqIndex(o) /\ last' = <<x>> /\ overrun' = overrun
    BY <1>4a, <1>6 DEF DqFetches, DqFetch
  <2>2. n > 0 /\ x \in Item /\ DqIndex(o) \in 0 .. IndexRange - 1
    BY <1>1, <1>2, <1>4b, <2>1, DqCounts
  <2>3. DqCount' = DqIndex(putIndex - DqIndex(o))
    BY <2>1 DEF DqCount
  <2>4. DqCount' = m
    BY <1>1, <2>2, <2>3, DqCounts
  <2>5. DqRingOK'
    <3>1. ~overrun' => DqCount' <= DqSize
      BY <1>1, <1>2, <2>1, <2>4 DEF DqRingOK
    <3> QED BY <1>1, <2>1, <2>2, <3>1 DEF DqRingOK
  <2>6. DqContents' = Circle(slots, DqSize, o, m)
    <3>1. m \in 0 .. IndexRange - 1 /\ m \in Nat
      BY <1>1, <1>2, <2>2
    <3>2. ASSUME NEW j \in 1 .. m PROVE DqIndex(getIndex' + j - 1) = DqIndex(o + j - 1)
      <4>1. ((o % IndexRange) + (j - 1)) % IndexRange = (o + (j - 1)) % IndexRange
        <5>1. j - 1 \in Nat /\ o \in Nat
          BY <1>1, <3>1
        <5> QED BY <1>1, <5>1, ModShift
      <4>2. o % IndexRange \in Int /\ o \in Int
        BY <1>1
      <4>3. (o % IndexRange) + (j - 1) = (o % IndexRange) + j - 1 /\ o + (j - 1) = o + j - 1
        BY <3>1, <4>2
      <4> QED BY <2>1, <4>1, <4>3 DEF DqIndex
    <3>3. DqContents' = [j \in 1 .. m |-> slots[DqSlot(DqIndex(o + j - 1))]]
      BY <2>1, <2>4, <3>2 DEF DqContents
    <3>4. o \in 0 .. IndexRange
      BY <1>1
    <3> HIDE DEF m, o
    <3> QED BY <3>1, <3>3, <3>4, DqCells
  <2>7. i = getIndex % DqSize /\ m = n - 1 /\ o = getIndex + 1 /\ x = slots[i] /\ n = DqCount
    OBVIOUS
  <2> HIDE DEF i, m, n, o, x
  <2>8. /\ Circle(slots, DqSize, getIndex, n) \in Seq(Item)
        /\ Len(Circle(slots, DqSize, getIndex, n)) = n
        /\ Shorter(Circle(slots, DqSize, getIndex, n), Circle(slots, DqSize, o, m), x)
    <3>1. DqSize \in Nat /\ DqSize > 0 /\ getIndex \in Nat /\ n \in Nat /\ n > 0
      BY <1>1, <1>2, <2>2, <2>7
    <3> QED BY <1>4, <2>7, <3>1, CircleFetch
  <2>9. Len(DqContents) > 0 /\ last' = <<DqContents[1]>>
        /\ DqContents' = SubSeq(DqContents, 2, Len(DqContents))
    BY <1>3, <2>1, <2>2, <2>6, <2>7, <2>8 DEF Shorter
  <2>10. FifoMove(DqContents, DqContents', last, last', DqSize, Item, {})
    BY <2>9 DEF FifoMove
  <2> QED BY <2>1, <2>5, <2>10 DEF DqMove
<1>7. CASE DqRests
  <2>1. /\ slots' = slots /\ getIndex' = getIndex /\ putIndex' = putIndex /\ overrun' = overrun
        /\ last' = last
    BY <1>7 DEF DqRests
  <2>2. DqCount' = DqCount /\ DqContents' = DqContents
    BY <2>1 DEF DqCount, DqContents
  <2> QED BY <2>1, <2>2 DEF DqMove, DqRingOK, FifoMove
<1> QED BY <1>5, <1>6, <1>7

-----------------------------------------------------------------------------
(* The scheduler lock: outside a reset, by an interrupt, in a reset        *)
LEMMA DqNestFree ==
  ASSUME NEW u, NEW p, NEW w, NEW r, DqNest(u, p), p[u.cur] \notin DqResetting,
         u.cur \in Thread, w.cur \in Thread, w.nest = u.nest,
         r[u.cur] \notin DqResetting, OnlyMoves(p, r, u.cur)
  PROVE  DqNest(w, r)
<1>1. \A t \in Thread : r[t] \notin DqResetting
  BY DEF DqNest, OnlyMoves
<1> QED BY <1>1 DEF DqNest

LEMMA DqNestStays ==
  ASSUME NEW u, NEW p, NEW w, DqNest(u, p), u.cur \in Thread, w.cur \in Thread,
         w.nest = u.nest, u.nest # 0 => w.cur = u.cur
  PROVE  DqNest(w, p)
<1>1. CASE p[u.cur] \in DqResetting
  <2>1. w.cur = u.cur
    BY <1>1 DEF DqNest
  <2> QED BY <1>1, <2>1 DEF DqNest
<1>2. CASE p[u.cur] \notin DqResetting
  BY <1>2, DqNestFree DEF OnlyMoves
<1> QED BY <1>1, <1>2

LEMMA DqNestLocked ==
  ASSUME NEW u, NEW p, NEW w, NEW r, DqNest(u, p), p[u.cur] \in DqResetting,
         w.cur = u.cur, w.nest = u.nest, r[u.cur] \in DqResetting, OnlyMoves(p, r, u.cur)
  PROVE  DqNest(w, r)
BY DEF DqNest, OnlyMoves

LEMMA DqPlaces ==
  /\ DqPopCalls \cap Others(Receivers) = {}
  /\ "app" \notin DqResetting /\ "call_sched" \notin DqResetting
  /\ DqPushCalls \cap DqResetting = {} /\ DqPopCalls \cap DqResetting = {}
  /\ DqPushCalls \cap DqPopCalls = {}
  /\ DqResetting \cap SchedPlaces = {}
  /\ \A b \in DqPC : b \in RecvPlaces => b \in DqPopCalls
  /\ \A b \in DqPC : b \in SendPlaces => b \in DqPushCalls
BY DEF DqPushCalls, DqPopCalls, DqResetting, SendPlaces, RecvPlaces, SchedPlaces, DqPC, Others

(* An item is stored and a popper woken. *)
LEMMA DqGivesItem ==
  ASSUME DataQueueAssumption, IsFiniteSet(Thread), DqInv,
         putIndex' = DqIndex(putIndex + 1), getIndex' = getIndex,
         overrun' = (overrun \/ DqCount = DqSize), waiting' = waiting, fault' = fault,
         Sound(k', pc'), Wakes(k, k', First(k, Receivers)), k'.err = k.err,
         DqNest(k', pc'), Remain(pc, pc', DqPopCalls)
  PROVE  DqCalls'
<1>1. /\ CallsAssumption /\ Sound(k, pc) /\ KernelOK(k)
      /\ Me \in Thread /\ pc \in [Thread -> DqPC] /\ Calm(k)
      /\ DqSize \in Nat /\ DqSize > 0 /\ DqCount \in Nat /\ (~overrun => DqCount <= DqSize)
      /\ Lwm \in Nat /\ Lwm <= DqSize /\ DqRingOK
      /\ Receivers \in {Receivers, Senders} /\ Senders \in {Receivers, Senders}
      /\ DqMarked(k)
  BY DqFacts
<1>2. Calm(k')
  BY <1>1, CalmWakes
<1>3. /\ DqCount' \in Int /\ DqCount' <= DqCount + 1
      /\ ~overrun' => ~overrun /\ DqCount' = DqCount + 1
  <2>1. DqCount' = IF DqCount = IndexRange - 1 THEN 0 ELSE DqCount + 1
    BY <1>1, DqCounts DEF DqRingOK, DqCount
  <2>2. DqSize < IndexRange /\ IndexRange \in Nat
    BY DEF DataQueueAssumption
  <2>3. ~overrun' => ~overrun /\ DqCount # DqSize
    OBVIOUS
  <2> QED BY <1>1, <2>1, <2>2, <2>3
<1>4. Matched(DqCount, k, pc, DqPopCalls, Receivers)
  BY DqFacts
<1>5. WaitAt(k, pc, DqPopCalls, Receivers)
  BY <1>1, DqPlaces DEF Sound, WaitAt
<1>6. Matched(DqCount', k', pc', DqPopCalls, Receivers)
  <2>1. DqCount \in Int /\ DqCount' \in Int /\ DqCount' <= DqCount + 1
    BY <1>1, <1>3
  <2> QED BY <1>1, <1>4, <1>5, <2>1, MatchedGiven
<1>7. DqMarked(k)'
  <2>1. \A t \in Thread : Waits(k', Senders, t) => Waits(k, Senders, t)
    BY <1>1 DEF Wakes
  <2>2. ASSUME ~overrun', DqCount > Lwm \/ DqFull \/ fault # "none"
        PROVE  DqCount' > Lwm \/ fault' # "none"
    <3>1. DqFull => DqCount = DqSize
      BY <1>1, DqCounts DEF DqRingOK
    <3> QED BY <1>1, <1>3, <2>2, <3>1
  <2> QED BY <1>1, <1>3, <2>1, <2>2 DEF DqMarked
<1> QED BY <1>2, <1>6, <1>7 DEF DqCalls

(* An item is fetched, and a pusher woken at the low water mark.           *)
LEMMA DqTakesItem ==
  ASSUME DataQueueAssumption, IsFiniteSet(Thread), DqInv, OnePusher,
         putIndex' = putIndex, getIndex' = DqIndex(getIndex + 1), overrun' = overrun, DqCount > 0,
         waiting' = (waiting /\ ~DqAtMark(DqLeft)),
         fault' = (IF DqMasks(DqLeft) THEN "masked" ELSE fault),
         NEW X, Awakens(k, pc, k', X), Sound(k', pc'),
         DqAtMark(DqLeft) /\ ~DqMasks(DqLeft) => X = First(k, Senders),
         DqNest(k', pc'), OnlyMoves(pc, pc', Me)
  PROVE  DqCalls'
<1>1. /\ CallsAssumption /\ Sound(k, pc) /\ KernelOK(k)
      /\ Me \in Thread /\ pc \in [Thread -> DqPC] /\ Calm(k)
      /\ DqSize \in Nat /\ DqSize > 0 /\ DqCount \in Nat /\ (~overrun => DqCount <= DqSize)
      /\ Lwm \in Nat /\ Lwm <= DqSize /\ DqRingOK
      /\ Receivers \in {Receivers, Senders} /\ Senders \in {Receivers, Senders}
      /\ DqMarked(k) /\ DqCallers
  BY DqFacts
<1>2. Calm(k')
  BY <1>1, CalmWakes DEF Awakens
<1>3. DqCount' = DqCount - 1 /\ DqLeft \in Int /\ (DqLeft >= 0 => DqLeft = DqCount')
  <2>1. DqCount' = DqIndex(putIndex - DqIndex(getIndex + 1))
    BY DEF DqCount
  <2> QED BY <1>1, <2>1, DqCounts DEF DqRingOK
<1>4. Matched(DqCount, k, pc, DqPopCalls, Receivers)
  BY DqFacts
<1>6. Matched(DqCount', k', pc', DqPopCalls, Receivers)
  <2>1. DqCount \in Int /\ DqCount' \in Int /\ DqCount' <= DqCount - 1
    BY <1>1, <1>3
  <2>2. DqPopCalls \cap Others(Receivers) = {}
    BY DqPlaces
  <2> QED BY <1>1, <1>4, <2>1, <2>2, MatchedWakesTaken
<1>7. ASSUME ~overrun', NEW t \in Thread, Waits(k', Senders, t)
      PROVE  waiting' /\ (DqCount' > Lwm \/ DqFull' \/ fault' # "none")
  <2>1. Waits(k, Senders, t) /\ t \notin X
    BY <1>1, <1>7 DEF Wakes, Awakens
  <2>2. Waiters(k, Senders) # <<>>
    BY <1>1, <2>1, WaitersFacts
  <2>3. ~DqMasks(DqLeft)
    BY <2>2 DEF DqMasks
  <2>4. ~DqAtMark(DqLeft)
    <3>1. SUFFICES ASSUME X = First(k, Senders) PROVE FALSE
      BY <2>3
    <3>2. PICK x \in First(k, Senders) : x \in Thread /\ Waits(k, Senders, x)
      BY <1>1, <2>1, WaitersFacts
    <3>3. t \in DqMayPush /\ x \in DqMayPush
      BY <1>1, <2>1, <3>2, DqPlaces DEF Sound, DqCallers
    <3> QED BY <2>1, <3>1, <3>2, <3>3 DEF OnePusher
  <2>5. waiting
    BY <1>1, <1>7, <2>1 DEF DqMarked
  <2>6. waiting' /\ ~(DqLeft <= Lwm)
    BY <2>4, <2>5 DEF DqAtMark
  <2> QED BY <1>1, <1>3, <2>6
<1>8. DqMarked(k)'
  BY <1>7 DEF DqMarked
<1> QED BY <1>2, <1>6, <1>8 DEF DqCalls

(* The current thread waits because the queue is full, *)
LEMMA DqQueuesPush ==
  ASSUME DataQueueAssumption, IsFiniteSet(Thread), DqInv,
         putIndex' = putIndex, getIndex' = getIndex, overrun' = overrun, DqFull, waiting' = TRUE,
         Sound(k', pc'), Joins(k, k', Senders),
         k'.err[Me] = "EOK", \A t \in Thread \ {Me} : k'.err[t] = k.err[t],
         OnlyMoves(pc, pc', Me), pc[Me] \notin DqPopCalls, DqNest(k', pc')
  PROVE  DqCalls'
<1>1. /\ CallsAssumption /\ Sound(k, pc) /\ KernelOK(k)
      /\ Me \in Thread /\ Calm(k) /\ Me = k.cur
      /\ DqCount \in Nat
      /\ Receivers \in {Receivers, Senders} /\ Senders \in {Receivers, Senders}
      /\ Receivers # Senders
  BY DqFacts
<1>2. Calm(k')
  BY <1>1, CalmJoins
<1>3. DqCount' = DqCount
  BY DEF DqCount
<1>4. Matched(DqCount, k, pc, DqPopCalls, Receivers)
  BY DqFacts
<1>5. OnlyMoves(pc, pc', k.cur) /\ OnlyMoves(k.err, k'.err, k.cur) /\ pc[k.cur] \notin DqPopCalls
  BY <1>1 DEF OnlyMoves
<1>6. Matched(DqCount, k', pc', DqPopCalls, Receivers)
  <2>1. DqCount \in Int /\ k.cur \in Thread
    BY <1>1
  <2> QED BY <1>1, <1>4, <1>5, <2>1, MatchedJoins
<1>7. DqMarked(k)'
  BY DEF DqMarked, DqFull
<1> QED BY <1>2, <1>3, <1>6, <1>7 DEF DqCalls

(* or empty. *)
LEMMA DqQueuesPop ==
  ASSUME DataQueueAssumption, IsFiniteSet(Thread), DqInv,
         putIndex' = putIndex, getIndex' = getIndex, overrun' = overrun, DqEmpty,
         waiting' = waiting, fault' = fault,
         Sound(k', pc'), Joins(k, k', Receivers),
         k'.err[Me] = "EOK", \A t \in Thread \ {Me} : k'.err[t] = k.err[t],
         DqNest(k', pc')
  PROVE  DqCalls'
<1>1. /\ CallsAssumption /\ Sound(k, pc) /\ KernelOK(k)
      /\ Me \in Thread /\ Calm(k) /\ Me = k.cur
      /\ DqCount \in Nat /\ DqRingOK
      /\ Receivers \in {Receivers, Senders} /\ Senders \in {Receivers, Senders}
      /\ Receivers # Senders /\ DqMarked(k)
  BY DqFacts
<1>2. Calm(k')
  BY <1>1, CalmJoins
<1>3. DqCount' = DqCount /\ DqCount' \in Int /\ DqCount' <= 0
  BY <1>1, DqCounts DEF DqCount, DqRingOK
<1>6. Matched(DqCount', k', pc', DqPopCalls, Receivers)
  BY <1>3, MatchedNothing
<1>7. DqMarked(k)'
  <2>1. \A t \in Thread : Waits(k', Senders, t) => Waits(k, Senders, t)
    BY <1>1 DEF Joins
  <2> QED BY <1>1, <2>1 DEF DqMarked, DqFull, DqCount
<1> QED BY <1>2, <1>6, <1>7 DEF DqCalls

(* The ring stays; threads are woken with an error or without a change of  *)
(* place.                                                                  *)
LEMMA DqRestful ==
  ASSUME DataQueueAssumption, IsFiniteSet(Thread), DqInv,
         putIndex' = putIndex, getIndex' = getIndex, overrun' = overrun, waiting => waiting',
         fault # "none" => fault' # "none",
         NEW X, Awakens(k, pc, k', X), Sound(k', pc'),
         Remain(pc, pc', DqPopCalls), DqNest(k', pc')
  PROVE  DqCalls'
<1>1. /\ CallsAssumption /\ Sound(k, pc) /\ KernelOK(k)
      /\ Calm(k) /\ DqCount \in Nat
      /\ Receivers \in {Receivers, Senders} /\ Senders \in {Receivers, Senders}
      /\ DqMarked(k)
  BY DqFacts
<1>2. Calm(k')
  BY <1>1, CalmWakes DEF Awakens
<1>3. DqCount' = DqCount
  BY DEF DqCount
<1>4. Matched(DqCount, k, pc, DqPopCalls, Receivers)
  BY DqFacts
<1>5. DqPopCalls \cap Others(Receivers) = {}
  BY DqPlaces
<1>6. Matched(DqCount, k', pc', DqPopCalls, Receivers)
  <2>1. DqCount \in Int /\ DqCount <= DqCount
    BY <1>1
  <2> QED BY <1>1, <1>4, <1>5, <2>1, MatchedWakes
<1>7. DqMarked(k)'
  <2>1. \A t \in Thread : Waits(k', Senders, t) => Waits(k, Senders, t)
    BY <1>1 DEF Wakes, Awakens
  <2> QED BY <1>1, <2>1 DEF DqMarked, DqFull, DqCount
<1> QED BY <1>2, <1>3, <1>6, <1>7 DEF DqCalls

(* The current thread leaves with an error. *)
LEMMA DqLeaves ==
  ASSUME DataQueueAssumption, IsFiniteSet(Thread), DqInv,
         putIndex' = putIndex, getIndex' = getIndex, overrun' = overrun,
         waiting' = waiting, fault' = fault,
         k' = k, Sound(k', pc'), OnlyMoves(pc, pc', Me), k.err[Me] # "EOK", DqNest(k', pc')
  PROVE  DqCalls'
<1>1. /\ Calm(k) /\ DqCount \in Nat /\ DqMarked(k)
  BY DqFacts
<1>3. DqCount' = DqCount /\ DqCount \in Int /\ DqCount <= DqCount
  BY <1>1 DEF DqCount
<1>4. Matched(DqCount, k, pc, DqPopCalls, Receivers)
  BY DqFacts
<1>5. WokenFor(k, pc, DqPopCalls, Receivers) \subseteq WokenFor(k', pc', DqPopCalls, Receivers)
  BY DEF WokenFor, OnlyMoves
<1>6. \A t \in Thread : Waits(k', Receivers, t) => \E x \in Thread : Waits(k, Receivers, x)
  OBVIOUS
<1>7. Matched(DqCount, k', pc', DqPopCalls, Receivers)
  BY <1>3, <1>4, <1>5, <1>6, MatchedKept
<1>8. DqMarked(k)'
  BY <1>1 DEF DqMarked, DqFull, DqCount
<1> QED BY <1>1, <1>3, <1>7, <1>8 DEF DqCalls

DqPlaced(p) ==
  /\ p \in [Thread -> DqPC] /\ p[Idle] = "app"
  /\ \A t \in Thread : p[t] \in DqPushCalls => t \in DqMayPush

LEMMA DqGo ==
  ASSUME DataQueueAssumption, DqInv, NEW b \in DqPC, pc' = [pc EXCEPT ![Me] = b], Me # Idle,
         b \in DqPushCalls => Me \in DqMayPush
  PROVE  /\ DqPlaced(pc') /\ pc'[Me] = b /\ OnlyMoves(pc, pc', Me)
<1>1. pc \in [Thread -> DqPC] /\ Idle \in Thread /\ Me \in Thread /\ DqCallers
  BY DqFacts, CallFacts
<1> QED BY <1>1 DEF DqPlaced, DqCallers, OnlyMoves

LEMMA DqCallersKept ==
  ASSUME DataQueueAssumption, DqInv, DqPlaced(pc'), mail' \in [Thread -> Item], timed' \subseteq Thread,
         waiting' \in BOOLEAN, fault' \in {"none", "stray", "masked"}
  PROVE  DqCallers'
BY DEF DqPlaced, DqCallers

LEMMA DqPatience ==
  ASSUME DataQueueAssumption, DqInv, NEW b, Patience(b)
  PROVE  timed' \subseteq Thread
<1>1. Me \in Thread /\ timed \subseteq Thread
  BY DqFacts DEF DqCallers
<1> QED BY <1>1 DEF Patience

DqGood == DqInv' /\ DqMove

LEMMA DqParts ==
  ASSUME DataQueueAssumption, SizeFits, DqInv, DqCalls', DqCallers',
         (\E x \in Item : DqStores(x)) \/ DqFetches \/ DqRests
  PROVE  DqGood
<1>1. DqRingOK
  BY DqFacts
<1>2. DqRingOK' /\ DqMove
  BY <1>1, DqRing
<1> QED BY <1>2 DEF DqGood, DqInv

LEMMA DqPushes ==
  ASSUME DataQueueAssumption, SizeFits, IsFiniteSet(Thread), DqInv, NEW x \in Item,
         DqPushItem(x), pc[Me] \in {"app", "push_again"}, Me # Idle,
         UNCHANGED <<mail, timed>>
  PROVE  DqGood
<1>1. /\ CallsAssumption /\ Sound(k, pc) /\ DOMAIN pc = Thread /\ Me = k.cur
      /\ Me \in Thread /\ pc \in [Thread -> DqPC] /\ DqNest(k, pc) /\ DqCallers
      /\ Receivers \in {Receivers, Senders}
  BY DqFacts
<1>2. pc[Me] \notin SchedPlaces /\ pc[Me] \notin DqResetting
  BY DEF SchedPlaces, DqResetting
<1>3. DqStores(x) /\ Wake(Receivers) /\ waiting' = waiting /\ fault' = fault
  BY DEF DqPushItem, DqStores
<1>4. /\ Sound(k', pc') /\ Wakes(k, k', First(k, Receivers)) /\ k'.err = k.err
      /\ k'.cur = k.cur /\ pc'[Me] \in {"app", "call_sched"}
      /\ pc' \in {[pc EXCEPT ![Me] = "app"], [pc EXCEPT ![Me] = "call_sched"]}
  BY <1>1, <1>2, <1>3, WakeStep
<1>5. DqPlaced(pc') /\ OnlyMoves(pc, pc', Me)
  <2>1. PICK b \in {"app", "call_sched"} : pc' = [pc EXCEPT ![Me] = b]
    BY <1>4
  <2>2. b \in DqPC /\ b \notin DqPushCalls
    BY <2>1 DEF DqPC, DqPushCalls
  <2> QED BY <2>1, <2>2, DqGo
<1>6. DqCallers'
  BY <1>1, <1>3, <1>5, DqCallersKept DEF DqCallers
<1>7. DqNest(k', pc')
  <2>1. pc'[k.cur] \notin DqResetting /\ pc[k.cur] \notin DqResetting /\ k.cur \in Thread
        /\ k'.cur \in Thread /\ k'.nest = k.nest /\ OnlyMoves(pc, pc', k.cur)
    BY <1>1, <1>2, <1>4, <1>5 DEF DqResetting, Wakes
  <2> QED BY <1>1, <2>1, DqNestFree
<1>8. Remain(pc, pc', DqPopCalls)
  BY <1>1, <1>5 DEF Remain, OnlyMoves, DqPopCalls
<1>9. putIndex' = DqIndex(putIndex + 1) /\ getIndex' = getIndex /\ overrun' = (overrun \/ DqCount = DqSize)
  BY <1>3 DEF DqStores, DqStore
<1>10. DqCalls'
  BY <1>3, <1>4, <1>7, <1>8, <1>9, DqGivesItem
<1> QED BY <1>3, <1>6, <1>10, DqParts

LEMMA DqPops ==
  ASSUME DataQueueAssumption, SizeFits, IsFiniteSet(Thread), DqInv, OnePusher,
         DqPopItem, pc[Me] \in {"app", "pop_again"}, Me # Idle,
         UNCHANGED <<mail, timed>>
  PROVE  DqGood
<1>1. /\ CallsAssumption /\ Sound(k, pc) /\ DOMAIN pc = Thread /\ Me = k.cur /\ KernelOK(k)
      /\ Me \in Thread /\ pc \in [Thread -> DqPC] /\ DqNest(k, pc) /\ DqCallers
      /\ Senders \in {Receivers, Senders} /\ DqCount \in Nat /\ DqRingOK
  BY DqFacts
<1>2. pc[Me] \notin SchedPlaces /\ pc[Me] \notin DqResetting
  BY DEF SchedPlaces, DqResetting
<1>3. /\ DqFetches /\ DqWakePusher(DqLeft) /\ putIndex' = putIndex
      /\ getIndex' = DqIndex(getIndex + 1) /\ overrun' = overrun /\ DqCount > 0
  BY <1>1, DqCounts DEF DqPopItem, DqFetches, DqFetch, DqRingOK
<1>4. /\ waiting' = (waiting /\ ~DqAtMark(DqLeft))
      /\ fault' = (IF DqMasks(DqLeft) THEN "masked" ELSE fault)
  BY <1>3 DEF DqWakePusher
<1>5. PICK b \in {"app", "call_sched"} : Go(b)
  BY <1>3 DEF DqWakePusher
<1>6. b \in DqPC /\ b \notin DqPushCalls /\ b \notin DqResetting /\ pc' = [pc EXCEPT ![Me] = b]
  BY <1>5 DEF DqPC, DqPushCalls, DqResetting, Go
<1>7. DqPlaced(pc') /\ OnlyMoves(pc, pc', Me) /\ pc'[Me] = b
  BY <1>6, DqGo
<1>8. Sound(k, pc')
  BY <1>1, <1>2, <1>5, GoStep
<1>9. \E X : /\ Awakens(k, pc, k', X) /\ Sound(k', pc') /\ k'.cur = k.cur
             /\ DqAtMark(DqLeft) /\ ~DqMasks(DqLeft) => X = First(k, Senders)
  <2>1. CASE DqAtMark(DqLeft) /\ ~DqMasks(DqLeft)
    <3>1. k' = ListResume(k, Senders) /\ Waiters(k, Senders) # <<>>
      BY <1>3, <2>1 DEF DqWakePusher, DqMasks
    <3>2. /\ Wakes(k, k', First(k, Senders)) /\ Sound(k', pc') /\ k'.cur = k.cur /\ k'.err = k.err
      BY <1>1, <1>8, <3>1, WakesListResume
    <3>3. Awakens(k, pc, k', First(k, Senders))
      BY <1>1, <3>2 DEF Awakens
    <3> QED BY <3>2, <3>3
  <2>2. CASE ~(DqAtMark(DqLeft) /\ ~DqMasks(DqLeft))
    <3>1. k' = k
      BY <1>3, <2>2 DEF DqWakePusher
    <3>2. Wakes(k, k', {})
      BY <1>1, <3>1, WakesNobody
    <3>3. Awakens(k, pc, k', {})
      BY <1>1, <3>1, <3>2 DEF Awakens
    <3> QED BY <1>8, <2>2, <3>1, <3>3
  <2> QED BY <2>1, <2>2
<1>10. PICK X : /\ Awakens(k, pc, k', X) /\ Sound(k', pc') /\ k'.cur = k.cur
                /\ DqAtMark(DqLeft) /\ ~DqMasks(DqLeft) => X = First(k, Senders)
  BY <1>9
<1>11. DqCallers'
  <2>1. waiting' \in BOOLEAN /\ fault' \in {"none", "stray", "masked"}
    BY <1>1, <1>4 DEF DqCallers
  <2> QED BY <1>1, <1>7, <2>1, DqCallersKept DEF DqCallers
<1>12. DqNest(k', pc')
  <2>1. pc'[k.cur] \notin DqResetting /\ pc[k.cur] \notin DqResetting /\ k.cur \in Thread
        /\ k'.cur \in Thread /\ k'.nest = k.nest /\ OnlyMoves(pc, pc', k.cur)
    BY <1>1, <1>2, <1>6, <1>7, <1>10 DEF Wakes, Awakens
  <2> QED BY <1>1, <2>1, DqNestFree
<1>13. DqCalls'
  BY <1>3, <1>4, <1>7, <1>10, <1>12, DqTakesItem
<1> QED BY <1>3, <1>11, <1>13, DqParts

LEMMA DqPushWaits ==
  ASSUME DataQueueAssumption, SizeFits, IsFiniteSet(Thread), DqInv, NEW late,
         DqPushQueue(late), pc[Me] \in {"app", "push_again"}, Me \in DqMayPush, Me # Idle,
         mail' \in [Thread -> Item], timed' \subseteq Thread
  PROVE  DqGood
<1>1. /\ CallsAssumption /\ Sound(k, pc) /\ DOMAIN pc = Thread /\ Me = k.cur
      /\ Me \in Thread /\ DqNest(k, pc) /\ DqCallers
      /\ Senders \in {Receivers, Senders} /\ Receivers # Senders
  BY DqFacts
<1>2. /\ pc[Me] \notin SchedPlaces /\ pc[Me] \notin DqResetting /\ pc[Me] \notin DqPopCalls
      /\ "push_sched" \in SchedPlaces /\ "push_sched" \in SendPlaces
      /\ "push_sched" \in DqPC /\ "push_sched" \notin DqResetting
  BY DEF SchedPlaces, DqResetting, DqPopCalls, SendPlaces, DqPC
<1>3. /\ DqFull /\ waiting' = TRUE /\ k' = Block(k, Senders, Me, "FIFO", late)
      /\ Go("push_sched") /\ DqRests /\ fault' = fault
      /\ putIndex' = putIndex /\ getIndex' = getIndex /\ overrun' = overrun
  BY DEF DqPushQueue, DqRests, dqRing
<1>4. /\ Sound(k', pc') /\ Joins(k, k', Senders)
      /\ k'.err[Me] = "EOK" /\ \A t \in Thread \ {Me} : k'.err[t] = k.err[t]
  BY <1>1, <1>2, <1>3, BlockStep
<1>5. DqPlaced(pc') /\ OnlyMoves(pc, pc', Me) /\ pc'[Me] = "push_sched"
  BY <1>2, <1>3, DqGo DEF Go
<1>6. DqCallers'
  BY <1>1, <1>3, <1>5, DqCallersKept DEF DqCallers
<1>7. DqNest(k', pc')
  <2>1. pc'[k.cur] \notin DqResetting /\ pc[k.cur] \notin DqResetting /\ k.cur \in Thread
        /\ k'.cur \in Thread /\ k'.nest = k.nest /\ OnlyMoves(pc, pc', k.cur)
    BY <1>1, <1>2, <1>4, <1>5 DEF Joins
  <2> QED BY <1>1, <2>1, DqNestFree
<1>8. DqCalls'
  BY <1>2, <1>3, <1>4, <1>5, <1>7, DqQueuesPush
<1> QED BY <1>3, <1>6, <1>8, DqParts

LEMMA DqPopWaits ==
  ASSUME DataQueueAssumption, SizeFits, IsFiniteSet(Thread), DqInv, NEW late,
         DqPopQueue(late), pc[Me] \in {"app", "pop_again"}, Me # Idle,
         mail' \in [Thread -> Item], timed' \subseteq Thread
  PROVE  DqGood
<1>1. /\ CallsAssumption /\ Sound(k, pc) /\ DOMAIN pc = Thread /\ Me = k.cur
      /\ Me \in Thread /\ DqNest(k, pc) /\ DqCallers
      /\ Receivers \in {Receivers, Senders}
  BY DqFacts
<1>2. /\ pc[Me] \notin SchedPlaces /\ pc[Me] \notin DqResetting
      /\ "pop_sched" \in SchedPlaces /\ "pop_sched" \in RecvPlaces
      /\ "pop_sched" \in DqPC /\ "pop_sched" \notin DqResetting /\ "pop_sched" \notin DqPushCalls
  BY DEF SchedPlaces, DqResetting, DqPushCalls, RecvPlaces, DqPC
<1>3. /\ DqEmpty /\ waiting' = waiting /\ k' = Block(k, Receivers, Me, "FIFO", late)
      /\ Go("pop_sched") /\ DqRests /\ fault' = fault
      /\ putIndex' = putIndex /\ getIndex' = getIndex /\ overrun' = overrun
  BY DEF DqPopQueue, DqRests, dqRing
<1>4. /\ Sound(k', pc') /\ Joins(k, k', Receivers)
      /\ k'.err[Me] = "EOK" /\ \A t \in Thread \ {Me} : k'.err[t] = k.err[t]
  BY <1>1, <1>2, <1>3, BlockStep
<1>5. DqPlaced(pc') /\ OnlyMoves(pc, pc', Me) /\ pc'[Me] = "pop_sched"
  BY <1>2, <1>3, DqGo DEF Go
<1>6. DqCallers'
  BY <1>1, <1>3, <1>5, DqCallersKept DEF DqCallers
<1>7. DqNest(k', pc')
  <2>1. pc'[k.cur] \notin DqResetting /\ pc[k.cur] \notin DqResetting /\ k.cur \in Thread
        /\ k'.cur \in Thread /\ k'.nest = k.nest /\ OnlyMoves(pc, pc', k.cur)
    BY <1>1, <1>2, <1>4, <1>5 DEF Joins
  <2> QED BY <1>1, <2>1, DqNestFree
<1>8. DqCalls'
  BY <1>3, <1>4, <1>7, DqQueuesPop
<1> QED BY <1>3, <1>6, <1>8, DqParts

(* A step that leaves the ring alone *)
LEMMA DqQuiet ==
  ASSUME DataQueueAssumption, SizeFits, IsFiniteSet(Thread), DqInv, DqRests, UNCHANGED <<mail, timed>>,
         waiting' \in BOOLEAN, waiting => waiting', fault' \in {fault, "stray"}, fault = "none",
         NEW X, Awakens(k, pc, k', X), Sound(k', pc'), DqPlaced(pc'),
         Remain(pc, pc', DqPopCalls), DqNest(k', pc')
  PROVE  DqGood
<1>1. DqCallers /\ putIndex' = putIndex /\ getIndex' = getIndex /\ overrun' = overrun
  BY DqFacts DEF DqRests
<1>2. DqCallers'
  BY <1>1, DqCallersKept DEF DqCallers
<1>3. DqCalls'
  BY <1>1, DqRestful
<1> QED BY <1>2, <1>3, DqParts

LEMMA DqStep ==
  ASSUME DataQueueAssumption, SizeFits, IsFiniteSet(Thread), OnePusher, DqInv, DqNext
  PROVE  DqInv' /\ DqMove
<1>1. /\ CallsAssumption /\ Sound(k, pc) /\ KernelOK(k) /\ DOMAIN pc = Thread
      /\ Me \in Thread /\ Me = k.cur /\ k.err \in [Thread -> Error] /\ pc \in [Thread -> DqPC]
      /\ DqCount \in Nat /\ DqRingOK
      /\ Receivers \in {Receivers, Senders} /\ Senders \in {Receivers, Senders}
      /\ DqNest(k, pc) /\ DqCallers
      /\ pc[Me] # "app" => Me # Idle
      /\ Me \in DqMayPush \cup DqMayPop => Me # Idle
  BY DqFacts
<1>2. fault = "none" /\ DqSteps
  BY DEF DqNext
<1>3. DqPlaced(pc) /\ mail \in [Thread -> Item] /\ timed \subseteq Thread /\ waiting \in BOOLEAN
  BY <1>1 DEF DqPlaced, DqCallers
<1>4. SUFFICES DqGood
  BY DEF DqGood
<1>5. ASSUME NEW x \in Item, DqPush(x) PROVE DqGood
  <2>1. pc[Me] = "app" /\ Me # Idle /\ DqPushItem(x) /\ UNCHANGED <<mail, timed>>
    BY <1>1, <1>5 DEF DqPush, At
  <2> QED BY <2>1, DqPushes
<1>6. ASSUME NEW x \in Item, DqPushWait(x) PROVE DqGood
  <2>1. PICK late \in BOOLEAN : DqPushQueue(late) /\ Patience(late)
    BY <1>6 DEF DqPushWait
  <2>2. pc[Me] = "app" /\ Me \in DqMayPush /\ Me # Idle /\ mail' \in [Thread -> Item]
    BY <1>1, <1>3, <1>6 DEF DqPushWait, At
  <2>3. timed' \subseteq Thread
    BY <2>1, DqPatience
  <2> QED BY <2>1, <2>2, <2>3, DqPushWaits
<1>7. ASSUME NEW x \in Item, DqIsrPush(x) PROVE DqGood
  <2>1. UNCHANGED <<pc, mail, timed, fault>>
    BY <1>7 DEF DqIsrPush
  <2>2. CASE ~DqFull /\ DqStore(x) /\ k' = ResumeOne(Receivers) /\ UNCHANGED waiting
    <3>1. /\ Wakes(k, k', First(k, Receivers)) /\ Sound(k', pc') /\ k'.err = k.err
          /\ k.nest # 0 => k'.cur = k.cur
      BY <1>1, <2>1, <2>2, WakesResumeOne
    <3>2. k'.cur \in Thread /\ k'.nest = k.nest
      BY <1>1, <3>1, SoundFacts DEF Wakes
    <3>3. DqNest(k', pc)
      BY <1>1, <3>1, <3>2, DqNestStays
    <3>4. /\ DqStores(x) /\ putIndex' = DqIndex(putIndex + 1) /\ getIndex' = getIndex
          /\ overrun' = (overrun \/ DqCount = DqSize)
      BY <2>2 DEF DqStores, DqStore
    <3>5. Remain(pc, pc', DqPopCalls) /\ DqNest(k', pc')
      BY <2>1, <3>3 DEF Remain
    <3>6. DqCalls'
      BY <2>1, <2>2, <3>1, <3>4, <3>5, DqGivesItem
    <3>7. DqCallers'
      BY <1>1, <2>1, <2>2 DEF DqCallers
    <3> QED BY <3>4, <3>6, <3>7, DqParts
  <2>3. CASE DqFull /\ waiting' = TRUE /\ UNCHANGED <<k, dqRing, last>>
    <3>1. Wakes(k, k', {}) /\ Sound(k', pc') /\ DqNest(k', pc') /\ DqPlaced(pc')
      BY <1>1, <1>3, <2>1, <2>3, WakesNobody
    <3>2. Awakens(k, pc, k', {}) /\ Remain(pc, pc', DqPopCalls)
      BY <1>1, <2>1, <2>3, <3>1 DEF Awakens, Remain
    <3>3. DqRests
      BY <2>3 DEF DqRests, dqRing
    <3> QED BY <1>2, <2>1, <2>3, <3>1, <3>2, <3>3, DqQuiet
  <2> QED BY <1>7, <2>2, <2>3 DEF DqIsrPush
<1>8. CASE DqPushFails
  <2>1. /\ waiting' = TRUE /\ k' = k /\ pc' = pc /\ UNCHANGED <<mail, timed>> /\ fault' = fault
        /\ DqRests
    BY <1>8 DEF DqPushFails, DqRests, dqRing
  <2>2. Wakes(k, k', {}) /\ Sound(k', pc') /\ DqNest(k', pc') /\ DqPlaced(pc')
    BY <1>1, <1>3, <2>1, WakesNobody
  <2>3. Awakens(k, pc, k', {}) /\ Remain(pc, pc', DqPopCalls)
    BY <1>1, <2>1, <2>2 DEF Awakens, Remain
  <2> QED BY <1>2, <2>1, <2>2, <2>3, DqQuiet
<1>9. CASE DqPushAgain
  <2>1. /\ pc[Me] = "push_again" /\ Me # Idle /\ UNCHANGED <<mail, timed>>
        /\ DqPushItem(mail[Me]) \/ DqPushQueue(Me \in timed)
    BY <1>1, <1>9 DEF DqPushAgain, At
  <2>2. Me \in DqMayPush /\ mail[Me] \in Item
    BY <1>1, <1>3, <2>1 DEF DqCallers, DqPushCalls
  <2>3. CASE DqPushItem(mail[Me])
    BY <2>1, <2>2, <2>3, DqPushes
  <2>4. CASE DqPushQueue(Me \in timed)
    <3> DEFINE late == Me \in timed
    <3>1. DqPushQueue(late) /\ mail' \in [Thread -> Item] /\ timed' \subseteq Thread
      BY <1>3, <2>1, <2>4
    <3> HIDE DEF late
    <3> QED BY <2>1, <2>2, <3>1, DqPushWaits
  <2> QED BY <2>1, <2>3, <2>4
<1>10. CASE DqPop
  <2>1. pc[Me] = "app" /\ Me # Idle /\ DqPopItem /\ UNCHANGED <<mail, timed>>
    BY <1>1, <1>10 DEF DqPop, At
  <2> QED BY <2>1, DqPops
<1>11. CASE DqPopWait
  <2>1. PICK late \in BOOLEAN : DqPopQueue(late) /\ Patience(late)
    BY <1>11 DEF DqPopWait
  <2>2. pc[Me] = "app" /\ Me # Idle /\ mail' \in [Thread -> Item]
    BY <1>1, <1>3, <1>11 DEF DqPopWait, At
  <2>3. timed' \subseteq Thread
    BY <2>1, DqPatience
  <2> QED BY <2>1, <2>2, <2>3, DqPopWaits
<1>12. CASE DqPopAgain
  <2>1. /\ pc[Me] = "pop_again" /\ Me # Idle /\ UNCHANGED <<mail, timed>>
        /\ DqPopItem \/ DqPopQueue(Me \in timed)
    BY <1>1, <1>12 DEF DqPopAgain, At
  <2>3. CASE DqPopItem
    BY <2>1, <2>3, DqPops
  <2>4. CASE DqPopQueue(Me \in timed)
    <3> DEFINE late == Me \in timed
    <3>1. DqPopQueue(late) /\ mail' \in [Thread -> Item] /\ timed' \subseteq Thread
      BY <1>3, <2>1, <2>4
    <3> HIDE DEF late
    <3> QED BY <2>1, <3>1, DqPopWaits
  <2> QED BY <2>1, <2>3, <2>4
<1>13. CASE DqIsrPop
  <2> DEFINE n == DqLeft
  <2>1. /\ DqFetches /\ UNCHANGED <<pc, mail, timed>> /\ putIndex' = putIndex
        /\ getIndex' = DqIndex(getIndex + 1) /\ overrun' = overrun /\ DqCount > 0
        /\ waiting' = (waiting /\ ~DqAtMark(n))
        /\ fault' = (IF DqMasks(n) THEN "masked" ELSE fault)
        /\ k' = (IF DqAtMark(n) /\ ~DqMasks(n) THEN Schedule(ListResume(k, Senders)) ELSE k)
    BY <1>1, <1>13, DqCounts DEF DqIsrPop, DqFetches, DqFetch, DqRingOK
  <2>2. \E X : /\ Awakens(k, pc, k', X) /\ Sound(k', pc')
               /\ k.nest # 0 => k'.cur = k.cur
               /\ DqAtMark(n) /\ ~DqMasks(n) => X = First(k, Senders)
    <3>1. CASE DqAtMark(n) /\ ~DqMasks(n)
      <4>1. k' = Schedule(ListResume(k, Senders)) /\ Waiters(k, Senders) # <<>>
        BY <2>1, <3>1 DEF DqMasks
      <4>2. /\ Wakes(k, k', First(k, Senders)) /\ Sound(k', pc) /\ k'.err = k.err
            /\ k.nest # 0 => k'.cur = k.cur
        BY <1>1, <4>1, WakesResumeSchedule
      <4>3. Awakens(k, pc, k', First(k, Senders)) /\ Sound(k', pc')
        BY <1>1, <2>1, <4>2 DEF Awakens
      <4> QED BY <4>2, <4>3
    <3>2. CASE ~(DqAtMark(n) /\ ~DqMasks(n))
      <4>1. k' = k /\ pc' = pc
        BY <2>1, <3>2
      <4>2. Wakes(k, k', {})
        BY <1>1, <4>1, WakesNobody
      <4>3. Awakens(k, pc, k', {})
        BY <1>1, <4>1, <4>2 DEF Awakens
      <4> QED BY <1>1, <3>2, <4>1, <4>3
    <3> QED BY <3>1, <3>2
  <2>3. PICK X : /\ Awakens(k, pc, k', X) /\ Sound(k', pc')
                 /\ k.nest # 0 => k'.cur = k.cur
                 /\ DqAtMark(n) /\ ~DqMasks(n) => X = First(k, Senders)
    BY <2>2
  <2>4. k'.cur \in Thread /\ k'.nest = k.nest /\ k.cur \in Thread
    BY <1>1, <2>3, SoundFacts DEF Wakes, Awakens
  <2>5. DqNest(k', pc)
    BY <1>1, <2>3, <2>4, DqNestStays
  <2>6. DqNest(k', pc') /\ OnlyMoves(pc, pc', Me)
    BY <2>1, <2>5 DEF OnlyMoves
  <2>7. DqCalls'
    BY <2>1, <2>3, <2>6, DqTakesItem
  <2>8. DqCallers'
    BY <1>1, <2>1 DEF DqCallers
  <2> QED BY <2>1, <2>7, <2>8, DqParts
<1>14. CASE DqWaitSchedule
  <2>1. /\ k' = Schedule(k) /\ UNCHANGED <<mail, timed>> /\ fault' = fault /\ waiting' = waiting
        /\ DqRests
    BY <1>14 DEF DqWaitSchedule, dqRing, DqRests
  <2>2. PICK b \in {"push_error", "pop_error"} :
          /\ Go(b)
          /\ pc[Me] = (IF b = "push_error" THEN "push_sched" ELSE "pop_sched")
    BY <1>14 DEF DqWaitSchedule, At
  <2>3. /\ pc[Me] \in RecvPlaces => b \in RecvPlaces
        /\ pc[Me] \in SendPlaces => b \in SendPlaces
        /\ b \in DqPC /\ pc[Me] \notin DqResetting /\ b \notin DqResetting
        /\ b \in DqPushCalls => pc[Me] \in DqPushCalls
        /\ pc[Me] \in DqPopCalls => b \in DqPopCalls
    BY <2>2 DEF RecvPlaces, SendPlaces, DqPC, DqResetting, DqPushCalls, DqPopCalls
  <2>4. k.nest = 0
    BY <1>1, <2>3 DEF DqNest
  <2>5. /\ Sound(k', pc') /\ Wakes(k, k', {}) /\ k'.err = k.err /\ pc'[Me] = b
    BY <1>1, <2>1, <2>2, <2>3, <2>4, ScheduleStep
  <2>6. DqPlaced(pc') /\ OnlyMoves(pc, pc', Me)
    BY <1>1, <2>2, <2>3, DqGo DEF Go, DqCallers
  <2>7. Awakens(k, pc, k', {}) /\ Remain(pc, pc', DqPopCalls)
    BY <1>1, <2>3, <2>5, <2>6 DEF Awakens, Remain, OnlyMoves
  <2>8. k'.cur \in Thread /\ k'.nest = k.nest
    BY <1>1, <2>5, SoundFacts DEF Wakes
  <2>9. DqNest(k', pc')
    BY <1>1, <2>3, <2>5, <2>6, <2>8, DqNestFree
  <2> QED BY <1>2, <1>3, <2>1, <2>5, <2>6, <2>7, <2>9, DqQuiet
<1>15. CASE DqReadError
  <2>1. /\ k' = k /\ UNCHANGED <<mail, timed>> /\ fault' = fault /\ waiting' = waiting /\ DqRests
    BY <1>15 DEF DqReadError, dqRing, DqRests
  <2>2. PICK b \in {"push_again", "pop_again", "app"} :
          /\ Go(b)
          /\ pc[Me] \in {"push_error", "pop_error"}
          /\ b = "app" <=> k.err[Me] # "EOK"
          /\ b = "push_again" => pc[Me] = "push_error"
          /\ b = "pop_again" => pc[Me] = "pop_error"
    BY <1>15 DEF DqReadError, At
  <2>3. /\ b \in DqPC /\ pc[Me] \notin DqResetting /\ b \notin DqResetting /\ pc[Me] \notin SchedPlaces
        /\ b \in DqPushCalls => pc[Me] \in DqPushCalls
        /\ b # "app" /\ pc[Me] \in DqPopCalls => b \in DqPopCalls
    BY <2>2 DEF DqPC, DqResetting, DqPushCalls, DqPopCalls, SchedPlaces
  <2>5. Sound(k', pc')
    BY <1>1, <2>1, <2>2, <2>3, GoStep
  <2>6. DqPlaced(pc') /\ OnlyMoves(pc, pc', Me) /\ pc'[Me] = b
    BY <1>1, <2>2, <2>3, DqGo DEF Go, DqCallers
  <2>8. k'.cur \in Thread /\ k'.nest = k.nest
    BY <1>1, <2>1
  <2>9. DqNest(k', pc')
    BY <1>1, <2>3, <2>6, <2>8, DqNestFree
  <2>10. CASE b = "app"
    <3>1. DqCalls'
      BY <2>1, <2>2, <2>5, <2>6, <2>9, <2>10, DqLeaves DEF DqRests
    <3>2. DqCallers'
      BY <1>1, <2>1, <2>6, DqCallersKept DEF DqCallers
    <3> QED BY <2>1, <3>1, <3>2, DqParts
  <2>11. CASE b # "app"
    <3>1. Wakes(k, k', {})
      BY <1>1, <2>1, WakesNobody
    <3>2. Awakens(k, pc, k', {}) /\ Remain(pc, pc', DqPopCalls)
      BY <1>1, <2>1, <2>3, <2>6, <2>11, <3>1 DEF Awakens, Remain, OnlyMoves
    <3> QED BY <1>2, <1>3, <2>1, <2>5, <2>6, <2>9, <3>2, DqQuiet
  <2> QED BY <2>10, <2>11
<1>16. CASE DqReturn
  <2>1. /\ CallSchedule /\ UNCHANGED <<mail, timed>> /\ fault' = fault /\ waiting' = waiting /\ DqRests
    BY <1>16 DEF DqReturn, dqRing, DqRests
  <2>2. /\ Sound(k', pc') /\ Wakes(k, k', {}) /\ k'.err = k.err
        /\ pc[Me] = "call_sched" /\ pc'[Me] = "app"
    BY <1>1, <2>1, ReturnStep
  <2>3. pc[Me] \notin DqResetting /\ "app" \in DqPC /\ "app" \notin DqResetting /\ "app" \notin DqPushCalls
        /\ pc[Me] \notin DqPopCalls
    BY <2>2 DEF DqPC, DqResetting, DqPushCalls, DqPopCalls
  <2>6. DqPlaced(pc') /\ OnlyMoves(pc, pc', Me)
    BY <1>1, <2>1, <2>2, <2>3, DqGo DEF CallSchedule, Go
  <2>7. Awakens(k, pc, k', {}) /\ Remain(pc, pc', DqPopCalls)
    BY <1>1, <2>2, <2>3, <2>6 DEF Awakens, Remain, OnlyMoves
  <2>8. k'.cur \in Thread /\ k'.nest = k.nest
    BY <1>1, <2>2, SoundFacts DEF Wakes
  <2>9. DqNest(k', pc')
    BY <1>1, <2>2, <2>3, <2>6, <2>8, DqNestFree
  <2> QED BY <1>2, <1>3, <2>1, <2>2, <2>6, <2>7, <2>9, DqQuiet
<1>17. CASE DqResetBegin
  <2> DEFINE w == [k EXCEPT !.nest = @ + 1]
  <2>1. /\ pc[Me] = "app" /\ Me # Idle /\ k' = w /\ Go("reset_pop")
        /\ UNCHANGED <<mail, timed>> /\ fault' = fault /\ waiting' = waiting /\ DqRests
    BY <1>17 DEF DqResetBegin, At, dqRing, DqRests
  <2>2. /\ pc[Me] \notin DqResetting /\ pc[Me] \notin SchedPlaces /\ pc[Me] \notin DqPopCalls
        /\ "reset_pop" \in DqResetting /\ "reset_pop" \in DqPC /\ "reset_pop" \notin DqPushCalls
    BY <2>1 DEF DqPC, DqResetting, DqPushCalls, DqPopCalls, SchedPlaces
  <2>3. Sound(k, pc')
    BY <1>1, <2>1, <2>2, GoStep
  <2>4. k.nest = 0 /\ k.nest + 1 = 1 /\ 1 \in Nat
    BY <1>1, <2>2 DEF DqNest
  <2>5. w = [k EXCEPT !.nest = 1]
    BY <2>4
  <2>6. /\ Sound(k', pc') /\ k'.nest = 1 /\ k'.cur = k.cur /\ k'.err = k.err /\ k'.stat = k.stat
        /\ \A q, t : Waits(k', q, t) <=> Waits(k, q, t)
    BY <1>1, <2>1, <2>3, <2>4, <2>5, SoundNest
  <2>7. DqPlaced(pc') /\ OnlyMoves(pc, pc', Me) /\ pc'[Me] = "reset_pop"
    BY <2>1, <2>2, DqGo DEF Go
  <2>8. DqNest(k', pc')
    BY <1>1, <2>2, <2>6, <2>7 DEF DqNest, OnlyMoves
  <2>9. DqCalls'
    <3>1. Calm(k) /\ Matched(DqCount, k, pc, DqPopCalls, Receivers) /\ DqMarked(k)
      BY DqFacts
    <3>2. Calm(k')
      BY <2>6, <3>1 DEF Calm
    <3>3. DqCount' = DqCount /\ DqCount \in Int /\ DqCount <= DqCount
      BY <1>1, <2>1 DEF DqCount, DqRests
    <3>4. WokenFor(k, pc, DqPopCalls, Receivers) \subseteq WokenFor(k', pc', DqPopCalls, Receivers)
      BY <2>2, <2>6, <2>7 DEF WokenFor, OnlyMoves
    <3>5. \A t \in Thread : Waits(k', Receivers, t) => \E x \in Thread : Waits(k, Receivers, x)
      BY <2>6
    <3>6. Matched(DqCount, k', pc', DqPopCalls, Receivers)
      BY <3>1, <3>3, <3>4, <3>5, MatchedKept
    <3>7. DqMarked(k)'
      BY <2>1, <2>6, <3>1 DEF DqMarked, DqCount, DqFull, DqRests
    <3> QED BY <2>6, <2>8, <3>2, <3>3, <3>6, <3>7 DEF DqCalls
  <2>10. DqCallers'
    BY <1>1, <2>1, <2>7, DqCallersKept DEF DqCallers
  <2> QED BY <2>1, <2>9, <2>10, DqParts
<1>18. CASE DqResetTest
  <2>1. /\ k' = k /\ UNCHANGED <<mail, timed>> /\ fault' = fault /\ waiting' = waiting /\ DqRests
    BY <1>18 DEF DqResetTest, dqRing, DqRests
  <2>2. PICK b \in {"wake_pop", "reset_push", "wake_push"} :
          Go(b) /\ pc[Me] \in {"reset_pop", "reset_push"}
    BY <1>18 DEF DqResetTest, At
  <2>3. /\ pc[Me] \in DqResetting /\ pc[Me] \notin SchedPlaces /\ pc[Me] \notin DqPopCalls /\ pc[Me] # "app"
        /\ b \in DqResetting /\ b \in DqPC /\ b \notin DqPushCalls
    BY <2>2 DEF DqPC, DqResetting, DqPushCalls, DqPopCalls, SchedPlaces
  <2>4. Sound(k', pc')
    BY <1>1, <2>1, <2>2, <2>3, GoStep
  <2>5. DqPlaced(pc') /\ OnlyMoves(pc, pc', Me) /\ pc'[Me] = b
    BY <1>1, <2>2, <2>3, DqGo DEF Go
  <2>6. DqNest(k', pc')
    BY <1>1, <2>1, <2>3, <2>5, DqNestLocked
  <2>7. Wakes(k, k', {})
    BY <1>1, <2>1, WakesNobody
  <2>8. Awakens(k, pc, k', {}) /\ Remain(pc, pc', DqPopCalls)
    BY <1>1, <2>1, <2>3, <2>5, <2>7 DEF Awakens, Remain, OnlyMoves
  <2> QED BY <1>2, <1>3, <2>1, <2>4, <2>5, <2>6, <2>8, DqQuiet
<1>19. CASE DqResetWake
  <2>1. /\ UNCHANGED <<mail, timed>> /\ waiting' = waiting /\ DqRests
    BY <1>19 DEF DqResetWake, dqRing, DqRests
  <2>2. PICK q \in {Receivers, Senders}, b \in {"reset_pop", "reset_push"} :
          DqWakeFirst(q, b) /\ pc[Me] \in {"wake_pop", "wake_push"}
    BY <1>1, <1>19 DEF DqResetWake, At
  <2>3. /\ pc[Me] \in DqResetting /\ pc[Me] \notin SchedPlaces /\ pc[Me] \notin DqPopCalls /\ pc[Me] # "app"
        /\ b \in DqResetting /\ b \in DqPC /\ b \notin DqPushCalls
    BY <2>2 DEF DqPC, DqResetting, DqPushCalls, DqPopCalls, SchedPlaces
  <2>4. Go(b) /\ Sound(k, pc')
    BY <1>1, <2>2, <2>3, GoStep DEF DqWakeFirst
  <2>5. DqPlaced(pc') /\ OnlyMoves(pc, pc', Me) /\ pc'[Me] = b
    BY <1>1, <2>3, <2>4, DqGo DEF Go
  <2>6. \E X : /\ Awakens(k, pc, k', X) /\ Sound(k', pc') /\ k'.cur = k.cur /\ fault' \in {fault, "stray"}
    <3>1. CASE Waiters(k, q) # <<>>
      <4>1. k' = ResumeFirstWithError(k, q) /\ fault' = fault
        BY <2>2, <3>1 DEF DqWakeFirst
      <4> DEFINE w == ResumeFirstWithError(k, q)
      <4>1a. /\ Wakes(k, w, First(k, q)) /\ Sound(w, pc')
             /\ w.cur = k.cur /\ (k.stat[k.cur] = "READY" => w.stat[w.cur] = "READY")
             /\ \A t \in First(k, q) : w.err[t] = "ERROR"
             /\ \A t \in Thread \ First(k, q) : w.err[t] = k.err[t]
             /\ Len(Waiters(w, q)) = Len(Waiters(k, q)) - 1
        BY <1>1, <2>4, <3>1, WakesFirstError
      <4>1b. k' = w
        BY <4>1
      <4> HIDE DEF w
      <4>2. /\ Wakes(k, k', First(k, q)) /\ Sound(k', pc') /\ k'.cur = k.cur
            /\ \A t \in Thread \ First(k, q) : k'.err[t] = k.err[t]
        BY <4>1a, <4>1b
      <4>3. Awakens(k, pc, k', First(k, q))
        BY <1>1, <4>2 DEF Awakens
      <4> QED BY <4>1, <4>2, <4>3
    <3>2. CASE Waiters(k, q) = <<>>
      <4>1. k' = k /\ fault' = "stray"
        BY <2>2, <3>2 DEF DqWakeFirst
      <4>2. Wakes(k, k', {})
        BY <1>1, <4>1, WakesNobody
      <4>3. Awakens(k, pc, k', {})
        BY <1>1, <4>1, <4>2 DEF Awakens
      <4> QED BY <2>4, <4>1, <4>3
    <3> QED BY <3>1, <3>2
  <2>7. PICK X : Awakens(k, pc, k', X) /\ Sound(k', pc') /\ k'.cur = k.cur /\ fault' \in {fault, "stray"}
    BY <2>6
  <2>8. DqNest(k', pc')
    <3>1. k'.nest = k.nest
      BY <2>7 DEF Awakens, Wakes
    <3> QED BY <1>1, <2>3, <2>5, <2>7, <3>1, DqNestLocked
  <2>9. Remain(pc, pc', DqPopCalls)
    BY <1>1, <2>3, <2>5 DEF Remain, OnlyMoves
  <2> QED BY <1>2, <1>3, <2>1, <2>5, <2>7, <2>8, <2>9, DqQuiet
<1>20. CASE DqResetEnd
  <2> DEFINE w == [k EXCEPT !.nest = @ - 1]
  <2>1. /\ pc[Me] = "reset_push" /\ k' = Schedule(w) /\ Go("app")
        /\ UNCHANGED <<mail, timed>> /\ fault' = fault /\ waiting' = waiting /\ DqRests
    BY <1>20 DEF DqResetEnd, At, dqRing, DqRests
  <2>2. /\ pc[Me] \in DqResetting /\ pc[Me] \notin SchedPlaces /\ pc[Me] \notin DqPopCalls /\ pc[Me] # "app"
        /\ "app" \notin DqResetting /\ "app" \in DqPC /\ "app" \notin DqPushCalls
    BY <2>1 DEF DqPC, DqResetting, DqPushCalls, DqPopCalls, SchedPlaces
  <2>3. Sound(k, pc')
    BY <1>1, <2>1, <2>2, GoStep
  <2>4. k.nest = 1 /\ k.nest - 1 = 0 /\ 0 \in Nat
    BY <1>1, <2>2 DEF DqNest
  <2>5. w = [k EXCEPT !.nest = 0]
    BY <2>4
  <2>6. /\ Sound(w, pc') /\ w.nest = 0 /\ w.cur = k.cur /\ w.err = k.err /\ w.stat = k.stat
        /\ \A q, t : Waits(w, q, t) <=> Waits(k, q, t)
    BY <1>1, <2>3, <2>4, <2>5, SoundNest
  <2> HIDE DEF w
  <2>6a. Sound(k', pc') /\ Wakes(w, k', {}) /\ k'.err = k.err
    BY <1>1, <2>1, <2>6, WakesSchedule
  <2>6b. /\ k'.nest = 0 /\ k'.cur \in Thread
         /\ \A q \in {Receivers, Senders}, t \in Thread : Waits(k', q, t) <=> Waits(k, q, t)
    BY <1>1, <2>6, <2>6a, SoundFacts DEF Wakes
  <2>7. DqPlaced(pc') /\ OnlyMoves(pc, pc', Me) /\ pc'[Me] = "app"
    BY <1>1, <2>1, <2>2, DqGo DEF Go
  <2>8. DqNest(k', pc')
    <3>1. \A t \in Thread : pc'[t] \notin DqResetting
      BY <1>1, <2>2, <2>7 DEF DqNest, OnlyMoves
    <3> QED BY <2>6b, <3>1 DEF DqNest
  <2>9. DqCalls'
    <3>1. Calm(k) /\ Matched(DqCount, k, pc, DqPopCalls, Receivers) /\ DqMarked(k)
      BY DqFacts
    <3>2. Calm(k')
      BY <1>1, <2>6a, <2>6b, <3>1 DEF Calm
    <3>3. DqCount' = DqCount /\ DqCount \in Int /\ DqCount <= DqCount
      BY <1>1, <2>1 DEF DqCount, DqRests
    <3>4. WokenFor(k, pc, DqPopCalls, Receivers) \subseteq WokenFor(k', pc', DqPopCalls, Receivers)
      BY <1>1, <2>2, <2>6a, <2>6b, <2>7 DEF WokenFor, OnlyMoves
    <3>5. \A t \in Thread : Waits(k', Receivers, t) => \E x \in Thread : Waits(k, Receivers, x)
      BY <1>1, <2>6b
    <3>6. Matched(DqCount, k', pc', DqPopCalls, Receivers)
      BY <3>1, <3>3, <3>4, <3>5, MatchedKept
    <3>7. DqMarked(k)'
      BY <1>1, <2>1, <2>6b, <3>1 DEF DqMarked, DqCount, DqFull, DqRests
    <3> QED BY <2>6a, <2>8, <3>2, <3>3, <3>6, <3>7 DEF DqCalls
  <2>10. DqCallers'
    BY <1>1, <2>1, <2>7, DqCallersKept DEF DqCallers
  <2> QED BY <2>1, <2>9, <2>10, DqParts
<1>21. CASE DqTick
  <2>1. Tick /\ UNCHANGED <<mail, timed>> /\ fault' = fault /\ waiting' = waiting /\ DqRests
    BY <1>21 DEF DqTick, dqRing, DqRests
  <2>2. PICK X \in SUBSET Thread :
           /\ Wakes(k, k', X) /\ Sound(k', pc') /\ pc' = pc
           /\ \A t \in Thread \ X : k'.err[t] = k.err[t]
           /\ k.nest # 0 => k'.cur = k.cur
    BY <1>1, <2>1, TickStep
  <2>3. k'.cur \in Thread /\ k'.nest = k.nest
    BY <1>1, <2>2, SoundFacts DEF Wakes
  <2>4. DqNest(k', pc)
    BY <1>1, <2>2, <2>3, DqNestStays
  <2>5. Awakens(k, pc, k', X) /\ Remain(pc, pc', DqPopCalls) /\ DqPlaced(pc') /\ DqNest(k', pc')
    BY <1>1, <1>3, <2>2, <2>4 DEF Awakens, Remain
  <2> QED BY <1>2, <1>3, <2>1, <2>2, <2>5, DqQuiet
<1> QED BY <1>2, <1>5, <1>6, <1>7, <1>8, <1>9, <1>10, <1>11, <1>12, <1>13, <1>14, <1>15, <1>16,
           <1>17, <1>18, <1>19, <1>20, <1>21 DEF DqSteps

-----------------------------------------------------------------------------
(* The pipe                                                                *)

(* What one step does to the bytes s and to the bytes d delivered last;    *)
(* t and e are their values after it.                                      *)
PipeMove(s, t, d, e) ==
  \/ t = s /\ e = d
  \/ \E n \in 1 .. MaxRequest :
       n <= Len(s) /\ e = SubSeq(s, 1, n) /\ t = SubSeq(s, n + 1, Len(s))
  \/ \E n \in 1 .. MaxRequest : \E a \in [1 .. n -> Byte] :
       Len(s) + Len(a) <= Size /\ t = s \o a /\ e = d

PipeReading == {"read_sched", "read_again"}
PipeWriting == {"write_sched", "write_again"}

(* The threads inside a call are those that may make it, with a request.   *)
PipeInCall(p) ==
  \A t \in Thread :
    /\ p[t] \in PipeReading => t \in PipeMayRead /\ wants[t] \in 1 .. MaxRequest
    /\ p[t] \in PipeWriting => t \in PipeMayWrite /\ mail[t] \in PipeWritten

PipeInv ==
  /\ PipeTypeOK /\ Sound(k, pc) /\ k.nest = 0 /\ PipeInCall(pc) /\ Consistent(ring)

LEMMA PipeFacts ==
  ASSUME PipeAssumption, PipeInv
  PROVE  /\ CallsAssumption /\ RingAssumption /\ Sound(k, pc) /\ KernelOK(k)
         /\ DOMAIN pc = Thread /\ pc \in [Thread -> PipePC]
         /\ Me \in Thread /\ Me = k.cur /\ k.nest = 0
         /\ PipeTypeOK /\ PipeInCall(pc) /\ Consistent(ring) /\ ring \in Ring
         /\ wants \in [Thread -> 0 .. MaxRequest]
         /\ mail \in [Thread -> {<<>>} \cup PipeWritten]
         /\ last \in {<<>>} \cup PipeWritten
         /\ MaxRequest \in Nat /\ MaxRequest > 0
         /\ Receivers \in {Receivers, Senders} /\ Senders \in {Receivers, Senders}
         /\ Receivers # Senders
         /\ Me \in PipeMayRead \cup PipeMayWrite => Me # Idle
<1>1. CallsAssumption /\ Sound(k, pc) /\ pc \in [Thread -> PipePC]
  BY DEF PipeAssumption, PipeInv, PipeTypeOK
<1>2. KernelOK(k) /\ k.cur \in Thread
  BY <1>1, SoundFacts
<1> QED BY <1>1, <1>2, CallFacts DEF PipeAssumption, PipeInv, PipeTypeOK, Me

LEMMA PipeIsWritten ==
  ASSUME PipeAssumption, NEW s \in Seq(Byte), Len(s) <= MaxRequest, Len(s) > 0
  PROVE  s \in [1 .. Len(s) -> Byte] /\ Len(s) \in 1 .. MaxRequest /\ s \in PipeWritten
<1>1. Len(s) \in 1 .. MaxRequest
  BY DEF PipeAssumption
<1>2. s \in [1 .. Len(s) -> Byte]
  OBVIOUS
<1> QED BY <1>1, <1>2 DEF PipeWritten

LEMMA PipeWrittenIsSeq ==
  ASSUME PipeAssumption, NEW s \in PipeWritten
  PROVE  s \in Seq(Byte) /\ Len(s) \in 1 .. MaxRequest
<1>1. PICK n \in 1 .. MaxRequest : s \in [1 .. n -> Byte]
  BY DEF PipeWritten
<1>2. n \in Nat
  BY DEF PipeAssumption
<1> QED BY <1>1, <1>2

-----------------------------------------------------------------------------
(* What a step does to the bytes *)
PipeData ==
  /\ ring' \in Ring /\ Consistent(ring') /\ last' \in {<<>>} \cup PipeWritten
  /\ PipeMove(PipeContents, PipeContents', last, last')

LEMMA PipeTransferData ==
  ASSUME PipeAssumption, PipeInv, NEW n \in 1 .. MaxRequest, PipeTransfer(n)
  PROVE  PipeData
<1> DEFINE m == AtMost(n, DataLen(ring))
<1>1. /\ ring \in Ring /\ Consistent(ring) /\ n \in Nat /\ RingAssumption
      /\ ring' = GetBytes(ring, n) /\ last' = Taken(ring, n) /\ DataLen(ring) > 0
      /\ MaxRequest \in Nat
  BY PipeFacts DEF PipeTransfer
<1>2. DataLen(ring) \in Nat /\ m \in 1 .. MaxRequest /\ m <= DataLen(ring)
  BY <1>1, LengthInRange DEF AtMost, RingAssumption
<1>3. /\ ring' \in Ring /\ Consistent(ring')
      /\ Stored(ring) \in Seq(Byte) /\ Len(Stored(ring)) = DataLen(ring)
      /\ last' = SubSeq(Stored(ring), 1, m)
      /\ Stored(ring') = SubSeq(Stored(ring), m + 1, DataLen(ring))
  BY <1>1, GetTakes
<1>3a. PipeContents = Stored(ring) /\ PipeContents' = Stored(ring')
  BY DEF PipeContents
<1> HIDE DEF m
<1>4. last' \in PipeWritten
  <2>1. last' \in Seq(Byte) /\ Len(last') = m
    BY <1>2, <1>3
  <2> QED BY <1>2, <2>1, PipeIsWritten
<1>5. PipeMove(PipeContents, PipeContents', last, last')
  BY <1>2, <1>3, <1>3a DEF PipeMove
<1> QED BY <1>3, <1>4, <1>5 DEF PipeData

LEMMA PipeStoreData ==
  ASSUME PipeAssumption, PipeInv, NEW s \in PipeWritten, PipeStore(s)
  PROVE  PipeData
<1> DEFINE a == Accepted(ring, s)
<1>1. /\ ring \in Ring /\ Consistent(ring) /\ RingAssumption
      /\ ring' = PutBytes(ring, s) /\ last' = last /\ last \in {<<>>} \cup PipeWritten
  BY PipeFacts DEF PipeStore
<1>2. s \in Seq(Byte) /\ Len(s) \in 1 .. MaxRequest
  BY PipeWrittenIsSeq
<1>3. /\ ring' \in Ring /\ Consistent(ring')
      /\ a \in Seq(Byte) /\ Len(a) = AtMost(Len(s), SpaceLen(ring))
      /\ DataLen(ring') = DataLen(ring) + Len(a)
      /\ Stored(ring') = Stored(ring) \o a
  BY <1>1, <1>2, PutAppends
<1>4. Stored(ring) \in Seq(Byte) /\ Len(Stored(ring)) = DataLen(ring)
  BY <1>1, GetTakes
<1>4a. PipeContents = Stored(ring) /\ PipeContents' = Stored(ring')
  BY DEF PipeContents
<1>5. /\ DataLen(ring) \in Nat /\ SpaceLen(ring) \in Nat /\ Size \in Nat
      /\ DataLen(ring) + SpaceLen(ring) = Size
  BY <1>1, LengthInRange DEF SpaceLen, RingAssumption
<1> HIDE DEF a
<1>6. Len(a) <= SpaceLen(ring) /\ Len(a) <= MaxRequest
  BY <1>2, <1>3, <1>5, PipeFacts DEF AtMost
<1>7. CASE Len(a) = 0
  <2>1. Stored(ring') = Stored(ring)
    <3>1. a = <<>>
      BY <1>3, <1>7
    <3> QED BY <1>3, <1>4, <3>1
  <2> QED BY <1>1, <1>3, <1>4a, <2>1 DEF PipeData, PipeMove
<1>8. CASE Len(a) > 0
  <2>1. a \in [1 .. Len(a) -> Byte] /\ Len(a) \in 1 .. MaxRequest
    BY <1>3, <1>6, <1>8, PipeIsWritten
  <2>2. Len(PipeContents) + Len(a) <= Size /\ PipeContents' = PipeContents \o a
    BY <1>3, <1>4, <1>4a, <1>5, <1>6
  <2>3. PipeMove(PipeContents, PipeContents', last, last')
    BY <1>1, <2>1, <2>2 DEF PipeMove
  <2> QED BY <1>1, <1>3, <2>3 DEF PipeData
<1> QED BY <1>3, <1>7, <1>8

LEMMA PipeQuietData ==
  ASSUME PipeInv, UNCHANGED <<ring, last>>
  PROVE  PipeData
BY DEF PipeInv, PipeTypeOK, PipeData, PipeMove, PipeContents

-----------------------------------------------------------------------------
(* While a thread waits there is nothing for it, if there is one reader    *)
(* and one writer.                                                         *)
PipeSingle == (\E r \in Thread : PipeMayRead = {r}) /\ (\E w \in Thread : PipeMayWrite = {w})

(* PipeNobodyStranded in terms of the queued threads *)
PipeUnstranded(u, r) ==
  \A t \in Thread :
    /\ Waits(u, Receivers, t) => DataLen(r) = 0
    /\ Waits(u, Senders, t) => SpaceLen(r) = 0

LEMMA PipeStrandedMeans ==
  ASSUME PipeAssumption, PipeInv, PipeUnstranded(k, ring)
  PROVE  PipeNobodyStranded
<1>1. CallsAssumption /\ KernelOK(k)
  BY PipeFacts
<1>2. /\ Waiters(k, Receivers) = <<>> <=> \A x \in Thread : ~Waits(k, Receivers, x)
      /\ Waiters(k, Senders) = <<>> <=> \A x \in Thread : ~Waits(k, Senders, x)
  BY <1>1, WaitersFacts
<1> QED BY <1>2 DEF PipeUnstranded, PipeNobodyStranded

LEMMA PipePlaces ==
  /\ \A b \in PipePC : b \in RecvPlaces => b \in PipeReading
  /\ \A b \in PipePC : b \in SendPlaces => b \in PipeWriting
  /\ PipeReading \cap PipeWriting = {} /\ "app" \notin PipeReading /\ "app" \notin PipeWriting
BY DEF PipePC, RecvPlaces, SendPlaces, PipeReading, PipeWriting

LEMMA PipeOneWaiter ==
  ASSUME PipeAssumption, PipeInv, PipeSingle, NEW q \in {Receivers, Senders}, NEW w,
         Wakes(k, w, First(k, q))
  PROVE  \A t \in Thread : ~Waits(w, q, t)
<1>1. CallsAssumption /\ KernelOK(k) /\ Sound(k, pc) /\ pc \in [Thread -> PipePC] /\ PipeInCall(pc)
      /\ Receivers # Senders
  BY PipeFacts
<1>2. SUFFICES ASSUME NEW t \in Thread, Waits(k, q, t), t \notin First(k, q) PROVE FALSE
  BY DEF Wakes
<1>3. PICK x \in First(k, q) : x \in Thread /\ Waits(k, q, x)
  BY <1>1, <1>2, WaitersFacts
<1>4. CASE q = Receivers
  <2>1. t \in PipeMayRead /\ x \in PipeMayRead
    BY <1>1, <1>2, <1>3, <1>4, PipePlaces DEF Sound, PipeInCall
  <2> QED BY <1>2, <1>3, <2>1 DEF PipeSingle
<1>5. CASE q = Senders
  <2>1. t \in PipeMayWrite /\ x \in PipeMayWrite
    BY <1>1, <1>2, <1>3, <1>5, PipePlaces DEF Sound, PipeInCall
  <2> QED BY <1>2, <1>3, <2>1 DEF PipeSingle
<1> QED BY <1>4, <1>5

LEMMA PipeLengths ==
  ASSUME PipeAssumption, NEW r \in Ring
  PROVE  /\ DataLen(r) \in 0 .. Size /\ SpaceLen(r) \in 0 .. Size /\ Size \in Nat \ {0}
         /\ DataLen(r) + SpaceLen(r) = Size
BY LengthInRange DEF SpaceLen, RingAssumption, PipeAssumption

LEMMA PipeTransferUnstranded ==
  ASSUME PipeAssumption, PipeInv, PipeSingle, PipeUnstranded(k, ring),
         NEW n \in 1 .. MaxRequest, PipeTransfer(n)
  PROVE  PipeUnstranded(k', ring')
<1>1. k' = ResumeOne(Senders) /\ DataLen(ring) > 0
  BY DEF PipeTransfer
<1>2. ring \in Ring /\ Sound(k, pc) /\ CallsAssumption
      /\ Senders \in {Receivers, Senders} /\ Receivers \in {Receivers, Senders}
  BY PipeFacts
<1>3. \A t \in Thread : ~Waits(k, Receivers, t)
  BY <1>1, <1>2, PipeLengths DEF PipeUnstranded
<1>4. Wakes(k, k', First(k, Senders))
  BY <1>1, <1>2, WakesResumeOne
<1>5. /\ \A t \in Thread : Waits(k', Receivers, t) => Waits(k, Receivers, t)
      /\ \A t \in Thread : ~Waits(k', Senders, t)
  BY <1>2, <1>4, PipeOneWaiter DEF Wakes
<1> QED BY <1>3, <1>5 DEF PipeUnstranded

LEMMA PipeStoreUnstranded ==
  ASSUME PipeAssumption, PipeInv, PipeSingle, PipeUnstranded(k, ring),
         NEW s \in PipeWritten, PipeStore(s)
  PROVE  PipeUnstranded(k', ring')
<1>1. k' = ResumeOne(Receivers) /\ ring' = PutBytes(ring, s)
  BY DEF PipeStore
<1>2. ring \in Ring /\ Sound(k, pc) /\ CallsAssumption
      /\ Senders \in {Receivers, Senders} /\ Receivers \in {Receivers, Senders}
  BY PipeFacts
<1>3. Wakes(k, k', First(k, Receivers))
  BY <1>1, <1>2, WakesResumeOne
<1>4. /\ \A t \in Thread : Waits(k', Senders, t) => Waits(k, Senders, t)
      /\ \A t \in Thread : ~Waits(k', Receivers, t)
  BY <1>2, <1>3, PipeOneWaiter DEF Wakes
<1>5. SpaceLen(ring) = 0 => ring' = ring
  BY <1>1 DEF PutBytes
<1> QED BY <1>4, <1>5 DEF PipeUnstranded

-----------------------------------------------------------------------------
(* The steps.  Each keeps PipeInv, moves bytes as a queue does, and        *)
(* strands nobody if there is one reader and one writer.                   *)
PipeKept == PipeInv' /\ (PipeSingle /\ PipeUnstranded(k, ring) => PipeUnstranded(k', ring'))

LEMMA PipeAssemble ==
  ASSUME PipeTypeOK, PipeData, CallsAssumption, Sound(k', pc'), k'.nest = 0, PipeInCall(pc)',
         pc' \in [Thread -> PipePC], flag' = flag,
         mail' \in [Thread -> {<<>>} \cup PipeWritten], wants' \in [Thread -> 0 .. MaxRequest]
  PROVE  PipeInv'
<1>1. k' \in Kernel
  BY SoundFacts
<1>2. PipeTypeOK'
  BY <1>1 DEF PipeTypeOK, PipeData
<1> QED BY <1>2 DEF PipeInv, PipeData

(* A thread that executes outside of the waits returns to "app" or stays.  *)
LEMMA PipeReturns ==
  ASSUME PipeAssumption, PipeInv,
         pc' = pc \/ (pc[Me] \notin SchedPlaces /\ Go("app"))
  PROVE  /\ Sound(k, pc') /\ pc' \in [Thread -> PipePC] /\ PipeInCall(pc')
<1>1. /\ CallsAssumption /\ Sound(k, pc) /\ DOMAIN pc = Thread /\ pc \in [Thread -> PipePC]
      /\ PipeInCall(pc) /\ Me \in Thread
  BY PipeFacts
<1>2. CASE pc' = pc
  BY <1>1, <1>2
<1>3. CASE pc[Me] \notin SchedPlaces /\ Go("app")
  <2>1. Sound(k, pc') /\ pc'[Me] = "app" /\ \A t \in Thread \ {Me} : pc'[t] = pc[t]
    BY <1>1, <1>3, GoStep
  <2>2. pc' \in [Thread -> PipePC]
    BY <1>1, <1>3 DEF Go, PipePC
  <2>3. PipeInCall(pc')
    BY <1>1, <2>1, PipePlaces DEF PipeInCall
  <2> QED BY <2>1, <2>2, <2>3
<1> QED BY <1>2, <1>3

LEMMA PipeMoves ==
  ASSUME PipeAssumption, PipeInv, PipeData,
         NEW q \in {Receivers, Senders}, k' = ResumeOne(q),
         UNCHANGED <<flag, mail, wants>>,
         pc' = pc \/ (pc[Me] \notin SchedPlaces /\ Go("app"))
  PROVE  PipeInv'
<1>1. CallsAssumption /\ PipeTypeOK /\ k.nest = 0
      /\ wants \in [Thread -> 0 .. MaxRequest] /\ mail \in [Thread -> {<<>>} \cup PipeWritten]
  BY PipeFacts
<1>2. Sound(k, pc') /\ pc' \in [Thread -> PipePC] /\ PipeInCall(pc')
  BY PipeReturns
<1>3. Sound(k', pc') /\ k'.nest = 0
  BY <1>1, <1>2, WakesResumeOne DEF Wakes
<1>4. PipeInCall(pc)'
  BY <1>2 DEF PipeInCall
<1> QED BY <1>1, <1>2, <1>3, <1>4, PipeAssemble

LEMMA PipeTransferKept ==
  ASSUME PipeAssumption, PipeInv, NEW n \in 1 .. MaxRequest, PipeTransfer(n),
         UNCHANGED <<flag, mail, wants>>,
         pc' = pc \/ (pc[Me] \notin SchedPlaces /\ Go("app"))
  PROVE  PipeKept /\ PipeData
<1>1. PipeData
  BY PipeTransferData
<1>2. Senders \in {Receivers, Senders} /\ k' = ResumeOne(Senders)
  BY DEF PipeTransfer
<1>3. PipeInv'
  BY <1>1, <1>2, PipeMoves
<1> QED BY <1>1, <1>3, PipeTransferUnstranded DEF PipeKept

LEMMA PipeStoreKept ==
  ASSUME PipeAssumption, PipeInv, NEW s \in PipeWritten, PipeStore(s),
         UNCHANGED <<flag, mail, wants>>,
         pc' = pc \/ (pc[Me] \notin SchedPlaces /\ Go("app"))
  PROVE  PipeKept /\ PipeData
<1>1. PipeData
  BY PipeStoreData
<1>2. Receivers \in {Receivers, Senders} /\ k' = ResumeOne(Receivers)
  BY DEF PipeStore
<1>3. PipeInv'
  BY <1>1, <1>2, PipeMoves
<1> QED BY <1>1, <1>3, PipeStoreUnstranded DEF PipeKept

(* The current thread is suspended. *)
LEMMA PipeWaits ==
  ASSUME PipeAssumption, PipeInv, NEW q \in {Receivers, Senders},
         pc[Me] \notin SchedPlaces, Me # Idle,
         NEW b \in PipePC, b \in SchedPlaces,
         b \in (IF q = Receivers THEN RecvPlaces ELSE SendPlaces),
         PipeSuspended(q, b)
  PROVE  /\ Sound(k', pc') /\ k'.nest = 0 /\ Joins(k, k', q) /\ PipeData
         /\ pc' \in [Thread -> PipePC]
         /\ pc'[Me] = b /\ \A t \in Thread \ {Me} : pc'[t] = pc[t]
<1>1. /\ CallsAssumption /\ Sound(k, pc) /\ DOMAIN pc = Thread /\ pc \in [Thread -> PipePC]
      /\ k.nest = 0 /\ Me = k.cur
  BY PipeFacts
<1>2. k' = ListSuspend(k, q, Me, "FIFO") /\ Go(b) /\ UNCHANGED <<ring, last>>
  BY DEF PipeSuspended
<1>3. /\ Me \in Thread /\ k.stat[Me] = "READY"
      /\ pc'[Me] = b /\ \A t \in Thread \ {Me} : pc'[t] = pc[t]
  BY <1>1, <1>2, GoStep
<1>4. Joins(k, k', q)
  BY <1>1, <1>2, <1>3, JoinsListSuspend
<1>5. Sound(k', [pc EXCEPT ![k.cur] = b])
  BY <1>1, <1>3, <1>4, SoundJoins
<1>6. pc' = [pc EXCEPT ![k.cur] = b]
  BY <1>1, <1>2 DEF Go
<1>7. pc' \in [Thread -> PipePC]
  BY <1>1, <1>6
<1> QED BY <1>1, <1>2, <1>3, <1>4, <1>5, <1>6, <1>7, PipeQuietData DEF Joins

LEMMA PipeReadWaits ==
  ASSUME PipeAssumption, PipeInv, pc[Me] \notin SchedPlaces, Me \in PipeMayRead,
         DataLen(ring) = 0, PipeSuspended(Receivers, "read_sched"),
         UNCHANGED <<flag, mail>>, NEW n \in 1 .. MaxRequest, wants' = [wants EXCEPT ![Me] = n]
  PROVE  PipeKept /\ PipeData
<1>1. /\ CallsAssumption /\ PipeTypeOK /\ Me \in Thread /\ Me # Idle /\ Me = k.cur /\ PipeInCall(pc)
      /\ wants \in [Thread -> 0 .. MaxRequest] /\ mail \in [Thread -> {<<>>} \cup PipeWritten]
      /\ Receivers \in {Receivers, Senders} /\ Receivers # Senders /\ MaxRequest \in Nat
  BY PipeFacts
<1>2. "read_sched" \in SchedPlaces /\ "read_sched" \in RecvPlaces /\ "read_sched" \in PipePC
      /\ "read_sched" \in PipeReading
  BY DEF SchedPlaces, RecvPlaces, PipePC, PipeReading
<1>3. /\ Sound(k', pc') /\ k'.nest = 0 /\ Joins(k, k', Receivers) /\ PipeData
      /\ pc' \in [Thread -> PipePC]
      /\ pc'[Me] = "read_sched" /\ \A t \in Thread \ {Me} : pc'[t] = pc[t]
  BY <1>1, <1>2, PipeWaits
<1>4. /\ wants' \in [Thread -> 0 .. MaxRequest] /\ mail' = mail
      /\ wants'[Me] = n /\ \A t \in Thread \ {Me} : wants'[t] = wants[t]
  BY <1>1
<1>5. PipeInCall(pc)'
  BY <1>1, <1>2, <1>3, <1>4, PipePlaces DEF PipeInCall
<1>6. PipeInv'
  BY <1>1, <1>3, <1>4, <1>5, PipeAssemble
<1>7. PipeUnstranded(k, ring) => PipeUnstranded(k', ring')
  BY <1>1, <1>3 DEF PipeUnstranded, PipeSuspended, Joins
<1> QED BY <1>3, <1>6, <1>7 DEF PipeKept

LEMMA PipeWriteWaits ==
  ASSUME PipeAssumption, PipeInv, pc[Me] \notin SchedPlaces, Me \in PipeMayWrite,
         SpaceLen(ring) = 0, PipeSuspended(Senders, "write_sched"),
         UNCHANGED <<flag, wants>>, NEW s \in PipeWritten, mail' = [mail EXCEPT ![Me] = s]
  PROVE  PipeKept /\ PipeData
<1>1. /\ CallsAssumption /\ PipeTypeOK /\ Me \in Thread /\ Me # Idle /\ Me = k.cur /\ PipeInCall(pc)
      /\ wants \in [Thread -> 0 .. MaxRequest] /\ mail \in [Thread -> {<<>>} \cup PipeWritten]
      /\ Senders \in {Receivers, Senders} /\ Receivers # Senders
  BY PipeFacts
<1>2. "write_sched" \in SchedPlaces /\ "write_sched" \in SendPlaces /\ "write_sched" \in PipePC
      /\ "write_sched" \in PipeWriting
  BY DEF SchedPlaces, SendPlaces, PipePC, PipeWriting
<1>3. /\ Sound(k', pc') /\ k'.nest = 0 /\ Joins(k, k', Senders) /\ PipeData
      /\ pc' \in [Thread -> PipePC]
      /\ pc'[Me] = "write_sched" /\ \A t \in Thread \ {Me} : pc'[t] = pc[t]
  BY <1>1, <1>2, PipeWaits
<1>4. /\ mail' \in [Thread -> {<<>>} \cup PipeWritten] /\ wants' = wants
      /\ mail'[Me] = s /\ \A t \in Thread \ {Me} : mail'[t] = mail[t]
  BY <1>1
<1>5. PipeInCall(pc)'
  BY <1>1, <1>2, <1>3, <1>4, PipePlaces DEF PipeInCall
<1>6. PipeInv'
  BY <1>1, <1>3, <1>4, <1>5, PipeAssemble
<1>7. PipeUnstranded(k, ring) => PipeUnstranded(k', ring')
  BY <1>1, <1>3 DEF PipeUnstranded, PipeSuspended, Joins
<1> QED BY <1>3, <1>6, <1>7 DEF PipeKept

LEMMA PipeStep ==
  ASSUME PipeAssumption, PipeInv, PipeNext
  PROVE  PipeKept /\ PipeData
<1>0. /\ CallsAssumption /\ PipeTypeOK /\ Sound(k, pc) /\ PipeInCall(pc) /\ Me \in Thread
      /\ pc \in [Thread -> PipePC] /\ DOMAIN pc = Thread /\ k.nest = 0 /\ Me = k.cur
      /\ wants \in [Thread -> 0 .. MaxRequest] /\ mail \in [Thread -> {<<>>} \cup PipeWritten]
  BY PipeFacts
<1>1. pc[Me] \in {"app", "read_again", "write_again"} => pc[Me] \notin SchedPlaces
  BY DEF SchedPlaces
<1>2. ASSUME NEW n \in 1 .. MaxRequest, PipeRead(n) \/ PipeIsrRead(n) PROVE PipeKept /\ PipeData
  BY <1>2, PipeTransferKept DEF PipeRead, PipeIsrRead
<1>3. ASSUME NEW n \in 1 .. MaxRequest, PipeReadWait(n) PROVE PipeKept /\ PipeData
  BY <1>1, <1>3, PipeReadWaits DEF PipeReadWait, At
<1>4. CASE PipeReadAgain
  <2>1. pc[Me] = "read_again" /\ UNCHANGED <<flag, mail, wants>>
    BY <1>4 DEF PipeReadAgain, At
  <2>2. Me \in PipeMayRead /\ wants[Me] \in 1 .. MaxRequest
    BY <1>0, <2>1 DEF PipeInCall, PipeReading
  <2>3. CASE PipeTransfer(wants[Me]) /\ Go("app")
    BY <1>1, <2>1, <2>2, <2>3, PipeTransferKept
  <2>4. CASE DataLen(ring) = 0 /\ PipeSuspended(Receivers, "read_sched")
    <3>1. wants' = [wants EXCEPT ![Me] = wants[Me]]
      BY <1>0, <2>1
    <3> QED BY <1>1, <2>1, <2>2, <2>4, <3>1, PipeReadWaits
  <2> QED BY <1>4, <2>3, <2>4 DEF PipeReadAgain
<1>5. ASSUME NEW s \in PipeWritten, PipeWrite(s) \/ PipeIsrWrite(s) PROVE PipeKept /\ PipeData
  BY <1>5, PipeStoreKept DEF PipeWrite, PipeIsrWrite
<1>6. ASSUME NEW s \in PipeWritten, PipeWriteWait(s) PROVE PipeKept /\ PipeData
  BY <1>1, <1>6, PipeWriteWaits DEF PipeWriteWait, At
<1>7. CASE PipeWriteAgain
  <2>1. pc[Me] = "write_again" /\ UNCHANGED <<flag, mail, wants>>
    BY <1>7 DEF PipeWriteAgain, At
  <2>2. Me \in PipeMayWrite /\ mail[Me] \in PipeWritten
    BY <1>0, <2>1 DEF PipeInCall, PipeWriting
  <2>3. CASE SpaceLen(ring) > 0 /\ PipeStore(mail[Me]) /\ Go("app")
    BY <1>1, <2>1, <2>2, <2>3, PipeStoreKept
  <2>4. CASE SpaceLen(ring) = 0 /\ PipeSuspended(Senders, "write_sched")
    <3>1. mail' = [mail EXCEPT ![Me] = mail[Me]]
      BY <1>0, <2>1
    <3> QED BY <1>1, <2>1, <2>2, <2>4, <3>1, PipeWriteWaits
  <2> QED BY <1>7, <2>3, <2>4 DEF PipeWriteAgain
<1>8. CASE PipeWaitSchedule
  <2>1. k' = Schedule(k) /\ UNCHANGED <<flag, ring, mail, wants, last>>
    BY <1>8 DEF PipeWaitSchedule
  <2>2. PICK b \in {"read_again", "write_again"} :
          Go(b) /\ pc[Me] = IF b = "read_again" THEN "read_sched" ELSE "write_sched"
    BY <1>8 DEF PipeWaitSchedule, At
  <2>3. /\ pc[Me] \in RecvPlaces => b \in RecvPlaces
        /\ pc[Me] \in SendPlaces => b \in SendPlaces
        /\ b \in PipeReading => pc[Me] \in PipeReading
        /\ b \in PipeWriting => pc[Me] \in PipeWriting
        /\ b \in PipePC
    BY <2>2 DEF RecvPlaces, SendPlaces, PipeReading, PipeWriting, PipePC
  <2>4. /\ Sound(k', pc') /\ Wakes(k, k', {})
        /\ pc'[Me] = b /\ \A t \in Thread \ {Me} : pc'[t] = pc[t]
    BY <1>0, <2>1, <2>2, <2>3, ScheduleStep
  <2>5. pc' \in [Thread -> PipePC]
    BY <1>0, <2>2, <2>3 DEF Go
  <2>6. PipeInCall(pc)'
    BY <1>0, <2>1, <2>3, <2>4 DEF PipeInCall
  <2>7. PipeData
    BY <2>1, PipeQuietData
  <2>8. k'.nest = 0
    BY <1>0, <2>4 DEF Wakes
  <2>9. PipeInv'
    BY <1>0, <2>1, <2>4, <2>5, <2>6, <2>7, <2>8, PipeAssemble
  <2>10. PipeUnstranded(k, ring) => PipeUnstranded(k', ring')
    BY <2>1, <2>4 DEF PipeUnstranded, Wakes
  <2> QED BY <2>7, <2>9, <2>10 DEF PipeKept
<1>9. CASE PipeYield
  <2>1. k' = Yield(k) /\ UNCHANGED <<pc, flag, ring, mail, wants, last>>
    BY <1>9 DEF PipeYield, TickYield
  <2>2. Sound(k', pc') /\ Wakes(k, k', {})
    BY <1>0, <2>1, WakesYield
  <2>3. PipeData
    BY <2>1, PipeQuietData
  <2>4. PipeInCall(pc)'
    BY <1>0, <2>1 DEF PipeInCall
  <2>5. k'.nest = 0
    BY <1>0, <2>2 DEF Wakes
  <2>6. PipeInv'
    BY <1>0, <2>1, <2>2, <2>3, <2>4, <2>5, PipeAssemble
  <2>7. PipeUnstranded(k, ring) => PipeUnstranded(k', ring')
    BY <2>1, <2>2 DEF PipeUnstranded, Wakes
  <2> QED BY <2>3, <2>6, <2>7 DEF PipeKept
<1> QED BY <1>2, <1>3, <1>4, <1>5, <1>6, <1>7, <1>8, <1>9 DEF PipeNext

LEMMA PipeStart ==
  ASSUME PipeAssumption, PipeInit
  PROVE  PipeInv /\ PipeUnstranded(k, ring) /\ PipeContents = <<>>
<1> DEFINE z == CHOOSE x \in Byte : TRUE
<1>1. CallsAssumption /\ RingAssumption /\ StartOK(PipeBoot) /\ Started(PipeBoot)
      /\ MaxRequest \in Nat
  BY DEF PipeAssumption, PipeInit
<1>2. /\ Sound(k, pc) /\ k.nest = 0 /\ k \in Kernel
      /\ \A t \in Thread : pc[t] = "app" /\ ~Waits(k, Receivers, t) /\ ~Waits(k, Senders, t)
  BY <1>1, StartedSound
<1>5. /\ ring = [buf |-> [i \in 0 .. Size - 1 |-> z], ri |-> 0, wi |-> 0, rm |-> FALSE, wm |-> FALSE]
      /\ z \in Byte
  BY <1>1 DEF PipeInit, NewRing, RingAssumption
<1> HIDE DEF z
<1>6. ring \in Ring /\ Consistent(ring) /\ DataLen(ring) = 0
  BY <1>1, <1>5 DEF Ring, Consistent, DataLen, RingAssumption
<1>7. PipeContents = <<>>
  <2>1. Stored(ring) \in Seq(Byte) /\ Len(Stored(ring)) = 0
    BY <1>1, <1>6, GetTakes
  <2> QED BY <2>1 DEF PipeContents
<1>8. PipeTypeOK
  <2>1. pc \in [Thread -> PipePC]
    BY <1>1 DEF Started, PipePC
  <2>2. 0 \in 0 .. MaxRequest
    BY <1>1
  <2> QED BY <1>2, <1>6, <2>1, <2>2 DEF PipeInit, PipeTypeOK
<1>9. PipeInCall(pc)
  BY <1>2, PipePlaces DEF PipeInCall
<1> QED BY <1>2, <1>6, <1>7, <1>8, <1>9 DEF PipeInv, PipeUnstranded
=============================================================================
