---------------------------- MODULE SemaphoreProofs ----------------------------
(***************************************************************************)
(* The safety of Semaphore for any number of threads, any priorities and   *)
(* either order of the wait list.                                          *)
(***************************************************************************)
EXTENDS Semaphore, KernelProofs, Integers, FiniteSetTheorems

(* What holds of the kernel record and of the threads' places whenever     *)
(* interrupts are enabled: the promises of KernelOps, and that the         *)
(* suspended threads are the queued ones, all inside rt_sem_take.          *)
Sound(u, p) ==
  /\ KernelOK(u)
  /\ u.nest = 0
  /\ u.stat[Idle] = "READY"
  /\ \A t \in Thread :
       /\ u.stat[t] \in {"READY", "SUSPEND"}
       /\ u.stat[t] = "SUSPEND" <=> IsIn(u.lists[Wait(Sem)], t)
       /\ u.stat[t] = "SUSPEND" => p[t] \in {"take_sched", "take_return"}
  /\ u.stat[u.cur] = "SUSPEND" => p[u.cur] = "take_sched"

NoUnitHeldBack(u, v) == v > 0 => Waiters(u, Sem) = <<>>

IInv == TypeOK /\ Sound(kern, place) /\ NoUnitHeldBack(kern, value)

LEMMA Facts ==
  /\ Sem \in WaitQueue /\ Idle \in Thread
  /\ ValueRange \in Nat /\ ValueRange > 0 /\ InitValue \in 0 .. ValueRange - 1
  /\ Wait(Sem) \in ListHeads
BY SemaphoreAssumption, HeadsAreHeads

LEMMA ModRange ==
  ASSUME NEW n \in Int
  PROVE  n % ValueRange \in 0 .. ValueRange - 1
BY Facts

-----------------------------------------------------------------------------
(* Soundness is kept by each kernel operation a step is made of.           *)

LEMMA WaitersFacts ==
  ASSUME NEW u, KernelOK(u)
  PROVE  /\ Waiters(u, Sem) = u.lists[Wait(Sem)]
         /\ Waiters(u, Sem) = <<>> <=> \A x \in Thread : ~IsIn(u.lists[Wait(Sem)], x)
         /\ Waiters(u, Sem) # <<>> =>
              /\ Waiters(u, Sem)[1] \in Thread
              /\ IsIn(u.lists[Wait(Sem)], Waiters(u, Sem)[1])
<1> DEFINE s == u.lists[Wait(Sem)]
<1>1. s \in Seq(Thread)
  BY Facts, KernelFields DEF KernelOK
<1>2. Waiters(u, Sem) = s
  BY DEF Waiters
<1> HIDE DEF s
<1>3. s = <<>> <=> \A x \in Thread : ~IsIn(s, x)
  BY <1>1, EmptyList
<1>4. s # <<>> => s[1] \in Thread /\ IsIn(s, s[1])
  BY <1>1 DEF IsIn
<1> QED BY <1>2, <1>3, <1>4 DEF s

(* The thread that is not on its way to rt_schedule is READY and may go    *)
(* to any place.                                                           *)
LEMMA SoundMove ==
  ASSUME NEW u, NEW p, NEW b, Sound(u, p), u.stat[u.cur] = "READY",
         DOMAIN p = Thread
  PROVE  Sound(u, [p EXCEPT ![u.cur] = b])
<1>1. u.cur \in Thread
  BY KernelFields DEF Sound, KernelOK
<1> QED BY <1>1 DEF Sound

LEMMA SoundReady ==
  ASSUME NEW u, NEW p, Sound(u, p), p[u.cur] # "take_sched"
  PROVE  u.stat[u.cur] = "READY"
<1>1. u.cur \in Thread
  BY KernelFields DEF Sound, KernelOK
<1> QED BY <1>1 DEF Sound

LEMMA SoundSchedule ==
  ASSUME NEW u, NEW p, Sound(u, p)
  PROVE  /\ Sound(Schedule(u), p)
         /\ Schedule(u).stat[Schedule(u).cur] = "READY"
         /\ Schedule(u).stat = u.stat /\ Schedule(u).lists = u.lists
<1> DEFINE w == Schedule(u)
<1>1. /\ KernelOK(w)
      /\ w.stat = u.stat /\ w.lists = u.lists /\ w.nest = u.nest
      /\ w.stat[w.cur] = "READY"
  BY Facts, ScheduleProperties DEF Sound
<1> HIDE DEF w
<1>2. Sound(w, p)
  BY <1>1 DEF Sound
<1> QED BY <1>1, <1>2 DEF w

(* A suspended thread x is made READY, by a resume or by its time-out.     *)
LEMMA SoundWake ==
  ASSUME NEW u, NEW p, Sound(u, p), NEW x \in Thread, NEW w,
         KernelOK(w), w.nest = u.nest,
         w.stat = Put(u.stat, x, "READY"),
         w.cur = u.cur \/ w.stat[w.cur] = "READY",
         \A t \in Thread :
           IsIn(w.lists[Wait(Sem)], t) <=> IsIn(u.lists[Wait(Sem)], t) /\ t # x
  PROVE  Sound(w, p)
<1>1. u.stat \in [Thread -> Stat] /\ u.cur \in Thread /\ w.cur \in Thread
  BY KernelFields DEF Sound, KernelOK
<1>2. w.stat[x] = "READY" /\ \A t \in Thread \ {x} : w.stat[t] = u.stat[t]
  BY <1>1 DEF Put
<1>3. \A t \in Thread : w.stat[t] = "SUSPEND" <=> u.stat[t] = "SUSPEND" /\ t # x
  BY <1>2
<1>4. w.stat[w.cur] = "SUSPEND" => p[w.cur] = "take_sched"
  BY <1>1, <1>3 DEF Sound
<1>5. w.stat[Idle] = "READY"
  BY <1>2, Facts DEF Sound
<1>6. ASSUME NEW t \in Thread
      PROVE  /\ w.stat[t] \in {"READY", "SUSPEND"}
             /\ w.stat[t] = "SUSPEND" <=> IsIn(w.lists[Wait(Sem)], t)
             /\ w.stat[t] = "SUSPEND" => p[t] \in {"take_sched", "take_return"}
  BY <1>2, <1>3 DEF Sound
<1> QED BY <1>4, <1>5, <1>6 DEF Sound

LEMMA SoundListResume ==
  ASSUME NEW u, NEW p, Sound(u, p), Waiters(u, Sem) # <<>>
  PROVE  LET w == ListResume(u, Sem)
         IN  Sound(w, p) /\ w.cur = u.cur /\ (u.stat[u.cur] = "READY" => w.stat[w.cur] = "READY")
<1> DEFINE x == Waiters(u, Sem)[1]
           w == ListResume(u, Sem)
<1>1. x \in Thread /\ u.stat[x] = "SUSPEND"
  BY WaitersFacts DEF Sound
<1>2. w = Resume(u, x)
  BY DEF ListResume
<1> HIDE DEF x, w
<1>3. KernelOK(u)
  BY DEF Sound
<1>4. /\ KernelOK(w)
      /\ w.stat = Put(u.stat, x, "READY")
      /\ w.cur = u.cur /\ w.nest = u.nest
      /\ \A q \in WaitQueue, t \in Thread :
           IsIn(w.lists[Wait(q)], t) <=> IsIn(u.lists[Wait(q)], t) /\ t # x
  BY <1>1, <1>2, <1>3, ResumeProperties
<1>5. Sound(w, p)
  BY <1>1, <1>4, Facts, SoundWake
<1>6. u.stat[u.cur] = "READY" => w.stat[w.cur] = "READY"
  BY <1>1, <1>3, <1>4, KernelFields DEF KernelOK, Put
<1> QED BY <1>4, <1>5, <1>6 DEF w

LEMMA SoundResumeFirst ==
  ASSUME NEW u, NEW p, Sound(u, p), Waiters(u, Sem) # <<>>
  PROVE  LET w == ResumeFirstWithError(u, Sem)
         IN  Sound(w, p) /\ w.cur = u.cur /\ (u.stat[u.cur] = "READY" => w.stat[w.cur] = "READY")
<1> DEFINE x == Waiters(u, Sem)[1]
           w == ResumeFirstWithError(u, Sem)
<1>1. x \in Thread /\ u.stat[x] = "SUSPEND" /\ KernelOK(u)
  BY WaitersFacts DEF Sound
<1>2. /\ KernelOK(w)
      /\ w.stat = Put(u.stat, x, "READY")
      /\ w.cur = u.cur /\ w.nest = u.nest
      /\ \A q \in WaitQueue, t \in Thread :
           IsIn(w.lists[Wait(q)], t) <=> IsIn(u.lists[Wait(q)], t) /\ t # x
  BY <1>1, Facts, ResumeFirstProperties
<1> HIDE DEF x, w
<1>3. Sound(w, p)
  BY <1>1, <1>2, Facts, SoundWake
<1>4. u.stat[u.cur] = "READY" => w.stat[w.cur] = "READY"
  BY <1>1, <1>2, KernelFields DEF KernelOK, Put
<1> QED BY <1>2, <1>3, <1>4 DEF w

LEMMA SoundTimeout ==
  ASSUME NEW u, NEW p, Sound(u, p), NEW x \in Thread, x \in u.armed
  PROVE  /\ Sound(Timeout(u, x), p)
         /\ \A t \in Thread : IsIn(Timeout(u, x).lists[Wait(Sem)], t)
                             => IsIn(u.lists[Wait(Sem)], t)
<1> DEFINE w == Timeout(u, x)
<1>1. KernelOK(u) /\ u.nest = 0
  BY DEF Sound
<1> HIDE DEF w
<1>3. /\ KernelOK(w)
      /\ w.stat = Put(u.stat, x, "READY")
      /\ w.nest = u.nest
      /\ w.stat[w.cur] = "READY"
      /\ \A q \in WaitQueue, t \in Thread :
           IsIn(w.lists[Wait(q)], t) <=> IsIn(u.lists[Wait(q)], t) /\ t # x
  BY <1>1, TimeoutProperties DEF w
<1>4. Sound(w, p)
  BY <1>3, Facts, SoundWake
<1> QED BY <1>3, <1>4, Facts DEF w

LEMMA SoundYield ==
  ASSUME NEW u, NEW p, Sound(u, p)
  PROVE  Sound(Yield(u), p) /\ Yield(u).lists[Wait(Sem)] = u.lists[Wait(Sem)]
<1> DEFINE w == Yield(u)
<1>1. KernelOK(u) /\ u.nest = 0
  BY DEF Sound
<1> HIDE DEF w
<1>3. /\ KernelOK(w)
      /\ w.stat = u.stat /\ w.nest = u.nest
      /\ w.cur = u.cur \/ w.stat[w.cur] = "READY"
      /\ \A q \in WaitQueue : w.lists[Wait(q)] = u.lists[Wait(q)]
  BY <1>1, YieldProperties DEF w
<1>4. w.lists[Wait(Sem)] = u.lists[Wait(Sem)]
  BY <1>3, Facts
<1>5. Sound(w, p)
  BY <1>3, <1>4 DEF Sound
<1> QED BY <1>4, <1>5 DEF w

(* rt_sem_take up to its rt_schedule: the thread that executes is queued.  *)
LEMMA SoundBlock ==
  ASSUME NEW u, NEW p, Sound(u, p), DOMAIN p = Thread, u.stat[u.cur] = "READY",
         u.cur # Idle, NEW flag, NEW timed
  PROVE  Sound(Block(u, Sem, u.cur, flag, timed), [p EXCEPT ![u.cur] = "take_sched"])
<1> DEFINE x == u.cur
           w == Block(u, Sem, x, flag, timed)
           r == [p EXCEPT ![x] = "take_sched"]
<1>1. KernelOK(u) /\ x \in Thread /\ u.stat[x] = "READY" /\ u.stat \in [Thread -> Stat]
  BY KernelFields DEF Sound, KernelOK
<1> HIDE DEF x
<1>0. w = Block(u, Sem, x, flag, timed)
  OBVIOUS
<1> HIDE DEF w
<1>2. /\ KernelOK(w)
      /\ w.stat = Put(u.stat, x, "SUSPEND")
      /\ w.cur = u.cur /\ w.nest = u.nest
      /\ \A o \in WaitQueue, t \in Thread :
           IsIn(w.lists[Wait(o)], t)
             <=> (IsIn(u.lists[Wait(o)], t) /\ t # x) \/ (o = Sem /\ t = x)
  <2>1. Sem \in WaitQueue
    BY Facts
  <2>2. KernelOK(u) /\ x \in Thread /\ u.stat[x] = "READY"
    BY <1>1
  <2> HIDE DEF r
  <2> QED BY <1>0, <2>1, <2>2, BlockProperties
<1> HIDE DEF r
<1>3. r[x] = "take_sched" /\ \A t \in Thread \ {x} : r[t] = p[t]
  BY <1>1 DEF r
<1>4. w.stat[x] = "SUSPEND" /\ \A t \in Thread \ {x} : w.stat[t] = u.stat[t]
  BY <1>1, <1>2 DEF Put
<1>5. w.cur = x /\ Idle # x
  BY <1>2 DEF x
<1>6. \A t \in Thread : IsIn(w.lists[Wait(Sem)], t) <=> IsIn(u.lists[Wait(Sem)], t) \/ t = x
  BY <1>2, Facts
<1>7. Sound(w, r)
  BY <1>1, <1>2, <1>3, <1>4, <1>5, <1>6, Facts DEF Sound
<1> QED BY <1>7 DEF w, r, x

-----------------------------------------------------------------------------
(* The inductive invariant *)

LEMMA InitInv == Init => IInv
<1> SUFFICES ASSUME Init PROVE IInv
  OBVIOUS
<1> DEFINE b == Booted(InitPrio, Boot)
<1>1. /\ KernelOK(b)
      /\ b.stat = [t \in Thread |-> "READY"]
      /\ b.nest = 0
      /\ \A q \in WaitQueue : b.lists[Wait(q)] = <<>>
  <2>1. BootOK(InitPrio, Boot) /\ Thread # {}
    BY SemaphoreAssumption
  <2> QED BY <2>1, BootedProperties
<1>2. kern = b
  BY DEF Init
<1> HIDE DEF b
<1>3. \A t \in Thread : ~IsIn(b.lists[Wait(Sem)], t)
  BY <1>1, Facts DEF IsIn
<1>4. Sound(kern, place)
  <2>1. b.cur \in Thread
    BY <1>1, KernelFields DEF KernelOK
  <2> QED BY <1>1, <1>2, <1>3, <2>1, Facts DEF Sound
<1>5. NoUnitHeldBack(kern, value)
  BY <1>1, <1>2, Facts DEF NoUnitHeldBack, Waiters
<1>6. TypeOK
  <2>1. kern \in Kernel
    BY <1>1, <1>2 DEF KernelOK
  <2>2. place \in [Thread -> PC]
    BY DEF Init, PC
  <2>3. 0 \in 0 .. ValueRange - 1
    BY Facts
  <2> QED BY <2>1, <2>2, <2>3, Facts DEF Init, TypeOK
<1> QED BY <1>4, <1>5, <1>6 DEF IInv

(* The part of a step that moves the current thread *)
LEMMA Moved ==
  ASSUME TypeOK, NEW a, NEW b, Step(a, b), b \in PC
  PROVE  /\ place[kern.cur] = a /\ place' = [place EXCEPT ![kern.cur] = b]
         /\ place' \in [Thread -> PC] /\ kern.cur \in Thread
         /\ DOMAIN place = Thread
BY KernelFields DEF TypeOK, Step

LEMMA IncRange ==
  ASSUME NEW n \in Int
  PROVE  Inc(n) \in 0 .. ValueRange - 1
BY ModRange DEF Inc

(* A step that leaves the kernel record alone *)
LEMMA QuietStep ==
  ASSUME IInv, UNCHANGED kern, NEW a, NEW b, Step(a, b), a # "take_sched", b \in PC,
         value' \in 0 .. ValueRange - 1, live' \in BOOLEAN, strayed' \in BOOLEAN,
         given' \in 0 .. ValueRange - 1, obtained' \in 0 .. ValueRange - 1,
         value' > 0 => value > 0 \/ Waiters(kern, Sem) = <<>>
  PROVE  IInv'
<1>1. /\ place[kern.cur] = a /\ place' = [place EXCEPT ![kern.cur] = b]
      /\ place' \in [Thread -> PC] /\ DOMAIN place = Thread
  BY Moved DEF IInv
<1>2. Sound(kern, place')
  BY <1>1, SoundReady, SoundMove DEF IInv
<1>3. TypeOK'
  BY <1>1 DEF IInv, TypeOK
<1>4. NoUnitHeldBack(kern', value')
  BY DEF IInv, NoUnitHeldBack
<1> QED BY <1>2, <1>3, <1>4 DEF IInv

(* A step that changes the kernel record and keeps the value *)
LEMMA KernelStep ==
  ASSUME IInv, Sound(kern', place'), place' \in [Thread -> PC], value' = value,
         live' \in BOOLEAN, strayed' \in BOOLEAN,
         given' \in 0 .. ValueRange - 1, obtained' \in 0 .. ValueRange - 1,
         value > 0 => Waiters(kern', Sem) = <<>>
  PROVE  IInv'
<1>1. kern' \in Kernel
  BY DEF Sound, KernelOK
<1>2. TypeOK'
  BY <1>1 DEF IInv, TypeOK
<1>3. NoUnitHeldBack(kern', value')
  BY DEF NoUnitHeldBack
<1> QED BY <1>2, <1>3 DEF IInv

(* Waking threads leaves an empty wait list empty. *)
LEMMA StillEmpty ==
  ASSUME NEW u, NEW w, KernelOK(u), KernelOK(w), Waiters(u, Sem) = <<>>,
         \A t \in Thread : IsIn(w.lists[Wait(Sem)], t) => IsIn(u.lists[Wait(Sem)], t)
  PROVE  Waiters(w, Sem) = <<>>
BY WaitersFacts

LEMMA NextInv == IInv /\ [Next]_vars => IInv'
<1> SUFFICES ASSUME IInv, [Next]_vars PROVE IInv'
  OBVIOUS
<1>0. /\ TypeOK /\ Sound(kern, place) /\ NoUnitHeldBack(kern, value) /\ KernelOK(kern)
      /\ value \in 0 .. ValueRange - 1 /\ given \in 0 .. ValueRange - 1
      /\ obtained \in 0 .. ValueRange - 1 /\ live \in BOOLEAN /\ strayed \in BOOLEAN
      /\ place \in [Thread -> PC] /\ ValueRange \in Nat /\ ValueRange > 0
  BY Facts DEF IInv, Sound, TypeOK
<1>1. CASE TakeNow
  <2>1. value' \in 0 .. ValueRange - 1
    BY <1>0, <1>1 DEF TakeNow
  <2>2. obtained' \in 0 .. ValueRange - 1
    BY <1>0, <1>1, IncRange DEF TakeNow
  <2> QED BY <1>0, <1>1, <2>1, <2>2, QuietStep DEF TakeNow, PC
<1>2. CASE TakeWait
  <2>1. Step("app", "take_sched") /\ kern.cur # Idle
    BY <1>2 DEF TakeWait
  <2>2. /\ place[kern.cur] = "app" /\ place' = [place EXCEPT ![kern.cur] = "take_sched"]
        /\ place' \in [Thread -> PC] /\ DOMAIN place = Thread
    BY <1>0, <2>1, Moved DEF PC
  <2>3. kern.stat[kern.cur] = "READY"
    BY <1>0, <2>2, SoundReady
  <2>4. PICK timed \in BOOLEAN : kern' = Block(kern, Sem, kern.cur, Flag, timed)
    BY <1>2 DEF TakeWait
  <2>5. Sound(kern', place')
    BY <1>0, <2>1, <2>2, <2>3, <2>4, SoundBlock
  <2> QED BY <1>0, <1>2, <2>2, <2>5, KernelStep DEF TakeWait, history
<1>3. CASE TakeSchedule
  <2>1. Step("take_sched", "take_return") /\ kern' = Schedule(kern)
    BY <1>3 DEF TakeSchedule
  <2>2. /\ place[kern.cur] = "take_sched" /\ place' = [place EXCEPT ![kern.cur] = "take_return"]
        /\ place' \in [Thread -> PC] /\ DOMAIN place = Thread /\ kern.cur \in Thread
    BY <1>0, <2>1, Moved DEF PC
  <2>3. /\ Sound(kern', place) /\ kern'.stat[kern'.cur] = "READY"
        /\ kern'.stat = kern.stat /\ kern'.lists = kern.lists
    BY <1>0, <2>1, SoundSchedule
  <2>4. Sound(kern', place')
    BY <2>2, <2>3 DEF Sound
  <2>5. Waiters(kern', Sem) = Waiters(kern, Sem)
    BY <2>3 DEF Waiters
  <2> QED BY <1>0, <1>3, <2>2, <2>4, <2>5, KernelStep
          DEF TakeSchedule, history, NoUnitHeldBack
<1>4. CASE TakeReturn
  <2>1. obtained' \in 0 .. ValueRange - 1
    BY <1>0, <1>4, IncRange DEF TakeReturn
  <2> QED BY <1>0, <1>4, <2>1, QuietStep DEF TakeReturn, PC
<1>5. CASE Release
  <2>1. given' \in 0 .. ValueRange - 1
    BY <1>0, <1>5, IncRange DEF Release, Hand
  <2>2. CASE Waiters(kern, Sem) # <<>>
    <3>1. Step("app", "call_sched") /\ kern' = ListResume(kern, Sem) /\ value' = value
      BY <1>5, <2>2 DEF Release, Hand
    <3>2. /\ place[kern.cur] = "app" /\ place' = [place EXCEPT ![kern.cur] = "call_sched"]
          /\ place' \in [Thread -> PC] /\ DOMAIN place = Thread
      BY <1>0, <3>1, Moved DEF PC
    <3>3. kern.stat[kern.cur] = "READY"
      BY <1>0, <3>2, SoundReady
    <3>4. Sound(kern', place) /\ kern'.cur = kern.cur /\ kern'.stat[kern'.cur] = "READY"
      BY <1>0, <2>2, <3>1, <3>3, SoundListResume
    <3>5. Sound(kern', place')
      BY <3>2, <3>4, SoundMove
    <3>6. ~(value > 0)
      BY <1>0, <2>2 DEF NoUnitHeldBack
    <3> QED BY <1>0, <1>5, <2>1, <3>1, <3>2, <3>5, <3>6, KernelStep DEF Release, Hand
  <2>3. CASE Waiters(kern, Sem) = <<>>
    <3>1. UNCHANGED <<kern, place>> /\ value' = Inc(value)
      BY <1>5, <2>3 DEF Release, Hand
    <3>2. value' \in 0 .. ValueRange - 1
      BY <1>0, <3>1, IncRange
    <3>3. TypeOK'
      BY <1>0, <1>5, <2>1, <3>1, <3>2 DEF TypeOK, Release, Hand
    <3> QED BY <1>0, <2>3, <3>1, <3>3 DEF IInv, NoUnitHeldBack
  <2> QED BY <2>2, <2>3
<1>6. CASE SemSchedule
  <2>1. Step("call_sched", "app") /\ kern' = Schedule(kern)
    BY <1>6 DEF SemSchedule
  <2>2. /\ place[kern.cur] = "call_sched" /\ place' = [place EXCEPT ![kern.cur] = "app"]
        /\ place' \in [Thread -> PC] /\ DOMAIN place = Thread /\ kern.cur \in Thread
    BY <1>0, <2>1, Moved DEF PC
  <2>3. Sound(kern, place')
    BY <1>0, <2>2, SoundReady, SoundMove
  <2>4. Sound(kern', place') /\ kern'.lists = kern.lists
    BY <2>1, <2>3, SoundSchedule
  <2>5. Waiters(kern', Sem) = Waiters(kern, Sem)
    BY <2>4 DEF Waiters
  <2> QED BY <1>0, <1>6, <2>2, <2>4, <2>5, KernelStep
          DEF SemSchedule, history, NoUnitHeldBack
<1>7. CASE ResetBegin
  BY <1>0, <1>7, QuietStep DEF ResetBegin, PC, history
<1>8. CASE ResetTurn
  <2>1. /\ Waiters(kern, Sem) # <<>> /\ kern' = ResumeFirstWithError(kern, Sem)
        /\ place' = place /\ value' = value
    BY <1>8 DEF ResetTurn
  <2>2. Sound(kern', place')
    BY <1>0, <2>1, SoundResumeFirst
  <2>3. ~(value > 0)
    BY <1>0, <2>1 DEF NoUnitHeldBack
  <2> QED BY <1>0, <1>8, <2>1, <2>2, <2>3, KernelStep DEF ResetTurn, history
<1>9. ASSUME NEW v \in 0 .. ValueRange - 1, ResetEnd(v)
      PROVE  IInv'
  <2>1. given' \in 0 .. ValueRange - 1
    BY <1>0, <1>9, ModRange DEF ResetEnd
  <2>2. value' \in 0 .. ValueRange - 1
    BY <1>0, <1>9 DEF ResetEnd
  <2> QED BY <1>0, <1>9, <2>1, <2>2, QuietStep DEF ResetEnd, PC
<1>10. CASE DetachBegin
  BY <1>0, <1>10, QuietStep DEF DetachBegin, PC, history
<1>11. CASE DetachTest
  BY <1>0, <1>11, QuietStep DEF DetachTest, PC, history
<1>12. CASE DetachPop
  <2>1. CASE Waiters(kern, Sem) = <<>>
    BY <1>0, <1>12, <2>1, QuietStep DEF DetachPop, PC
  <2>2. CASE Waiters(kern, Sem) # <<>>
    <3>1. /\ Step("pop", "detach") /\ kern' = ResumeFirstWithError(kern, Sem)
          /\ value' = value
      BY <1>12, <2>2 DEF DetachPop
    <3>2. /\ place[kern.cur] = "pop" /\ place' = [place EXCEPT ![kern.cur] = "detach"]
          /\ place' \in [Thread -> PC] /\ DOMAIN place = Thread
      BY <1>0, <3>1, Moved DEF PC
    <3>3. kern.stat[kern.cur] = "READY"
      BY <1>0, <3>2, SoundReady
    <3>4. Sound(kern', place) /\ kern'.cur = kern.cur /\ kern'.stat[kern'.cur] = "READY"
      BY <1>0, <2>2, <3>1, <3>3, SoundResumeFirst
    <3>5. Sound(kern', place')
      BY <3>2, <3>4, SoundMove
    <3>6. ~(value > 0)
      BY <1>0, <2>2 DEF NoUnitHeldBack
    <3> QED BY <1>0, <1>12, <2>2, <3>1, <3>2, <3>5, <3>6, KernelStep DEF DetachPop
  <2> QED BY <2>1, <2>2
<1>13. CASE IsrRelease
  <2>1. given' \in 0 .. ValueRange - 1
    BY <1>0, <1>13, IncRange DEF IsrRelease, Hand
  <2>2. CASE Waiters(kern, Sem) # <<>>
    <3> DEFINE w == ListResume(kern, Sem)
    <3>1. kern' = Schedule(w) /\ value' = value /\ place' = place
      BY <1>13, <2>2 DEF IsrRelease, Hand
    <3>2. Sound(w, place)
      BY <1>0, <2>2, SoundListResume
    <3> HIDE DEF w
    <3>3. Sound(kern', place')
      BY <3>1, <3>2, SoundSchedule
    <3>4. ~(value > 0)
      BY <1>0, <2>2 DEF NoUnitHeldBack
    <3> QED BY <1>0, <1>13, <2>1, <3>1, <3>3, <3>4, KernelStep DEF IsrRelease, Hand
  <2>3. CASE Waiters(kern, Sem) = <<>>
    <3>1. UNCHANGED <<kern, place>> /\ value' = Inc(value)
      BY <1>13, <2>3 DEF IsrRelease, Hand
    <3>2. value' \in 0 .. ValueRange - 1
      BY <1>0, <3>1, IncRange
    <3>3. TypeOK'
      BY <1>0, <1>13, <2>1, <3>1, <3>2 DEF TypeOK, IsrRelease, Hand
    <3> QED BY <1>0, <2>3, <3>1, <3>3 DEF IInv, NoUnitHeldBack
  <2> QED BY <2>2, <2>3
<1>14. CASE IsrTake
  <2>1. /\ kern' = kern /\ place' = place /\ value > 0 /\ value' = value - 1
        /\ obtained' \in 0 .. ValueRange - 1
    BY <1>0, <1>14, IncRange DEF IsrTake
  <2>2. value' \in 0 .. ValueRange - 1
    BY <1>0, <2>1
  <2>3. TypeOK'
    BY <1>0, <1>14, <2>1, <2>2 DEF TypeOK, IsrTake
  <2> QED BY <1>0, <2>1, <2>3 DEF IInv, NoUnitHeldBack
<1>15. ASSUME NEW t \in Thread, WaitTimeout(t)
       PROVE  IInv'
  <2>1. t \in kern.armed /\ kern' = Timeout(kern, t) /\ place' = place /\ value' = value
    BY <1>15 DEF WaitTimeout
  <2>2. /\ Sound(kern', place')
        /\ \A x \in Thread : IsIn(kern'.lists[Wait(Sem)], x) => IsIn(kern.lists[Wait(Sem)], x)
    BY <1>0, <2>1, SoundTimeout
  <2>3. value > 0 => Waiters(kern', Sem) = <<>>
    BY <1>0, <2>2, StillEmpty DEF Sound, NoUnitHeldBack
  <2> QED BY <1>0, <1>15, <2>1, <2>2, <2>3, KernelStep DEF WaitTimeout, history
<1>16. CASE SliceEnd
  <2>1. kern' = Yield(kern) /\ place' = place /\ value' = value
    BY <1>16 DEF SliceEnd
  <2>2. Sound(kern', place') /\ kern'.lists[Wait(Sem)] = kern.lists[Wait(Sem)]
    BY <1>0, <2>1, SoundYield
  <2>3. value > 0 => Waiters(kern', Sem) = <<>>
    BY <1>0, <2>2 DEF NoUnitHeldBack, Waiters
  <2> QED BY <1>0, <1>16, <2>1, <2>2, <2>3, KernelStep DEF SliceEnd, history
<1>17. CASE UNCHANGED vars
  BY <1>17, <1>0 DEF vars, IInv, TypeOK, Sound, NoUnitHeldBack
<1> QED BY <1>1, <1>2, <1>3, <1>4, <1>5, <1>6, <1>7, <1>8, <1>9, <1>10, <1>11, <1>12,
           <1>13, <1>14, <1>15, <1>16, <1>17 DEF Next, ThreadStep, Interrupt

LEMMA Invariance == Spec => []IInv
<1> QED BY InitInv, NextInv, PTL DEF Spec

(* Whatever calls, handlers and time-outs interleave, the lists, the ready *)
(* group, the thread states and the timers agree.                          *)
THEOREM Consistent == Spec => []KernelConsistent
<1>1. IInv => KernelConsistent
  BY DEF IInv, Sound, KernelConsistent
<1> QED BY <1>1, Invariance, PTL

(* The semaphore value stays in the range of its 16 bits (ipc.c:459), and  *)
(* every field of the kernel record keeps its type.                        *)
THEOREM Typed == Spec => []TypeOK
<1>1. IInv => TypeOK
  BY DEF IInv
<1> QED BY <1>1, Invariance, PTL

(* No wake-up is lost: who is suspended is queued, and nobody is queued    *)
(* while there are units.                                                  *)
THEOREM WakeupKept == Spec => []NoLostWakeup
<1>1. IInv => NoLostWakeup
  BY DEF IInv, Sound, NoUnitHeldBack, NoLostWakeup, Waiting, Waiters
<1> QED BY <1>1, Invariance, PTL

(* Only takers are suspended, and the processor leaves them.               *)
THEOREM OnlyTakersSuspended == Spec => []SuspendedOnlyInTake
<1>1. IInv => SuspendedOnlyInTake
  BY DEF IInv, Sound, SuspendedOnlyInTake
<1> QED BY <1>1, Invariance, PTL

-----------------------------------------------------------------------------
(***************************************************************************)
(* The account of the units of a semaphore: nothing is lost and nothing is *)
(* handed out twice, for any finite number of threads.                     *)
(***************************************************************************)

(* The sum modulo 2^16, with the number of laps it has wrapped.            *)
Balanced(g, v, o, n) ==
  \E q \in Int : InitValue + g = ((v + o) + n) + q * ValueRange

(* A thread that still waits has not been told anything: rt_ipc_list_      *)
(* suspend cleared its error, and whoever sets it also wakes the thread.   *)
Untold == \A t \in Thread : Waiting(t) => kern.err[t] = "EOK"

Account == Balanced(given, value, obtained, Cardinality(Handed)) /\ Untold

-----------------------------------------------------------------------------
(* Arithmetic modulo ValueRange *)

LEMMA Div ==
  ASSUME NEW n \in Int
  PROVE  /\ n = ValueRange * (n \div ValueRange) + (n % ValueRange)
         /\ n \div ValueRange \in Int
         /\ n % ValueRange \in 0 .. ValueRange - 1
BY Facts

LEMMA SameResidue ==
  ASSUME NEW r \in 0 .. ValueRange - 1, NEW s \in 0 .. ValueRange - 1,
         NEW x \in Int, NEW y \in Int, NEW q \in Int,
         ValueRange * x + r = (ValueRange * y + s) + q * ValueRange
  PROVE  r = s
<1> DEFINE j == (y - x) + q
<1>1. j \in Int /\ ValueRange \in Int /\ ValueRange > 0
  BY Facts
<1>2. r - s = ValueRange * y + q * ValueRange - ValueRange * x
  BY <1>1
<1>3. r - s = j * ValueRange
  BY <1>1, <1>2
<1> HIDE DEF j
<1>4. CASE j >= 1
  <2>1. (j - 1) * ValueRange >= 0
    BY <1>1, <1>4
  <2> QED BY <2>1, <1>1, <1>3
<1>5. CASE j <= -1
  <2>1. (-j - 1) * ValueRange >= 0
    BY <1>1, <1>5
  <2> QED BY <2>1, <1>1, <1>3
<1>6. CASE j = 0
  BY <1>1, <1>3, <1>6
<1> QED BY <1>1, <1>4, <1>5, <1>6

LEMMA Congruent ==
  ASSUME NEW a \in Int, NEW b \in Int, NEW q \in Int, a = b + q * ValueRange
  PROVE  a % ValueRange = b % ValueRange
<1> DEFINE x == a \div ValueRange
           y == b \div ValueRange
           r == a % ValueRange
           s == b % ValueRange
<1>1. a = ValueRange * x + r /\ x \in Int /\ r \in 0 .. ValueRange - 1
  BY Div
<1>2. b = ValueRange * y + s /\ y \in Int /\ s \in 0 .. ValueRange - 1
  BY Div
<1> HIDE DEF x, y, r, s
<1>3. r = s
  BY <1>1, <1>2, SameResidue
<1> QED BY <1>3 DEF r, s

LEMMA Laps ==
  ASSUME NEW n \in Int
  PROVE  \E e \in Int : n % ValueRange = n + e * ValueRange
<1> DEFINE d == n \div ValueRange
           r == n % ValueRange
<1>1. n = ValueRange * d + r /\ d \in Int /\ r \in 0 .. ValueRange - 1
  BY Div
<1> HIDE DEF d, r
<1>2. r = n + (-d) * ValueRange /\ -d \in Int
  BY <1>1, Facts
<1> QED BY <1>2 DEF r

(* A step whose four changes balance, up to laps, keeps the account.       *)
LEMMA BalanceKept ==
  ASSUME NEW g \in Int, NEW v \in Int, NEW o \in Int, NEW n \in Int,
         NEW g2 \in Int, NEW v2 \in Int, NEW o2 \in Int, NEW n2 \in Int,
         NEW e \in Int, Balanced(g, v, o, n),
         g2 - g = ((v2 - v) + (o2 - o) + (n2 - n)) + e * ValueRange
  PROVE  Balanced(g2, v2, o2, n2)
<1>1. PICK q \in Int : InitValue + g = ((v + o) + n) + q * ValueRange
  BY DEF Balanced
<1>2. InitValue + g2 = ((v2 + o2) + n2) + (q + e) * ValueRange /\ q + e \in Int
  BY <1>1, Facts
<1> QED BY <1>2 DEF Balanced

-----------------------------------------------------------------------------
(* What the actions do to the threads a release has woken *)

LEMMA HandedCount ==
  ASSUME IsFiniteSet(Thread)
  PROVE  /\ IsFiniteSet(Handed) /\ Cardinality(Handed) \in Int
         /\ \A x : x \notin Handed => Cardinality(Handed \cup {x}) = Cardinality(Handed) + 1
         /\ \A x \in Handed : Cardinality(Handed \ {x}) = Cardinality(Handed) - 1
<1>1. IsFiniteSet(Handed)
  BY FS_Subset DEF Handed
<1> QED BY <1>1, FS_CardinalityType, FS_AddElement, FS_RemoveElement

(* The current thread moves between places outside rt_sem_take, and the    *)
(* wait list and the error codes stay.                                     *)
LEMMA HandedMove ==
  ASSUME IInv, Untold, NEW a, NEW b, Step(a, b), b \in PC,
         a \in {"take_sched", "take_return"} <=> b \in {"take_sched", "take_return"},
         kern'.lists[Wait(Sem)] = kern.lists[Wait(Sem)], kern'.err = kern.err
  PROVE  Handed' = Handed /\ Untold'
<1>1. /\ place[kern.cur] = a /\ place' = [place EXCEPT ![kern.cur] = b]
      /\ kern.cur \in Thread /\ DOMAIN place = Thread
  BY Moved DEF IInv
<1>2. \A t \in Thread : place'[t] \in {"take_sched", "take_return"}
                          <=> place[t] \in {"take_sched", "take_return"}
  BY <1>1
<1>3. \A t \in Thread : Waiting(t)' <=> Waiting(t)
  BY DEF Waiting, Waiters
<1> QED BY <1>2, <1>3 DEF Handed, Untold

LEMMA HandedStay ==
  ASSUME Untold, place' = place, kern'.err = kern.err,
         kern'.lists[Wait(Sem)] = kern.lists[Wait(Sem)]
  PROVE  Handed' = Handed /\ Untold'
BY DEF Handed, Untold, Waiting, Waiters

(* The first waiter x, as the wake-up operations see it *)
LEMMA FirstWaiter ==
  ASSUME IInv, Waiters(kern, Sem) # <<>>
  PROVE  LET x == Waiters(kern, Sem)[1]
         IN  /\ x \in Thread /\ Waiting(x) /\ kern.stat[x] = "SUSPEND"
             /\ place[x] \in {"take_sched", "take_return"}
BY WaitersFacts DEF IInv, Sound, Waiting, Waiters

(* A release takes the first waiter out of the list and tells it nothing:  *)
(* one more thread holds a unit.                                           *)
LEMMA HandedGains ==
  ASSUME IInv, Untold, NEW x \in Thread, Waiting(x),
         place[x] \in {"take_sched", "take_return"},
         \A t \in Thread : place'[t] \in {"take_sched", "take_return"}
                             <=> place[t] \in {"take_sched", "take_return"},
         kern'.err = kern.err,
         \A t \in Thread : IsIn(kern'.lists[Wait(Sem)], t)
                             <=> IsIn(kern.lists[Wait(Sem)], t) /\ t # x
  PROVE  Handed' = Handed \cup {x} /\ x \notin Handed /\ Untold'
<1>1. \A t \in Thread : Waiting(t)' <=> Waiting(t) /\ t # x
  BY DEF Waiting, Waiters
<1>2. kern.err[x] = "EOK"
  BY DEF Untold
<1> QED BY <1>1, <1>2 DEF Handed, Untold

(* A waiter that leaves the list with an error code holds no unit.         *)
LEMMA HandedTold ==
  ASSUME IInv, Untold, NEW x \in Thread, Waiting(x), NEW e, e # "EOK",
         \A t \in Thread : place'[t] \in {"take_sched", "take_return"}
                             <=> place[t] \in {"take_sched", "take_return"},
         kern'.err = Put(kern.err, x, e),
         \A t \in Thread : IsIn(kern'.lists[Wait(Sem)], t)
                             <=> IsIn(kern.lists[Wait(Sem)], t) /\ t # x
  PROVE  Handed' = Handed /\ Untold'
<1>1. \A t \in Thread : Waiting(t)' <=> Waiting(t) /\ t # x
  BY DEF Waiting, Waiters
<1>2. kern.err \in [Thread -> Error]
  BY KernelFields DEF IInv, Sound, KernelOK
<1>3. kern'.err[x] = e /\ \A t \in Thread \ {x} : kern'.err[t] = kern.err[t]
  BY <1>2 DEF Put
<1> QED BY <1>1, <1>3 DEF Handed, Untold

-----------------------------------------------------------------------------
(* The wake-ups of a step, by the kernel operation that makes them         *)

LEMMA ReleaseWakes ==
  ASSUME IInv, Waiters(kern, Sem) # <<>>
  PROVE  LET w == ListResume(kern, Sem)
         IN  /\ w.err = kern.err
             /\ Schedule(w).err = kern.err
             /\ Schedule(w).lists = w.lists
             /\ \A t \in Thread :
                  IsIn(w.lists[Wait(Sem)], t)
                    <=> IsIn(kern.lists[Wait(Sem)], t) /\ t # Waiters(kern, Sem)[1]
<1> DEFINE x == Waiters(kern, Sem)[1]
           w == ListResume(kern, Sem)
<1>1. x \in Thread /\ kern.stat[x] = "SUSPEND"
  BY FirstWaiter
<1>2. KernelOK(kern) /\ Sem \in WaitQueue /\ Idle \in Thread /\ kern.stat[Idle] = "READY"
  BY Facts DEF IInv, Sound
<1>3. w = Resume(kern, x)
  BY DEF ListResume
<1> HIDE DEF x, w
<1>4. /\ KernelOK(w) /\ w.err = kern.err /\ w.stat = Put(kern.stat, x, "READY")
      /\ \A q \in WaitQueue, t \in Thread :
           IsIn(w.lists[Wait(q)], t) <=> IsIn(kern.lists[Wait(q)], t) /\ t # x
  BY <1>1, <1>2, <1>3, ResumeProperties
<1>5. w.stat[Idle] = "READY"
  BY <1>1, <1>2, <1>4, KernelFields DEF KernelOK, Put
<1>6. Schedule(w).err = w.err /\ Schedule(w).lists = w.lists
  BY <1>2, <1>4, <1>5, ScheduleProperties
<1> QED BY <1>2, <1>4, <1>6 DEF x, w

LEMMA ScheduleKeeps ==
  ASSUME IInv
  PROVE  Schedule(kern).err = kern.err /\ Schedule(kern).lists = kern.lists
BY Facts, ScheduleProperties DEF IInv, Sound

(* rt_ipc_list_resume_all and rt_sem_detach wake with an error.            *)
LEMMA ErrorWakes ==
  ASSUME IInv, Untold, Waiters(kern, Sem) # <<>>, kern' = ResumeFirstWithError(kern, Sem),
         \A t \in Thread : place'[t] \in {"take_sched", "take_return"}
                             <=> place[t] \in {"take_sched", "take_return"}
  PROVE  Handed' = Handed /\ Untold'
<1> DEFINE x == Waiters(kern, Sem)[1]
<1>1. x \in Thread /\ kern.stat[x] = "SUSPEND" /\ Waiting(x) /\ Sem \in WaitQueue
  BY FirstWaiter, Facts
<1>2. /\ kern'.err = Put(kern.err, x, "ERROR")
      /\ \A q \in WaitQueue, t \in Thread :
           IsIn(kern'.lists[Wait(q)], t) <=> IsIn(kern.lists[Wait(q)], t) /\ t # x
  BY <1>1, ResumeFirstProperties DEF IInv, Sound
<1> HIDE DEF x
<1> QED BY <1>1, <1>2, HandedTold

LEMMA TimeoutWakes ==
  ASSUME IInv, Untold, NEW x \in Thread, x \in kern.armed, kern' = Timeout(kern, x), place' = place
  PROVE  Handed' = Handed /\ Untold'
<1>1. /\ kern.stat[x] = "SUSPEND" /\ kern'.err = Put(kern.err, x, "ETIMEOUT")
      /\ \A q \in WaitQueue, t \in Thread :
           IsIn(kern'.lists[Wait(q)], t) <=> IsIn(kern.lists[Wait(q)], t) /\ t # x
  BY TimeoutProperties DEF IInv, Sound
<1>2. Waiting(x)
  BY <1>1 DEF IInv, Sound, Waiting, Waiters
<1> QED BY <1>1, <1>2, Facts, HandedTold

LEMMA BlockWaits ==
  ASSUME IInv, Untold, TakeWait
  PROVE  Handed' = Handed /\ Untold'
<1> DEFINE x == kern.cur
<1>1. place[x] = "app" /\ place' = [place EXCEPT ![x] = "take_sched"] /\ x \in Thread
      /\ DOMAIN place = Thread
  BY Moved DEF IInv, TakeWait, PC
<1>2. kern.stat[x] = "READY" /\ KernelOK(kern) /\ Sem \in WaitQueue
  BY <1>1, SoundReady, Facts DEF IInv, Sound
<1>3. PICK timed \in BOOLEAN : kern' = Block(kern, Sem, x, Flag, timed)
  BY DEF TakeWait
<1> HIDE DEF x
<1>4. /\ kern'.err = Put(kern.err, x, "EOK")
      /\ \A o \in WaitQueue, t \in Thread :
           IsIn(kern'.lists[Wait(o)], t)
             <=> (IsIn(kern.lists[Wait(o)], t) /\ t # x) \/ (o = Sem /\ t = x)
  BY <1>1, <1>2, <1>3, BlockProperties
<1>5. \A t \in Thread : Waiting(t)' <=> Waiting(t) \/ t = x
  BY <1>2, <1>4 DEF Waiting, Waiters
<1>6. kern.err \in [Thread -> Error]
  BY <1>2, KernelFields DEF KernelOK
<1>7. kern'.err[x] = "EOK" /\ \A t \in Thread \ {x} : kern'.err[t] = kern.err[t]
  BY <1>1, <1>4, <1>6 DEF Put
<1>8. \A t \in Thread \ {x} : place'[t] = place[t]
  BY <1>1
<1>9. x \notin Handed /\ x \notin Handed'
  BY <1>1, <1>5 DEF Handed
<1>10. \A t \in Thread \ {x} : t \in Handed' <=> t \in Handed
  BY <1>5, <1>7, <1>8 DEF Handed
<1>11. Handed \subseteq Thread /\ Handed' \subseteq Thread
  BY DEF Handed
<1> QED BY <1>5, <1>7, <1>9, <1>10, <1>11 DEF Untold

(* rt_sem_take returns: the caller holds a unit no more, it has it.        *)
LEMMA ReturnTakes ==
  ASSUME IInv, Untold, TakeReturn
  PROVE  /\ Untold'
         /\ kern.cur \in Thread
         /\ kern.err[kern.cur] = "EOK" => kern.cur \in Handed /\ Handed' = Handed \ {kern.cur}
         /\ kern.err[kern.cur] # "EOK" => Handed' = Handed
<1> DEFINE x == kern.cur
<1>1. place[x] = "take_return" /\ place' = [place EXCEPT ![x] = "app"] /\ x \in Thread
      /\ DOMAIN place = Thread /\ kern' = kern
  BY Moved DEF IInv, TakeReturn, PC
<1>2. kern.stat[x] = "READY"
  BY <1>1, SoundReady DEF IInv
<1>3. ~Waiting(x)
  BY <1>1, <1>2 DEF IInv, Sound, Waiting, Waiters
<1> HIDE DEF x
<1>4. x \in Handed <=> kern.err[x] = "EOK"
  BY <1>1, <1>3 DEF Handed
<1>5. place'[x] = "app" /\ \A t \in Thread \ {x} : place'[t] = place[t]
  BY <1>1
<1>6. x \notin Handed' /\ \A t \in Thread \ {x} : t \in Handed' <=> t \in Handed
  BY <1>1, <1>5 DEF Handed, Waiting
<1>7. Handed \subseteq Thread /\ Handed' \subseteq Thread
  BY DEF Handed
<1>8. Untold'
  BY <1>1 DEF Untold, Waiting
<1> QED BY <1>1, <1>4, <1>6, <1>7, <1>8 DEF x

-----------------------------------------------------------------------------
(* The account is kept by every step. *)

LEMMA Settle ==
  ASSUME IsFiniteSet(Thread), IInv, IInv', Account, Untold',
         Cardinality(Handed') \in Int,
         NEW e \in Int,
         given' - given = ((value' - value) + (obtained' - obtained)
                            + (Cardinality(Handed') - Cardinality(Handed)))
                          + e * ValueRange
  PROVE  Account'
<1>1. /\ given \in Int /\ value \in Int /\ obtained \in Int
      /\ given' \in Int /\ value' \in Int /\ obtained' \in Int
  BY Facts DEF IInv, TypeOK
<1>2. Cardinality(Handed) \in Int
  BY HandedCount
<1> QED BY <1>1, <1>2, BalanceKept DEF Account

LEMMA NextAccount ==
  ASSUME IsFiniteSet(Thread), IInv, IInv', Account, [Next]_vars
  PROVE  Account'
<1>0. /\ Untold /\ Cardinality(Handed) \in Int
      /\ \A x : x \notin Handed => Cardinality(Handed \cup {x}) = Cardinality(Handed) + 1
      /\ \A x \in Handed : Cardinality(Handed \ {x}) = Cardinality(Handed) - 1
      /\ given \in Int /\ value \in Int /\ obtained \in Int /\ ValueRange \in Int
  BY HandedCount, Facts DEF Account, IInv, TypeOK
<1>i. \A n \in Int : \E e \in Int : Inc(n) = (n + 1) + e * ValueRange
  BY Laps DEF Inc
<1> DEFINE N == Cardinality(Handed)
<1>s. ASSUME Untold', Handed' = Handed, UNCHANGED <<given, value, obtained>>
      PROVE  Account'
  <2>1. given' - given = ((value' - value) + (obtained' - obtained)
                           + (Cardinality(Handed') - Cardinality(Handed))) + 0 * ValueRange
    BY <1>0, <1>s
  <2> QED BY <1>0, <1>s, <2>1, Settle
<1>1. CASE TakeNow \/ IsrTake
  <2>1. Untold' /\ Handed' = Handed
    BY <1>0, <1>1, HandedMove, HandedStay DEF TakeNow, IsrTake, PC
  <2>2. value' = value - 1 /\ obtained' = Inc(obtained) /\ given' = given
    BY <1>1 DEF TakeNow, IsrTake
  <2>3. PICK e \in Int : obtained' = (obtained + 1) + e * ValueRange
    BY <1>0, <1>i, <2>2
  <2>4. given' - given = ((value' - value) + (obtained' - obtained)
                           + (Cardinality(Handed') - Cardinality(Handed)))
                         + (-e) * ValueRange /\ -e \in Int
    BY <1>0, <2>1, <2>2, <2>3
  <2> QED BY <1>0, <2>1, <2>4, Settle
<1>2. CASE TakeWait
  BY <1>0, <1>2, <1>s, BlockWaits DEF TakeWait, history
<1>3. CASE TakeSchedule
  <2>1. kern'.err = kern.err /\ kern'.lists = kern.lists /\ Step("take_sched", "take_return")
    BY <1>3, ScheduleKeeps DEF TakeSchedule
  <2>2. Untold' /\ Handed' = Handed
    BY <1>0, <2>1, HandedMove DEF PC
  <2> QED BY <1>3, <1>s, <2>2 DEF TakeSchedule, history
<1>4. CASE TakeReturn
  <2>1. CASE kern.err[kern.cur] = "EOK"
    <3>1. Untold' /\ Cardinality(Handed') = Cardinality(Handed) - 1
      BY <1>0, <1>4, <2>1, ReturnTakes
    <3>2. value' = value /\ obtained' = Inc(obtained) /\ given' = given
      BY <1>4, <2>1 DEF TakeReturn
    <3>3. PICK e \in Int : obtained' = (obtained + 1) + e * ValueRange
      BY <1>0, <1>i, <3>2
    <3>4. given' - given = ((value' - value) + (obtained' - obtained)
                             + (Cardinality(Handed') - Cardinality(Handed)))
                           + (-e) * ValueRange
      BY <1>0, <3>1, <3>2, <3>3
    <3>5. -e \in Int /\ Cardinality(Handed') \in Int /\ Untold'
      BY <1>0, <3>1
    <3> QED BY <1>0, <3>4, <3>5, Settle
  <2>2. CASE kern.err[kern.cur] # "EOK"
    <3>1. Untold' /\ Handed' = Handed
      BY <1>0, <1>4, <2>2, ReturnTakes
    <3>2. UNCHANGED <<given, value, obtained>>
      BY <1>4, <2>2 DEF TakeReturn
    <3> QED BY <1>s, <3>1, <3>2
  <2> QED BY <2>1, <2>2
<1>5. CASE Release \/ IsrRelease
  <2>1. given' = Inc(given) /\ obtained' = obtained
    BY <1>5 DEF Release, IsrRelease, Hand
  <2>2. PICK e \in Int : given' = (given + 1) + e * ValueRange
    BY <1>0, <1>i, <2>1
  <2>3. CASE Waiters(kern, Sem) # <<>>
    <3> DEFINE x == Waiters(kern, Sem)[1]
    <3>1. x \in Thread /\ Waiting(x) /\ place[x] \in {"take_sched", "take_return"}
      BY <2>3, FirstWaiter
    <3>2. /\ kern'.err = kern.err
          /\ \A t \in Thread : IsIn(kern'.lists[Wait(Sem)], t)
                                 <=> IsIn(kern.lists[Wait(Sem)], t) /\ t # x
      BY <1>5, <2>3, ReleaseWakes DEF Release, IsrRelease
    <3>3. \A t \in Thread : place'[t] \in {"take_sched", "take_return"}
                              <=> place[t] \in {"take_sched", "take_return"}
      <4>1. CASE Release
        BY <2>3, <4>1, Moved DEF Release, IInv, PC
      <4>2. CASE IsrRelease
        BY <4>2 DEF IsrRelease
      <4> QED BY <1>5, <4>1, <4>2
    <3> HIDE DEF x
    <3>4. Handed' = Handed \cup {x} /\ x \notin Handed /\ Untold'
      BY <1>0, <3>1, <3>2, <3>3, HandedGains
    <3>5. Cardinality(Handed') = Cardinality(Handed) + 1
      BY <1>0, <3>4
    <3>6. value' = value
      BY <1>5, <2>3 DEF Release, IsrRelease, Hand
    <3>7. given' - given = ((value' - value) + (obtained' - obtained)
                             + (Cardinality(Handed') - Cardinality(Handed)))
                           + e * ValueRange
      BY <1>0, <2>1, <2>2, <3>5, <3>6
    <3> QED BY <1>0, <3>4, <3>5, <3>7, Settle
  <2>4. CASE Waiters(kern, Sem) = <<>>
    <3>1. kern' = kern /\ place' = place /\ value' = Inc(value)
      BY <1>5, <2>4 DEF Release, IsrRelease, Hand
    <3>2. Untold' /\ Handed' = Handed
      BY <1>0, <3>1, HandedStay
    <3>3. PICK d \in Int : value' = (value + 1) + d * ValueRange
      BY <1>0, <1>i, <3>1
    <3>4. given' - given = ((value' - value) + (obtained' - obtained)
                             + (Cardinality(Handed') - Cardinality(Handed)))
                           + (e - d) * ValueRange /\ e - d \in Int
      BY <1>0, <2>1, <2>2, <3>2, <3>3
    <3> QED BY <1>0, <3>2, <3>4, Settle
  <2> QED BY <2>3, <2>4
<1>6. CASE SemSchedule
  <2>1. kern'.err = kern.err /\ kern'.lists = kern.lists /\ Step("call_sched", "app")
    BY <1>6, ScheduleKeeps DEF SemSchedule
  <2>2. Untold' /\ Handed' = Handed
    BY <1>0, <2>1, HandedMove DEF PC
  <2> QED BY <1>6, <1>s, <2>2 DEF SemSchedule, history
<1>7. CASE ResetBegin \/ DetachBegin \/ DetachTest
  <2>1. Untold' /\ Handed' = Handed
    BY <1>0, <1>7, HandedMove DEF ResetBegin, DetachBegin, DetachTest, PC
  <2> QED BY <1>7, <1>s, <2>1 DEF ResetBegin, DetachBegin, DetachTest, history
<1>8. CASE ResetTurn
  BY <1>0, <1>8, <1>s, ErrorWakes DEF ResetTurn, history
<1>9. ASSUME NEW v \in 0 .. ValueRange - 1, ResetEnd(v)
      PROVE  Account'
  <2>1. Untold' /\ Handed' = Handed
    BY <1>0, <1>9, HandedMove DEF ResetEnd, PC
  <2>2. /\ value' = v /\ obtained' = obtained /\ v \in Int
        /\ given' = (given + ValueRange + v - value) % ValueRange
    BY <1>9 DEF ResetEnd
  <2> DEFINE n == given + ValueRange + v - value
  <2>n. n \in Int /\ given' = n % ValueRange
    BY <1>0, <2>2
  <2> HIDE DEF n
  <2>p. PICK e \in Int : given' = n + e * ValueRange
    BY <2>n, Laps
  <2>3. given' = (given + ValueRange + v - value) + e * ValueRange
    BY <2>p DEF n
  <2>4. given' - given = ((value' - value) + (obtained' - obtained)
                           + (Cardinality(Handed') - Cardinality(Handed)))
                         + (e + 1) * ValueRange /\ e + 1 \in Int
    BY <1>0, <2>1, <2>2, <2>3
  <2> QED BY <1>0, <2>1, <2>4, Settle
<1>10. CASE DetachPop
  <2>1. Step("pop", "detach") /\ UNCHANGED <<value, given, obtained>>
    BY <1>10 DEF DetachPop
  <2>2. \A t \in Thread : place'[t] \in {"take_sched", "take_return"}
                            <=> place[t] \in {"take_sched", "take_return"}
    BY <2>1, Moved DEF IInv, PC
  <2>3. CASE Waiters(kern, Sem) = <<>>
    BY <1>0, <1>10, <1>s, <2>1, <2>3, HandedMove DEF DetachPop, PC
  <2>4. CASE Waiters(kern, Sem) # <<>>
    BY <1>0, <1>10, <1>s, <2>1, <2>2, <2>4, ErrorWakes DEF DetachPop
  <2> QED BY <2>3, <2>4
<1>11. ASSUME NEW t \in Thread, WaitTimeout(t)
       PROVE  Account'
  BY <1>0, <1>11, <1>s, TimeoutWakes DEF WaitTimeout, history
<1>12. CASE SliceEnd
  <2>1. kern'.lists[Wait(Sem)] = kern.lists[Wait(Sem)] /\ kern'.err = kern.err /\ place' = place
    BY <1>12, Facts, YieldProperties DEF SliceEnd, IInv, Sound
  <2> QED BY <1>0, <1>12, <1>s, <2>1, HandedStay DEF SliceEnd, history
<1>13. CASE UNCHANGED vars
  BY <1>0, <1>13, <1>s, HandedStay DEF vars
<1> QED BY <1>1, <1>2, <1>3, <1>4, <1>5, <1>6, <1>7, <1>8, <1>9, <1>10,
           <1>11, <1>12, <1>13 DEF Next, ThreadStep, Interrupt

LEMMA InitAccount ==
  ASSUME IsFiniteSet(Thread), Init
  PROVE  Account
<1> DEFINE b == Booted(InitPrio, Boot)
<1>1. BootOK(InitPrio, Boot) /\ Thread # {} /\ Sem \in WaitQueue
  BY SemaphoreAssumption
<1>2. \A q \in WaitQueue : b.lists[Wait(q)] = <<>>
  BY <1>1, BootedProperties
<1>3. kern = b /\ value = InitValue /\ given = 0 /\ obtained = 0
      /\ place = [t \in Thread |-> "app"]
  BY DEF Init
<1> HIDE DEF b
<1>4. Handed = {}
  BY <1>3 DEF Handed
<1>5. Cardinality(Handed) = 0
  BY <1>4, FS_EmptySet
<1>6. Untold
  BY <1>1, <1>2, <1>3 DEF Untold, Waiting, Waiters, IsIn
<1>7. InitValue + given = ((value + obtained) + Cardinality(Handed)) + 0 * ValueRange
  BY <1>3, <1>5, Facts
<1> QED BY <1>6, <1>7 DEF Account, Balanced

(* Releases, takes, time-outs and resets racing each other neither lose a  *)
(* unit of the semaphore nor hand one out twice (rt_sem_take, rt_sem_      *)
(* release and rt_sem_control, ipc.c:343-594), whatever the width of the   *)
(* value.                                                                  *)
THEOREM UnitsKept ==
  ASSUME IsFiniteSet(Thread)
  PROVE  Spec => []UnitsConserved
<1>1. Init => Account
  BY InitAccount
<1>2. IInv /\ IInv' /\ Account /\ [Next]_vars => Account'
  BY NextAccount
<1>3. IInv /\ Account => UnitsConserved
  <2> SUFFICES ASSUME IInv, Account PROVE UnitsConserved
    OBVIOUS
  <2>1. given \in Int /\ value \in Int /\ obtained \in Int /\ InitValue \in Int
    BY Facts DEF IInv, TypeOK
  <2>2. Cardinality(Handed) \in Int
    BY HandedCount
  <2>3. PICK q \in Int :
          InitValue + given = ((value + obtained) + Cardinality(Handed)) + q * ValueRange
    BY DEF Account, Balanced
  <2>4. (InitValue + given) % ValueRange
          = ((value + obtained) + Cardinality(Handed)) % ValueRange
    BY <2>1, <2>2, <2>3, Congruent
  <2> QED BY <2>4 DEF UnitsConserved
<1> QED BY <1>1, <1>2, <1>3, Invariance, PTL DEF Spec

=============================================================================
