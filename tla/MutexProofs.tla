----------------------------- MODULE MutexProofs -----------------------------
(***************************************************************************)
(* The safety of Mutex for any number of threads and mutexes, any          *)
(* priorities and either order of the wait lists: mutual exclusion and the *)
(* refinement of Lock for every discipline of the callers, the priorities  *)
(* for the disciplines under which the code keeps them.                    *)
(***************************************************************************)
EXTENDS Mutexes, KernelProofs, Integers, FiniteSetTheorems

InTake  == {"take_sched", "take_return"}
InSleep == {"sleep_sched", "sleep_return"}

(* The kernel record and the threads' places whenever interrupts are       *)
(* enabled: who is suspended sleeps or takes a mutex, the takers are       *)
(* queued at the mutex they want, and have not been told an error yet.     *)
Queued(u, p, w, t) ==
  /\ u.stat[t] \in {"READY", "SUSPEND"}
  /\ u.stat[t] = "SUSPEND" => p[t] \in InTake \cup InSleep
  /\ p[t] \in InTake /\ u.stat[t] = "SUSPEND" =>
       w[t] \in M /\ IsIn(u.lists[Wait(w[t])], t)
  /\ \A m \in M : IsIn(u.lists[Wait(m)], t) =>
       u.stat[t] = "SUSPEND" /\ p[t] \in InTake /\ w[t] = m /\ u.err[t] = "EOK"

Sound(u, p, w) ==
  /\ KernelOK(u)
  /\ u.nest = 0
  /\ u.stat[Idle] = "READY"
  /\ \A t \in Thread : Queued(u, p, w, t)
  /\ u.stat[u.cur] = "SUSPEND" => p[u.cur] \in {"take_sched", "sleep_sched"}

(* A free mutex has no owner, no depth and no waiter; nobody waits for a   *)
(* mutex it owns.                                                          *)
Owned ==
  \A m \in M :
    /\ owner[m] = None <=> value[m] = 1
    /\ owner[m] = None => hold[m] = 0 /\ Waiters(k, m) = <<>>
    /\ owner[m] # None => original[m] \in Prio
    /\ ~IsIn(k.lists[Wait(m)], owner[m])

LEMMA Facts ==
  ASSUME MutexAssumption
  PROVE  /\ Idle \in Thread /\ M # {} /\ M = WaitQueue
         /\ None \notin Thread /\ None \notin Prio
         /\ \A t \in Thread, m \in M : <<t, m>> \in Uses => t # Idle
         /\ Idle \notin Sleeper
         /\ MaxHold \in Nat /\ HoldRange \in Nat /\ MaxHold < HoldRange
         /\ \A m \in M : Wait(m) \in ListHeads
BY PrioAssumption, HeadsAreHeads DEF MutexAssumption, M

-----------------------------------------------------------------------------
(* Soundness is kept by each kernel operation a step is made of.           *)

LEMMA SoundFields ==
  ASSUME NEW u, NEW p, NEW w, Sound(u, p, w)
  PROVE  /\ KernelOK(u) /\ u \in Kernel /\ u.nest = 0
         /\ u.cur \in Thread
         /\ u.stat \in [Thread -> Stat]
         /\ u.prio \in [Thread -> Prio]
         /\ u.err \in [Thread -> Error]
         /\ \A m \in M : u.lists[Wait(m)] \in Seq(Thread)
BY KernelFields, HeadsAreHeads DEF Sound, KernelOK, M

LEMMA WaitersFacts ==
  ASSUME NEW u, u \in Kernel, NEW m \in M
  PROVE  /\ Waiters(u, m) = <<>> <=> \A x \in Thread : ~IsIn(u.lists[Wait(m)], x)
         /\ Waiters(u, m) # <<>> =>
              /\ Waiters(u, m)[1] \in Thread
              /\ IsIn(u.lists[Wait(m)], Waiters(u, m)[1])
<1> DEFINE s == u.lists[Wait(m)]
<1>1. s \in Seq(Thread)
  BY KernelFields, HeadsAreHeads DEF M
<1>2. Waiters(u, m) = s
  BY DEF Waiters
<1> HIDE DEF s
<1>3. s = <<>> <=> \A x \in Thread : ~IsIn(s, x)
  BY <1>1, EmptyList
<1>4. s # <<>> => s[1] \in Thread /\ IsIn(s, s[1])
  BY <1>1 DEF IsIn
<1> QED BY <1>2, <1>3, <1>4 DEF s

(* A thread that is not on its way to rt_schedule is READY.                *)
LEMMA SoundReady ==
  ASSUME NEW u, NEW p, NEW w, Sound(u, p, w), p[u.cur] \notin {"take_sched", "sleep_sched"}
  PROVE  u.stat[u.cur] = "READY"
<1>1. u.cur \in Thread
  BY SoundFields
<1>2. Queued(u, p, w, u.cur) /\ u.stat[u.cur] # "SUSPEND"
  BY <1>1 DEF Sound
<1> QED BY <1>2 DEF Queued

LEMMA ReadyUnqueued ==
  ASSUME NEW u, NEW p, NEW w, Sound(u, p, w), NEW t \in Thread, u.stat[t] = "READY",
         NEW m \in M
  PROVE  ~IsIn(u.lists[Wait(m)], t)
BY DEF Sound, Queued

LEMMA SoundMove ==
  ASSUME NEW u, NEW p, NEW w, NEW b, Sound(u, p, w), u.stat[u.cur] = "READY",
         DOMAIN p = Thread
  PROVE  Sound(u, [p EXCEPT ![u.cur] = b], w)
BY SoundFields DEF Sound, Queued

LEMMA SoundError ==
  ASSUME NEW u, NEW p, NEW w, Sound(u, p, w), u.stat[u.cur] = "READY", NEW e \in Error
  PROVE  /\ Sound(WithError(u, u.cur, e), p, w)
         /\ WithError(u, u.cur, e).stat = u.stat /\ WithError(u, u.cur, e).prio = u.prio
         /\ WithError(u, u.cur, e).lists = u.lists /\ WithError(u, u.cur, e).cur = u.cur
         /\ WithError(u, u.cur, e).err = Put(u.err, u.cur, e)
<1> DEFINE c == u.cur
           v == WithError(u, c, e)
<1>1. KernelOK(u) /\ c \in Thread /\ u.err \in [Thread -> Error]
  BY SoundFields
<1>2. /\ KernelOK(v)
      /\ v.stat = u.stat /\ v.prio = u.prio /\ v.lists = u.lists
      /\ v.cur = u.cur /\ v.nest = u.nest /\ v.err = Put(u.err, c, e)
  BY <1>1, SetError
<1> HIDE DEF v
<1>3. \A t \in Thread \ {c} : v.err[t] = u.err[t]
  BY <1>1, <1>2 DEF Put
<1>4. \A m \in M : ~IsIn(u.lists[Wait(m)], c)
  BY <1>1, ReadyUnqueued
<1>5. \A t \in Thread : Queued(v, p, w, t)
  BY <1>2, <1>3, <1>4 DEF Sound, Queued
<1>6. Sound(v, p, w)
  BY <1>2, <1>5 DEF Sound
<1> QED BY <1>2, <1>6 DEF v

LEMMA SoundChange ==
  ASSUME NEW u, NEW p, NEW w, Sound(u, p, w), NEW t \in Thread, NEW r \in Prio
  PROVE  /\ Sound(ChangePriority(u, t, r), p, w)
         /\ ChangePriority(u, t, r).stat = u.stat /\ ChangePriority(u, t, r).cur = u.cur
         /\ ChangePriority(u, t, r).err = u.err
         /\ ChangePriority(u, t, r).prio = Put(u.prio, t, r)
         /\ \A m \in M : ChangePriority(u, t, r).lists[Wait(m)] = u.lists[Wait(m)]
<1> DEFINE v == ChangePriority(u, t, r)
<1>1. KernelOK(u) /\ u.stat[t] \in {"READY", "SUSPEND"}
  BY DEF Sound, Queued
<1>2. /\ KernelOK(v)
      /\ v.prio = Put(u.prio, t, r)
      /\ v.stat = u.stat /\ v.cur = u.cur /\ v.nest = u.nest /\ v.err = u.err
      /\ \A m \in M : v.lists[Wait(m)] = u.lists[Wait(m)]
  BY <1>1, ChangePriorityProperties DEF M
<1> HIDE DEF v
<1>3. \A x \in Thread : Queued(v, p, w, x)
  <2> SUFFICES ASSUME NEW x \in Thread PROVE Queued(v, p, w, x)
    OBVIOUS
  <2>1. Queued(u, p, w, x)
    BY DEF Sound
  <2>2. \A m \in M : IsIn(v.lists[Wait(m)], x) <=> IsIn(u.lists[Wait(m)], x)
    BY <1>2
  <2> QED BY <1>2, <2>1, <2>2 DEF Queued
<1>4. Sound(v, p, w)
  BY <1>2, <1>3 DEF Sound
<1> QED BY <1>2, <1>4 DEF v

LEMMA SoundSchedule ==
  ASSUME MutexAssumption, NEW u, NEW p, NEW w, Sound(u, p, w)
  PROVE  /\ Sound(Schedule(u), p, w)
         /\ Schedule(u).stat[Schedule(u).cur] = "READY"
         /\ Schedule(u).stat = u.stat /\ Schedule(u).prio = u.prio
         /\ Schedule(u).lists = u.lists /\ Schedule(u).err = u.err
<1> DEFINE v == Schedule(u)
<1>1. /\ KernelOK(v)
      /\ v.stat = u.stat /\ v.prio = u.prio /\ v.lists = u.lists /\ v.err = u.err
      /\ v.nest = u.nest /\ v.stat[v.cur] = "READY"
  BY Facts, ScheduleProperties DEF Sound
<1> HIDE DEF v
<1>2. \A t \in Thread : Queued(v, p, w, t)
  BY <1>1 DEF Sound, Queued
<1>3. Sound(v, p, w)
  BY <1>1, <1>2 DEF Sound
<1> QED BY <1>1, <1>3 DEF v

(* A suspended thread x is made READY, by a hand-over or by its time-out.  *)
LEMMA SoundWake ==
  ASSUME MutexAssumption, NEW u, NEW p, NEW w, Sound(u, p, w), NEW x \in Thread, NEW v,
         KernelOK(v), v.nest = 0,
         v.stat = Put(u.stat, x, "READY"),
         \A t \in Thread \ {x} : v.err[t] = u.err[t],
         v.cur = u.cur \/ v.stat[v.cur] = "READY",
         \A m \in M, t \in Thread :
           IsIn(v.lists[Wait(m)], t) <=> IsIn(u.lists[Wait(m)], t) /\ t # x
  PROVE  Sound(v, p, w)
<1>1. u.stat \in [Thread -> Stat] /\ u.cur \in Thread
  BY SoundFields
<1>2. v.stat[x] = "READY" /\ \A t \in Thread \ {x} : v.stat[t] = u.stat[t]
  BY <1>1 DEF Put
<1>3. \A t \in Thread : Queued(v, p, w, t)
  BY <1>2 DEF Sound, Queued
<1>4. v.stat[v.cur] = "SUSPEND" => p[v.cur] \in {"take_sched", "sleep_sched"}
  BY <1>1, <1>2 DEF Sound
<1>5. v.stat[Idle] = "READY"
  BY <1>2, Facts DEF Sound
<1> QED BY <1>3, <1>4, <1>5 DEF Sound

LEMMA SoundListResume ==
  ASSUME MutexAssumption, NEW u, NEW p, NEW w, Sound(u, p, w),
         NEW m \in M, Waiters(u, m) # <<>>
  PROVE  LET x == Waiters(u, m)[1]
             v == ListResume(u, m)
         IN  /\ x \in Thread /\ IsIn(u.lists[Wait(m)], x) /\ u.stat[x] = "SUSPEND"
             /\ Sound(v, p, w)
             /\ v.stat = Put(u.stat, x, "READY")
             /\ v.prio = u.prio /\ v.cur = u.cur /\ v.err = u.err
             /\ \A o \in M, t \in Thread :
                  IsIn(v.lists[Wait(o)], t) <=> IsIn(u.lists[Wait(o)], t) /\ t # x
<1> DEFINE x == Waiters(u, m)[1]
           v == ListResume(u, m)
<1>1. KernelOK(u) /\ u \in Kernel /\ u.nest = 0
  BY SoundFields
<1>2. x \in Thread /\ IsIn(u.lists[Wait(m)], x)
  BY <1>1, WaitersFacts
<1>3. v = Resume(u, x)
  BY DEF ListResume
<1> HIDE DEF x, v
<1>4. u.stat[x] = "SUSPEND"
  BY <1>2 DEF Sound, Queued
<1>5. /\ KernelOK(v)
      /\ v.stat = Put(u.stat, x, "READY")
      /\ v.prio = u.prio /\ v.cur = u.cur /\ v.nest = u.nest /\ v.err = u.err
      /\ \A o \in M, t \in Thread :
           IsIn(v.lists[Wait(o)], t) <=> IsIn(u.lists[Wait(o)], t) /\ t # x
  BY <1>1, <1>2, <1>3, <1>4, ResumeProperties DEF M
<1>6. Sound(v, p, w)
  BY <1>1, <1>2, <1>5, SoundWake
<1> QED BY <1>2, <1>4, <1>5, <1>6 DEF x, v

LEMMA SoundTimeout ==
  ASSUME MutexAssumption, NEW u, NEW p, NEW w, Sound(u, p, w),
         NEW x \in Thread, x \in u.armed
  PROVE  LET v == Timeout(u, x)
         IN  /\ u.stat[x] = "SUSPEND"
             /\ Sound(v, p, w)
             /\ v.stat = Put(u.stat, x, "READY")
             /\ v.prio = u.prio /\ v.err = Put(u.err, x, "ETIMEOUT")
             /\ \A m \in M, t \in Thread :
                  IsIn(v.lists[Wait(m)], t) <=> IsIn(u.lists[Wait(m)], t) /\ t # x
<1> DEFINE v == Timeout(u, x)
<1>1. KernelOK(u) /\ u.nest = 0 /\ u.err \in [Thread -> Error]
  BY SoundFields
<1> HIDE DEF v
<1>2. /\ KernelOK(v)
      /\ u.stat[x] = "SUSPEND"
      /\ v.stat = Put(u.stat, x, "READY")
      /\ v.prio = u.prio /\ v.nest = u.nest /\ v.err = Put(u.err, x, "ETIMEOUT")
      /\ v.stat[v.cur] = "READY"
      /\ \A m \in M, t \in Thread :
           IsIn(v.lists[Wait(m)], t) <=> IsIn(u.lists[Wait(m)], t) /\ t # x
  BY <1>1, TimeoutProperties DEF v, M
<1>3. \A t \in Thread \ {x} : v.err[t] = u.err[t]
  BY <1>1, <1>2 DEF Put
<1>4. Sound(v, p, w)
  BY <1>1, <1>2, <1>3, SoundWake
<1> QED BY <1>2, <1>4 DEF v

LEMMA SoundYield ==
  ASSUME NEW u, NEW p, NEW w, Sound(u, p, w)
  PROVE  /\ Sound(Yield(u), p, w)
         /\ Yield(u).stat = u.stat /\ Yield(u).prio = u.prio /\ Yield(u).err = u.err
         /\ \A m \in M : Yield(u).lists[Wait(m)] = u.lists[Wait(m)]
<1> DEFINE v == Yield(u)
<1>1. KernelOK(u) /\ u.nest = 0
  BY SoundFields
<1> HIDE DEF v
<1>2. /\ KernelOK(v)
      /\ v.stat = u.stat /\ v.prio = u.prio /\ v.nest = u.nest /\ v.err = u.err
      /\ v.cur = u.cur \/ v.stat[v.cur] = "READY"
      /\ \A m \in M : v.lists[Wait(m)] = u.lists[Wait(m)]
  BY <1>1, YieldProperties DEF v, M
<1>3. \A t \in Thread : Queued(v, p, w, t)
  BY <1>2 DEF Sound, Queued
<1>4. Sound(v, p, w)
  BY <1>2, <1>3 DEF Sound
<1> QED BY <1>2, <1>4 DEF v

(* rt_thread_delay up to its rt_schedule *)
LEMMA SoundSleep ==
  ASSUME MutexAssumption, Sound(k, pc, want), k.stat[Me] = "READY", Me # Idle,
         k' = TimerStart(Suspend(k, Me), Me),
         pc'[Me] = "sleep_sched", \A t \in Thread \ {Me} : pc'[t] = pc[t]
  PROVE  /\ Sound(k', pc', want)
         /\ k'.prio = k.prio /\ k'.err = k.err
         /\ \A m \in M : k'.lists[Wait(m)] = k.lists[Wait(m)]
<1> DEFINE s == Suspend(k, Me)
<1>1. /\ KernelOK(k) /\ Me \in Thread /\ Me = k.cur /\ k.nest = 0
      /\ k.stat \in [Thread -> Stat]
  BY SoundFields DEF Me
<1>2. \A m \in M : ~IsIn(k.lists[Wait(m)], Me)
  BY <1>1, ReadyUnqueued
<1>4. /\ KernelOK(s)
      /\ Unlinked(s.lists, Me)
      /\ s.stat = Put(k.stat, Me, "SUSPEND")
      /\ s.prio = k.prio /\ s.cur = k.cur /\ s.nest = k.nest /\ s.err = k.err
      /\ \A h \in ListHeads, t \in Thread \ {Me} :
           IsIn(s.lists[h], t) <=> IsIn(k.lists[h], t)
  BY <1>1, SuspendProperties DEF s
<1>3. k' = TimerStart(s, Me)
  OBVIOUS
<1> HIDE DEF s
<1>5. s.stat[Me] = "SUSPEND" /\ \A t \in Thread \ {Me} : s.stat[t] = k.stat[t]
  BY <1>1, <1>4 DEF Put
<1>6. /\ KernelOK(k')
      /\ k'.stat = s.stat /\ k'.prio = s.prio /\ k'.cur = s.cur /\ k'.nest = s.nest
      /\ k'.err = s.err /\ k'.lists = s.lists
  BY <1>1, <1>3, <1>4, <1>5, TimerStartProperties
<1>7. \A m \in M : k'.lists[Wait(m)] = k.lists[Wait(m)]
  <2>1. \A m \in M : s.lists[Wait(m)] = k.lists[Wait(m)]
    BY <1>1, SuspendWaiters DEF s, M
  <2> QED BY <1>6, <2>1
<1>8. ASSUME NEW t \in Thread PROVE Queued(k', pc', want, t)
  <2>1. CASE t = Me
    BY <1>2, <1>5, <1>6, <1>7, <2>1 DEF Queued, InTake, InSleep
  <2>2. CASE t # Me
    <3>1. Queued(k, pc, want, t)
      BY DEF Sound
    <3> QED BY <1>4, <1>5, <1>6, <1>7, <2>2, <3>1 DEF Queued
  <2> QED BY <2>1, <2>2
<1>9. Sound(k', pc', want)
  <2>1. k'.stat[Idle] = "READY"
    BY <1>1, <1>5, <1>6, Facts DEF Sound
  <2>2. pc'[k'.cur] = "sleep_sched"
    BY <1>4, <1>6 DEF Me
  <2> QED BY <1>1, <1>4, <1>6, <1>8, <2>1, <2>2 DEF Sound
<1> QED BY <1>4, <1>6, <1>7, <1>9

-----------------------------------------------------------------------------
(* Counting the takes of a mutex *)

Takes(s, m) == {i \in DOMAIN s : s[i] = m}

Count(s, m) == Cardinality(Takes(s, m))

LEMMA CountType ==
  ASSUME NEW s \in Seq(M), NEW m
  PROVE  /\ IsFiniteSet(Takes(s, m))
         /\ Count(s, m) \in Nat
         /\ Count(s, m) <= Len(s)
         /\ Count(s, m) = 0 <=> \A i \in DOMAIN s : s[i] # m
<1>1. DOMAIN s = 1 .. Len(s) /\ Len(s) \in Nat
  OBVIOUS
<1>2. IsFiniteSet(1 .. Len(s)) /\ Cardinality(1 .. Len(s)) = Len(s)
  BY <1>1, FS_Interval
<1>3. Takes(s, m) \in SUBSET (1 .. Len(s))
  BY <1>1 DEF Takes
<1>4. IsFiniteSet(Takes(s, m)) /\ Cardinality(Takes(s, m)) <= Len(s)
  BY <1>2, <1>3, FS_Subset
<1>5. Cardinality(Takes(s, m)) \in Nat
  BY <1>4, FS_CardinalityType
<1>6. Cardinality(Takes(s, m)) = 0 <=> Takes(s, m) = {}
  BY <1>4, FS_EmptySet
<1>7. Takes(s, m) = {} <=> \A i \in DOMAIN s : s[i] # m
  BY DEF Takes
<1> QED BY <1>4, <1>5, <1>6, <1>7 DEF Count

LEMMA CountHeld ==
  ASSUME NEW s \in Seq(M), NEW m \in M
  PROVE  /\ Held(s, m) \in Seq(M)
         /\ Len(Held(s, m)) = Len(s) + 1
         /\ \A o : Count(Held(s, m), o) = Count(s, o) + (IF o = m THEN 1 ELSE 0)
<1> DEFINE h == Held(s, m)
           n == Len(s) + 1
<1>1. /\ h \in Seq(M) /\ Len(h) = n
      /\ \A i \in 1 .. Len(s) : h[i] = s[i]
      /\ h[n] = m
  BY AppendProperties DEF Held
<1> HIDE DEF h
<1>2. DOMAIN h = 1 .. n /\ DOMAIN s = 1 .. Len(s) /\ Len(s) \in Nat
  BY <1>1
<1>3. ASSUME NEW o PROVE Count(h, o) = Count(s, o) + (IF o = m THEN 1 ELSE 0)
  <2>0. n \notin Takes(s, o)
    BY <1>2 DEF Takes
  <2>1. IsFiniteSet(Takes(s, o)) /\ n \notin Takes(s, o) /\ Count(s, o) \in Nat
    BY <2>0, CountType
  <2>2. CASE o = m
    <3>1. Takes(h, o) = Takes(s, o) \cup {n}
      BY <1>1, <1>2, <2>2 DEF Takes
    <3>2. Cardinality(Takes(s, o) \cup {n}) = Cardinality(Takes(s, o)) + 1
      BY <2>1, FS_AddElement
    <3> QED BY <2>2, <3>1, <3>2 DEF Count
  <2>3. CASE o # m
    <3>1. Takes(h, o) = Takes(s, o)
      BY <1>1, <1>2, <2>3 DEF Takes
    <3> QED BY <2>1, <2>3, <3>1 DEF Count
  <2> QED BY <2>2, <2>3
<1> QED BY <1>1, <1>3 DEF h

(* The position of the last take of m *)
Last(s, m) == CHOOSE i \in DOMAIN s : s[i] = m /\ \A j \in DOMAIN s : s[j] = m => j <= i

LEMMA LastExists ==
  ASSUME NEW s \in Seq(M), NEW m, \E i \in DOMAIN s : s[i] = m
  PROVE  /\ Last(s, m) \in 1 .. Len(s) /\ s[Last(s, m)] = m
         /\ \A j \in 1 .. Len(s) : s[j] = m => j <= Last(s, m)
<1> DEFINE R == {Len(s) - i : i \in Takes(s, m)}
<1>1. DOMAIN s = 1 .. Len(s) /\ Len(s) \in Nat
  OBVIOUS
<1>2. R \in SUBSET Nat /\ R # {}
  BY <1>1 DEF Takes
<1>3. PICK x \in R : \A y \in R : x <= y
  BY <1>2, LeastElementExists
<1>4. PICK n \in Takes(s, m) : x = Len(s) - n
  BY <1>3
<1>5. ASSUME NEW j \in DOMAIN s, s[j] = m PROVE j <= n
  <2>1. j \in 1 .. Len(s) /\ Len(s) - j \in R /\ n \in 1 .. Len(s)
    BY <1>1, <1>4, <1>5 DEF Takes
  <2>2. Len(s) - n <= Len(s) - j
    BY <1>3, <1>4, <2>1
  <2> QED BY <1>1, <2>1, <2>2
<1>6. n \in DOMAIN s /\ s[n] = m
  BY <1>4 DEF Takes
<1> HIDE DEF R
<1>7. \E i \in DOMAIN s : s[i] = m /\ \A j \in DOMAIN s : s[j] = m => j <= i
  BY <1>5, <1>6
<1>8. /\ Last(s, m) \in DOMAIN s /\ s[Last(s, m)] = m
      /\ \A j \in DOMAIN s : s[j] = m => j <= Last(s, m)
  BY <1>7 DEF Last
<1> QED BY <1>1, <1>8

(* Leaving out the element at position n moves the later ones up by one.   *)
LEMMA CountWithout ==
  ASSUME NEW s \in Seq(M), NEW m \in M, \E i \in DOMAIN s : s[i] = m
  PROVE  /\ Without(s, m) \in Seq(M)
         /\ Len(Without(s, m)) = Len(s) - 1
         /\ \A i \in 1 .. Len(s) - 1 :
              Without(s, m)[i] = s[IF i < Last(s, m) THEN i ELSE i + 1]
         /\ \A o : Count(Without(s, m), o) = Count(s, o) - (IF o = m THEN 1 ELSE 0)
<1> DEFINE n == Last(s, m)
           w == Without(s, m)
           k_1 == Len(s) - 1
<1>1. n \in 1 .. Len(s) /\ s[n] = m /\ DOMAIN s = 1 .. Len(s) /\ Len(s) \in Nat
  BY LastExists
<1>2. w = [i \in 1 .. k_1 |-> s[IF i < n THEN i ELSE i + 1]]
  BY DEF Without, Last
<1> HIDE DEF n, w
<1>3. k_1 \in Nat /\ \A i \in 1 .. k_1 : (IF i < n THEN i ELSE i + 1) \in 1 .. Len(s)
  BY <1>1
<1>4. w \in [1 .. k_1 -> M]
  <2>1. \A i \in 1 .. Len(s) : s[i] \in M
    BY <1>1
  <2>2. \A i \in 1 .. k_1 : s[IF i < n THEN i ELSE i + 1] \in M
    BY <1>3, <2>1
  <2> QED BY <1>2, <2>2
<1>5. w \in Seq(M) /\ Len(w) = k_1 /\ DOMAIN w = 1 .. k_1
  <2>1. w \in Seq(M)
    BY <1>3, <1>4, SeqDef
  <2> QED BY <1>3, <1>4, <2>1
<1>6. \A i \in 1 .. k_1 : w[i] = s[IF i < n THEN i ELSE i + 1]
  BY <1>2
<1>7. ASSUME NEW o PROVE Count(w, o) = Count(s, o) - (IF o = m THEN 1 ELSE 0)
  <2> DEFINE P == Takes(w, o)
             Q == Takes(s, o) \ {n}
             f == [i \in P |-> IF i < n THEN i ELSE i + 1]
  <2>1. P \subseteq 1 .. k_1 /\ Q \subseteq 1 .. Len(s)
    BY <1>1, <1>5 DEF Takes
  <2>2. \A i \in P : f[i] \in Q
    BY <1>1, <1>3, <1>5, <1>6 DEF Takes
  <2>3. \A i, j \in P : f[i] = f[j] => i = j
    BY <1>1, <2>1
  <2>4. ASSUME NEW j \in Q PROVE \E i \in P : f[i] = j
    <3>1. j \in 1 .. Len(s) /\ j # n /\ s[j] = o
      BY <1>1 DEF Takes
    <3>2. CASE j < n
      <4>1. j \in 1 .. k_1 /\ w[j] = o
        BY <1>1, <1>6, <3>1, <3>2
      <4>2. j \in P
        BY <1>5, <4>1 DEF Takes
      <4> QED BY <3>2, <4>2
    <3>3. CASE j > n
      <4>1. j - 1 \in 1 .. k_1 /\ ~(j - 1 < n) /\ (j - 1) + 1 = j
        BY <1>1, <3>1, <3>3
      <4>2. w[j - 1] = o
        BY <1>6, <3>1, <4>1
      <4>3. j - 1 \in P
        BY <1>5, <4>1, <4>2 DEF Takes
      <4> QED BY <4>1, <4>3
    <3> QED BY <1>1, <3>1, <3>2, <3>3
  <2>5. f \in [P -> Q]
    BY <2>2
  <2>7. IsFiniteSet(P)
    BY <1>5, CountType DEF P
  <2>8. Cardinality(Q) = Cardinality(P)
    BY <2>3, <2>4, <2>5, <2>7, SameCardinality, Zenon
  <2>9. IsFiniteSet(Takes(s, o)) /\ Cardinality(Takes(s, o)) \in Nat
    BY CountType DEF Count
  <2>10. n \in Takes(s, o) <=> o = m
    BY <1>1 DEF Takes
  <2>11. Cardinality(Takes(s, o) \ {n})
           = IF n \in Takes(s, o) THEN Cardinality(Takes(s, o)) - 1 ELSE Cardinality(Takes(s, o))
    BY <2>9, FS_RemoveElement
  <2> QED BY <2>8, <2>9, <2>10, <2>11 DEF P, Q, Count
<1> QED BY <1>5, <1>6, <1>7 DEF w, n

-----------------------------------------------------------------------------
(* The account of the takes                                                *)

(* What mutex->hold has to count for t: the takes it has made, and the one *)
(* that was handed over to it.                                             *)
Share(t, m) == Depth(t, m) + (IF Handed(t, m) THEN 1 ELSE 0)

Ledger ==
  \A m \in M :
    /\ \A t \in Thread : Share(t, m) = IF owner[m] = t THEN hold[m] ELSE 0
    /\ owner[m] # None => hold[m] > 0

IInv == TypeOK /\ Sound(k, pc, want) /\ Owned /\ Ledger

LEMMA DepthIsCount ==
  ASSUME NEW t, NEW m
  PROVE  Depth(t, m) = Count(mine[t], m)
BY DEF Depth, Count, Takes

LEMMA ShareType ==
  ASSUME TypeOK, NEW t \in Thread, NEW m \in M
  PROVE  /\ Depth(t, m) \in Nat /\ Share(t, m) \in Nat
         /\ Share(t, m) = 0 <=> Depth(t, m) = 0 /\ ~Handed(t, m)
         /\ Depth(t, m) = 0 <=> \A i \in DOMAIN mine[t] : mine[t][i] # m
<1>1. mine[t] \in Seq(M)
  BY DEF TypeOK
<1>2. Depth(t, m) \in Nat /\ (Depth(t, m) = 0 <=> \A i \in DOMAIN mine[t] : mine[t][i] # m)
  BY <1>1, CountType, DepthIsCount
<1> QED BY <1>2 DEF Share

LEMMA LedgerExcludes ==
  ASSUME MutexAssumption, TypeOK, Ledger
  PROVE  MutualExclusion
<1> SUFFICES ASSUME NEW m \in M, NEW t \in Thread
             PROVE  IF owner[m] = t THEN Share(t, m) = hold[m] /\ hold[m] > 0
                                    ELSE Depth(t, m) = 0 /\ ~Handed(t, m)
  BY DEF MutualExclusion, Share
<1>1. CASE owner[m] = t
  <2>1. owner[m] # None
    BY <1>1, Facts
  <2> QED BY <1>1, <2>1 DEF Ledger
<1>2. CASE owner[m] # t
  <2>1. Share(t, m) = 0
    BY <1>2 DEF Ledger
  <2> QED BY <1>2, <2>1, ShareType
<1> QED BY <1>1, <1>2

LEMMA NotHanded ==
  ASSUME NEW t, NEW m, pc[t] \notin InTake
  PROVE  ~Handed(t, m)
BY DEF Handed, InTake

(* A step that does not touch the call t is in leaves it handed or not.    *)
LEMMA HandedSame ==
  ASSUME NEW t \in Thread, NEW m \in M,
         pc'[t] \in InTake <=> pc[t] \in InTake, want'[t] = want[t],
         k'.err[t] = k.err[t],
         IsIn(k'.lists[Wait(m)], t) <=> IsIn(k.lists[Wait(m)], t)
  PROVE  Handed(t, m)' <=> Handed(t, m)
BY DEF Handed, InTake, Waiting, Waiters

LEMMA ShareSame ==
  ASSUME NEW t, NEW m, mine'[t] = mine[t], Handed(t, m)' <=> Handed(t, m)
  PROVE  Share(t, m)' = Share(t, m)
BY DEF Share, Depth

(* The owner's depth is the number of its takes.  MaxHold, which bounds    *)
(* them, is assumed to be smaller than the range of mutex->hold: the wrap  *)
(* of the count is not met.                                                *)
LEMMA HoldBounds ==
  ASSUME MutexAssumption, IInv, NEW m \in M, owner[m] = Me, pc[Me] = "app"
  PROVE  /\ Me \in Thread /\ hold[m] = Depth(Me, m) /\ hold[m] \in 1 .. Len(mine[Me])
         /\ Len(mine[Me]) < MaxHold => More(hold[m]) = hold[m] + 1
         /\ Less(hold[m]) = hold[m] - 1
<1>1. Me \in Thread /\ mine[Me] \in Seq(M) /\ hold[m] \in 0 .. HoldRange - 1
  BY SoundFields DEF IInv, TypeOK, Me
<1>2. ~Handed(Me, m)
  BY <1>1, NotHanded DEF InTake
<1>3. owner[m] # None
  BY <1>1, Facts
<1>4. Share(Me, m) = hold[m] /\ hold[m] > 0
  BY <1>1, <1>3 DEF IInv, Ledger
<1>5. Depth(Me, m) \in Nat
  BY <1>1, ShareType DEF IInv
<1>6. hold[m] = Depth(Me, m)
  BY <1>2, <1>4, <1>5 DEF Share
<1>7. Depth(Me, m) <= Len(mine[Me])
  BY <1>1, CountType, DepthIsCount
<1>8. hold[m] \in 1 .. Len(mine[Me])
  BY <1>1, <1>4, <1>5, <1>6, <1>7
<1>9. ASSUME Len(mine[Me]) < MaxHold PROVE More(hold[m]) = hold[m] + 1
  <2>1. hold[m] + 1 \in 0 .. HoldRange - 1 /\ HoldRange \in Nat
    BY <1>1, <1>8, <1>9, Facts
  <2> QED BY <2>1, NoLap DEF More
<1>10. Less(hold[m]) = hold[m] - 1
  <2>1. /\ HoldRange \in Nat /\ hold[m] + HoldRange - 1 \in HoldRange .. 2 * HoldRange - 1
        /\ (hold[m] + HoldRange - 1) - HoldRange = hold[m] - 1
    BY <1>1, <1>8, Facts
  <2> QED BY <2>1, OneLap DEF Less
<1> QED BY <1>1, <1>6, <1>8, <1>9, <1>10

LEMMA InitInv ==
  ASSUME MutexAssumption, Init
  PROVE  IInv
<1> DEFINE b == Booted(InitPrio, Boot)
<1>1. /\ KernelOK(b)
      /\ b.stat = [t \in Thread |-> "READY"]
      /\ b.nest = 0
      /\ \A m \in M : b.lists[Wait(m)] = <<>>
  <2>1. BootOK(InitPrio, Boot) /\ Thread # {}
    BY DEF MutexAssumption
  <2> QED BY <2>1, BootedProperties DEF M
<1>2. k = b
  BY DEF Init
<1> HIDE DEF b
<1>3. \A m \in M : \A t : ~IsIn(k.lists[Wait(m)], t)
  BY <1>1, <1>2 DEF IsIn
<1>4. Sound(k, pc, want)
  <2>1. k.cur \in Thread
    BY <1>1, <1>2, KernelFields DEF KernelOK
  <2>2. \A t \in Thread : Queued(k, pc, want, t)
    BY <1>1, <1>2, <1>3 DEF Queued
  <2> QED BY <1>1, <1>2, <2>1, <2>2, Facts DEF Sound
<1>5. Owned
  BY <1>1, <1>2, <1>3, Facts DEF Owned, Init, Waiters
<1>6. TypeOK
  <2>1. k \in Kernel
    BY <1>1, <1>2 DEF KernelOK
  <2>2. 0 \in 0 .. HoldRange - 1 /\ (CHOOSE m \in M : TRUE) \in M
    BY Facts
  <2>3. pc \in [Thread -> PC] /\ mine \in [Thread -> Seq(M)]
    BY DEF Init, PC
  <2> QED BY <2>1, <2>2, <2>3 DEF Init, TypeOK
<1>7. Ledger
  <2> SUFFICES ASSUME NEW m \in M
               PROVE  (\A t \in Thread : Share(t, m) = 0) /\ owner[m] = None
    BY Facts DEF Ledger, Init
  <2>1. ASSUME NEW t \in Thread PROVE Share(t, m) = 0
    <3>1. mine[t] = <<>> /\ pc[t] \notin InTake
      BY DEF Init, InTake
    <3> QED BY <1>6, <3>1, NotHanded, ShareType
  <2> QED BY <2>1 DEF Init
<1> QED BY <1>4, <1>5, <1>6, <1>7 DEF IInv

-----------------------------------------------------------------------------
(* The steps *)

LEMMA Moved ==
  ASSUME TypeOK, NEW a, NEW b, Step(a, b), b \in PC
  PROVE  /\ Me \in Thread /\ k.cur = Me /\ DOMAIN pc = Thread /\ DOMAIN want = Thread
         /\ pc[Me] = a /\ pc' = [pc EXCEPT ![Me] = b]
         /\ pc' \in [Thread -> PC]
         /\ pc'[Me] = b /\ \A t \in Thread \ {Me} : pc'[t] = pc[t]
BY KernelFields DEF TypeOK, Step, Me

(* A step that changes no owner and no depth *)
LEMMA QuietStep ==
  ASSUME IInv, UNCHANGED fields,
         pc' \in [Thread -> PC], want' \in [Thread -> M], mine' \in [Thread -> Seq(M)],
         Sound(k', pc', want'),
         \A t \in Thread, m \in M :
           IsIn(k'.lists[Wait(m)], t) => IsIn(k.lists[Wait(m)], t),
         \A t \in Thread, m \in M : Share(t, m)' = Share(t, m)
  PROVE  IInv'
<1>1. k' \in Kernel /\ k \in Kernel
  BY SoundFields DEF IInv
<1>2. TypeOK'
  BY <1>1 DEF IInv, TypeOK, fields
<1>3. Owned'
  <2>1. ASSUME NEW m \in M, Waiters(k, m) = <<>> PROVE Waiters(k', m) = <<>>
    BY <1>1, <2>1, WaitersFacts
  <2>2. ASSUME NEW m \in M, ~IsIn(k.lists[Wait(m)], owner[m])
        PROVE  ~IsIn(k'.lists[Wait(m)], owner[m])
    <3>1. \A t : IsIn(k'.lists[Wait(m)], t) => t \in Thread
      <4>1. k'.lists[Wait(m)] \in Seq(Thread)
        BY SoundFields
      <4> QED BY <4>1 DEF IsIn
    <3> QED BY <2>2, <3>1
  <2> QED BY <2>1, <2>2 DEF IInv, Owned, fields
<1>4. Ledger'
  BY DEF IInv, Ledger, fields
<1> QED BY <1>2, <1>3, <1>4 DEF IInv

LEMMA ShareHeld ==
  ASSUME TypeOK, Me \in Thread, NEW m \in M,
         mine' = [mine EXCEPT ![Me] = Held(@, m)],
         \A t \in Thread, o \in M : Handed(t, o)' <=> Handed(t, o)
  PROVE  /\ mine' \in [Thread -> Seq(M)]
         /\ \A t \in Thread, o \in M :
              Share(t, o)' = Share(t, o) + (IF t = Me /\ o = m THEN 1 ELSE 0)
<1>1. /\ mine \in [Thread -> Seq(M)] /\ mine[Me] \in Seq(M)
      /\ mine'[Me] = Held(mine[Me], m) /\ \A t \in Thread \ {Me} : mine'[t] = mine[t]
  BY DEF TypeOK
<1>2. /\ Held(mine[Me], m) \in Seq(M)
      /\ \A o : Count(Held(mine[Me], m), o) = Count(mine[Me], o) + (IF o = m THEN 1 ELSE 0)
  BY <1>1, CountHeld
<1>3. mine' \in [Thread -> Seq(M)]
  BY <1>1, <1>2
<1>4. ASSUME NEW t \in Thread, NEW o \in M
      PROVE  Share(t, o)' = Share(t, o) + (IF t = Me /\ o = m THEN 1 ELSE 0)
  <2>1. Depth(t, o) = Count(mine[t], o) /\ Depth(t, o)' = Count(mine'[t], o)
    BY DEF Depth, Count, Takes
  <2>2. Depth(t, o) \in Nat
    BY ShareType
  <2>3. Depth(t, o)' = Depth(t, o) + (IF t = Me /\ o = m THEN 1 ELSE 0)
    <3>1. CASE t = Me
      BY <1>1, <1>2, <2>1, <3>1
    <3>2. CASE t # Me
      BY <1>1, <2>1, <2>2, <3>2
    <3> QED BY <3>1, <3>2
  <2> QED BY <2>2, <2>3 DEF Share
<1> QED BY <1>3, <1>4

LEMMA Releases ==
  ASSUME TypeOK, Me \in Thread, NEW m \in Releasable
  PROVE  \E i \in DOMAIN mine[Me] : mine[Me][i] = m
<1>1. mine[Me] \in Seq(M) /\ mine[Me] # <<>>
  BY DEF Releasable, TypeOK
<1>2. Len(mine[Me]) \in DOMAIN mine[Me]
  BY <1>1
<1> QED BY <1>1, <1>2 DEF Releasable

LEMMA DepthWithout ==
  ASSUME TypeOK, Me \in Thread, NEW m \in M, m \in Releasable,
         mine' = [mine EXCEPT ![Me] = Without(@, m)]
  PROVE  /\ mine' \in [Thread -> Seq(M)]
         /\ \A t \in Thread, o \in M :
              Depth(t, o)' = Depth(t, o) - (IF t = Me /\ o = m THEN 1 ELSE 0)
<1>1. /\ mine \in [Thread -> Seq(M)] /\ mine[Me] \in Seq(M)
      /\ mine'[Me] = Without(mine[Me], m) /\ \A x \in Thread \ {Me} : mine'[x] = mine[x]
  BY DEF TypeOK
<1>2. /\ Without(mine[Me], m) \in Seq(M)
      /\ \A o : Count(Without(mine[Me], m), o) = Count(mine[Me], o) - (IF o = m THEN 1 ELSE 0)
  <2>1. \E i \in DOMAIN mine[Me] : mine[Me][i] = m
    BY Releases
  <2> QED BY <1>1, <2>1, CountWithout
<1>3. mine' \in [Thread -> Seq(M)]
  BY <1>1, <1>2
<1>4. ASSUME NEW t \in Thread, NEW o \in M
      PROVE  Depth(t, o)' = Depth(t, o) - (IF t = Me /\ o = m THEN 1 ELSE 0)
  <2>1. Depth(t, o) = Count(mine[t], o) /\ Depth(t, o)' = Count(mine'[t], o)
    BY DEF Depth, Count, Takes
  <2>2. Depth(t, o) \in Nat
    BY ShareType
  <2>3. CASE t = Me
    BY <1>1, <1>2, <2>1, <2>3
  <2>4. CASE t # Me
    BY <1>1, <2>1, <2>2, <2>4
  <2> QED BY <2>3, <2>4
<1> QED BY <1>3, <1>4

(* thread->error of the thread that executes, outside a take *)
LEMMA ErrorStep ==
  ASSUME IInv, NEW b, b \in PC, Step("app", b) \/ Step("sleep_return", b),
         b \notin InTake \cup {"sleep_sched"},
         NEW e \in Error, k' = WithError(k, Me, e), want' = want
  PROVE  /\ Me \in Thread /\ pc[Me] \notin InTake /\ k.stat[Me] = "READY"
         /\ pc' \in [Thread -> PC]
         /\ Sound(k', pc', want')
         /\ k'.lists = k.lists /\ k'.prio = k.prio
         /\ \A t \in Thread, o \in M : Handed(t, o)' <=> Handed(t, o)
<1>1. PICK a \in {"app", "sleep_return"} : Step(a, b)
  OBVIOUS
<1>2. /\ Me \in Thread /\ k.cur = Me /\ DOMAIN pc = Thread
      /\ pc[Me] = a /\ pc' = [pc EXCEPT ![Me] = b] /\ pc' \in [Thread -> PC]
      /\ pc'[Me] = b /\ \A t \in Thread \ {Me} : pc'[t] = pc[t]
  BY <1>1, Moved DEF IInv
<1>3. k.stat[k.cur] = "READY"
  <2>1. pc[k.cur] \notin {"take_sched", "sleep_sched"}
    BY <1>2
  <2> QED BY <2>1, SoundReady DEF IInv
<1>4. /\ Sound(k', pc, want)
      /\ k'.stat = k.stat /\ k'.prio = k.prio /\ k'.lists = k.lists /\ k'.cur = k.cur
      /\ k'.err = Put(k.err, Me, e)
  BY <1>2, <1>3, SoundError DEF IInv
<1>5. Sound(k', pc', want')
  <2>1. k'.cur = Me /\ k'.stat[k'.cur] = "READY"
    BY <1>2, <1>3, <1>4
  <2>2. Sound(k', [pc EXCEPT ![k'.cur] = b], want)
    BY <1>2, <1>4, <2>1, SoundMove
  <2> QED BY <1>2, <2>1, <2>2
<1>6. \A t \in Thread \ {Me} : k'.err[t] = k.err[t]
  BY <1>4, SoundFields DEF IInv, Put
<1>7. ASSUME NEW t \in Thread, NEW o \in M PROVE Handed(t, o)' <=> Handed(t, o)
  <2>1. CASE t = Me
    <3>1. ~Handed(t, o)
      BY <1>2, <2>1, NotHanded DEF InTake
    <3>2. ~Handed(t, o)'
      BY <1>2, <2>1 DEF Handed, InTake
    <3> QED BY <3>1, <3>2
  <2>2. CASE t # Me
    BY <1>2, <1>4, <1>6, <2>2, HandedSame
  <2> QED BY <2>1, <2>2
<1> QED BY <1>2, <1>3, <1>4, <1>5, <1>7 DEF InTake

(* A step of the callers that leaves the owners alone *)
LEMMA QuietError ==
  ASSUME IInv, NEW b, b \in PC, Step("app", b) \/ Step("sleep_return", b),
         b \notin InTake \cup {"sleep_sched"},
         NEW e \in Error, k' = WithError(k, Me, e), UNCHANGED <<fields, want, mine>>
  PROVE  IInv'
<1>1. /\ pc' \in [Thread -> PC]
      /\ Sound(k', pc', want')
      /\ k'.lists = k.lists
      /\ \A t \in Thread, o \in M : Handed(t, o)' <=> Handed(t, o)
  BY ErrorStep
<1>2. \A t \in Thread, o \in M : Share(t, o)' = Share(t, o)
  BY <1>1, ShareSame
<1> QED BY <1>1, <1>2, QuietStep DEF IInv, TypeOK

LEMMA TakeOwnedInv ==
  ASSUME MutexAssumption, IInv, NEW m \in M, TakeOwned(m)
  PROVE  IInv'
<1>1. /\ Step("app", "app") /\ k' = WithError(k, Me, "EOK") /\ want' = want
      /\ owner[m] = Me /\ pc[Me] = "app" /\ Len(mine[Me]) < MaxHold
      /\ hold' = [hold EXCEPT ![m] = More(@)] /\ mine' = [mine EXCEPT ![Me] = Held(@, m)]
      /\ UNCHANGED <<value, owner, original>>
  BY DEF TakeOwned, MayTake, Step
<1>2. /\ Me \in Thread /\ pc' \in [Thread -> PC] /\ Sound(k', pc', want')
      /\ k'.lists = k.lists
      /\ \A t \in Thread, o \in M : Handed(t, o)' <=> Handed(t, o)
  BY <1>1, ErrorStep DEF PC, Error, InTake
<1>3. hold[m] \in 1 .. Len(mine[Me]) /\ More(hold[m]) = hold[m] + 1
  BY <1>1, HoldBounds
<1>4. /\ mine' \in [Thread -> Seq(M)]
      /\ \A t \in Thread, o \in M :
           Share(t, o)' = Share(t, o) + (IF t = Me /\ o = m THEN 1 ELSE 0)
  BY <1>1, <1>2, ShareHeld DEF IInv
<1>5. hold' = [hold EXCEPT ![m] = hold[m] + 1] /\ hold[m] + 1 \in 1 .. HoldRange - 1
  <2>1. Len(mine[Me]) \in Nat
    BY <1>2 DEF IInv, TypeOK
  <2> QED BY <1>1, <1>3, <2>1, Facts
<1>6. hold \in [M -> 0 .. HoldRange - 1] /\ hold' \in [M -> 0 .. HoldRange - 1]
      /\ hold'[m] = hold[m] + 1 /\ \A o \in M \ {m} : hold'[o] = hold[o]
  BY <1>5 DEF IInv, TypeOK
<1>7. TypeOK'
  BY <1>1, <1>2, <1>4, <1>6, SoundFields DEF IInv, TypeOK
<1>8. Owned'
  <2>1. owner[m] # None
    BY <1>1, <1>2, Facts
  <2> QED BY <1>1, <1>2, <1>6, <2>1 DEF IInv, Owned, Waiters
<1>9. Ledger'
  <2> SUFFICES ASSUME NEW o \in M
               PROVE  /\ \A t \in Thread : Share(t, o)' = IF owner[o] = t THEN hold'[o] ELSE 0
                      /\ owner[o] # None => hold'[o] > 0
    BY <1>1 DEF Ledger
  <2>1. /\ \A t \in Thread : Share(t, o) = IF owner[o] = t THEN hold[o] ELSE 0
        /\ owner[o] # None => hold[o] > 0
    BY DEF IInv, Ledger
  <2>2. CASE o = m
    BY <1>1, <1>3, <1>4, <1>6, <2>1, <2>2
  <2>3. CASE o # m
    BY <1>4, <1>6, <2>1, <2>3
  <2> QED BY <2>2, <2>3
<1> QED BY <1>2, <1>7, <1>8, <1>9 DEF IInv

LEMMA TakeFreeInv ==
  ASSUME MutexAssumption, IInv, NEW m \in M, TakeFree(m)
  PROVE  IInv'
<1>1. /\ Step("app", "app") /\ k' = WithError(k, Me, "EOK") /\ want' = want
      /\ owner[m] # Me /\ value[m] > 0 /\ pc[Me] = "app" /\ Len(mine[Me]) < MaxHold
      /\ value' = [value EXCEPT ![m] = @ - 1] /\ owner' = [owner EXCEPT ![m] = Me]
      /\ original' = [original EXCEPT ![m] = k.prio[Me]]
      /\ hold' = [hold EXCEPT ![m] = More(@)] /\ mine' = [mine EXCEPT ![Me] = Held(@, m)]
  BY DEF TakeFree, MayTake, Step
<1>2. /\ Me \in Thread /\ pc' \in [Thread -> PC] /\ Sound(k', pc', want')
      /\ k.stat[Me] = "READY"
      /\ k'.lists = k.lists
      /\ \A t \in Thread, o \in M : Handed(t, o)' <=> Handed(t, o)
  BY <1>1, ErrorStep DEF PC, Error, InTake
<1>3. value[m] = 1 /\ owner[m] = None /\ hold[m] = 0 /\ k.prio[Me] \in Prio
  BY <1>1, <1>2, SoundFields DEF IInv, TypeOK, Owned
<1>4. /\ mine' \in [Thread -> Seq(M)]
      /\ \A t \in Thread, o \in M :
           Share(t, o)' = Share(t, o) + (IF t = Me /\ o = m THEN 1 ELSE 0)
  BY <1>1, <1>2, ShareHeld DEF IInv
<1>5. More(hold[m]) = 1 /\ 1 \in 0 .. HoldRange - 1
  <2>1. Len(mine[Me]) \in Nat
    BY <1>2 DEF IInv, TypeOK
  <2>2. HoldRange \in Nat /\ 1 \in 0 .. HoldRange - 1
    BY <1>1, <2>1, Facts
  <2> QED BY <1>3, <2>2, NoLap DEF More
<1>6. /\ hold' \in [M -> 0 .. HoldRange - 1] /\ hold'[m] = 1
      /\ owner' \in [M -> Thread \cup {None}] /\ owner'[m] = Me
      /\ value' \in [M -> {0, 1}] /\ value'[m] = 0
      /\ original' \in [M -> Prio \cup {None}] /\ original'[m] = k.prio[Me]
      /\ \A o \in M \ {m} : /\ hold'[o] = hold[o] /\ owner'[o] = owner[o]
                            /\ value'[o] = value[o] /\ original'[o] = original[o]
  BY <1>1, <1>2, <1>3, <1>5 DEF IInv, TypeOK
<1>7. TypeOK'
  BY <1>1, <1>2, <1>4, <1>6, SoundFields DEF IInv, TypeOK
<1>8. Owned'
  <2> SUFFICES ASSUME NEW o \in M
               PROVE  /\ owner'[o] = None <=> value'[o] = 1
                      /\ owner'[o] = None => hold'[o] = 0 /\ Waiters(k', o) = <<>>
                      /\ owner'[o] # None => original'[o] \in Prio
                      /\ ~IsIn(k'.lists[Wait(o)], owner'[o])
    BY DEF Owned
  <2>1. CASE o = m
    <3>1. ~IsIn(k.lists[Wait(m)], Me)
      BY <1>2, ReadyUnqueued DEF IInv
    <3> QED BY <1>2, <1>3, <1>6, <2>1, <3>1, Facts
  <2>2. CASE o # m
    BY <1>2, <1>6, <2>2 DEF IInv, Owned, Waiters
  <2> QED BY <2>1, <2>2
<1>9. Ledger'
  <2> SUFFICES ASSUME NEW o \in M
               PROVE  /\ \A t \in Thread : Share(t, o)' = IF owner'[o] = t THEN hold'[o] ELSE 0
                      /\ owner'[o] # None => hold'[o] > 0
    BY DEF Ledger
  <2>1. /\ \A t \in Thread : Share(t, o) = IF owner[o] = t THEN hold[o] ELSE 0
        /\ owner[o] # None => hold[o] > 0
    BY DEF IInv, Ledger
  <2>2. CASE o = m
    <3>1. \A t \in Thread : Share(t, o) = 0
      BY <1>3, <2>1, <2>2, Facts
    <3> QED BY <1>4, <1>6, <2>2, <3>1
  <2>3. CASE o # m
    <3>1. \A t \in Thread : Share(t, o)' = Share(t, o) + 0
      BY <1>4, <2>3
    <3>2. \A t \in Thread : Share(t, o) \in Nat
      BY ShareType DEF IInv
    <3> QED BY <1>6, <2>1, <2>3, <3>1, <3>2
  <2> QED BY <2>2, <2>3
<1> QED BY <1>2, <1>7, <1>8, <1>9 DEF IInv

LEMMA TakeFailsInv ==
  ASSUME IInv, NEW m \in M, TakeFails(m)
  PROVE  IInv'
BY QuietError DEF TakeFails, PC, InTake, Error

LEMMA ReleaseNotOwnerInv ==
  ASSUME IInv, NEW m \in M, ReleaseNotOwner(m)
  PROVE  IInv'
BY QuietError DEF ReleaseNotOwner, PC, InTake, Error

(* The owner inherits the priority, then the thread is queued behind it.   *)
LEMMA InheritSound ==
  ASSUME MutexAssumption, IInv, NEW m \in M, value[m] = 0
  PROVE  LET j == Inherit(k, m)
         IN  /\ owner[m] \in Thread
             /\ Sound(j, pc, want)
             /\ j.stat = k.stat /\ j.cur = k.cur /\ j.err = k.err
             /\ \A o \in M : j.lists[Wait(o)] = k.lists[Wait(o)]
             /\ j.prio[owner[m]] <= k.prio[Me]
             /\ \A t \in Thread \ {owner[m]} : j.prio[t] = k.prio[t]
             /\ j.prio[owner[m]] <= k.prio[owner[m]]
<1>1. /\ owner[m] \in Thread /\ k.prio[Me] \in Prio /\ k.prio[owner[m]] \in Prio
      /\ Sound(k, pc, want) /\ k.prio \in [Thread -> Prio] /\ Prio \subseteq Nat
  BY SoundFields, PrioAssumption DEF IInv, Owned, TypeOK, Me
<1>2. CASE k.prio[Me] < k.prio[owner[m]]
  <2>1. PICK j : j = ChangePriority(k, owner[m], k.prio[Me])
    OBVIOUS
  <2>2. /\ Sound(j, pc, want)
        /\ j.stat = k.stat /\ j.cur = k.cur /\ j.err = k.err
        /\ j.prio = Put(k.prio, owner[m], k.prio[Me])
        /\ \A o \in M : j.lists[Wait(o)] = k.lists[Wait(o)]
    BY <1>1, <2>1, SoundChange
  <2>3. /\ j.prio[owner[m]] = k.prio[Me]
        /\ \A t \in Thread \ {owner[m]} : j.prio[t] = k.prio[t]
    BY <1>1, <2>2 DEF Put
  <2>4. k.prio[Me] <= k.prio[Me] /\ k.prio[Me] <= k.prio[owner[m]]
    <3>1. k.prio[Me] \in Nat /\ k.prio[owner[m]] \in Nat
      BY <1>1
    <3> QED BY <1>2, <3>1
  <2>5. Inherit(k, m) = j
    BY <1>2, <2>1 DEF Inherit
  <2> QED BY <1>1, <2>2, <2>3, <2>4, <2>5
<1>3. CASE ~(k.prio[Me] < k.prio[owner[m]])
  <2>1. k.prio[Me] \in Nat /\ k.prio[owner[m]] \in Nat
    BY <1>1
  <2>2. k.prio[owner[m]] <= k.prio[Me] /\ k.prio[owner[m]] <= k.prio[owner[m]]
    BY <1>3, <2>1
  <2>3. Inherit(k, m) = k
    BY <1>3 DEF Inherit
  <2> QED BY <1>1, <2>2, <2>3
<1> QED BY <1>2, <1>3

(* rt_mutex_take up to its rt_schedule: the thread that executes is queued.*)
LEMMA SoundBlock ==
  ASSUME MutexAssumption, NEW u, Sound(u, pc, want),
         Me = u.cur, u.stat[Me] = "READY", Me # Idle,
         NEW m \in M, NEW timed, k' = Block(u, m, Me, Flag, timed),
         pc'[Me] = "take_sched", want'[Me] = m,
         \A t \in Thread \ {Me} : pc'[t] = pc[t] /\ want'[t] = want[t]
  PROVE  /\ Sound(k', pc', want')
         /\ k'.stat = Put(u.stat, Me, "SUSPEND")
         /\ k'.prio = u.prio /\ k'.err = Put(u.err, Me, "EOK")
         /\ \A o \in M, t \in Thread :
              IsIn(k'.lists[Wait(o)], t) <=> IsIn(u.lists[Wait(o)], t) \/ (o = m /\ t = Me)
<1>1. /\ KernelOK(u) /\ Me \in Thread /\ u.nest = 0 /\ u.stat[Me] = "READY"
      /\ u.stat \in [Thread -> Stat] /\ u.err \in [Thread -> Error] /\ m \in WaitQueue
  BY SoundFields DEF M
<1>2. \A o \in M : ~IsIn(u.lists[Wait(o)], Me)
  BY <1>1, ReadyUnqueued
<1>5. /\ KernelOK(k')
      /\ k'.stat = Put(u.stat, Me, "SUSPEND")
      /\ k'.prio = u.prio /\ k'.cur = u.cur /\ k'.nest = u.nest
      /\ k'.err = Put(u.err, Me, "EOK")
      /\ \A o \in M, t \in Thread :
           IsIn(k'.lists[Wait(o)], t)
             <=> (IsIn(u.lists[Wait(o)], t) /\ t # Me) \/ (o = m /\ t = Me)
  BY <1>1, BlockProperties DEF M
<1>6. /\ k'.stat[Me] = "SUSPEND" /\ k'.err[Me] = "EOK"
      /\ \A t \in Thread \ {Me} : k'.stat[t] = u.stat[t] /\ k'.err[t] = u.err[t]
  BY <1>1, <1>5 DEF Put
<1>7. \A o \in M, t \in Thread :
        IsIn(k'.lists[Wait(o)], t) <=> IsIn(u.lists[Wait(o)], t) \/ (o = m /\ t = Me)
  BY <1>2, <1>5
<1>8. ASSUME NEW t \in Thread PROVE Queued(k', pc', want', t)
  <2>1. CASE t = Me
    BY <1>2, <1>6, <1>7, <2>1 DEF Queued, InTake
  <2>2. CASE t # Me
    <3>1. Queued(u, pc, want, t)
      BY DEF Sound
    <3> QED BY <1>6, <1>7, <2>2, <3>1 DEF Queued
  <2> QED BY <2>1, <2>2
<1>9. Sound(k', pc', want')
  <2>1. k'.stat[Idle] = "READY"
    BY <1>1, <1>6, Facts DEF Sound
  <2>2. pc'[k'.cur] = "take_sched"
    BY <1>5
  <2> QED BY <1>1, <1>5, <1>8, <2>1, <2>2 DEF Sound
<1> QED BY <1>5, <1>7, <1>9

LEMMA TakeWaitStep ==
  ASSUME MutexAssumption, IInv, NEW m \in M, TakeWait(m)
  PROVE  /\ Me \in Thread /\ owner[m] \in Thread \ {Me} /\ pc[Me] = "app"
         /\ pc' \in [Thread -> PC] /\ want' \in [Thread -> M]
         /\ pc'[Me] = "take_sched" /\ want'[Me] = m
         /\ \A t \in Thread \ {Me} : pc'[t] = pc[t] /\ want'[t] = want[t]
         /\ Sound(k', pc', want')
         /\ \A t \in Thread \ {Me} : k'.err[t] = k.err[t]
         /\ \A o \in M, t \in Thread :
              IsIn(k'.lists[Wait(o)], t) <=> IsIn(k.lists[Wait(o)], t) \/ (o = m /\ t = Me)
         /\ k'.prio[owner[m]] <= k.prio[Me] /\ k'.prio[owner[m]] <= k.prio[owner[m]]
         /\ \A t \in Thread \ {owner[m]} : k'.prio[t] = k.prio[t]
<1> DEFINE j == Inherit(k, m)
<1>1. PICK timed : k' = Block(j, m, Me, Flag, timed)
  BY DEF TakeWait
<1>2. /\ Me \in Thread /\ k.cur = Me /\ DOMAIN pc = Thread /\ DOMAIN want = Thread
      /\ pc[Me] = "app" /\ pc' = [pc EXCEPT ![Me] = "take_sched"] /\ pc' \in [Thread -> PC]
      /\ pc'[Me] = "take_sched" /\ \A t \in Thread \ {Me} : pc'[t] = pc[t]
  BY Moved DEF IInv, TakeWait, PC
<1>3. /\ owner[m] # Me /\ value[m] = 0 /\ want' = [want EXCEPT ![Me] = m] /\ Me # Idle
  BY Facts DEF TakeWait, MayTake
<1>4. /\ owner[m] \in Thread
      /\ Sound(j, pc, want)
      /\ j.stat = k.stat /\ j.cur = Me /\ j.err = k.err
      /\ \A o \in M : j.lists[Wait(o)] = k.lists[Wait(o)]
      /\ j.prio[owner[m]] <= k.prio[Me] /\ j.prio[owner[m]] <= k.prio[owner[m]]
      /\ \A t \in Thread \ {owner[m]} : j.prio[t] = k.prio[t]
  BY <1>2, <1>3, InheritSound
<1> HIDE DEF j
<1>5. j.stat[j.cur] = "READY"
  BY <1>2, <1>4, SoundReady
<1>6. /\ Sound(k', pc', want')
      /\ k'.err = Put(j.err, Me, "EOK") /\ k'.prio = j.prio
      /\ \A o \in M, t \in Thread :
           IsIn(k'.lists[Wait(o)], t) <=> IsIn(j.lists[Wait(o)], t) \/ (o = m /\ t = Me)
  <2>1. Sound(j, pc, want) /\ Me = j.cur /\ j.stat[Me] = "READY" /\ Me # Idle
    BY <1>3, <1>4, <1>5
  <2>2. want'[Me] = m /\ \A t \in Thread \ {Me} : pc'[t] = pc[t] /\ want'[t] = want[t]
    BY <1>2, <1>3
  <2>3. pc'[Me] = "take_sched"
    BY <1>2
  <2> QED BY <1>1, <2>1, <2>2, <2>3, SoundBlock
<1>8. want' \in [Thread -> M] /\ want'[Me] = m /\ \A t \in Thread \ {Me} : want'[t] = want[t]
  BY <1>2, <1>3 DEF IInv, TypeOK
<1>9. \A t \in Thread \ {Me} : k'.err[t] = k.err[t]
  <2>1. k.err \in [Thread -> Error]
    BY SoundFields DEF IInv
  <2> QED BY <1>4, <1>6, <2>1 DEF Put
<1>10. \A o \in M, t \in Thread :
         IsIn(k'.lists[Wait(o)], t) <=> IsIn(k.lists[Wait(o)], t) \/ (o = m /\ t = Me)
  BY <1>4, <1>6
<1> QED BY <1>2, <1>3, <1>4, <1>6, <1>8, <1>9, <1>10

LEMMA TakeWaitInv ==
  ASSUME MutexAssumption, IInv, NEW m \in M, TakeWait(m)
  PROVE  IInv'
<1>1. UNCHANGED <<fields, mine>>
  BY DEF TakeWait
<1>2. /\ Me \in Thread /\ owner[m] \in Thread \ {Me} /\ pc[Me] = "app"
      /\ pc' \in [Thread -> PC] /\ want' \in [Thread -> M]
      /\ pc'[Me] = "take_sched" /\ want'[Me] = m
      /\ \A t \in Thread \ {Me} : pc'[t] = pc[t] /\ want'[t] = want[t]
      /\ Sound(k', pc', want')
      /\ \A t \in Thread \ {Me} : k'.err[t] = k.err[t]
      /\ \A o \in M, t \in Thread :
           IsIn(k'.lists[Wait(o)], t) <=> IsIn(k.lists[Wait(o)], t) \/ (o = m /\ t = Me)
  BY TakeWaitStep
<1>3. TypeOK'
  BY <1>1, <1>2, SoundFields DEF IInv, TypeOK, fields
<1>4. Owned'
  <2> SUFFICES ASSUME NEW o \in M
               PROVE  /\ owner[o] = None <=> value[o] = 1
                      /\ owner[o] = None => hold[o] = 0 /\ Waiters(k', o) = <<>>
                      /\ owner[o] # None => original[o] \in Prio
                      /\ ~IsIn(k'.lists[Wait(o)], owner[o])
    BY <1>1 DEF Owned, fields
  <2>1. /\ owner[o] = None <=> value[o] = 1
        /\ owner[o] = None => hold[o] = 0 /\ Waiters(k, o) = <<>>
        /\ owner[o] # None => original[o] \in Prio
        /\ ~IsIn(k.lists[Wait(o)], owner[o])
    BY DEF IInv, Owned
  <2>2. owner[o] = None => Waiters(k', o) = <<>>
    <3> SUFFICES ASSUME owner[o] = None PROVE Waiters(k', o) = <<>>
      OBVIOUS
    <3>1. o # m
      BY <1>2, Facts
    <3>2. k \in Kernel /\ k' \in Kernel
      BY <1>2, SoundFields DEF IInv
    <3>3. \A x \in Thread : ~IsIn(k.lists[Wait(o)], x)
      BY <2>1, <3>2, WaitersFacts
    <3> QED BY <1>2, <3>1, <3>2, <3>3, WaitersFacts
  <2>3. ~IsIn(k'.lists[Wait(o)], owner[o])
    <3>1. CASE owner[o] \in Thread
      BY <1>2, <2>1, <3>1
    <3>2. CASE owner[o] \notin Thread
      <4>1. k'.lists[Wait(o)] \in Seq(Thread)
        BY <1>2, SoundFields
      <4> QED BY <3>2, <4>1 DEF IsIn
    <3> QED BY <3>1, <3>2
  <2> QED BY <2>1, <2>2, <2>3
<1>5. ASSUME NEW t \in Thread, NEW o \in M PROVE Share(t, o)' = Share(t, o)
  <2>1. Handed(t, o)' <=> Handed(t, o)
    <3>1. CASE t = Me
      <4>1. ~Handed(t, o)
        BY <1>2, <3>1, NotHanded DEF InTake
      <4>2. ~Handed(t, o)'
        BY <1>2, <3>1 DEF Handed, Waiting, Waiters
      <4> QED BY <4>1, <4>2
    <3>2. CASE t # Me
      BY <1>2, <3>2, HandedSame
    <3> QED BY <3>1, <3>2
  <2> QED BY <1>1, <2>1, ShareSame
<1>6. Ledger'
  BY <1>1, <1>5 DEF IInv, Ledger, fields
<1> QED BY <1>2, <1>3, <1>4, <1>6 DEF IInv

(* A step that moves the processor or threads within their calls only *)
LEMMA QuietMove ==
  ASSUME IInv, UNCHANGED <<fields, want, mine>>, pc' \in [Thread -> PC],
         Sound(k', pc', want'),
         \A t \in Thread : pc'[t] \in InTake <=> pc[t] \in InTake,
         k'.err = k.err,
         \A m \in M, t \in Thread :
           IsIn(k'.lists[Wait(m)], t) <=> IsIn(k.lists[Wait(m)], t)
  PROVE  IInv'
<1>1. ASSUME NEW t \in Thread, NEW m \in M PROVE Share(t, m)' = Share(t, m)
  BY HandedSame, ShareSame
<1> QED BY <1>1, QuietStep DEF IInv, TypeOK

LEMMA ScheduleStep ==
  ASSUME MutexAssumption, IInv, NEW a, NEW b, Step(a, b), k' = Schedule(k),
         UNCHANGED <<fields, want, mine>>,
         \/ a = "take_sched" /\ b = "take_return"
         \/ a = "release_sched" /\ b = "app"
         \/ a = "sleep_sched" /\ b = "sleep_return"
  PROVE  IInv'
<1>1. /\ Me \in Thread /\ pc[Me] = a /\ pc'[Me] = b /\ pc' \in [Thread -> PC]
      /\ \A t \in Thread \ {Me} : pc'[t] = pc[t]
  BY Moved DEF IInv, PC
<1>2. /\ Sound(k', pc, want)
      /\ k'.stat[k'.cur] = "READY"
      /\ k'.stat = k.stat /\ k'.lists = k.lists /\ k'.err = k.err
  BY SoundSchedule DEF IInv
<1>3. ASSUME NEW t \in Thread PROVE Queued(k', pc', want, t)
  <2>1. Queued(k', pc, want, t)
    BY <1>2 DEF Sound
  <2>2. CASE t = Me
    BY <1>1, <2>1, <2>2 DEF Queued, InTake, InSleep
  <2>3. CASE t # Me
    BY <1>1, <2>1, <2>3 DEF Queued
  <2> QED BY <2>2, <2>3
<1>4. Sound(k', pc', want')
  BY <1>2, <1>3 DEF Sound
<1>5. \A t \in Thread : pc'[t] \in InTake <=> pc[t] \in InTake
  BY <1>1 DEF InTake
<1> QED BY <1>1, <1>2, <1>4, <1>5, QuietMove

LEMMA InKernelInv ==
  ASSUME MutexAssumption, IInv, TakeSchedule \/ ReleaseSchedule \/ SleepSchedule
  PROVE  IInv'
BY ScheduleStep DEF TakeSchedule, ReleaseSchedule, SleepSchedule

(* The take that was handed over becomes one the caller has made.          *)
LEMMA TakeReturnInv ==
  ASSUME MutexAssumption, IInv, TakeReturn
  PROVE  IInv'
<1>1. /\ Me \in Thread /\ pc[Me] = "take_return" /\ pc'[Me] = "app" /\ pc' \in [Thread -> PC]
      /\ \A t \in Thread \ {Me} : pc'[t] = pc[t]
  BY Moved DEF TakeReturn, IInv, PC
<1>2. /\ k' = k /\ want' = want /\ UNCHANGED fields
      /\ mine' = [mine EXCEPT ![Me] = IF k.err[Me] = "EOK" THEN Held(@, want[Me]) ELSE @]
  BY DEF TakeReturn
<1>3. k.stat[k.cur] = "READY"
  BY <1>1, SoundReady DEF IInv, Me
<1>4. Sound(k', pc', want')
  <2>1. pc' = [pc EXCEPT ![k.cur] = "app"] /\ DOMAIN pc = Thread
    BY DEF TakeReturn, Step, Me, IInv, TypeOK
  <2>2. Sound(k, [pc EXCEPT ![k.cur] = "app"], want)
    BY <1>3, <2>1, SoundMove DEF IInv
  <2> QED BY <1>2, <2>1, <2>2
<1>5. ASSUME NEW t \in Thread, t = Me, NEW o \in M
      PROVE  /\ Handed(t, o) <=> o = want[t] /\ k.err[t] = "EOK"
             /\ ~Handed(t, o)'
  <2>1. ~IsIn(k.lists[Wait(o)], t)
    BY <1>3, <1>5, ReadyUnqueued DEF IInv, Me
  <2>2. pc[t] = "take_return" /\ pc'[t] = "app"
    BY <1>1, <1>5
  <2> QED BY <2>1, <2>2 DEF Handed, Waiting, Waiters
<1>6. /\ mine[Me] \in Seq(M) /\ want[Me] \in M /\ mine \in [Thread -> Seq(M)]
  BY <1>1 DEF IInv, TypeOK
<1>7. /\ mine' \in [Thread -> Seq(M)]
      /\ \A t \in Thread \ {Me} : mine'[t] = mine[t]
      /\ \A o \in M : Count(mine'[Me], o) = Count(mine[Me], o) + (IF Handed(Me, o) THEN 1 ELSE 0)
  <2>1. CASE k.err[Me] = "EOK"
    <3>1. /\ Held(mine[Me], want[Me]) \in Seq(M)
          /\ \A o : Count(Held(mine[Me], want[Me]), o)
                      = Count(mine[Me], o) + (IF o = want[Me] THEN 1 ELSE 0)
      BY <1>6, CountHeld
    <3>2. mine'[Me] = Held(mine[Me], want[Me]) /\ \A t \in Thread \ {Me} : mine'[t] = mine[t]
      BY <1>1, <1>2, <1>6, <2>1
    <3>3. mine' \in [Thread -> Seq(M)]
      BY <1>2, <1>6, <2>1, <3>1
    <3>4. \A o \in M : Handed(Me, o) <=> o = want[Me]
      BY <1>1, <1>5, <2>1
    <3> QED BY <3>1, <3>2, <3>3, <3>4
  <2>2. CASE k.err[Me] # "EOK"
    <3>1. mine' = mine
      BY <1>2, <1>6, <2>2
    <3>2. \A o \in M : ~Handed(Me, o) /\ Count(mine[Me], o) \in Nat
      BY <1>1, <1>5, <1>6, <2>2, CountType
    <3> QED BY <1>6, <3>1, <3>2
  <2> QED BY <2>1, <2>2
<1>8. ASSUME NEW t \in Thread, NEW o \in M PROVE Share(t, o)' = Share(t, o)
  <2>1. CASE t = Me
    <3>1. Depth(t, o) = Count(mine[t], o) /\ Depth(t, o)' = Count(mine'[t], o)
      BY DEF Depth, Count, Takes
    <3>2. Depth(t, o) \in Nat /\ Share(t, o) \in Nat
      BY ShareType DEF IInv
    <3>3. Depth(t, o)' = Share(t, o)
      BY <1>7, <2>1, <3>1 DEF Share
    <3>4. Share(t, o)' = Depth(t, o)' + 0
      BY <1>5, <2>1 DEF Share
    <3> QED BY <3>2, <3>3, <3>4
  <2>2. CASE t # Me
    <3>1. Handed(t, o)' <=> Handed(t, o)
      BY <1>1, <1>2, <2>2, HandedSame
    <3> QED BY <1>7, <2>2, <3>1, ShareSame
  <2> QED BY <2>1, <2>2
<1>9. \A t \in Thread, m \in M : IsIn(k'.lists[Wait(m)], t) => IsIn(k.lists[Wait(m)], t)
  BY <1>2
<1>10. want' \in [Thread -> M] /\ UNCHANGED fields
  BY <1>2 DEF IInv, TypeOK
<1>11. mine' \in [Thread -> Seq(M)]
  BY <1>7
<1> QED BY <1>1, <1>4, <1>8, <1>9, <1>10, <1>11, QuietStep

(* rt_thread_delay up to its rt_schedule: nobody enters or leaves a list.  *)
LEMMA SleepStep ==
  ASSUME MutexAssumption, IInv, Sleep
  PROVE  /\ k'.prio = k.prio
         /\ \A m \in M : k'.lists[Wait(m)] = k.lists[Wait(m)]
<1>1. /\ k.stat[Me] = "READY" /\ Me # Idle /\ k' = TimerStart(Suspend(k, Me), Me)
      /\ pc'[Me] = "sleep_sched" /\ \A t \in Thread \ {Me} : pc'[t] = pc[t]
  <2>1. /\ Me = k.cur /\ pc[Me] = "app" /\ pc'[Me] = "sleep_sched"
        /\ \A t \in Thread \ {Me} : pc'[t] = pc[t]
    BY Moved DEF Sleep, IInv, PC
  <2>2. pc[k.cur] = "app"
    BY <2>1
  <2> QED BY <2>1, <2>2, SoundReady, Facts DEF Sleep, IInv
<1> QED BY <1>1, SoundSleep DEF IInv

LEMMA SleepInv ==
  ASSUME MutexAssumption, IInv, Sleep
  PROVE  IInv'
<1>1. /\ Me \in Thread /\ Me = k.cur /\ pc[Me] = "app" /\ pc'[Me] = "sleep_sched"
      /\ pc' \in [Thread -> PC] /\ \A t \in Thread \ {Me} : pc'[t] = pc[t]
  BY Moved DEF Sleep, IInv, PC
<1>2. /\ k' = TimerStart(Suspend(k, Me), Me) /\ UNCHANGED <<fields, want, mine>>
      /\ Me # Idle
  BY Facts DEF Sleep
<1>3. k.stat[Me] = "READY"
  <2>1. pc[k.cur] = "app"
    BY <1>1
  <2> QED BY <1>1, <2>1, SoundReady DEF IInv
<1>4. /\ Sound(k', pc', want)
      /\ k'.err = k.err
      /\ \A m \in M : k'.lists[Wait(m)] = k.lists[Wait(m)]
  BY <1>1, <1>2, <1>3, SoundSleep DEF IInv
<1>5. Sound(k', pc', want') /\ \A t \in Thread : pc'[t] \in InTake <=> pc[t] \in InTake
  BY <1>1, <1>2, <1>4 DEF InTake
<1> QED BY <1>1, <1>2, <1>4, <1>5, QuietMove

LEMMA SleepReturnInv ==
  ASSUME IInv, SleepReturn
  PROVE  IInv'
<1>1. CASE k.err[Me] = "ETIMEOUT"
  <2>1. Step("sleep_return", "app") /\ k' = WithError(k, Me, "EOK")
        /\ UNCHANGED <<fields, want, mine>>
    BY <1>1 DEF SleepReturn
  <2>2. "app" \in PC /\ "app" \notin InTake \cup {"sleep_sched"} /\ "EOK" \in Error
    BY DEF PC, InTake, Error
  <2> QED BY <2>1, <2>2, QuietError
<1>2. CASE k.err[Me] # "ETIMEOUT"
  <2>1. k' = k /\ UNCHANGED <<fields, want, mine>> /\ Step("sleep_return", "app")
    BY <1>2 DEF SleepReturn
  <2>2. /\ Me \in Thread /\ pc[Me] = "sleep_return" /\ pc'[Me] = "app"
        /\ pc' \in [Thread -> PC] /\ \A t \in Thread \ {Me} : pc'[t] = pc[t]
    BY <2>1, Moved DEF IInv, PC
  <2>3. k.stat[k.cur] = "READY"
    BY <2>2, SoundReady DEF IInv, Me
  <2>4. Sound(k', pc', want')
    <3>1. pc' = [pc EXCEPT ![k.cur] = "app"] /\ DOMAIN pc = Thread
      BY <2>1 DEF Step, Me, IInv, TypeOK
    <3>2. Sound(k, [pc EXCEPT ![k.cur] = "app"], want)
      BY <2>3, <3>1, SoundMove DEF IInv
    <3> QED BY <2>1, <3>1, <3>2
  <2>5. \A t \in Thread : pc'[t] \in InTake <=> pc[t] \in InTake
    BY <2>2 DEF InTake
  <2>6. k'.err = k.err
        /\ \A m \in M, t \in Thread : IsIn(k'.lists[Wait(m)], t) <=> IsIn(k.lists[Wait(m)], t)
    BY <2>1
  <2>7. UNCHANGED <<fields, want, mine>> /\ pc' \in [Thread -> PC]
    BY <2>1, <2>2
  <2> QED BY <2>4, <2>5, <2>6, <2>7, QuietMove
<1> QED BY <1>1, <1>2

(* The time-out takes the waiter off the list in the same step in which it *)
(* sets its error: it is not handed the mutex later on.                    *)
LEMMA TickTimeoutInv ==
  ASSUME MutexAssumption, IInv, NEW x \in Thread, TickTimeout(x)
  PROVE  IInv'
<1>1. x \in k.armed /\ k' = Timeout(k, x) /\ UNCHANGED <<fields, pc, want, mine>>
  BY DEF TickTimeout
<1>2. /\ k.stat[x] = "SUSPEND"
      /\ Sound(k', pc, want)
      /\ k'.err = Put(k.err, x, "ETIMEOUT")
      /\ \A m \in M, t \in Thread :
           IsIn(k'.lists[Wait(m)], t) <=> IsIn(k.lists[Wait(m)], t) /\ t # x
  BY <1>1, SoundTimeout DEF IInv
<1>3. k'.err[x] = "ETIMEOUT" /\ \A t \in Thread \ {x} : k'.err[t] = k.err[t]
  <2>1. k.err \in [Thread -> Error]
    BY SoundFields DEF IInv
  <2> QED BY <1>2, <2>1 DEF Put
<1>4. ASSUME NEW t \in Thread, NEW m \in M PROVE Share(t, m)' = Share(t, m)
  <2>1. Handed(t, m)' <=> Handed(t, m)
    <3>1. CASE t = x
      <4>1. ~Handed(x, m)'
        BY <1>3 DEF Handed
      <4>2. Queued(k, pc, want, x)
        BY DEF IInv, Sound
      <4>3. ~Handed(x, m)
        BY <1>2, <4>2 DEF Queued, Handed, Waiting, Waiters, InTake
      <4> QED BY <3>1, <4>1, <4>3
    <3>2. CASE t # x
      BY <1>1, <1>2, <1>3, <3>2, HandedSame
    <3> QED BY <3>1, <3>2
  <2> QED BY <1>1, <2>1, ShareSame
<1>5. UNCHANGED fields /\ pc' \in [Thread -> PC] /\ want' \in [Thread -> M]
      /\ mine' \in [Thread -> Seq(M)] /\ Sound(k', pc', want')
  BY <1>1, <1>2 DEF IInv, TypeOK
<1> QED BY <1>2, <1>4, <1>5, QuietStep

LEMMA TickYieldInv ==
  ASSUME IInv, TickYield
  PROVE  IInv'
<1>1. k' = Yield(k) /\ UNCHANGED <<fields, pc, want, mine>>
  BY DEF TickYield
<1>2. /\ Sound(k', pc, want)
      /\ k'.err = k.err
      /\ \A m \in M : k'.lists[Wait(m)] = k.lists[Wait(m)]
  BY <1>1, SoundYield DEF IInv
<1>3. /\ UNCHANGED <<fields, want, mine>> /\ pc' \in [Thread -> PC] /\ Sound(k', pc', want')
      /\ \A t \in Thread : pc'[t] \in InTake <=> pc[t] \in InTake
  BY <1>1, <1>2 DEF IInv, TypeOK
<1> QED BY <1>2, <1>3, QuietMove

(* What every release by the owner knows and does to the takes *)
Gives(m) == mine' = [mine EXCEPT ![Me] = Without(@, m)]

LEMMA ReleaseFacts ==
  ASSUME MutexAssumption, IInv, NEW m \in M, m \in Releasable, owner[m] = Me, pc[Me] = "app",
         Gives(m)
  PROVE  /\ Me \in Thread /\ Me = k.cur /\ k.stat[Me] = "READY"
         /\ value[m] = 0 /\ original[m] \in Prio
         /\ hold[m] \in 1 .. HoldRange - 1 /\ Less(hold[m]) = hold[m] - 1
         /\ mine' \in [Thread -> Seq(M)]
         /\ \A t \in Thread : ~IsIn(k.lists[Wait(m)], t) \/ t # Me
         /\ \A t \in Thread, o \in M :
              /\ Depth(t, o) \in Nat
              /\ Depth(t, o)' = Depth(t, o) - (IF t = Me /\ o = m THEN 1 ELSE 0)
              /\ Share(t, o) = Depth(t, o) + (IF Handed(t, o) THEN 1 ELSE 0)
              /\ t = Me => ~Handed(t, o)
<1>1. Me \in Thread /\ hold[m] \in 1 .. Len(mine[Me]) /\ Less(hold[m]) = hold[m] - 1
  BY HoldBounds
<1>2. k.stat[Me] = "READY" /\ Me = k.cur
  BY SoundReady DEF IInv, Me
<1>3. value[m] = 0 /\ original[m] \in Prio /\ ~IsIn(k.lists[Wait(m)], Me)
  <2>1. owner[m] # None
    BY <1>1, Facts
  <2> QED BY <2>1 DEF IInv, Owned, TypeOK
<1>4. hold[m] \in 1 .. HoldRange - 1
  <2>1. hold[m] \in 0 .. HoldRange - 1 /\ mine[Me] \in Seq(M) /\ HoldRange \in Nat
    BY <1>1, Facts DEF IInv, TypeOK
  <2> QED BY <1>1, <2>1
<1>5. /\ mine' \in [Thread -> Seq(M)]
      /\ \A t \in Thread, o \in M :
           Depth(t, o)' = Depth(t, o) - (IF t = Me /\ o = m THEN 1 ELSE 0)
  BY <1>1, DepthWithout DEF IInv, Gives
<1>6. ASSUME NEW t \in Thread, NEW o \in M
      PROVE  /\ Depth(t, o) \in Nat
             /\ Share(t, o) = Depth(t, o) + (IF Handed(t, o) THEN 1 ELSE 0)
             /\ t = Me => ~Handed(t, o)
  BY ShareType, NotHanded DEF IInv, Share, InTake
<1> QED BY <1>1, <1>2, <1>3, <1>4, <1>5, <1>6

LEMMA ReleaseInnerInv ==
  ASSUME MutexAssumption, IInv, NEW m \in M, ReleaseInner(m)
  PROVE  IInv'
<1>1. /\ m \in Releasable /\ owner[m] = Me /\ pc[Me] = "app" /\ Less(hold[m]) # 0
      /\ Gives(m)
      /\ hold' = [hold EXCEPT ![m] = Less(@)]
      /\ UNCHANGED <<k, value, owner, original, want>>
  BY DEF ReleaseInner, Step, Gives
<1>2. pc' = pc
  BY DEF ReleaseInner, Step, IInv, TypeOK
<1>3. /\ Me \in Thread
      /\ hold[m] \in 1 .. HoldRange - 1 /\ Less(hold[m]) = hold[m] - 1
      /\ mine' \in [Thread -> Seq(M)]
      /\ \A t \in Thread, o \in M :
           /\ Depth(t, o) \in Nat
           /\ Depth(t, o)' = Depth(t, o) - (IF t = Me /\ o = m THEN 1 ELSE 0)
           /\ Share(t, o) = Depth(t, o) + (IF Handed(t, o) THEN 1 ELSE 0)
  BY <1>1, ReleaseFacts
<1>4. /\ hold' \in [M -> 0 .. HoldRange - 1] /\ hold'[m] = hold[m] - 1 /\ hold'[m] > 0
      /\ \A o \in M \ {m} : hold'[o] = hold[o]
  <2>1. hold \in [M -> 0 .. HoldRange - 1] /\ HoldRange \in Nat
    BY Facts DEF IInv, TypeOK
  <2>2. hold[m] - 1 \in 0 .. HoldRange - 1 /\ hold[m] - 1 > 0
    BY <1>1, <1>3, <2>1
  <2> QED BY <1>1, <1>3, <2>1, <2>2
<1>5. ASSUME NEW t \in Thread, NEW o \in M
      PROVE  Share(t, o)' = Share(t, o) - (IF t = Me /\ o = m THEN 1 ELSE 0)
  <2>1. Handed(t, o)' <=> Handed(t, o)
    BY <1>1, <1>2 DEF Handed, Waiting, Waiters
  <2>2. Share(t, o)' = Depth(t, o)' + (IF Handed(t, o)' THEN 1 ELSE 0)
    BY DEF Share
  <2> QED BY <1>3, <2>1, <2>2
<1>6. TypeOK'
  BY <1>1, <1>2, <1>3, <1>4 DEF IInv, TypeOK
<1>7. Owned'
  <2>1. owner[m] # None
    BY <1>1, <1>3, Facts
  <2> QED BY <1>1, <1>4, <2>1 DEF IInv, Owned, Waiters
<1>8. Ledger'
  <2> SUFFICES ASSUME NEW o \in M
               PROVE  /\ \A t \in Thread : Share(t, o)' = IF owner[o] = t THEN hold'[o] ELSE 0
                      /\ owner[o] # None => hold'[o] > 0
    BY <1>1 DEF Ledger
  <2>1. /\ \A t \in Thread : Share(t, o) = IF owner[o] = t THEN hold[o] ELSE 0
        /\ owner[o] # None => hold[o] > 0
    BY DEF IInv, Ledger
  <2>2. CASE o = m
    BY <1>1, <1>3, <1>4, <1>5, <2>1, <2>2
  <2>3. CASE o # m
    <3>1. \A t \in Thread : Share(t, o) \in Nat
      BY ShareType DEF IInv
    <3> QED BY <1>4, <1>5, <2>1, <2>3, <3>1
  <2> QED BY <2>2, <2>3
<1>9. Sound(k', pc', want')
  BY <1>1, <1>2 DEF IInv
<1> QED BY <1>6, <1>7, <1>8, <1>9 DEF IInv

(* The owner gets its priority back; nobody is woken or queued by that.    *)
LEMMA RestoreSound ==
  ASSUME IInv, NEW m \in M, Me \in Thread, original[m] \in Prio
  PROVE  LET v == Restore(m)
         IN  /\ Sound(v, pc, want)
             /\ v.stat = k.stat /\ v.cur = k.cur /\ v.err = k.err
             /\ \A o \in M : v.lists[Wait(o)] = k.lists[Wait(o)]
             /\ v.prio[Me] = original[m] /\ \A t \in Thread \ {Me} : v.prio[t] = k.prio[t]
<1>1. Sound(k, pc, want) /\ k.prio \in [Thread -> Prio]
  BY SoundFields DEF IInv
<1>2. CASE original[m] = k.prio[Me]
  BY <1>1, <1>2 DEF Restore
<1>3. CASE original[m] # k.prio[Me]
  <2> DEFINE v == ChangePriority(k, Me, original[m])
  <2>1. /\ Sound(v, pc, want)
        /\ v.stat = k.stat /\ v.cur = k.cur /\ v.err = k.err
        /\ v.prio = Put(k.prio, Me, original[m])
        /\ \A o \in M : v.lists[Wait(o)] = k.lists[Wait(o)]
    BY <1>1, SoundChange
  <2> HIDE DEF v
  <2>2. v.prio[Me] = original[m] /\ \A t \in Thread \ {Me} : v.prio[t] = k.prio[t]
    BY <1>1, <2>1 DEF Put
  <2>3. Restore(m) = v
    BY <1>3 DEF Restore, v
  <2> QED BY <2>1, <2>2, <2>3
<1> QED BY <1>2, <1>3

LEMMA ReleaseFreeInv ==
  ASSUME MutexAssumption, IInv, NEW m \in M, ReleaseFree(m)
  PROVE  IInv'
<1>1. /\ m \in Releasable /\ owner[m] = Me /\ pc[Me] = "app"
      /\ Less(hold[m]) = 0 /\ Waiters(k, m) = <<>>
      /\ Gives(m)
      /\ k' = Restore(m) /\ want' = want
  BY DEF ReleaseFree, Step, Gives
<1>2. pc' = pc
  BY DEF ReleaseFree, Step, IInv, TypeOK
<1>3. /\ Me \in Thread /\ value[m] = 0 /\ original[m] \in Prio
      /\ hold[m] \in 1 .. HoldRange - 1 /\ Less(hold[m]) = hold[m] - 1
      /\ mine' \in [Thread -> Seq(M)]
      /\ \A t \in Thread, o \in M :
           /\ Depth(t, o) \in Nat
           /\ Depth(t, o)' = Depth(t, o) - (IF t = Me /\ o = m THEN 1 ELSE 0)
           /\ Share(t, o) = Depth(t, o) + (IF Handed(t, o) THEN 1 ELSE 0)
  BY <1>1, ReleaseFacts
<1>4. /\ Sound(k', pc', want')
      /\ k'.err = k.err
      /\ \A o \in M : k'.lists[Wait(o)] = k.lists[Wait(o)]
  BY <1>1, <1>2, <1>3, RestoreSound
<1>5. /\ owner' \in [M -> Thread \cup {None}] /\ owner'[m] = None
      /\ value' \in [M -> {0, 1}] /\ value'[m] = 1
      /\ original' \in [M -> Prio \cup {None}]
      /\ hold' \in [M -> 0 .. HoldRange - 1] /\ hold'[m] = 0
      /\ \A o \in M \ {m} : /\ hold'[o] = hold[o] /\ owner'[o] = owner[o]
                            /\ value'[o] = value[o] /\ original'[o] = original[o]
  <2>1. /\ value' = [value EXCEPT ![m] = @ + 1] /\ owner' = [owner EXCEPT ![m] = None]
        /\ original' = [original EXCEPT ![m] = None] /\ hold' = [hold EXCEPT ![m] = 0]
    BY DEF ReleaseFree
  <2>2. 0 \in 0 .. HoldRange - 1
    BY <1>3, Facts
  <2> QED BY <1>3, <2>1, <2>2 DEF IInv, TypeOK
<1>6. hold[m] = 1
  BY <1>1, <1>3
<1>7. ASSUME NEW t \in Thread, NEW o \in M
      PROVE  Share(t, o)' = Share(t, o) - (IF t = Me /\ o = m THEN 1 ELSE 0)
  <2>1. Handed(t, o)' <=> Handed(t, o)
    BY <1>1, <1>2, <1>4 DEF Handed, Waiting, Waiters
  <2>2. Share(t, o)' = Depth(t, o)' + (IF Handed(t, o)' THEN 1 ELSE 0)
    BY DEF Share
  <2> QED BY <1>3, <2>1, <2>2
<1>8. TypeOK'
  BY <1>1, <1>2, <1>3, <1>4, <1>5, SoundFields DEF IInv, TypeOK
<1>9. Owned'
  <2> SUFFICES ASSUME NEW o \in M
               PROVE  /\ owner'[o] = None <=> value'[o] = 1
                      /\ owner'[o] = None => hold'[o] = 0 /\ Waiters(k', o) = <<>>
                      /\ owner'[o] # None => original'[o] \in Prio
                      /\ ~IsIn(k'.lists[Wait(o)], owner'[o])
    BY DEF Owned
  <2>1. CASE o = m
    <3>1. k'.lists[Wait(m)] = <<>>
      BY <1>1, <1>4 DEF Waiters
    <3> QED BY <1>5, <2>1, <3>1 DEF Waiters, IsIn
  <2>2. CASE o # m
    BY <1>4, <1>5, <2>2 DEF IInv, Owned, Waiters
  <2> QED BY <2>1, <2>2
<1>10. Ledger'
  <2> SUFFICES ASSUME NEW o \in M
               PROVE  /\ \A t \in Thread : Share(t, o)' = IF owner'[o] = t THEN hold'[o] ELSE 0
                      /\ owner'[o] # None => hold'[o] > 0
    BY DEF Ledger
  <2>1. /\ \A t \in Thread : Share(t, o) = IF owner[o] = t THEN hold[o] ELSE 0
        /\ owner[o] # None => hold[o] > 0
    BY DEF IInv, Ledger
  <2>2. CASE o = m
    BY <1>1, <1>5, <1>6, <1>7, <2>1, <2>2, Facts
  <2>3. CASE o # m
    <3>1. \A t \in Thread : Share(t, o) \in Nat
      BY ShareType DEF IInv
    <3> QED BY <1>5, <1>7, <2>1, <2>3, <3>1
  <2> QED BY <2>2, <2>3
<1> QED BY <1>4, <1>8, <1>9, <1>10 DEF IInv

(* The last release with a waiter: what happens to the threads *)
LEMMA PassStep ==
  ASSUME MutexAssumption, IInv, NEW m \in M, ReleasePass(m),
         Me \in Thread, Me = k.cur, k.stat[Me] = "READY", original[m] \in Prio
  PROVE  LET x == Waiters(k, m)[1]
         IN  /\ x \in Thread /\ IsIn(k.lists[Wait(m)], x) /\ k.prio[x] \in Prio
             /\ pc[x] \in InTake /\ want[x] = m /\ k.err[x] = "EOK"
             /\ pc' \in [Thread -> PC]
             /\ Sound(k', pc', want')
             /\ k'.err = k.err
             /\ \A t \in Thread : pc'[t] \in InTake <=> pc[t] \in InTake
             /\ \A o \in M, t \in Thread :
                  IsIn(k'.lists[Wait(o)], t) <=> IsIn(k.lists[Wait(o)], t) /\ t # x
             /\ k'.prio[Me] = original[m] /\ \A t \in Thread \ {Me} : k'.prio[t] = k.prio[t]
<1> DEFINE v == Restore(m)
           x == Waiters(k, m)[1]
<1>1. /\ pc[Me] = "app" /\ Waiters(k, m) # <<>> /\ k' = ListResume(v, m) /\ want' = want
      /\ owner[m] = Me
  BY DEF ReleasePass, Step
<1>2. /\ pc' \in [Thread -> PC] /\ pc'[Me] = "release_sched"
      /\ \A t \in Thread \ {Me} : pc'[t] = pc[t]
  BY Moved DEF ReleasePass, IInv, PC
<1>3. /\ Sound(v, pc, want)
      /\ v.stat = k.stat /\ v.cur = k.cur /\ v.err = k.err
      /\ \A o \in M : v.lists[Wait(o)] = k.lists[Wait(o)]
      /\ v.prio[Me] = original[m] /\ \A t \in Thread \ {Me} : v.prio[t] = k.prio[t]
  BY RestoreSound
<1> HIDE DEF v
<1>4. Waiters(v, m) = Waiters(k, m) /\ Waiters(v, m) # <<>>
  BY <1>1, <1>3 DEF Waiters
<1>5. /\ x \in Thread /\ IsIn(v.lists[Wait(m)], x) /\ v.stat[x] = "SUSPEND"
      /\ Sound(k', pc, want)
      /\ k'.stat = Put(v.stat, x, "READY")
      /\ k'.cur = v.cur /\ k'.err = v.err /\ k'.prio = v.prio
      /\ \A o \in M, t \in Thread :
           IsIn(k'.lists[Wait(o)], t) <=> IsIn(v.lists[Wait(o)], t) /\ t # x
  BY <1>1, <1>3, <1>4, SoundListResume
<1> HIDE DEF x
<1>6. pc[x] \in InTake /\ want[x] = m /\ k.err[x] = "EOK" /\ k.prio[x] \in Prio
  <2>1. Queued(k, pc, want, x)
    BY <1>5 DEF IInv, Sound
  <2>2. IsIn(k.lists[Wait(m)], x)
    BY <1>3, <1>5
  <2> QED BY <1>5, <2>1, <2>2, SoundFields DEF IInv, Queued
<1>7. Sound(k', pc', want')
  <2>1. k'.stat[k'.cur] = "READY" /\ k'.cur = Me
    <3>1. Me # x
      BY <1>3, <1>5
    <3>2. k.stat \in [Thread -> Stat]
      BY SoundFields DEF IInv
    <3> QED BY <1>3, <1>5, <3>1, <3>2 DEF Put
  <2>2. ASSUME NEW t \in Thread PROVE Queued(k', pc', want, t)
    <3>1. Queued(k', pc, want, t)
      BY <1>5 DEF Sound
    <3>2. CASE t = Me
      <4>1. pc[t] = "app" /\ pc'[t] = "release_sched" /\ k'.stat[t] = "READY"
        BY <1>1, <1>2, <2>1, <3>2
      <4> QED BY <3>1, <4>1 DEF Queued, InTake
    <3>3. CASE t # Me
      <4>1. pc'[t] = pc[t]
        BY <1>2, <3>3
      <4> QED BY <3>1, <4>1 DEF Queued
    <3> QED BY <3>2, <3>3
  <2> QED BY <1>1, <1>5, <2>1, <2>2 DEF Sound
<1>8. \A t \in Thread : pc'[t] \in InTake <=> pc[t] \in InTake
  BY <1>1, <1>2 DEF InTake
<1>9. /\ IsIn(k.lists[Wait(m)], x) /\ k'.err = k.err
      /\ \A o \in M, t \in Thread :
           IsIn(k'.lists[Wait(o)], t) <=> IsIn(k.lists[Wait(o)], t) /\ t # x
      /\ k'.prio[Me] = original[m] /\ \A t \in Thread \ {Me} : k'.prio[t] = k.prio[t]
  BY <1>3, <1>5
<1> QED BY <1>2, <1>5, <1>6, <1>7, <1>8, <1>9 DEF x

LEMMA ReleasePassInv ==
  ASSUME MutexAssumption, IInv, NEW m \in M, ReleasePass(m)
  PROVE  IInv'
<1> DEFINE x == Waiters(k, m)[1]
<1>1. /\ m \in Releasable /\ owner[m] = Me /\ pc[Me] = "app"
      /\ Less(hold[m]) = 0 /\ Gives(m)
      /\ value' = value /\ want' = want
  BY DEF ReleasePass, Step, Gives
<1>2. /\ Me \in Thread /\ Me = k.cur /\ k.stat[Me] = "READY"
      /\ value[m] = 0 /\ original[m] \in Prio
      /\ hold[m] \in 1 .. HoldRange - 1 /\ Less(hold[m]) = hold[m] - 1
      /\ mine' \in [Thread -> Seq(M)]
      /\ \A t \in Thread : ~IsIn(k.lists[Wait(m)], t) \/ t # Me
      /\ \A t \in Thread, o \in M :
           /\ Depth(t, o) \in Nat
           /\ Depth(t, o)' = Depth(t, o) - (IF t = Me /\ o = m THEN 1 ELSE 0)
           /\ Share(t, o) = Depth(t, o) + (IF Handed(t, o) THEN 1 ELSE 0)
  BY <1>1, ReleaseFacts
<1>3. /\ x \in Thread /\ IsIn(k.lists[Wait(m)], x) /\ k.prio[x] \in Prio
      /\ pc[x] \in InTake /\ want[x] = m /\ k.err[x] = "EOK"
      /\ pc' \in [Thread -> PC]
      /\ Sound(k', pc', want')
      /\ k'.err = k.err
      /\ \A t \in Thread : pc'[t] \in InTake <=> pc[t] \in InTake
      /\ \A o \in M, t \in Thread :
           IsIn(k'.lists[Wait(o)], t) <=> IsIn(k.lists[Wait(o)], t) /\ t # x
  BY <1>2, PassStep
<1>4. /\ owner' = [owner EXCEPT ![m] = x] /\ original' = [original EXCEPT ![m] = k.prio[x]]
      /\ hold' = [hold EXCEPT ![m] = 1]
  BY DEF ReleasePass
<1> HIDE DEF x
<1>5. /\ owner' \in [M -> Thread \cup {None}] /\ owner'[m] = x
      /\ original' \in [M -> Prio \cup {None}] /\ original'[m] \in Prio
      /\ hold' \in [M -> 0 .. HoldRange - 1] /\ hold'[m] = 1
      /\ \A o \in M \ {m} : /\ hold'[o] = hold[o] /\ owner'[o] = owner[o]
                            /\ original'[o] = original[o]
  <2>1. 1 \in 0 .. HoldRange - 1
    BY <1>2, Facts
  <2> QED BY <1>3, <1>4, <2>1 DEF IInv, TypeOK
<1>6. x # Me /\ hold[m] = 1
  BY <1>1, <1>2, <1>3
<1>7. ASSUME NEW t \in Thread, NEW o \in M
      PROVE  /\ Handed(t, o)' <=> Handed(t, o) \/ (t = x /\ o = m)
             /\ ~Handed(x, o)
  <2>1. Queued(k, pc, want, x)
    BY <1>3 DEF IInv, Sound
  <2>2. ~Handed(x, o)
    BY <1>3 DEF Handed, Waiting, Waiters
  <2>3. CASE t = x
    BY <1>1, <1>3, <2>2, <2>3 DEF Handed, Waiting, Waiters, InTake
  <2>4. CASE t # x
    BY <1>1, <1>3, <2>2, <2>4, HandedSame
  <2> QED BY <2>2, <2>3, <2>4
<1>8. ASSUME NEW t \in Thread, NEW o \in M
      PROVE  Share(t, o)' = Share(t, o) - (IF t = Me /\ o = m THEN 1 ELSE 0)
                                        + (IF t = x /\ o = m THEN 1 ELSE 0)
  <2>1. Share(t, o)' = Depth(t, o)' + (IF Handed(t, o)' THEN 1 ELSE 0)
    BY DEF Share
  <2>2. t = x => ~Handed(t, o)
    BY <1>7
  <2> QED BY <1>2, <1>6, <1>7, <2>1, <2>2
<1>9. TypeOK'
  <2>1. k' \in Kernel /\ want' \in [Thread -> M] /\ value' \in [M -> {0, 1}]
    BY <1>1, <1>3, SoundFields DEF IInv, TypeOK
  <2> QED BY <1>2, <1>3, <1>5, <2>1 DEF TypeOK
<1>10. Owned'
  <2> SUFFICES ASSUME NEW o \in M
               PROVE  /\ owner'[o] = None <=> value[o] = 1
                      /\ owner'[o] = None => hold'[o] = 0 /\ Waiters(k', o) = <<>>
                      /\ owner'[o] # None => original'[o] \in Prio
                      /\ ~IsIn(k'.lists[Wait(o)], owner'[o])
    BY <1>1 DEF Owned
  <2>1. CASE o = m
    <3>1. x # None
      BY <1>3, Facts
    <3> QED BY <1>2, <1>3, <1>5, <2>1, <3>1
  <2>2. CASE o # m
    <3>1. /\ owner[o] = None <=> value[o] = 1
          /\ owner[o] = None => hold[o] = 0 /\ Waiters(k, o) = <<>>
          /\ owner[o] # None => original[o] \in Prio
          /\ ~IsIn(k.lists[Wait(o)], owner[o])
      BY DEF IInv, Owned
    <3>2. k \in Kernel /\ k' \in Kernel /\ k'.lists[Wait(o)] \in Seq(Thread)
      BY <1>3, SoundFields DEF IInv
    <3>3. Waiters(k, o) = <<>> => Waiters(k', o) = <<>>
      BY <1>3, <3>2, WaitersFacts
    <3>4. ~IsIn(k'.lists[Wait(o)], owner[o])
      <4>1. CASE owner[o] \in Thread
        BY <1>3, <3>1, <4>1
      <4>2. CASE owner[o] \notin Thread
        BY <3>2, <4>2 DEF IsIn
      <4> QED BY <4>1, <4>2
    <3> QED BY <1>5, <2>2, <3>1, <3>3, <3>4
  <2> QED BY <2>1, <2>2
<1>11. Ledger'
  <2> SUFFICES ASSUME NEW o \in M
               PROVE  /\ \A t \in Thread : Share(t, o)' = IF owner'[o] = t THEN hold'[o] ELSE 0
                      /\ owner'[o] # None => hold'[o] > 0
    BY DEF Ledger
  <2>1. /\ \A t \in Thread : Share(t, o) = IF owner[o] = t THEN hold[o] ELSE 0
        /\ owner[o] # None => hold[o] > 0
    BY DEF IInv, Ledger
  <2>2. CASE o = m
    BY <1>1, <1>5, <1>6, <1>8, <2>1, <2>2
  <2>3. CASE o # m
    <3>1. \A t \in Thread : Share(t, o) \in Nat
      BY ShareType DEF IInv
    <3> QED BY <1>5, <1>8, <2>1, <2>3, <3>1
  <2> QED BY <2>2, <2>3
<1> QED BY <1>3, <1>9, <1>10, <1>11 DEF IInv

-----------------------------------------------------------------------------
(* The invariant and what follows from it                                  *)

LEMMA NextInv ==
  ASSUME MutexAssumption, IInv, [Next]_vars
  PROVE  IInv'
<1>1. ASSUME NEW m \in M, Take(m) PROVE IInv'
  BY <1>1, TakeOwnedInv, TakeFreeInv, TakeFailsInv, TakeWaitInv DEF Take
<1>2. ASSUME NEW m \in M, Release(m) PROVE IInv'
  BY <1>2, ReleaseInnerInv, ReleaseFreeInv, ReleasePassInv DEF Release
<1>3. ASSUME NEW m \in M, ReleaseNotOwner(m) PROVE IInv'
  BY <1>3, ReleaseNotOwnerInv
<1>4. CASE InKernel
  BY <1>4, InKernelInv, TakeReturnInv, SleepReturnInv DEF InKernel
<1>5. CASE Sleep
  BY <1>5, SleepInv
<1>6. CASE TickYield
  BY <1>6, TickYieldInv
<1>7. ASSUME NEW t \in Thread, TickTimeout(t) PROVE IInv'
  BY <1>7, TickTimeoutInv
<1>8. CASE UNCHANGED vars
  BY <1>8 DEF vars, IInv, TypeOK, Sound, Owned, Ledger, Share, Handed, Depth, Waiting, Waiters
<1> QED BY <1>1, <1>2, <1>3, <1>4, <1>5, <1>6, <1>7, <1>8 DEF Next, ThreadStep

LEMMA Invariance ==
  ASSUME MutexAssumption
  PROVE  Spec => []IInv
<1>1. Init => IInv
  BY InitInv
<1>2. IInv /\ [Next]_vars => IInv'
  BY NextInv
<1> QED BY <1>1, <1>2, PTL DEF Spec

(* Mutual exclusion with an exact account of the depth: whatever the       *)
(* recursion, the hand-overs and the time-outs that race them, the takes   *)
(* of a mutex belong to its owner and mutex->hold counts them.             *)
THEOREM OneOwner ==
  ASSUME MutexAssumption
  PROVE  Spec => []MutualExclusion
<1>1. IInv => MutualExclusion
  BY LedgerExcludes DEF IInv
<1> QED BY <1>1, Invariance, PTL

-----------------------------------------------------------------------------
(* The refinement of Lock, step by step                                    *)

Waits == [m \in M |-> {t \in Thread : Waiting(t, m)}]

LEMMA WaitsSame ==
  ASSUME \A m \in M, t \in Thread : IsIn(k'.lists[Wait(m)], t) <=> IsIn(k.lists[Wait(m)], t)
  PROVE  Waits' = Waits
BY DEF Waits, Waiting, Waiters

(* One thread leaves the list it is in, if any.                            *)
LEMMA WaitsLess ==
  ASSUME IInv, NEW x \in Thread, NEW m \in M, Waiting(x, m),
         \A o \in M, t \in Thread :
           IsIn(k'.lists[Wait(o)], t) <=> IsIn(k.lists[Wait(o)], t) /\ t # x
  PROVE  x \in Waits[m] /\ Waits' = [Waits EXCEPT ![m] = @ \ {x}]
<1>1. \A o \in M \ {m} : ~Waiting(x, o)
  <2>1. Queued(k, pc, want, x)
    BY DEF IInv, Sound
  <2> QED BY <2>1 DEF Queued, Waiting, Waiters
<1>2. \A o \in M, t \in Thread : Waiting(t, o)' <=> Waiting(t, o) /\ t # x
  BY DEF Waiting, Waiters
<1>3. ASSUME NEW o \in M
      PROVE  {t \in Thread : Waiting(t, o)'}
               = IF o = m THEN {t \in Thread : Waiting(t, o)} \ {x}
                          ELSE {t \in Thread : Waiting(t, o)}
  BY <1>1, <1>2
<1>4. Waits' = [o \in M |-> IF o = m THEN Waits[o] \ {x} ELSE Waits[o]]
  BY <1>3 DEF Waits
<1> QED BY <1>4 DEF Waits

LEMMA WaitsMore ==
  ASSUME NEW x \in Thread, NEW m \in M,
         \A o \in M, t \in Thread :
           IsIn(k'.lists[Wait(o)], t) <=> IsIn(k.lists[Wait(o)], t) \/ (o = m /\ t = x)
  PROVE  Waits' = [Waits EXCEPT ![m] = @ \cup {x}]
<1>1. \A o \in M, t \in Thread : Waiting(t, o)' <=> Waiting(t, o) \/ (o = m /\ t = x)
  BY DEF Waiting, Waiters
<1>2. ASSUME NEW o \in M
      PROVE  {t \in Thread : Waiting(t, o)'}
               = IF o = m THEN {t \in Thread : Waiting(t, o)} \cup {x}
                          ELSE {t \in Thread : Waiting(t, o)}
  BY <1>1
<1>3. Waits' = [o \in M |-> IF o = m THEN Waits[o] \cup {x} ELSE Waits[o]]
  BY <1>2 DEF Waits
<1> QED BY <1>3 DEF Waits

(* The variables of Lock, and its steps, in the terms of this module *)
Stutters == owner' = owner /\ hold' = hold /\ Waits' = Waits

LockStep == Abstract!LockNext \/ Stutters

LEMMA InitRefines ==
  ASSUME MutexAssumption, Init
  PROVE  Abstract!LockInit
<1>1. \A m \in M, t \in Thread : ~Waiting(t, m)
  <2>1. IInv /\ owner = [m \in M |-> None]
    BY InitInv DEF Init
  <2>2. \A m \in M : Waiters(k, m) = <<>>
    BY <2>1 DEF IInv, Owned
  <2> QED BY <2>2 DEF Waiting, IsIn
<1>2. [m \in M |-> {t \in Thread : Waiting(t, m)}] = [m \in M |-> {}]
  BY <1>1
<1> QED BY <1>2 DEF Init, Abstract!LockInit

LEMMA ErrorRefines ==
  ASSUME IInv, NEW m \in M, TakeFails(m) \/ ReleaseNotOwner(m)
  PROVE  LockStep
<1>1. k'.lists = k.lists
  <2>1. PICK e \in Error : k' = WithError(k, Me, e) /\ Step("app", "app") /\ want' = want
    BY DEF TakeFails, ReleaseNotOwner, Error
  <2> QED BY <2>1, ErrorStep DEF PC, InTake
<1> QED BY <1>1, WaitsSame DEF TakeFails, ReleaseNotOwner, fields, LockStep, Stutters

LEMMA InKernelRefines ==
  ASSUME MutexAssumption, IInv, InKernel
  PROVE  LockStep
<1>1. k'.lists = k.lists
  <2>1. CASE TakeSchedule \/ ReleaseSchedule \/ SleepSchedule
    BY <2>1, SoundSchedule DEF IInv, TakeSchedule, ReleaseSchedule, SleepSchedule
  <2>2. CASE TakeReturn
    BY <2>2 DEF TakeReturn
  <2>3. CASE SleepReturn
    <3>1. CASE k.err[Me] = "ETIMEOUT"
      BY <2>3, <3>1, ErrorStep DEF SleepReturn, PC, InTake, Error
    <3>2. CASE k.err[Me] # "ETIMEOUT"
      BY <2>3, <3>2 DEF SleepReturn
    <3> QED BY <3>1, <3>2
  <2> QED BY <2>1, <2>2, <2>3 DEF InKernel
<1>2. owner' = owner /\ hold' = hold
  BY DEF InKernel, TakeSchedule, TakeReturn, ReleaseSchedule, SleepSchedule, SleepReturn, fields
<1> QED BY <1>1, <1>2, WaitsSame DEF LockStep, Stutters

LEMMA SleepRefines ==
  ASSUME MutexAssumption, IInv, Sleep
  PROVE  LockStep
BY SleepStep, WaitsSame DEF Sleep, fields, LockStep, Stutters

LEMMA TickRefines ==
  ASSUME MutexAssumption, IInv, TickYield \/ \E t \in Thread : TickTimeout(t)
  PROVE  LockStep
<1>1. owner' = owner /\ hold' = hold
  BY DEF TickYield, TickTimeout, fields
<1>2. CASE TickYield
  BY <1>1, <1>2, SoundYield, WaitsSame DEF TickYield, IInv, LockStep, Stutters
<1>3. ASSUME NEW x \in Thread, TickTimeout(x) PROVE LockStep
  <2>1. \A m \in M, t \in Thread :
          IsIn(k'.lists[Wait(m)], t) <=> IsIn(k.lists[Wait(m)], t) /\ t # x
    BY <1>3, SoundTimeout DEF TickTimeout, IInv
  <2>2. CASE \E m \in M : Waiting(x, m)
    <3>1. PICK m \in M : Waiting(x, m)
      BY <2>2
    <3>2. x \in Waits[m] /\ Waits' = [Waits EXCEPT ![m] = @ \ {x}]
      BY <2>1, <3>1, WaitsLess
    <3>3. Abstract!GiveUp(x, m)
      BY <1>1, <3>2 DEF Abstract!GiveUp, Waits
    <3> QED BY <3>3 DEF LockStep, Abstract!LockNext
  <2>3. CASE \A m \in M : ~Waiting(x, m)
    <3>1. \A m \in M, t \in Thread :
            IsIn(k'.lists[Wait(m)], t) <=> IsIn(k.lists[Wait(m)], t)
      BY <2>1, <2>3 DEF Waiting, Waiters
    <3> QED BY <1>1, <3>1, WaitsSame DEF LockStep, Stutters
  <2> QED BY <2>2, <2>3
<1> QED BY <1>2, <1>3

LEMMA TakeRefines ==
  ASSUME MutexAssumption, IInv, NEW m \in M, TakeOwned(m) \/ TakeFree(m) \/ TakeWait(m)
  PROVE  LockStep
<1>1. CASE TakeOwned(m)
  <2>1. /\ owner[m] = Me /\ owner' = owner /\ pc[Me] = "app" /\ Len(mine[Me]) < MaxHold
        /\ hold' = [hold EXCEPT ![m] = More(@)]
        /\ Step("app", "app") /\ k' = WithError(k, Me, "EOK") /\ want' = want
    BY <1>1 DEF TakeOwned, MayTake, Step
  <2>2. Me \in Thread /\ k'.lists = k.lists
    BY <2>1, ErrorStep DEF PC, Error, InTake
  <2>3. More(hold[m]) = hold[m] + 1
    BY <2>1, HoldBounds
  <2>4. Waits' = Waits
    BY <2>2, WaitsSame
  <2>5. owner' = [owner EXCEPT ![m] = Me] /\ hold' = [hold EXCEPT ![m] = @ + 1]
    BY <2>1, <2>3 DEF IInv, TypeOK
  <2>6. Abstract!Acquire(Me, m)
    BY <2>1, <2>4, <2>5 DEF Abstract!Acquire, Waits
  <2> QED BY <2>2, <2>6 DEF LockStep, Abstract!LockNext
<1>2. CASE TakeFree(m)
  <2>1. /\ owner[m] # Me /\ value[m] > 0 /\ owner' = [owner EXCEPT ![m] = Me]
        /\ hold' = [hold EXCEPT ![m] = More(@)] /\ Len(mine[Me]) < MaxHold
        /\ Step("app", "app") /\ k' = WithError(k, Me, "EOK") /\ want' = want
    BY <1>2 DEF TakeFree, MayTake
  <2>2. Me \in Thread /\ k'.lists = k.lists
    BY <2>1, ErrorStep DEF PC, Error, InTake
  <2>3. owner[m] = None /\ hold[m] = 0
    BY <2>1 DEF IInv, TypeOK, Owned
  <2>4. More(hold[m]) = hold[m] + 1
    <3>1. Len(mine[Me]) \in Nat
      BY <2>2 DEF IInv, TypeOK
    <3>2. HoldRange \in Nat /\ 1 \in 0 .. HoldRange - 1
      BY <2>1, <3>1, Facts
    <3> QED BY <2>3, <3>2, NoLap DEF More
  <2>5. Waits' = Waits
    BY <2>2, WaitsSame
  <2>6. hold' = [hold EXCEPT ![m] = @ + 1]
    BY <2>1, <2>4 DEF IInv, TypeOK
  <2>7. Abstract!Acquire(Me, m)
    BY <2>1, <2>3, <2>5, <2>6 DEF Abstract!Acquire, Waits
  <2> QED BY <2>2, <2>7 DEF LockStep, Abstract!LockNext
<1>3. CASE TakeWait(m)
  <2>1. /\ Me \in Thread /\ owner[m] \in Thread \ {Me}
        /\ \A o \in M, t \in Thread :
             IsIn(k'.lists[Wait(o)], t) <=> IsIn(k.lists[Wait(o)], t) \/ (o = m /\ t = Me)
    BY <1>3, TakeWaitStep
  <2>2. Waits' = [Waits EXCEPT ![m] = @ \cup {Me}]
    <3>1. \A x \in Thread : x = Me => Waits' = [Waits EXCEPT ![m] = @ \cup {x}]
      BY <2>1, WaitsMore
    <3> QED BY <2>1, <3>1
  <2>3. owner' = owner /\ hold' = hold /\ owner[m] \notin {None, Me}
    BY <1>3, <2>1, Facts DEF TakeWait, fields
  <2>4. Abstract!Queue(Me, m)
    BY <2>2, <2>3 DEF Abstract!Queue, Waits
  <2> QED BY <2>1, <2>4 DEF LockStep, Abstract!LockNext
<1> QED BY <1>1, <1>2, <1>3

LEMMA ReleaseRefines ==
  ASSUME MutexAssumption, IInv, NEW m \in M, Release(m)
  PROVE  LockStep
<1>1. /\ Me \in Thread /\ Me = k.cur /\ k.stat[Me] = "READY" /\ owner[m] = Me
      /\ original[m] \in Prio
      /\ hold[m] \in 1 .. HoldRange - 1 /\ Less(hold[m]) = hold[m] - 1
  <2>1. /\ m \in Releasable /\ owner[m] = Me /\ pc[Me] = "app" /\ Gives(m)
    BY DEF Release, ReleaseInner, ReleaseFree, ReleasePass, Step, Gives
  <2> QED BY <2>1, ReleaseFacts
<1>2. HoldRange \in Nat
  BY Facts
<1>3. CASE ReleaseInner(m)
  <2>1. owner' = owner /\ k' = k /\ Less(hold[m]) # 0 /\ hold' = [hold EXCEPT ![m] = Less(@)]
    BY <1>3 DEF ReleaseInner
  <2>2. hold[m] > 1
    BY <1>1, <1>2, <2>1
  <2>3. hold' = [hold EXCEPT ![m] = @ - 1]
    BY <1>1, <2>1
  <2>4. Waits' = Waits
    BY <2>1, WaitsSame
  <2>5. Abstract!Leave(Me, m)
    BY <1>1, <2>1, <2>2, <2>3, <2>4 DEF Abstract!Leave, Waits
  <2> QED BY <1>1, <2>5 DEF LockStep, Abstract!LockNext
<1>4. CASE ReleaseFree(m)
  <2>1. /\ k' = Restore(m) /\ Less(hold[m]) = 0 /\ Waiters(k, m) = <<>>
        /\ owner' = [owner EXCEPT ![m] = None] /\ hold' = [hold EXCEPT ![m] = 0]
    BY <1>4 DEF ReleaseFree
  <2>2. Waits' = Waits
    <3>1. \A o \in M : k'.lists[Wait(o)] = k.lists[Wait(o)]
      BY <1>1, <2>1, RestoreSound
    <3> QED BY <3>1, WaitsSame
  <2>3. Waits[m] = {}
    BY <2>1 DEF Waits, Waiting, IsIn
  <2>4. hold[m] = 1
    BY <1>1, <1>2, <2>1
  <2>5. Abstract!Free(Me, m)
    BY <1>1, <2>1, <2>2, <2>3, <2>4 DEF Abstract!Free, Waits
  <2> QED BY <1>1, <2>5 DEF LockStep, Abstract!LockNext
<1>5. CASE ReleasePass(m)
  <2> DEFINE x == Waiters(k, m)[1]
  <2>1. /\ Less(hold[m]) = 0
        /\ owner' = [owner EXCEPT ![m] = x] /\ hold' = [hold EXCEPT ![m] = 1]
    BY <1>5 DEF ReleasePass
  <2>2. /\ x \in Thread /\ IsIn(k.lists[Wait(m)], x)
        /\ \A o \in M, t \in Thread :
             IsIn(k'.lists[Wait(o)], t) <=> IsIn(k.lists[Wait(o)], t) /\ t # x
    BY <1>1, <1>5, PassStep
  <2> HIDE DEF x
  <2>3. Waiting(x, m)
    BY <2>2 DEF Waiting, Waiters
  <2>4. x \in Waits[m] /\ Waits' = [Waits EXCEPT ![m] = @ \ {x}]
    BY <2>2, <2>3, WaitsLess
  <2>5. hold[m] = 1 /\ hold' = hold
    <3>1. hold[m] = 1
      BY <1>1, <1>2, <2>1
    <3> QED BY <2>1, <3>1 DEF IInv, TypeOK
  <2>6. Abstract!Pass(Me, m, x)
    BY <1>1, <2>1, <2>4, <2>5 DEF Abstract!Pass, Waits
  <2> QED BY <1>1, <2>2, <2>6 DEF LockStep, Abstract!LockNext
<1> QED BY <1>3, <1>4, <1>5 DEF Release

LEMMA StepRefines ==
  ASSUME MutexAssumption, IInv, [Next]_vars
  PROVE  [Abstract!LockNext]_(Abstract!lockVars)
<1>1. CASE Next
  <2>1. LockStep
    <3>1. ASSUME NEW m \in M, Take(m) PROVE LockStep
      BY <3>1, TakeRefines, ErrorRefines DEF Take
    <3>2. ASSUME NEW m \in M, Release(m) PROVE LockStep
      BY <3>2, ReleaseRefines
    <3>3. ASSUME NEW m \in M, ReleaseNotOwner(m) PROVE LockStep
      BY <3>3, ErrorRefines
    <3> QED BY <1>1, <3>1, <3>2, <3>3, InKernelRefines, SleepRefines, TickRefines
            DEF Next, ThreadStep
  <2> QED BY <2>1 DEF LockStep, Stutters, Waits, Abstract!lockVars
<1>2. CASE UNCHANGED vars
  <2>1. Waits' = Waits
    BY <1>2 DEF vars, Waits, Waiting, Waiters
  <2> QED BY <1>2, <2>1 DEF vars, Waits, Abstract!lockVars
<1> QED BY <1>1, <1>2

(* A mutex is a Lock, for any callers: what rt_mutex_take and              *)
(* rt_mutex_release do to owner, hold and the wait lists, with the         *)
(* scheduler and the time-outs between their steps, is taking, queueing,   *)
(* giving up, leaving, freeing or passing on (ipc.c:586-866).              *)
THEOREM MutexIsLock ==
  ASSUME MutexAssumption
  PROVE  Spec => ImplementsLock
<1>1. Init => Abstract!LockInit
  BY InitRefines
<1>2. IInv /\ [Next]_vars => [Abstract!LockNext]_(Abstract!lockVars)
  BY StepRefines
<1> QED BY <1>1, <1>2, Invariance, PTL DEF Spec, ImplementsLock, Abstract!LockSpec

-----------------------------------------------------------------------------
(* The priorities, for callers that release in the reverse order           *)

(* What rt_mutex_release relies on: the mutex a thread came to own first   *)
(* remembers the priority the thread was created with, and a thread        *)
(* without a mutex has it.                                                 *)
Kept(t) ==
  /\ mine[t] # <<>> => original[mine[t][1]] = InitPrio[t]
  /\ mine[t] = <<>> => \A m \in M : owner[m] = t => original[m] = InitPrio[t]
  /\ (\A m \in M : owner[m] # t) => k.prio[t] = InitPrio[t]

PInv == IInv /\ \A t \in Thread : Kept(t)

LEMMA MineOwned ==
  ASSUME IInv, NEW t \in Thread, NEW i \in DOMAIN mine[t]
  PROVE  mine[t][i] \in M /\ owner[mine[t][i]] = t
<1>1. mine[t] \in Seq(M) /\ mine[t][i] \in M
  BY DEF IInv, TypeOK
<1>2. PICK m \in M : m = mine[t][i]
  BY <1>1
<1>3. Depth(t, m) # 0
  BY <1>2, ShareType DEF IInv
<1>4. Share(t, m) # 0
  BY <1>2, <1>3, ShareType DEF IInv
<1>5. Share(t, m) = IF owner[m] = t THEN hold[m] ELSE 0
  BY DEF IInv, Ledger
<1> QED BY <1>2, <1>4, <1>5

LEMMA OwnedMine ==
  ASSUME MutexAssumption, IInv, NEW t \in Thread, NEW m \in M, owner[m] = t
  PROVE  Handed(t, m) \/ \E i \in DOMAIN mine[t] : mine[t][i] = m
<1>1. owner[m] # None
  BY Facts
<1>2. Share(t, m) = hold[m] /\ hold[m] > 0
  BY <1>1 DEF IInv, Ledger
<1>3. Share(t, m) # 0
  BY <1>2
<1>4. Depth(t, m) # 0 \/ Handed(t, m)
  BY <1>3, ShareType DEF IInv
<1>5. Depth(t, m) # 0 => \E i \in DOMAIN mine[t] : mine[t][i] = m
  BY ShareType DEF IInv
<1> QED BY <1>4, <1>5

(* A step that changes the priorities of owners only *)
LEMMA KeptQuiet ==
  ASSUME NEW t \in Thread, Kept(t), owner' = owner, original' = original,
         mine'[t] = mine[t],
         (\A m \in M : owner[m] # t) => k'.prio[t] = k.prio[t]
  PROVE  Kept(t)'
BY DEF Kept

LEMMA KeptError ==
  ASSUME PInv, NEW m \in M, TakeFails(m) \/ ReleaseNotOwner(m), NEW t \in Thread
  PROVE  Kept(t)'
<1>1. k'.prio = k.prio
  <2>1. PICK e \in Error : k' = WithError(k, Me, e) /\ Step("app", "app") /\ want' = want
    BY DEF TakeFails, ReleaseNotOwner, Error
  <2> QED BY <2>1, ErrorStep DEF PC, InTake, PInv
<1>2. Kept(t) /\ UNCHANGED <<owner, original, mine>>
  BY DEF PInv, TakeFails, ReleaseNotOwner, fields
<1> QED BY <1>1, <1>2, KeptQuiet

LEMMA KeptWait ==
  ASSUME MutexAssumption, PInv, NEW m \in M, TakeWait(m), NEW t \in Thread
  PROVE  Kept(t)'
<1>1. \A x \in Thread \ {owner[m]} : k'.prio[x] = k.prio[x]
  BY TakeWaitStep DEF PInv
<1>2. Kept(t) /\ UNCHANGED <<owner, original, mine>>
  BY DEF PInv, TakeWait, fields
<1> QED BY <1>1, <1>2, KeptQuiet

LEMMA KeptElsewhere ==
  ASSUME MutexAssumption, PInv, NEW t \in Thread,
         \/ TakeSchedule \/ ReleaseSchedule \/ SleepSchedule \/ SleepReturn \/ Sleep
         \/ TickYield \/ \E x \in Thread : TickTimeout(x)
  PROVE  Kept(t)'
<1>1. Kept(t) /\ UNCHANGED <<owner, original, mine>>
  BY DEF PInv, TakeSchedule, ReleaseSchedule, SleepSchedule, SleepReturn, Sleep,
         TickYield, TickTimeout, fields
<1>2. k'.prio = k.prio
  <2>1. CASE TakeSchedule \/ ReleaseSchedule \/ SleepSchedule
    BY <2>1, SoundSchedule DEF PInv, IInv, TakeSchedule, ReleaseSchedule, SleepSchedule
  <2>2. CASE SleepReturn
    <3>1. CASE k.err[Me] = "ETIMEOUT"
      BY <2>2, <3>1, ErrorStep DEF PInv, SleepReturn, PC, InTake, Error
    <3>2. CASE k.err[Me] # "ETIMEOUT"
      BY <2>2, <3>2 DEF SleepReturn
    <3> QED BY <3>1, <3>2
  <2>3. CASE Sleep
    BY <2>3, SleepStep DEF PInv
  <2>4. CASE TickYield
    BY <2>4, SoundYield DEF PInv, IInv, TickYield
  <2>5. ASSUME NEW x \in Thread, TickTimeout(x) PROVE k'.prio = k.prio
    BY <2>5, SoundTimeout DEF PInv, IInv, TickTimeout
  <2> QED BY <2>1, <2>2, <2>3, <2>4, <2>5
<1> QED BY <1>1, <1>2, KeptQuiet

(* The first take of a thread is the one below all later ones.             *)
LEMMA HeldFirst ==
  ASSUME NEW s \in Seq(M), NEW m \in M
  PROVE  Held(s, m) # <<>> /\ Held(s, m)[1] = IF s = <<>> THEN m ELSE s[1]
<1>1. CASE s = <<>>
  BY <1>1 DEF Held
<1>2. CASE s # <<>>
  <2>1. Len(s) \in Nat /\ 1 \in 1 .. Len(s)
    BY <1>2
  <2> QED BY <1>2, <2>1 DEF Held
<1> QED BY <1>1, <1>2

LEMMA KeptHeld ==
  ASSUME TypeOK, NEW t \in Thread, Kept(t), NEW m \in M,
         owner[m] = t, mine'[t] = Held(mine[t], m), owner' = owner, original' = original
  PROVE  Kept(t)'
<1>1. mine[t] \in Seq(M)
  BY DEF TypeOK
<1>2. mine'[t] # <<>> /\ mine'[t][1] = IF mine[t] = <<>> THEN m ELSE mine[t][1]
  BY <1>1, HeldFirst
<1>3. original[mine'[t][1]] = InitPrio[t]
  BY <1>2 DEF Kept
<1> QED BY <1>2, <1>3 DEF Kept

LEMMA KeptOwned ==
  ASSUME PInv, NEW m \in M, TakeOwned(m), NEW t \in Thread
  PROVE  Kept(t)'
<1>1. /\ Step("app", "app") /\ k' = WithError(k, Me, "EOK") /\ want' = want
      /\ owner[m] = Me /\ mine' = [mine EXCEPT ![Me] = Held(@, m)]
      /\ owner' = owner /\ original' = original /\ Kept(t)
  BY DEF TakeOwned, PInv
<1>2. Me \in Thread /\ k'.prio = k.prio
  BY <1>1, ErrorStep DEF PC, Error, InTake, PInv
<1>3. CASE t = Me
  <2>1. mine'[t] = Held(mine[t], m)
    BY <1>1, <1>3 DEF PInv, IInv, TypeOK
  <2> QED BY <1>1, <1>3, <2>1, KeptHeld DEF PInv, IInv
<1>4. CASE t # Me
  <2>1. mine'[t] = mine[t]
    BY <1>1, <1>4 DEF PInv, IInv, TypeOK
  <2> QED BY <1>1, <1>2, <2>1, KeptQuiet
<1> QED BY <1>3, <1>4

LEMMA KeptReturn ==
  ASSUME MutexAssumption, PInv, TakeReturn, NEW t \in Thread
  PROVE  Kept(t)'
<1>1. /\ pc[Me] = "take_return" /\ k' = k /\ owner' = owner /\ original' = original /\ Kept(t)
      /\ mine' = [mine EXCEPT ![Me] = IF k.err[Me] = "EOK" THEN Held(@, want[Me]) ELSE @]
  BY DEF TakeReturn, Step, PInv, fields
<1>2. CASE t = Me /\ k.err[Me] = "EOK"
  <2>1. mine'[t] = Held(mine[t], want[t]) /\ want[t] \in M
    BY <1>1, <1>2 DEF PInv, IInv, TypeOK
  <2>2. Handed(t, want[t])
    <3>1. k.stat[k.cur] = "READY"
      BY <1>1, SoundReady DEF PInv, IInv, Me
    <3>2. ~IsIn(k.lists[Wait(want[t])], t)
      BY <1>2, <2>1, <3>1, ReadyUnqueued DEF PInv, IInv, Me
    <3> QED BY <1>1, <1>2, <3>2 DEF Handed, Waiting, Waiters
  <2>3. owner[want[t]] = t
    <3>1. MutualExclusion
      BY LedgerExcludes DEF PInv, IInv
    <3> QED BY <2>1, <2>2, <3>1 DEF MutualExclusion
  <2> QED BY <1>1, <2>1, <2>3, KeptHeld DEF PInv, IInv
<1>3. CASE t # Me \/ k.err[Me] # "EOK"
  <2>1. mine'[t] = mine[t]
    BY <1>1, <1>3 DEF PInv, IInv, TypeOK
  <2> QED BY <1>1, <2>1, KeptQuiet
<1> QED BY <1>2, <1>3

LEMMA KeptFree ==
  ASSUME MutexAssumption, PInv, NEW m \in M, TakeFree(m), NEW t \in Thread
  PROVE  Kept(t)'
<1>1. /\ Step("app", "app") /\ k' = WithError(k, Me, "EOK") /\ want' = want /\ pc[Me] = "app"
      /\ value[m] > 0 /\ Kept(t)
      /\ owner' = [owner EXCEPT ![m] = Me] /\ original' = [original EXCEPT ![m] = k.prio[Me]]
      /\ mine' = [mine EXCEPT ![Me] = Held(@, m)]
  BY DEF TakeFree, Step, PInv
<1>2. Me \in Thread /\ k'.prio = k.prio
  BY <1>1, ErrorStep DEF PC, Error, InTake, PInv
<1>3. owner[m] = None
  BY <1>1 DEF PInv, IInv, TypeOK, Owned
<1>4. /\ owner'[m] = Me /\ original'[m] = k.prio[Me]
      /\ \A o \in M \ {m} : owner'[o] = owner[o] /\ original'[o] = original[o]
  BY <1>1 DEF PInv, IInv, TypeOK
<1>5. \A i \in DOMAIN mine[t] : mine[t][i] \in M \ {m}
  BY <1>3, MineOwned, Facts DEF PInv
<1>6. mine[t] \in Seq(M)
  BY DEF PInv, IInv, TypeOK
<1>7. mine[t] # <<>> => mine[t][1] \in M \ {m}
  BY <1>5, <1>6
<1>8. CASE t = Me
  <2>1. mine'[t] = Held(mine[t], m)
    BY <1>1, <1>2, <1>8 DEF PInv, IInv, TypeOK
  <2>2. mine'[t] # <<>> /\ mine'[t][1] = IF mine[t] = <<>> THEN m ELSE mine[t][1]
    BY <1>6, <2>1, HeldFirst
  <2>3. mine[t] = <<>> => k.prio[t] = InitPrio[t]
    <3>1. ASSUME mine[t] = <<>>, NEW o \in M, owner[o] = t PROVE FALSE
      <4>1. ~Handed(t, o)
        BY <1>1, <1>8, NotHanded DEF InTake
      <4> QED BY <3>1, <4>1, OwnedMine DEF PInv
    <3> QED BY <1>1, <3>1 DEF Kept
  <2>4. original'[mine'[t][1]] = InitPrio[t]
    BY <1>1, <1>4, <1>7, <1>8, <2>2, <2>3 DEF Kept
  <2> QED BY <1>4, <1>8, <2>2, <2>4 DEF Kept
<1>9. CASE t # Me
  <2>1. mine'[t] = mine[t]
    BY <1>1, <1>9 DEF PInv, IInv, TypeOK
  <2>2. owner[m] # t
    BY <1>3, Facts
  <2> QED BY <1>1, <1>2, <1>4, <1>7, <1>9, <2>1, <2>2 DEF Kept
<1> QED BY <1>8, <1>9

(* Releasing the last of its takes leaves a thread the first one.          *)
LEMMA FirstStays ==
  ASSUME NEW s \in Seq(M), NEW m \in M, s # <<>>, m = s[Len(s)]
  PROVE  /\ Without(s, m) \in Seq(M)
         /\ Without(s, m) = <<>> => Len(s) = 1
         /\ Without(s, m) # <<>> => Without(s, m)[1] = s[1] /\ 1 \in DOMAIN Without(s, m)
<1>1. Len(s) \in Nat /\ Len(s) \in DOMAIN s /\ DOMAIN s = 1 .. Len(s)
  OBVIOUS
<1>2. /\ Last(s, m) \in 1 .. Len(s)
      /\ \A j \in 1 .. Len(s) : s[j] = m => j <= Last(s, m)
  BY <1>1, LastExists
<1>3. Last(s, m) = Len(s)
  BY <1>1, <1>2
<1>4. /\ Without(s, m) \in Seq(M) /\ Len(Without(s, m)) = Len(s) - 1
      /\ \A i \in 1 .. Len(s) - 1 :
           Without(s, m)[i] = s[IF i < Last(s, m) THEN i ELSE i + 1]
  BY <1>1, CountWithout
<1>5. CASE Len(s) = 1
  <2>1. Without(s, m) = <<>>
    BY <1>4, <1>5
  <2> QED BY <1>4, <1>5, <2>1
<1>6. CASE Len(s) # 1
  <2>1. 1 \in 1 .. Len(s) - 1 /\ 1 < Len(s)
    BY <1>1, <1>6
  <2>2. Without(s, m)[1] = s[1]
    BY <1>3, <1>4, <2>1
  <2>3. DOMAIN Without(s, m) = 1 .. Len(s) - 1
    BY <1>4
  <2>4. Without(s, m) # <<>>
    BY <1>4, <2>1
  <2> QED BY <1>4, <2>1, <2>2, <2>3, <2>4
<1> QED BY <1>5, <1>6

LEMMA GivesLast ==
  ASSUME TypeOK, Me \in Thread, Nesting # "any", NEW m \in M, m \in Releasable, Gives(m)
  PROVE  /\ mine[Me] \in Seq(M) /\ mine[Me] # <<>> /\ m = mine[Me][Len(mine[Me])]
         /\ mine'[Me] = Without(mine[Me], m)
         /\ \A t \in Thread \ {Me} : mine'[t] = mine[t]
BY DEF TypeOK, Releasable, Gives

LEMMA KeptInner ==
  ASSUME MutexAssumption, PInv, Nesting # "any", NEW m \in M, ReleaseInner(m), NEW t \in Thread
  PROVE  Kept(t)'
<1>1. /\ m \in Releasable /\ owner[m] = Me /\ pc[Me] = "app" /\ Gives(m) /\ Kept(t)
      /\ k' = k /\ owner' = owner /\ original' = original
  BY DEF ReleaseInner, Step, Gives, PInv
<1>2. Me \in Thread
  BY <1>1, ReleaseFacts DEF PInv
<1>3. /\ mine[Me] \in Seq(M) /\ mine[Me] # <<>> /\ m = mine[Me][Len(mine[Me])]
      /\ mine'[Me] = Without(mine[Me], m)
      /\ \A x \in Thread \ {Me} : mine'[x] = mine[x]
  BY <1>1, <1>2, GivesLast DEF PInv, IInv
<1>4. CASE t # Me
  BY <1>1, <1>3, <1>4, KeptQuiet
<1>5. CASE t = Me
  <2>1. /\ mine'[t] = <<>> => Len(mine[t]) = 1
        /\ mine'[t] # <<>> => mine'[t][1] = mine[t][1]
    BY <1>3, <1>5, FirstStays
  <2>2. ASSUME mine'[t] = <<>>, NEW o \in M, owner[o] = t PROVE original[o] = InitPrio[t]
    <3>1. ~Handed(t, o)
      BY <1>1, <1>5, NotHanded DEF InTake
    <3>2. \E i \in DOMAIN mine[t] : mine[t][i] = o
      BY <2>2, <3>1, OwnedMine DEF PInv
    <3>3. o = mine[t][1]
      BY <1>3, <1>5, <2>1, <2>2, <3>2
    <3> QED BY <1>1, <1>3, <1>5, <3>3 DEF Kept
  <2> QED BY <1>1, <1>3, <1>5, <2>1, <2>2 DEF Kept
<1> QED BY <1>4, <1>5

(* The last release: the thread that releases, and every thread that is    *)
(* not handed the mutex.                                                   *)
LEMMA KeptLast ==
  ASSUME MutexAssumption, PInv, Nesting # "any", NEW m \in M,
         m \in Releasable, owner[m] = Me, pc[Me] = "app", Gives(m), Less(hold[m]) = 0,
         \A o \in M \ {m} : owner'[o] = owner[o] /\ original'[o] = original[o],
         \A x \in Thread : k'.prio[x] = IF x = Me THEN original[m] ELSE k.prio[x],
         owner'[m] # Me, NEW t \in Thread, owner'[m] # t
  PROVE  Kept(t)'
<1>1. /\ Me \in Thread /\ hold[m] \in 1 .. HoldRange - 1 /\ Less(hold[m]) = hold[m] - 1
      /\ \A x \in Thread, o \in M :
           /\ Depth(x, o)' = Depth(x, o) - (IF x = Me /\ o = m THEN 1 ELSE 0)
           /\ Share(x, o) = Depth(x, o) + (IF Handed(x, o) THEN 1 ELSE 0)
           /\ Depth(x, o) \in Nat
           /\ x = Me => ~Handed(x, o)
  BY ReleaseFacts DEF PInv
<1>2. /\ mine[Me] \in Seq(M) /\ mine[Me] # <<>> /\ m = mine[Me][Len(mine[Me])]
      /\ mine'[Me] = Without(mine[Me], m)
      /\ \A x \in Thread \ {Me} : mine'[x] = mine[x]
  BY <1>1, GivesLast DEF PInv, IInv
<1>3. Kept(t) /\ mine[t] \in Seq(M)
  BY DEF PInv, IInv, TypeOK
<1>4. CASE t = Me
  <2>1. /\ mine'[t] \in Seq(M)
        /\ mine'[t] = <<>> => Len(mine[t]) = 1
        /\ mine'[t] # <<>> => mine'[t][1] = mine[t][1] /\ 1 \in DOMAIN mine'[t]
    BY <1>2, <1>4, FirstStays
  <2>2. 1 \in DOMAIN mine[t]
    BY <1>2, <1>3, <1>4
  <2>3. mine[t][1] \in M /\ owner[mine[t][1]] = t
    BY <2>2, MineOwned DEF PInv
  <2>4. Depth(t, m)' = 0
    <3>1. hold[m] = 1
      BY <1>1, Facts
    <3>2. Share(t, m) = hold[m]
      BY <1>4 DEF PInv, IInv, Ledger
    <3> QED BY <1>1, <1>4, <3>1, <3>2
  <2>5. CASE mine'[t] # <<>>
    <3>1. Count(mine'[t], m) = 0
      BY <2>4 DEF Depth, Count, Takes
    <3>2. mine'[t][1] # m
      BY <2>1, <2>5, <3>1, CountType
    <3>3. owner'[mine'[t][1]] = t /\ original'[mine'[t][1]] = original[mine[t][1]]
      BY <2>1, <2>3, <2>5, <3>2
    <3>4. original[mine[t][1]] = InitPrio[t]
      BY <1>2, <1>3, <1>4 DEF Kept
    <3> QED BY <2>1, <2>3, <2>5, <3>3, <3>4 DEF Kept
  <2>6. CASE mine'[t] = <<>>
    <3>1. mine[t][1] = m
      BY <1>2, <1>4, <2>1, <2>6
    <3>2. k'.prio[t] = InitPrio[t]
      BY <1>2, <1>3, <1>4, <3>1 DEF Kept
    <3>3. ASSUME NEW o \in M, owner'[o] = t PROVE FALSE
      <4>1. o # m /\ owner[o] = t
        BY <3>3
      <4>2. PICK i \in DOMAIN mine[t] : mine[t][i] = o
        BY <1>1, <1>4, <4>1, OwnedMine DEF PInv
      <4> QED BY <1>3, <2>1, <2>6, <3>1, <4>1, <4>2
    <3> QED BY <2>6, <3>2, <3>3 DEF Kept
  <2> QED BY <2>5, <2>6
<1>5. CASE t # Me
  <2>1. mine'[t] = mine[t] /\ k'.prio[t] = k.prio[t]
    BY <1>2, <1>5
  <2>2. mine[t] # <<>> => mine[t][1] \in M \ {m}
    <3>1. mine[t] # <<>> => 1 \in DOMAIN mine[t]
      BY <1>3
    <3> QED BY <1>5, <3>1, MineOwned DEF PInv
  <2> QED BY <1>3, <1>5, <2>1, <2>2 DEF Kept
<1> QED BY <1>4, <1>5

LEMMA KeptReleaseFree ==
  ASSUME MutexAssumption, PInv, Nesting # "any", NEW m \in M, ReleaseFree(m), NEW t \in Thread
  PROVE  Kept(t)'
<1>1. /\ m \in Releasable /\ owner[m] = Me /\ pc[Me] = "app" /\ Gives(m) /\ Less(hold[m]) = 0
      /\ k' = Restore(m)
      /\ owner' = [owner EXCEPT ![m] = None] /\ original' = [original EXCEPT ![m] = None]
  BY DEF ReleaseFree, Step, Gives
<1>2. Me \in Thread /\ original[m] \in Prio
  BY <1>1, ReleaseFacts DEF PInv
<1>3. k'.prio[Me] = original[m] /\ \A x \in Thread \ {Me} : k'.prio[x] = k.prio[x]
  BY <1>1, <1>2, RestoreSound DEF PInv
<1>4. \A x \in Thread : k'.prio[x] = IF x = Me THEN original[m] ELSE k.prio[x]
  BY <1>3
<1>5. /\ owner'[m] = None
      /\ \A o \in M \ {m} : owner'[o] = owner[o] /\ original'[o] = original[o]
  BY <1>1 DEF PInv, IInv, TypeOK
<1>6. owner'[m] # Me /\ owner'[m] # t
  BY <1>2, <1>5, Facts
<1> HIDE DEF Restore
<1> QED BY <1>1, <1>4, <1>5, <1>6, KeptLast

LEMMA KeptReleasePass ==
  ASSUME MutexAssumption, PInv, Nesting # "any", NEW m \in M, ReleasePass(m), NEW t \in Thread
  PROVE  Kept(t)'
<1> DEFINE x == Waiters(k, m)[1]
<1>1. /\ m \in Releasable /\ owner[m] = Me /\ pc[Me] = "app" /\ Gives(m) /\ Less(hold[m]) = 0
      /\ owner' = [owner EXCEPT ![m] = x] /\ original' = [original EXCEPT ![m] = k.prio[x]]
  BY DEF ReleasePass, Step, Gives
<1>2. /\ Me \in Thread /\ original[m] \in Prio /\ Me = k.cur /\ k.stat[Me] = "READY"
      /\ ~IsIn(k.lists[Wait(m)], Me)
  BY <1>1, ReleaseFacts DEF PInv
<1>3. /\ x \in Thread /\ IsIn(k.lists[Wait(m)], x) /\ want[x] = m
      /\ k'.prio[Me] = original[m] /\ \A y \in Thread \ {Me} : k'.prio[y] = k.prio[y]
  BY <1>2, PassStep DEF PInv
<1> HIDE DEF x
<1>4. \A y \in Thread : k'.prio[y] = IF y = Me THEN original[m] ELSE k.prio[y]
  BY <1>3
<1>5. /\ owner'[m] = x /\ original'[m] = k.prio[x]
      /\ \A o \in M \ {m} : owner'[o] = owner[o] /\ original'[o] = original[o]
  BY <1>1 DEF PInv, IInv, TypeOK
<1>6. x # Me
  BY <1>2, <1>3
<1>7. CASE t # x
  BY <1>1, <1>4, <1>5, <1>6, <1>7, KeptLast
<1>8. CASE t = x
  <2>1. mine'[t] = mine[t]
    BY <1>1, <1>2, <1>3, <1>6, <1>8 DEF Gives, PInv, IInv, TypeOK
  <2>2. mine[t] # <<>> => mine[t][1] \in M \ {m}
    <3>1. mine[t] \in Seq(M)
      BY DEF PInv, IInv, TypeOK
    <3>2. mine[t] # <<>> => 1 \in DOMAIN mine[t]
      BY <3>1
    <3> QED BY <1>1, <1>6, <1>8, <3>2, MineOwned DEF PInv
  <2>3. Kept(t)
    BY DEF PInv
  <2>4. CASE mine[t] # <<>>
    BY <1>5, <1>8, <2>1, <2>2, <2>3, <2>4 DEF Kept
  <2>5. CASE mine[t] = <<>>
    <3>1. ASSUME NEW o \in M, owner[o] = t PROVE FALSE
      <4>1. Handed(t, o)
        BY <2>5, <3>1, OwnedMine DEF PInv
      <4> QED BY <1>3, <1>8, <4>1 DEF Handed, Waiting, Waiters
    <3>2. k.prio[t] = InitPrio[t]
      BY <2>3, <3>1 DEF Kept
    <3>3. \A o \in M : owner'[o] = t => original'[o] = InitPrio[t]
      BY <1>5, <1>8, <3>1, <3>2
    <3> QED BY <1>5, <1>8, <2>1, <2>5, <3>3 DEF Kept
  <2> QED BY <2>4, <2>5
<1> QED BY <1>7, <1>8

LEMMA KeptInit ==
  ASSUME MutexAssumption, Init, NEW t \in Thread
  PROVE  Kept(t)
<1>1. /\ mine[t] = <<>> /\ \A m \in M : owner[m] # t
  BY Facts DEF Init
<1>2. k.prio = InitPrio
  BY DEF Init, Booted
<1> QED BY <1>1, <1>2 DEF Kept

LEMMA KeptNext ==
  ASSUME MutexAssumption, Nesting # "any", PInv, [Next]_vars
  PROVE  PInv'
<1> SUFFICES ASSUME NEW t \in Thread PROVE Kept(t)'
  BY NextInv DEF PInv
<1>1. ASSUME NEW m \in M, Take(m) PROVE Kept(t)'
  BY <1>1, KeptOwned, KeptFree, KeptError, KeptWait DEF Take
<1>2. ASSUME NEW m \in M, Release(m) PROVE Kept(t)'
  BY <1>2, KeptInner, KeptReleaseFree, KeptReleasePass DEF Release
<1>3. ASSUME NEW m \in M, ReleaseNotOwner(m) PROVE Kept(t)'
  BY <1>3, KeptError
<1>4. CASE InKernel
  BY <1>4, KeptElsewhere, KeptReturn DEF InKernel
<1>5. CASE Sleep \/ TickYield \/ \E x \in Thread : TickTimeout(x)
  BY <1>5, KeptElsewhere
<1>6. CASE UNCHANGED vars
  BY <1>6, KeptQuiet DEF vars, PInv
<1> QED BY <1>1, <1>2, <1>3, <1>4, <1>5, <1>6 DEF Next, ThreadStep

LEMMA KeptAlways ==
  ASSUME MutexAssumption, Nesting # "any"
  PROVE  Spec => []PInv
<1>1. Init => PInv
  BY InitInv, KeptInit DEF PInv
<1>2. PInv /\ [Next]_vars => PInv'
  BY KeptNext
<1> QED BY <1>1, <1>2, PTL DEF Spec

(* "change the owner thread to original priority" (ipc.c:811) does bring a *)
(* thread that gives up its last mutex back to the priority it was created *)
(* with, if the callers release in the reverse order of their takes, and   *)
(* whatever waits, hand-overs and inheritances went on in between.         *)
THEOREM Restored ==
  ASSUME MutexAssumption, Nesting # "any"
  PROVE  Spec => []PriorityRestored
<1>1. PInv => PriorityRestored
  BY DEF PInv, Kept, PriorityRestored
<1> QED BY <1>1, KeptAlways, PTL

-----------------------------------------------------------------------------
(* The inheritance, for callers that hold one mutex at a time and wait in  *)
(* the order of their priorities                                           *)

OneAtATime ==
  /\ \A m, o \in M, t \in Thread : owner[m] = t /\ owner[o] = t => m = o
  /\ \A m, o \in M, t \in Thread : Waiting(t, m) => owner[o] # t

WaitSorted == \A m \in M : Sorted(k.lists[Wait(m)], InitPrio)

Inherits == \A m \in M, t \in Thread : Waiting(t, m) => k.prio[owner[m]] <= InitPrio[t]

HInv == OneAtATime /\ WaitSorted /\ Inherits

LEMMA NoMutexPrio ==
  ASSUME PInv, NEW t \in Thread, \A o \in M : owner[o] # t
  PROVE  k.prio[t] = InitPrio[t]
BY DEF PInv, Kept

(* A waiter owns nothing, so that it has the priority it was created with. *)
LEMMA WaiterPrio ==
  ASSUME PInv, OneAtATime, NEW t \in Thread, NEW m \in M, Waiting(t, m)
  PROVE  k.prio[t] = InitPrio[t] /\ \A o \in M : owner[o] # t
BY NoMutexPrio DEF OneAtATime

LEMMA TakerHasNone ==
  ASSUME MutexAssumption, Nesting = "none", PInv, NEW m \in M,
         Me \in Thread, pc[Me] = "app", MayTake(m), owner[m] # Me
  PROVE  (\A o \in M : owner[o] # Me) /\ k.prio[Me] = InitPrio[Me]
<1>1. ASSUME NEW o \in M, owner[o] = Me PROVE FALSE
  <2>1. ~Handed(Me, o)
    BY NotHanded DEF InTake
  <2>2. PICK i \in DOMAIN mine[Me] : mine[Me][i] = o
    BY <1>1, <2>1, OwnedMine DEF PInv
  <2> QED BY <1>1, <2>2 DEF MayTake
<1> QED BY <1>1, NoMutexPrio

(* A step in which nobody comes to own or to wait, and no priority changes *)
LEMMA HQuiet ==
  ASSUME HInv, owner' = owner,
         \A t \in Thread : k'.prio[t] = k.prio[t],
         \A m \in M : Sorted(k'.lists[Wait(m)], InitPrio),
         \A m \in M, t \in Thread : IsIn(k'.lists[Wait(m)], t) => IsIn(k.lists[Wait(m)], t),
         \A m \in M, t \in Thread : Waiting(t, m) => owner[m] \in Thread
  PROVE  HInv'
<1>1. \A m \in M, t \in Thread : Waiting(t, m)' => Waiting(t, m)
  BY DEF Waiting, Waiters
<1> QED BY <1>1 DEF HInv, OneAtATime, WaitSorted, Inherits

LEMMA WaitedIsOwned ==
  ASSUME IInv, NEW m \in M, NEW t \in Thread, Waiting(t, m)
  PROVE  owner[m] \in Thread
<1>1. Waiters(k, m) # <<>>
  BY DEF Waiting, IsIn
<1> QED BY <1>1 DEF IInv, TypeOK, Owned

LEMMA HSameLists ==
  ASSUME IInv, HInv, owner' = owner, \A t \in Thread : k'.prio[t] = k.prio[t],
         \A m \in M : k'.lists[Wait(m)] = k.lists[Wait(m)]
  PROVE  HInv'
BY HQuiet, WaitedIsOwned DEF HInv, WaitSorted

LEMMA HElsewhere ==
  ASSUME MutexAssumption, IInv, HInv, InKernel \/ Sleep \/ TickYield
  PROVE  HInv'
<1>1. owner' = owner
  BY DEF InKernel, TakeSchedule, TakeReturn, ReleaseSchedule, SleepSchedule, SleepReturn,
         Sleep, TickYield, fields
<1>2. k'.prio = k.prio /\ \A m \in M : k'.lists[Wait(m)] = k.lists[Wait(m)]
  <2>1. CASE TakeSchedule \/ ReleaseSchedule \/ SleepSchedule
    BY <2>1, SoundSchedule DEF IInv, TakeSchedule, ReleaseSchedule, SleepSchedule
  <2>2. CASE TakeReturn
    BY <2>2 DEF TakeReturn
  <2>3. CASE SleepReturn
    <3>1. CASE k.err[Me] = "ETIMEOUT"
      BY <2>3, <3>1, ErrorStep DEF SleepReturn, PC, InTake, Error
    <3>2. CASE k.err[Me] # "ETIMEOUT"
      BY <2>3, <3>2 DEF SleepReturn
    <3> QED BY <3>1, <3>2
  <2>4. CASE Sleep
    BY <2>4, SleepStep
  <2>5. CASE TickYield
    BY <2>5, SoundYield DEF IInv, TickYield
  <2> QED BY <2>1, <2>2, <2>3, <2>4, <2>5 DEF InKernel
<1> QED BY <1>1, <1>2, HSameLists

LEMMA HTimeout ==
  ASSUME MutexAssumption, IInv, HInv, NEW x \in Thread, TickTimeout(x)
  PROVE  HInv'
<1>1. x \in k.armed /\ k' = Timeout(k, x) /\ owner' = owner
  BY DEF TickTimeout, fields
<1>2. /\ k'.prio = k.prio
      /\ \A m \in M, t \in Thread :
           IsIn(k'.lists[Wait(m)], t) <=> IsIn(k.lists[Wait(m)], t) /\ t # x
  BY <1>1, SoundTimeout DEF IInv
<1>3. ASSUME NEW m \in M PROVE Sorted(k'.lists[Wait(m)], InitPrio)
  <2>1. k \in Kernel /\ k.lists[Wait(m)] \in Seq(Thread) /\ m \in WaitQueue
    BY SoundFields DEF IInv, M
  <2>2. k'.lists[Wait(m)] = Drop(k.lists[Wait(m)], x)
    BY <1>1, <2>1, TimeoutWaiters
  <2> QED BY <2>1, <2>2, SortedDrop DEF HInv, WaitSorted
<1> QED BY <1>1, <1>2, <1>3, HQuiet, WaitedIsOwned

LEMMA HErrors ==
  ASSUME IInv, HInv, NEW m \in M, TakeOwned(m) \/ TakeFails(m) \/ ReleaseNotOwner(m)
  PROVE  HInv'
<1>1. PICK e \in Error : k' = WithError(k, Me, e) /\ Step("app", "app") /\ want' = want
  BY DEF TakeOwned, TakeFails, ReleaseNotOwner, Error
<1>2. owner' = owner
  BY DEF TakeOwned, TakeFails, ReleaseNotOwner, fields
<1>3. k'.lists = k.lists /\ k'.prio = k.prio
  BY <1>1, ErrorStep DEF PC, InTake
<1> QED BY <1>2, <1>3, HSameLists

LEMMA HInner ==
  ASSUME IInv, HInv, NEW m \in M, ReleaseInner(m)
  PROVE  HInv'
BY HSameLists DEF ReleaseInner

LEMMA HFree ==
  ASSUME MutexAssumption, Nesting = "none", PInv, HInv, NEW m \in M, TakeFree(m)
  PROVE  HInv'
<1>1. /\ k' = WithError(k, Me, "EOK") /\ Step("app", "app") /\ want' = want
      /\ pc[Me] = "app" /\ MayTake(m) /\ owner[m] # Me /\ value[m] > 0
      /\ owner' = [owner EXCEPT ![m] = Me]
  BY DEF TakeFree, Step
<1>2. Me \in Thread /\ k'.lists = k.lists /\ k'.prio = k.prio
  BY <1>1, ErrorStep DEF PC, InTake, Error, PInv
<1>3. owner[m] = None /\ \A t \in Thread : ~Waiting(t, m)
  <2>1. owner[m] = None /\ Waiters(k, m) = <<>>
    BY <1>1 DEF PInv, IInv, TypeOK, Owned
  <2> QED BY <2>1 DEF Waiting, IsIn
<1>4. \A o \in M : owner[o] # Me
  BY <1>1, <1>2, TakerHasNone
<1>5. owner'[m] = Me /\ \A o \in M \ {m} : owner'[o] = owner[o]
  BY <1>1 DEF PInv, IInv, TypeOK
<1>6. \A o \in M, t \in Thread : Waiting(t, o)' <=> Waiting(t, o)
  BY <1>2 DEF Waiting, Waiters
<1>7. \A o \in M : ~Waiting(Me, o)
  <2>1. k.stat[k.cur] = "READY"
    BY <1>1, SoundReady DEF PInv, IInv, Me
  <2> QED BY <1>2, <2>1, ReadyUnqueued DEF PInv, IInv, Waiting, Waiters, Me
<1>8. OneAtATime'
  <2>1. ASSUME NEW o \in M, NEW p \in M, NEW t \in Thread, owner'[o] = t, owner'[p] = t
        PROVE  o = p
    BY <1>4, <1>5, <2>1 DEF HInv, OneAtATime
  <2>2. ASSUME NEW o \in M, NEW p \in M, NEW t \in Thread, Waiting(t, o)
        PROVE  owner'[p] # t
    BY <1>5, <1>7, <2>2 DEF HInv, OneAtATime
  <2> QED BY <1>6, <2>1, <2>2 DEF OneAtATime
<1>9. WaitSorted'
  BY <1>2 DEF HInv, WaitSorted
<1>10. Inherits'
  <2> SUFFICES ASSUME NEW o \in M, NEW t \in Thread, Waiting(t, o)
               PROVE  k.prio[owner'[o]] <= InitPrio[t]
    BY <1>2, <1>6 DEF Inherits
  <2> QED BY <1>3, <1>5 DEF HInv, Inherits
<1> QED BY <1>8, <1>9, <1>10 DEF HInv

(* The new waiter: the owner becomes as urgent as it, and it is queued     *)
(* behind those that are as urgent.                                        *)
LEMMA HWait ==
  ASSUME MutexAssumption, Nesting = "none", Flag = "PRIO", PInv, HInv,
         NEW m \in M, TakeWait(m)
  PROVE  HInv'
<1>1. /\ Me \in Thread /\ owner[m] \in Thread \ {Me} /\ pc[Me] = "app"
      /\ \A o \in M, t \in Thread :
           IsIn(k'.lists[Wait(o)], t) <=> IsIn(k.lists[Wait(o)], t) \/ (o = m /\ t = Me)
      /\ k'.prio[owner[m]] <= k.prio[Me] /\ k'.prio[owner[m]] <= k.prio[owner[m]]
      /\ \A t \in Thread \ {owner[m]} : k'.prio[t] = k.prio[t]
  BY TakeWaitStep DEF PInv
<1>2. owner' = owner /\ MayTake(m) /\ owner[m] # Me /\ value[m] = 0
  BY DEF TakeWait, fields
<1>3. (\A o \in M : owner[o] # Me) /\ k.prio[Me] = InitPrio[Me]
  BY <1>1, <1>2, TakerHasNone
<1>4. \A o \in M, t \in Thread : Waiting(t, o)' <=> Waiting(t, o) \/ (o = m /\ t = Me)
  BY <1>1 DEF Waiting, Waiters
<1>5. OneAtATime'
  BY <1>2, <1>3, <1>4 DEF HInv, OneAtATime
<1>6. Inherits'
  <2> SUFFICES ASSUME NEW o \in M, NEW t \in Thread, Waiting(t, o) \/ (o = m /\ t = Me)
               PROVE  k'.prio[owner[o]] <= InitPrio[t]
    BY <1>2, <1>4 DEF Inherits
  <2>1. /\ k'.prio[owner[m]] \in Nat /\ k.prio[owner[m]] \in Nat
        /\ InitPrio[t] \in Nat
    <3>1. Sound(k', pc', want') /\ Sound(k, pc, want)
      BY TakeWaitStep DEF PInv, IInv
    <3>2. k'.prio \in [Thread -> Prio] /\ k.prio \in [Thread -> Prio]
      BY <3>1, SoundFields
    <3>3. InitPrio \in [Thread -> Prio]
      BY DEF MutexAssumption, BootOK, BootLists
    <3> QED BY <1>1, <3>2, <3>3, PrioAssumption
  <2>2. CASE o = m /\ t = Me
    BY <1>1, <1>3, <2>2
  <2>3. CASE Waiting(t, o) /\ o = m
    <3>1. k.prio[owner[m]] <= InitPrio[t]
      BY <2>3 DEF HInv, Inherits
    <3> QED BY <1>1, <2>1, <2>3, <3>1
  <2>4. CASE Waiting(t, o) /\ o # m
    <3>1. owner[o] \in Thread \ {owner[m]}
      BY <1>1, <2>4, WaitedIsOwned DEF PInv, HInv, OneAtATime
    <3>2. k.prio[owner[o]] <= InitPrio[t]
      BY <2>4 DEF HInv, Inherits
    <3> QED BY <1>1, <3>1, <3>2
  <2> QED BY <2>2, <2>3, <2>4
<1>7. WaitSorted'
  <2>1. PICK j, timed : j = Inherit(k, m) /\ k' = Block(j, m, Me, "PRIO", timed)
    BY DEF TakeWait
  <2>2. /\ Sound(j, pc, want) /\ j.stat = k.stat /\ j.cur = k.cur
        /\ \A o \in M : j.lists[Wait(o)] = k.lists[Wait(o)]
        /\ \A t \in Thread \ {owner[m]} : j.prio[t] = k.prio[t]
    BY <1>2, <2>1, InheritSound DEF PInv
  <2>3. KernelOK(j) /\ j.stat[Me] = "READY" /\ m \in WaitQueue /\ M = WaitQueue
    <3>1. k.stat[k.cur] = "READY"
      BY <1>1, SoundReady DEF PInv, IInv, Me
    <3> QED BY <2>2, <3>1 DEF Sound, Me, M
  <2>4. \A o \in M : k.lists[Wait(o)] \in Seq(Thread) /\ k'.lists[Wait(o)] \in Seq(Thread)
    <3>1. Sound(k', pc', want') /\ Sound(k, pc, want)
      BY TakeWaitStep DEF PInv, IInv
    <3> QED BY <3>1, SoundFields
  <2>5. Sorted(j.lists[Wait(m)], j.prio)
    <3> SUFFICES ASSUME NEW a \in DOMAIN k.lists[Wait(m)], NEW b \in DOMAIN k.lists[Wait(m)],
                        a < b
                 PROVE  j.prio[k.lists[Wait(m)][a]] <= j.prio[k.lists[Wait(m)][b]]
      BY <2>2 DEF Sorted
    <3>1. InitPrio[k.lists[Wait(m)][a]] <= InitPrio[k.lists[Wait(m)][b]]
      BY DEF HInv, WaitSorted, Sorted
    <3>2. ASSUME NEW i \in DOMAIN k.lists[Wait(m)]
          PROVE  j.prio[k.lists[Wait(m)][i]] = InitPrio[k.lists[Wait(m)][i]]
      <4>1. k.lists[Wait(m)][i] \in Thread /\ Waiting(k.lists[Wait(m)][i], m)
        BY <2>4 DEF Waiting, Waiters, IsIn
      <4> QED BY <2>2, <4>1, WaiterPrio DEF HInv
    <3> QED BY <3>1, <3>2
  <2>6. /\ Sorted(k'.lists[Wait(m)], j.prio)
        /\ \A o \in M \ {m} : k'.lists[Wait(o)] = k.lists[Wait(o)]
    BY <1>1, <2>1, <2>2, <2>3, <2>5, BlockSorts
  <2>7. ASSUME NEW i \in DOMAIN k'.lists[Wait(m)]
        PROVE  j.prio[k'.lists[Wait(m)][i]] = InitPrio[k'.lists[Wait(m)][i]]
    <3>1. k'.lists[Wait(m)][i] \in Thread /\ IsIn(k'.lists[Wait(m)], k'.lists[Wait(m)][i])
      BY <2>4 DEF IsIn
    <3>2. PICK t \in Thread : t = k'.lists[Wait(m)][i]
      BY <3>1
    <3>3. Waiting(t, m) \/ t = Me
      BY <1>1, <3>1, <3>2 DEF Waiting, Waiters
    <3>4. k.prio[t] = InitPrio[t] /\ owner[m] # t
      BY <1>3, <3>3, WaiterPrio DEF HInv
    <3> QED BY <2>2, <3>2, <3>4
  <2>8. Sorted(k'.lists[Wait(m)], InitPrio)
    BY <2>6, <2>7 DEF Sorted
  <2> QED BY <2>6, <2>8 DEF HInv, WaitSorted
<1> QED BY <1>5, <1>6, <1>7 DEF HInv

LEMMA HReleaseFree ==
  ASSUME MutexAssumption, IInv, HInv, NEW m \in M, ReleaseFree(m)
  PROVE  HInv'
<1>1. /\ m \in Releasable /\ owner[m] = Me /\ pc[Me] = "app" /\ Gives(m)
      /\ k' = Restore(m) /\ Waiters(k, m) = <<>> /\ owner' = [owner EXCEPT ![m] = None]
  BY DEF ReleaseFree, Step, Gives
<1>2. Me \in Thread /\ original[m] \in Prio
  BY <1>1, ReleaseFacts
<1>3. /\ \A o \in M : k'.lists[Wait(o)] = k.lists[Wait(o)]
      /\ \A t \in Thread \ {Me} : k'.prio[t] = k.prio[t]
  BY <1>1, <1>2, RestoreSound
<1>4. owner'[m] = None /\ \A o \in M \ {m} : owner'[o] = owner[o]
  BY <1>1 DEF IInv, TypeOK
<1>5. \A o \in M, t \in Thread : (Waiting(t, o)' <=> Waiting(t, o)) /\ ~Waiting(t, m)
  BY <1>1, <1>3 DEF Waiting, Waiters, IsIn
<1>6. OneAtATime'
  BY <1>4, <1>5, Facts DEF HInv, OneAtATime
<1>7. WaitSorted'
  BY <1>3 DEF HInv, WaitSorted
<1>8. Inherits'
  <2> SUFFICES ASSUME NEW o \in M, NEW t \in Thread, Waiting(t, o)
               PROVE  k'.prio[owner'[o]] <= InitPrio[t]
    BY <1>5 DEF Inherits
  <2>1. o # m /\ owner'[o] = owner[o]
    BY <1>4, <1>5
  <2>2. owner[o] \in Thread \ {Me}
    BY <1>1, <1>2, <2>1, WaitedIsOwned DEF HInv, OneAtATime
  <2> QED BY <1>3, <2>1, <2>2 DEF HInv, Inherits
<1> QED BY <1>6, <1>7, <1>8 DEF HInv

(* The first waiter is the most urgent one, so that as the owner it needs  *)
(* nothing of the others.                                                  *)
LEMMA HPass ==
  ASSUME MutexAssumption, PInv, HInv, NEW m \in M, ReleasePass(m)
  PROVE  HInv'
<1> DEFINE x == Waiters(k, m)[1]
<1>1. /\ m \in Releasable /\ owner[m] = Me /\ pc[Me] = "app" /\ Gives(m)
      /\ owner' = [owner EXCEPT ![m] = x] /\ k' = ListResume(Restore(m), m)
      /\ Waiters(k, m) # <<>>
  BY DEF ReleasePass, Step, Gives
<1>2. /\ Me \in Thread /\ original[m] \in Prio /\ Me = k.cur /\ k.stat[Me] = "READY"
  BY <1>1, ReleaseFacts DEF PInv
<1>3. /\ x \in Thread /\ IsIn(k.lists[Wait(m)], x)
      /\ \A o \in M, t \in Thread :
           IsIn(k'.lists[Wait(o)], t) <=> IsIn(k.lists[Wait(o)], t) /\ t # x
      /\ \A t \in Thread \ {Me} : k'.prio[t] = k.prio[t]
  BY <1>2, PassStep DEF PInv
<1>4. \A o \in M : k.lists[Wait(o)] \in Seq(Thread)
  BY SoundFields DEF PInv, IInv
<1>5. \A o \in M : k'.lists[Wait(o)] = Drop(k.lists[Wait(o)], x)
  <2>1. PICK v : v = Restore(m)
    OBVIOUS
  <2>2. Sound(v, pc, want) /\ \A o \in M : v.lists[Wait(o)] = k.lists[Wait(o)]
    BY <1>2, <2>1, RestoreSound DEF PInv
  <2>3. Waiters(v, m)[1] = x /\ Waiters(v, m) # <<>> /\ v \in Kernel
    BY <1>1, <2>2, SoundFields DEF Waiters
  <2>4. v.stat[x] = "SUSPEND"
    BY <2>2, <2>3, SoundListResume
  <2>5. k' = Resume(v, x)
    BY <1>1, <2>1, <2>3 DEF ListResume
  <2> HIDE DEF x
  <2> QED BY <1>3, <2>2, <2>3, <2>4, <2>5, ResumeWaiters DEF M
<1>6. \A t \in Thread : Waiting(t, m) => InitPrio[x] <= InitPrio[t]
  <2> SUFFICES ASSUME NEW t \in Thread, Waiting(t, m) PROVE InitPrio[x] <= InitPrio[t]
    OBVIOUS
  <2>1. PICK i \in DOMAIN k.lists[Wait(m)] : k.lists[Wait(m)][i] = t
    BY DEF Waiting, Waiters, IsIn
  <2>2. 1 \in DOMAIN k.lists[Wait(m)] /\ i \in Nat /\ 1 <= i
    BY <1>4, <2>1
  <2>3. CASE i = 1
    <3>1. InitPrio[t] \in Nat
      BY PrioAssumption DEF MutexAssumption, BootOK, BootLists
    <3> QED BY <2>1, <2>3, <3>1 DEF Waiters
  <2>4. CASE i # 1
    <3>1. 1 < i
      BY <2>2, <2>4
    <3> QED BY <2>1, <2>2, <3>1 DEF HInv, WaitSorted, Sorted, Waiters
  <2> QED BY <2>3, <2>4
<1> HIDE DEF x
<1>7. owner'[m] = x /\ \A o \in M \ {m} : owner'[o] = owner[o]
  BY <1>1 DEF PInv, IInv, TypeOK
<1>8. \A o \in M, t \in Thread : Waiting(t, o)' <=> Waiting(t, o) /\ t # x
  BY <1>3 DEF Waiting, Waiters
<1>9. k.prio[x] = InitPrio[x] /\ \A o \in M : owner[o] # x
  BY <1>3, WaiterPrio DEF HInv, Waiting, Waiters
<1>10. OneAtATime'
  BY <1>7, <1>8, <1>9 DEF HInv, OneAtATime
<1>11. WaitSorted'
  BY <1>4, <1>5, SortedDrop DEF HInv, WaitSorted
<1>12. Inherits'
  <2> SUFFICES ASSUME NEW o \in M, NEW t \in Thread, Waiting(t, o), t # x
               PROVE  k'.prio[owner'[o]] <= InitPrio[t]
    BY <1>8 DEF Inherits
  <2>1. CASE o = m
    <3>1. k'.prio[x] = InitPrio[x]
      BY <1>1, <1>3, <1>9
    <3> QED BY <1>6, <1>7, <2>1, <3>1
  <2>2. CASE o # m
    <3>1. owner[o] \in Thread \ {Me}
      BY <1>1, <1>2, <2>2, WaitedIsOwned DEF PInv, HInv, OneAtATime
    <3> QED BY <1>3, <1>7, <2>2, <3>1 DEF HInv, Inherits
  <2> QED BY <2>1, <2>2
<1> QED BY <1>10, <1>11, <1>12 DEF HInv

LEMMA HInit ==
  ASSUME MutexAssumption, Init
  PROVE  HInv
<1>1. \A m \in M : owner[m] = None /\ k.lists[Wait(m)] = <<>>
  BY InitInv DEF Init, IInv, Owned, Waiters
<1>2. \A m \in M, t \in Thread : ~Waiting(t, m)
  BY <1>1 DEF Waiting, Waiters, IsIn
<1> QED BY <1>1, <1>2, Facts DEF HInv, OneAtATime, WaitSorted, Sorted, Inherits

LEMMA HNext ==
  ASSUME MutexAssumption, Nesting = "none", Flag = "PRIO", PInv, HInv, [Next]_vars
  PROVE  HInv'
<1>1. ASSUME NEW m \in M, Take(m) PROVE HInv'
  BY <1>1, HErrors, HFree, HWait DEF Take, PInv
<1>2. ASSUME NEW m \in M, Release(m) PROVE HInv'
  BY <1>2, HInner, HReleaseFree, HPass DEF Release, PInv
<1>3. ASSUME NEW m \in M, ReleaseNotOwner(m) PROVE HInv'
  BY <1>3, HErrors DEF PInv
<1>4. CASE InKernel \/ Sleep \/ TickYield
  BY <1>4, HElsewhere DEF PInv
<1>5. ASSUME NEW t \in Thread, TickTimeout(t) PROVE HInv'
  BY <1>5, HTimeout DEF PInv
<1>6. CASE UNCHANGED vars
  BY <1>6, HSameLists DEF vars, PInv
<1> QED BY <1>1, <1>2, <1>3, <1>4, <1>5, <1>6 DEF Next, ThreadStep

(* The owner is as urgent as each of its waiters, if no thread holds two   *)
(* mutexes (then a release takes back what was inherited through the other *)
(* one) and the wait lists are sorted (else the new owner inherits nothing *)
(* of those that still wait) (ipc.c:706-715, 806-843).                     *)
THEOREM UrgentAsWaiters ==
  ASSUME MutexAssumption, Nesting = "none", Flag = "PRIO"
  PROVE  Spec => []OwnerInherits
<1>1. Init => HInv
  BY HInit
<1>2. PInv /\ HInv /\ [Next]_vars => HInv'
  BY HNext
<1>3. PInv /\ HInv => OwnerInherits
  BY WaiterPrio DEF HInv, Inherits, OwnerInherits
<1>4. Spec => []PInv
  BY KeptAlways
<1> QED BY <1>1, <1>2, <1>3, <1>4, PTL DEF Spec

(* The same of the plain mutexes among those of two disciplines: PInv and  *)
(* HInv hold of them, and a step of the nested ones is none of theirs.     *)
THEOREM PlainMutexInherits ==
  ASSUME MutexAssumption, Nesting = "none", Flag = "PRIO"
  PROVE  MutexesSpec => []PlainInherits
<1> DEFINE PlainInv == object = "plain" => PInv /\ HInv
<1>1. MutexesInit => PlainInv
  BY InitInv, KeptInit, HInit DEF MutexesInit, PInv
<1>2. PlainInv /\ [MutexesNext]_mutexesVars => PlainInv'
  <2> SUFFICES ASSUME PlainInv, [MutexesNext]_mutexesVars, object' = "plain"
               PROVE  PInv' /\ HInv'
    OBVIOUS
  <2>1. object = "plain" /\ [Next]_vars
    BY DEF MutexesNext, mutexesVars
  <2>2. PInv /\ HInv
    BY <2>1
  <2> QED BY <2>1, <2>2, KeptNext, HNext
<1>3. PlainInv => PlainInherits
  <2> SUFFICES ASSUME PInv, HInv PROVE OwnerInherits
    BY DEF PlainInherits
  <2> QED BY WaiterPrio DEF HInv, Inherits, OwnerInherits
<1> QED BY <1>1, <1>2, <1>3, PTL DEF MutexesSpec
=============================================================================
