---------------------------- MODULE ThreadsProofs ----------------------------
(***************************************************************************)
(* The safety of Threads for any number of threads and priorities and for  *)
(* all callers that keep to Disciplined.                                   *)
(***************************************************************************)
EXTENDS Threads, KernelProofs

(* The lists and the ready group, for a kernel whose ready lists have to   *)
(* hold the threads of R.                                                  *)
Listed(u, R) ==
  /\ OneList(u) /\ GroupExact(u)
  /\ \A t \in Thread, p \in Prio :
       IsIn(u.lists[Ready(p)], t) <=> t \in R /\ u.prio[t] = p

(* The invariant is stated of a kernel u, places p, targets g and freed    *)
(* threads f, for the values before a step and after it.                   *)
Closing(p, g) == {g[t] : t \in {x \in Thread : p[x] \in {"delete_timer", "delete_close"}}}

Run(u, p, g) == {t \in Thread : u.stat[t] = "READY"} \ Closing(p, g)

IsDefunct(u, x) == IsIn(u.lists[Defunct], x)

Lists(u, p, g) ==
  /\ Listed(u, Run(u, p, g))
  /\ Idle \in Run(u, p, g)
  /\ \A q \in WaitQueue, t \in Thread : ~IsIn(u.lists[Wait(q)], t)

(* What is known of a thread by what happened to it *)
Fate(u, p, f, t) ==
  /\ t \in u.armed => u.stat[t] = "SUSPEND" /\ <<"sleep", t, t>> \in May
  /\ IsDefunct(u, t) => u.stat[t] = "CLOSE" /\ t \notin f
  /\ t \in f => u.stat[t] = "CLOSE"
  /\ u.stat[t] = "CLOSE" =>
       p[t] = "exit_sched" \/ \E m \in Thread \ {t} : <<"delete", m, t>> \in May

(* What a call in progress has found out about its target still holds. *)
InCall(u, p, g, f, t) ==
  LET x == g[t]
  IN  /\ p[t] \in {"resume_unlink", "resume_insert"} =>
           Manages(t, x) /\ u.stat[x] = "SUSPEND" /\ x \notin u.armed /\ x # u.cur
      /\ p[t] = "suspend_commit" =>
           /\ <<"suspend", t, x>> \in May
           /\ x # t => u.stat[x] \in {"READY", "SUSPEND"}
      /\ p[t] \in {"delete_timer", "delete_close"} =>
           /\ t # x /\ <<"delete", t, x>> \in May
           /\ u.stat[x] # "CLOSE" /\ x # u.cur /\ x \notin f
      /\ p[t] = "delete_list" =>
           /\ t # x /\ <<"delete", t, x>> \in May
           /\ u.stat[x] = "CLOSE" /\ x \notin f /\ ~IsDefunct(u, x)
           /\ p[Idle] = "free" => x # g[Idle]
      /\ p[t] = "free" =>
           t = Idle /\ u.stat[x] = "CLOSE" /\ x \notin f /\ ~IsDefunct(u, x)

(* The thread that executes: closed only on its way out, and outside its   *)
(* way to rt_schedule as urgent as any.                                    *)
Executes(u, p, g, f) ==
  /\ u.cur \notin f /\ u.stat[u.cur] # "INIT"
  /\ u.stat[u.cur] = "CLOSE" => p[u.cur] = "exit_sched"
  /\ u.nest = 0 /\ p[u.cur] \notin {"call_sched", "sleep_sched", "exit_sched"} =>
       /\ u.cur \in Run(u, p, g)
       /\ \A t \in Run(u, p, g) : u.prio[u.cur] <= u.prio[t]

Good(u, p, g, f) ==
  /\ u \in Kernel /\ p \in [Thread -> PC] /\ g \in [Thread -> Thread] /\ f \subseteq Thread
  /\ Lists(u, p, g) /\ Executes(u, p, g, f)
  /\ \A t \in Thread : Fate(u, p, f, t) /\ InCall(u, p, g, f, t)

IInv == Good(k, pc, tgt, freed)

-----------------------------------------------------------------------------
(* The operations on the lists.  The lemmas of KernelProofs are about      *)
(* kernels that satisfy KernelOK; they apply to a kernel with the same     *)
(* lists in which just the threads of R are READY.                         *)

Shadow(u, R) ==
  [u EXCEPT !.stat = [t \in Thread |-> IF t \in R THEN "READY" ELSE "SUSPEND"],
            !.armed = {}]

LEMMA ShadowFields ==
  ASSUME NEW u \in Kernel, NEW R \in SUBSET Thread, NEW a, a = Shadow(u, R)
  PROVE  /\ a \in Kernel
         /\ \A t \in Thread : a.stat[t] = "READY" <=> t \in R
         /\ a.prio = u.prio /\ a.lists = u.lists /\ a.group = u.group
         /\ a.cur = u.cur /\ a.nest = u.nest /\ a.err = u.err /\ a.armed = {}
BY DEF Shadow, Kernel, Stat

LEMMA ShadowOK ==
  ASSUME NEW u \in Kernel, NEW R \in SUBSET Thread, Listed(u, R), NEW a, a = Shadow(u, R)
  PROVE  /\ KernelOK(a) /\ ListsOK(u.lists)
         /\ \A t \in Thread : a.stat[t] = "READY" <=> t \in R
<1>1. /\ a \in Kernel
      /\ \A t \in Thread : a.stat[t] = "READY" <=> t \in R
      /\ a.prio = u.prio /\ a.lists = u.lists /\ a.group = u.group /\ a.armed = {}
  BY ShadowFields
<1>2. OneList(a) /\ GroupExact(a)
  BY <1>1 DEF Listed, OneList, GroupExact
<1>3. ReadyListed(a)
  BY <1>1 DEF Listed, ReadyListed
<1>4. TimersOfSuspended(a)
  BY <1>1 DEF TimersOfSuspended
<1> QED BY <1>1, <1>2, <1>3, <1>4, OneListLists DEF KernelOK, Listed

(* A kernel with the lists of one that satisfies KernelOK is listed.       *)
LEMMA ListedAs ==
  ASSUME NEW b, KernelOK(b), NEW u, u.lists = b.lists, u.group = b.group, u.prio = b.prio,
         NEW R, \A t \in Thread : b.stat[t] = "READY" <=> t \in R
  PROVE  Listed(u, R)
<1>1. OneList(b) /\ GroupExact(b) /\ ReadyListed(b)
  BY DEF KernelOK
<1>2. OneList(u) /\ GroupExact(u)
  BY <1>1 DEF OneList, GroupExact
<1> QED BY <1>1, <1>2 DEF Listed, ReadyListed

(* Only the lists, the group and the priorities of R matter.               *)
LEMMA ListedSame ==
  ASSUME NEW u, NEW R \in SUBSET Thread, Listed(u, R), NEW v,
         v.lists = u.lists, v.group = u.group,
         \A t \in R : v.prio[t] = u.prio[t]
  PROVE  Listed(v, R)
BY DEF Listed, OneList, GroupExact

OffReady == ListHeads \ ReadyLists

LEMMA OffReadyHeads ==
  /\ Defunct \in OffReady /\ \A q \in WaitQueue : Wait(q) \in OffReady
  /\ \A h \in OffReady : h \in ListHeads /\ \A p \in Prio : h # Ready(p)
  /\ \A h \in ListHeads : h \in OffReady \/ \E p \in Prio : h = Ready(p)
BY HeadsAreHeads DEF OffReady, ReadyLists, ListHeads

(* A thread of no ready list and of no other list is unlinked.             *)
LEMMA NotListed ==
  ASSUME NEW u \in Kernel, NEW R \in SUBSET Thread, Listed(u, R), NEW t \in Thread,
         t \notin R, \A h \in OffReady : ~IsIn(u.lists[h], t)
  PROVE  Unlinked(u.lists, t)
BY OffReadyHeads DEF Listed, Unlinked

(* A thread of R is in its ready list and in no other one.                 *)
LEMMA ListedOnce ==
  ASSUME NEW u \in Kernel, NEW R \in SUBSET Thread, Listed(u, R), NEW t \in R
  PROVE  \A h \in OffReady : ~IsIn(u.lists[h], t)
<1>1. ListsOK(u.lists) /\ u.prio[t] \in Prio
  BY OneListLists, KernelFields DEF Listed
<1>2. IsIn(u.lists[Ready(u.prio[t])], t)
  BY <1>1 DEF Listed
<1> QED BY <1>1, <1>2, OffReadyHeads, HeadsAreHeads DEF ListsOK

(* rt_schedule_insert_thread *)
LEMMA InsertListed ==
  ASSUME NEW u \in Kernel, NEW R \in SUBSET Thread, Listed(u, R),
         NEW t \in Thread, t \notin R, Unlinked(u.lists, t),
         NEW v, v = InsertReady(u, t)
  PROVE  /\ v \in Kernel /\ Listed(v, R \cup {t})
         /\ v.stat = Put(u.stat, t, "READY")
         /\ v.prio = u.prio /\ v.cur = u.cur /\ v.nest = u.nest /\ v.err = u.err
         /\ v.armed = u.armed
         /\ \A h \in OffReady, x \in Thread : IsIn(v.lists[h], x) <=> IsIn(u.lists[h], x)
<1> DEFINE a == Shadow(u, R)
           b == InsertReady(a, t)
<1>0. a = Shadow(u, R) /\ b = InsertReady(a, t)
  OBVIOUS
<1> HIDE DEF a, b
<1>1. KernelOK(a) /\ \A x \in Thread : a.stat[x] = "READY" <=> x \in R
  BY <1>0, ShadowOK, Zenon
<1>2. /\ a \in Kernel /\ a.stat \in [Thread -> Stat]
      /\ a.prio = u.prio /\ a.lists = u.lists /\ a.group = u.group
      /\ a.cur = u.cur /\ a.nest = u.nest /\ a.err = u.err /\ a.armed = {}
  <2>1. /\ a \in Kernel
        /\ a.prio = u.prio /\ a.lists = u.lists /\ a.group = u.group
        /\ a.cur = u.cur /\ a.nest = u.nest /\ a.err = u.err /\ a.armed = {}
    BY <1>0, ShadowFields
  <2> QED BY <2>1, KernelFields
<1>4. /\ b.lists = [a.lists EXCEPT ![Ready(a.prio[t])] = Append(@, t)]
      /\ b.group = a.group \cup {a.prio[t]}
  BY <1>0, <1>2 DEF InsertReady, InsertLast, Kernel
<1>5. /\ KernelOK(b)
      /\ b.stat = Put(a.stat, t, "READY") /\ b.prio = a.prio
      /\ \A h \in ListHeads, x \in Thread :
           IsIn(b.lists[h], x)
             <=> IsIn(a.lists[h], x) \/ (h = Ready(a.prio[t]) /\ x = t)
  BY <1>0, <1>1, <1>2, InsertReadyProperties
<1>6. /\ v.stat = Put(u.stat, t, "READY")
      /\ v.prio = u.prio /\ v.cur = u.cur /\ v.nest = u.nest /\ v.err = u.err
      /\ v.armed = u.armed
      /\ v.lists = [u.lists EXCEPT ![Ready(u.prio[t])] = Append(@, t)]
      /\ v.group = u.group \cup {u.prio[t]}
  BY DEF InsertReady, InsertLast, Kernel, Put
<1>7. v.lists = b.lists /\ v.group = b.group /\ v.prio = b.prio
  BY <1>2, <1>4, <1>5, <1>6
<1>8. \A x \in Thread : b.stat[x] = "READY" <=> x \in R \cup {t}
  BY <1>1, <1>2, <1>5 DEF Put
<1>9. Listed(v, R \cup {t})
  BY <1>5, <1>7, <1>8, ListedAs
<1>10. v \in Kernel
  <2>1. v = [u EXCEPT !.stat = v.stat, !.lists = v.lists, !.group = v.group]
    BY DEF InsertReady, InsertLast, Kernel
  <2>2. v.lists \in [ListHeads -> Seq(Thread)] /\ v.group \in SUBSET Prio
    BY <1>5, <1>7, KernelFields DEF KernelOK
  <2>3. v.stat \in [Thread -> Stat]
    BY <1>6, KernelFields DEF Put, Stat
  <2> QED BY <2>1, <2>2, <2>3 DEF Kernel
<1>11. u.prio[t] \in Prio
  BY KernelFields
<1> QED BY <1>2, <1>5, <1>6, <1>7, <1>9, <1>10, <1>11, OffReadyHeads

(* rt_thread_suspend removes a READY thread the same way.                  *)
LEMMA RemoveAsSuspend ==
  ASSUME NEW u \in Kernel, NEW a \in Kernel, NEW t \in Thread, NEW b, NEW v,
         a.lists = u.lists, a.group = u.group, a.prio = u.prio, a.stat[t] = "READY",
         b = Suspend(a, t), v = RemoveReady(u, t)
  PROVE  v.lists = b.lists /\ v.group = b.group
<1> DEFINE K == [h \in ListHeads |-> Drop(a.lists[h], t)]
           L == [h \in ListHeads |-> Drop(u.lists[h], t)]
<1>1. /\ b.lists = K
      /\ b.group = IF K[Ready(a.prio[t])] = <<>> THEN a.group \ {a.prio[t]} ELSE a.group
  <2>1. a \in Kernel /\ a.stat[t] = "READY" /\ b = Suspend(a, t)
    OBVIOUS
  <2> QED BY ONLY <2>1 DEF Suspend, TimerStop, RemoveReady, ListRemove, Kernel, Put
<1>2. /\ v.lists = L
      /\ v.group = IF L[Ready(u.prio[t])] = <<>> THEN u.group \ {u.prio[t]} ELSE u.group
  <2>1. u \in Kernel /\ v = RemoveReady(u, t)
    OBVIOUS
  <2> QED BY ONLY <2>1 DEF RemoveReady, ListRemove, Kernel
<1>3. K = L
  OBVIOUS
<1> HIDE DEF K, L
<1> QED BY <1>1, <1>2, <1>3

(* rt_schedule_remove_thread of a thread that is in its ready list or in   *)
(* none                                                                    *)
LEMMA RemoveListed ==
  ASSUME NEW u \in Kernel, NEW R \in SUBSET Thread, Listed(u, R),
         NEW t \in Thread, t \in R \/ Unlinked(u.lists, t),
         NEW v, v = RemoveReady(u, t)
  PROVE  /\ v \in Kernel /\ Listed(v, R \ {t}) /\ Unlinked(v.lists, t)
         /\ v.stat = u.stat
         /\ v.prio = u.prio /\ v.cur = u.cur /\ v.nest = u.nest /\ v.err = u.err
         /\ v.armed = u.armed
         /\ \A h \in OffReady, x \in Thread : IsIn(v.lists[h], x) <=> IsIn(u.lists[h], x)
<1> DEFINE L == [h \in ListHeads |-> Drop(u.lists[h], t)]
           g == IF L[Ready(u.prio[t])] = <<>> THEN u.group \ {u.prio[t]} ELSE u.group
<1>1. v = [u EXCEPT !.lists = L, !.group = g]
  BY DEF RemoveReady, ListRemove, Kernel
<1>2. /\ v.stat = u.stat
      /\ v.prio = u.prio /\ v.cur = u.cur /\ v.nest = u.nest /\ v.err = u.err
      /\ v.armed = u.armed /\ v.lists = L /\ v.group = g
  BY <1>1 DEF Kernel
<1>3. v \in Kernel
  <2>1. ListsOK(u.lists)
    BY OneListLists DEF Listed
  <2>2. L = [h \in ListHeads |-> Drop(u.lists[h], t)]
    OBVIOUS
  <2>3. ListsOK(L)
    BY <2>1, <2>2, RemoveFromLists
  <2>4. L \in [ListHeads -> Seq(Thread)]
    BY <2>3, Zenon DEF ListsOK
  <2>5. g \in SUBSET Prio
    BY KernelFields
  <2> HIDE DEF L, g
  <2> QED BY <1>1, <2>4, <2>5 DEF Kernel
<1>4. CASE t \in R
  <2> DEFINE a == Shadow(u, R)
             b == Suspend(a, t)
  <2>0. a = Shadow(u, R) /\ b = Suspend(a, t)
    OBVIOUS
  <2> HIDE DEF a, b
  <2>1. KernelOK(a) /\ \A x \in Thread : a.stat[x] = "READY" <=> x \in R
    BY <2>0, ShadowOK
  <2>2. /\ a \in Kernel /\ a.stat \in [Thread -> Stat]
        /\ a.prio = u.prio /\ a.lists = u.lists /\ a.group = u.group
    <3>1. /\ a \in Kernel
          /\ a.prio = u.prio /\ a.lists = u.lists /\ a.group = u.group
      BY <2>0, ShadowFields
    <3> QED BY <3>1, KernelFields
  <2>3. a.stat[t] = "READY"
    BY <1>4, <2>1
  <2>4. v.lists = b.lists /\ v.group = b.group
    BY <2>0, <2>2, <2>3, RemoveAsSuspend
  <2>5. /\ KernelOK(b) /\ Unlinked(b.lists, t)
        /\ b.stat = Put(a.stat, t, "SUSPEND") /\ b.prio = a.prio
        /\ \A h \in ListHeads, x \in Thread \ {t} :
             IsIn(b.lists[h], x) <=> IsIn(a.lists[h], x)
    BY <2>0, <2>1, <2>3, SuspendProperties
  <2> HIDE DEF L, g
  <2>6. \A x \in Thread : b.stat[x] = "READY" <=> x \in R \ {t}
    BY <2>1, <2>2, <2>5 DEF Put
  <2>7. v.lists = b.lists /\ v.group = b.group /\ v.prio = b.prio
    BY <1>2, <2>2, <2>4, <2>5
  <2>8. Listed(v, R \ {t})
    BY <2>5, <2>6, <2>7, ListedAs
  <2>9. \A h \in OffReady, x \in Thread : IsIn(v.lists[h], x) <=> IsIn(u.lists[h], x)
    <3> SUFFICES ASSUME NEW h \in OffReady, NEW x \in Thread
                 PROVE  IsIn(v.lists[h], x) <=> IsIn(u.lists[h], x)
      OBVIOUS
    <3>1. h \in ListHeads
      BY OffReadyHeads
    <3>2. CASE x # t
      BY <2>2, <2>5, <2>7, <3>1, <3>2
    <3>3. CASE x = t
      <4>1. ~IsIn(u.lists[h], t)
        BY <1>4, ListedOnce
      <4>2. ~IsIn(v.lists[h], t)
        BY <2>5, <2>7, <3>1 DEF Unlinked
      <4> QED BY <3>3, <4>1, <4>2
    <3> QED BY <3>2, <3>3
  <2>10. Unlinked(v.lists, t)
    BY <2>5, <2>7
  <2> QED BY <1>2, <1>3, <2>8, <2>9, <2>10
<1>5. CASE t \notin R /\ Unlinked(u.lists, t)
  <2>1. u.lists \in [ListHeads -> Seq(Thread)] /\ u.prio[t] \in Prio
    BY KernelFields
  <2>2. L = u.lists
    BY <1>5, <2>1 DEF Unlinked, Drop
  <2>3. g = u.group
    BY <2>1, <2>2 DEF Listed, GroupExact
  <2>4. R \ {t} = R
    BY <1>5
  <2> HIDE DEF L, g
  <2>5. Listed(v, R)
    BY <1>2, <2>2, <2>3, ListedSame
  <2> QED BY <1>2, <1>3, <1>5, <2>2, <2>4, <2>5
<1> QED BY <1>4, <1>5

(* rt_schedule: the current thread is one of R, as urgent as any.          *)
LEMMA ScheduleListed ==
  ASSUME NEW u \in Kernel, NEW R \in SUBSET Thread, Listed(u, R), R # {},
         NEW v, v = Schedule(u)
  PROVE  /\ v \in Kernel /\ Listed(v, R)
         /\ v.stat = u.stat
         /\ v.prio = u.prio /\ v.lists = u.lists /\ v.nest = u.nest /\ v.err = u.err
         /\ v.armed = u.armed
         /\ u.nest # 0 => v.cur = u.cur
         /\ u.nest = 0 => v.cur \in R /\ \A t \in R : u.prio[v.cur] <= u.prio[t]
<1> DEFINE a == Shadow(u, R)
           b == Schedule(a)
<1>0. a = Shadow(u, R) /\ b = Schedule(a)
  OBVIOUS
<1> HIDE DEF a, b
<1>1. KernelOK(a) /\ \A x \in Thread : a.stat[x] = "READY" <=> x \in R
  BY <1>0, ShadowOK
<1>2. /\ a \in Kernel
      /\ a.prio = u.prio /\ a.lists = u.lists /\ a.group = u.group
      /\ a.cur = u.cur /\ a.nest = u.nest
  BY <1>0, ShadowFields
<1>3. PICK x \in Thread : x \in R
  OBVIOUS
<1>4. /\ KernelOK(b) /\ b.stat = a.stat
      /\ a.nest # 0 => b.cur = a.cur
      /\ a.nest = 0 =>
           /\ b.stat[b.cur] = "READY"
           /\ \A t \in Thread : a.stat[t] = "READY" => a.prio[b.cur] <= a.prio[t]
  BY <1>0, <1>1, <1>3, ScheduleProperties
<1>5. b.cur \in Thread
  BY <1>4, KernelFields DEF KernelOK
<1>6. v = [u EXCEPT !.cur = b.cur]
  <2>1. CASE u.nest = 0
    BY <1>0, <1>2, <2>1 DEF Schedule, Highest, Kernel
  <2>2. CASE u.nest # 0
    <3>1. v = u /\ b = a
      BY <1>0, <1>2, <2>2 DEF Schedule
    <3> QED BY <1>2, <3>1 DEF Kernel
  <2> QED BY <2>1, <2>2
<1>7. /\ v \in Kernel
      /\ v.stat = u.stat
      /\ v.prio = u.prio /\ v.lists = u.lists /\ v.nest = u.nest /\ v.err = u.err
      /\ v.armed = u.armed /\ v.group = u.group /\ v.cur = b.cur
  BY <1>5, <1>6 DEF Kernel
<1>8. Listed(v, R)
  BY <1>7, ListedSame
<1> QED BY <1>1, <1>2, <1>4, <1>5, <1>7, <1>8

(* rt_thread_yield of a thread that is not about to be closed              *)
LEMMA YieldListed ==
  ASSUME NEW u \in Kernel, NEW R \in SUBSET Thread, Listed(u, R),
         u.stat[u.cur] = "READY" => u.cur \in R,
         NEW v, v = Yield(u), v # u
  PROVE  /\ v \in Kernel /\ Listed(v, R)
         /\ v.stat = u.stat
         /\ v.prio = u.prio /\ v.nest = u.nest /\ v.err = u.err
         /\ v.armed = u.armed
         /\ u.nest # 0 => v.cur = u.cur
         /\ u.nest = 0 => v.cur \in R /\ \A t \in R : u.prio[v.cur] <= u.prio[t]
         /\ \A h \in OffReady, x \in Thread : IsIn(v.lists[h], x) <=> IsIn(u.lists[h], x)
<1> DEFINE t == u.cur
           r == Ready(u.prio[t])
           L == [h \in ListHeads |-> Drop(u.lists[h], t)]
           s == Append(L[r], t)
           M == Put(L, r, s)
           w == InsertLast(ListRemove(u, t), r, t)
<1>0. t \in Thread /\ u.prio[t] \in Prio /\ r \in ListHeads /\ ListsOK(u.lists)
  BY KernelFields, HeadsAreHeads, OneListLists DEF Listed
<1>1. u.stat[t] = "READY" /\ v = Schedule(w)
  BY DEF Yield
<1>2. t \in R
  BY <1>1
<1>3. w = [u EXCEPT !.lists = M]
  BY <1>0 DEF InsertLast, ListRemove, Kernel, Put
<1>4. /\ ListsOK(L) /\ Unlinked(L, t)
      /\ \A h \in ListHeads, x \in Thread : IsIn(L[h], x) <=> IsIn(u.lists[h], x) /\ x # t
  <2>1. L = [h \in ListHeads |-> Drop(u.lists[h], t)]
    OBVIOUS
  <2> HIDE DEF L
  <2> QED BY <1>0, <2>1, RemoveFromLists
<1> HIDE DEF L
<1>5. AddsTo(s, L[r], t)
  <2>1. L[r] \in Seq(Thread) /\ Injective(L[r]) /\ ~IsIn(L[r], t)
    BY <1>0, <1>4, Zenon DEF ListsOK, Unlinked
  <2> QED BY <1>0, <2>1, AppendList
<1>6. M = Put(L, r, s)
  OBVIOUS
<1> HIDE DEF s, M, r
<1>7. /\ ListsOK(M)
      /\ \A h \in ListHeads, x \in Thread : IsIn(M[h], x) <=> IsIn(L[h], x) \/ (h = r /\ x = t)
  BY <1>0, <1>4, <1>5, <1>6, InsertInLists
<1>8. \A h \in ListHeads, x \in Thread : IsIn(M[h], x) <=> IsIn(u.lists[h], x)
  <2>1. IsIn(u.lists[r], t)
    BY <1>0, <1>2 DEF Listed, r
  <2>2. \A h \in ListHeads : IsIn(u.lists[h], t) => h = r
    BY <1>0, <2>1 DEF ListsOK
  <2> QED BY <1>4, <1>7, <2>1, <2>2
<1> HIDE DEF w
<1>9. /\ w \in Kernel
      /\ w.stat = u.stat /\ w.prio = u.prio /\ w.group = u.group /\ w.lists = M
      /\ w.cur = u.cur /\ w.nest = u.nest /\ w.err = u.err /\ w.armed = u.armed
  BY <1>3, <1>7 DEF Kernel, ListsOK
<1>10. Listed(w, R)
  <2>1. OneList(w)
    BY <1>7, <1>9, OneListLists
  <2>2. GroupExact(w)
    <3>1. ASSUME NEW p \in Prio
          PROVE  M[Ready(p)] # <<>> <=> u.lists[Ready(p)] # <<>>
      <4>1. M[Ready(p)] \in Seq(Thread) /\ u.lists[Ready(p)] \in Seq(Thread)
        BY <1>0, <1>7, HeadsAreHeads DEF ListsOK
      <4> QED BY <4>1, <1>8, HeadsAreHeads, EmptyList
    <3> QED BY <1>9, <3>1 DEF Listed, GroupExact
  <2> QED BY <1>8, <1>9, <2>1, <2>2, HeadsAreHeads DEF Listed
<1>11. /\ v \in Kernel /\ Listed(v, R)
       /\ v.stat = w.stat
       /\ v.prio = w.prio /\ v.lists = w.lists /\ v.nest = w.nest /\ v.err = w.err
       /\ v.armed = w.armed
       /\ w.nest # 0 => v.cur = w.cur
       /\ w.nest = 0 => v.cur \in R /\ \A x \in R : w.prio[v.cur] <= w.prio[x]
  BY <1>1, <1>2, <1>9, <1>10, ScheduleListed
<1> QED BY <1>8, <1>9, <1>11, OffReadyHeads

(* Making a thread DEFUNCT: it enters a list that is no ready list.        *)
LEMMA DefunctListed ==
  ASSUME NEW u \in Kernel, NEW R \in SUBSET Thread, Listed(u, R),
         NEW t \in Thread, Unlinked(u.lists, t),
         NEW v, v = InsertFirst(u, Defunct, t)
  PROVE  /\ v \in Kernel /\ Listed(v, R)
         /\ v.stat = u.stat
         /\ v.prio = u.prio /\ v.cur = u.cur /\ v.nest = u.nest /\ v.err = u.err
         /\ v.armed = u.armed
         /\ \A h \in OffReady, x \in Thread :
              IsIn(v.lists[h], x) <=> IsIn(u.lists[h], x) \/ (h = Defunct /\ x = t)
<1> DEFINE s == <<t>> \o u.lists[Defunct]
           L == Put(u.lists, Defunct, s)
<1>0. ListsOK(u.lists) /\ Defunct \in ListHeads /\ \A p \in Prio : Ready(p) # Defunct
  BY OneListLists, HeadsAreHeads DEF Listed
<1>1. v = [u EXCEPT !.lists = L]
  BY <1>0 DEF InsertFirst, Kernel, Put
<1>2. AddsTo(s, u.lists[Defunct], t)
  <2> DEFINE o == u.lists[Defunct]
  <2>1. o \in Seq(Thread) /\ Injective(o) /\ ~IsIn(o, t)
    BY <1>0 DEF ListsOK, Unlinked
  <2>2. s = <<t>> \o o
    OBVIOUS
  <2> HIDE DEF o, s
  <2>3. /\ s \in Seq(Thread) /\ Len(s) = Len(o) + 1 /\ DOMAIN s = 1 .. Len(o) + 1
        /\ DOMAIN o = 1 .. Len(o) /\ Len(o) \in Nat
        /\ \A i \in 1 .. Len(o) + 1 : s[i] = IF i = 1 THEN t ELSE o[i - 1]
    BY <2>1, <2>2
  <2>4. \A i \in 1 .. Len(o) : o[i] # t
    BY <2>1, <2>3 DEF IsIn
  <2>5. Injective(s)
    <3> SUFFICES ASSUME NEW i \in 1 .. Len(o) + 1, NEW j \in 1 .. Len(o) + 1, s[i] = s[j]
                 PROVE  i = j
      BY <2>3 DEF Injective
    <3>1. CASE i = 1 /\ j # 1
      <4>1. j - 1 \in 1 .. Len(o) /\ s[j] = o[j - 1] /\ s[i] = t
        BY <2>3, <3>1
      <4> QED BY <2>4, <4>1
    <3>2. CASE i # 1 /\ j = 1
      <4>1. i - 1 \in 1 .. Len(o) /\ s[i] = o[i - 1] /\ s[j] = t
        BY <2>3, <3>2
      <4> QED BY <2>4, <4>1
    <3>3. CASE i # 1 /\ j # 1
      <4>1. /\ i - 1 \in 1 .. Len(o) /\ j - 1 \in 1 .. Len(o)
            /\ s[i] = o[i - 1] /\ s[j] = o[j - 1]
        BY <2>3, <3>3
      <4>2. i - 1 = j - 1
        BY <2>1, <2>3, <4>1 DEF Injective
      <4> QED BY <4>1, <4>2
    <3> QED BY <3>1, <3>2, <3>3
  <2>6. ASSUME NEW x PROVE IsIn(s, x) <=> IsIn(o, x) \/ x = t
    <3>1. ASSUME IsIn(s, x) PROVE IsIn(o, x) \/ x = t
      <4>1. PICK i \in 1 .. Len(o) + 1 : s[i] = x
        BY <2>3, <3>1 DEF IsIn
      <4>2. CASE i = 1
        BY <2>3, <4>1, <4>2
      <4>3. CASE i # 1
        <5>1. i - 1 \in 1 .. Len(o) /\ o[i - 1] = x
          BY <2>3, <4>1, <4>3
        <5> QED BY <2>3, <5>1 DEF IsIn
      <4> QED BY <4>2, <4>3
    <3>2. ASSUME IsIn(o, x) PROVE IsIn(s, x)
      <4>1. PICK i \in 1 .. Len(o) : o[i] = x
        BY <2>3, <3>2 DEF IsIn
      <4>2. i + 1 \in 1 .. Len(o) + 1 /\ s[i + 1] = x
        BY <2>3, <4>1
      <4> QED BY <2>3, <4>2 DEF IsIn
    <3>3. ASSUME x = t PROVE IsIn(s, x)
      <4>1. 1 \in 1 .. Len(o) + 1 /\ s[1] = x
        BY <2>3, <3>3
      <4> QED BY <2>3, <4>1 DEF IsIn
    <3> QED BY <3>1, <3>2, <3>3
  <2>7. AddsTo(s, o, t)
    BY <2>3, <2>5, <2>6 DEF AddsTo
  <2> QED BY <2>7 DEF o
<1>3. L = Put(u.lists, Defunct, s)
  OBVIOUS
<1> HIDE DEF s, L
<1>4. /\ ListsOK(L)
      /\ \A h \in ListHeads, x \in Thread :
           IsIn(L[h], x) <=> IsIn(u.lists[h], x) \/ (h = Defunct /\ x = t)
  BY <1>0, <1>2, <1>3, InsertInLists
<1>5. /\ v \in Kernel
      /\ v.stat = u.stat /\ v.prio = u.prio /\ v.group = u.group /\ v.lists = L
      /\ v.cur = u.cur /\ v.nest = u.nest /\ v.err = u.err /\ v.armed = u.armed
  BY <1>1, <1>4 DEF Kernel, ListsOK
<1>6. \A p \in Prio : L[Ready(p)] = u.lists[Ready(p)]
  BY <1>0, <1>3, HeadsAreHeads DEF ListsOK, Put
<1>7. Listed(v, R)
  <2>1. OneList(v)
    BY <1>4, <1>5, OneListLists
  <2> QED BY <1>5, <1>6, <2>1 DEF Listed, GroupExact
<1> QED BY <1>4, <1>5, <1>7, OffReadyHeads

(* rt_list_remove of a thread that is in no ready list                     *)
LEMMA DropListed ==
  ASSUME NEW u \in Kernel, NEW R \in SUBSET Thread, Listed(u, R),
         NEW t \in Thread, t \notin R,
         NEW v, v = ListRemove(u, t)
  PROVE  /\ v \in Kernel /\ Listed(v, R)
         /\ v.stat = u.stat
         /\ v.prio = u.prio /\ v.cur = u.cur /\ v.nest = u.nest /\ v.err = u.err
         /\ v.armed = u.armed
         /\ Unlinked(v.lists, t)
         /\ \A h \in OffReady, x \in Thread : IsIn(v.lists[h], x) <=> IsIn(u.lists[h], x) /\ x # t
<1> DEFINE L == [h \in ListHeads |-> Drop(u.lists[h], t)]
<1>0. u.lists \in [ListHeads -> Seq(Thread)] /\ ListsOK(u.lists)
  BY KernelFields, OneListLists DEF Listed
<1>1. v = [u EXCEPT !.lists = L]
  BY DEF ListRemove, Kernel
<1>2. /\ ListsOK(L) /\ Unlinked(L, t)
      /\ \A h \in ListHeads, x \in Thread : IsIn(L[h], x) <=> IsIn(u.lists[h], x) /\ x # t
  <2>1. L = [h \in ListHeads |-> Drop(u.lists[h], t)]
    OBVIOUS
  <2> HIDE DEF L
  <2> QED BY <1>0, <2>1, RemoveFromLists
<1>3. \A p \in Prio : L[Ready(p)] = u.lists[Ready(p)]
  BY HeadsAreHeads DEF Listed, Drop
<1> HIDE DEF L
<1>4. /\ v \in Kernel
      /\ v.stat = u.stat /\ v.prio = u.prio /\ v.group = u.group /\ v.lists = L
      /\ v.cur = u.cur /\ v.nest = u.nest /\ v.err = u.err /\ v.armed = u.armed
  BY <1>1, <1>2 DEF Kernel, ListsOK
<1>5. Listed(v, R)
  <2>1. OneList(v)
    BY <1>2, <1>4, OneListLists
  <2> QED BY <1>3, <1>4, <2>1 DEF Listed, GroupExact
<1> QED BY <1>2, <1>4, <1>5, OffReadyHeads

(* rt_thread_control changing the priority of a thread that is not about   *)
(* to be closed                                                            *)
LEMMA PriorityListed ==
  ASSUME NEW u \in Kernel, NEW R \in SUBSET Thread, Listed(u, R),
         NEW t \in Thread, u.stat[t] = "READY" <=> t \in R, NEW p \in Prio,
         NEW v, v = ChangePriority(u, t, p)
  PROVE  /\ v \in Kernel /\ Listed(v, R)
         /\ v.stat = u.stat
         /\ v.cur = u.cur /\ v.nest = u.nest /\ v.err = u.err
         /\ v.armed = u.armed
         /\ \A h \in OffReady, x \in Thread : IsIn(v.lists[h], x) <=> IsIn(u.lists[h], x)
<1>1. CASE u.stat[t] = "READY"
  <2> DEFINE w == RemoveReady(u, t)
             y == [w EXCEPT !.prio[t] = p]
  <2>1. v = InsertReady(y, t) /\ t \in R
    BY <1>1 DEF ChangePriority
  <2>2. w = RemoveReady(u, t)
    OBVIOUS
  <2>3. y = [w EXCEPT !.prio[t] = p]
    OBVIOUS
  <2> HIDE DEF w, y
  <2>4. /\ w \in Kernel /\ Listed(w, R \ {t}) /\ Unlinked(w.lists, t)
        /\ w.stat = u.stat
        /\ w.cur = u.cur /\ w.nest = u.nest /\ w.err = u.err
        /\ w.armed = u.armed
        /\ \A h \in OffReady, x \in Thread : IsIn(w.lists[h], x) <=> IsIn(u.lists[h], x)
    BY <2>1, <2>2, RemoveListed
  <2>5. w.prio \in [Thread -> Prio]
    BY <2>4, KernelFields
  <2>6. y = [w EXCEPT !.prio = Put(w.prio, t, p)]
    BY <2>3, <2>4 DEF Kernel, Put
  <2>7. Put(w.prio, t, p) \in [Thread -> Prio] /\ \A x \in R \ {t} : Put(w.prio, t, p)[x] = w.prio[x]
    BY <2>5 DEF Put
  <2>8. /\ y \in Kernel
        /\ y.stat = w.stat /\ y.lists = w.lists /\ y.group = w.group
        /\ y.cur = w.cur /\ y.nest = w.nest /\ y.err = w.err /\ y.armed = w.armed
        /\ \A x \in R \ {t} : y.prio[x] = w.prio[x]
    BY <2>4, <2>6, <2>7 DEF Kernel
  <2>9. Listed(y, R \ {t})
    BY <2>4, <2>8, ListedSame
  <2>10. Unlinked(y.lists, t)
    BY <2>4, <2>8
  <2>11. /\ v \in Kernel /\ Listed(v, (R \ {t}) \cup {t})
         /\ v.stat = Put(y.stat, t, "READY")
         /\ v.cur = y.cur /\ v.nest = y.nest /\ v.err = y.err
         /\ v.armed = y.armed
         /\ \A h \in OffReady, x \in Thread : IsIn(v.lists[h], x) <=> IsIn(y.lists[h], x)
    BY <2>1, <2>8, <2>9, <2>10, InsertListed
  <2>12. (R \ {t}) \cup {t} = R
    BY <2>1
  <2>13. Put(y.stat, t, "READY") = u.stat
    BY <1>1, <2>4, <2>8, KernelFields DEF Put
  <2>14. Listed(v, R)
    BY <2>11, <2>12
  <2> QED BY <2>4, <2>8, <2>11, <2>13, <2>14
<1>2. CASE u.stat[t] # "READY"
  <2>1. v = [u EXCEPT !.prio = Put(u.prio, t, p)]
    BY <1>2 DEF ChangePriority, Put, Kernel
  <2>2. Put(u.prio, t, p) \in [Thread -> Prio] /\ \A x \in R : Put(u.prio, t, p)[x] = u.prio[x]
    BY <1>2, KernelFields DEF Put
  <2>3. /\ v \in Kernel
        /\ v.stat = u.stat /\ v.lists = u.lists /\ v.group = u.group
        /\ v.cur = u.cur /\ v.nest = u.nest /\ v.err = u.err /\ v.armed = u.armed
        /\ \A x \in R : v.prio[x] = u.prio[x]
    BY <2>1, <2>2 DEF Kernel
  <2>4. Listed(v, R)
    BY <2>3, ListedSame
  <2> QED BY <2>3, <2>4
<1> QED BY <1>1, <1>2

(* rt_thread_timeout for a thread that is in no list                       *)
LEMMA TimeoutListed ==
  ASSUME NEW u \in Kernel, NEW R \in SUBSET Thread, Listed(u, R),
         NEW t \in Thread, t \notin R, Unlinked(u.lists, t),
         NEW v, v = Timeout(u, t)
  PROVE  /\ v \in Kernel /\ Listed(v, R \cup {t})
         /\ v.stat = Put(u.stat, t, "READY")
         /\ v.prio = u.prio /\ v.nest = u.nest
         /\ v.armed = u.armed \ {t}
         /\ u.nest # 0 => v.cur = u.cur
         /\ u.nest = 0 => /\ v.cur \in R \cup {t}
                          /\ \A x \in R \cup {t} : u.prio[v.cur] <= u.prio[x]
         /\ \A h \in OffReady, x \in Thread : IsIn(v.lists[h], x) <=> IsIn(u.lists[h], x)
<1> DEFINE b == TimerStop(WithError(u, t, "ETIMEOUT"), t)
           c == ListRemove(b, t)
           w == InsertReady(c, t)
<1>0. v = Schedule(w) /\ w = InsertReady(c, t) /\ c = ListRemove(b, t)
  BY DEF Timeout
<1>1. b = [u EXCEPT !.err = Put(u.err, t, "ETIMEOUT"), !.armed = u.armed \ {t}]
  BY DEF TimerStop, WithError, Kernel, Put
<1>2. Put(u.err, t, "ETIMEOUT") \in [Thread -> Error]
  BY KernelFields DEF Put, Error
<1> HIDE DEF b, c, w
<1>3. /\ b \in Kernel
      /\ b.stat = u.stat /\ b.prio = u.prio /\ b.lists = u.lists /\ b.group = u.group
      /\ b.cur = u.cur /\ b.nest = u.nest /\ b.armed = u.armed \ {t}
  BY <1>1, <1>2 DEF Kernel
<1>4. Listed(b, R) /\ Unlinked(b.lists, t)
  BY <1>3, ListedSame
<1>5. /\ c \in Kernel /\ Listed(c, R)
      /\ c.stat = b.stat
      /\ c.prio = b.prio /\ c.cur = b.cur /\ c.nest = b.nest /\ c.armed = b.armed
      /\ Unlinked(c.lists, t)
      /\ \A h \in OffReady, x \in Thread : IsIn(c.lists[h], x) <=> IsIn(b.lists[h], x) /\ x # t
  BY <1>0, <1>3, <1>4, DropListed
<1>6. /\ w \in Kernel /\ Listed(w, R \cup {t})
      /\ w.stat = Put(c.stat, t, "READY")
      /\ w.prio = c.prio /\ w.cur = c.cur /\ w.nest = c.nest /\ w.armed = c.armed
      /\ \A h \in OffReady, x \in Thread : IsIn(w.lists[h], x) <=> IsIn(c.lists[h], x)
  BY <1>0, <1>5, InsertListed
<1>7. R \cup {t} # {} /\ R \cup {t} \in SUBSET Thread
  OBVIOUS
<1>8. /\ v \in Kernel /\ Listed(v, R \cup {t})
      /\ v.stat = w.stat
      /\ v.prio = w.prio /\ v.lists = w.lists /\ v.nest = w.nest /\ v.armed = w.armed
      /\ w.nest # 0 => v.cur = w.cur
      /\ w.nest = 0 => /\ v.cur \in R \cup {t}
                       /\ \A x \in R \cup {t} : w.prio[v.cur] <= w.prio[x]
  BY <1>0, <1>6, <1>7, ScheduleListed
<1>9. \A h \in OffReady, x \in Thread : IsIn(v.lists[h], x) <=> IsIn(u.lists[h], x)
  <2>1. \A h \in OffReady : ~IsIn(u.lists[h], t)
    BY OffReadyHeads DEF Unlinked
  <2> QED BY <1>3, <1>5, <1>6, <1>8, <2>1
<1> QED BY <1>3, <1>5, <1>6, <1>8, <1>9

-----------------------------------------------------------------------------
(* What Good says in the forms the steps need                              *)

Minding == {"resume_unlink", "resume_insert", "suspend_commit",
            "delete_timer", "delete_close", "delete_list"}

OnTheWay == {"call_sched", "sleep_sched", "exit_sched"}

Hypotheses == ThreadsAssumption /\ Disciplined

LEMMA GoodFacts ==
  ASSUME Hypotheses, NEW u, NEW p, NEW g, NEW f, Good(u, p, g, f)
  PROVE  /\ u \in Kernel /\ p \in [Thread -> PC] /\ g \in [Thread -> Thread] /\ f \subseteq Thread
         /\ u.cur \in Thread /\ Idle \in Thread
         /\ Run(u, p, g) \in SUBSET Thread /\ Run(u, p, g) # {}
         /\ Listed(u, Run(u, p, g))
         /\ u.cur \notin Closing(p, g)
         /\ u.stat[u.cur] = "READY" <=> u.cur \in Run(u, p, g)
         /\ \A t \in Thread : Fate(u, p, f, t) /\ InCall(u, p, g, f, t)
         /\ \A t \in Thread : t \notin Run(u, p, g) /\ ~IsDefunct(u, t) => Unlinked(u.lists, t)
         /\ \A q \in WaitQueue, t \in Thread : ~IsIn(u.lists[Wait(q)], t)
<1>1. /\ u \in Kernel /\ p \in [Thread -> PC] /\ g \in [Thread -> Thread] /\ f \subseteq Thread
      /\ u.cur \in Thread /\ Idle \in Thread
      /\ Listed(u, Run(u, p, g)) /\ Idle \in Run(u, p, g)
      /\ \A t \in Thread : Fate(u, p, f, t) /\ InCall(u, p, g, f, t)
      /\ \A q \in WaitQueue, t \in Thread : ~IsIn(u.lists[Wait(q)], t)
  BY KernelFields DEF Good, Lists, Hypotheses, ThreadsAssumption, Started
<1>2. Run(u, p, g) \in SUBSET Thread
  BY DEF Run
<1>3. u.cur \notin Closing(p, g)
  <2> SUFFICES ASSUME NEW x \in Thread, p[x] \in {"delete_timer", "delete_close"}, g[x] = u.cur
               PROVE  FALSE
    BY DEF Closing
  <2> QED BY <1>1 DEF InCall
<1>4. u.stat[u.cur] = "READY" <=> u.cur \in Run(u, p, g)
  BY <1>1, <1>3 DEF Run
<1>5. ASSUME NEW t \in Thread, t \notin Run(u, p, g), ~IsDefunct(u, t)
      PROVE  Unlinked(u.lists, t)
  <2>1. \A h \in OffReady : ~IsIn(u.lists[h], t)
    BY <1>1, <1>5 DEF OffReady, ListHeads, ReadyLists, IsDefunct
  <2> QED BY <1>1, <1>2, <1>5, <2>1, NotListed
<1> QED BY <1>1, <1>2, <1>3, <1>4, <1>5

(* Who is not READY and not closed is in no list; nor is who is about to   *)
(* be closed.                                                              *)
LEMMA NowhereListed ==
  ASSUME Hypotheses, NEW u, NEW p, NEW g, NEW f, Good(u, p, g, f), NEW t \in Thread,
         t \notin Run(u, p, g), u.stat[t] # "CLOSE"
  PROVE  Unlinked(u.lists, t)
<1>1. /\ Fate(u, p, f, t)
      /\ ~IsDefunct(u, t) => Unlinked(u.lists, t)
  BY GoodFacts
<1> QED BY <1>1 DEF Fate

(* A call on another thread is its manager's.                              *)
LEMMA MindingManages ==
  ASSUME Hypotheses, NEW u, NEW p, NEW g, NEW f, Good(u, p, g, f),
         NEW t \in Thread, p[t] \in Minding
  PROVE  /\ g[t] # t => Manages(t, g[t])
         /\ g[t] = t => p[t] = "suspend_commit"
<1>1. InCall(u, p, g, f, t)
  BY GoodFacts
<1> QED BY <1>1 DEF InCall, Manages, Minding

(* Nobody else has a call in progress on a thread that the current one     *)
(* manages.                                                                *)
LEMMA NobodyElseMinds ==
  ASSUME Hypotheses, NEW u, NEW p, NEW g, NEW f, Good(u, p, g, f),
         NEW c \in Thread, NEW x \in Thread, Manages(c, x),
         NEW t \in Thread, t # c, g[t] = x, p[t] \in Minding
  PROVE  p[t] = "suspend_commit" /\ t = x
<1>1. g[t] # t => Manages(t, x)
  BY MindingManages
<1>2. Manages(t, x) => t = c
  BY DEF Hypotheses, Disciplined
<1>3. t = x
  BY <1>1, <1>2
<1> QED BY <1>3, MindingManages

(* Nor on the current thread itself, but to suspend it.                    *)
LEMMA NobodyMindsCurrent ==
  ASSUME Hypotheses, NEW u, NEW p, NEW g, NEW f, Good(u, p, g, f),
         p[u.cur] # "exit_sched", NEW t \in Thread, t # u.cur, g[t] = u.cur
  PROVE  /\ p[t] \in Minding => p[t] = "suspend_commit" /\ <<"exit", u.cur, u.cur>> \notin May
         /\ p[t] # "free"
<1>1. u.stat[u.cur] # "CLOSE" /\ u.cur \in Thread
  BY GoodFacts DEF Good, Executes
<1>2. InCall(u, p, g, f, t)
  BY GoodFacts
<1>3. <<"suspend", t, u.cur>> \in May => <<"exit", u.cur, u.cur>> \notin May
  BY <1>1 DEF Hypotheses, Disciplined
<1> QED BY <1>1, <1>2, <1>3 DEF InCall, Minding

(* The threads about to be closed change only with a call that deletes.    *)
LEMMA ClosingSame ==
  ASSUME NEW p \in [Thread -> PC], NEW g \in [Thread -> Thread],
         NEW q \in [Thread -> PC], NEW h \in [Thread -> Thread],
         \A t \in Thread : \/ q[t] = p[t] /\ h[t] = g[t]
                           \/ {p[t], q[t]} \cap {"delete_timer", "delete_close"} = {}
  PROVE  Closing(q, h) = Closing(p, g)
BY DEF Closing

(* What a step from u to v leaves of the threads outside C *)
Leaves(u, f, v, e, C) ==
  \A x \in Thread \ C :
    /\ v.stat[x] = u.stat[x]
    /\ x \in v.armed => x \in u.armed
    /\ IsDefunct(v, x) <=> IsDefunct(u, x)
    /\ x \in e <=> x \in f

(* The call of t is not disturbed by what the step does to its target.     *)
Allows(v, p, g, t) ==
  /\ p[t] # "free"
  /\ p[t] \in Minding => /\ p[t] = "suspend_commit"
                         /\ g[t] # t => v.stat[g[t]] \in {"READY", "SUSPEND"}

(* What the idle thread frees, it was about to free or takes now.          *)
Frees(u, p, g, q, h) ==
  q[Idle] = "free" => \/ p[Idle] = "free" /\ h[Idle] = g[Idle]
                      \/ IsDefunct(u, h[Idle])

(* A call in progress is not touched by a step that leaves its target      *)
(* alone.                                                                  *)
LEMMA CallKept ==
  ASSUME Hypotheses, NEW u, NEW p, NEW g, NEW f, Good(u, p, g, f),
         NEW v, NEW q, NEW h, NEW e, NEW C, NEW t \in Thread,
         q[t] = p[t], h[t] = g[t], Leaves(u, f, v, e, C),
         g[t] \in C => Allows(v, p, g, t),
         v.cur = u.cur \/ v.cur \in Run(v, q, h),
         Frees(u, p, g, q, h)
  PROVE  InCall(v, q, h, e, t)
<1> DEFINE x == g[t]
<1>1. InCall(u, p, g, f, t) /\ x \in Thread
  BY GoodFacts
<1>2. q[t] \in {"delete_timer", "delete_close"} => h[t] \in Closing(q, h)
  BY DEF Closing
<1>3. v.cur \in Run(v, q, h) => v.stat[v.cur] = "READY" /\ v.cur \notin Closing(q, h)
  BY DEF Run
<1>4. CASE x \in C
  BY <1>1, <1>4 DEF InCall, Minding, Allows
<1>5. CASE x \notin C
  <2>1. /\ v.stat[x] = u.stat[x] /\ (x \in v.armed => x \in u.armed)
        /\ IsDefunct(v, x) <=> IsDefunct(u, x)
        /\ x \in e <=> x \in f
    BY <1>1, <1>5 DEF Leaves
  <2>2. p[t] \in {"resume_unlink", "resume_insert"} =>
           Manages(t, x) /\ v.stat[x] = "SUSPEND" /\ x \notin v.armed /\ x # v.cur
    BY <1>1, <1>3, <2>1 DEF InCall
  <2>3. p[t] = "suspend_commit" =>
           /\ <<"suspend", t, x>> \in May
           /\ x # t => v.stat[x] \in {"READY", "SUSPEND"}
    BY <1>1, <2>1 DEF InCall
  <2>4. p[t] \in {"delete_timer", "delete_close"} =>
           /\ t # x /\ <<"delete", t, x>> \in May
           /\ v.stat[x] # "CLOSE" /\ x # v.cur /\ x \notin e
    BY <1>1, <1>2, <1>3, <2>1 DEF InCall
  <2>5. p[t] = "delete_list" =>
           /\ t # x /\ <<"delete", t, x>> \in May
           /\ v.stat[x] = "CLOSE" /\ x \notin e /\ ~IsDefunct(v, x)
           /\ q[Idle] = "free" => x # h[Idle]
    BY <1>1, <2>1 DEF InCall, Frees
  <2>6. p[t] = "free" =>
           t = Idle /\ v.stat[x] = "CLOSE" /\ x \notin e /\ ~IsDefunct(v, x)
    BY <1>1, <2>1 DEF InCall
  <2> QED BY <2>2, <2>3, <2>4, <2>5, <2>6 DEF InCall
<1> QED BY <1>4, <1>5

LEMMA FateKept ==
  ASSUME NEW u, NEW p, NEW f, NEW t, Fate(u, p, f, t),
         NEW v, NEW q, NEW e,
         v.stat[t] = u.stat[t], t \in v.armed => t \in u.armed,
         IsDefunct(v, t) <=> IsDefunct(u, t), t \in e <=> t \in f,
         p[t] = "exit_sched" => q[t] = "exit_sched"
  PROVE  Fate(v, q, e, t)
BY DEF Fate

(* A step in which the threads of A go on in their calls and the threads   *)
(* of C change *)
Moves(u, p, g, f, v, q, h, e, A, C) ==
  /\ v \in Kernel /\ q \in [Thread -> PC] /\ h \in [Thread -> Thread] /\ e \in SUBSET Thread
  /\ \A t \in Thread \ A :
       /\ q[t] = p[t] /\ h[t] = g[t]
       /\ g[t] \in C => Allows(v, p, g, t)
  /\ \A t \in A :
       /\ t \notin C /\ p[t] = "exit_sched" => q[t] = "exit_sched"
       /\ InCall(v, q, h, e, t)
  /\ \A t \in C : Fate(v, q, e, t)
  /\ Leaves(u, f, v, e, C) /\ Frees(u, p, g, q, h)
  /\ Listed(v, Run(v, q, h)) /\ Idle \in Run(v, q, h)
  /\ \A w \in WaitQueue, t \in Thread : ~IsIn(v.lists[Wait(w)], t)
  /\ v.cur = u.cur \/ v.cur \in Run(v, q, h)
  /\ Executes(v, q, h, e)

LEMMA StepGood ==
  ASSUME Hypotheses, NEW u, NEW p, NEW g, NEW f, Good(u, p, g, f),
         NEW v, NEW q, NEW h, NEW e, NEW A, NEW C,
         Moves(u, p, g, f, v, q, h, e, A, C)
  PROVE  Good(v, q, h, e)
<1>1. ASSUME NEW t \in Thread PROVE InCall(v, q, h, e, t)
  <2>1. CASE t \in A
    BY <2>1 DEF Moves
  <2>2. CASE t \notin A
    <3>1. q[t] = p[t] /\ h[t] = g[t] /\ (g[t] \in C => Allows(v, p, g, t))
      BY <2>2 DEF Moves
    <3>2. /\ Leaves(u, f, v, e, C) /\ Frees(u, p, g, q, h)
          /\ v.cur = u.cur \/ v.cur \in Run(v, q, h)
      BY DEF Moves
    <3> QED BY <3>1, <3>2, CallKept
  <2> QED BY <2>1, <2>2
<1>2. ASSUME NEW t \in Thread PROVE Fate(v, q, e, t)
  <2>1. CASE t \in C
    BY <2>1 DEF Moves
  <2>2. CASE t \notin C
    <3>1. Fate(u, p, f, t)
      BY GoodFacts
    <3>2. p[t] = "exit_sched" => q[t] = "exit_sched"
      BY <2>2 DEF Moves
    <3>3. /\ v.stat[t] = u.stat[t] /\ (t \in v.armed => t \in u.armed)
          /\ IsDefunct(v, t) <=> IsDefunct(u, t)
          /\ t \in e <=> t \in f
      BY <2>2 DEF Moves, Leaves
    <3> QED BY <3>1, <3>2, <3>3, FateKept
  <2> QED BY <2>1, <2>2
<1> QED BY <1>1, <1>2 DEF Moves, Good, Lists

(* Nothing moves outside the ready lists.                                  *)
LEMMA OffSame ==
  ASSUME Hypotheses, NEW u, NEW p, NEW g, NEW f, Good(u, p, g, f), NEW v,
         \A h \in OffReady, x \in Thread : IsIn(v.lists[h], x) <=> IsIn(u.lists[h], x)
  PROVE  /\ \A w \in WaitQueue, t \in Thread : ~IsIn(v.lists[Wait(w)], t)
         /\ \A t \in Thread : IsDefunct(v, t) <=> IsDefunct(u, t)
<1>1. \A w \in WaitQueue, t \in Thread : ~IsIn(u.lists[Wait(w)], t)
  BY GoodFacts
<1> QED BY <1>1, OffReadyHeads DEF IsDefunct

(* Executes, when rt_schedule has picked the thread, ...                   *)
LEMMA ExecutesScheduled ==
  ASSUME NEW v, NEW q, NEW h, NEW e, \A t \in Thread : t \in e => v.stat[t] = "CLOSE",
         v.cur \in Run(v, q, h), \A t \in Run(v, q, h) : v.prio[v.cur] <= v.prio[t]
  PROVE  Executes(v, q, h, e)
BY DEF Executes, Run

(* ... and when it goes on.                                                *)
LEMMA ExecutesKept ==
  ASSUME NEW u, NEW p, NEW g, NEW f, Executes(u, p, g, f),
         NEW v, NEW q, NEW h, NEW e, NEW c, c = u.cur, v.cur = c,
         c \in e => c \in f, v.stat[c] = u.stat[c],
         p[c] = "exit_sched" => q[c] = "exit_sched",
         v.nest = u.nest, p[c] \in OnTheWay => q[c] \in OnTheWay,
         Run(v, q, h) \subseteq Run(u, p, g),
         c \in Run(u, p, g) => c \in Run(v, q, h),
         \A t \in Run(u, p, g) : v.prio[t] = u.prio[t]
  PROVE  Executes(v, q, h, e)
BY DEF Executes, OnTheWay

-----------------------------------------------------------------------------
(* The steps *)

LEMMA CallFacts ==
  ASSUME Hypotheses, IInv, NEW op, NEW x \in Thread, NEW b \in PC, Call(op, x, b)
  PROVE  /\ k.cur \in Thread
         /\ <<op, k.cur, x>> \in May /\ pc[k.cur] = "app"
         /\ pc' \in [Thread -> PC] /\ pc'[k.cur] = b
         /\ tgt' \in [Thread -> Thread] /\ tgt'[k.cur] = x
         /\ \A t \in Thread \ {k.cur} : pc'[t] = pc[t] /\ tgt'[t] = tgt[t]
         /\ freed' = freed
<1>1. k.cur \in Thread /\ pc \in [Thread -> PC] /\ tgt \in [Thread -> Thread]
  BY GoodFacts DEF IInv
<1> QED BY <1>1 DEF Call

LEMMA StepFacts ==
  ASSUME Hypotheses, IInv, NEW a, NEW b \in PC, Step(a, b)
  PROVE  /\ k.cur \in Thread /\ tgt[k.cur] \in Thread
         /\ pc[k.cur] = a
         /\ pc' \in [Thread -> PC] /\ pc'[k.cur] = b
         /\ \A t \in Thread \ {k.cur} : pc'[t] = pc[t]
<1>1. k.cur \in Thread /\ pc \in [Thread -> PC] /\ tgt \in [Thread -> Thread]
  BY GoodFacts DEF IInv
<1> QED BY <1>1 DEF Step
(* rt_thread_startup *)
LEMMA StartupGood ==
  ASSUME Hypotheses, IInv, NEW x \in Thread, Startup(x)
  PROVE  IInv'
<1> DEFINE c == k.cur
           R == Run(k, pc, tgt)
<1>0. Good(k, pc, tgt, freed)
  BY DEF IInv
<1>1. /\ <<"startup", c, x>> \in May /\ pc[c] = "app"
      /\ pc' \in [Thread -> PC] /\ pc'[c] = "resume_unlink"
      /\ tgt' \in [Thread -> Thread] /\ tgt'[c] = x
      /\ \A t \in Thread \ {c} : pc'[t] = pc[t] /\ tgt'[t] = tgt[t]
      /\ freed' = freed
  BY CallFacts DEF Startup, PC
<1>2. /\ k \in Kernel /\ c \in Thread /\ Idle \in Thread /\ freed \subseteq Thread
      /\ pc \in [Thread -> PC] /\ tgt \in [Thread -> Thread]
      /\ R \in SUBSET Thread /\ Listed(k, R)
      /\ \A t \in Thread : Fate(k, pc, freed, t) /\ InCall(k, pc, tgt, freed, t)
  BY <1>0, GoodFacts
<1>3. k.stat[x] = "INIT" /\ x \notin freed /\ x # c
  BY <1>0 DEF Startup, Good, Executes
<1>4. /\ k' \in Kernel
      /\ k'.stat = Put(k.stat, x, "SUSPEND") /\ k'.prio = Put(k.prio, x, InitPrio[x])
      /\ k'.lists = k.lists /\ k'.group = k.group /\ k'.cur = c /\ k'.nest = k.nest
      /\ k'.armed = k.armed
  <2>1. InitPrio[x] \in Prio /\ "SUSPEND" \in Stat
    BY DEF Hypotheses, ThreadsAssumption, BootLists, Stat
  <2> QED BY <1>2, <2>1 DEF Startup, Kernel, Put
<1>5. Manages(c, x)
  BY <1>1, <1>3 DEF Manages
<1>6. x \notin k.armed /\ ~IsDefunct(k, x) /\ Idle \in R
  BY <1>0, <1>2, <1>3 DEF Fate, Good, Lists
<1>7. Closing(pc', tgt') = Closing(pc, tgt)
  BY <1>1, <1>2, ClosingSame
<1>8. Run(k', pc', tgt') = R
  BY <1>2, <1>3, <1>4, <1>7, KernelFields DEF Run, Put
<1>9. Listed(k', R)
  BY <1>2, <1>3, <1>4, KernelFields, ListedSame DEF Run, Put
<1>10. Leaves(k, freed, k', freed', {x})
  BY <1>1, <1>2, <1>4, KernelFields DEF Leaves, IsDefunct, Put
<1>11. ASSUME NEW t \in Thread \ {c}, tgt[t] \in {x} PROVE Allows(k', pc, tgt, t)
  <2>1. pc[t] \in Minding => pc[t] = "suspend_commit" /\ tgt[t] = t
    BY <1>0, <1>2, <1>5, <1>11, NobodyElseMinds
  <2>2. InCall(k, pc, tgt, freed, t)
    BY <1>2
  <2> QED BY <1>3, <1>11, <2>1, <2>2 DEF Allows, InCall
<1>12. Fate(k', pc', freed', x)
  BY <1>1, <1>2, <1>3, <1>4, <1>6, KernelFields DEF Fate, IsDefunct, Put
<1>13. InCall(k', pc', tgt', freed', c)
  BY <1>1, <1>2, <1>3, <1>4, <1>5, <1>6, KernelFields DEF InCall, Put
<1>14. Executes(k', pc', tgt', freed')
  <2>1. Executes(k, pc, tgt, freed) /\ k'.stat[c] = k.stat[c]
    BY <1>0, <1>2, <1>3, <1>4, KernelFields DEF Good, Put
  <2>2. \A t \in R : k'.prio[t] = k.prio[t]
    BY <1>2, <1>3, <1>4, KernelFields DEF Run, Put
  <2> QED BY <1>1, <1>4, <1>8, <2>1, <2>2, ExecutesKept DEF OnTheWay
<1>15. \A w \in WaitQueue, t \in Thread : ~IsIn(k'.lists[Wait(w)], t)
  BY <1>0, <1>4, GoodFacts
<1>16. Frees(k, pc, tgt, pc', tgt')
  BY <1>1, <1>2 DEF Frees
<1>17. Moves(k, pc, tgt, freed, k', pc', tgt', freed', {c}, {x})
  BY <1>1, <1>2, <1>4, <1>6, <1>8, <1>9, <1>10, <1>11, <1>12, <1>13, <1>14, <1>15, <1>16 DEF Moves
<1> QED BY <1>0, <1>17, StepGood DEF IInv

(* A step of the current thread that changes no thread and no list *)
LEMMA QuietGood ==
  ASSUME Hypotheses, IInv, NEW c, c = k.cur,
         k' \in Kernel, k'.stat = k.stat, k'.prio = k.prio, k'.lists = k.lists,
         k'.group = k.group, k'.cur = k.cur, k'.armed = k.armed, freed' = freed,
         pc' \in [Thread -> PC], tgt' \in [Thread -> Thread],
         \A t \in Thread \ {c} : pc'[t] = pc[t] /\ tgt'[t] = tgt[t],
         {pc[c], pc'[c]} \cap {"delete_timer", "delete_close", "exit_sched", "free"} = {},
         InCall(k', pc', tgt', freed', c), Executes(k', pc', tgt', freed')
  PROVE  IInv'
<1> DEFINE R == Run(k, pc, tgt)
<1>0. Good(k, pc, tgt, freed)
  BY DEF IInv
<1>1. /\ k \in Kernel /\ c \in Thread /\ Idle \in Thread /\ freed \subseteq Thread
      /\ pc \in [Thread -> PC] /\ tgt \in [Thread -> Thread]
      /\ R \in SUBSET Thread /\ Listed(k, R) /\ Idle \in R
  BY <1>0, GoodFacts DEF Good, Lists
<1>2. Closing(pc', tgt') = Closing(pc, tgt)
  BY <1>1, ClosingSame
<1>3. Run(k', pc', tgt') = R
  BY <1>2 DEF Run
<1>4. Listed(k', R)
  BY <1>1, ListedSame
<1>5. Leaves(k, freed, k', freed', {})
  BY DEF Leaves, IsDefunct
<1>6. \A w \in WaitQueue, t \in Thread : ~IsIn(k'.lists[Wait(w)], t)
  BY <1>0, GoodFacts
<1>7. Frees(k, pc, tgt, pc', tgt')
  BY <1>1 DEF Frees
<1>8. Moves(k, pc, tgt, freed, k', pc', tgt', freed', {c}, {})
  BY <1>1, <1>3, <1>4, <1>5, <1>6, <1>7 DEF Moves
<1> QED BY <1>0, <1>8, StepGood DEF IInv

(* Between two calls, or returning from a sleep, the current thread is not *)
(* on its way to rt_schedule.                                              *)
LEMMA StillExecutes ==
  ASSUME Hypotheses, IInv, NEW c, c = k.cur, pc[c] \notin OnTheWay,
         k'.stat = k.stat, k'.prio = k.prio, k'.cur = k.cur, freed' = freed,
         Run(k', pc', tgt') \subseteq Run(k, pc, tgt),
         c \in Run(k, pc, tgt) => c \in Run(k', pc', tgt'),
         k'.nest = k.nest \/ k'.nest # 0 \/ pc'[c] \in OnTheWay
  PROVE  Executes(k', pc', tgt', freed')
<1>1. Executes(k, pc, tgt, freed)
  BY DEF IInv, Good
<1>2. k.stat[c] # "CLOSE"
  BY <1>1 DEF Executes, OnTheWay
<1> QED BY <1>1, <1>2 DEF Executes, OnTheWay

LEMMA RunSame ==
  ASSUME Hypotheses, IInv, NEW c, c = k.cur, k'.stat = k.stat,
         pc' \in [Thread -> PC], tgt' \in [Thread -> Thread],
         \A t \in Thread \ {c} : pc'[t] = pc[t] /\ tgt'[t] = tgt[t],
         {pc[c], pc'[c]} \cap {"delete_timer", "delete_close"} = {}
  PROVE  Run(k', pc', tgt') = Run(k, pc, tgt)
<1>1. pc \in [Thread -> PC] /\ tgt \in [Thread -> Thread]
  BY GoodFacts DEF IInv
<1>2. Closing(pc', tgt') = Closing(pc, tgt)
  BY <1>1, ClosingSame
<1> QED BY <1>2 DEF Run

LEMMA ResumeCheckGood ==
  ASSUME Hypotheses, IInv, NEW x \in Thread, ResumeCheck(x)
  PROVE  IInv'
<1> DEFINE c == k.cur
<1>1. /\ <<"resume", c, x>> \in May /\ pc[c] = "app" /\ c \in Thread
      /\ pc' \in [Thread -> PC] /\ pc'[c] = "resume_unlink"
      /\ tgt' \in [Thread -> Thread] /\ tgt'[c] = x
      /\ \A t \in Thread \ {c} : pc'[t] = pc[t] /\ tgt'[t] = tgt[t]
      /\ freed' = freed
  BY CallFacts DEF ResumeCheck, PC
<1>2. k' = k /\ k.stat[x] = "SUSPEND"
  BY DEF ResumeCheck
<1>3. x # c /\ <<"sleep", x, x>> \notin May
  BY <1>1 DEF Hypotheses, Disciplined
<1>4. Fate(k, pc, freed, x) /\ k \in Kernel
  BY GoodFacts DEF IInv
<1>5. InCall(k', pc', tgt', freed', c)
  BY <1>1, <1>2, <1>3, <1>4 DEF InCall, Fate, Manages
<1>6. Run(k', pc', tgt') = Run(k, pc, tgt)
  BY <1>1, <1>2, RunSame
<1>7. Executes(k', pc', tgt', freed')
  BY <1>1, <1>2, <1>6, StillExecutes DEF OnTheWay
<1> QED BY <1>1, <1>2, <1>4, <1>5, <1>7, QuietGood

LEMMA SuspendCheckGood ==
  ASSUME Hypotheses, IInv, NEW x \in Thread, SuspendCheck(x)
  PROVE  IInv'
<1> DEFINE c == k.cur
<1>1. /\ <<"suspend", c, x>> \in May /\ pc[c] = "app" /\ c \in Thread
      /\ pc' \in [Thread -> PC] /\ pc'[c] = "suspend_commit"
      /\ tgt' \in [Thread -> Thread] /\ tgt'[c] = x
      /\ \A t \in Thread \ {c} : pc'[t] = pc[t] /\ tgt'[t] = tgt[t]
      /\ freed' = freed
  BY CallFacts DEF SuspendCheck, PC
<1>2. k' = k /\ k.stat[x] = "READY" /\ k \in Kernel
  BY GoodFacts DEF SuspendCheck, IInv
<1>3. InCall(k', pc', tgt', freed', c)
  BY <1>1, <1>2 DEF InCall
<1>4. Run(k', pc', tgt') = Run(k, pc, tgt)
  BY <1>1, <1>2, RunSame
<1>5. Executes(k', pc', tgt', freed')
  BY <1>1, <1>2, <1>4, StillExecutes DEF OnTheWay
<1> QED BY <1>1, <1>2, <1>3, <1>5, QuietGood

(* rt_enter_critical *)
LEMMA EnterCriticalGood ==
  ASSUME Hypotheses, IInv, EnterCritical
  PROVE  IInv'
<1> DEFINE c == k.cur
<1>1. c \in Thread /\ k \in Kernel
  BY GoodFacts DEF IInv
<1>2. /\ pc[c] = "app"
      /\ pc' \in [Thread -> PC] /\ pc'[c] = "app"
      /\ tgt' \in [Thread -> Thread]
      /\ \A t \in Thread \ {c} : pc'[t] = pc[t] /\ tgt'[t] = tgt[t]
      /\ freed' = freed
  BY <1>1, CallFacts DEF EnterCritical, PC
<1>3. /\ k' \in Kernel /\ k'.stat = k.stat /\ k'.prio = k.prio /\ k'.lists = k.lists
      /\ k'.group = k.group /\ k'.cur = k.cur /\ k'.armed = k.armed /\ k'.nest # 0
  BY <1>1 DEF EnterCritical, Kernel
<1>4. InCall(k', pc', tgt', freed', c)
  BY <1>2 DEF InCall
<1>5. Run(k', pc', tgt') = Run(k, pc, tgt)
  BY <1>2, <1>3, RunSame
<1>6. Executes(k', pc', tgt', freed')
  BY <1>2, <1>3, <1>5, StillExecutes DEF OnTheWay
<1> QED BY <1>2, <1>3, <1>4, <1>6, QuietGood

(* rt_exit_critical *)
LEMMA ExitCriticalGood ==
  ASSUME Hypotheses, IInv, ExitCritical
  PROVE  IInv'
<1> DEFINE c == k.cur
           b == IF k.nest <= 1 THEN "call_sched" ELSE "app"
<1>1. c \in Thread /\ k \in Kernel /\ b \in PC
  BY GoodFacts DEF IInv, PC
<1>2. /\ pc[c] = "app"
      /\ pc' \in [Thread -> PC] /\ pc'[c] = b
      /\ tgt' \in [Thread -> Thread]
      /\ \A t \in Thread \ {c} : pc'[t] = pc[t] /\ tgt'[t] = tgt[t]
      /\ freed' = freed
  BY <1>1, CallFacts DEF ExitCritical
<1>3. /\ k' \in Kernel /\ k'.stat = k.stat /\ k'.prio = k.prio /\ k'.lists = k.lists
      /\ k'.group = k.group /\ k'.cur = k.cur /\ k'.armed = k.armed
      /\ k'.nest # 0 \/ b = "call_sched"
  <2> DEFINE n == IF k.nest > 1 THEN k.nest - 1 ELSE 0
  <2>1. k.nest \in Nat
    BY <1>1, KernelFields
  <2>2. n \in Nat /\ (n # 0 \/ b = "call_sched")
    BY <2>1
  <2>3. k' = [k EXCEPT !.nest = n]
    BY <1>1 DEF ExitCritical, Kernel
  <2> HIDE DEF n, b
  <2> QED BY <1>1, <2>2, <2>3 DEF Kernel
<1>4. InCall(k', pc', tgt', freed', c)
  BY <1>2 DEF InCall
<1>5. Run(k', pc', tgt') = Run(k, pc, tgt)
  BY <1>2, <1>3, RunSame
<1>6. Executes(k', pc', tgt', freed')
  BY <1>2, <1>3, <1>5, StillExecutes DEF OnTheWay
<1> QED BY <1>2, <1>3, <1>4, <1>6, QuietGood

(* The end of rt_thread_sleep *)
LEMMA SleepReturnGood ==
  ASSUME Hypotheses, IInv, SleepReturn
  PROVE  IInv'
<1> DEFINE c == k.cur
<1>1. c \in Thread /\ k \in Kernel /\ tgt \in [Thread -> Thread]
  BY GoodFacts DEF IInv
<1>2. /\ pc[c] = "sleep_return"
      /\ pc' \in [Thread -> PC] /\ pc'[c] = "app"
      /\ tgt' \in [Thread -> Thread]
      /\ \A t \in Thread \ {c} : pc'[t] = pc[t] /\ tgt'[t] = tgt[t]
      /\ freed' = freed
  BY <1>1, StepFacts DEF SleepReturn, PC
<1>3. /\ k' \in Kernel /\ k'.stat = k.stat /\ k'.prio = k.prio /\ k'.lists = k.lists
      /\ k'.group = k.group /\ k'.cur = k.cur /\ k'.armed = k.armed /\ k'.nest = k.nest
  BY <1>1 DEF SleepReturn, WithError, Kernel, Error
<1>4. InCall(k', pc', tgt', freed', c)
  BY <1>2 DEF InCall
<1>5. Run(k', pc', tgt') = Run(k, pc, tgt)
  BY <1>2, <1>3, RunSame
<1>6. Executes(k', pc', tgt', freed')
  BY <1>2, <1>3, <1>5, StillExecutes DEF OnTheWay
<1> QED BY <1>2, <1>3, <1>4, <1>6, QuietGood

(* rt_schedule at the end of a call *)
LEMMA ScheduleGood ==
  ASSUME Hypotheses, IInv, NEW a, NEW b \in PC, Step(a, b), k' = Schedule(k),
         tgt' = tgt, freed' = freed,
         \/ a \in {"call_sched", "sleep_sched"} /\ b \in {"app", "sleep_return"}
         \/ a = "exit_sched" /\ b = "exit_sched"
  PROVE  IInv'
<1> DEFINE c == k.cur
           R == Run(k, pc, tgt)
<1>0. Good(k, pc, tgt, freed)
  BY DEF IInv
<1>1. /\ k \in Kernel /\ c \in Thread /\ Idle \in Thread /\ freed \subseteq Thread
      /\ pc \in [Thread -> PC] /\ tgt \in [Thread -> Thread]
      /\ R \in SUBSET Thread /\ R # {} /\ Listed(k, R) /\ Idle \in R
      /\ \A t \in Thread : Fate(k, pc, freed, t)
  BY <1>0, GoodFacts DEF Good, Lists
<1>2. /\ pc[c] = a /\ pc' \in [Thread -> PC] /\ pc'[c] = b
      /\ \A t \in Thread \ {c} : pc'[t] = pc[t]
  BY StepFacts
<1>3. /\ k' \in Kernel /\ Listed(k', R)
      /\ k'.stat = k.stat
      /\ k'.prio = k.prio /\ k'.lists = k.lists /\ k'.nest = k.nest
      /\ k'.armed = k.armed
      /\ k.nest # 0 => k'.cur = c
      /\ k.nest = 0 => k'.cur \in R /\ \A t \in R : k.prio[k'.cur] <= k.prio[t]
  BY <1>1, ScheduleListed
<1>4. Run(k', pc', tgt') = R
  <2>1. Closing(pc', tgt') = Closing(pc, tgt)
    BY <1>1, <1>2, ClosingSame
  <2> QED BY <1>3, <2>1 DEF Run
<1>5. Leaves(k, freed, k', freed', {})
  BY <1>3 DEF Leaves, IsDefunct
<1>6. \A w \in WaitQueue, t \in Thread : ~IsIn(k'.lists[Wait(w)], t)
  BY <1>0, <1>3, GoodFacts
<1>7. Frees(k, pc, tgt, pc', tgt')
  BY <1>1, <1>2 DEF Frees
<1>8. InCall(k', pc', tgt', freed', c)
  BY <1>2 DEF InCall
<1>9. Executes(k', pc', tgt', freed')
  <2>1. CASE k.nest = 0
    <3>1. \A t \in Thread : t \in freed' => k'.stat[t] = "CLOSE"
      BY <1>1, <1>3 DEF Fate
    <3>2. k'.cur \in R /\ \A t \in R : k'.prio[k'.cur] <= k'.prio[t]
      BY <1>3, <2>1
    <3> QED BY <1>4, <3>1, <3>2, ExecutesScheduled
  <2>2. CASE k.nest # 0
    BY <1>0, <1>2, <1>3, <2>2 DEF Good, Executes
  <2> QED BY <2>1, <2>2
<1>10. k'.cur = c \/ k'.cur \in R
  BY <1>3
<1>11. pc[c] = "exit_sched" => pc'[c] = "exit_sched"
  BY <1>2
<1>12. Moves(k, pc, tgt, freed, k', pc', tgt', freed', {c}, {})
  BY <1>1, <1>2, <1>3, <1>4, <1>5, <1>6, <1>7, <1>8, <1>9, <1>10, <1>11 DEF Moves
<1> QED BY <1>0, <1>12, StepGood DEF IInv

LEMMA ScheduleStepsGood ==
  ASSUME Hypotheses, IInv, CallSchedule \/ SleepSchedule \/ ExitSchedule
  PROVE  IInv'
<1>1. {"app", "sleep_return", "exit_sched"} \subseteq PC
  BY DEF PC
<1>2. CASE CallSchedule
  BY <1>1, <1>2, ScheduleGood DEF CallSchedule
<1>3. CASE SleepSchedule
  BY <1>1, <1>3, ScheduleGood DEF SleepSchedule
<1>4. CASE ExitSchedule
  BY <1>1, <1>4, ScheduleGood DEF ExitSchedule
<1> QED BY <1>2, <1>3, <1>4

(* The tick: rt_thread_yield *)
LEMMA TickYieldGood ==
  ASSUME Hypotheses, IInv, TickYield
  PROVE  IInv'
<1> DEFINE c == k.cur
           R == Run(k, pc, tgt)
<1>0. Good(k, pc, tgt, freed) /\ k' = Yield(k) /\ pc' = pc /\ tgt' = tgt /\ freed' = freed
  BY DEF IInv, TickYield
<1>1. /\ k \in Kernel /\ c \in Thread /\ Idle \in Thread /\ freed \subseteq Thread
      /\ pc \in [Thread -> PC] /\ tgt \in [Thread -> Thread]
      /\ R \in SUBSET Thread /\ R # {} /\ Listed(k, R) /\ Idle \in R
      /\ k.stat[c] = "READY" <=> c \in R
      /\ \A t \in Thread : Fate(k, pc, freed, t)
  BY <1>0, GoodFacts DEF Good, Lists
<1>2. CASE k' = k
  BY <1>0, <1>2 DEF IInv
<1>3. CASE k' # k
  <2>1. /\ k' \in Kernel /\ Listed(k', R)
        /\ k'.stat = k.stat
        /\ k'.prio = k.prio /\ k'.nest = k.nest
        /\ k'.armed = k.armed
        /\ k.nest # 0 => k'.cur = c
        /\ k.nest = 0 => k'.cur \in R /\ \A t \in R : k.prio[k'.cur] <= k.prio[t]
        /\ \A h \in OffReady, x \in Thread : IsIn(k'.lists[h], x) <=> IsIn(k.lists[h], x)
    BY <1>0, <1>1, <1>3, YieldListed
  <2>2. Run(k', pc', tgt') = R
    BY <1>0, <2>1 DEF Run
  <2>3. /\ \A w \in WaitQueue, t \in Thread : ~IsIn(k'.lists[Wait(w)], t)
        /\ \A t \in Thread : IsDefunct(k', t) <=> IsDefunct(k, t)
    BY <1>0, <2>1, OffSame
  <2>4. Leaves(k, freed, k', freed', {})
    BY <1>0, <2>1, <2>3 DEF Leaves
  <2>5. Frees(k, pc, tgt, pc', tgt')
    BY <1>0 DEF Frees
  <2>6. Executes(k', pc', tgt', freed')
    <3>1. CASE k.nest = 0
      <4>1. \A t \in Thread : t \in freed' => k'.stat[t] = "CLOSE"
        BY <1>0, <1>1, <2>1 DEF Fate
      <4>2. k'.cur \in R /\ \A t \in R : k'.prio[k'.cur] <= k'.prio[t]
        BY <2>1, <3>1
      <4>3. k'.cur \in Thread
        BY <2>1, KernelFields
      <4> QED BY <1>1, <2>2, <4>1, <4>2, <4>3, ExecutesScheduled
    <3>2. CASE k.nest # 0
      BY <1>0, <2>1, <3>2 DEF Good, Executes
    <3> QED BY <3>1, <3>2
  <2>7. k'.cur = c \/ k'.cur \in R
    BY <2>1
  <2>8. Moves(k, pc, tgt, freed, k', pc', tgt', freed', {}, {})
    BY <1>0, <1>1, <2>1, <2>2, <2>3, <2>4, <2>5, <2>6, <2>7 DEF Moves
  <2> QED BY <1>0, <2>8, StepGood DEF IInv
<1> QED BY <1>2, <1>3

(* The tick: rt_thread_timeout *)
LEMMA TickTimeoutGood ==
  ASSUME Hypotheses, IInv, NEW x \in Thread, TickTimeout(x)
  PROVE  IInv'
<1> DEFINE c == k.cur
           R == Run(k, pc, tgt)
<1>0. /\ Good(k, pc, tgt, freed) /\ x \in k.armed
      /\ k' = Timeout(k, x) /\ pc' = pc /\ tgt' = tgt /\ freed' = freed
  BY DEF IInv, TickTimeout
<1>1. /\ k \in Kernel /\ c \in Thread /\ Idle \in Thread /\ freed \subseteq Thread
      /\ pc \in [Thread -> PC] /\ tgt \in [Thread -> Thread]
      /\ R \in SUBSET Thread /\ R # {} /\ Listed(k, R) /\ Idle \in R
      /\ \A t \in Thread : Fate(k, pc, freed, t) /\ InCall(k, pc, tgt, freed, t)
  BY <1>0, GoodFacts DEF Good, Lists
<1>2. k.stat[x] = "SUSPEND" /\ <<"sleep", x, x>> \in May /\ x \notin R /\ x \notin freed
  BY <1>0, <1>1 DEF Fate, Run
<1>3. Unlinked(k.lists, x)
  BY <1>0, <1>2, NowhereListed
<1>4. ASSUME NEW t \in Thread, tgt[t] = x
      PROVE  pc[t] # "free" /\ (pc[t] \in Minding => pc[t] = "suspend_commit")
  <2>1. InCall(k, pc, tgt, freed, t)
    BY <1>1
  <2>2. t # x => <<"delete", t, x>> \notin May
    BY <1>2 DEF Hypotheses, Disciplined
  <2> QED BY <1>0, <1>2, <1>4, <2>1, <2>2 DEF InCall, Minding
<1>5. x \notin Closing(pc, tgt)
  BY <1>4 DEF Closing, Minding
<1>6. /\ k' \in Kernel /\ Listed(k', R \cup {x})
      /\ k'.stat = Put(k.stat, x, "READY")
      /\ k'.prio = k.prio /\ k'.nest = k.nest
      /\ k'.armed = k.armed \ {x}
      /\ k.nest # 0 => k'.cur = c
      /\ k.nest = 0 => /\ k'.cur \in R \cup {x}
                       /\ \A t \in R \cup {x} : k.prio[k'.cur] <= k.prio[t]
      /\ \A h \in OffReady, t \in Thread : IsIn(k'.lists[h], t) <=> IsIn(k.lists[h], t)
  BY <1>0, <1>1, <1>2, <1>3, TimeoutListed
<1>7. Run(k', pc', tgt') = R \cup {x}
  BY <1>0, <1>1, <1>5, <1>6, KernelFields DEF Run, Put
<1>8. /\ \A w \in WaitQueue, t \in Thread : ~IsIn(k'.lists[Wait(w)], t)
      /\ \A t \in Thread : IsDefunct(k', t) <=> IsDefunct(k, t)
  BY <1>0, <1>6, OffSame
<1>9. Leaves(k, freed, k', freed', {x})
  BY <1>0, <1>1, <1>6, <1>8, KernelFields DEF Leaves, Put
<1>10. Frees(k, pc, tgt, pc', tgt')
  BY <1>0 DEF Frees
<1>11. k'.stat[x] = "READY"
  BY <1>1, <1>6, KernelFields DEF Put
<1>12. Fate(k', pc', freed', x)
  BY <1>0, <1>1, <1>2, <1>6, <1>8, <1>11 DEF Fate
<1>13. ASSUME NEW t \in Thread, tgt[t] \in {x} PROVE Allows(k', pc, tgt, t)
  BY <1>4, <1>11, <1>13 DEF Allows
<1>14. Executes(k', pc', tgt', freed')
  <2>1. CASE k.nest = 0
    <3>1. \A t \in Thread : t \in freed' => k'.stat[t] = "CLOSE"
      <4> SUFFICES ASSUME NEW t \in Thread, t \in freed
                   PROVE  k'.stat[t] = "CLOSE"
        BY <1>0
      <4>1. k.stat[t] = "CLOSE" /\ t # x
        BY <1>1, <1>2 DEF Fate
      <4> QED BY <1>1, <1>6, <4>1, KernelFields DEF Put
    <3>2. k'.cur \in R \cup {x} /\ \A t \in R \cup {x} : k'.prio[k'.cur] <= k'.prio[t]
      BY <1>6, <2>1
    <3> QED BY <1>7, <3>1, <3>2, ExecutesScheduled
  <2>2. CASE k.nest # 0
    <3>1. k'.stat[c] = k.stat[c] \/ k'.stat[c] = "READY"
      BY <1>1, <1>6, KernelFields DEF Put
    <3> QED BY <1>0, <1>6, <2>2, <3>1 DEF Good, Executes
  <2> QED BY <2>1, <2>2
<1>15. k'.cur = c \/ k'.cur \in R \cup {x}
  BY <1>6
<1>16. Moves(k, pc, tgt, freed, k', pc', tgt', freed', {}, {x})
  BY <1>0, <1>1, <1>6, <1>7, <1>8, <1>9, <1>10, <1>12, <1>13, <1>14, <1>15 DEF Moves
<1> QED BY <1>0, <1>16, StepGood DEF IInv

(* rt_thread_resume, its first region *)
LEMMA ResumeUnlinkGood ==
  ASSUME Hypotheses, IInv, ResumeUnlinkStep
  PROVE  IInv'
<1> DEFINE c == k.cur
           x == tgt[c]
           w == ListRemove(k, x)
           R == Run(k, pc, tgt)
<1>0. Good(k, pc, tgt, freed)
  BY DEF IInv
<1>1. /\ k \in Kernel /\ c \in Thread /\ x \in Thread /\ Idle \in Thread /\ freed \subseteq Thread
      /\ pc \in [Thread -> PC] /\ tgt \in [Thread -> Thread]
      /\ R \in SUBSET Thread /\ Listed(k, R) /\ Idle \in R
      /\ \A t \in Thread : Fate(k, pc, freed, t) /\ InCall(k, pc, tgt, freed, t)
  BY <1>0, GoodFacts DEF Good, Lists
<1>2. /\ pc[c] = "resume_unlink" /\ pc' \in [Thread -> PC] /\ pc'[c] = "resume_insert"
      /\ \A t \in Thread \ {c} : pc'[t] = pc[t]
      /\ tgt' = tgt /\ freed' = freed
  BY StepFacts DEF ResumeUnlinkStep, PC
<1>3. Manages(c, x) /\ k.stat[x] = "SUSPEND" /\ x \notin k.armed /\ x # c
  BY <1>1, <1>2 DEF InCall
<1>4. x \notin R
  BY <1>3 DEF Run
<1>5. Unlinked(k.lists, x)
  BY <1>0, <1>1, <1>3, <1>4, NowhereListed
<1>6. k' = TimerStop(w, x) /\ w = ListRemove(k, x)
  BY DEF ResumeUnlinkStep, ResumeUnlink, X
<1> HIDE DEF w, x
<1>7. /\ w \in Kernel /\ Listed(w, R)
      /\ w.stat = k.stat
      /\ w.prio = k.prio /\ w.cur = k.cur /\ w.nest = k.nest /\ w.armed = k.armed
      /\ \A h \in OffReady, t \in Thread : IsIn(w.lists[h], t) <=> IsIn(k.lists[h], t) /\ t # x
  BY <1>1, <1>4, <1>6, DropListed
<1>8. /\ k' \in Kernel
      /\ k'.stat = k.stat /\ k'.prio = k.prio /\ k'.lists = w.lists /\ k'.group = w.group
      /\ k'.cur = c /\ k'.nest = k.nest /\ k'.armed = k.armed \ {x}
  BY <1>6, <1>7 DEF TimerStop, Kernel
<1>9. Listed(k', R)
  BY <1>1, <1>7, <1>8, ListedSame
<1>10. Run(k', pc', tgt') = R
  BY <1>1, <1>2, <1>8, RunSame
<1>11. \A h \in OffReady, t \in Thread : IsIn(k'.lists[h], t) <=> IsIn(k.lists[h], t)
  BY <1>5, <1>7, <1>8, OffReadyHeads DEF Unlinked
<1>12. /\ \A o \in WaitQueue, t \in Thread : ~IsIn(k'.lists[Wait(o)], t)
       /\ \A t \in Thread : IsDefunct(k', t) <=> IsDefunct(k, t)
  BY <1>0, <1>11, OffSame
<1>13. Leaves(k, freed, k', freed', {})
  BY <1>2, <1>8, <1>12 DEF Leaves
<1>14. Frees(k, pc, tgt, pc', tgt')
  BY <1>1, <1>2 DEF Frees
<1>15. InCall(k', pc', tgt', freed', c)
  BY <1>1, <1>2, <1>3, <1>8 DEF InCall, x
<1>16. Executes(k', pc', tgt', freed')
  BY <1>2, <1>8, <1>10, StillExecutes DEF OnTheWay
<1>17. Moves(k, pc, tgt, freed, k', pc', tgt', freed', {c}, {})
  BY <1>1, <1>2, <1>8, <1>9, <1>10, <1>12, <1>13, <1>14, <1>15, <1>16 DEF Moves
<1> QED BY <1>0, <1>17, StepGood DEF IInv

(* rt_thread_resume, its second region *)
LEMMA ResumeInsertGood ==
  ASSUME Hypotheses, IInv, ResumeInsert
  PROVE  IInv'
<1> DEFINE c == k.cur
           x == tgt[c]
           R == Run(k, pc, tgt)
<1>0. Good(k, pc, tgt, freed)
  BY DEF IInv
<1>1. /\ k \in Kernel /\ c \in Thread /\ x \in Thread /\ Idle \in Thread /\ freed \subseteq Thread
      /\ pc \in [Thread -> PC] /\ tgt \in [Thread -> Thread]
      /\ R \in SUBSET Thread /\ Listed(k, R) /\ Idle \in R
      /\ \A t \in Thread : Fate(k, pc, freed, t) /\ InCall(k, pc, tgt, freed, t)
  BY <1>0, GoodFacts DEF Good, Lists
<1>2. /\ pc[c] = "resume_insert" /\ pc' \in [Thread -> PC] /\ pc'[c] = "call_sched"
      /\ \A t \in Thread \ {c} : pc'[t] = pc[t]
      /\ tgt' = tgt /\ freed' = freed
  BY StepFacts DEF ResumeInsert, PC
<1>3. Manages(c, x) /\ k.stat[x] = "SUSPEND" /\ x \notin k.armed /\ x # c
  BY <1>1, <1>2 DEF InCall
<1>4. x \notin R /\ x \notin freed
  BY <1>1, <1>3 DEF Run, Fate
<1>5. Unlinked(k.lists, x)
  BY <1>0, <1>1, <1>3, <1>4, NowhereListed
<1>6. k' = InsertReady(k, x)
  BY DEF ResumeInsert, X
<1>xx. x = tgt[c]
  OBVIOUS
<1> HIDE DEF x
<1>7. /\ k' \in Kernel /\ Listed(k', R \cup {x})
      /\ k'.stat = Put(k.stat, x, "READY")
      /\ k'.prio = k.prio /\ k'.cur = c /\ k'.nest = k.nest /\ k'.armed = k.armed
      /\ \A h \in OffReady, t \in Thread : IsIn(k'.lists[h], t) <=> IsIn(k.lists[h], t)
  <2>1. /\ k \in Kernel /\ R \in SUBSET Thread /\ Listed(k, R)
        /\ x \in Thread /\ x \notin R /\ Unlinked(k.lists, x) /\ k' = InsertReady(k, x)
    BY <1>1, <1>4, <1>5, <1>6
  <2> HIDE DEF R
  <2> QED BY ONLY <2>1, InsertListed
<1>8. k'.stat[x] = "READY" /\ \A t \in Thread \ {x} : k'.stat[t] = k.stat[t]
  BY <1>1, <1>7, KernelFields DEF Put
<1>9. ASSUME NEW t \in Thread \ {c}, tgt[t] = x
      PROVE  pc[t] # "free" /\ (pc[t] \in Minding => pc[t] = "suspend_commit")
  <2>1. InCall(k, pc, tgt, freed, t)
    BY <1>1
  <2>2. pc[t] \in Minding => pc[t] = "suspend_commit"
    BY <1>0, <1>1, <1>3, <1>9, NobodyElseMinds
  <2> QED BY <1>3, <1>9, <2>1, <2>2 DEF InCall
<1>10. x \notin Closing(pc, tgt)
  BY <1>2, <1>9 DEF Closing, Minding
<1>11. Closing(pc', tgt') = Closing(pc, tgt)
  BY <1>1, <1>2, ClosingSame
<1>12. Run(k', pc', tgt') = R \cup {x}
  BY <1>1, <1>8, <1>10, <1>11 DEF Run
<1>13. /\ \A o \in WaitQueue, t \in Thread : ~IsIn(k'.lists[Wait(o)], t)
       /\ \A t \in Thread : IsDefunct(k', t) <=> IsDefunct(k, t)
  BY <1>0, <1>7, OffSame
<1>14. Leaves(k, freed, k', freed', {x})
  BY <1>2, <1>7, <1>8, <1>13 DEF Leaves
<1>15. Frees(k, pc, tgt, pc', tgt')
  BY <1>1, <1>2 DEF Frees
<1>16. InCall(k', pc', tgt', freed', c)
  BY <1>2 DEF InCall
<1>17. Executes(k', pc', tgt', freed')
  <2>1. Executes(k, pc, tgt, freed) /\ k'.stat[c] = k.stat[c]
    BY <1>0, <1>1, <1>3, <1>8 DEF Good
  <2> QED BY <1>2, <1>7, <2>1 DEF Executes
<1>18. Fate(k', pc', freed', x)
  BY <1>1, <1>2, <1>3, <1>4, <1>5, <1>7, <1>8, <1>13, HeadsAreHeads DEF Fate, IsDefunct, Unlinked
<1>19. ASSUME NEW t \in Thread \ {c}, tgt[t] \in {x} PROVE Allows(k', pc, tgt, t)
  BY <1>8, <1>9, <1>19 DEF Allows
<1>20. pc[c] = "exit_sched" => pc'[c] = "exit_sched"
  BY <1>2
<1>21. Moves(k, pc, tgt, freed, k', pc', tgt', freed', {c}, {x})
  BY <1>1, <1>2, <1>7, <1>12, <1>13, <1>14, <1>15, <1>16, <1>17, <1>18, <1>19, <1>20 DEF Moves
<1> QED BY <1>0, <1>21, StepGood DEF IInv

(* rt_thread_suspend, the region behind its test *)
LEMMA SuspendCommitGood ==
  ASSUME Hypotheses, IInv, SuspendCommit
  PROVE  IInv'
<1> DEFINE c == k.cur
           x == tgt[c]
           j == [k EXCEPT !.stat[x] = "SUSPEND"]
           w == RemoveReady(j, x)
           R == Run(k, pc, tgt)
<1>0. Good(k, pc, tgt, freed)
  BY DEF IInv
<1>1. /\ k \in Kernel /\ c \in Thread /\ x \in Thread /\ Idle \in Thread /\ freed \subseteq Thread
      /\ pc \in [Thread -> PC] /\ tgt \in [Thread -> Thread]
      /\ R \in SUBSET Thread /\ Listed(k, R) /\ Idle \in R
      /\ \A t \in Thread : Fate(k, pc, freed, t) /\ InCall(k, pc, tgt, freed, t)
  BY <1>0, GoodFacts DEF Good, Lists
<1>2. /\ pc[c] = "suspend_commit" /\ pc' \in [Thread -> PC] /\ pc'[c] = "call_sched"
      /\ \A t \in Thread \ {c} : pc'[t] = pc[t]
      /\ tgt' = tgt /\ freed' = freed
  BY StepFacts DEF SuspendCommit, PC
<1>3. <<"suspend", c, x>> \in May /\ k.stat[x] \in {"READY", "SUSPEND"}
  <2>1. InCall(k, pc, tgt, freed, c)
    BY <1>1
  <2>2. k.stat[c] # "INIT" /\ k.stat[c] # "CLOSE" /\ k.stat[c] \in Stat
    BY <1>0, <1>1, <1>2, KernelFields DEF Good, Executes
  <2> QED BY <1>2, <2>1, <2>2 DEF InCall, Stat
<1>4. x # Idle
  BY <1>1, <1>3 DEF Hypotheses, Disciplined, Operation
<1>5. x \in R \/ Unlinked(k.lists, x)
  BY <1>0, <1>1, <1>3, NowhereListed
<1>6. k' = TimerStop(w, x) /\ w = RemoveReady(j, x) /\ j = [k EXCEPT !.stat[x] = "SUSPEND"]
  BY DEF SuspendCommit, SuspendTail, X
<1>xx. x = tgt[c]
  OBVIOUS
<1> HIDE DEF w, j, x
<1>7. /\ j \in Kernel /\ j.stat = Put(k.stat, x, "SUSPEND")
      /\ j.prio = k.prio /\ j.lists = k.lists /\ j.group = k.group
      /\ j.cur = k.cur /\ j.nest = k.nest /\ j.armed = k.armed
  BY <1>1, <1>6 DEF Kernel, Stat, Put
<1>8. Listed(j, R) /\ (x \in R \/ Unlinked(j.lists, x))
  BY <1>1, <1>5, <1>7, ListedSame
<1>9. /\ w \in Kernel /\ Listed(w, R \ {x}) /\ Unlinked(w.lists, x)
      /\ w.stat = j.stat
      /\ w.prio = j.prio /\ w.cur = j.cur /\ w.nest = j.nest /\ w.armed = j.armed
      /\ \A h \in OffReady, t \in Thread : IsIn(w.lists[h], t) <=> IsIn(j.lists[h], t)
  <2>1. /\ j \in Kernel /\ R \in SUBSET Thread /\ Listed(j, R)
        /\ x \in Thread /\ (x \in R \/ Unlinked(j.lists, x)) /\ w = RemoveReady(j, x)
    BY <1>1, <1>6, <1>7, <1>8
  <2> HIDE DEF R
  <2> QED BY ONLY <2>1, RemoveListed
<1>10. /\ k' \in Kernel
       /\ k'.stat = w.stat /\ k'.prio = w.prio /\ k'.lists = w.lists /\ k'.group = w.group
       /\ k'.cur = w.cur /\ k'.nest = w.nest /\ k'.armed = w.armed \ {x}
  BY <1>6, <1>9 DEF TimerStop, Kernel
<1>11. R \ {x} \in SUBSET Thread
  BY <1>1
<1>12. Listed(k', R \ {x})
  BY <1>9, <1>10, <1>11, ListedSame
<1>13. k'.stat[x] = "SUSPEND" /\ \A t \in Thread \ {x} : k'.stat[t] = k.stat[t]
  BY <1>1, <1>7, <1>9, <1>10, KernelFields DEF Put
<1>14. Closing(pc', tgt') = Closing(pc, tgt)
  BY <1>1, <1>2, ClosingSame
<1>15. Run(k', pc', tgt') = R \ {x}
  BY <1>1, <1>13, <1>14 DEF Run
<1>16. \A h \in OffReady, t \in Thread : IsIn(k'.lists[h], t) <=> IsIn(k.lists[h], t)
  BY <1>7, <1>9, <1>10
<1>17. /\ \A o \in WaitQueue, t \in Thread : ~IsIn(k'.lists[Wait(o)], t)
       /\ \A t \in Thread : IsDefunct(k', t) <=> IsDefunct(k, t)
  BY <1>0, <1>16, OffSame
<1>18. Leaves(k, freed, k', freed', {x})
  BY <1>2, <1>7, <1>9, <1>10, <1>13, <1>17 DEF Leaves
<1>19. Frees(k, pc, tgt, pc', tgt')
  BY <1>1, <1>2 DEF Frees
<1>20. InCall(k', pc', tgt', freed', c)
  BY <1>2 DEF InCall
<1>21. Executes(k', pc', tgt', freed')
  <2>1. Executes(k, pc, tgt, freed)
    BY <1>0 DEF Good
  <2>2. k'.cur = c /\ (k'.stat[c] = k.stat[c] \/ k'.stat[c] = "SUSPEND")
    BY <1>1, <1>7, <1>9, <1>10, <1>13
  <2> QED BY <1>2, <2>1, <2>2 DEF Executes
<1>22. Fate(k', pc', freed', x)
  BY <1>1, <1>2, <1>3, <1>10, <1>13, <1>17 DEF Fate
<1>23. ASSUME NEW t \in Thread \ {c}, tgt[t] \in {x} PROVE Allows(k', pc, tgt, t)
  <2>1. InCall(k, pc, tgt, freed, t)
    BY <1>1
  <2>2. pc[t] # "free"
    BY <1>3, <1>23, <2>1 DEF InCall
  <2>3. pc[t] \in Minding => pc[t] = "suspend_commit"
    <3>1. CASE x # c
      <4>1. Manages(c, x)
        BY <1>3, <3>1 DEF Manages
      <4> QED BY <1>0, <1>1, <1>23, <4>1, NobodyElseMinds
    <3>2. CASE x = c
      <4>1. t # k.cur /\ tgt[t] = k.cur /\ pc[k.cur] # "exit_sched"
        BY <1>2, <1>23, <3>2
      <4> QED BY <1>0, <4>1, NobodyMindsCurrent
    <3> QED BY <3>1, <3>2
  <2> QED BY <1>13, <1>23, <2>2, <2>3 DEF Allows
<1>24. pc[c] = "exit_sched" => pc'[c] = "exit_sched"
  BY <1>2
<1>25. Idle \in R \ {x} /\ k'.cur = c
  BY <1>1, <1>4, <1>7, <1>9, <1>10
<1>26. Moves(k, pc, tgt, freed, k', pc', tgt', freed', {c}, {x})
  BY <1>1, <1>2, <1>10, <1>12, <1>15, <1>17, <1>18, <1>19, <1>20, <1>21, <1>22, <1>23, <1>24, <1>25
     DEF Moves
<1> QED BY <1>0, <1>26, StepGood DEF IInv

(* rt_thread_delete, its first region *)
LEMMA DeleteRemoveGood ==
  ASSUME Hypotheses, IInv, NEW x \in Thread, DeleteRemove(x)
  PROVE  IInv'
<1> DEFINE c == k.cur
           R == Run(k, pc, tgt)
<1>0. Good(k, pc, tgt, freed)
  BY DEF IInv
<1>1. /\ k \in Kernel /\ c \in Thread /\ Idle \in Thread /\ freed \subseteq Thread
      /\ pc \in [Thread -> PC] /\ tgt \in [Thread -> Thread]
      /\ R \in SUBSET Thread /\ Listed(k, R) /\ Idle \in R
  BY <1>0, GoodFacts DEF Good, Lists
<1>2. /\ <<"delete", c, x>> \in May /\ pc[c] = "app"
      /\ pc' \in [Thread -> PC] /\ pc'[c] = "delete_timer"
      /\ tgt' \in [Thread -> Thread] /\ tgt'[c] = x
      /\ \A t \in Thread \ {c} : pc'[t] = pc[t] /\ tgt'[t] = tgt[t]
      /\ freed' = freed
  BY CallFacts DEF DeleteRemove, PC
<1>3. x # c /\ x \notin freed /\ k.stat[x] # "CLOSE" /\ k' = RemoveReady(k, x)
  BY DEF DeleteRemove
<1>4. x # Idle
  BY <1>1, <1>2 DEF Hypotheses, Disciplined, Operation
<1>5. x \in R \/ Unlinked(k.lists, x)
  BY <1>0, <1>3, NowhereListed
<1>6. /\ k' \in Kernel /\ Listed(k', R \ {x})
      /\ k'.stat = k.stat
      /\ k'.prio = k.prio /\ k'.cur = k.cur /\ k'.nest = k.nest /\ k'.armed = k.armed
      /\ \A h \in OffReady, t \in Thread : IsIn(k'.lists[h], t) <=> IsIn(k.lists[h], t)
  <2>1. /\ k \in Kernel /\ R \in SUBSET Thread /\ Listed(k, R)
        /\ x \in Thread /\ (x \in R \/ Unlinked(k.lists, x)) /\ k' = RemoveReady(k, x)
    BY <1>1, <1>3, <1>5
  <2> HIDE DEF R
  <2> QED BY ONLY <2>1, RemoveListed
<1>7. Closing(pc', tgt') = Closing(pc, tgt) \cup {x}
  <2>1. ASSUME NEW y, y \in Closing(pc', tgt') PROVE y \in Closing(pc, tgt) \cup {x}
    <3>1. PICK t \in Thread : pc'[t] \in {"delete_timer", "delete_close"} /\ y = tgt'[t]
      BY <2>1 DEF Closing
    <3> QED BY <1>2, <3>1 DEF Closing
  <2>2. ASSUME NEW y, y \in Closing(pc, tgt) PROVE y \in Closing(pc', tgt')
    <3>1. PICK t \in Thread : pc[t] \in {"delete_timer", "delete_close"} /\ y = tgt[t]
      BY <2>2 DEF Closing
    <3>2. t # c
      BY <1>2, <3>1
    <3> QED BY <1>2, <3>1, <3>2 DEF Closing
  <2>3. x \in Closing(pc', tgt')
    BY <1>1, <1>2 DEF Closing
  <2> QED BY <2>1, <2>2, <2>3
<1>8. Run(k', pc', tgt') = R \ {x}
  BY <1>6, <1>7 DEF Run
<1>9. /\ \A o \in WaitQueue, t \in Thread : ~IsIn(k'.lists[Wait(o)], t)
      /\ \A t \in Thread : IsDefunct(k', t) <=> IsDefunct(k, t)
  BY <1>0, <1>6, OffSame
<1>10. Leaves(k, freed, k', freed', {})
  BY <1>2, <1>6, <1>9 DEF Leaves
<1>11. Frees(k, pc, tgt, pc', tgt')
  BY <1>1, <1>2 DEF Frees
<1>12. InCall(k', pc', tgt', freed', c)
  BY <1>2, <1>3, <1>6 DEF InCall
<1>13. Executes(k', pc', tgt', freed')
  BY <1>2, <1>3, <1>6, <1>8, StillExecutes DEF OnTheWay
<1>14. Idle \in R \ {x}
  BY <1>1, <1>4
<1>15. pc[c] = "exit_sched" => pc'[c] = "exit_sched"
  BY <1>2
<1>16. Moves(k, pc, tgt, freed, k', pc', tgt', freed', {c}, {})
  BY <1>1, <1>2, <1>6, <1>8, <1>9, <1>10, <1>11, <1>12, <1>13, <1>14, <1>15 DEF Moves
<1> QED BY <1>0, <1>16, StepGood DEF IInv

(* rt_thread_delete stops the timer. *)
LEMMA DeleteTimerGood ==
  ASSUME Hypotheses, IInv, DeleteTimer
  PROVE  IInv'
<1> DEFINE c == k.cur
           x == tgt[c]
           R == Run(k, pc, tgt)
<1>0. Good(k, pc, tgt, freed)
  BY DEF IInv
<1>1. /\ k \in Kernel /\ c \in Thread /\ x \in Thread /\ Idle \in Thread /\ freed \subseteq Thread
      /\ pc \in [Thread -> PC] /\ tgt \in [Thread -> Thread]
      /\ R \in SUBSET Thread /\ Listed(k, R) /\ Idle \in R
      /\ InCall(k, pc, tgt, freed, c)
  BY <1>0, GoodFacts DEF Good, Lists
<1>2. /\ pc[c] = "delete_timer" /\ pc' \in [Thread -> PC] /\ pc'[c] = "delete_close"
      /\ \A t \in Thread \ {c} : pc'[t] = pc[t]
      /\ tgt' = tgt /\ freed' = freed
  BY StepFacts DEF DeleteTimer, PC
<1>3. k' = TimerStop(k, x)
  BY DEF DeleteTimer, X
<1>4. /\ k' \in Kernel
      /\ k'.stat = k.stat /\ k'.prio = k.prio /\ k'.lists = k.lists /\ k'.group = k.group
      /\ k'.cur = c /\ k'.nest = k.nest /\ k'.armed = k.armed \ {x}
  BY <1>1, <1>3 DEF TimerStop, Kernel
<1>5. Closing(pc', tgt') = Closing(pc, tgt)
  <2>1. \A t \in Thread : /\ tgt'[t] = tgt[t]
                          /\ pc'[t] \in {"delete_timer", "delete_close"}
                               <=> pc[t] \in {"delete_timer", "delete_close"}
    BY <1>2
  <2> QED BY <2>1 DEF Closing
<1>6. Run(k', pc', tgt') = R
  BY <1>4, <1>5 DEF Run
<1>7. Listed(k', R)
  BY <1>1, <1>4, ListedSame
<1>8. \A o \in WaitQueue, t \in Thread : ~IsIn(k'.lists[Wait(o)], t)
  BY <1>0, <1>4, GoodFacts
<1>9. Leaves(k, freed, k', freed', {})
  BY <1>2, <1>4 DEF Leaves, IsDefunct
<1>10. Frees(k, pc, tgt, pc', tgt')
  BY <1>1, <1>2 DEF Frees
<1>11. InCall(k', pc', tgt', freed', c)
  BY <1>1, <1>2, <1>4 DEF InCall
<1>12. Executes(k', pc', tgt', freed')
  BY <1>2, <1>4, <1>6, StillExecutes DEF OnTheWay
<1>13. pc[c] = "exit_sched" => pc'[c] = "exit_sched"
  BY <1>2
<1>14. Moves(k, pc, tgt, freed, k', pc', tgt', freed', {c}, {})
  BY <1>1, <1>2, <1>4, <1>6, <1>7, <1>8, <1>9, <1>10, <1>11, <1>12, <1>13 DEF Moves
<1> QED BY <1>0, <1>14, StepGood DEF IInv

(* rt_thread_delete sets the state. *)
LEMMA DeleteCloseGood ==
  ASSUME Hypotheses, IInv, DeleteClose
  PROVE  IInv'
<1> DEFINE c == k.cur
           x == tgt[c]
           b == IF x \in Static THEN "app" ELSE "delete_list"
           R == Run(k, pc, tgt)
<1>0. Good(k, pc, tgt, freed)
  BY DEF IInv
<1>1. /\ k \in Kernel /\ c \in Thread /\ x \in Thread /\ Idle \in Thread /\ freed \subseteq Thread
      /\ pc \in [Thread -> PC] /\ tgt \in [Thread -> Thread]
      /\ R \in SUBSET Thread /\ Listed(k, R) /\ Idle \in R
      /\ \A t \in Thread : Fate(k, pc, freed, t) /\ InCall(k, pc, tgt, freed, t)
  BY <1>0, GoodFacts DEF Good, Lists
<1>2. /\ pc[c] = "delete_close" /\ pc' \in [Thread -> PC] /\ pc'[c] = b
      /\ \A t \in Thread \ {c} : pc'[t] = pc[t]
      /\ tgt' = tgt /\ freed' = freed
  <2>1. b \in PC
    BY DEF PC
  <2> QED BY <2>1, StepFacts DEF DeleteClose, X
<1>3. c # x /\ <<"delete", c, x>> \in May /\ k.stat[x] # "CLOSE" /\ x \notin freed
  BY <1>1, <1>2 DEF InCall
<1>4. x \notin k.armed /\ ~IsDefunct(k, x)
  <2>1. <<"sleep", x, x>> \notin May
    BY <1>1, <1>3 DEF Hypotheses, Disciplined
  <2> QED BY <1>1, <1>3, <2>1 DEF Fate
<1>5. /\ k' \in Kernel /\ k'.stat = Put(k.stat, x, "CLOSE")
      /\ k'.prio = k.prio /\ k'.lists = k.lists /\ k'.group = k.group
      /\ k'.cur = c /\ k'.nest = k.nest /\ k'.armed = k.armed
  BY <1>1 DEF DeleteClose, X, Kernel, Stat, Put
<1>6. k'.stat[x] = "CLOSE" /\ \A t \in Thread \ {x} : k'.stat[t] = k.stat[t]
  BY <1>1, <1>5, KernelFields DEF Put
<1>7. Run(k', pc', tgt') = R
  <2>1. x \notin R /\ x \notin Run(k', pc', tgt')
    BY <1>1, <1>2, <1>6 DEF Run, Closing
  <2>2. \A t \in Thread \ {x} : t \in Closing(pc', tgt') <=> t \in Closing(pc, tgt)
    BY <1>1, <1>2 DEF Closing
  <2>3. \A t \in Thread \ {x} : t \in Run(k', pc', tgt') <=> t \in R
    BY <1>6, <2>2 DEF Run
  <2> QED BY <2>1, <2>3 DEF Run
<1>8. Listed(k', R)
  BY <1>1, <1>5, ListedSame
<1>9. \A o \in WaitQueue, t \in Thread : ~IsIn(k'.lists[Wait(o)], t)
  BY <1>0, <1>5, GoodFacts
<1>10. Leaves(k, freed, k', freed', {x})
  BY <1>2, <1>5, <1>6 DEF Leaves, IsDefunct
<1>11. Frees(k, pc, tgt, pc', tgt')
  BY <1>1, <1>2 DEF Frees
<1>12. pc[Idle] = "free" => x # tgt[Idle]
  BY <1>1, <1>3 DEF InCall
<1>13. InCall(k', pc', tgt', freed', c)
  <2>1. pc'[Idle] = "free" => x # tgt'[Idle]
    BY <1>1, <1>2, <1>12
  <2> QED BY <1>2, <1>3, <1>4, <1>5, <1>6, <2>1 DEF InCall, IsDefunct
<1>14. Executes(k', pc', tgt', freed')
  <2>1. Executes(k, pc, tgt, freed) /\ k'.stat[c] = k.stat[c]
    BY <1>0, <1>1, <1>3, <1>6 DEF Good
  <2> QED BY <1>1, <1>2, <1>5, <1>7, <2>1, ExecutesKept DEF OnTheWay
<1>15. Fate(k', pc', freed', x)
  BY <1>1, <1>2, <1>3, <1>4, <1>5, <1>6 DEF Fate, IsDefunct
<1>16. ASSUME NEW t \in Thread \ {c}, tgt[t] \in {x} PROVE Allows(k', pc, tgt, t)
  <2>1. InCall(k, pc, tgt, freed, t)
    BY <1>1
  <2>2. pc[t] # "free"
    BY <1>3, <1>16, <2>1 DEF InCall
  <2>3. Manages(c, x)
    BY <1>3 DEF Manages
  <2>4. pc[t] \in Minding => pc[t] = "suspend_commit" /\ t = x
    BY <1>0, <1>1, <1>16, <2>3, NobodyElseMinds
  <2> QED BY <1>16, <2>2, <2>4 DEF Allows
<1>17. pc[c] = "exit_sched" => pc'[c] = "exit_sched"
  BY <1>2
<1>18. Moves(k, pc, tgt, freed, k', pc', tgt', freed', {c}, {x})
  BY <1>1, <1>2, <1>5, <1>7, <1>8, <1>9, <1>10, <1>11, <1>13, <1>14, <1>15, <1>16, <1>17 DEF Moves
<1> QED BY <1>0, <1>18, StepGood DEF IInv

(* rt_thread_delete links the thread in the defunct list. *)
LEMMA DeleteListGood ==
  ASSUME Hypotheses, IInv, DeleteList
  PROVE  IInv'
<1> DEFINE c == k.cur
           x == tgt[c]
           R == Run(k, pc, tgt)
<1>0. Good(k, pc, tgt, freed)
  BY DEF IInv
<1>1. /\ k \in Kernel /\ c \in Thread /\ x \in Thread /\ Idle \in Thread /\ freed \subseteq Thread
      /\ pc \in [Thread -> PC] /\ tgt \in [Thread -> Thread]
      /\ R \in SUBSET Thread /\ Listed(k, R) /\ Idle \in R
      /\ \A t \in Thread : Fate(k, pc, freed, t) /\ InCall(k, pc, tgt, freed, t)
      /\ \A t \in Thread : t \notin R /\ ~IsDefunct(k, t) => Unlinked(k.lists, t)
  BY <1>0, GoodFacts DEF Good, Lists
<1>2. /\ pc[c] = "delete_list" /\ pc' \in [Thread -> PC] /\ pc'[c] = "app"
      /\ \A t \in Thread \ {c} : pc'[t] = pc[t]
      /\ tgt' = tgt /\ freed' = freed
  BY StepFacts DEF DeleteList, PC
<1>3. /\ c # x /\ <<"delete", c, x>> \in May /\ k.stat[x] = "CLOSE" /\ x \notin freed
      /\ ~IsDefunct(k, x) /\ (pc[Idle] = "free" => x # tgt[Idle])
  BY <1>1, <1>2 DEF InCall
<1>4. Unlinked(k.lists, x)
  BY <1>1, <1>3 DEF Run
<1>5. k' = InsertFirst(k, Defunct, x)
  BY DEF DeleteList, X
<1>6. /\ k' \in Kernel /\ Listed(k', R)
      /\ k'.stat = k.stat
      /\ k'.prio = k.prio /\ k'.cur = k.cur /\ k'.nest = k.nest /\ k'.armed = k.armed
      /\ \A h \in OffReady, t \in Thread :
           IsIn(k'.lists[h], t) <=> IsIn(k.lists[h], t) \/ (h = Defunct /\ t = x)
  <2>1. /\ k \in Kernel /\ R \in SUBSET Thread /\ Listed(k, R)
        /\ x \in Thread /\ Unlinked(k.lists, x) /\ k' = InsertFirst(k, Defunct, x)
    BY <1>1, <1>4, <1>5
  <2> HIDE DEF R, x
  <2> QED BY ONLY <2>1, DefunctListed
<1>7. Run(k', pc', tgt') = R
  BY <1>1, <1>2, <1>6, RunSame
<1>8. /\ \A o \in WaitQueue, t \in Thread : ~IsIn(k'.lists[Wait(o)], t)
      /\ \A t \in Thread \ {x} : IsDefunct(k', t) <=> IsDefunct(k, t)
  <2>1. \A o \in WaitQueue, t \in Thread : ~IsIn(k.lists[Wait(o)], t)
    BY <1>0, GoodFacts
  <2>2. \A o \in WaitQueue : Wait(o) # Defunct
    BY DEF Wait, Defunct
  <2> QED BY <1>6, <2>1, <2>2, OffReadyHeads DEF IsDefunct
<1>9. Leaves(k, freed, k', freed', {x})
  BY <1>2, <1>6, <1>8 DEF Leaves
<1>10. Frees(k, pc, tgt, pc', tgt')
  BY <1>1, <1>2 DEF Frees
<1>11. InCall(k', pc', tgt', freed', c)
  BY <1>2 DEF InCall
<1>12. Executes(k', pc', tgt', freed')
  BY <1>2, <1>6, <1>7, StillExecutes DEF OnTheWay
<1>13. Fate(k', pc', freed', x)
  BY <1>1, <1>2, <1>3, <1>6 DEF Fate
<1>14. ASSUME NEW t \in Thread \ {c}, tgt[t] \in {x} PROVE Allows(k', pc, tgt, t)
  <2>1. InCall(k, pc, tgt, freed, t)
    BY <1>1
  <2>2. pc[t] # "free"
    BY <1>3, <1>14, <2>1 DEF InCall
  <2>3. Manages(c, x)
    BY <1>3 DEF Manages
  <2>4. pc[t] \in Minding => pc[t] = "suspend_commit" /\ t = x
    BY <1>0, <1>1, <1>14, <2>3, NobodyElseMinds
  <2> QED BY <1>14, <2>2, <2>4 DEF Allows
<1>15. pc[c] = "exit_sched" => pc'[c] = "exit_sched"
  BY <1>2
<1>16. Moves(k, pc, tgt, freed, k', pc', tgt', freed', {c}, {x})
  BY <1>1, <1>2, <1>6, <1>7, <1>8, <1>9, <1>10, <1>11, <1>12, <1>13, <1>14, <1>15 DEF Moves
<1> QED BY <1>0, <1>16, StepGood DEF IInv

(* RT_THREAD_CTRL_CHANGE_PRIORITY *)
LEMMA SetPriorityGood ==
  ASSUME Hypotheses, IInv, NEW x \in Thread, NEW p \in Prio, SetPriority(x, p)
  PROVE  IInv'
<1> DEFINE c == k.cur
           R == Run(k, pc, tgt)
<1>0. Good(k, pc, tgt, freed)
  BY DEF IInv
<1>1. /\ k \in Kernel /\ c \in Thread /\ Idle \in Thread /\ freed \subseteq Thread
      /\ pc \in [Thread -> PC] /\ tgt \in [Thread -> Thread]
      /\ R \in SUBSET Thread /\ Listed(k, R) /\ Idle \in R
      /\ \A t \in Thread : Fate(k, pc, freed, t) /\ InCall(k, pc, tgt, freed, t)
  BY <1>0, GoodFacts DEF Good, Lists
<1>2. /\ <<"priority", c, x>> \in May /\ pc[c] = "app"
      /\ pc' \in [Thread -> PC] /\ pc'[c] = "call_sched"
      /\ tgt' \in [Thread -> Thread] /\ tgt'[c] = x
      /\ \A t \in Thread \ {c} : pc'[t] = pc[t] /\ tgt'[t] = tgt[t]
      /\ freed' = freed
  BY CallFacts DEF SetPriority, PC
<1>3. k' = ChangePriority(k, x, p)
  BY DEF SetPriority
<1>4. x \notin Closing(pc, tgt)
  <2> SUFFICES ASSUME NEW t \in Thread, pc[t] \in {"delete_timer", "delete_close"}, tgt[t] = x
               PROVE  FALSE
    BY DEF Closing
  <2>1. InCall(k, pc, tgt, freed, t)
    BY <1>1
  <2>2. x # c
    BY <2>1 DEF InCall
  <2>3. Manages(c, x) /\ t # c /\ pc[t] \in Minding
    BY <1>2, <2>2 DEF Manages, Minding
  <2> QED BY <1>0, <1>1, <2>3, NobodyElseMinds
<1>5. k.stat[x] = "READY" <=> x \in R
  BY <1>4 DEF Run
<1>6. /\ k' \in Kernel /\ Listed(k', R)
      /\ k'.stat = k.stat
      /\ k'.cur = k.cur /\ k'.nest = k.nest /\ k'.armed = k.armed
      /\ \A h \in OffReady, t \in Thread : IsIn(k'.lists[h], t) <=> IsIn(k.lists[h], t)
  <2>1. /\ k \in Kernel /\ R \in SUBSET Thread /\ Listed(k, R)
        /\ x \in Thread /\ (k.stat[x] = "READY" <=> x \in R) /\ p \in Prio
        /\ k' = ChangePriority(k, x, p)
    BY <1>1, <1>3, <1>5
  <2> HIDE DEF R
  <2> QED BY ONLY <2>1, PriorityListed
<1>7. Run(k', pc', tgt') = R
  BY <1>1, <1>2, <1>6, RunSame
<1>8. /\ \A o \in WaitQueue, t \in Thread : ~IsIn(k'.lists[Wait(o)], t)
      /\ \A t \in Thread : IsDefunct(k', t) <=> IsDefunct(k, t)
  BY <1>0, <1>6, OffSame
<1>9. Leaves(k, freed, k', freed', {})
  BY <1>2, <1>6, <1>8 DEF Leaves
<1>10. Frees(k, pc, tgt, pc', tgt')
  BY <1>1, <1>2 DEF Frees
<1>11. InCall(k', pc', tgt', freed', c)
  BY <1>2 DEF InCall
<1>12. Executes(k', pc', tgt', freed')
  BY <1>0, <1>2, <1>6 DEF Good, Executes
<1>13. pc[c] = "exit_sched" => pc'[c] = "exit_sched"
  BY <1>2
<1>14. Moves(k, pc, tgt, freed, k', pc', tgt', freed', {c}, {})
  BY <1>1, <1>2, <1>6, <1>7, <1>8, <1>9, <1>10, <1>11, <1>12, <1>13 DEF Moves
<1> QED BY <1>0, <1>14, StepGood DEF IInv

(* rt_schedule_remove_thread of a thread whose state becomes s, before or  *)
(* after it                                                                *)
LeavesReady(u, t, s, w) ==
  \/ w = RemoveReady([u EXCEPT !.stat[t] = s], t)
  \/ w = [RemoveReady(u, t) EXCEPT !.stat[t] = s]

LEMMA LeaveReady ==
  ASSUME NEW u \in Kernel, NEW R \in SUBSET Thread, Listed(u, R),
         NEW t \in R, NEW s \in Stat, NEW w,
         LeavesReady(u, t, s, w)
  PROVE  /\ w \in Kernel /\ Listed(w, R \ {t}) /\ Unlinked(w.lists, t)
         /\ w.stat = Put(u.stat, t, s)
         /\ w.prio = u.prio /\ w.cur = u.cur /\ w.nest = u.nest /\ w.armed = u.armed
         /\ \A h \in OffReady, x \in Thread : IsIn(w.lists[h], x) <=> IsIn(u.lists[h], x)
<1>1. t \in Thread /\ Put(u.stat, t, s) \in [Thread -> Stat] /\ R \ {t} \in SUBSET Thread
  BY KernelFields DEF Put
<1>2. CASE w = RemoveReady([u EXCEPT !.stat[t] = s], t)
  <2> DEFINE j == [u EXCEPT !.stat[t] = s]
  <2>1. w = RemoveReady(j, t)
    BY <1>2
  <2>2. /\ j \in Kernel /\ j.stat = Put(u.stat, t, s)
        /\ j.prio = u.prio /\ j.lists = u.lists /\ j.group = u.group
        /\ j.cur = u.cur /\ j.nest = u.nest /\ j.armed = u.armed
    BY <1>1 DEF Kernel, Put
  <2> HIDE DEF j
  <2>3. Listed(j, R)
    BY <2>2, ListedSame
  <2>4. /\ w \in Kernel /\ Listed(w, R \ {t}) /\ Unlinked(w.lists, t)
        /\ w.stat = j.stat
        /\ w.prio = j.prio /\ w.cur = j.cur /\ w.nest = j.nest /\ w.armed = j.armed
        /\ \A h \in OffReady, x \in Thread : IsIn(w.lists[h], x) <=> IsIn(j.lists[h], x)
    <3>1. t \in Thread /\ Listed(j, R) /\ (t \in R \/ Unlinked(j.lists, t)) /\ j \in Kernel
          /\ w = RemoveReady(j, t) /\ R \in SUBSET Thread
      BY <1>1, <2>1, <2>2, <2>3
    <3> QED BY ONLY <3>1, RemoveListed
  <2> QED BY <2>2, <2>4
<1>3. CASE w = [RemoveReady(u, t) EXCEPT !.stat[t] = s]
  <2> DEFINE j == RemoveReady(u, t)
  <2>1. w = [j EXCEPT !.stat[t] = s] /\ j = RemoveReady(u, t)
    BY <1>3
  <2> HIDE DEF j
  <2>2. /\ j \in Kernel /\ Listed(j, R \ {t}) /\ Unlinked(j.lists, t)
        /\ j.stat = u.stat
        /\ j.prio = u.prio /\ j.cur = u.cur /\ j.nest = u.nest /\ j.armed = u.armed
        /\ \A h \in OffReady, x \in Thread : IsIn(j.lists[h], x) <=> IsIn(u.lists[h], x)
    <3>1. t \in Thread /\ Listed(u, R) /\ (t \in R \/ Unlinked(u.lists, t)) /\ u \in Kernel
          /\ j = RemoveReady(u, t) /\ R \in SUBSET Thread
      BY <1>1, <2>1
    <3> QED BY ONLY <3>1, RemoveListed
  <2>3. /\ w \in Kernel /\ w.stat = Put(u.stat, t, s)
        /\ w.prio = j.prio /\ w.lists = j.lists /\ w.group = j.group
        /\ w.cur = j.cur /\ w.nest = j.nest /\ w.armed = j.armed
    BY <1>1, <2>1, <2>2 DEF Kernel, Put
  <2>4. Listed(w, R \ {t})
    BY <1>1, <2>2, <2>3, ListedSame
  <2> QED BY <2>2, <2>3, <2>4
<1> QED BY <1>2, <1>3 DEF LeavesReady

(* rt_thread_sleep *)
LEMMA SleepGood ==
  ASSUME Hypotheses, IInv, Sleep
  PROVE  IInv'
<1> DEFINE c == k.cur
           w == RemoveReady([k EXCEPT !.stat[c] = "SUSPEND"], c)
           R == Run(k, pc, tgt)
<1>0. Good(k, pc, tgt, freed)
  BY DEF IInv
<1>1. /\ k \in Kernel /\ c \in Thread /\ Idle \in Thread /\ freed \subseteq Thread
      /\ pc \in [Thread -> PC] /\ tgt \in [Thread -> Thread]
      /\ R \in SUBSET Thread /\ Listed(k, R) /\ Idle \in R
      /\ c \notin Closing(pc, tgt)
      /\ \A t \in Thread : Fate(k, pc, freed, t)
  BY <1>0, GoodFacts DEF Good, Lists
<1>2. /\ <<"sleep", c, c>> \in May /\ pc[c] = "app"
      /\ pc' \in [Thread -> PC] /\ pc'[c] = "sleep_sched"
      /\ tgt' \in [Thread -> Thread] /\ tgt'[c] = c
      /\ \A t \in Thread \ {c} : pc'[t] = pc[t] /\ tgt'[t] = tgt[t]
      /\ freed' = freed
  BY <1>1, CallFacts DEF Sleep, PC
<1>3. c \in R /\ k.stat[c] = "READY" /\ c \notin freed
  BY <1>0, <1>2 DEF Sleep, Good, Executes, OnTheWay, Run
<1>4. c # Idle
  BY <1>1, <1>2 DEF Hypotheses, Disciplined, Operation
<1>5. k' = TimerStart(TimerStop(w, c), c)
  BY <1>3 DEF Sleep, Suspend
<1>6. /\ w \in Kernel /\ Listed(w, R \ {c}) /\ Unlinked(w.lists, c)
      /\ w.stat = Put(k.stat, c, "SUSPEND")
      /\ w.prio = k.prio /\ w.cur = k.cur /\ w.nest = k.nest /\ w.armed = k.armed
      /\ \A h \in OffReady, x \in Thread : IsIn(w.lists[h], x) <=> IsIn(k.lists[h], x)
  <2>1. "SUSPEND" \in Stat
    BY DEF Stat
  <2>2. /\ k \in Kernel /\ R \in SUBSET Thread /\ Listed(k, R) /\ c \in R
        /\ LeavesReady(k, c, "SUSPEND", w)
    BY <1>1, <1>3 DEF LeavesReady
  <2> HIDE DEF R, c, w
  <2>3. /\ w \in Kernel /\ Listed(w, R \ {c}) /\ Unlinked(w.lists, c)
        /\ w.stat = Put(k.stat, c, "SUSPEND")
        /\ w.prio = k.prio /\ w.cur = k.cur /\ w.nest = k.nest /\ w.armed = k.armed
        /\ \A h \in OffReady, x \in Thread : IsIn(w.lists[h], x) <=> IsIn(k.lists[h], x)
    BY ONLY <2>1, <2>2, LeaveReady
  <2> QED BY <2>3
<1> HIDE DEF w
<1>7. /\ k' \in Kernel
      /\ k'.stat = w.stat /\ k'.prio = w.prio /\ k'.lists = w.lists /\ k'.group = w.group
      /\ k'.cur = w.cur /\ k'.nest = w.nest /\ k'.armed \subseteq w.armed \cup {c}
  BY <1>1, <1>5, <1>6 DEF TimerStart, TimerStop, Kernel
<1>8. R \ {c} \in SUBSET Thread
  BY <1>1
<1>9. Listed(k', R \ {c})
  BY <1>6, <1>7, <1>8, ListedSame
<1>10. k'.stat[c] = "SUSPEND" /\ \A t \in Thread \ {c} : k'.stat[t] = k.stat[t]
  BY <1>1, <1>6, <1>7, KernelFields DEF Put
<1>11. Closing(pc', tgt') = Closing(pc, tgt)
  BY <1>1, <1>2, ClosingSame
<1>12. Run(k', pc', tgt') = R \ {c}
  BY <1>1, <1>10, <1>11 DEF Run
<1>13. \A h \in OffReady, t \in Thread : IsIn(k'.lists[h], t) <=> IsIn(k.lists[h], t)
  BY <1>6, <1>7
<1>14. /\ \A o \in WaitQueue, t \in Thread : ~IsIn(k'.lists[Wait(o)], t)
       /\ \A t \in Thread : IsDefunct(k', t) <=> IsDefunct(k, t)
  BY <1>0, <1>13, OffSame
<1>15. Leaves(k, freed, k', freed', {c})
  BY <1>2, <1>6, <1>7, <1>10, <1>14 DEF Leaves
<1>16. Frees(k, pc, tgt, pc', tgt')
  BY <1>1, <1>2 DEF Frees
<1>17. InCall(k', pc', tgt', freed', c)
  BY <1>2 DEF InCall
<1>18. Executes(k', pc', tgt', freed')
  BY <1>2, <1>3, <1>6, <1>7, <1>10 DEF Executes
<1>19. Fate(k', pc', freed', c)
  BY <1>1, <1>2, <1>3, <1>10, <1>14 DEF Fate
<1>20. ASSUME NEW t \in Thread \ {c}, tgt[t] \in {c} PROVE Allows(k', pc, tgt, t)
  <2>1. t # k.cur /\ tgt[t] = k.cur /\ pc[k.cur] # "exit_sched"
    BY <1>2, <1>20
  <2>2. pc[t] # "free" /\ (pc[t] \in Minding => pc[t] = "suspend_commit")
    BY <1>0, <2>1, NobodyMindsCurrent
  <2> QED BY <1>10, <1>20, <2>2 DEF Allows
<1>21. Idle \in R \ {c} /\ k'.cur = k.cur
  BY <1>1, <1>4, <1>6, <1>7
<1>22. Moves(k, pc, tgt, freed, k', pc', tgt', freed', {c}, {c})
  BY <1>1, <1>2, <1>7, <1>9, <1>12, <1>14, <1>15, <1>16, <1>17, <1>18, <1>19, <1>20, <1>21 DEF Moves
<1> QED BY <1>0, <1>22, StepGood DEF IInv

(* rt_thread_exit *)
LEMMA ClosedListed ==
  ASSUME NEW u \in Kernel, NEW R \in SUBSET Thread, Listed(u, R),
         NEW t \in R, NEW v, v = Closed(u, t)
  PROVE  /\ v \in Kernel /\ Listed(v, R \ {t})
         /\ v.stat = Put(u.stat, t, "CLOSE")
         /\ v.cur = u.cur /\ v.nest = u.nest /\ v.armed = u.armed \ {t}
         /\ \A h \in OffReady, x \in Thread :
              IsIn(v.lists[h], x)
                <=> IsIn(u.lists[h], x) \/ (h = Defunct /\ x = t /\ t \notin Static)
<1> DEFINE w == [RemoveReady(u, t) EXCEPT !.stat[t] = "CLOSE"]
           y == TimerStop(w, t)
<1>1. "CLOSE" \in Stat /\ t \in Thread /\ R \ {t} \in SUBSET Thread
  BY DEF Stat
<1>2. /\ LeavesReady(u, t, "CLOSE", w) /\ y = TimerStop(w, t)
      /\ v = IF t \in Static THEN y ELSE InsertFirst(y, Defunct, t)
  BY DEF LeavesReady, Closed
<1> HIDE DEF w, y
<1>3. /\ w \in Kernel /\ Listed(w, R \ {t}) /\ Unlinked(w.lists, t)
      /\ w.stat = Put(u.stat, t, "CLOSE")
      /\ w.prio = u.prio /\ w.cur = u.cur /\ w.nest = u.nest /\ w.armed = u.armed
      /\ \A h \in OffReady, x \in Thread : IsIn(w.lists[h], x) <=> IsIn(u.lists[h], x)
  BY <1>1, <1>2, LeaveReady
<1>4. /\ y \in Kernel
      /\ y.stat = w.stat /\ y.prio = w.prio /\ y.lists = w.lists /\ y.group = w.group
      /\ y.cur = w.cur /\ y.nest = w.nest /\ y.armed = w.armed \ {t}
  BY <1>2, <1>3 DEF TimerStop, Kernel
<1>5. Listed(y, R \ {t}) /\ Unlinked(y.lists, t)
  BY <1>1, <1>3, <1>4, ListedSame
<1>6. CASE t \in Static
  BY <1>2, <1>3, <1>4, <1>5, <1>6
<1>7. CASE t \notin Static
  <2>1. v = InsertFirst(y, Defunct, t)
    BY <1>2, <1>7
  <2>2. /\ v \in Kernel /\ Listed(v, R \ {t})
        /\ v.stat = y.stat
        /\ v.cur = y.cur /\ v.nest = y.nest /\ v.armed = y.armed
        /\ \A h \in OffReady, x \in Thread :
             IsIn(v.lists[h], x) <=> IsIn(y.lists[h], x) \/ (h = Defunct /\ x = t)
    BY <1>1, <1>4, <1>5, <2>1, DefunctListed
  <2> QED BY <1>3, <1>4, <1>7, <2>2
<1> QED BY <1>6, <1>7

LEMMA ExitGood ==
  ASSUME Hypotheses, IInv, Exit
  PROVE  IInv'
<1> DEFINE c == k.cur
           R == Run(k, pc, tgt)
<1>0. Good(k, pc, tgt, freed)
  BY DEF IInv
<1>1. /\ k \in Kernel /\ c \in Thread /\ Idle \in Thread /\ freed \subseteq Thread
      /\ pc \in [Thread -> PC] /\ tgt \in [Thread -> Thread]
      /\ R \in SUBSET Thread /\ Listed(k, R) /\ Idle \in R
      /\ c \notin Closing(pc, tgt)
      /\ \A t \in Thread : Fate(k, pc, freed, t)
      /\ \A o \in WaitQueue, t \in Thread : ~IsIn(k.lists[Wait(o)], t)
  BY <1>0, GoodFacts DEF Good, Lists
<1>2. /\ <<"exit", c, c>> \in May /\ pc[c] = "app"
      /\ pc' \in [Thread -> PC] /\ pc'[c] = "exit_sched"
      /\ tgt' \in [Thread -> Thread] /\ tgt'[c] = c
      /\ \A t \in Thread \ {c} : pc'[t] = pc[t] /\ tgt'[t] = tgt[t]
      /\ freed' = freed
  BY <1>1, CallFacts DEF Exit, PC
<1>3. c \in R /\ k.stat[c] = "READY" /\ c \notin freed
  BY <1>0, <1>2 DEF Exit, Good, Executes, OnTheWay, Run
<1>4. c # Idle
  BY <1>1, <1>2 DEF Hypotheses, Disciplined, Operation
<1>5. /\ k' \in Kernel /\ Listed(k', R \ {c})
      /\ k'.stat = Put(k.stat, c, "CLOSE")
      /\ k'.cur = k.cur /\ k'.nest = k.nest /\ k'.armed = k.armed \ {c}
      /\ \A h \in OffReady, x \in Thread :
           IsIn(k'.lists[h], x)
             <=> IsIn(k.lists[h], x) \/ (h = Defunct /\ x = c /\ c \notin Static)
  <2>1. /\ k \in Kernel /\ R \in SUBSET Thread /\ Listed(k, R) /\ c \in R
        /\ k' = Closed(k, c)
    BY <1>1, <1>3 DEF Exit
  <2> HIDE DEF R, c
  <2>2. /\ k' \in Kernel /\ Listed(k', R \ {c})
        /\ k'.stat = Put(k.stat, c, "CLOSE")
        /\ k'.cur = k.cur /\ k'.nest = k.nest /\ k'.armed = k.armed \ {c}
        /\ \A h \in OffReady, x \in Thread :
             IsIn(k'.lists[h], x)
               <=> IsIn(k.lists[h], x) \/ (h = Defunct /\ x = c /\ c \notin Static)
    BY ONLY <2>1, ClosedListed, SMTT(30)
  <2> QED BY <2>2
<1>6. k'.stat[c] = "CLOSE" /\ \A t \in Thread \ {c} : k'.stat[t] = k.stat[t]
  BY <1>1, <1>5, KernelFields DEF Put
<1>7. Closing(pc', tgt') = Closing(pc, tgt)
  BY <1>1, <1>2, ClosingSame
<1>8. Run(k', pc', tgt') = R \ {c}
  BY <1>1, <1>6, <1>7 DEF Run
<1>9. /\ \A o \in WaitQueue, t \in Thread : ~IsIn(k'.lists[Wait(o)], t)
      /\ \A t \in Thread \ {c} : IsDefunct(k', t) <=> IsDefunct(k, t)
  <2>1. \A o \in WaitQueue : Wait(o) # Defunct
    BY DEF Wait, Defunct
  <2> QED BY <1>1, <1>5, <2>1, OffReadyHeads DEF IsDefunct
<1>10. Leaves(k, freed, k', freed', {c})
  BY <1>2, <1>5, <1>6, <1>9 DEF Leaves
<1>11. Frees(k, pc, tgt, pc', tgt')
  BY <1>1, <1>2 DEF Frees
<1>12. InCall(k', pc', tgt', freed', c)
  BY <1>2 DEF InCall
<1>13. Executes(k', pc', tgt', freed')
  BY <1>2, <1>3, <1>5, <1>6 DEF Executes
<1>14. Fate(k', pc', freed', c)
  BY <1>1, <1>2, <1>3, <1>5, <1>6 DEF Fate
<1>15. ASSUME NEW t \in Thread \ {c}, tgt[t] \in {c} PROVE Allows(k', pc, tgt, t)
  <2>1. t # k.cur /\ tgt[t] = k.cur /\ pc[k.cur] # "exit_sched"
    BY <1>2, <1>15
  <2>2. /\ pc[t] # "free"
        /\ pc[t] \in Minding => <<"exit", k.cur, k.cur>> \notin May
    BY <1>0, <2>1, NobodyMindsCurrent
  <2> QED BY <1>2, <2>2 DEF Allows
<1>16. Idle \in R \ {c} /\ k'.cur = k.cur
  BY <1>1, <1>4, <1>5
<1>17. Moves(k, pc, tgt, freed, k', pc', tgt', freed', {c}, {c})
  BY <1>1, <1>2, <1>5, <1>8, <1>9, <1>10, <1>11, <1>12, <1>13, <1>14, <1>15, <1>16 DEF Moves
<1> QED BY <1>0, <1>17, StepGood DEF IInv

(* rt_thread_idle_excute takes a thread off the defunct list. *)
LEMMA IdleTakeGood ==
  ASSUME Hypotheses, IInv, IdleTake
  PROVE  IInv'
<1> DEFINE c == k.cur
           x == k.lists[Defunct][1]
           R == Run(k, pc, tgt)
<1>0. Good(k, pc, tgt, freed) /\ c = Idle /\ k.lists[Defunct] # <<>>
  BY DEF IInv, IdleTake
<1>1. /\ k \in Kernel /\ c \in Thread /\ Idle \in Thread /\ freed \subseteq Thread
      /\ pc \in [Thread -> PC] /\ tgt \in [Thread -> Thread]
      /\ R \in SUBSET Thread /\ Listed(k, R) /\ Idle \in R
      /\ \A t \in Thread : Fate(k, pc, freed, t) /\ InCall(k, pc, tgt, freed, t)
      /\ \A o \in WaitQueue, t \in Thread : ~IsIn(k.lists[Wait(o)], t)
  BY <1>0, GoodFacts DEF Good, Lists
<1>2. /\ pc[c] = "app" /\ pc' \in [Thread -> PC] /\ pc'[c] = "free"
      /\ \A t \in Thread \ {c} : pc'[t] = pc[t]
  BY StepFacts DEF IdleTake, PC
<1>3. x \in Thread /\ IsDefunct(k, x)
  <2>1. k.lists[Defunct] \in Seq(Thread)
    BY <1>1, KernelFields, HeadsAreHeads
  <2>2. 1 \in DOMAIN k.lists[Defunct] /\ x \in Thread
    BY <1>0, <2>1
  <2> QED BY <2>2 DEF IsDefunct, IsIn
<1>4. k.stat[x] = "CLOSE" /\ x \notin freed /\ x # c /\ x \notin R
  <2>1. k.stat[x] = "CLOSE" /\ x \notin freed
    BY <1>1, <1>3 DEF Fate
  <2> QED BY <1>0, <1>1, <2>1 DEF Run
<1>5. k' = ListRemove(k, x) /\ tgt' = [tgt EXCEPT ![Idle] = x] /\ freed' = freed
  BY DEF IdleTake
<1>6. /\ tgt' \in [Thread -> Thread] /\ tgt'[c] = x
      /\ \A t \in Thread \ {c} : tgt'[t] = tgt[t]
  BY <1>0, <1>1, <1>3, <1>5
<1>7. x = k.lists[Defunct][1]
  OBVIOUS
<1> HIDE DEF x
<1>8. /\ k' \in Kernel /\ Listed(k', R)
      /\ k'.stat = k.stat
      /\ k'.prio = k.prio /\ k'.cur = k.cur /\ k'.nest = k.nest /\ k'.armed = k.armed
      /\ \A h \in OffReady, t \in Thread : IsIn(k'.lists[h], t) <=> IsIn(k.lists[h], t) /\ t # x
  <2>1. /\ k \in Kernel /\ R \in SUBSET Thread /\ Listed(k, R)
        /\ x \in Thread /\ x \notin R /\ k' = ListRemove(k, x)
    BY <1>1, <1>3, <1>4, <1>5
  <2> HIDE DEF R
  <2> QED BY ONLY <2>1, DropListed
<1>9. Run(k', pc', tgt') = R
  BY <1>2, <1>6, <1>8, RunSame
<1>10. /\ \A o \in WaitQueue, t \in Thread : ~IsIn(k'.lists[Wait(o)], t)
       /\ \A t \in Thread : IsDefunct(k', t) <=> IsDefunct(k, t) /\ t # x
  BY <1>1, <1>8, OffReadyHeads DEF IsDefunct
<1>11. Leaves(k, freed, k', freed', {x})
  BY <1>5, <1>8, <1>10 DEF Leaves
<1>12. Frees(k, pc, tgt, pc', tgt')
  BY <1>0, <1>3, <1>6 DEF Frees
<1>13. InCall(k', pc', tgt', freed', c)
  BY <1>0, <1>2, <1>3, <1>4, <1>5, <1>6, <1>8, <1>10 DEF InCall
<1>14. Executes(k', pc', tgt', freed')
  BY <1>2, <1>5, <1>8, <1>9, StillExecutes DEF OnTheWay
<1>15. Fate(k', pc', freed', x)
  <2>1. Fate(k, pc, freed, x) /\ pc'[x] = pc[x] /\ ~IsDefunct(k', x)
    BY <1>1, <1>2, <1>3, <1>4, <1>10
  <2> QED BY <1>5, <1>8, <2>1 DEF Fate
<1>16. ASSUME NEW t \in Thread \ {c}, tgt[t] \in {x} PROVE Allows(k', pc, tgt, t)
  <2>1. InCall(k, pc, tgt, freed, t)
    BY <1>1
  <2> QED BY <1>0, <1>3, <1>4, <1>16, <2>1 DEF Allows, InCall, Minding
<1>17. pc[c] = "exit_sched" => pc'[c] = "exit_sched"
  BY <1>2
<1>18. Moves(k, pc, tgt, freed, k', pc', tgt', freed', {c}, {x})
  BY <1>1, <1>2, <1>5, <1>6, <1>8, <1>9, <1>10, <1>11, <1>12, <1>13, <1>14, <1>15, <1>16, <1>17
     DEF Moves
<1> QED BY <1>0, <1>18, StepGood DEF IInv

(* rt_thread_idle_excute gives the memory back. *)
LEMMA IdleFreeGood ==
  ASSUME Hypotheses, IInv, IdleFree
  PROVE  IInv'
<1> DEFINE c == k.cur
           x == tgt[c]
           R == Run(k, pc, tgt)
<1>0. Good(k, pc, tgt, freed) /\ c = Idle
  BY DEF IInv, IdleFree
<1>1. /\ k \in Kernel /\ c \in Thread /\ x \in Thread /\ Idle \in Thread /\ freed \subseteq Thread
      /\ pc \in [Thread -> PC] /\ tgt \in [Thread -> Thread]
      /\ R \in SUBSET Thread /\ Listed(k, R) /\ Idle \in R
      /\ \A t \in Thread : Fate(k, pc, freed, t) /\ InCall(k, pc, tgt, freed, t)
      /\ \A o \in WaitQueue, t \in Thread : ~IsIn(k.lists[Wait(o)], t)
  BY <1>0, GoodFacts DEF Good, Lists
<1>2. /\ pc[c] = "free" /\ pc' \in [Thread -> PC] /\ pc'[c] = "app"
      /\ \A t \in Thread \ {c} : pc'[t] = pc[t]
  BY StepFacts DEF IdleFree, PC
<1>3. k' = k /\ tgt' = tgt /\ freed' = freed \cup {x}
  BY DEF IdleFree, X
<1>4. k.stat[x] = "CLOSE" /\ x \notin freed /\ ~IsDefunct(k, x)
  BY <1>1, <1>2 DEF InCall
<1>5. x # c
  BY <1>0, <1>1, <1>4 DEF Run
<1>6. Run(k', pc', tgt') = R
  BY <1>1, <1>2, <1>3, RunSame
<1>7. Leaves(k, freed, k', freed', {x})
  BY <1>3 DEF Leaves
<1>8. Frees(k, pc, tgt, pc', tgt')
  BY <1>0, <1>2 DEF Frees
<1>9. InCall(k', pc', tgt', freed', c)
  BY <1>2 DEF InCall
<1>10. Executes(k', pc', tgt', freed')
  <2>1. Executes(k, pc, tgt, freed) /\ c \notin freed
    BY <1>0 DEF Good, Executes
  <2> QED BY <1>2, <1>3, <1>5, <1>6, <2>1 DEF Executes
<1>11. Fate(k', pc', freed', x)
  <2>1. Fate(k, pc, freed, x) /\ pc'[x] = pc[x]
    BY <1>1, <1>2, <1>5
  <2> QED BY <1>3, <1>4, <2>1 DEF Fate
<1>12. ASSUME NEW t \in Thread \ {c}, tgt[t] \in {x} PROVE Allows(k', pc, tgt, t)
  <2>1. InCall(k, pc, tgt, freed, t)
    BY <1>1
  <2> QED BY <1>0, <1>2, <1>4, <1>12, <2>1 DEF Allows, InCall, Minding
<1>13. pc[c] = "exit_sched" => pc'[c] = "exit_sched"
  BY <1>2
<1>14. freed' \in SUBSET Thread
  BY <1>1, <1>3
<1>15. Moves(k, pc, tgt, freed, k', pc', tgt', freed', {c}, {x})
  BY <1>1, <1>2, <1>3, <1>6, <1>7, <1>8, <1>9, <1>10, <1>11, <1>12, <1>13, <1>14 DEF Moves
<1> QED BY <1>0, <1>15, StepGood DEF IInv

(* rt_thread_create on freed memory *)
LEMMA CreateGood ==
  ASSUME Hypotheses, IInv, NEW x \in Thread, Create(x)
  PROVE  IInv'
<1> DEFINE c == k.cur
           R == Run(k, pc, tgt)
<1>0. Good(k, pc, tgt, freed)
  BY DEF IInv
<1>1. /\ k \in Kernel /\ c \in Thread /\ Idle \in Thread /\ freed \subseteq Thread
      /\ pc \in [Thread -> PC] /\ tgt \in [Thread -> Thread]
      /\ R \in SUBSET Thread /\ Listed(k, R) /\ Idle \in R
      /\ \A t \in Thread : Fate(k, pc, freed, t) /\ InCall(k, pc, tgt, freed, t)
      /\ \A o \in WaitQueue, t \in Thread : ~IsIn(k.lists[Wait(o)], t)
  BY <1>0, GoodFacts DEF Good, Lists
<1>2. /\ pc[c] = "app" /\ x \in freed /\ freed' = freed \ {x} /\ tgt' = tgt
      /\ pc' = [pc EXCEPT ![x] = "app"]
  BY DEF Create
<1>3. /\ pc' \in [Thread -> PC] /\ pc'[x] = "app"
      /\ \A t \in Thread \ {x} : pc'[t] = pc[t]
  BY <1>1, <1>2 DEF PC
<1>4. k.stat[x] = "CLOSE" /\ ~IsDefunct(k, x) /\ x \notin k.armed /\ x # c /\ x # Idle
  <2>1. Fate(k, pc, freed, x)
    BY <1>1
  <2>2. x # c
    BY <1>0, <1>2 DEF Good, Executes
  <2> QED BY <1>1, <1>2, <2>1, <2>2 DEF Fate, Run
<1>5. /\ k' \in Kernel /\ k'.stat = Put(k.stat, x, "INIT")
      /\ k'.prio = Put(k.prio, x, InitPrio[x])
      /\ k'.lists = k.lists /\ k'.group = k.group /\ k'.cur = k.cur /\ k'.nest = k.nest
      /\ k'.armed = k.armed
  <2>1. InitPrio[x] \in Prio /\ "INIT" \in Stat /\ "EOK" \in Error
    BY DEF Hypotheses, ThreadsAssumption, BootLists, Stat, Error
  <2> QED BY <1>1, <2>1 DEF Create, Kernel, Put
<1>6. /\ k'.stat[x] = "INIT"
      /\ \A t \in Thread \ {x} : k'.stat[t] = k.stat[t] /\ k'.prio[t] = k.prio[t]
  BY <1>1, <1>5, KernelFields DEF Put
<1>7. pc[x] \notin {"delete_timer", "delete_close"}
  <2> SUFFICES ASSUME pc[x] \in {"delete_timer", "delete_close"} PROVE FALSE
    OBVIOUS
  <2>1. Manages(x, tgt[x]) /\ tgt[x] \in Thread
    <3>1. InCall(k, pc, tgt, freed, x) /\ tgt[x] \in Thread
      BY <1>1
    <3> QED BY <3>1 DEF InCall, Manages
  <2>2. \E m \in Thread \ {x} : <<"delete", m, x>> \in May
    BY <1>1, <1>4 DEF Fate
  <2> QED BY <2>1, <2>2 DEF Hypotheses, Disciplined
<1>8. Closing(pc', tgt') = Closing(pc, tgt)
  <2>1. \A t \in Thread : /\ tgt'[t] = tgt[t]
                          /\ pc'[t] \in {"delete_timer", "delete_close"}
                               <=> pc[t] \in {"delete_timer", "delete_close"}
    BY <1>2, <1>3, <1>7
  <2> QED BY <2>1 DEF Closing
<1>9. Run(k', pc', tgt') = R
  BY <1>4, <1>6, <1>8 DEF Run
<1>10. Listed(k', R)
  BY <1>1, <1>4, <1>5, <1>6, ListedSame DEF Run
<1>11. Leaves(k, freed, k', freed', {x})
  BY <1>2, <1>5, <1>6 DEF Leaves, IsDefunct
<1>12. \A o \in WaitQueue, t \in Thread : ~IsIn(k'.lists[Wait(o)], t)
  BY <1>1, <1>5
<1>13. Frees(k, pc, tgt, pc', tgt')
  BY <1>1, <1>2, <1>3, <1>4 DEF Frees
<1>14. InCall(k', pc', tgt', freed', x)
  BY <1>3 DEF InCall
<1>15. Executes(k', pc', tgt', freed')
  <2>1. Executes(k, pc, tgt, freed)
    BY <1>0 DEF Good
  <2>2. /\ k'.stat[c] = k.stat[c] /\ pc'[c] = pc[c] /\ (c \in freed' => c \in freed)
        /\ \A t \in R : k'.prio[t] = k.prio[t]
    BY <1>1, <1>2, <1>3, <1>4, <1>6 DEF Run
  <2> QED BY <1>5, <1>9, <2>1, <2>2, ExecutesKept
<1>16. Fate(k', pc', freed', x)
  BY <1>2, <1>4, <1>5, <1>6 DEF Fate, IsDefunct
<1>17. ASSUME NEW t \in Thread \ {x}, tgt[t] \in {x} PROVE Allows(k', pc, tgt, t)
  <2>1. InCall(k, pc, tgt, freed, t)
    BY <1>1
  <2> QED BY <1>2, <1>4, <1>17, <2>1 DEF Allows, InCall, Minding
<1>18. freed' \in SUBSET Thread
  BY <1>1, <1>2
<1>19. Moves(k, pc, tgt, freed, k', pc', tgt', freed', {x}, {x})
  BY <1>1, <1>2, <1>3, <1>5, <1>9, <1>10, <1>11, <1>12, <1>13, <1>14, <1>15, <1>16, <1>17, <1>18
     DEF Moves
<1> QED BY <1>0, <1>19, StepGood DEF IInv

-----------------------------------------------------------------------------
(* The invariant *)

LEMMA GoodInit ==
  ASSUME Hypotheses, Init
  PROVE  IInv
<1> DEFINE b == Booted(InitPrio, Boot)
           s == [t \in Thread |-> IF t \in Started THEN "READY" ELSE "INIT"]
<1>1. Idle \in Thread /\ IsIn(Boot[InitPrio[Idle]], Idle) /\ BootLists(InitPrio, Boot)
  BY DEF Hypotheses, ThreadsAssumption, Started
<1>2. b = Booted(InitPrio, Boot)
  OBVIOUS
<1>3. /\ k = [b EXCEPT !.stat = s] /\ s \in [Thread -> Stat]
      /\ pc = [t \in Thread |-> "app"] /\ tgt = [t \in Thread |-> t] /\ freed = {}
      /\ \A t \in Thread : s[t] = IF t \in Started THEN "READY" ELSE "INIT"
  BY DEF Init, Stat
<1> HIDE DEF b, s
<1>4. /\ b \in Kernel /\ OneList(b) /\ GroupExact(b)
      /\ \A p \in Prio, t \in Thread :
           IsIn(b.lists[Ready(p)], t) <=> IsIn(Boot[InitPrio[t]], t) /\ InitPrio[t] = p
      /\ b.prio = InitPrio
      /\ b.nest = 0 /\ b.armed = {}
      /\ \A q \in WaitQueue : b.lists[Wait(q)] = <<>>
      /\ b.lists[Defunct] = <<>>
      /\ IsIn(Boot[InitPrio[b.cur]], b.cur)
      /\ \A t \in Thread : IsIn(Boot[InitPrio[t]], t) => InitPrio[b.cur] <= InitPrio[t]
  BY <1>1, <1>2, BootedLists
<1>5. /\ k \in Kernel /\ k.stat = s
      /\ k.prio = b.prio /\ k.lists = b.lists /\ k.group = b.group
      /\ k.cur = b.cur /\ k.nest = b.nest /\ k.armed = b.armed
  BY <1>3, <1>4 DEF Kernel
<1>6. pc \in [Thread -> PC] /\ tgt \in [Thread -> Thread] /\ \A t \in Thread : pc[t] = "app"
  BY <1>3 DEF PC
<1>7. Run(k, pc, tgt) = Started
  <2>1. Closing(pc, tgt) = {}
    BY <1>6 DEF Closing
  <2> QED BY <1>3, <1>5, <2>1 DEF Run, Started
<1>8. Listed(k, Started)
  <2>1. OneList(k) /\ GroupExact(k)
    BY <1>4, <1>5 DEF OneList, GroupExact
  <2> QED BY <1>4, <1>5, <2>1 DEF Listed, Started
<1>9. /\ \A q \in WaitQueue, t \in Thread : ~IsIn(k.lists[Wait(q)], t)
      /\ \A t \in Thread : ~IsIn(k.lists[Defunct], t)
  BY <1>4, <1>5 DEF IsIn
<1>10. Idle \in Started /\ k.cur \in Started
  BY <1>1, <1>4, <1>5, KernelFields DEF Started
<1>11. Executes(k, pc, tgt, freed)
  <2>1. \A t \in Started : k.prio[k.cur] <= k.prio[t]
    BY <1>4, <1>5 DEF Started
  <2> QED BY <1>3, <1>7, <1>10, <2>1, ExecutesScheduled
<1>12. ASSUME NEW t \in Thread PROVE Fate(k, pc, freed, t) /\ InCall(k, pc, tgt, freed, t)
  BY <1>3, <1>4, <1>5, <1>6, <1>9 DEF Fate, InCall, IsDefunct
<1> QED BY <1>3, <1>5, <1>6, <1>7, <1>8, <1>9, <1>10, <1>11, <1>12 DEF IInv, Good, Lists

LEMMA GoodStep ==
  ASSUME Hypotheses, IInv, [Next]_vars
  PROVE  IInv'
<1>1. CASE UNCHANGED vars
  BY <1>1 DEF vars, IInv
<1>2. CASE ThreadStep
  <2>1. ASSUME NEW x \in Thread,
               \/ Create(x) \/ Startup(x) \/ ResumeCheck(x)
               \/ SuspendCheck(x) \/ DeleteRemove(x)
        PROVE  IInv'
    BY <2>1, CreateGood, StartupGood, ResumeCheckGood, SuspendCheckGood, DeleteRemoveGood
  <2>2. ASSUME NEW x \in Thread, NEW p \in Prio, SetPriority(x, p) PROVE IInv'
    BY <2>2, SetPriorityGood
  <2>3. CASE ResumeUnlinkStep \/ ResumeInsert \/ SuspendCommit
    BY <2>3, ResumeUnlinkGood, ResumeInsertGood, SuspendCommitGood
  <2>4. CASE DeleteTimer \/ DeleteClose \/ DeleteList
    BY <2>4, DeleteTimerGood, DeleteCloseGood, DeleteListGood
  <2>5. CASE CallSchedule \/ SleepSchedule \/ ExitSchedule
    BY <2>5, ScheduleStepsGood
  <2>6. CASE Sleep \/ SleepReturn \/ Exit
    BY <2>6, SleepGood, SleepReturnGood, ExitGood
  <2>7. CASE EnterCritical \/ ExitCritical \/ IdleTake \/ IdleFree
    BY <2>7, EnterCriticalGood, ExitCriticalGood, IdleTakeGood, IdleFreeGood
  <2> QED BY <1>2, <2>1, <2>2, <2>3, <2>4, <2>5, <2>6, <2>7 DEF ThreadStep
<1>3. CASE TickYield
  BY <1>3, TickYieldGood
<1>4. ASSUME NEW t \in Thread, TickTimeout(t) PROVE IInv'
  BY <1>4, TickTimeoutGood
<1> QED BY <1>1, <1>2, <1>3, <1>4 DEF Next

(* The invariant: the lists, the ready group and the thread states agree,  *)
(* what a preempted call of thread.c has found out about its thread still  *)
(* holds, and the thread that executes is alive.                           *)
THEOREM Invariant ==
  ASSUME Hypotheses
  PROVE  Spec => []IInv
<1>1. Init => IInv
  BY GoodInit
<1>2. IInv /\ [Next]_vars => IInv'
  BY GoodStep
<1> QED BY <1>1, <1>2, PTL DEF Spec

(* Every variable keeps its type, the kernel's record and the place and    *)
(* target of every call of thread.c among them.                            *)
THEOREM TypesHold ==
  ASSUME Hypotheses
  PROVE  Spec => []TypeOK
<1>1. IInv => TypeOK
  BY DEF IInv, Good, TypeOK
<1>2. Spec => []IInv
  BY Invariant
<1> QED BY <1>1, <1>2, PTL

(* Whenever an interrupt can look at them, a READY thread is in the ready  *)
(* list of its priority and in no other list, the bits of the ready group  *)
(* are those of the lists that are not empty, and only the thread that     *)
(* rt_thread_delete is about to close is off its list already.             *)
THEOREM ListsAgree ==
  ASSUME Hypotheses
  PROVE  Spec => []ListsExact
<1>1. IInv => ListsExact
  BY DEF IInv, Good, Lists, Listed, Run, Closing, ListsExact, Dying
<1>2. Spec => []IInv
  BY Invariant
<1> QED BY <1>1, <1>2, PTL

(* The assertion of rt_thread_timeout never fails.                         *)
THEOREM TimersOnlyOfSuspended ==
  ASSUME Hypotheses
  PROVE  Spec => []TimeoutAssertHolds
<1>1. ASSUME IInv PROVE TimeoutAssertHolds
  <2>1. k.armed \in SUBSET Thread /\ \A t \in Thread : Fate(k, pc, freed, t)
    BY <1>1, GoodFacts, KernelFields DEF IInv
  <2> QED BY <2>1 DEF Fate, TimeoutAssertHolds, TimersOfSuspended
<1>2. Spec => []IInv
  BY Invariant
<1>3. IInv => TimeoutAssertHolds
  BY <1>1
<1> QED BY <1>2, <1>3, PTL

(* No ready thread is more urgent than the one that executes outside the   *)
(* kernel with the scheduler unlocked.                                     *)
THEOREM MostUrgentRuns ==
  ASSUME Hypotheses
  PROVE  Spec => []UrgentRuns
<1>1. IInv => UrgentRuns
  BY DEF IInv, Good, Executes, Run, Closing, UrgentRuns, Dying
<1>2. Spec => []IInv
  BY Invariant
<1> QED BY <1>1, <1>2, PTL

(* rt_thread_idle_excute frees only what is in no list of the kernel, has  *)
(* no timer and does not execute.                                          *)
THEOREM NothingFreedInUse ==
  ASSUME Hypotheses
  PROVE  Spec => []FreedIsGone
<1>1. ASSUME IInv PROVE FreedIsGone
  <2> SUFFICES ASSUME NEW t \in freed
               PROVE  /\ t # k.cur /\ t \notin k.armed
                      /\ \A h \in ListHeads : ~IsIn(k.lists[h], t)
    BY DEF FreedIsGone
  <2>1. /\ t \in Thread /\ t # k.cur /\ Fate(k, pc, freed, t)
        /\ t \notin Run(k, pc, tgt) /\ ~IsDefunct(k, t) => Unlinked(k.lists, t)
    BY <1>1, GoodFacts DEF IInv, Good, Executes
  <2>2. k.stat[t] = "CLOSE" /\ t \notin k.armed /\ ~IsDefunct(k, t)
    BY <2>1 DEF Fate
  <2>3. Unlinked(k.lists, t)
    BY <2>1, <2>2 DEF Run
  <2> QED BY <2>1, <2>2, <2>3 DEF Unlinked
<1>2. Spec => []IInv
  BY Invariant
<1>3. IInv => FreedIsGone
  BY <1>1
<1> QED BY <1>2, <1>3, PTL

(* A thread that exited or was deleted is in no ready list, and executes   *)
(* no more but for its own way out.                                        *)
THEOREM ClosedNeverScheduled ==
  ASSUME Hypotheses
  PROVE  Spec => []ClosedIsOff
<1>1. IInv => ClosedIsOff
  BY DEF IInv, Good, Lists, Listed, Run, Executes, ClosedIsOff
<1>2. Spec => []IInv
  BY Invariant
<1> QED BY <1>1, <1>2, PTL

(* Which threads the operations on lists change the state of               *)
LEMMA StatesSame ==
  ASSUME NEW u \in Kernel, NEW t \in Thread
  PROVE  /\ Schedule(u).stat = u.stat
         /\ TimerStop(u, t).stat = u.stat
         /\ InsertFirst(u, Defunct, t).stat = u.stat
         /\ RemoveReady(u, t).stat = u.stat
         /\ ListRemove(u, t).stat = u.stat
         /\ ResumeUnlink(u, t).stat = u.stat
         /\ InsertReady(u, t).stat = Put(u.stat, t, "READY")
         /\ Yield(u).stat = u.stat
<1>1. Schedule(u).stat = u.stat
  BY DEF Schedule, Kernel
<1>2. TimerStop(u, t).stat = u.stat
  BY DEF TimerStop, Kernel
<1>3. InsertFirst(u, Defunct, t).stat = u.stat
  BY DEF InsertFirst, Kernel
<1>4. RemoveReady(u, t).stat = u.stat
  BY DEF RemoveReady, ListRemove, Kernel
<1>5. ListRemove(u, t).stat = u.stat
  BY DEF ListRemove, Kernel
<1>6. ResumeUnlink(u, t).stat = u.stat
  BY DEF ResumeUnlink, TimerStop, ListRemove, Kernel
<1>7. InsertReady(u, t).stat = Put(u.stat, t, "READY")
  BY DEF InsertReady, InsertLast, Kernel, Put
<1>8. Yield(u).stat = u.stat
  BY DEF Yield, Schedule, InsertLast, ListRemove, Kernel
<1> QED BY <1>1, <1>2, <1>3, <1>4, <1>5, <1>6, <1>7, <1>8

LEMMA ClosedKept ==
  ASSUME Hypotheses, IInv, Next, NEW y \in Thread, y \notin freed, k.stat[y] = "CLOSE"
  PROVE  k'.stat[y] = "CLOSE"
<1> DEFINE c == k.cur
<1>1. /\ k \in Kernel /\ c \in Thread /\ tgt[c] \in Thread
      /\ k.stat \in [Thread -> Stat]
      /\ \A t \in Thread : Fate(k, pc, freed, t) /\ InCall(k, pc, tgt, freed, t)
      /\ \A p \in Prio, t \in Thread : IsIn(k.lists[Ready(p)], t) => k.stat[t] = "READY"
  BY GoodFacts, KernelFields DEF IInv, Listed, Run
<1>2. pc[c] # "exit_sched" => k.stat[c] # "CLOSE"
  BY DEF IInv, Good, Executes
<1>3. ASSUME NEW x \in Thread, Create(x) PROVE k'.stat[y] = "CLOSE"
  <2>1. x # y /\ k'.stat = Put(k.stat, x, "INIT")
    BY <1>1, <1>3 DEF Create, Kernel, Put
  <2> QED BY <1>1, <2>1 DEF Put
<1>4. ASSUME NEW x \in Thread, Startup(x) PROVE k'.stat[y] = "CLOSE"
  <2>1. x # y /\ k'.stat = Put(k.stat, x, "SUSPEND")
    BY <1>1, <1>4 DEF Startup, Kernel, Put
  <2> QED BY <1>1, <2>1 DEF Put
<1>5. ASSUME NEW x \in Thread, ResumeCheck(x) \/ SuspendCheck(x) PROVE k'.stat[y] = "CLOSE"
  BY <1>5 DEF ResumeCheck, SuspendCheck
<1>6. ASSUME NEW x \in Thread, DeleteRemove(x) PROVE k'.stat[y] = "CLOSE"
  BY <1>1, <1>6, StatesSame DEF DeleteRemove
<1>7. ASSUME NEW x \in Thread, NEW p \in Prio, SetPriority(x, p) PROVE k'.stat[y] = "CLOSE"
  <2>1. CASE k.stat[x] # "READY"
    BY <1>1, <1>7, <2>1 DEF SetPriority, ChangePriority, Kernel
  <2>2. CASE k.stat[x] = "READY"
    <3> DEFINE w == [RemoveReady(k, x) EXCEPT !.prio[x] = p]
    <3>1. k' = InsertReady(w, x)
      BY <1>7, <2>2 DEF SetPriority, ChangePriority
    <3>2. k'.stat = Put(k.stat, x, "READY")
      BY <1>1, <3>1 DEF InsertReady, InsertLast, RemoveReady, ListRemove, Kernel, Put
    <3> QED BY <1>1, <2>2, <3>2 DEF Put
  <2> QED BY <2>1, <2>2
<1>8. CASE ResumeUnlinkStep \/ CallSchedule \/ DeleteTimer \/ DeleteList \/ SleepSchedule \/ ExitSchedule
  BY <1>1, <1>8, StatesSame
     DEF ResumeUnlinkStep, CallSchedule, DeleteTimer, DeleteList, SleepSchedule, ExitSchedule, X
<1>9. CASE ResumeInsert
  <2>1. k.stat[tgt[c]] = "SUSPEND"
    BY <1>1, <1>9 DEF ResumeInsert, Step, InCall
  <2>2. k'.stat = Put(k.stat, tgt[c], "READY")
    BY <1>1, <1>9, StatesSame DEF ResumeInsert, X
  <2> QED BY <1>1, <2>1, <2>2 DEF Put
<1>10. CASE SuspendCommit
  <2>1. k.stat[tgt[c]] # "CLOSE"
    BY <1>1, <1>2, <1>10 DEF SuspendCommit, Step, InCall
  <2>2. k'.stat = Put(k.stat, tgt[c], "SUSPEND")
    BY <1>1, <1>10 DEF SuspendCommit, SuspendTail, TimerStop, RemoveReady, ListRemove, X, Kernel, Put
  <2> QED BY <1>1, <2>1, <2>2 DEF Put
<1>11. CASE DeleteClose
  <2>1. k'.stat = Put(k.stat, tgt[c], "CLOSE")
    BY <1>1, <1>11 DEF DeleteClose, X, Kernel, Put
  <2> QED BY <1>1, <2>1 DEF Put
<1>12. CASE Sleep
  <2>1. k.stat[c] # "CLOSE"
    BY <1>2, <1>12 DEF Sleep, Call
  <2>2. k'.stat = k.stat \/ k'.stat = Put(k.stat, c, "SUSPEND")
    BY <1>1, <1>12 DEF Sleep, Suspend, TimerStart, TimerStop, RemoveReady, ListRemove, Kernel, Put
  <2> QED BY <1>1, <2>1, <2>2 DEF Put
<1>13. CASE SleepReturn \/ EnterCritical \/ ExitCritical
  BY <1>1, <1>13 DEF SleepReturn, EnterCritical, ExitCritical, WithError, Kernel
<1>14. CASE Exit
  <2>1. k'.stat = Put(k.stat, c, "CLOSE")
    BY <1>1, <1>14 DEF Exit, Closed, TimerStop, InsertFirst, RemoveReady, ListRemove, Kernel, Put
  <2> QED BY <1>1, <2>1 DEF Put
<1>15. CASE IdleFree
  BY <1>15 DEF IdleFree
<1>16. CASE IdleTake
  <2>1. k' = ListRemove(k, k.lists[Defunct][1])
    BY <1>16 DEF IdleTake
  <2> QED BY <1>1, <2>1 DEF ListRemove, Kernel
<1>17. CASE TickYield
  BY <1>1, <1>17, StatesSame DEF TickYield
<1>18. ASSUME NEW t \in Thread, TickTimeout(t) PROVE k'.stat[y] = "CLOSE"
  <2>1. k.stat[t] = "SUSPEND"
    BY <1>1, <1>18 DEF TickTimeout, Fate
  <2>2. k'.stat = Put(k.stat, t, "READY")
    BY <1>1, <1>18
       DEF TickTimeout, Timeout, Schedule, InsertReady, InsertLast, ListRemove, TimerStop, WithError,
           Kernel, Put
  <2> QED BY <1>1, <2>1, <2>2 DEF Put
<1> QED BY <1>3, <1>4, <1>5, <1>6, <1>7, <1>8, <1>9, <1>10, <1>11, <1>12, <1>13, <1>14, <1>15, <1>16,
           <1>17, <1>18 DEF Next, ThreadStep

(* Only rt_thread_create brings a closed thread back, once its memory has  *)
(* been freed: no late call or timer makes it READY again.                 *)
THEOREM OnlyCreateReopens ==
  ASSUME Hypotheses
  PROVE  Spec => ClosedStaysClosed
<1> DEFINE A == \A t \in Thread \ freed : k.stat[t] = "CLOSE" => k'.stat[t] = "CLOSE"
<1>1. IInv /\ [Next]_vars => [A]_vars
  BY ClosedKept
<1>2. Spec => []IInv
  BY Invariant
<1>3. Spec => [][A]_vars
  BY <1>1, <1>2, PTL DEF Spec
<1> QED BY <1>3 DEF ClosedStaysClosed
=============================================================================
