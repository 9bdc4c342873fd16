-------------------------- MODULE SemaphoreProofs --------------------------
(***************************************************************************)
(* For any number of processes, any priorities, timeouts and running       *)
(* times: the semaphore is a lock, its list is sound and sorted, and no    *)
(* wake-up is lost.                                                        *)
(*                                                                         *)
(* That the semaphore is a lock follows from LockInv alone, whatever       *)
(* process the scheduler runs.  The rest, QueuesInv, is an induction over  *)
(* the list, the run queue and the process states together; rtos_check_    *)
(* timeouts, a loop over the table of timeouts, is an induction of its own.*)
(***************************************************************************)
EXTENDS Semaphore, SchedLemmas

Entry == [proc: Processes, at: Nat]

(* What the loop of rtos_check_timeouts works on. *)
Accs == [s: SchedState, q: Seq(Processes), left: Seq(Entry), now: Nat]

LEMMA RtInsertFacts ==
    ASSUME priority \in [Processes -> 1 .. 3], NEW q \in Seq(Processes), NEW p \in Processes,
           Len(q) <= MAX_PROCESSES
    PROVE  RtInsert(q, p) \in Seq(Processes) /\ Len(RtInsert(q, p)) <= MAX_PROCESSES
  <1> DEFINE ahead == {i \in DOMAIN q : priority[q[i]] <= priority[p]}
             last  == CHOOSE i \in ahead : \A j \in ahead : j <= i
             pos   == IF ahead = {} THEN 1 ELSE 1 + last
  <1>1. Len(q) \in Nat /\ DOMAIN q = 1 .. Len(q)
    OBVIOUS
  <1>2. ahead # {} => last \in ahead
    <2>1. ahead \in SUBSET (1 .. Len(q))
      BY <1>1
    <2>2. ASSUME ahead # {} PROVE \E i \in ahead : \A j \in ahead : j <= i
      BY <1>1, <2>1, <2>2, GreatestElement
    <2>3. QED
      BY <2>2
  <1> HIDE DEF last
  <1>3. pos \in 1 .. (Len(q) + 1)
    BY <1>1, <1>2
  <1>4. RtInsert(q, p) = IF Len(q) >= MAX_PROCESSES THEN q ELSE InsertAt(q, pos, p)
    BY DEF RtInsert, last
  <1> HIDE DEF pos
  <1>5. Inserted(Processes, InsertAt(q, pos, p), q, pos, p)
    BY <1>3, InsertAtFacts
  <1>6. QED
    BY <1>1, <1>4, <1>5, SchedOpsAssumption DEF Inserted

(* One turn of the loop. *)
LEMMA ExpireType ==
    ASSUME priority \in [Processes -> 1 .. 3], NEW a \in Accs, Len(a.q) <= MAX_PROCESSES,
           NEW e \in Entry
    PROVE  /\ Expire(a, e) \in Accs
           /\ Len(Expire(a, e).q) <= MAX_PROCESSES
           /\ Len(Expire(a, e).left) <= Len(a.left) + 1
           /\ \/ Expire(a, e).s = a.s
              \/ /\ a.s.state[e.proc] = "BLOCKED"
                 /\ Expire(a, e).s = [a.s EXCEPT !.state[e.proc] = "READY"]
  <1>1. /\ a.s \in SchedState /\ a.q \in Seq(Processes) /\ a.left \in Seq(Entry) /\ a.now \in Nat
        /\ a = [s |-> a.s, q |-> a.q, left |-> a.left, now |-> a.now]
    BY DEF Accs
  <1>2. e.proc \in Processes /\ e.proc \in Slots
    BY DEF Entry, Processes
  <1>3. CASE a.now < e.at
    <2>1. Expire(a, e) = [s |-> a.s, q |-> a.q, left |-> Append(a.left, e), now |-> a.now]
      BY <1>1, <1>3 DEF Expire
    <2>2. Append(a.left, e) \in Seq(Entry) /\ Len(Append(a.left, e)) = Len(a.left) + 1
          /\ Len(a.left) \in Nat
      BY <1>1
    <2>3. QED
      BY <1>1, <2>1, <2>2 DEF Accs
  <1>4. CASE ~(a.now < e.at) /\ a.s.state[e.proc] = "BLOCKED"
    <2> DEFINE t == [a.s EXCEPT !.state[e.proc] = "READY"]
               r == RtInsert(a.q, e.proc)
    <2>1. Expire(a, e) = [s |-> t, q |-> r, left |-> a.left, now |-> a.now]
      BY <1>1, <1>4 DEF Expire
    <2>2. r \in Seq(Processes) /\ Len(r) <= MAX_PROCESSES
      BY <1>1, <1>2, RtInsertFacts
    <2>3. t \in SchedState
      BY <1>1, <1>2 DEF SchedState, States
    <2>4. Len(a.left) \in Nat
      BY <1>1
    <2> HIDE DEF t, r
    <2>5. QED
      BY <1>1, <1>4, <2>1, <2>2, <2>3, <2>4 DEF Accs, t
  <1>5. CASE ~(a.now < e.at) /\ a.s.state[e.proc] # "BLOCKED"
    <2>1. Expire(a, e) = a
      BY <1>5 DEF Expire
    <2>2. Len(a.left) \in Nat
      BY <1>1
    <2>3. QED
      BY <2>1, <2>2
  <1>6. QED
    BY <1>3, <1>4, <1>5

(* The loop, turn by turn. *)
LEMMA ExpireTurns ==
    ASSUME priority \in [Processes -> 1 .. 3], NEW l \in Seq(Entry),
           NEW c \in Accs, Len(c.q) <= MAX_PROCESSES
    PROVE  \E f : /\ f[0] = c
                  /\ \A k \in 1 .. Len(l) : f[k] = Expire(f[k - 1], l[k])
                  /\ FoldLeft(Expire, c, l) = f[Len(l)]
  <1> DEFINE n == Len(l)
             S == {a \in Accs : Len(a.q) <= MAX_PROCESSES}
             F == [i \in 1 .. n |-> [a \in S |-> Expire(a, l[i])]]
             IsIter(h) == h = [s \in SUBSET DOMAIN l |->
                                 IF s = {} THEN c ELSE Expire(h[s \ {Max(s)}], l[Max(s)])]
             iter == CHOOSE h : IsIter(h)
  <1>1. n \in Nat /\ DOMAIN l = 1 .. n /\ \A i \in 1 .. n : l[i] \in Entry
    OBVIOUS
  <1>2. c \in S
    OBVIOUS
  <1>3. \A i \in 1 .. n, a \in S : Expire(a, l[i]) \in S
    BY <1>1, ExpireType
  <1>4. F \in [1 .. n -> [S -> S]]
    <2> HIDE DEF S, n
    <2>1. QED
      BY <1>3
  <1>5. \A i \in 1 .. n, a \in S : F[i][a] = Expire(a, l[i])
    OBVIOUS
  <1> HIDE DEF F, S, n
  <1>6. PICK g : Folds(g, n, S, c, F)
    BY <1>1, <1>2, <1>4, FoldExists
  <1>7. IsIter(g)
    <2>1. g \in [SUBSET (1 .. n) -> S]
      BY <1>6 DEF Folds
    <2>2. ASSUME NEW s \in SUBSET (1 .. n)
          PROVE  g[s] = IF s = {} THEN c ELSE Expire(g[s \ {Max(s)}], l[Max(s)])
      <3>1. CASE s = {}
        BY <3>1, <1>6 DEF Folds
      <3>2. CASE s # {}
        <4>1. Max(s) \in 1 .. n /\ s \ {Max(s)} \in SUBSET (1 .. n)
          BY <1>1, <3>2, GreatestElement
        <4>2. g[s \ {Max(s)}] \in S
          BY <2>1, <4>1
        <4>3. g[s] = F[Max(s)][g[s \ {Max(s)}]]
          BY <3>2, <1>6 DEF Folds
        <4>4. QED
          BY <1>5, <3>2, <4>1, <4>2, <4>3
      <3>3. QED
        BY <3>1, <3>2
    <2>3. QED
      BY <1>1, <2>1, <2>2
  <1>8. IsIter(iter)
    BY <1>7
  <1>9. FoldLeft(Expire, c, l) = iter[DOMAIN l]
    BY Zenon DEF FoldLeft, MapThenFoldSet
  <1> HIDE DEF iter
  <1> DEFINE f == [k \in 0 .. n |-> iter[1 .. k]]
  <1>10. f[0] = c
    <2>1. {} \in SUBSET DOMAIN l
      OBVIOUS
    <2>2. iter[{}] = c
      BY <1>8, <2>1
    <2>3. QED
      BY <1>1, <2>2, FoldIntervals
  <1>11. ASSUME NEW k \in 1 .. n PROVE f[k] = Expire(f[k - 1], l[k])
    <2>1. /\ 1 .. k \in SUBSET DOMAIN l /\ 1 .. k # {} /\ Max(1 .. k) = k
          /\ (1 .. k) \ {k} = 1 .. (k - 1) /\ k \in 0 .. n /\ k - 1 \in 0 .. n
      BY <1>1, FoldIntervals
    <2>2. iter[1 .. k] = Expire(iter[(1 .. k) \ {k}], l[k])
      BY <1>8, <2>1
    <2>3. QED
      BY <2>1, <2>2
  <1>12. FoldLeft(Expire, c, l) = f[n]
    BY <1>1, <1>9
  <1>13. QED
    BY <1>10, <1>11, <1>12 DEF n
-----------------------------------------------------------------------------
(* What the expiry of timeouts makes of a scheduler state: blocked         *)
(* processes may have become ready, on no queue that schedule() reads.     *)
Relaxed(t, s) ==
    /\ t \in SchedState
    /\ t.current = s.current /\ t.rq = s.rq
    /\ t.vruntime = s.vruntime /\ t.weight = s.weight
    /\ \A p \in Slots :
           \/ t.state[p] = s.state[p]
           \/ s.state[p] = "BLOCKED" /\ t.state[p] = "READY"

(* The whole loop, for whatever time it is. *)
LEMMA CheckTimeoutsFacts ==
    ASSUME TypeOK, sched \in SchedState, NEW now \in Nat
    PROVE  LET c == CheckTimeouts(sched, now)
           IN  /\ Relaxed(c.s, sched)
               /\ c.q \in Seq(Processes) /\ Len(c.q) <= MAX_PROCESSES
               /\ c.left \in Seq(Entry) /\ Len(c.left) <= MAX_PROCESSES
  <1> DEFINE l == active_timeouts
             n == Len(l)
             c == [s |-> sched, q |-> rt_ready_queue, left |-> <<>>, now |-> now]
  <1>1. /\ priority \in [Processes -> 1 .. 3] /\ l \in Seq(Entry)
        /\ c \in Accs /\ Len(c.q) <= MAX_PROCESSES /\ Len(c.left) = 0
        /\ n \in Nat /\ n <= MAX_PROCESSES
    BY DEF TypeOK, Entry, Accs
  <1>2. \A k \in 1 .. n : l[k] \in Entry
    BY <1>1
  <1> HIDE DEF c, l
  <1>3. PICK f : /\ f[0] = c
                 /\ \A k \in 1 .. n : f[k] = Expire(f[k - 1], l[k])
                 /\ FoldLeft(Expire, c, l) = f[n]
    BY <1>1, ExpireTurns
  <1> HIDE DEF n
  <1> DEFINE Good(a, k) == /\ a \in Accs /\ Relaxed(a.s, sched)
                           /\ Len(a.q) <= MAX_PROCESSES /\ Len(a.left) <= k
             Turns == {k \in Nat : k <= n => Good(f[k], k)}
  <1>4. 0 \in Turns
    <2>1. c.s = sched
      BY DEF c
    <2>2. Relaxed(c.s, sched)
      BY <2>1 DEF Relaxed
    <2>3. Good(f[0], 0)
      BY <1>1, <1>3, <2>2
    <2>4. QED
      BY <2>3
  <1>5. ASSUME NEW k \in Nat, k \in Turns PROVE k + 1 \in Turns
    <2>1. SUFFICES ASSUME k + 1 <= n PROVE Good(f[k + 1], k + 1)
      OBVIOUS
    <2>2. k + 1 \in 1 .. n /\ (k + 1) - 1 = k /\ k <= n
      BY <1>1, <2>1
    <2>3. Good(f[k], k)
      BY <1>5, <2>2
    <2> DEFINE a == f[k]
               b == f[k + 1]
               e == l[k + 1]
    <2>4. b = Expire(a, e) /\ e \in Entry
      BY <1>2, <1>3, <2>2
    <2> HIDE DEF a, b, e
    <2>5. a \in Accs /\ Relaxed(a.s, sched) /\ Len(a.q) <= MAX_PROCESSES /\ Len(a.left) <= k
      BY <2>3 DEF a
    <2>6. /\ b \in Accs /\ Len(b.q) <= MAX_PROCESSES /\ Len(b.left) <= Len(a.left) + 1
          /\ \/ b.s = a.s
             \/ a.s.state[e.proc] = "BLOCKED" /\ b.s = [a.s EXCEPT !.state[e.proc] = "READY"]
      BY <1>1, <2>4, <2>5, ExpireType
    <2>7. a.left \in Seq(Entry) /\ b.left \in Seq(Entry) /\ b.s \in SchedState /\ a.s \in SchedState
      BY <2>5, <2>6 DEF Accs
    <2>8. Len(b.left) <= k + 1
      <3>1. Len(a.left) \in Nat /\ Len(b.left) \in Nat
        BY <2>7
      <3>2. QED
        BY <2>5, <2>6, <3>1
    <2>9. Relaxed(b.s, sched)
      <3>1. CASE b.s = a.s
        BY <2>5, <3>1
      <3>2. CASE a.s.state[e.proc] = "BLOCKED" /\ b.s = [a.s EXCEPT !.state[e.proc] = "READY"]
        <4>1. /\ b.s.current = a.s.current /\ b.s.rq = a.s.rq
              /\ b.s.vruntime = a.s.vruntime /\ b.s.weight = a.s.weight
              /\ b.s.state = [a.s.state EXCEPT ![e.proc] = "READY"]
          BY <2>7, <3>2 DEF SchedState
        <4>2. a.s.state \in [Slots -> States]
          BY <2>7, Fields
        <4>3. \A p \in Slots : \/ b.s.state[p] = a.s.state[p]
                               \/ a.s.state[p] = "BLOCKED" /\ b.s.state[p] = "READY"
          BY <3>2, <4>1, <4>2
        <4>4. QED
          BY <2>5, <2>7, <4>1, <4>3 DEF Relaxed
      <3>3. QED
        BY <2>6, <3>1, <3>2
    <2>10. QED
      BY <2>6, <2>8, <2>9 DEF b
  <1> HIDE DEF Turns
  <1>6. \A k \in Nat : k \in Turns
    BY <1>4, <1>5, SetInduction
  <1>7. Good(f[n], n)
    BY <1>1, <1>6 DEF Turns
  <1>8. CheckTimeouts(sched, now) = f[n]
    BY <1>3 DEF CheckTimeouts, c, l
  <1>9. QED
    <2>1. f[n].q \in Seq(Processes) /\ f[n].left \in Seq(Entry)
      BY <1>7 DEF Accs
    <2>2. Len(f[n].left) \in Nat
      BY <2>1
    <2>3. Len(f[n].left) <= MAX_PROCESSES
      BY <1>1, <1>7, <2>2, SchedOpsAssumption
    <2>4. QED
      BY <1>7, <1>8, <2>1, <2>3
-----------------------------------------------------------------------------
(* The scheduler between two steps: what schedule() may be called in, and  *)
(* the current process is running, unless its timeout has expired: that    *)
(* leaves it ready.                                                        *)
Resting(s) ==
    /\ MaySchedule(s)
    /\ s.current \in Slots
    /\ s.current # Idle => s.state[s.current] \in {"RUNNING", "READY"}

(* Where the processes that wait are, for a list w of them: those on the   *)
(* list are asleep, and the others are bound to look again.                *)
Placed(s, w, c) ==
    \A p \in Processes :
        /\ Contains(w, p) => /\ c[p] = "waiting" /\ ~OnQueue(s, p)
                             /\ s.state[p] \in {"BLOCKED", "READY"}
        /\ c[p] = "waiting" /\ ~Contains(w, p) =>
               OnQueue(s, p) \/ (p = s.current /\ s.state[p] = "RUNNING")

LEMMA ProcessSlots == \A p \in Processes : p \in Slots /\ p # Idle
  BY DEF Processes

(* Expired timeouts move nobody. *)
LEMMA RelaxedKeeps ==
    ASSUME NEW s, NEW t, Relaxed(t, s), Resting(s)
    PROVE  /\ Resting(t)
           /\ \A p \in Slots : OnQueue(t, p) <=> OnQueue(s, p)
           /\ \A p \in Slots : s.state[p] = "RUNNING" => t.state[p] = "RUNNING"
           /\ \A w, c : Placed(s, w, c) => Placed(t, w, c)
  <1>1. /\ s \in SchedState /\ QueueOK(s) /\ WeightOK(s) /\ t \in SchedState
        /\ t.current = s.current /\ t.rq = s.rq /\ t.vruntime = s.vruntime /\ t.weight = s.weight
    BY DEF Relaxed, Resting, MaySchedule, Sane
  <1>2. \A p \in Slots : \/ t.state[p] = s.state[p]
                         \/ s.state[p] = "BLOCKED" /\ t.state[p] = "READY"
    BY DEF Relaxed
  <1>3. \A i \in DOMAIN s.rq : s.rq[i].proc \in Slots
    BY <1>1, Fields, NodeFields
  <1>4. QueueOK(t)
    <2> SUFFICES ASSUME NEW i \in DOMAIN s.rq, s.rq[i].proc # Idle
                 PROVE  /\ t.state[s.rq[i].proc] = "READY"
                        /\ s.rq[i].key = s.vruntime[s.rq[i].proc]
                        /\ \A j \in DOMAIN s.rq : s.rq[j].proc = s.rq[i].proc => j = i
      BY <1>1 DEF QueueOK
    <2>1. s.state[s.rq[i].proc] = "READY"
      BY <1>1 DEF QueueOK
    <2>2. t.state[s.rq[i].proc] = "READY"
      BY <1>2, <1>3, <2>1
    <2>3. QED
      BY <1>1, <2>2 DEF QueueOK
  <1>5. WeightOK(t)
    <2>1. ASSUME NEW p \in Slots, p = Idle \/ t.state[p] # "UNUSED"
          PROVE  s.weight[p] > 0
      <3>1. p = Idle \/ s.state[p] # "UNUSED"
        BY <1>2, <2>1
      <3>2. QED
        BY <1>1, <3>1 DEF WeightOK
    <2>2. QED
      BY <1>1, <2>1 DEF WeightOK
  <1>6. \A p \in Slots : OnQueue(t, p) <=> OnQueue(s, p)
    BY <1>1 DEF OnQueue
  <1>7. \A p \in Slots : s.state[p] = "RUNNING" <=> t.state[p] = "RUNNING"
    BY <1>2
  <1>8. Resting(t)
    <2>1. MaySchedule(t)
      BY <1>1, <1>4, <1>5, <1>6, <1>7, SlotFacts DEF MaySchedule, Resting, Sane
    <2>2. QED
      BY <1>1, <1>2, <2>1 DEF Resting
  <1>9. ASSUME NEW w, NEW c, Placed(s, w, c) PROVE Placed(t, w, c)
    <2> SUFFICES ASSUME NEW p \in Processes
                 PROVE  /\ Contains(w, p) => /\ c[p] = "waiting" /\ ~OnQueue(t, p)
                                             /\ t.state[p] \in {"BLOCKED", "READY"}
                        /\ c[p] = "waiting" /\ ~Contains(w, p) =>
                               OnQueue(t, p) \/ (p = t.current /\ t.state[p] = "RUNNING")
      BY DEF Placed
    <2>1. p \in Slots
      BY ProcessSlots
    <2>2. QED
      BY <1>1, <1>2, <1>6, <1>7, <1>9, <2>1 DEF Placed
  <1>10. QED
    BY <1>6, <1>7, <1>8, <1>9

(* schedule() runs nobody who is on the list. *)
LEMMA SwitchKeeps ==
    ASSUME NEW s, MaySchedule(s), s.current \in Slots \cup {NONE}, NEW d \in Nat,
           NEW w, NEW c, Placed(s, w, c)
    PROVE  /\ Resting(Schedule(s, d)) /\ Placed(Schedule(s, d), w, c)
           /\ \A p \in Processes : Contains(w, p) => p # Schedule(s, d).current
  <1> DEFINE t == Schedule(s, d)
  <1>1. CASE t = s /\ s.current = Idle
    <2>1. Resting(s)
      BY <1>1, SlotFacts DEF Resting
    <2>2. QED
      BY <1>1, <2>1, ProcessSlots
  <1>2. CASE \E n \in Slots : n # s.current /\ Switched(t, s, n)
    <2>1. PICK n \in Slots : n # s.current /\ Switched(t, s, n)
      BY <1>2
    <2> HIDE DEF t
    <2>2. /\ Sane(t) /\ RunsOnly(t) /\ t.current = n /\ (n # Idle => OnQueue(s, n))
          /\ \A p \in Slots :
                 t.state[p] = IF p = n THEN "RUNNING"
                              ELSE IF Preempted(s, p) THEN "READY" ELSE s.state[p]
          /\ \A p \in Slots \ {Idle} :
                 OnQueue(t, p) <=> p # n /\ (OnQueue(s, p) \/ Preempted(s, p))
      BY <2>1 DEF Switched
    <2>3. Resting(t)
      <3>1. t.state[n] = "RUNNING"
        BY <2>2
      <3>2. n # Idle => ~OnQueue(t, n)
        BY <2>2
      <3>3. QED
        BY <2>1, <2>2, <3>1, <3>2 DEF Resting, MaySchedule, RunsOnly
    <2>4. ASSUME NEW p \in Processes
          PROVE  /\ Contains(w, p) => /\ c[p] = "waiting" /\ ~OnQueue(t, p) /\ p # n
                                      /\ t.state[p] \in {"BLOCKED", "READY"}
                 /\ c[p] = "waiting" /\ ~Contains(w, p) =>
                        OnQueue(t, p) \/ (p = t.current /\ t.state[p] = "RUNNING")
      <3>1. p \in Slots /\ p # Idle
        BY ProcessSlots
      <3>2. ASSUME Contains(w, p)
            PROVE  /\ c[p] = "waiting" /\ ~OnQueue(t, p) /\ p # n
                   /\ t.state[p] \in {"BLOCKED", "READY"}
        <4>1. c[p] = "waiting" /\ ~OnQueue(s, p) /\ s.state[p] \in {"BLOCKED", "READY"}
          BY <3>2 DEF Placed
        <4>2. p # n
          BY <2>2, <3>1, <4>1
        <4>3. ~Preempted(s, p)
          BY <4>1 DEF Preempted
        <4>4. QED
          BY <2>2, <3>1, <4>1, <4>2, <4>3
      <3>3. ASSUME c[p] = "waiting", ~Contains(w, p)
            PROVE  OnQueue(t, p) \/ (p = t.current /\ t.state[p] = "RUNNING")
        <4>1. OnQueue(s, p) \/ Preempted(s, p)
          BY <3>3 DEF Placed, Preempted
        <4>2. QED
          BY <2>2, <3>1, <4>1
      <3>4. QED
        BY <3>2, <3>3
    <2>5. QED
      BY <2>2, <2>3, <2>4 DEF Placed, t
  <1>3. QED
    BY <1>1, <1>2, ScheduleSwitches
-----------------------------------------------------------------------------
Once(w) == \A i, j \in DOMAIN w : w[i] = w[j] => i = j

(* The list of a wait that begins: it holds the process too, once, and is  *)
(* sorted by the priorities as inherited.                                  *)
LEMMA EnqueuedFacts ==
    ASSUME TypeOK, Once(waiting), WaitersInPriorityOrder, NEW p \in Processes,
           ~Contains(waiting, p), NEW t \in Nat, Enqueued(p, t)
    PROVE  /\ priority' \in [Processes -> 1 .. 3] /\ waiting' \in Seq(Processes)
           /\ active_timeouts' \in Seq(Entry) /\ Len(active_timeouts') <= MAX_PROCESSES
           /\ deadline' \in [Processes -> Nat]
           /\ \A q \in Processes : Contains(waiting', q) <=> Contains(waiting, q) \/ q = p
           /\ Once(waiting') /\ WaitersInPriorityOrder'
  <1> DEFINE w == waiting
             n == Len(w)
             prio == Inherited(p)
             k == InsertPos(prio)
  <1>1. /\ priority \in [Processes -> 1 .. 3] /\ w \in Seq(Processes)
        /\ active_timeouts \in Seq(Entry) /\ Len(active_timeouts) <= MAX_PROCESSES
        /\ deadline \in [Processes -> Nat] /\ system_ticks \in Nat
    BY DEF TypeOK, Entry
  <1>2. /\ n \in Nat /\ DOMAIN w = 1 .. n
        /\ \A i \in 1 .. n : w[i] \in Processes /\ w[i] # p
    BY <1>1 DEF Contains
  <1>3. \A q \in Processes : priority[q] \in 1 .. 3
    BY <1>1
  <1>4. prio \in 1 .. 3
    <2> DEFINE ranks == {priority[w[i]] : i \in DOMAIN w} \cup {priority[p]}
    <2>1. ranks \in SUBSET (1 .. 3) /\ ranks # {}
      BY <1>2, <1>3
    <2>2. \E r \in ranks : \A q \in ranks : r <= q
      BY <2>1, LeastElement
    <2>3. prio = CHOOSE r \in ranks : \A q \in ranks : r <= q
      BY Zenon DEF Inherited
    <2> HIDE DEF ranks, prio
    <2>4. prio \in ranks
      BY <2>2, <2>3
    <2>5. QED
      BY <2>1, <2>4
  <1>5. /\ k \in 1 .. (n + 1)
        /\ \A i \in 1 .. n : i < k => priority[w[i]] <= prio
        /\ \A i \in 1 .. n : i >= k => prio <= priority[w[i]]
    <2> HIDE DEF prio
    <2> DEFINE behind == {i \in DOMAIN w : prio < priority[w[i]]}
               first == CHOOSE i \in behind : \A j \in behind : i <= j
    <2>1. k = IF behind = {} THEN n + 1 ELSE first
      BY Zenon DEF InsertPos
    <2>2. \A i \in 1 .. n : i \notin behind => priority[w[i]] <= prio
      BY <1>2, <1>3, <1>4
    <2>3. CASE behind = {}
      BY <1>2, <2>1, <2>2, <2>3
    <2>4. CASE behind # {}
      <3>1. behind \in SUBSET Nat
        BY <1>2
      <3>2. \E i \in behind : \A j \in behind : i <= j
        BY <2>4, <3>1, LeastElement
      <3>3. first \in behind /\ \A j \in behind : first <= j
        BY <3>2
      <3> HIDE DEF first, k
      <3>4. k = first /\ k \in 1 .. n /\ prio < priority[w[k]]
        BY <1>2, <2>1, <2>4, <3>3
      <3>5. \A i \in 1 .. n : i < k => i \notin behind
        BY <1>2, <3>3, <3>4
      <3>6. \A i \in 1 .. n : i > k => priority[w[k]] <= priority[w[i]]
        BY <1>2, <3>4 DEF WaitersInPriorityOrder
      <3>7. \A i \in 1 .. n : i >= k => prio <= priority[w[i]]
        BY <1>2, <1>3, <1>4, <3>4, <3>6
      <3>8. QED
        BY <1>2, <2>2, <3>4, <3>5, <3>7
    <2>5. QED
      BY <2>3, <2>4
  <1>6. /\ priority' = [priority EXCEPT ![p] = prio]
        /\ waiting' = InsertAt(w, k, p)
        /\ deadline' = [deadline EXCEPT ![p] = IF t > 0 THEN system_ticks + t ELSE 0]
        /\ \/ active_timeouts' = active_timeouts
           \/ /\ Len(active_timeouts) < MAX_PROCESSES
              /\ active_timeouts' = Append(active_timeouts, [proc |-> p, at |-> system_ticks + t])
    BY DEF Enqueued
  <1> HIDE DEF prio, k, n
  <1>7. /\ priority' \in [Processes -> 1 .. 3]
        /\ priority'[p] = prio /\ \A q \in Processes : q # p => priority'[q] = priority[q]
    BY <1>1, <1>4, <1>6
  <1>8. deadline' \in [Processes -> Nat]
    BY <1>1, <1>6
  <1>9. active_timeouts' \in Seq(Entry) /\ Len(active_timeouts') <= MAX_PROCESSES
    <2>1. CASE active_timeouts' = active_timeouts
      BY <1>1, <2>1
    <2>2. CASE /\ Len(active_timeouts) < MAX_PROCESSES
               /\ active_timeouts' = Append(active_timeouts, [proc |-> p, at |-> system_ticks + t])
      <3>1. [proc |-> p, at |-> system_ticks + t] \in Entry
        BY <1>1 DEF Entry
      <3>2. /\ active_timeouts' \in Seq(Entry) /\ Len(active_timeouts) \in Nat
            /\ Len(active_timeouts') = Len(active_timeouts) + 1
        BY <1>1, <2>2, <3>1
      <3>3. QED
        BY <2>2, <3>2, SchedOpsAssumption
    <2>3. QED
      BY <1>6, <2>1, <2>2
  <1>10. Inserted(Processes, waiting', w, k, p)
    BY <1>1, <1>5, <1>6, InsertAtFacts DEF n
  <1> DEFINE old(j) == IF j < k THEN j ELSE j - 1
             new(i) == IF i < k THEN i ELSE i + 1
  <1>11. /\ k \in DOMAIN waiting' /\ waiting'[k] = p
         /\ \A j \in DOMAIN waiting' \ {k} : old(j) \in DOMAIN w /\ waiting'[j] = w[old(j)]
         /\ \A i \in DOMAIN w : new(i) \in DOMAIN waiting' \ {k} /\ waiting'[new(i)] = w[i]
    BY <1>1, <1>5, <1>10, InsertedElements DEF n
  <1>12. /\ waiting' \in Seq(Processes) /\ DOMAIN waiting' = 1 .. (n + 1)
         /\ DOMAIN waiting' = 1 .. Len(waiting')
    <2>1. waiting' \in Seq(Processes) /\ Len(waiting') = n + 1
      BY <1>10 DEF Inserted, n
    <2>2. QED
      BY <2>1
  <1>13. ASSUME NEW q \in Processes
         PROVE  Contains(waiting', q) <=> Contains(w, q) \/ q = p
    <2>1. Contains(waiting', q) <=> \E j \in DOMAIN waiting' : waiting'[j] = q
      BY <1>12 DEF Contains
    <2>2. Contains(w, q) <=> \E i \in DOMAIN w : w[i] = q
      BY <1>2 DEF Contains, n
    <2> HIDE DEF old, new
    <2>3. QED
      BY <1>11, <2>1, <2>2
  <1>14. \A i, j \in DOMAIN waiting' \ {k} : /\ old(i) = old(j) => i = j
                                             /\ i < j => old(i) < old(j)
    BY <1>2, <1>5, <1>12
  <1>15. \A j \in DOMAIN waiting' \ {k} : /\ j < k => old(j) < k
                                          /\ j > k => old(j) >= k
    BY <1>2, <1>5, <1>12
  <1> HIDE DEF old, new
  <1>16. Once(waiting')
    <2> SUFFICES ASSUME NEW i \in DOMAIN waiting', NEW j \in DOMAIN waiting',
                        waiting'[i] = waiting'[j]
                 PROVE  i = j
      BY DEF Once
    <2>1. CASE i = k \/ j = k
      BY <2>1, <1>2, <1>11
    <2>2. CASE i # k /\ j # k
      <3>1. i \in DOMAIN waiting' \ {k} /\ j \in DOMAIN waiting' \ {k}
        BY <2>2
      <3>2. /\ old(i) \in DOMAIN w /\ waiting'[i] = w[old(i)]
            /\ old(j) \in DOMAIN w /\ waiting'[j] = w[old(j)]
        BY <1>11, <3>1
      <3>3. old(i) = old(j)
        BY <3>2 DEF Once
      <3>4. QED
        BY <1>14, <3>1, <3>3
    <2>3. QED
      BY <2>1, <2>2
  <1>17. \A j \in DOMAIN waiting' \ {k} : priority'[waiting'[j]] = priority[w[old(j)]]
    BY <1>2, <1>7, <1>11
  <1>18. WaitersInPriorityOrder'
    <2> SUFFICES ASSUME NEW i \in DOMAIN waiting', NEW j \in DOMAIN waiting', i < j
                 PROVE  priority'[waiting'[i]] <= priority'[waiting'[j]]
      BY DEF WaitersInPriorityOrder
    <2>1. CASE i = k
      <3>1. j # k /\ j > k
        BY <2>1, <1>12
      <3>4. j \in DOMAIN waiting' \ {k}
        BY <3>1
      <3>5. old(j) \in 1 .. n /\ old(j) >= k
        BY <3>1, <3>4, <1>2, <1>11, <1>15
      <3>2. prio <= priority[w[old(j)]]
        BY <3>5, <1>5
      <3>3. QED
        BY <2>1, <3>1, <3>2, <1>7, <1>11, <1>17
    <2>2. CASE j = k
      <3>1. i # k /\ i < k
        BY <2>2, <1>12
      <3>4. i \in DOMAIN waiting' \ {k}
        BY <3>1
      <3>5. old(i) \in 1 .. n /\ old(i) < k
        BY <3>1, <3>4, <1>2, <1>11, <1>15
      <3>2. priority[w[old(i)]] <= prio
        BY <3>5, <1>5
      <3>3. QED
        BY <2>2, <3>1, <3>2, <1>7, <1>11, <1>17
    <2>3. CASE i # k /\ j # k
      <3>3. i \in DOMAIN waiting' \ {k} /\ j \in DOMAIN waiting' \ {k}
        BY <2>3
      <3>1. old(i) < old(j) /\ old(i) \in DOMAIN w /\ old(j) \in DOMAIN w
        BY <3>3, <1>11, <1>14
      <3>2. QED
        BY <2>3, <3>1, <1>17 DEF WaitersInPriorityOrder
    <2>4. QED
      BY <2>1, <2>2, <2>3
  <1>19. QED
    BY <1>7, <1>8, <1>9, <1>12, <1>13, <1>16, <1>18

(* The list without the process at its head. *)
LEMMA TailFacts ==
    ASSUME NEW w \in Seq(Processes), w # <<>>, Once(w)
    PROVE  /\ Head(w) \in Processes /\ Contains(w, Head(w)) /\ Tail(w) \in Seq(Processes)
           /\ \A q \in Processes : Contains(Tail(w), q) <=> Contains(w, q) /\ q # Head(w)
           /\ DOMAIN Tail(w) = 1 .. (Len(w) - 1)
           /\ \A i \in DOMAIN Tail(w) : i + 1 \in DOMAIN w /\ Tail(w)[i] = w[i + 1]
  <1> DEFINE v == Tail(w)
             n == Len(w)
  <1>1. /\ n \in Nat /\ n > 0 /\ DOMAIN w = 1 .. n
        /\ v \in Seq(Processes) /\ DOMAIN v = 1 .. (n - 1) /\ Len(v) = n - 1
        /\ Head(w) = w[1]
    OBVIOUS
  <1>2. \A i \in 1 .. (n - 1) : v[i] = w[i + 1]
    OBVIOUS
  <1>3. \A i \in 1 .. n : w[i] \in Processes
    OBVIOUS
  <1> HIDE DEF v, n
  <1>4. \A i \in DOMAIN v : i + 1 \in DOMAIN w /\ v[i] = w[i + 1] /\ i + 1 # 1
    BY <1>1, <1>2
  <1>5. \A i \in DOMAIN w : i # 1 => i - 1 \in DOMAIN v /\ v[i - 1] = w[i]
    BY <1>1, <1>2
  <1>6. 1 \in DOMAIN w
    BY <1>1
  <1>7. ASSUME NEW q \in Processes
        PROVE  Contains(v, q) <=> Contains(w, q) /\ q # Head(w)
    <2>1. Contains(v, q) <=> \E i \in DOMAIN v : v[i] = q
      BY <1>1 DEF Contains
    <2>2. Contains(w, q) <=> \E i \in DOMAIN w : w[i] = q
      BY <1>1 DEF Contains, n
    <2>3. \A i \in DOMAIN w : w[i] = w[1] => i = 1
      BY <1>6 DEF Once
    <2>4. ASSUME NEW i \in DOMAIN v, v[i] = q PROVE Contains(w, q) /\ q # Head(w)
      BY <1>1, <1>4, <2>2, <2>3, <2>4
    <2>5. ASSUME NEW i \in DOMAIN w, w[i] = q, q # Head(w) PROVE Contains(v, q)
      <3>1. i # 1
        BY <1>1, <2>5
      <3>2. QED
        BY <1>5, <2>1, <2>5, <3>1
    <2>6. QED
      BY <2>1, <2>2, <2>4, <2>5
  <1>8. Contains(w, Head(w))
    BY <1>1 DEF Contains, n
  <1>9. QED
    BY <1>1, <1>3, <1>4, <1>7, <1>8 DEF v, n
-----------------------------------------------------------------------------
LEMMA CreatedFacts == Filled(Created[MAX_PROCESSES - 1], MAX_PROCESSES - 1)
  <1>1. \A p \in Slots \ {Idle} : PriorityOf[p] \in Priorities
    BY SemaphoreAssumption DEF Processes
  <1>2. Created = CHOOSE f : IsCreated(f, PriorityOf)
    BY Zenon DEF Created, IsCreated
  <1>3. QED
    BY <1>1, <1>2, CreatedFilled
-----------------------------------------------------------------------------
HeldBy(h) == value = 0 /\ Holders = {h}

LockInv ==
    /\ pc \in [Processes -> {"user", "waiting", "critical"}]
    /\ \/ value = 1 /\ Holders = {}
       \/ \E h \in Processes : HeldBy(h)

(* While the lock is free, one of those who wait is on its way to it. *)
SomeoneAwake ==
    value > 0 /\ waiting # <<>> =>
        \E p \in Processes : pc[p] = "waiting" /\ ~Contains(waiting, p)

(* The inductive invariant.  The list and the scheduler's states hold each *)
(* other up: who is on the list is never run, and so never leaves its wait *)
(* without being taken off the list first.                                 *)
QueuesInv ==
    /\ Resting(sched)
    /\ Placed(sched, waiting, pc)
    /\ \A p \in Processes : Contains(waiting, p) => p # sched.current
    /\ Once(waiting)
    /\ WaitersInPriorityOrder
    /\ SomeoneAwake

IInv == TypeOK /\ LockInv /\ QueuesInv

(* What a step needs to know of the state before it. *)
LEMMA InvFacts ==
    ASSUME IInv
    PROVE  /\ Sane(sched) /\ sched \in SchedState /\ sched.current \in Slots
           /\ \A p \in Slots : sched.state[p] = "RUNNING" => p = sched.current
           /\ sched.current \in Processes => ~OnQueue(sched, sched.current)
           /\ \A p \in Processes :
                  sched.current = p => ~Contains(waiting, p) /\ sched.weight[p] > 0
           /\ \A p \in Processes :
                  sched.current = p /\ pc[p] = "waiting" => sched.state[p] = "RUNNING"
           /\ waiting \in Seq(Processes) /\ value \in Nat
           /\ priority \in [Processes -> 1 .. 3] /\ deadline \in [Processes -> Nat]
           /\ active_timeouts \in Seq(Entry) /\ Len(active_timeouts) <= MAX_PROCESSES
           /\ rt_ready_queue \in Seq(Processes) /\ Len(rt_ready_queue) <= MAX_PROCESSES
           /\ system_ticks \in Nat /\ pc \in [Processes -> {"user", "waiting", "critical"}]
  <1>1. /\ Sane(sched) /\ sched \in SchedState /\ sched.current \in Slots /\ WeightOK(sched)
        /\ \A p \in Slots : sched.state[p] = "RUNNING" => p = sched.current
        /\ sched.current \in Slots \ {Idle} => ~OnQueue(sched, sched.current)
        /\ sched.current # Idle => sched.state[sched.current] \in {"RUNNING", "READY"}
    BY DEF IInv, QueuesInv, Resting, MaySchedule, Sane
  <1>2. \A p \in Processes : Contains(waiting, p) => p # sched.current
    BY DEF IInv, QueuesInv
  <1>3. ASSUME NEW p \in Processes, sched.current = p
        PROVE  /\ ~Contains(waiting, p) /\ sched.weight[p] > 0
               /\ pc[p] = "waiting" => sched.state[p] = "RUNNING"
    <2>1. p \in Slots /\ p # Idle /\ sched.state[p] # "UNUSED"
      BY <1>1, <1>3, ProcessSlots
    <2>2. pc[p] = "waiting" => OnQueue(sched, p) \/ sched.state[p] = "RUNNING"
      BY <1>2, <1>3 DEF IInv, QueuesInv, Placed
    <2>3. QED
      BY <1>1, <1>2, <1>3, <2>1, <2>2 DEF WeightOK
  <1>4. /\ waiting \in Seq(Processes) /\ value \in Nat
        /\ priority \in [Processes -> 1 .. 3] /\ deadline \in [Processes -> Nat]
        /\ active_timeouts \in Seq(Entry) /\ Len(active_timeouts) <= MAX_PROCESSES
        /\ rt_ready_queue \in Seq(Processes) /\ Len(rt_ready_queue) <= MAX_PROCESSES
        /\ system_ticks \in Nat /\ pc \in [Processes -> {"user", "waiting", "critical"}]
    BY DEF IInv, TypeOK, Entry
  <1>5. sched.current \in Processes => ~OnQueue(sched, sched.current)
    BY <1>1, ProcessSlots
  <1>6. QED
    BY <1>1, <1>3, <1>4, <1>5
-----------------------------------------------------------------------------
(* Who takes the lock found it free. *)
LEMMA TakeKeeps ==
    ASSUME LockInv, NEW p \in Processes, value > 0, value' = value - 1,
           pc' = [pc EXCEPT ![p] = "critical"]
    PROVE  LockInv'
<1>1. value = 1 /\ Holders = {}
  BY DEF LockInv, HeldBy
<1>2. value' = 0
  BY <1>1
<1>3. Holders' = {p}
  BY <1>1 DEF LockInv, Holders
<1>4. HeldBy(p)'
  BY <1>2, <1>3 DEF HeldBy
<1> QED
  BY <1>4 DEF LockInv

(* Who does not have the lock and moves on without it changes nothing. *)
LEMMA MoveKeeps ==
    ASSUME LockInv, NEW p \in Processes, pc[p] # "critical", value' = value,
           NEW where \in {"user", "waiting"}, pc' = [pc EXCEPT ![p] = where]
    PROVE  LockInv'
<1>1. Holders' = Holders
  BY DEF LockInv, Holders
<1>2. pc' \in [Processes -> {"user", "waiting", "critical"}]
  BY DEF LockInv
<1> QED
  BY <1>1, <1>2 DEF LockInv, HeldBy

LEMMA StandKeeps ==
    ASSUME LockInv, UNCHANGED <<value, pc>>
    PROVE  LockInv'
<1>1. Holders' = Holders
  BY DEF Holders
<1> QED
  BY <1>1 DEF LockInv, HeldBy

LEMMA SignalKeeps ==
    ASSUME LockInv, NEW p \in Processes, SemSignal(p)
    PROVE  LockInv'
<1>1. pc[p] = "critical" /\ value' = value + 1 /\ pc' = [pc EXCEPT ![p] = "user"]
  BY DEF SemSignal
<1>2. p \in Holders
  BY <1>1 DEF Holders
<1>3. value = 0 /\ Holders = {p}
  BY <1>2 DEF LockInv, HeldBy
<1>4. value' = 1
  BY <1>1, <1>3
<1>5. Holders' = {}
  BY <1>1, <1>3 DEF LockInv, Holders
<1> QED
  BY <1>1, <1>4, <1>5 DEF LockInv

LEMMA ResumeKeeps ==
    ASSUME LockInv, NEW p \in Processes, NEW d, SemResume(p, d)
    PROVE  LockInv'
<1>1. pc[p] = "waiting"
  BY DEF SemResume
<1>2. \/ Available /\ value' = value - 1 /\ pc' = [pc EXCEPT ![p] = "critical"]
      \/ \E s : GiveUp(p, s)
      \/ UNCHANGED <<value, pc>>
  BY DEF SemResume
<1>3. CASE Available /\ value' = value - 1 /\ pc' = [pc EXCEPT ![p] = "critical"]
  BY <1>3, TakeKeeps DEF Available
<1>4. CASE \E s : GiveUp(p, s)
  BY <1>1, <1>4, MoveKeeps DEF GiveUp
<1>5. CASE UNCHANGED <<value, pc>>
  BY <1>5, StandKeeps
<1> QED
  BY <1>2, <1>3, <1>4, <1>5

LEMMA WaitKeeps ==
    ASSUME LockInv, NEW p \in Processes, NEW t, NEW d, SemWait(p, t, d)
    PROVE  LockInv'
<1>1. pc[p] = "user"
  BY DEF SemWait
<1>2. CASE value > 0
  BY <1>2, TakeKeeps DEF SemWait
<1>3. CASE ~(value > 0)
  <2>1. value' = value /\ pc' = [pc EXCEPT ![p] = "waiting"]
    BY <1>3 DEF SemWait
  <2> QED
    BY <1>1, <2>1, MoveKeeps
<1> QED
  BY <1>2, <1>3
-----------------------------------------------------------------------------
(* Unchanged lists, whatever the scheduler does. *)
LEMMA ListsStand ==
    ASSUME IInv, UNCHANGED <<value, waiting, priority, pc>>
    PROVE  Once(waiting') /\ WaitersInPriorityOrder' /\ SomeoneAwake'
  <1>1. Once(waiting) /\ WaitersInPriorityOrder /\ SomeoneAwake
    BY DEF IInv, QueuesInv
  <1>2. QED
    BY <1>1 DEF WaitersInPriorityOrder, SomeoneAwake

LEMMA YieldStep ==
    ASSUME IInv, NEW d \in Deltas, Yield(d)
    PROVE  TypeOK' /\ QueuesInv'
  <1>1. sched' = Schedule(sched, d) /\ UNCHANGED <<value, waiting, priority, ipcVars, pc, deadline>>
    BY DEF Yield
  <1>2. MaySchedule(sched) /\ Placed(sched, waiting, pc) /\ sched.current \in Slots
    BY DEF IInv, QueuesInv, Resting
  <1>3. d \in Nat
    BY SemaphoreAssumption
  <1>4. /\ Resting(sched') /\ Placed(sched', waiting, pc)
        /\ \A p \in Processes : Contains(waiting, p) => p # sched'.current
    BY <1>1, <1>2, <1>3, SwitchKeeps
  <1>5. QueuesInv'
    BY <1>1, <1>4, ListsStand DEF QueuesInv
  <1>6. TypeOK'
    BY <1>1, <1>4 DEF IInv, TypeOK, Resting, ipcVars
  <1>7. QED
    BY <1>5, <1>6

(* What the check of the timeouts gives a step. *)
LEMMA CheckedFacts ==
    ASSUME IInv, NEW now \in Nat
    PROVE  LET c == CheckTimeouts(sched, now)
           IN  /\ Resting(c.s) /\ Placed(c.s, waiting, pc) /\ c.s.current = sched.current
               /\ \A p \in Slots : OnQueue(c.s, p) <=> OnQueue(sched, p)
               /\ \A p \in Slots : sched.state[p] = "RUNNING" => c.s.state[p] = "RUNNING"
               /\ c.q \in Seq(Processes) /\ Len(c.q) <= MAX_PROCESSES
               /\ c.left \in Seq(Entry) /\ Len(c.left) <= MAX_PROCESSES
  <1> DEFINE c == CheckTimeouts(sched, now)
  <1>1. TypeOK /\ sched \in SchedState /\ Resting(sched) /\ Placed(sched, waiting, pc)
    BY InvFacts DEF IInv, QueuesInv
  <1>2. /\ Relaxed(c.s, sched)
        /\ c.q \in Seq(Processes) /\ Len(c.q) <= MAX_PROCESSES
        /\ c.left \in Seq(Entry) /\ Len(c.left) <= MAX_PROCESSES
    BY <1>1, CheckTimeoutsFacts
  <1> HIDE DEF c
  <1>3. /\ Resting(c.s)
        /\ \A p \in Slots : OnQueue(c.s, p) <=> OnQueue(sched, p)
        /\ \A p \in Slots : sched.state[p] = "RUNNING" => c.s.state[p] = "RUNNING"
        /\ \A w, x : Placed(sched, w, x) => Placed(c.s, w, x)
    BY <1>1, <1>2, RelaxedKeeps
  <1>4. c.s.current = sched.current
    BY <1>2 DEF Relaxed
  <1>5. QED
    BY <1>1, <1>2, <1>3, <1>4 DEF c

LEMMA TickStep ==
    ASSUME IInv, Tick
    PROVE  TypeOK' /\ QueuesInv'
  <1> DEFINE now == system_ticks + 1
             c == CheckTimeouts(sched, now)
  <1>1. /\ system_ticks' = now /\ sched' = c.s /\ rt_ready_queue' = c.q
        /\ active_timeouts' = c.left /\ UNCHANGED <<value, waiting, priority, pc, deadline>>
    BY DEF Tick
  <1>2. now \in Nat
    BY InvFacts
  <1> HIDE DEF now
  <1>3. /\ Resting(c.s) /\ Placed(c.s, waiting, pc) /\ c.s.current = sched.current
        /\ c.q \in Seq(Processes) /\ Len(c.q) <= MAX_PROCESSES
        /\ c.left \in Seq(Entry) /\ Len(c.left) <= MAX_PROCESSES
    BY <1>2, CheckedFacts
  <1> HIDE DEF c
  <1>4. \A p \in Processes : Contains(waiting, p) => p # sched'.current
    BY <1>1, <1>3 DEF IInv, QueuesInv
  <1>5. QueuesInv'
    BY <1>1, <1>3, <1>4, ListsStand DEF QueuesInv
  <1>6. TypeOK'
    BY <1>1, <1>2, <1>3 DEF IInv, TypeOK, Resting, Entry
  <1>7. QED
    BY <1>5, <1>6

(* A process that is current and not listed goes on outside of the wait. *)
LEMMA LeaveKeeps ==
    ASSUME IInv, NEW s, NEW p \in Processes, sched.current = p, s.current = p,
           Placed(s, waiting, pc), NEW where \in {"user", "critical"}
    PROVE  Placed(s, waiting, [pc EXCEPT ![p] = where])
  <1> DEFINE x == [pc EXCEPT ![p] = where]
  <1>1. ~Contains(waiting, p) /\ pc \in [Processes -> {"user", "waiting", "critical"}]
    BY InvFacts
  <1>2. x[p] = where /\ where # "waiting" /\ \A q \in Processes : q # p => x[q] = pc[q]
    BY <1>1
  <1> HIDE DEF x
  <1>3. Placed(s, waiting, x)
    BY <1>1, <1>2 DEF Placed
  <1>4. QED
    BY <1>3 DEF x

(* While the semaphore has the value 0, nobody need be awake; and the list *)
(* of a process that leaves stays as it is.                                *)
LEMMA SemWaitStep ==
    ASSUME IInv, LockInv', NEW p \in Processes, NEW t \in Timeouts, NEW d \in Deltas,
           SemWait(p, t, d)
    PROVE  TypeOK' /\ QueuesInv'
  <1>1. sched.current = p /\ pc[p] = "user" /\ UNCHANGED <<rt_ready_queue, system_ticks>>
    BY DEF SemWait
  <1>2. value' \in Nat /\ pc' \in [Processes -> {"user", "waiting", "critical"}]
    BY DEF LockInv, HeldBy
  <1>3. CASE value > 0
    <2>1. /\ value' = value - 1 /\ pc' = [pc EXCEPT ![p] = "critical"]
          /\ UNCHANGED <<sched, waiting, priority, active_timeouts, deadline>>
      BY <1>3 DEF SemWait
    <2>2. Placed(sched', waiting', pc')
      BY <1>1, <2>1, LeaveKeeps DEF IInv, QueuesInv
    <2>3. ~(value' > 0)
      BY <1>3, <2>1 DEF IInv, LockInv, HeldBy
    <2>4. QueuesInv'
      BY <2>1, <2>2, <2>3 DEF IInv, QueuesInv, SomeoneAwake, WaitersInPriorityOrder
    <2>5. TypeOK'
      BY <1>1, <1>2, <2>1 DEF IInv, TypeOK
    <2>6. QED
      BY <2>4, <2>5
  <1>4. CASE ~(value > 0)
    <2> DEFINE b == Block(sched)
    <2>1. /\ Enqueued(p, t) /\ sched' = Schedule(b, d)
          /\ pc' = [pc EXCEPT ![p] = "waiting"] /\ UNCHANGED value
      BY <1>4 DEF SemWait
    <2>2. t \in Nat /\ d \in Nat /\ p \in Slots /\ p # Idle
      BY SemaphoreAssumption, ProcessSlots
    <2>3. /\ Sane(sched) /\ sched \in SchedState /\ ~OnQueue(sched, p) /\ ~Contains(waiting, p)
          /\ sched.weight[p] > 0 /\ pc \in [Processes -> {"user", "waiting", "critical"}]
          /\ \A q \in Slots : sched.state[q] = "RUNNING" => q = p
          /\ waiting \in Seq(Processes)
      BY <1>1, InvFacts
    <2>4. /\ priority' \in [Processes -> 1 .. 3] /\ waiting' \in Seq(Processes)
          /\ active_timeouts' \in Seq(Entry) /\ Len(active_timeouts') <= MAX_PROCESSES
          /\ deadline' \in [Processes -> Nat]
          /\ \A q \in Processes : Contains(waiting', q) <=> Contains(waiting, q) \/ q = p
          /\ Once(waiting') /\ WaitersInPriorityOrder'
      <3>1. TypeOK /\ Once(waiting) /\ WaitersInPriorityOrder
        BY DEF IInv, QueuesInv
      <3>2. QED
        BY <2>1, <2>2, <2>3, <3>1, EnqueuedFacts
    <2>5. Sane(b)
      <3>1. "BLOCKED" \in States
        BY DEF States
      <3>2. QED
        BY <1>1, <2>2, <2>3, <3>1, SetStateSane DEF Block
    <2>6. /\ b.current = p /\ b.rq = sched.rq
          /\ \A q \in Slots : b.state[q] = IF q = p THEN "BLOCKED" ELSE sched.state[q]
      BY <1>1, <2>2, <2>3 DEF SchedState, Block
    <2> HIDE DEF b
    <2>7. \A q \in Slots : OnQueue(b, q) <=> OnQueue(sched, q)
      BY <2>6 DEF OnQueue
    <2>8. MaySchedule(b)
      BY <2>2, <2>3, <2>5, <2>6, <2>7 DEF MaySchedule
    <2>9. Placed(b, waiting', pc')
      <3> SUFFICES ASSUME NEW q \in Processes
                   PROVE  /\ Contains(waiting', q) => /\ pc'[q] = "waiting" /\ ~OnQueue(b, q)
                                                      /\ b.state[q] \in {"BLOCKED", "READY"}
                          /\ pc'[q] = "waiting" /\ ~Contains(waiting', q) =>
                                 OnQueue(b, q) \/ (q = b.current /\ b.state[q] = "RUNNING")
        BY DEF Placed
      <3>1. q \in Slots
        BY ProcessSlots
      <3>2. CASE q = p
        BY <2>1, <2>2, <2>3, <2>4, <2>6, <2>7, <3>2
      <3>3. CASE q # p
        <4>1. pc'[q] = pc[q] /\ b.state[q] = sched.state[q] /\ (OnQueue(b, q) <=> OnQueue(sched, q))
          BY <2>1, <2>3, <2>6, <2>7, <3>1, <3>3
        <4>2. /\ Contains(waiting, q) => /\ pc[q] = "waiting" /\ ~OnQueue(sched, q)
                                         /\ sched.state[q] \in {"BLOCKED", "READY"}
              /\ pc[q] = "waiting" /\ ~Contains(waiting, q) =>
                     OnQueue(sched, q) \/ (q = sched.current /\ sched.state[q] = "RUNNING")
          BY DEF IInv, QueuesInv, Placed
        <4>3. QED
          BY <1>1, <2>4, <3>3, <4>1, <4>2
      <3>4. QED
        BY <3>2, <3>3
    <2>10. /\ Resting(sched') /\ Placed(sched', waiting', pc')
           /\ \A q \in Processes : Contains(waiting', q) => q # sched'.current
      BY <2>1, <2>2, <2>6, <2>8, <2>9, SwitchKeeps
    <2>11. SomeoneAwake'
      BY <1>4, <2>1 DEF SomeoneAwake
    <2>12. QueuesInv'
      BY <2>4, <2>10, <2>11 DEF QueuesInv
    <2>13. TypeOK'
      <3>1. sched'.current \in Slots
        BY <2>10 DEF Resting
      <3>2. rt_ready_queue \in Seq(Processes) /\ Len(rt_ready_queue) <= MAX_PROCESSES
            /\ system_ticks \in Nat
        BY InvFacts
      <3>3. QED
        BY <1>1, <1>2, <2>4, <3>1, <3>2 DEF TypeOK, Entry
    <2>14. QED
      BY <2>12, <2>13
  <1>5. QED
    BY <1>3, <1>4

LEMMA SemSignalStep ==
    ASSUME IInv, LockInv', NEW p \in Processes, SemSignal(p)
    PROVE  TypeOK' /\ QueuesInv'
  <1>1. /\ sched.current = p /\ pc[p] = "critical" /\ pc' = [pc EXCEPT ![p] = "user"]
        /\ UNCHANGED <<priority, ipcVars, deadline>>
    BY DEF SemSignal
  <1>2. value' \in Nat /\ pc' \in [Processes -> {"user", "waiting", "critical"}]
    BY DEF LockInv, HeldBy
  <1>3. Placed(sched, waiting, pc')
    BY <1>1, LeaveKeeps DEF IInv, QueuesInv
  <1>4. CASE waiting = <<>>
    <2>1. UNCHANGED <<sched, waiting>>
      BY <1>4 DEF SemSignal
    <2>2. QueuesInv'
      BY <1>1, <1>3, <1>4, <2>1 DEF IInv, QueuesInv, SomeoneAwake, WaitersInPriorityOrder
    <2>3. TypeOK'
      BY <1>1, <1>2, <2>1 DEF IInv, TypeOK, ipcVars
    <2>4. QED
      BY <2>2, <2>3
  <1>5. CASE waiting # <<>>
    <2> DEFINE h == Head(waiting)
               w == Tail(waiting)
               s == CfsEnqueue(sched, h)
    <2>1. sched' = s /\ waiting' = w
      BY <1>5 DEF SemSignal, WakeUp
    <2>2. waiting \in Seq(Processes) /\ Once(waiting)
      BY InvFacts DEF IInv, QueuesInv
    <2>3. /\ h \in Processes /\ Contains(waiting, h) /\ w \in Seq(Processes)
          /\ \A q \in Processes : Contains(w, q) <=> Contains(waiting, q) /\ q # h
          /\ \A i \in DOMAIN w : i + 1 \in DOMAIN waiting /\ w[i] = waiting[i + 1]
          /\ DOMAIN w = 1 .. (Len(waiting) - 1)
      BY <1>5, <2>2, TailFacts
    <2> HIDE DEF h, w
    <2>4. /\ pc[h] = "waiting" /\ ~OnQueue(sched, h) /\ sched.state[h] \in {"BLOCKED", "READY"}
          /\ h \in Slots /\ h # Idle /\ h # sched.current /\ h # p
      BY <1>1, <2>3, ProcessSlots DEF IInv, QueuesInv, Placed
    <2>5. /\ Sane(sched) /\ sched \in SchedState /\ sched.weight[h] > 0
          /\ pc \in [Processes -> {"user", "waiting", "critical"}]
      BY <2>4, InvFacts DEF Sane, WeightOK
    <2>6. Sane(s)
      BY <2>4, <2>5, EnqueueSane
    <2>7. /\ s.current = sched.current
          /\ \A q \in Slots : s.state[q] = IF q = h THEN "READY" ELSE sched.state[q]
          /\ \A q \in Slots : OnQueue(s, q) <=> OnQueue(sched, q) \/ q = h
      BY <2>4, <2>5, CfsFields, EnqueueAdds
    <2> HIDE DEF s
    <2>8. Resting(s)
      BY <2>4, <2>6, <2>7, SlotFacts DEF IInv, QueuesInv, Resting, MaySchedule
    <2>9. Placed(s, w, pc')
      <3> SUFFICES ASSUME NEW q \in Processes
                   PROVE  /\ Contains(w, q) => /\ pc'[q] = "waiting" /\ ~OnQueue(s, q)
                                               /\ s.state[q] \in {"BLOCKED", "READY"}
                          /\ pc'[q] = "waiting" /\ ~Contains(w, q) =>
                                 OnQueue(s, q) \/ (q = s.current /\ s.state[q] = "RUNNING")
        BY DEF Placed
      <3>1. q \in Slots
        BY ProcessSlots
      <3>2. CASE q = h
        BY <2>3, <2>7, <3>1, <3>2
      <3>3. CASE q # h
        BY <1>3, <2>3, <2>7, <3>1, <3>3 DEF Placed
      <3>4. QED
        BY <3>2, <3>3
    <2>10. \A q \in Processes : Contains(w, q) => q # s.current
      BY <2>3, <2>7 DEF IInv, QueuesInv
    <2>11. Len(waiting) \in Nat /\ DOMAIN waiting = 1 .. Len(waiting)
      BY <2>2
    <2>12. Once(w)
      <3> SUFFICES ASSUME NEW i \in DOMAIN w, NEW j \in DOMAIN w, w[i] = w[j]
                   PROVE  i = j
        BY DEF Once
      <3>1. i + 1 = j + 1
        BY <2>2, <2>3 DEF Once
      <3>2. QED
        BY <2>3, <2>11, <3>1
    <2>13. WaitersInPriorityOrder'
      <3> SUFFICES ASSUME NEW i \in DOMAIN w, NEW j \in DOMAIN w, i < j
                   PROVE  priority[w[i]] <= priority[w[j]]
        BY <1>1, <2>1 DEF WaitersInPriorityOrder
      <3>1. i + 1 < j + 1
        BY <2>3, <2>11
      <3>2. QED
        BY <2>3, <3>1 DEF IInv, QueuesInv, WaitersInPriorityOrder
    <2>14. SomeoneAwake'
      <3>1. pc'[h] = "waiting" /\ ~Contains(w, h)
        BY <1>1, <2>3, <2>4, <2>5
      <3>2. QED
        BY <2>1, <2>3, <3>1 DEF SomeoneAwake
    <2>15. QueuesInv'
      BY <2>1, <2>8, <2>9, <2>10, <2>12, <2>13, <2>14 DEF QueuesInv
    <2>16. TypeOK'
      <3>1. sched'.current \in Slots
        BY <2>1, <2>8 DEF Resting
      <3>2. QED
        BY <1>1, <1>2, <2>1, <2>3, <3>1 DEF IInv, TypeOK, ipcVars
    <2>17. QED
      BY <2>15, <2>16
  <1>6. QED
    BY <1>4, <1>5

LEMMA SemResumeStep ==
    ASSUME IInv, LockInv', NEW p \in Processes, NEW d \in Deltas, SemResume(p, d)
    PROVE  TypeOK' /\ QueuesInv'
  <1> DEFINE c == CheckTimeouts(sched, system_ticks)
  <1>1. /\ sched.current = p /\ pc[p] = "waiting"
        /\ rt_ready_queue' = c.q /\ active_timeouts' = c.left
        /\ UNCHANGED <<priority, system_ticks>>
    BY DEF SemResume
  <1>2. value' \in Nat /\ pc' \in [Processes -> {"user", "waiting", "critical"}]
    BY DEF LockInv, HeldBy
  <1>3. /\ Resting(c.s) /\ Placed(c.s, waiting, pc) /\ c.s.current = sched.current
        /\ \A q \in Slots : OnQueue(c.s, q) <=> OnQueue(sched, q)
        /\ \A q \in Slots : sched.state[q] = "RUNNING" => c.s.state[q] = "RUNNING"
        /\ c.q \in Seq(Processes) /\ Len(c.q) <= MAX_PROCESSES
        /\ c.left \in Seq(Entry) /\ Len(c.left) <= MAX_PROCESSES
    BY InvFacts, CheckedFacts
  <1>4. \/ /\ Available /\ value' = value - 1 /\ pc' = [pc EXCEPT ![p] = "critical"]
           /\ deadline' = [deadline EXCEPT ![p] = 0] /\ sched' = c.s /\ UNCHANGED waiting
        \/ ~Available /\ GiveUp(p, c.s)
        \/ /\ ~Available /\ sched' = Schedule(c.s, d)
           /\ UNCHANGED <<value, waiting, pc, deadline>>
    BY DEF SemResume
  <1> HIDE DEF c
  <1>5. /\ p \in Slots /\ p # Idle /\ d \in Nat /\ ~Contains(waiting, p)
        /\ ~OnQueue(sched, p) /\ sched.state[p] = "RUNNING"
        /\ waiting \in Seq(Processes) /\ priority \in [Processes -> 1 .. 3]
        /\ deadline \in [Processes -> Nat] /\ system_ticks \in Nat
        /\ pc \in [Processes -> {"user", "waiting", "critical"}]
    BY <1>1, InvFacts, ProcessSlots, SemaphoreAssumption
  <1>6. \A q \in Processes : Contains(waiting, q) => q # c.s.current
    BY <1>3 DEF IInv, QueuesInv
  <1>7. CASE /\ Available /\ value' = value - 1 /\ pc' = [pc EXCEPT ![p] = "critical"]
             /\ deadline' = [deadline EXCEPT ![p] = 0] /\ sched' = c.s /\ UNCHANGED waiting
    <2>1. Placed(sched', waiting', pc')
      BY <1>1, <1>3, <1>7, LeaveKeeps
    <2>2. ~(value' > 0)
      BY <1>7 DEF IInv, LockInv, HeldBy, Available
    <2>3. QueuesInv'
      BY <1>1, <1>3, <1>6, <1>7, <2>1, <2>2
      DEF IInv, QueuesInv, SomeoneAwake, WaitersInPriorityOrder
    <2>4. deadline' \in [Processes -> Nat]
      BY <1>5, <1>7
    <2>5. TypeOK'
      BY <1>1, <1>2, <1>3, <1>5, <1>7, <2>4 DEF TypeOK, Entry, Resting
    <2>6. QED
      BY <2>3, <2>5
  <1>8. CASE ~Available /\ GiveUp(p, c.s)
    <2> DEFINE s == [c.s EXCEPT !.state[p] = "READY"]
    <2>1. /\ sched' = s /\ pc' = [pc EXCEPT ![p] = "user"]
          /\ deadline' = [deadline EXCEPT ![p] = 0] /\ value' = value
      BY <1>8 DEF GiveUp
    <2>2. waiting' = waiting
      BY <1>5, <1>8 DEF GiveUp, RemoveFirst, Contains
    <2>3. Sane(c.s) /\ c.s \in SchedState /\ ~OnQueue(c.s, p) /\ c.s.state[p] = "RUNNING"
      BY <1>3, <1>5 DEF Resting, MaySchedule, Sane
    <2>4. c.s.weight[p] > 0 /\ "READY" \in States
      BY <1>5, <2>3 DEF Sane, WeightOK, States
    <2>5. Sane(s)
      BY <1>5, <2>3, <2>4, SetStateSane
    <2>6. /\ s.current = p /\ s.rq = c.s.rq
          /\ \A q \in Slots : s.state[q] = IF q = p THEN "READY" ELSE c.s.state[q]
      BY <1>1, <1>3, <2>3 DEF SchedState
    <2> HIDE DEF s
    <2>7. \A q \in Slots : OnQueue(s, q) <=> OnQueue(c.s, q)
      BY <2>6 DEF OnQueue
    <2>8. Resting(s)
      BY <1>1, <1>3, <1>5, <2>3, <2>5, <2>6, <2>7 DEF Resting, MaySchedule
    <2>9. Placed(c.s, waiting, pc')
      BY <1>1, <1>3, <2>1, LeaveKeeps
    <2>10. Placed(s, waiting, pc')
      <3> SUFFICES ASSUME NEW q \in Processes
                   PROVE  /\ Contains(waiting, q) => /\ pc'[q] = "waiting" /\ ~OnQueue(s, q)
                                                     /\ s.state[q] \in {"BLOCKED", "READY"}
                          /\ pc'[q] = "waiting" /\ ~Contains(waiting, q) =>
                                 OnQueue(s, q) \/ (q = s.current /\ s.state[q] = "RUNNING")
        BY DEF Placed
      <3>1. q \in Slots
        BY ProcessSlots
      <3>2. CASE q = p
        BY <1>5, <2>1, <3>2
      <3>3. CASE q # p
        BY <1>1, <1>3, <2>6, <2>7, <2>9, <3>1, <3>3 DEF Placed
      <3>4. QED
        BY <3>2, <3>3
    <2>11. ~(value' > 0)
      BY <1>8, <2>1 DEF Available
    <2>12. \A q \in Processes : Contains(waiting, q) => q # s.current
      BY <1>5, <2>6
    <2>13. QueuesInv'
      BY <1>1, <2>1, <2>2, <2>8, <2>10, <2>11, <2>12
      DEF IInv, QueuesInv, SomeoneAwake, WaitersInPriorityOrder
    <2>14. deadline' \in [Processes -> Nat]
      BY <1>5, <2>1
    <2>15. TypeOK'
      BY <1>1, <1>2, <1>3, <1>5, <2>1, <2>2, <2>8, <2>14 DEF TypeOK, Entry, Resting
    <2>16. QED
      BY <2>13, <2>15
  <1>9. CASE /\ ~Available /\ sched' = Schedule(c.s, d)
             /\ UNCHANGED <<value, waiting, pc, deadline>>
    <2>1. MaySchedule(c.s) /\ c.s.current \in Slots
      BY <1>3 DEF Resting
    <2>2. /\ Resting(sched') /\ Placed(sched', waiting, pc)
          /\ \A q \in Processes : Contains(waiting, q) => q # sched'.current
      BY <1>3, <1>5, <1>9, <2>1, SwitchKeeps
    <2>3. QueuesInv'
      BY <1>1, <1>9, <2>2, ListsStand DEF QueuesInv
    <2>4. TypeOK'
      BY <1>1, <1>2, <1>3, <1>5, <1>9, <2>2 DEF TypeOK, Entry, Resting
    <2>5. QED
      BY <2>3, <2>4
  <1>10. QED
    BY <1>4, <1>7, <1>8, <1>9
-----------------------------------------------------------------------------
LEMMA InitKeeps ==
    ASSUME Init
    PROVE  IInv
<1> DEFINE s == Created[MAX_PROCESSES - 1]
<1>1. /\ sched = Schedule(s, 0) /\ value = 1 /\ waiting = <<>>
      /\ priority = [p \in Processes |-> Rank[PriorityOf[p]]]
      /\ active_timeouts = <<>> /\ rt_ready_queue = <<>> /\ system_ticks = 0
      /\ pc = [p \in Processes |-> "user"] /\ deadline = [p \in Processes |-> 0]
  BY DEF Init
<1>2. Filled(s, MAX_PROCESSES - 1)
  BY CreatedFacts
<1> HIDE DEF s
<1>3. \A p : ~Contains(waiting, p)
  BY <1>1 DEF Contains
<1>4. MaySchedule(s) /\ s.current = NONE
  BY <1>2, SlotFacts DEF MaySchedule, Filled, Idle, NONE
<1>5. Placed(s, waiting, pc)
  BY <1>1, <1>3 DEF Placed
<1>6. Resting(sched) /\ Placed(sched, waiting, pc)
  BY <1>1, <1>4, <1>5, SwitchKeeps
<1>7. QueuesInv
  BY <1>1, <1>3, <1>6 DEF QueuesInv, Once, WaitersInPriorityOrder, SomeoneAwake
<1>8. LockInv
  BY <1>1 DEF LockInv, Holders
<1>9. priority \in [Processes -> 1 .. 3]
  <2>1. \A prio \in Priorities : Rank[prio] \in 1 .. 3
    BY DEF Priorities, Rank
  <2> QED
    BY <1>1, <2>1, SemaphoreAssumption
<1>10. /\ waiting \in Seq(Processes) /\ rt_ready_queue \in Seq(Processes)
       /\ active_timeouts \in Seq(Entry)
       /\ Len(active_timeouts) <= MAX_PROCESSES /\ Len(rt_ready_queue) <= MAX_PROCESSES
  BY <1>1, SchedOpsAssumption
<1>11. TypeOK
  BY <1>1, <1>6, <1>9, <1>10 DEF TypeOK, Resting, Entry
<1> QED
  BY <1>7, <1>8, <1>11 DEF IInv

(* The inductive invariant, for any number of processes. *)
THEOREM SemaphoreInvariance == Spec => []IInv
<1>1. Init => IInv
  BY InitKeeps
<1>2. IInv /\ [Next]_vars => IInv'
  <2> SUFFICES ASSUME IInv, [Next]_vars PROVE IInv'
    OBVIOUS
  <2>1. ASSUME NEW p \in Processes, NEW t \in Timeouts, NEW d \in Deltas, SemWait(p, t, d)
        PROVE  IInv'
    <3>1. LockInv'
      BY <2>1, WaitKeeps DEF IInv
    <3> QED
      BY <2>1, <3>1, SemWaitStep DEF IInv
  <2>2. ASSUME NEW p \in Processes, NEW d \in Deltas, SemResume(p, d) PROVE IInv'
    <3>1. LockInv'
      BY <2>2, ResumeKeeps DEF IInv
    <3> QED
      BY <2>2, <3>1, SemResumeStep DEF IInv
  <2>3. ASSUME NEW p \in Processes, SemSignal(p) PROVE IInv'
    <3>1. LockInv'
      BY <2>3, SignalKeeps DEF IInv
    <3> QED
      BY <2>3, <3>1, SemSignalStep DEF IInv
  <2>4. ASSUME NEW d \in Deltas, Yield(d) PROVE IInv'
    <3>1. LockInv'
      BY <2>4, StandKeeps DEF IInv, Yield
    <3> QED
      BY <2>4, <3>1, YieldStep DEF IInv
  <2>5. CASE Tick
    <3>1. LockInv'
      BY <2>5, StandKeeps DEF IInv, Tick
    <3> QED
      BY <2>5, <3>1, TickStep DEF IInv
  <2>6. CASE UNCHANGED vars
    <3>1. LockInv'
      BY <2>6, StandKeeps DEF IInv, vars
    <3>2. TypeOK'
      BY <2>6 DEF IInv, TypeOK, vars, ipcVars
    <3>3. QueuesInv'
      BY <2>6 DEF IInv, QueuesInv, vars, WaitersInPriorityOrder, SomeoneAwake
    <3> QED
      BY <3>1, <3>2, <3>3 DEF IInv
  <2> QED
    BY <2>1, <2>2, <2>3, <2>4, <2>5, <2>6 DEF Next
<1> QED
  BY <1>1, <1>2, PTL DEF Spec

(* The semaphore's state has its types (of the scheduler's, only the       *)
(* current process): the value never goes below zero, and the table of     *)
(* timeouts and the real-time queue stay within their arrays.              *)
THEOREM TypeCorrect == Spec => []TypeOK
<1>1. IInv => TypeOK
  BY DEF IInv
<1> QED
  BY <1>1, SemaphoreInvariance, PTL

(* Between sem_wait_timeout and sem_signal there is one process at most,   *)
(* and the semaphore's value is 0 exactly then: no wait that was given up, *)
(* no process that was woken and overtaken takes or loses the lock.        *)
THEOREM LockIsOne == Spec => []OneLock
<1>1. LockInv => OneLock
  <2> SUFFICES ASSUME LockInv PROVE OneLock
    OBVIOUS
  <2>1. CASE value = 1 /\ Holders = {}
    BY <2>1, FS_EmptySet DEF OneLock
  <2>2. CASE \E h \in Processes : HeldBy(h)
    BY <2>2, FS_Singleton DEF OneLock, HeldBy
  <2> QED
    BY <2>1, <2>2 DEF LockInv
<1>2. IInv => LockInv
  BY DEF IInv
<1> QED
  BY <1>1, <1>2, SemaphoreInvariance, PTL

(* While the lock is free and processes wait on the list, one that was     *)
(* taken off it is current or on the run queue: whichever process          *)
(* overtakes it, and whatever timeouts expire in between.                  *)
THEOREM NoWakeupIsLost == Spec => []NoLostWakeup
<1>1. IInv => NoLostWakeup
  <2> SUFFICES ASSUME IInv, value > 0, waiting # <<>>
               PROVE  \E p \in Awake :
                          p = sched.current \/ \E i \in DOMAIN sched.rq : sched.rq[i].proc = p
    BY DEF NoLostWakeup
  <2>1. PICK p \in Processes : pc[p] = "waiting" /\ ~Contains(waiting, p)
    BY DEF IInv, QueuesInv, SomeoneAwake
  <2>2. OnQueue(sched, p) \/ p = sched.current
    BY <2>1 DEF IInv, QueuesInv, Placed
  <2> QED
    BY <2>1, <2>2 DEF Awake, OnQueue
<1> QED
  BY <1>1, SemaphoreInvariance, PTL

(* Who is on the list is there once, inside its wait, not running and not  *)
(* bound to: sem_signal wakes nobody out of anything but this wait.        *)
THEOREM ListedAreAsleep == Spec => []ListedOnceAndAsleep
<1>1. IInv => ListedOnceAndAsleep
  <2> SUFFICES ASSUME IInv, NEW i \in DOMAIN waiting
               PROVE  /\ pc[waiting[i]] = "waiting"
                      /\ sched.state[waiting[i]] \in {"BLOCKED", "READY"}
                      /\ \A j \in DOMAIN waiting : waiting[j] = waiting[i] => j = i
                      /\ \A j \in DOMAIN sched.rq : sched.rq[j].proc # waiting[i]
    BY DEF ListedOnceAndAsleep
  <2>1. waiting \in Seq(Processes)
    BY InvFacts
  <2>2. waiting[i] \in Processes /\ i \in 1 .. Len(waiting)
    BY <2>1
  <2>3. Contains(waiting, waiting[i])
    BY <2>2 DEF Contains
  <2>4. /\ pc[waiting[i]] = "waiting" /\ ~OnQueue(sched, waiting[i])
        /\ sched.state[waiting[i]] \in {"BLOCKED", "READY"}
    BY <2>2, <2>3 DEF IInv, QueuesInv, Placed
  <2>5. \A j \in DOMAIN waiting : waiting[j] = waiting[i] => j = i
    BY DEF IInv, QueuesInv, Once
  <2> QED
    BY <2>4, <2>5 DEF OnQueue
<1> QED
  BY <1>1, SemaphoreInvariance, PTL

(* The list is sorted by the priorities as inherited, so sem_signal, which *)
(* takes its head, wakes one of the highest priority there is.             *)
THEOREM ListIsSorted == Spec => []WaitersInPriorityOrder
<1>1. IInv => WaitersInPriorityOrder
  BY DEF IInv, QueuesInv
<1> QED
  BY <1>1, SemaphoreInvariance, PTL
=============================================================================
