-------------------------- MODULE SchedulerProofs --------------------------
(***************************************************************************)
(* For any number of slots, any time slice and any running times: only the *)
(* current process is in PROCESS_RUNNING; the nodes of a process that no   *)
(* loop has woken while it ran or was queued are right, though scheduler.c *)
(* removes nodes by a key that several processes may have, and though the  *)
(* second nodes of other processes lie among them; and the process picked  *)
(* has run least.                                                          *)
(***************************************************************************)
EXTENDS Scheduler, SchedLemmas

(* The tree's order: the nodes of the run queue are in the order of their keys. *)
Sorted(q) == \A i, j \in DOMAIN q : i < j => q[i].key <= q[j].key

(* A node's key is the vruntime its process had when it was put there.     *)
OldKeys(s) == \A i \in DOMAIN s.rq : s.rq[i].key <= s.vruntime[s.rq[i].proc]

(* What every assignment keeps, of all processes but those in X. *)
Kept(s, X) ==
    /\ SaneBut(s, X)
    /\ Sorted(s.rq)
    /\ OldKeys(s)
    /\ s.state[Idle] # "UNUSED"
    /\ \A p \in Slots : s.state[p] = "RUNNING" => p = s.current

(* What calls of the scheduler leave behind. *)
Settled(s, X) ==
    /\ Kept(s, X)
    /\ s.current \in Slots \ X => s.state[s.current] = "RUNNING"
    /\ s.current \in Slots => s.state[s.current] # "UNUSED"

IInv ==
    /\ Settled(sched, rewoken)
    /\ rewoken \subseteq Slots \ {Idle}
    /\ listed \in [Slots -> Nat]
    /\ \A p \in Slots : listed[p] > 0 => p # Idle /\ sched.state[p] # "UNUSED"
    /\ scheduler_timer \in 0 .. (TIME_SLICE_MS - 1)

-----------------------------------------------------------------------------
(* The nodes that an insertion goes behind are the first ones, and all of them. *)
LEMMA SortedPrefix ==
    ASSUME NEW q \in Seq(Node), Sorted(q), NEW key \in Nat
    PROVE  \E n \in 0 .. Len(q) :
               /\ n = Cardinality({i \in DOMAIN q : q[i].key <= key})
               /\ \A i \in DOMAIN q : q[i].key <= key <=> i <= n
  <1> DEFINE hits == {i \in DOMAIN q : q[i].key <= key}
  <1>1. /\ Len(q) \in Nat /\ DOMAIN q = 1 .. Len(q)
        /\ \A i \in 1 .. Len(q) : q[i].key \in Nat
    BY NodeFields
  <1>2. \E n \in 0 .. Len(q) : \A i \in DOMAIN q : i \in hits <=> i <= n
    <2>1. CASE hits = {}
      <3>1. \A i \in DOMAIN q : ~(i <= 0)
        BY <1>1
      <3>2. 0 \in 0 .. Len(q) /\ \A i \in DOMAIN q : i \in hits <=> i <= 0
        BY <1>1, <2>1, <3>1
      <3>3. QED
        BY <3>2
    <2>2. CASE hits # {}
      <3>1. hits \in SUBSET (1 .. Len(q))
        BY <1>1
      <3>2. PICK n \in hits : \A i \in hits : i <= n
        BY <1>1, <2>2, <3>1, GreatestElement
      <3>3. \A i \in DOMAIN q : i <= n => q[i].key <= key
        BY <1>1, <3>2 DEF Sorted
      <3>4. QED
        BY <1>1, <3>2, <3>3
    <2>3. QED
      BY <2>1, <2>2
  <1>3. PICK n \in 0 .. Len(q) : \A i \in DOMAIN q : i \in hits <=> i <= n
    BY <1>2
  <1>4. hits = 1 .. n
    BY <1>1, <1>3
  <1>5. Cardinality(1 .. n) = n
    <2>1. Cardinality(1 .. n) = IF 1 > n THEN 0 ELSE n - 1 + 1
      BY <1>3, FS_Interval
    <2>2. QED
      BY <1>3, <2>1
  <1>6. QED
    BY <1>3, <1>4, <1>5

(* An insertion keeps the order. *)
LEMMA InsertSorted ==
    ASSUME NEW q \in Seq(Node), Sorted(q), NEW p \in Slots, NEW key \in Nat
    PROVE  Sorted(RbInsert(q, p, key))
  <1> DEFINE e == [proc |-> p, key |-> key]
             r == RbInsert(q, p, key)
  <1>1. /\ Len(q) \in Nat /\ DOMAIN q = 1 .. Len(q)
        /\ \A i \in 1 .. Len(q) : q[i].key \in Nat
    BY NodeFields
  <1>2. PICK n \in 0 .. Len(q) :
            /\ n = Cardinality({i \in DOMAIN q : q[i].key <= key})
            /\ \A i \in DOMAIN q : q[i].key <= key <=> i <= n
    BY SortedPrefix
  <1>3. n + 1 \in 1 .. (Len(q) + 1) /\ e \in Node /\ 1 + n = n + 1
    BY <1>1, <1>2 DEF Node
  <1>4. r = InsertAt(q, n + 1, e)
    BY <1>2, <1>3 DEF RbInsert
  <1>5. Inserted(Node, r, q, n + 1, e)
    BY <1>3, <1>4, InsertAtFacts
  <1> HIDE DEF r
  <1>6. /\ DOMAIN r = 1 .. (Len(q) + 1)
        /\ \A j \in DOMAIN r : r[j] = IF j < n + 1 THEN q[j] ELSE IF j = n + 1 THEN e ELSE q[j - 1]
    BY <1>1, <1>5, NodeFields DEF Inserted
  <1>7. /\ \A j \in DOMAIN r : j <= n => j \in DOMAIN q /\ r[j] = q[j]
        /\ \A j \in DOMAIN r : j > n + 1 => j - 1 \in DOMAIN q /\ r[j] = q[j - 1]
        /\ \A j \in DOMAIN r : j = n + 1 => r[j].key = key
    <2>1. ASSUME NEW j \in DOMAIN r, j <= n PROVE j \in DOMAIN q /\ r[j] = q[j]
      <3>1. j \in 1 .. Len(q) /\ j < n + 1
        BY <1>1, <1>2, <1>6, <2>1
      <3>2. QED
        BY <1>1, <1>6, <3>1
    <2>2. ASSUME NEW j \in DOMAIN r, j > n + 1 PROVE j - 1 \in DOMAIN q /\ r[j] = q[j - 1]
      <3>1. j - 1 \in 1 .. Len(q) /\ ~(j < n + 1) /\ j # n + 1
        BY <1>1, <1>2, <1>6, <2>2
      <3>2. QED
        BY <1>1, <1>6, <3>1
    <2>3. ASSUME NEW j \in DOMAIN r, j = n + 1 PROVE r[j].key = key
      <3>1. ~(j < n + 1)
        BY <1>2, <2>3
      <3>2. r[j] = e
        BY <1>6, <2>3, <3>1
      <3>3. QED
        BY <3>2
    <2>4. QED
      BY <2>1, <2>2, <2>3
  <1> HIDE DEF e
  <1>8. ASSUME NEW i \in DOMAIN r, NEW j \in DOMAIN r, i < j
        PROVE  r[i].key <= r[j].key
    <2>1. CASE j <= n
      <3>1. i <= n
        BY <1>1, <1>2, <1>6, <1>8, <2>1
      <3>2. i \in DOMAIN q /\ j \in DOMAIN q /\ r[i].key = q[i].key /\ r[j].key = q[j].key
        BY <1>7, <2>1, <3>1
      <3>3. QED
        BY <3>2, <1>8 DEF Sorted
    <2>2. CASE i <= n /\ j = n + 1
      <3>1. i \in DOMAIN q /\ r[i].key = q[i].key /\ r[j].key = key
        BY <1>1, <1>2, <1>6, <1>7, <2>2
      <3>2. QED
        BY <3>1, <1>2, <2>2
    <2>3. CASE i <= n /\ j > n + 1
      <3>1. i \in DOMAIN q /\ j - 1 \in DOMAIN q /\ i < j - 1
            /\ r[i].key = q[i].key /\ r[j].key = q[j - 1].key
        BY <1>1, <1>2, <1>6, <1>7, <2>3
      <3>2. QED
        BY <3>1 DEF Sorted
    <2>4. CASE i = n + 1
      <3>1. j - 1 \in DOMAIN q /\ ~(j - 1 <= n) /\ r[i].key = key /\ r[j].key = q[j - 1].key
        BY <1>1, <1>2, <1>6, <1>7, <1>8, <2>4
      <3>2. q[j - 1].key \in Nat /\ ~(q[j - 1].key <= key)
        BY <1>1, <1>2, <3>1
      <3>3. QED
        BY <3>1, <3>2
    <2>5. CASE i > n + 1
      <3>1. j > n + 1 /\ i - 1 < j - 1
        BY <1>1, <1>2, <1>6, <1>8, <2>5
      <3>2. i - 1 \in DOMAIN q /\ j - 1 \in DOMAIN q
            /\ r[i].key = q[i - 1].key /\ r[j].key = q[j - 1].key
        BY <1>7, <2>5, <3>1
      <3>3. QED
        BY <3>1, <3>2 DEF Sorted
    <2>6. QED
      BY <1>1, <1>2, <1>6, <1>8, <2>1, <2>2, <2>3, <2>4, <2>5
  <1>9. Sorted(r)
    BY <1>8 DEF Sorted
  <1>10. QED
    BY <1>9 DEF r

(* What a removal leaves was on the queue before, and stays in order. *)
LEMMA RemoveSorted ==
    ASSUME NEW q \in Seq(Node), Sorted(q), NEW key \in Nat
    PROVE  /\ Sorted(RbRemove(q, key))
           /\ \A i \in DOMAIN RbRemove(q, key) : \E j \in DOMAIN q : RbRemove(q, key)[i] = q[j]
  <1> DEFINE r == RbRemove(q, key)
  <1>1. r = q \/ \E k \in 1 .. Len(q) : Removed(Node, r, q, k)
    BY RbRemoveFacts
  <1> HIDE DEF r
  <1>2. Len(q) \in Nat /\ DOMAIN q = 1 .. Len(q)
    BY NodeFields
  <1>3. ASSUME NEW k \in 1 .. Len(q), Removed(Node, r, q, k)
        PROVE  Sorted(r) /\ \A i \in DOMAIN r : \E j \in DOMAIN q : r[i] = q[j]
    <2> DEFINE old(j) == IF j < k THEN j ELSE j + 1
    <2>1. DOMAIN r = 1 .. (Len(q) - 1)
      BY <1>2, <1>3, NodeFields DEF Removed
    <2>2. \A j \in DOMAIN r : old(j) \in DOMAIN q /\ r[j] = q[old(j)]
      BY <1>2, <1>3, <2>1 DEF Removed
    <2>3. \A i, j \in DOMAIN r : i < j => old(i) < old(j)
      BY <1>2, <2>1
    <2> HIDE DEF old
    <2>4. QED
      BY <2>2, <2>3 DEF Sorted
  <1>4. QED
    BY <1>1, <1>3 DEF r

(* What schedule() leaves alone: of every process but the one that stops   *)
(* running it knows the old vruntime, and no node that was not queued.     *)
Follows(t, s) ==
    /\ t \in SchedState /\ Sorted(t.rq)
    /\ \A p \in Slots : p # s.current => t.vruntime[p] = s.vruntime[p]
    /\ OldKeys(t)
    /\ \A i \in DOMAIN t.rq :
           t.rq[i].proc # s.current => \E j \in DOMAIN s.rq : t.rq[i] = s.rq[j]

(* The order is kept when a process is put on the queue or taken off it.   *)
LEMMA CfsSorted ==
    ASSUME NEW s \in SchedState, Sorted(s.rq), NEW p \in Slots
    PROVE  Sorted(CfsEnqueue(s, p).rq) /\ Sorted(CfsDequeue(s, p).rq)
  <1>1. s.rq \in Seq(Node) /\ s.vruntime[p] \in Nat
    BY Fields
  <1>2. CfsEnqueue(s, p).rq = RbInsert(s.rq, p, s.vruntime[p])
        /\ CfsDequeue(s, p).rq = RbRemove(s.rq, s.vruntime[p])
    BY CfsFields
  <1>3. QED
    BY <1>1, <1>2, InsertSorted, RemoveSorted

(* Running time is never taken back. *)
LEMMA ChargeLeast ==
    ASSUME NEW X, NEW s, SaneBut(s, X), NEW p \in Slots, s.weight[p] > 0, NEW d \in Nat
    PROVE  s.vruntime[p] + Charge(s, p, d) >= s.vruntime[p]
  <1>1. s.weight[p] \in Nat /\ s.vruntime[p] \in Nat
    BY Fields DEF SaneBut
  <1>2. d * 1024 \in Nat /\ \A a \in Nat, b \in Nat : b > 0 => a \div b \in Nat
    OBVIOUS
  <1>3. Charge(s, p, d) \in Nat
    BY <1>1, <1>2 DEF Charge
  <1>4. QED
    BY <1>1, <1>3

(* The previous process goes to its place in the order. *)
LEMMA PutPrevFollows ==
    ASSUME NEW X, NEW s, SaneBut(s, X), Sorted(s.rq), OldKeys(s), NEW d \in Nat
    PROVE  Follows(PutPrev(s, d), s)
  <1> DEFINE prev == s.current
  <1>1. s \in SchedState /\ WeightOK(s) /\ s.current \in Slots \cup {NONE}
    BY Fields DEF SaneBut
  <1>2. CASE prev # NONE /\ s.state[prev] = "RUNNING"
    <2> DEFINE v == s.vruntime[prev] + Charge(s, prev, d)
               u == [s EXCEPT !.vruntime[prev] = v]
               t == CfsEnqueue(u, prev)
    <2>1. prev \in Slots /\ s.weight[prev] > 0
      BY <1>1, <1>2 DEF WeightOK
    <2>2. v \in Nat
      BY <2>1, ChargeNat
    <2>13. v >= s.vruntime[prev]
      BY <2>1, ChargeLeast
    <2>3. PutPrev(s, d) = t
      BY <1>2 DEF PutPrev
    <2> HIDE DEF v
    <2>4. /\ u \in SchedState /\ u.rq = s.rq
          /\ u.vruntime = [s.vruntime EXCEPT ![prev] = v]
      BY <1>1, <2>1, <2>2 DEF SchedState
    <2> HIDE DEF u
    <2>5. u.rq \in Seq(Node) /\ u.vruntime[prev] \in Nat
      BY <2>1, <2>4, Fields
    <2> HIDE DEF prev
    <2>6. /\ t \in SchedState /\ t.vruntime = u.vruntime
          /\ t.rq = RbInsert(s.rq, prev, u.vruntime[prev])
      <3>1. prev \in Slots /\ u \in SchedState
        BY <2>1, <2>4
      <3>2. t \in SchedState
        BY <3>1, EnqueueType
      <3>3. t.vruntime = u.vruntime /\ t.rq = RbInsert(u.rq, prev, u.vruntime[prev])
        BY <3>1, CfsFields
      <3>4. QED
        BY <2>4, <3>2, <3>3
    <2>7. Sorted(t.rq)
      BY <2>1, <2>4, CfsSorted
    <2> HIDE DEF t
    <2> DEFINE e == [proc |-> prev, key |-> u.vruntime[prev]]
    <2>8. PICK k \in 1 .. (Len(s.rq) + 1) : Inserted(Node, t.rq, s.rq, k, e)
      BY <2>1, <2>4, <2>5, <2>6, RbInsertFacts
    <2>9. e.proc = prev
      OBVIOUS
    <2> HIDE DEF e
    <2>10. ASSUME NEW i \in DOMAIN t.rq, t.rq[i].proc # prev
           PROVE  \E j \in DOMAIN s.rq : t.rq[i] = s.rq[j]
      <3>1. t.rq[k] = e /\ \A j \in DOMAIN t.rq \ {k} : \E l \in DOMAIN s.rq : t.rq[j] = s.rq[l]
        BY <2>4, <2>5, <2>8, InsertedElements
      <3>2. QED
        BY <2>9, <2>10, <3>1
    <2>11. \A p \in Slots : p # prev => t.vruntime[p] = s.vruntime[p]
      BY <2>4, <2>6
    <2>14. OldKeys(t)
      <3> SUFFICES ASSUME NEW i \in DOMAIN t.rq
                   PROVE  t.rq[i].key <= t.vruntime[t.rq[i].proc]
        BY DEF OldKeys
      <3>1. /\ t.rq[k] = e
            /\ \A j \in DOMAIN t.rq \ {k} : \E l \in DOMAIN s.rq : t.rq[j] = s.rq[l]
        BY <2>4, <2>5, <2>8, InsertedElements
      <3>2. CASE i = k
        BY <3>1, <3>2, <2>5, <2>6 DEF e
      <3>3. CASE i # k
        <4>1. PICK l \in DOMAIN s.rq : t.rq[i] = s.rq[l]
          BY <3>1, <3>3
        <4>2. /\ s.rq[l].proc \in Slots /\ s.rq[l].key \in Nat
              /\ s.rq[l].key <= s.vruntime[s.rq[l].proc]
          BY <2>4, <2>5, NodeFields DEF OldKeys
        <4>3. s.vruntime[s.rq[l].proc] <= t.vruntime[s.rq[l].proc]
              /\ s.vruntime[s.rq[l].proc] \in Nat /\ t.vruntime[s.rq[l].proc] \in Nat
          BY <1>1, <2>4, <2>6, <2>11, <2>13, <4>2, Fields
        <4>4. QED
          BY <4>1, <4>2, <4>3
      <3>4. QED
        BY <3>2, <3>3
    <2>12. QED
      BY <2>3, <2>6, <2>7, <2>10, <2>11, <2>14 DEF Follows, prev
  <1>3. CASE ~(prev # NONE /\ s.state[prev] = "RUNNING")
    <2>1. PutPrev(s, d) = s
      BY <1>3 DEF PutPrev
    <2>2. QED
      BY <1>1, <2>1 DEF Follows
  <1>4. QED
    BY <1>2, <1>3

(* The next one leaves the queue and runs. *)
LEMMA SetNextFollows ==
    ASSUME NEW t, NEW s, Follows(t, s), NEW n \in Slots
    PROVE  Follows(SetNext(t, n), s) /\ SetNext(t, n).current = n
  <1> DEFINE u == IF n = Idle THEN t ELSE CfsDequeue(t, n)
             x == [u EXCEPT !.state[n] = "RUNNING", !.current = n]
  <1>1. t \in SchedState /\ Sorted(t.rq)
    BY DEF Follows
  <1>2. /\ t.rq \in Seq(Node) /\ t.vruntime[n] \in Nat
        /\ t.nr \in Int /\ t.tw \in Int /\ t.weight[n] \in Nat
    BY <1>1, Fields
  <1>3. /\ u \in SchedState /\ Sorted(u.rq) /\ u.vruntime = t.vruntime
        /\ \A i \in DOMAIN u.rq : \E j \in DOMAIN t.rq : u.rq[i] = t.rq[j]
    <2>1. CASE n = Idle
      BY <1>1, <2>1
    <2>2. CASE n # Idle
      <3> DEFINE r == RbRemove(t.rq, t.vruntime[n])
      <3>1. u = CfsDequeue(t, n)
        BY <2>2
      <3>2. u.vruntime = t.vruntime /\ u.rq = r
        BY <1>1, <3>1, CfsFields
      <3>3. Sorted(r) /\ \A i \in DOMAIN r : \E j \in DOMAIN t.rq : r[i] = t.rq[j]
        BY <1>1, <1>2, RemoveSorted
      <3>4. r \in Seq(Node)
        BY <1>2, RbRemoveFacts DEF Removed
      <3> HIDE DEF r
      <3>5. u = [t EXCEPT !.state = t.state, !.rq = r, !.nr = t.nr - 1, !.tw = t.tw - t.weight[n]]
        BY <1>1, <3>1 DEF SchedState, CfsDequeue, r
      <3> HIDE DEF u
      <3>6. t.nr - 1 \in Int /\ t.tw - t.weight[n] \in Int /\ t.state \in [Slots -> States]
        BY <1>1, <1>2, Fields
      <3>7. u \in SchedState
        BY <1>1, <3>4, <3>5, <3>6, UpdateType, Zenon
      <3>8. QED
        BY <3>2, <3>3, <3>7
    <2>3. QED
      BY <2>1, <2>2
  <1>4. SetNext(t, n) = x
    BY Zenon DEF SetNext
  <1> HIDE DEF u
  <1>5. x.current = n /\ x.rq = u.rq /\ x.vruntime = u.vruntime /\ x \in SchedState
    BY <1>3 DEF SchedState, States
  <1> HIDE DEF x
  <1>6. \A p \in Slots : p # s.current => x.vruntime[p] = s.vruntime[p]
    BY <1>3, <1>5 DEF Follows
  <1>7. ASSUME NEW i \in DOMAIN x.rq, x.rq[i].proc # s.current
        PROVE  \E j \in DOMAIN s.rq : x.rq[i] = s.rq[j]
    BY <1>3, <1>5, <1>7 DEF Follows
  <1>9. OldKeys(x)
    BY <1>3, <1>5 DEF Follows, OldKeys
  <1>8. QED
    BY <1>3, <1>4, <1>5, <1>6, <1>7, <1>9 DEF Follows

(* No process with a node on the queue has run less, except the one that    *)
(* has just been put back.                                                 *)
LeastOf(t, s, X) ==
    t.current # s.current /\ t.current \notin X \cup {Idle} =>
        \A i \in DOMAIN t.rq :
            t.rq[i].proc # s.current =>
                t.vruntime[t.current] <= t.vruntime[t.rq[i].proc]

(* schedule() takes the head of an ordered queue, and so a least one.      *)
LEMMA SchedulePicksLeast ==
    ASSUME NEW X, NEW s, SaneBut(s, X), Sorted(s.rq), OldKeys(s), NEW d \in Nat
    PROVE  /\ Sorted(Schedule(s, d).rq) /\ OldKeys(Schedule(s, d))
           /\ LeastOf(Schedule(s, d), s, X)
  <1> DEFINE n == PickNext(s)
             t == Schedule(s, d)
  <1>1. CASE n = s.current
    BY <1>1 DEF Schedule, LeastOf
  <1>2. CASE n # s.current
    <2>1. /\ s \in SchedState /\ QueueOKBut(s, X) /\ s.rq \in Seq(Node)
          /\ Len(s.rq) \in Nat /\ DOMAIN s.rq = 1 .. Len(s.rq)
          /\ \A i \in 1 .. Len(s.rq) : s.rq[i].proc \in Slots /\ s.rq[i].key \in Nat
      BY Fields, NodeFields DEF SaneBut
    <2>2. n # Idle => 1 \in DOMAIN s.rq /\ s.rq[1].proc = n
      BY <2>1 DEF PickNext
    <2>3. n \in Slots
      BY <2>1, <2>2, SlotFacts
    <2>4. t = SetNext(PutPrev(s, d), n)
      BY <1>2 DEF Schedule
    <2> HIDE DEF n, t
    <2>5. Follows(t, s) /\ t.current = n
      BY <2>3, <2>4, PutPrevFollows, SetNextFollows
    <2>6. ASSUME n \notin X \cup {Idle}, NEW i \in DOMAIN t.rq, t.rq[i].proc # s.current
          PROVE  t.vruntime[n] <= t.vruntime[t.rq[i].proc]
      <3>1. PICK j \in DOMAIN s.rq : t.rq[i] = s.rq[j]
        BY <2>5, <2>6 DEF Follows
      <3> DEFINE p == s.rq[j].proc
      <3>2. p \in Slots /\ p # s.current /\ t.rq[i].proc = p
        BY <2>1, <2>6, <3>1
      <3>3. s.rq[j].key <= s.vruntime[p]
        BY DEF OldKeys
      <3>4. s.rq[1].key = s.vruntime[n]
        BY <2>1, <2>2, <2>6 DEF QueueOKBut
      <3> HIDE DEF p
      <3>5. s.rq[1].key <= s.rq[j].key
        BY <2>1, <2>2, <2>6 DEF Sorted
      <3>6. t.vruntime[p] = s.vruntime[p] /\ t.vruntime[n] = s.vruntime[n]
        BY <1>2, <2>3, <2>5, <3>2 DEF Follows, n
      <3>7. s.vruntime[p] \in Nat /\ s.vruntime[n] \in Nat
            /\ s.rq[1].key \in Nat /\ s.rq[j].key \in Nat
        BY <2>1, <2>2, <2>3, <2>6, <3>2, Fields
      <3>8. QED
        BY <3>2, <3>3, <3>4, <3>5, <3>6, <3>7
    <2>7. QED
      BY <2>5, <2>6 DEF Follows, LeastOf, t
  <1>3. QED
    BY <1>1, <1>2
-----------------------------------------------------------------------------
(* What a call of schedule() from s gives. *)
Rescheduled(t, s, X) ==
    /\ Settled(t, X)
    /\ LeastOf(t, s, X)
    /\ \A p \in Slots : s.state[p] # "UNUSED" => t.state[p] # "UNUSED"

(* What may call it. *)
Callable(s, X) ==
    /\ Kept(s, X)
    /\ s.current \in Slots \ (X \cup {Idle}) => ~OnQueue(s, s.current)
    /\ s.current = Idle => s.state[Idle] = "RUNNING"
    /\ s.current \in Slots => s.state[s.current] # "UNUSED"

LEMMA ScheduleSettles ==
    ASSUME NEW X, NEW s, Callable(s, X), NEW d \in Nat
    PROVE  Rescheduled(Schedule(s, d), s, X)
  <1> DEFINE t == Schedule(s, d)
  <1>1. MayScheduleBut(s, X) /\ SaneBut(s, X) /\ Sorted(s.rq) /\ OldKeys(s)
    BY DEF Callable, Kept, MayScheduleBut
  <1>2. Sorted(t.rq) /\ OldKeys(t) /\ LeastOf(t, s, X)
    BY <1>1, SchedulePicksLeast
  <1>3. CASE t = s /\ s.current \in X \cup {Idle}
    <2>1. Settled(t, X)
      BY <1>3 DEF Callable, Settled
    <2> HIDE DEF t
    <2>2. QED
      BY <1>2, <1>3, <2>1 DEF Rescheduled, t
  <1>4. CASE \E n \in Slots : SwitchedBut(t, s, n, X)
    <2>1. PICK n \in Slots : SwitchedBut(t, s, n, X)
      BY <1>4
    <2> HIDE DEF t
    <2>2. /\ SaneBut(t, X) /\ RunsOnly(t) /\ t.current = n /\ t.state[n] = "RUNNING"
          /\ \A p \in Slots : s.state[p] # "UNUSED" => t.state[p] # "UNUSED"
      BY <2>1 DEF SwitchedBut
    <2>3. t.state[Idle] # "UNUSED"
      BY <2>2, SlotFacts DEF Callable, Kept
    <2>4. Settled(t, X)
      BY <1>2, <2>2, <2>3 DEF Settled, Kept, RunsOnly
    <2>5. QED
      BY <1>2, <2>2, <2>4 DEF Rescheduled, t
  <1>5. QED
    BY <1>1, <1>3, <1>4, ScheduleBut

(* A process that is not in X goes on the queue only if it is not there.   *)
LEMMA EnqueueKept ==
    ASSUME NEW X, NEW s, Kept(s, X), NEW p \in Slots, s.weight[p] > 0,
           p \notin X \cup {Idle} => ~OnQueue(s, p)
    PROVE  /\ Kept(CfsEnqueue(s, p), X)
           /\ CfsEnqueue(s, p).current = s.current
           /\ \A q \in Slots : CfsEnqueue(s, p).state[q] = IF q = p THEN "READY" ELSE s.state[q]
  <1> DEFINE t == CfsEnqueue(s, p)
             e == [proc |-> p, key |-> s.vruntime[p]]
  <1>1. SaneBut(s, X) /\ s \in SchedState /\ s.rq \in Seq(Node) /\ s.vruntime[p] \in Nat
    BY Fields DEF Kept, SaneBut
  <1>2. /\ t.current = s.current /\ t.vruntime = s.vruntime
        /\ t.rq = RbInsert(s.rq, p, s.vruntime[p])
        /\ \A q \in Slots : t.state[q] = IF q = p THEN "READY" ELSE s.state[q]
    BY <1>1, CfsFields
  <1>3. SaneBut(t, X) /\ Sorted(t.rq)
    BY <1>1, EnqueueBut, CfsSorted DEF Kept
  <1> HIDE DEF t
  <1>4. PICK k \in 1 .. (Len(s.rq) + 1) : Inserted(Node, t.rq, s.rq, k, e)
    BY <1>1, <1>2, RbInsertFacts
  <1>5. e \in Node /\ e.proc = p /\ e.key = s.vruntime[p]
    BY <1>1 DEF Node
  <1> HIDE DEF e
  <1>6. OldKeys(t)
    <2> SUFFICES ASSUME NEW i \in DOMAIN t.rq
                 PROVE  t.rq[i].key <= t.vruntime[t.rq[i].proc]
      BY DEF OldKeys
    <2>1. t.rq[k] = e /\ \A j \in DOMAIN t.rq \ {k} : \E l \in DOMAIN s.rq : t.rq[j] = s.rq[l]
      BY <1>1, <1>4, <1>5, InsertedElements
    <2>2. CASE i = k
      BY <1>1, <1>2, <1>5, <2>1, <2>2
    <2>3. CASE i # k
      BY <1>2, <2>1, <2>3 DEF Kept, OldKeys
    <2>4. QED
      BY <2>2, <2>3
  <1>7. Kept(t, X)
    BY <1>2, <1>3, <1>6, SlotFacts DEF Kept
  <1>8. QED
    BY <1>2, <1>7 DEF t

(* Whatever node a removal takes. *)
LEMMA DequeueKept ==
    ASSUME NEW X, NEW s, Kept(s, X), NEW p \in Slots
    PROVE  /\ Kept(CfsDequeue(s, p), X)
           /\ CfsDequeue(s, p).current = s.current /\ CfsDequeue(s, p).state = s.state
           /\ \A q \in Slots : ~OnQueue(s, q) => ~OnQueue(CfsDequeue(s, p), q)
  <1> DEFINE t == CfsDequeue(s, p)
  <1>1. SaneBut(s, X) /\ s \in SchedState /\ s.rq \in Seq(Node) /\ s.vruntime[p] \in Nat
    BY Fields DEF Kept, SaneBut
  <1>2. /\ t.current = s.current /\ t.state = s.state /\ t.vruntime = s.vruntime
        /\ t.rq = RbRemove(s.rq, s.vruntime[p])
    BY <1>1, CfsFields
  <1>3. SaneBut(t, X)
    BY <1>1, DequeueBut
  <1> HIDE DEF t
  <1>4. /\ Sorted(t.rq)
        /\ \A i \in DOMAIN t.rq : \E j \in DOMAIN s.rq : t.rq[i] = s.rq[j]
    BY <1>1, <1>2, RemoveSorted DEF Kept
  <1>5. OldKeys(t)
    BY <1>2, <1>4 DEF Kept, OldKeys
  <1>6. Kept(t, X)
    BY <1>2, <1>3, <1>4, <1>5 DEF Kept
  <1>7. \A q \in Slots : ~OnQueue(s, q) => ~OnQueue(t, q)
    BY <1>4 DEF OnQueue
  <1>8. QED
    BY <1>2, <1>6, <1>7 DEF t

(* A state that is assigned to the current process before it gives up the  *)
(* processor.                                                              *)
LEMMA SetStateKept ==
    ASSUME NEW X, NEW s, Settled(s, X), s.current \in Slots \ {Idle},
           NEW st \in {"BLOCKED", "ZOMBIE"}
    PROVE  LET t == [s EXCEPT !.state[s.current] = st]
           IN  /\ Callable(t, X) /\ t.current = s.current
               /\ \A q \in Slots : t.state[q] = IF q = s.current THEN st ELSE s.state[q]
  <1> DEFINE p == s.current
             t == [s EXCEPT !.state[p] = st]
  <1>1. /\ SaneBut(s, X) /\ s \in SchedState /\ QueueOKBut(s, X) /\ WeightOK(s)
        /\ p \in Slots \ {Idle}
    BY DEF Settled, Kept, SaneBut
  <1>2. p \notin X => ~OnQueue(s, p)
    BY <1>1, NotQueued DEF Settled
  <1>3. s.weight[p] > 0 /\ st \in States /\ st # "UNUSED"
    BY <1>1 DEF WeightOK, Settled, States
  <1>4. SaneBut(t, X)
    BY <1>1, <1>2, <1>3, SetStateBut
  <1>5. /\ t.current = p /\ t.rq = s.rq /\ t.vruntime = s.vruntime
        /\ \A q \in Slots : t.state[q] = IF q = p THEN st ELSE s.state[q]
    BY <1>1 DEF SchedState
  <1> HIDE DEF p, t
  <1>6. OldKeys(t) /\ Sorted(t.rq)
    BY <1>5 DEF OldKeys, Settled, Kept
  <1>7. \A q \in Slots : t.state[q] = "RUNNING" => q = t.current
    BY <1>5 DEF Settled, Kept, p
  <1>8. t.state[Idle] # "UNUSED"
    BY <1>1, <1>5, SlotFacts DEF Settled, Kept
  <1>9. Kept(t, X)
    BY <1>4, <1>6, <1>7, <1>8 DEF Kept
  <1>10. p \notin X => ~OnQueue(t, p)
    BY <1>2, <1>5 DEF OnQueue
  <1>11. Callable(t, X)
    BY <1>1, <1>3, <1>5, <1>9, <1>10 DEF Callable
  <1>12. QED
    BY <1>5, <1>11 DEF p, t

(* Between two steps, schedule() may be called. *)
LEMMA AtRest ==
    ASSUME NEW X, NEW s, Settled(s, X), Idle \notin X
    PROVE  Callable(s, X)
  <1>1. SaneBut(s, X) /\ QueueOKBut(s, X) /\ s.current \in Slots \cup {NONE}
    BY Fields DEF Settled, Kept, SaneBut
  <1>2. s.current \in Slots \ (X \cup {Idle}) => ~OnQueue(s, s.current)
    BY <1>1, NotQueued DEF Settled
  <1>3. QED
    BY <1>1, <1>2, SlotFacts DEF Callable, Settled

(* A blocked process may be woken, also when it is the current one or the  *)
(* parent of the one that exits.                                           *)
LEMMA SignalKept ==
    ASSUME NEW X, NEW s, Kept(s, X), NEW p \in Slots
    PROVE  /\ Kept(SignalSend(s, p), X)
           /\ SignalSend(s, p).current = s.current
           /\ \A q \in Slots :
                 /\ \/ SignalSend(s, p).state[q] = s.state[q]
                    \/ q = p /\ s.state[q] = "BLOCKED" /\ SignalSend(s, p).state[q] = "READY"
                 /\ q # p /\ ~OnQueue(s, q) => ~OnQueue(SignalSend(s, p), q)
  <1>1. CASE s.state[p] # "BLOCKED"
    BY <1>1 DEF SignalSend
  <1>2. CASE s.state[p] = "BLOCKED"
    <2>1. SaneBut(s, X) /\ s \in SchedState /\ QueueOKBut(s, X) /\ WeightOK(s)
      BY DEF Kept, SaneBut
    <2>2. s.weight[p] > 0 /\ (p \notin X \cup {Idle} => ~OnQueue(s, p))
      BY <1>2, <2>1, NotQueued DEF WeightOK
    <2>3. SignalSend(s, p) = CfsEnqueue(s, p)
      BY <1>2 DEF SignalSend
    <2>4. \A q \in Slots : OnQueue(CfsEnqueue(s, p), q) <=> OnQueue(s, q) \/ q = p
      BY <2>1, EnqueueAdds
    <2>5. /\ Kept(CfsEnqueue(s, p), X)
          /\ CfsEnqueue(s, p).current = s.current
          /\ \A q \in Slots :
                CfsEnqueue(s, p).state[q] = IF q = p THEN "READY" ELSE s.state[q]
      BY <2>2, EnqueueKept
    <2>6. QED
      BY <1>2, <2>3, <2>4, <2>5
  <1>3. QED
    BY <1>1, <1>2
-----------------------------------------------------------------------------
(* What a step that does not reschedule gives. *)
Goes == /\ Settled(sched', rewoken')
        /\ sched'.current = sched.current
        /\ \A p \in Slots : sched.state[p] # "UNUSED" => sched'.state[p] # "UNUSED"

(* A new process starts in a slot that is neither running nor queued.      *)
LEMMA CreateStep ==
    ASSUME IInv, NEW prio \in Priorities, Create(prio)
    PROVE  Goes
  <1> DEFINE p == CHOOSE q \in FreeSlots(sched) : \A r \in FreeSlots(sched) : q <= r
             s == sched
             X == rewoken
  <1>1. sched' = ProcessCreate(s, p, prio) /\ FreeSlots(s) # {} /\ rewoken' = X
    BY DEF Create, lists
  <1>2. p \in FreeSlots(s)
    <2>1. FreeSlots(s) \in SUBSET Nat
      BY SlotFacts DEF FreeSlots
    <2>2. QED
      BY <1>1, <2>1, LeastElement
  <1> HIDE DEF p
  <1>3. p \in Slots /\ s.state[p] = "UNUSED"
    BY <1>2 DEF FreeSlots
  <1>4. /\ Settled(s, X) /\ Kept(s, X) /\ SaneBut(s, X) /\ QueueOKBut(s, X) /\ p # Idle
        /\ s \in SchedState /\ s.rq \in Seq(Node)
    BY <1>3, Fields DEF IInv, Settled, Kept, SaneBut
  <1>5. /\ SaneBut(sched', X) /\ sched'.current = s.current
        /\ \A q \in Slots : sched'.state[q] = IF q = p THEN "READY" ELSE s.state[q]
    BY <1>1, <1>3, <1>4, CreateBut
  <1>6. Sorted(sched'.rq) /\ OldKeys(sched')
    <2> DEFINE b == [s EXCEPT !.weight[p] = WeightOf[prio], !.vruntime[p] = 0,
                              !.parent[p] = s.current]
               e == [proc |-> p, key |-> 0]
    <2>1. s.current \in Slots \cup {NONE} /\ WeightOf[prio] \in Nat
      BY <1>4, Fields DEF WeightOf, Priorities
    <2>2. b \in SchedState /\ b.rq = s.rq /\ b.vruntime = [s.vruntime EXCEPT ![p] = 0]
      BY <1>3, <1>4, <2>1 DEF SchedState
    <2>3. sched' = CfsEnqueue(b, p)
      BY <1>1, Zenon DEF ProcessCreate
    <2> HIDE DEF b
    <2>4. Sorted(sched'.rq)
      BY <1>3, <1>4, <2>2, <2>3, CfsSorted DEF Kept
    <2>5. \A q \in Slots : b.vruntime[q] = IF q = p THEN 0 ELSE s.vruntime[q]
      BY <1>4, <2>2, Fields
    <2>6. sched'.vruntime = b.vruntime /\ sched'.rq = RbInsert(s.rq, p, 0)
      BY <1>3, <2>2, <2>3, <2>5, CfsFields
    <2>7. PICK k \in 1 .. (Len(s.rq) + 1) : Inserted(Node, sched'.rq, s.rq, k, e)
      BY <1>3, <1>4, <2>6, RbInsertFacts
    <2>8. e \in Node /\ e.proc = p /\ e.key = 0
      BY <1>3 DEF Node
    <2> HIDE DEF e
    <2>9. /\ sched'.rq[k] = e
          /\ \A j \in DOMAIN sched'.rq \ {k} : \E l \in DOMAIN s.rq : sched'.rq[j] = s.rq[l]
      BY <1>4, <2>7, <2>8, InsertedElements
    <2>10. ~OnQueue(s, p)
      BY <1>3, <1>4, NotQueued
    <2>11. \A l \in DOMAIN s.rq : s.rq[l].proc \in Slots \ {p}
      BY <1>4, <2>10, NodeFields DEF OnQueue
    <2>12. ASSUME NEW i \in DOMAIN sched'.rq
           PROVE  sched'.rq[i].key <= sched'.vruntime[sched'.rq[i].proc]
      <3>1. CASE i = k
        BY <3>1, <1>3, <2>5, <2>6, <2>8, <2>9
      <3>2. CASE i # k
        BY <3>2, <1>4, <2>5, <2>6, <2>9, <2>11 DEF Kept, OldKeys
      <3>3. QED
        BY <3>1, <3>2
    <2>13. QED
      BY <2>4, <2>12 DEF OldKeys
  <1>7. /\ \A q \in Slots : sched'.state[q] = "RUNNING" => q = sched'.current
        /\ sched'.state[Idle] # "UNUSED"
    BY <1>4, <1>5, SlotFacts DEF Kept
  <1>8. Kept(sched', X)
    BY <1>5, <1>6, <1>7 DEF Kept
  <1>9. s.current \in Slots => s.current # p
    BY <1>3, <1>4 DEF Settled
  <1>10. QED
    BY <1>1, <1>3, <1>4, <1>5, <1>8, <1>9 DEF Goes, Settled

(* schedule() from a yield or from the timer. *)
LEMMA RescheduleStep ==
    ASSUME IInv, NEW d \in Deltas, sched' = Schedule(sched, d)
    PROVE  Rescheduled(sched', sched, rewoken)
  BY AtRest, ScheduleSettles, SchedulerAssumption DEF IInv

(* A process that blocks; another runs, or the same if it is still queued. *)
LEMMA WaitStep ==
    ASSUME IInv, NEW d \in Deltas, Wait(d)
    PROVE  Rescheduled(sched', sched, rewoken)
  <1> DEFINE b == Block(sched)
  <1>1. sched.current \in Slots \ {Idle} /\ Settled(sched, rewoken) /\ d \in Nat
    BY Fields, SchedulerAssumption DEF IInv, Settled, Kept, SaneBut, Wait
  <1>2. /\ Callable(b, rewoken) /\ b.current = sched.current
        /\ \A q \in Slots : b.state[q] = IF q = sched.current THEN "BLOCKED" ELSE sched.state[q]
    BY <1>1, SetStateKept DEF Block
  <1>3. sched' = Schedule(b, d)
    BY DEF Wait
  <1> HIDE DEF b
  <1>4. Rescheduled(sched', b, rewoken)
    BY <1>1, <1>2, <1>3, ScheduleSettles
  <1>5. QED
    BY <1>2, <1>4 DEF Rescheduled, LeastOf

(* A round of a wake loop: whoever was running or queued is excepted from  *)
(* now on.                                                                 *)
LEMMA WakeStep ==
    ASSUME IInv, NEW p \in Slots, Wake(p)
    PROVE  Goes
  <1> DEFINE s == sched
             X == rewoken'
  <1>1. p # Idle /\ s.state[p] # "UNUSED" /\ sched' = CfsEnqueue(s, p) /\ Settled(s, rewoken)
    BY DEF IInv, Wake
  <1>2. rewoken \subseteq X /\ (p \notin X => ~OnQueue(s, p) /\ p # s.current)
    BY DEF Wake, Queued, OnQueue
  <1> HIDE DEF X
  <1>3. SaneBut(s, rewoken) /\ WeightOK(s)
    BY <1>1 DEF Settled, Kept, SaneBut
  <1>4. SaneBut(s, X)
    BY <1>2, <1>3 DEF SaneBut, QueueOKBut
  <1>5. Kept(s, X)
    BY <1>1, <1>4 DEF Settled, Kept
  <1>6. /\ Kept(sched', X) /\ sched'.current = s.current
        /\ \A q \in Slots : sched'.state[q] = IF q = p THEN "READY" ELSE s.state[q]
    BY <1>1, <1>2, <1>3, <1>5, EnqueueKept DEF WeightOK
  <1>7. QED
    BY <1>1, <1>2, <1>6 DEF Goes, Settled, X

LEMMA SignalStep ==
    ASSUME IInv, NEW p \in Slots, Signal(p)
    PROVE  Goes
  <1>1. /\ Kept(sched, rewoken) /\ Settled(sched, rewoken)
        /\ sched.state[p] = "BLOCKED" /\ sched' = SignalSend(sched, p) /\ rewoken' = rewoken
    BY DEF Signal, IInv, Settled, lists
  <1>2. /\ Kept(sched', rewoken) /\ sched'.current = sched.current
        /\ \A q \in Slots :
              \/ sched'.state[q] = sched.state[q]
              \/ q = p /\ sched.state[q] = "BLOCKED" /\ sched'.state[q] = "READY"
    BY <1>1, SignalKept
  <1>3. QED
    BY <1>1, <1>2 DEF Goes, Settled

(* The node that process_exit removes may be another process's; what is    *)
(* left on the queue is right all the same.                                *)
LEMMA ExitStep ==
    ASSUME IInv, NEW d \in Deltas, Exit(d)
    PROVE  Rescheduled(sched', sched, rewoken)
  <1> DEFINE p == sched.current
             X == rewoken
             z == [sched EXCEPT !.state[p] = "ZOMBIE"]
             t == CfsDequeue(z, p)
             u == IF sched.parent[p] = NONE THEN t ELSE SignalSend(t, sched.parent[p])
  <1>1. /\ p \in Slots \ {Idle} /\ Settled(sched, X) /\ d \in Nat
        /\ sched.parent[p] \in Slots \cup {NONE}
    BY Fields, SchedulerAssumption DEF IInv, Settled, Kept, SaneBut, Exit
  <1>2. sched' = Schedule(u, d)
    BY Zenon DEF Exit, ProcessExit
  <1>3. /\ Callable(z, X) /\ z.current = p
        /\ \A q \in Slots : z.state[q] = IF q = p THEN "ZOMBIE" ELSE sched.state[q]
    BY <1>1, SetStateKept
  <1> HIDE DEF z
  <1>4. /\ Kept(t, X) /\ t.current = p /\ t.state = z.state
        /\ p \notin X => ~OnQueue(t, p)
    BY <1>1, <1>3, DequeueKept DEF Callable
  <1> HIDE DEF t
  <1>5. /\ Kept(u, X) /\ u.current = p /\ (p \notin X => ~OnQueue(u, p))
        /\ \A q \in Slots : t.state[q] # "UNUSED" => u.state[q] # "UNUSED"
    <2>1. CASE sched.parent[p] = NONE
      BY <1>4, <2>1
    <2>2. CASE sched.parent[p] \in Slots /\ sched.parent[p] # NONE
      <3> DEFINE q == sched.parent[p]
      <3>1. u = SignalSend(t, q) /\ q \in Slots
        BY <2>2
      <3> HIDE DEF q, u, p
      <3>2. t.state[p] = "ZOMBIE"
        BY <1>1, <1>3, <1>4
      <3>3. /\ Kept(u, X) /\ u.current = p
            /\ \A r \in Slots :
                  /\ \/ u.state[r] = t.state[r]
                     \/ r = q /\ t.state[r] = "BLOCKED" /\ u.state[r] = "READY"
                  /\ r # q /\ ~OnQueue(t, r) => ~OnQueue(u, r)
        BY <1>4, <3>1, SignalKept
      <3>4. p = q => u = t
        BY <3>1, <3>2 DEF SignalSend
      <3>5. QED
        BY <1>1, <1>4, <3>3, <3>4
    <2>3. QED
      BY <1>1, <2>1, <2>2
  <1> HIDE DEF u
  <1>6. Callable(u, X)
    <2>1. u.state[p] # "UNUSED"
      BY <1>1, <1>3, <1>4, <1>5
    <2>2. QED
      BY <1>1, <1>5, <2>1 DEF Callable
  <1>7. Rescheduled(sched', u, X)
    BY <1>1, <1>2, <1>6, ScheduleSettles
  <1>8. \A q \in Slots : sched.state[q] # "UNUSED" => u.state[q] # "UNUSED"
    BY <1>3, <1>4, <1>5
  <1>9. QED
    BY <1>5, <1>7, <1>8 DEF Rescheduled, LeastOf

(* The inductive invariant holds in every state, for any number of slots,  *)
(* any time slice, any running times, and whoever is listed however often. *)
THEOREM SchedulerInvariance == SchedulerSpec => []IInv
  <1>1. SchedulerInit => IInv
    <2> SUFFICES ASSUME SchedulerInit PROVE IInv
      OBVIOUS
    <2>1. /\ sched = SchedInit /\ scheduler_timer = 0
          /\ listed = [p \in Slots |-> 0] /\ rewoken = {}
      BY DEF SchedulerInit
    <2>2. SaneBut(SchedInit, {}) /\ SchedInit.current = NONE
          /\ \A p \in Slots : SchedInit.state[p] = IF p = Idle THEN "READY" ELSE "UNUSED"
      BY InitSane, ButNobody
    <2>3. Sorted(SchedInit.rq) /\ OldKeys(SchedInit)
      BY DEF SchedInit, Sorted, OldKeys
    <2>4. Settled(SchedInit, {})
      BY <2>2, <2>3, SlotFacts DEF Settled, Kept
    <2>5. 0 \in 0 .. (TIME_SLICE_MS - 1)
      BY SchedulerAssumption
    <2>6. QED
      BY <2>1, <2>4, <2>5 DEF IInv
  <1>2. IInv /\ [SchedulerNext]_schedulerVars => IInv'
    <2> SUFFICES ASSUME IInv, [SchedulerNext]_schedulerVars
                 PROVE  IInv'
      OBVIOUS
    <2>1. ASSUME Goes, UNCHANGED scheduler_timer,
                 listed' \in [Slots -> Nat], \A p \in Slots : listed'[p] <= listed[p],
                 rewoken' \subseteq Slots \ {Idle}
          PROVE  IInv'
      BY <2>1 DEF IInv, Goes
    <2>2. ASSUME Rescheduled(sched', sched, rewoken), rewoken' = rewoken,
                 scheduler_timer' \in 0 .. (TIME_SLICE_MS - 1),
                 listed' \in [Slots -> Nat],
                 \A p \in Slots : listed'[p] > listed[p] => p = sched.current,
                 listed' = listed \/ sched.current \in Slots \ {Idle}
          PROVE  IInv'
      <3>1. ASSUME NEW p \in Slots, listed'[p] > 0
            PROVE  p # Idle /\ sched'.state[p] # "UNUSED"
        <4>1. p # Idle /\ sched.state[p] # "UNUSED"
          BY <2>2, <3>1 DEF IInv, Settled
        <4>2. QED
          BY <2>2, <4>1 DEF Rescheduled
      <3>2. QED
        BY <2>2, <3>1 DEF IInv, Rescheduled
    <2>3. ASSUME NEW prio \in Priorities, Create(prio) PROVE IInv'
      <3>1. UNCHANGED <<scheduler_timer, listed, rewoken>>
        BY <2>3 DEF Create, lists
      <3>2. QED
        BY <2>1, <2>3, <3>1, CreateStep DEF IInv
    <2>4. ASSUME NEW d \in Deltas, Yield(d) PROVE IInv'
      <3>1. UNCHANGED <<scheduler_timer, listed, rewoken>> /\ sched' = Schedule(sched, d)
        BY <2>4 DEF Yield, lists
      <3>2. QED
        BY <2>2, <3>1, RescheduleStep DEF IInv
    <2>5. ASSUME NEW d \in Deltas, TimerInterrupt(d) PROVE IInv'
      <3>1. scheduler_timer' \in 0 .. (TIME_SLICE_MS - 1) /\ UNCHANGED <<listed, rewoken>>
        BY <2>5, SchedulerAssumption DEF TimerInterrupt, IInv, lists
      <3>2. CASE sched' = Schedule(sched, d)
        BY <2>2, <3>1, <3>2, RescheduleStep DEF IInv
      <3>3. CASE sched' = sched
        BY <3>1, <3>3 DEF IInv
      <3>4. QED
        BY <2>5, <3>2, <3>3 DEF TimerInterrupt
    <2>6. ASSUME NEW d \in Deltas, Wait(d) PROVE IInv'
      <3>1. /\ UNCHANGED <<scheduler_timer, rewoken>>
            /\ listed' = [listed EXCEPT ![sched.current] = @ + 1]
            /\ sched.current \notin {NONE, Idle}
        BY <2>6 DEF Wait
      <3>2. sched.current \in Slots \ {Idle}
        BY <3>1, Fields DEF IInv, Settled, Kept, SaneBut
      <3>3. /\ listed' \in [Slots -> Nat]
            /\ \A p \in Slots : listed'[p] > listed[p] => p = sched.current
        BY <3>1, <3>2 DEF IInv
      <3>4. QED
        BY <2>2, <2>6, <3>1, <3>2, <3>3, WaitStep DEF IInv
    <2>7. ASSUME NEW p \in Slots, Wake(p) PROVE IInv'
      <3>1. /\ UNCHANGED scheduler_timer
            /\ listed[p] > 0 /\ listed' = [listed EXCEPT ![p] = @ - 1]
            /\ rewoken' \subseteq rewoken \cup {p}
        BY <2>7 DEF Wake
      <3>2. listed' \in [Slots -> Nat] /\ \A q \in Slots : listed'[q] <= listed[q]
        BY <3>1 DEF IInv
      <3>3. rewoken' \subseteq Slots \ {Idle}
        BY <3>1 DEF IInv
      <3>4. QED
        BY <2>1, <2>7, <3>1, <3>2, <3>3, WakeStep
    <2>8. ASSUME NEW p \in Slots, Signal(p) PROVE IInv'
      <3>1. UNCHANGED <<scheduler_timer, listed, rewoken>>
        BY <2>8 DEF Signal, lists
      <3>2. QED
        BY <2>1, <2>8, <3>1, SignalStep DEF IInv
    <2>9. ASSUME NEW d \in Deltas, Exit(d) PROVE IInv'
      <3>1. UNCHANGED <<scheduler_timer, listed, rewoken>>
        BY <2>9 DEF Exit, lists
      <3>2. QED
        BY <2>2, <2>9, <3>1, ExitStep DEF IInv
    <2>10. CASE UNCHANGED schedulerVars
      BY <2>10 DEF schedulerVars, lists, IInv
    <2>11. QED
      BY <2>3, <2>4, <2>5, <2>6, <2>7, <2>8, <2>9, <2>10 DEF SchedulerNext
  <1>3. QED
    BY <1>1, <1>2, PTL DEF SchedulerSpec

(* Type correctness of the scheduler's state. *)
THEOREM TypeCorrect == SchedulerSpec => []SchedulerTypeOK
  <1>1. IInv => SchedulerTypeOK
    BY Fields DEF IInv, Settled, Kept, SaneBut, SchedulerTypeOK
  <1>2. QED
    BY <1>1, SchedulerInvariance, PTL

(* Only the current process is in PROCESS_RUNNING, and it is, unless a loop *)
(* has woken it while it ran or was queued.                                 *)
THEOREM OneRuns == SchedulerSpec => []RunningIsCurrent
  <1>1. IInv => RunningIsCurrent
    BY DEF IInv, Settled, Kept, RunningIsCurrent
  <1>2. QED
    BY <1>1, SchedulerInvariance, PTL

(* Whatever removal by key unlinks, and whatever second nodes there are of *)
(* the processes that were woken while they ran or were queued: any other  *)
(* process is on the run queue once at most, while it is ready only, and   *)
(* under the vruntime it has.                                              *)
THEOREM QueueIsRight == SchedulerSpec => []QueueMatchesStates
  <1>1. IInv => QueueMatchesStates
    BY DEF IInv, Settled, Kept, SaneBut, QueueOKBut, QueueMatchesStates
  <1>2. QED
    BY <1>1, SchedulerInvariance, PTL

(* A step that gives the processor to another process gives it to one that *)
(* has run no longer than any process with a node on the run queue, in     *)
(* whatever order they were created, woken and switched out; unless the    *)
(* one it is given to was woken while it ran or was queued.                *)
THEOREM LeastIsPicked == SchedulerSpec => PicksLeastVruntime
  <1> DEFINE Least == LeastOf(sched', sched, rewoken)
  <1>1. IInv /\ [SchedulerNext]_schedulerVars => [Least]_schedulerVars
    <2> SUFFICES ASSUME IInv, SchedulerNext
                 PROVE  Least
      BY DEF schedulerVars
    <2>1. sched'.current = sched.current => Least
      BY DEF LeastOf
    <2>2. Rescheduled(sched', sched, rewoken) => Least
      BY DEF Rescheduled
    <2> HIDE DEF Least
    <2>3. ASSUME NEW prio \in Priorities, Create(prio) PROVE Least
      BY <2>1, <2>3, CreateStep DEF Goes
    <2>4. ASSUME NEW d \in Deltas, Yield(d) PROVE Least
      BY <2>2, <2>4, RescheduleStep DEF Yield
    <2>5. ASSUME NEW d \in Deltas, TimerInterrupt(d) PROVE Least
      BY <2>1, <2>2, <2>5, RescheduleStep DEF TimerInterrupt
    <2>6. ASSUME NEW d \in Deltas, Wait(d) PROVE Least
      BY <2>2, <2>6, WaitStep
    <2>7. ASSUME NEW p \in Slots, Wake(p) PROVE Least
      BY <2>1, <2>7, WakeStep DEF Goes
    <2>8. ASSUME NEW p \in Slots, Signal(p) PROVE Least
      BY <2>1, <2>8, SignalStep DEF Goes
    <2>9. ASSUME NEW d \in Deltas, Exit(d) PROVE Least
      BY <2>2, <2>9, ExitStep
    <2>10. QED
      BY <2>3, <2>4, <2>5, <2>6, <2>7, <2>8, <2>9 DEF SchedulerNext
  <1>2. QED
    BY <1>1, SchedulerInvariance, PTL DEF SchedulerSpec, PicksLeastVruntime, LeastOf
=============================================================================
