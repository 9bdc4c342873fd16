---------------------------- MODULE SchedLemmas ----------------------------
(***************************************************************************)
(* What the operators of SchedOps do to any scheduler state, whoever calls *)
(* them: the proofs about the scheduler, the semaphores and the message    *)
(* queues cite these lemmas.                                               *)
(***************************************************************************)
EXTENDS SchedOps, DataLemmas, FiniteSetTheorems

SchedState ==
    [current: Slots \cup {NONE}, rq: Seq(Node), nr: Int, tw: Int,
     state: [Slots -> States], vruntime: [Slots -> Nat], weight: [Slots -> Nat],
     parent: [Slots -> Slots \cup {NONE}]]

OnQueue(s, p) == \E i \in DOMAIN s.rq : s.rq[i].proc = p

(* QueueMatchesStates, of any scheduler state. *)
QueueOK(s) ==
    \A i \in DOMAIN s.rq :
        s.rq[i].proc # Idle =>
            /\ s.state[s.rq[i].proc] = "READY"
            /\ s.rq[i].key = s.vruntime[s.rq[i].proc]
            /\ \A j \in DOMAIN s.rq : s.rq[j].proc = s.rq[i].proc => j = i

(* The same of all processes but those in X, and of these only that they    *)
(* exist.                                                                   *)
QueueOKBut(s, X) ==
    \A i \in DOMAIN s.rq :
        s.rq[i].proc # Idle =>
            /\ s.state[s.rq[i].proc] # "UNUSED"
            /\ s.rq[i].proc \notin X =>
                  /\ s.state[s.rq[i].proc] = "READY"
                  /\ s.rq[i].key = s.vruntime[s.rq[i].proc]
                  /\ \A j \in DOMAIN s.rq : s.rq[j].proc = s.rq[i].proc => j = i

(* update_vruntime divides by the weight. *)
WeightOK(s) == \A p \in Slots : p = Idle \/ s.state[p] # "UNUSED" => s.weight[p] > 0

Sane(s) == s \in SchedState /\ QueueOK(s) /\ WeightOK(s)

SaneBut(s, X) == s \in SchedState /\ QueueOKBut(s, X) /\ WeightOK(s)

LEMMA ButNobody == \A s : Sane(s) <=> SaneBut(s, {})
  BY DEF Sane, SaneBut, QueueOK, QueueOKBut

RunsOnly(s) == \A p \in Slots : s.state[p] = "RUNNING" <=> p = s.current

-----------------------------------------------------------------------------
(* A node goes to the front of the tree only ahead of greater keys. *)
LEMMA RbInsertFacts ==
    ASSUME NEW q \in Seq(Node), NEW p \in Slots, NEW key \in Nat
    PROVE  \E k \in 1 .. (Len(q) + 1) :
               /\ Inserted(Node, RbInsert(q, p, key), q, k, [proc |-> p, key |-> key])
               /\ k = 1 => \A i \in 1 .. Len(q) : q[i].key > key
  <1> DEFINE S == {i \in DOMAIN q : q[i].key <= key}
             n == Cardinality(S)
  <1>0. Len(q) \in Nat /\ \A i \in 1 .. Len(q) : q[i] \in Node /\ q[i].key \in Nat
    <2>1. Len(q) \in Nat /\ \A i \in 1 .. Len(q) : q[i] \in Node
      OBVIOUS
    <2>2. QED
      BY <2>1 DEF Node
  <1>1. IsFiniteSet(1 .. Len(q)) /\ Cardinality(1 .. Len(q)) = Len(q)
    <2>1. /\ IsFiniteSet(1 .. Len(q))
          /\ Cardinality(1 .. Len(q)) = IF 1 > Len(q) THEN 0 ELSE Len(q) - 1 + 1
      BY <1>0, FS_Interval
    <2>2. QED
      BY <1>0, <2>1
  <1>2. S \in SUBSET (1 .. Len(q))
    OBVIOUS
  <1>3. IsFiniteSet(S) /\ n <= Len(q)
    BY <1>1, <1>2, FS_Subset
  <1>4. n \in Nat
    BY <1>3, FS_CardinalityType
  <1>5. n = 0 => S = {}
    BY <1>3, FS_EmptySet
  <1>6. n = 0 => \A i \in 1 .. Len(q) : q[i].key > key
    BY <1>0, <1>5
  <1>7. RbInsert(q, p, key) = InsertAt(q, 1 + n, [proc |-> p, key |-> key])
    BY DEF RbInsert
  <1> HIDE DEF n, S
  <1>8. 1 + n \in 1 .. (Len(q) + 1)
    BY <1>3, <1>4
  <1>9. [proc |-> p, key |-> key] \in Node
    BY DEF Node
  <1>10. Inserted(Node, InsertAt(q, 1 + n, [proc |-> p, key |-> key]), q, 1 + n,
                [proc |-> p, key |-> key])
    BY <1>8, <1>9, InsertAtFacts
  <1>11. 1 + n = 1 => \A i \in 1 .. Len(q) : q[i].key > key
    BY <1>4, <1>6
  <1>12. QED
    BY <1>7, <1>8, <1>10, <1>11

(* Of the nodes with the key, the first one goes; if there is none, none.  *)
LEMMA RbRemoveFacts ==
    ASSUME NEW q \in Seq(Node), NEW key \in Nat
    PROVE  \/ /\ RbRemove(q, key) = q
              /\ \A i \in 1 .. Len(q) : q[i].key # key
           \/ \E k \in 1 .. Len(q) :
                 /\ Removed(Node, RbRemove(q, key), q, k)
                 /\ q[k].key = key
                 /\ \A i \in 1 .. (k - 1) : q[i].key # key
  <1> DEFINE S == {i \in DOMAIN q : q[i].key = key}
             k == CHOOSE i \in S : \A j \in S : i <= j
  <1>1. CASE S = {}
    BY <1>1 DEF RbRemove
  <1>2. CASE S # {}
    <2>1. S \in SUBSET Nat
      OBVIOUS
    <2>2. \E i \in S : \A j \in S : i <= j
      BY <1>2, <2>1, LeastElement
    <2>3. k \in S /\ \A j \in S : k <= j
      BY <2>2
    <2>4. RbRemove(q, key) = RemoveAt(q, k)
      BY <1>2 DEF RbRemove
    <2> HIDE DEF k
    <2>5. k \in 1 .. Len(q) /\ q[k].key = key /\ \A i \in 1 .. (k - 1) : q[i].key # key
      BY <2>3
    <2>6. Removed(Node, RemoveAt(q, k), q, k)
      BY <2>5, RemoveAtFacts
    <2>7. QED
      BY <2>4, <2>5, <2>6
  <1>3. QED
    BY <1>1, <1>2
-----------------------------------------------------------------------------
(* The fields of a scheduler state. *)
LEMMA Fields ==
    ASSUME NEW s \in SchedState
    PROVE  /\ s.current \in Slots \cup {NONE}
           /\ s.rq \in Seq(Node)
           /\ s.nr \in Int /\ s.tw \in Int
           /\ s.state \in [Slots -> States]
           /\ s.vruntime \in [Slots -> Nat]
           /\ s.weight \in [Slots -> Nat]
           /\ s.parent \in [Slots -> Slots \cup {NONE}]
  BY DEF SchedState

(* An update of the fields that enqueueing and dequeueing change. *)
LEMMA UpdateType ==
    ASSUME NEW s \in SchedState, NEW state \in [Slots -> States], NEW rq \in Seq(Node),
           NEW nr \in Int, NEW tw \in Int
    PROVE  [s EXCEPT !.state = state, !.rq = rq, !.nr = nr, !.tw = tw] \in SchedState
  BY DEF SchedState

(* The nodes of a run queue. *)
LEMMA NodeFields ==
    ASSUME NEW q \in Seq(Node)
    PROVE  /\ Len(q) \in Nat /\ DOMAIN q = 1 .. Len(q)
           /\ \A i \in 1 .. Len(q) : q[i] \in Node /\ q[i].proc \in Slots /\ q[i].key \in Nat
  <1>1. /\ Len(q) \in Nat /\ DOMAIN q = 1 .. Len(q)
        /\ \A i \in 1 .. Len(q) : q[i] \in Node
    OBVIOUS
  <1>2. QED
    BY <1>1 DEF Node

(* A process that is not queued, and whatever is done to the state of one. *)
LEMMA SetStateBut ==
    ASSUME NEW X, NEW s, SaneBut(s, X), NEW p \in Slots,
           p \notin X \cup {Idle} => ~OnQueue(s, p),
           NEW st \in States, st # "UNUSED", s.weight[p] > 0
    PROVE  SaneBut([s EXCEPT !.state[p] = st], X)
  <1> DEFINE t == [s EXCEPT !.state[p] = st]
  <1>1. s \in SchedState /\ QueueOKBut(s, X) /\ WeightOK(s)
    BY DEF SaneBut
  <1>2. t \in SchedState
    BY <1>1 DEF SchedState
  <1>3. t.rq = s.rq /\ t.vruntime = s.vruntime /\ t.weight = s.weight
        /\ t.state = [s.state EXCEPT ![p] = st]
    BY <1>1 DEF SchedState
  <1> HIDE DEF t
  <1>4. \A q \in Slots : t.state[q] = IF q = p THEN st ELSE s.state[q]
    BY <1>1, <1>3, Fields
  <1>5. QueueOKBut(t, X)
    <2>1. \A i \in DOMAIN s.rq : s.rq[i].proc \in Slots
      BY <1>1, Fields, NodeFields
    <2>2. QED
      BY <1>1, <1>3, <1>4, <2>1 DEF QueueOKBut, OnQueue
  <1>6. WeightOK(t)
    BY <1>1, <1>3, <1>4 DEF WeightOK
  <1>7. QED
    BY <1>2, <1>5, <1>6 DEF SaneBut, t

LEMMA EnqueueType ==
    ASSUME NEW s \in SchedState, NEW p \in Slots
    PROVE  CfsEnqueue(s, p) \in SchedState
  <1> DEFINE t == CfsEnqueue(s, p)
  <1>1. s.vruntime[p] \in Nat /\ s.weight[p] \in Nat
    BY Fields
  <1>2. RbInsert(s.rq, p, s.vruntime[p]) \in Seq(Node)
    BY <1>1, Fields, RbInsertFacts DEF Inserted
  <1>3. [s.state EXCEPT ![p] = "READY"] \in [Slots -> States]
    BY Fields DEF States
  <1>4. s.nr + 1 \in Int /\ s.tw + s.weight[p] \in Int
    BY <1>1, Fields
  <1>5. t = [s EXCEPT !.state = [s.state EXCEPT ![p] = "READY"],
                      !.rq = RbInsert(s.rq, p, s.vruntime[p]),
                      !.nr = s.nr + 1, !.tw = s.tw + s.weight[p]]
    BY DEF SchedState, CfsEnqueue
  <1> HIDE DEF t
  <1>6. t \in SchedState
    BY <1>2, <1>3, <1>4, <1>5, UpdateType, Zenon
  <1>7. QED
    BY <1>6 DEF t

(* A process that is put on the run queue is on it once. *)
LEMMA EnqueueBut ==
    ASSUME NEW X, NEW s, SaneBut(s, X), NEW p \in Slots,
           p \notin X \cup {Idle} => ~OnQueue(s, p), s.weight[p] > 0
    PROVE  SaneBut(CfsEnqueue(s, p), X)
  <1> DEFINE t == CfsEnqueue(s, p)
             e == [proc |-> p, key |-> s.vruntime[p]]
  <1>1. s \in SchedState /\ QueueOKBut(s, X) /\ WeightOK(s)
    BY DEF SaneBut
  <1>2. s.vruntime[p] \in Nat /\ s.weight[p] \in Nat
    BY <1>1, Fields
  <1>3. PICK k \in 1 .. (Len(s.rq) + 1) :
         Inserted(Node, RbInsert(s.rq, p, s.vruntime[p]), s.rq, k, e)
    BY <1>1, <1>2, Fields, RbInsertFacts
  <1>4. /\ t.rq = RbInsert(s.rq, p, s.vruntime[p])
        /\ t.vruntime = s.vruntime /\ t.weight = s.weight
        /\ t.state = [s.state EXCEPT ![p] = "READY"]
    BY <1>1 DEF SchedState, CfsEnqueue
  <1>5. t \in SchedState
    BY <1>1, EnqueueType
  <1>6. Inserted(Node, t.rq, s.rq, k, e)
    BY <1>3, <1>4
  <1> HIDE DEF t
  <1>7. \A q \in Slots : t.state[q] = IF q = p THEN "READY" ELSE s.state[q]
    BY <1>1, <1>4, Fields
  <1>8. QueueOKBut(t, X)
    <2>1. /\ Len(s.rq) \in Nat /\ DOMAIN s.rq = 1 .. Len(s.rq)
          /\ \A i \in 1 .. Len(s.rq) : s.rq[i].proc \in Slots
      BY <1>1, Fields, NodeFields
    <2>2. /\ DOMAIN t.rq = 1 .. (Len(s.rq) + 1)
          /\ \A j \in 1 .. (Len(s.rq) + 1) :
                 t.rq[j] = IF j < k THEN s.rq[j] ELSE IF j = k THEN e ELSE s.rq[j - 1]
      BY <1>6, NodeFields DEF Inserted
    <2> DEFINE old(j) == IF j < k THEN j ELSE j - 1
    <2>3. \A j \in (1 .. (Len(s.rq) + 1)) \ {k} :
             old(j) \in 1 .. Len(s.rq) /\ t.rq[j] = s.rq[old(j)]
      BY <2>1, <2>2
    <2>4. \A i, j \in (1 .. (Len(s.rq) + 1)) \ {k} : old(i) = old(j) => i = j
      BY <2>1
    <2>5. t.rq[k] = e
      BY <2>1, <2>2
    <2> HIDE DEF old
    <2>6. SUFFICES ASSUME NEW i \in DOMAIN t.rq, t.rq[i].proc # Idle
                   PROVE  /\ t.state[t.rq[i].proc] # "UNUSED"
                          /\ t.rq[i].proc \notin X =>
                                /\ t.state[t.rq[i].proc] = "READY"
                                /\ t.rq[i].key = t.vruntime[t.rq[i].proc]
                                /\ \A j \in DOMAIN t.rq : t.rq[j].proc = t.rq[i].proc => j = i
      BY DEF QueueOKBut
    <2>10. t.rq[i].proc \in Slots /\ t.state[t.rq[i].proc] # "UNUSED"
      <3>1. CASE i = k
        BY <3>1, <2>5, <1>7
      <3>2. CASE i # k
        <4>1. old(i) \in DOMAIN s.rq /\ t.rq[i] = s.rq[old(i)]
          BY <3>2, <2>1, <2>2, <2>3, <2>6
        <4>2. t.rq[i].proc \in Slots /\ s.state[t.rq[i].proc] # "UNUSED"
          BY <4>1, <2>1, <2>6, <1>1 DEF QueueOKBut
        <4>3. QED
          BY <4>2, <1>7
      <3>3. QED
        BY <3>1, <3>2
    <2>11. SUFFICES ASSUME t.rq[i].proc \notin X
                    PROVE  /\ t.state[t.rq[i].proc] = "READY"
                           /\ t.rq[i].key = t.vruntime[t.rq[i].proc]
                           /\ \A j \in DOMAIN t.rq : t.rq[j].proc = t.rq[i].proc => j = i
      BY <2>10
    <2>7. CASE i = k
      <3>1. p # Idle /\ ~OnQueue(s, p)
        BY <2>5, <2>6, <2>7, <2>11
      <3>2. \A j \in DOMAIN t.rq : t.rq[j].proc = p => j = k
        BY <3>1, <2>1, <2>2, <2>3 DEF OnQueue
      <3>3. QED
        BY <3>2, <2>5, <2>7, <1>4, <1>7
    <2>8. CASE i # k
      <3>1. old(i) \in DOMAIN s.rq /\ t.rq[i] = s.rq[old(i)]
        BY <2>1, <2>2, <2>3, <2>6, <2>8
      <3>2. t.rq[i].proc # p
        BY <3>1, <2>6, <2>11 DEF OnQueue
      <3>3. t.rq[i].proc \in Slots
        BY <3>1, <2>1
      <3>4. s.state[t.rq[i].proc] = "READY" /\ t.rq[i].key = s.vruntime[t.rq[i].proc]
        BY <3>1, <2>6, <2>11, <1>1 DEF QueueOKBut
      <3>5. \A j \in DOMAIN t.rq : t.rq[j].proc = t.rq[i].proc => j = i
        <4> SUFFICES ASSUME NEW j \in DOMAIN t.rq, t.rq[j].proc = t.rq[i].proc
                     PROVE  j = i
          OBVIOUS
        <4>1. j # k
          BY <2>5, <3>2
        <4>2. old(j) \in DOMAIN s.rq /\ t.rq[j] = s.rq[old(j)]
          BY <4>1, <2>1, <2>2, <2>3
        <4>3. old(j) = old(i)
          BY <4>2, <3>1, <2>6, <2>11, <1>1 DEF QueueOKBut
        <4>4. QED
          BY <4>1, <4>3, <2>2, <2>4, <2>6, <2>8
      <3>6. QED
        BY <3>2, <3>3, <3>4, <3>5, <1>4, <1>7
    <2>9. QED
      BY <2>7, <2>8
  <1>9. WeightOK(t)
    BY <1>1, <1>4, <1>7 DEF WeightOK
  <1>10. QED
    BY <1>5, <1>8, <1>9 DEF SaneBut, t

(* Whatever node a removal takes, the others stay as they are. *)
LEMMA DequeueBut ==
    ASSUME NEW X, NEW s, SaneBut(s, X), NEW p \in Slots
    PROVE  SaneBut(CfsDequeue(s, p), X)
  <1> DEFINE t == CfsDequeue(s, p)
             r == RbRemove(s.rq, s.vruntime[p])
  <1>1. s \in SchedState /\ QueueOKBut(s, X) /\ WeightOK(s)
    BY DEF SaneBut
  <1>2. s.vruntime[p] \in Nat /\ s.weight[p] \in Nat
    BY <1>1, Fields
  <1>3. r = s.rq \/ \E k \in 1 .. Len(s.rq) : Removed(Node, r, s.rq, k)
    BY <1>1, <1>2, Fields, RbRemoveFacts
  <1>4. /\ t.rq = r
        /\ t.vruntime = s.vruntime /\ t.weight = s.weight /\ t.state = s.state
    BY <1>1 DEF SchedState, CfsDequeue
  <1>5. r \in Seq(Node)
    BY <1>1, <1>3, Fields DEF Removed
  <1>6. t \in SchedState
    <2>1. s.nr - 1 \in Int /\ s.tw - s.weight[p] \in Int /\ s.state \in [Slots -> States]
      BY <1>1, <1>2, Fields
    <2>2. t = [s EXCEPT !.state = s.state, !.rq = r, !.nr = s.nr - 1, !.tw = s.tw - s.weight[p]]
      BY <1>1 DEF SchedState, CfsDequeue
    <2> HIDE DEF t, r
    <2>3. QED
      BY <1>1, <1>5, <2>1, <2>2, UpdateType, Zenon
  <1> HIDE DEF t, r
  <1>7. QueueOKBut(t, X)
    <2>1. CASE r = s.rq
      BY <2>1, <1>1, <1>4 DEF QueueOKBut
    <2>2. CASE \E k \in 1 .. Len(s.rq) : Removed(Node, r, s.rq, k)
      <3>1. PICK k \in 1 .. Len(s.rq) : Removed(Node, r, s.rq, k)
        BY <2>2
      <3> DEFINE old(j) == IF j < k THEN j ELSE j + 1
      <3>2. Len(s.rq) \in Nat /\ DOMAIN s.rq = 1 .. Len(s.rq)
        BY <1>1, Fields, NodeFields
      <3>3. DOMAIN r = 1 .. (Len(s.rq) - 1)
        BY <1>5, <3>1, NodeFields DEF Removed
      <3>4. \A j \in DOMAIN r : old(j) \in DOMAIN s.rq /\ r[j] = s.rq[old(j)]
        BY <3>1, <3>2, <3>3 DEF Removed
      <3>5. \A i, j \in DOMAIN r : old(i) = old(j) => i = j
        BY <3>2, <3>3
      <3> HIDE DEF old
      <3>6. QED
        BY <1>1, <1>4, <3>4, <3>5 DEF QueueOKBut
    <2>3. QED
      BY <1>3, <2>1, <2>2
  <1>8. WeightOK(t)
    BY <1>1, <1>4 DEF WeightOK
  <1>9. QED
    BY <1>6, <1>7, <1>8 DEF SaneBut, t
(* What enqueueing and dequeueing leave alone. *)
LEMMA CfsFields ==
    ASSUME NEW s \in SchedState, NEW p \in Slots
    PROVE  /\ CfsEnqueue(s, p).current = s.current
           /\ CfsEnqueue(s, p).rq = RbInsert(s.rq, p, s.vruntime[p])
           /\ CfsEnqueue(s, p).vruntime = s.vruntime
           /\ CfsEnqueue(s, p).weight = s.weight
           /\ CfsEnqueue(s, p).parent = s.parent
           /\ \A q \in Slots : CfsEnqueue(s, p).state[q] = IF q = p THEN "READY" ELSE s.state[q]
           /\ CfsDequeue(s, p).current = s.current
           /\ CfsDequeue(s, p).rq = RbRemove(s.rq, s.vruntime[p])
           /\ CfsDequeue(s, p).vruntime = s.vruntime
           /\ CfsDequeue(s, p).weight = s.weight
           /\ CfsDequeue(s, p).parent = s.parent
           /\ CfsDequeue(s, p).state = s.state
  BY DEF SchedState, CfsEnqueue, CfsDequeue

(* The other assignments, to processes that are not queued. *)
LEMMA SetVruntimeBut ==
    ASSUME NEW X, NEW s, SaneBut(s, X), NEW p \in Slots,
           p \notin X \cup {Idle} => ~OnQueue(s, p), NEW v \in Nat
    PROVE  SaneBut([s EXCEPT !.vruntime[p] = v], X)
  <1> DEFINE t == [s EXCEPT !.vruntime[p] = v]
  <1>1. s \in SchedState /\ QueueOKBut(s, X) /\ WeightOK(s)
    BY DEF SaneBut
  <1>2. t \in SchedState
    BY <1>1 DEF SchedState
  <1>3. t.rq = s.rq /\ t.state = s.state /\ t.weight = s.weight
        /\ t.vruntime = [s.vruntime EXCEPT ![p] = v]
    BY <1>1 DEF SchedState
  <1> HIDE DEF t
  <1>4. \A q \in Slots : t.vruntime[q] = IF q = p THEN v ELSE s.vruntime[q]
    BY <1>1, <1>3, Fields
  <1>5. QueueOKBut(t, X)
    <2>1. \A i \in DOMAIN s.rq : s.rq[i].proc \in Slots
      BY <1>1, Fields, NodeFields
    <2>2. QED
      BY <1>1, <1>3, <1>4, <2>1 DEF QueueOKBut, OnQueue
  <1>6. WeightOK(t)
    BY <1>1, <1>3 DEF WeightOK
  <1>7. QED
    BY <1>2, <1>5, <1>6 DEF SaneBut, t

(* The run queue does not depend on who is current. *)
LEMMA SetCurrentBut ==
    ASSUME NEW X, NEW s, SaneBut(s, X), NEW p \in Slots
    PROVE  SaneBut([s EXCEPT !.current = p], X)
  <1> DEFINE t == [s EXCEPT !.current = p]
  <1>1. s \in SchedState /\ QueueOKBut(s, X) /\ WeightOK(s)
    BY DEF SaneBut
  <1>2. t \in SchedState
    BY <1>1 DEF SchedState
  <1>3. t.rq = s.rq /\ t.state = s.state /\ t.weight = s.weight /\ t.vruntime = s.vruntime
    BY <1>1 DEF SchedState
  <1> HIDE DEF t
  <1>4. QED
    BY <1>1, <1>2, <1>3 DEF SaneBut, QueueOKBut, WeightOK, t
-----------------------------------------------------------------------------
(* Putting the previous process back keeps the node of the next one in     *)
(* front of every other node with its key.                                 *)
IsFirstOf(q, n, key) ==
    \E h \in 1 .. Len(q) :
        q[h].proc = n /\ q[h].key = key /\ \A i \in 1 .. (h - 1) : q[i].key # key

(* It is first of its key before, and the insertion leaves it so. *)
LEMMA InsertBehind ==
    ASSUME NEW q \in Seq(Node), Len(q) > 0, NEW p \in Slots, NEW key \in Nat
    PROVE  IsFirstOf(RbInsert(q, p, key), q[1].proc, q[1].key)
  <1> DEFINE r == RbInsert(q, p, key)
             e == [proc |-> p, key |-> key]
  <1>1. PICK k \in 1 .. (Len(q) + 1) :
            /\ Inserted(Node, r, q, k, e)
            /\ k = 1 => \A i \in 1 .. Len(q) : q[i].key > key
    BY RbInsertFacts
  <1> HIDE DEF r
  <1>2. Len(q) \in Nat /\ q[1].key \in Nat
    BY NodeFields
  <1>3. CASE k = 1
    <2>1. r[2] = q[1] /\ r[1] = e /\ 2 \in 1 .. Len(r)
      BY <1>1, <1>2, <1>3 DEF Inserted
    <2>2. q[1].key # key
      BY <1>1, <1>2, <1>3
    <2>3. \A i \in 1 .. (2 - 1) : r[i].key # q[1].key
      BY <2>1, <2>2
    <2>4. QED
      BY <2>1, <2>3 DEF IsFirstOf, r
  <1>4. CASE k # 1
    <2>1. r[1] = q[1] /\ 1 \in 1 .. Len(r)
      BY <1>1, <1>2, <1>4 DEF Inserted
    <2>2. QED
      BY <2>1 DEF IsFirstOf, r
  <1>5. QED
    BY <1>3, <1>4

(* And so the removal by its key takes it, and no other. *)
LEMMA DequeueTakes ==
    ASSUME NEW X, NEW s, SaneBut(s, X), NEW n \in Slots \ (X \cup {Idle}),
           IsFirstOf(s.rq, n, s.vruntime[n])
    PROVE  \E k \in 1 .. Len(s.rq) :
               /\ Removed(Node, CfsDequeue(s, n).rq, s.rq, k)
               /\ s.rq[k].proc = n
               /\ \A i \in 1 .. Len(s.rq) : s.rq[i].proc = n => i = k
  <1> DEFINE q == s.rq
             v == s.vruntime[n]
             r == RbRemove(q, v)
  <1>1. s \in SchedState /\ QueueOKBut(s, X)
    BY DEF SaneBut
  <1>2. q \in Seq(Node) /\ v \in Nat
    BY <1>1, Fields
  <1>3. Len(q) \in Nat /\ DOMAIN q = 1 .. Len(q)
    BY <1>2, NodeFields
  <1>4. PICK h \in 1 .. Len(q) :
            q[h].proc = n /\ q[h].key = v /\ \A i \in 1 .. (h - 1) : q[i].key # v
    BY DEF IsFirstOf
  <1>5. PICK k \in 1 .. Len(q) :
            Removed(Node, r, q, k) /\ q[k].key = v /\ \A i \in 1 .. (k - 1) : q[i].key # v
    <2>1. \/ r = q /\ \A i \in 1 .. Len(q) : q[i].key # v
          \/ \E k \in 1 .. Len(q) :
                Removed(Node, r, q, k) /\ q[k].key = v /\ \A i \in 1 .. (k - 1) : q[i].key # v
      BY <1>2, RbRemoveFacts
    <2> HIDE DEF q, v, r
    <2>2. QED
      BY <1>4, <2>1
  <1>6. h = k
    <2>1. ~(h < k)
      BY <1>3, <1>4, <1>5
    <2>2. ~(k < h)
      BY <1>3, <1>4, <1>5
    <2>3. QED
      BY <2>1, <2>2, <1>3
  <1>7. \A i \in 1 .. Len(q) : q[i].proc = n => i = k
    BY <1>1, <1>3, <1>4, <1>6 DEF QueueOKBut
  <1>8. CfsDequeue(s, n).rq = r
    BY <1>1, CfsFields DEF r, q, v
  <1> HIDE DEF q, v, r
  <1>9. QED
    BY <1>4, <1>5, <1>6, <1>7, <1>8 DEF q

LEMMA DequeueTakesFirst ==
    ASSUME NEW X, NEW s, SaneBut(s, X), NEW n \in Slots \ (X \cup {Idle}),
           IsFirstOf(s.rq, n, s.vruntime[n])
    PROVE  \A p \in Slots : OnQueue(CfsDequeue(s, n), p) <=> OnQueue(s, p) /\ p # n
  <1> DEFINE q == s.rq
             r == CfsDequeue(s, n).rq
  <1>1. PICK k \in 1 .. Len(q) :
            /\ Removed(Node, r, q, k)
            /\ q[k].proc = n
            /\ \A i \in 1 .. Len(q) : q[i].proc = n => i = k
    BY DequeueTakes
  <1>2. Len(q) \in Nat /\ DOMAIN q = 1 .. Len(q)
    BY Fields, NodeFields DEF SaneBut
  <1> HIDE DEF q, r
  <1>3. DOMAIN r = 1 .. (Len(q) - 1)
    BY <1>1, <1>2, NodeFields DEF Removed
  <1>4. ASSUME NEW j \in DOMAIN r
        PROVE  \E i \in DOMAIN q : i # k /\ r[j] = q[i]
    <2>1. r[j] = IF j < k THEN q[j] ELSE q[j + 1]
      BY <1>1, <1>2, <1>3 DEF Removed
    <2>2. j \in DOMAIN q /\ j + 1 \in DOMAIN q
      BY <1>2, <1>3
    <2>3. QED
      BY <2>1, <2>2, <1>2
  <1>5. ASSUME NEW i \in DOMAIN q, i # k
        PROVE  \E j \in DOMAIN r : r[j] = q[i]
    <2>1. CASE i < k
      <3>1. i \in DOMAIN r /\ i \in 1 .. Len(r)
        BY <2>1, <1>1, <1>2, <1>3 DEF Removed
      <3>2. r[i] = q[i]
        BY <2>1, <3>1, <1>1 DEF Removed
      <3>3. QED
        BY <3>1, <3>2
    <2>2. CASE i > k
      <3>1. i - 1 \in DOMAIN r /\ i - 1 \in 1 .. Len(r) /\ ~(i - 1 < k) /\ (i - 1) + 1 = i
        BY <2>2, <1>1, <1>2, <1>3 DEF Removed
      <3>2. r[i - 1] = q[i]
        BY <3>1, <1>1 DEF Removed
      <3>3. QED
        BY <3>1, <3>2
    <2>3. QED
      BY <2>1, <2>2, <1>2, <1>5
  <1>6. ASSUME NEW p \in Slots, \E j \in DOMAIN r : r[j].proc = p
        PROVE  p # n /\ \E i \in DOMAIN q : q[i].proc = p
    <2>1. PICK j \in DOMAIN r : r[j].proc = p
      BY <1>6
    <2>2. PICK i \in DOMAIN q : i # k /\ r[j] = q[i]
      BY <1>4
    <2>3. QED
      BY <2>1, <2>2, <1>1, <1>2
  <1>7. ASSUME NEW p \in Slots, p # n, \E i \in DOMAIN q : q[i].proc = p
        PROVE  \E j \in DOMAIN r : r[j].proc = p
    <2>1. PICK i \in DOMAIN q : q[i].proc = p
      BY <1>7
    <2>2. i # k
      BY <2>1, <1>1, <1>7
    <2>3. QED
      BY <2>1, <2>2, <1>5
  <1>8. QED
    BY <1>6, <1>7 DEF OnQueue, q, r

(* The insertion puts the process on the queue, and takes nobody off it. *)
LEMMA EnqueueAdds ==
    ASSUME NEW s \in SchedState, NEW p \in Slots
    PROVE  \A q \in Slots : OnQueue(CfsEnqueue(s, p), q) <=> OnQueue(s, q) \/ q = p
  <1> DEFINE v == s.vruntime[p]
             e == [proc |-> p, key |-> v]
             r == RbInsert(s.rq, p, v)
             o == s.rq
  <1>1. s.vruntime[p] \in Nat
    BY Fields
  <1>2. PICK k \in 1 .. (Len(o) + 1) : Inserted(Node, r, o, k, e)
    BY <1>1, Fields, RbInsertFacts
  <1>3. CfsEnqueue(s, p).rq = r
    BY CfsFields
  <1>4. Len(o) \in Nat /\ DOMAIN o = 1 .. Len(o)
    BY Fields, NodeFields
  <1>5. e.proc = p
    OBVIOUS
  <1> HIDE DEF r, o, e
  <1>6. /\ DOMAIN r = 1 .. (Len(o) + 1)
        /\ \A j \in 1 .. (Len(o) + 1) :
               r[j] = IF j < k THEN o[j] ELSE IF j = k THEN e ELSE o[j - 1]
    BY <1>2, <1>4, NodeFields DEF Inserted
  <1>7. r[k] = e /\ k \in DOMAIN r
    BY <1>4, <1>6
  <1>8. ASSUME NEW j \in DOMAIN r, j # k
        PROVE  \E i \in DOMAIN o : r[j] = o[i]
    <2>1. CASE j < k
      BY <2>1, <1>4, <1>6
    <2>2. CASE j > k
      <3>1. j - 1 \in DOMAIN o
        BY <2>2, <1>4, <1>6
      <3>2. r[j] = o[j - 1]
        BY <2>2, <1>4, <1>6
      <3>3. QED
        BY <3>1, <3>2
    <2>3. QED
      BY <1>4, <1>6, <1>8, <2>1, <2>2
  <1>9. ASSUME NEW i \in DOMAIN o
        PROVE  \E j \in DOMAIN r : r[j] = o[i]
    <2>1. CASE i < k
      BY <2>1, <1>4, <1>6
    <2>2. CASE i >= k
      <3>1. i + 1 \in DOMAIN r /\ ~(i + 1 < k) /\ i + 1 # k /\ (i + 1) - 1 = i
        BY <2>2, <1>4, <1>6
      <3>2. r[i + 1] = o[i]
        BY <3>1, <1>6
      <3>3. QED
        BY <3>1, <3>2
    <2>3. QED
      BY <1>4, <2>1, <2>2
  <1>10. QED
    BY <1>3, <1>5, <1>7, <1>8, <1>9 DEF OnQueue, o
-----------------------------------------------------------------------------
(* NONE is no slot. *)
LEMMA SlotFacts == Idle \in Slots /\ NONE \notin Slots /\ Slots \subseteq Nat
  BY SchedOpsAssumption DEF Idle, NONE, Slots

(* Running time, in the units of vruntime, is a number. *)
LEMMA ChargeNat ==
    ASSUME NEW X, NEW s, SaneBut(s, X), NEW p \in Slots, s.weight[p] > 0, NEW d \in Nat
    PROVE  s.vruntime[p] + Charge(s, p, d) \in Nat
  <1>1. s.weight[p] \in Nat /\ s.vruntime[p] \in Nat
    BY Fields DEF SaneBut
  <1>2. d * 1024 \in Nat
    OBVIOUS
  <1>3. \A a \in Nat, b \in Nat : b > 0 => a \div b \in Nat
    OBVIOUS
  <1>4. Charge(s, p, d) \in Nat
    BY <1>1, <1>2, <1>3 DEF Charge
  <1>5. QED
    BY <1>1, <1>4

(* A process that is not ready is not queued, unless it is one of X; one   *)
(* that does not exist never is.                                           *)
LEMMA NotQueued ==
    ASSUME NEW X, NEW s, QueueOKBut(s, X), NEW p \in Slots \ {Idle},
           (p \notin X /\ s.state[p] # "READY") \/ s.state[p] = "UNUSED"
    PROVE  ~OnQueue(s, p)
  BY DEF QueueOKBut, OnQueue

(* It is still running when it calls schedule(). *)
Preempted(s, p) == p = s.current /\ s.state[p] = "RUNNING"

(* What PutPrev gives: nobody is running, and if the process that was      *)
(* picked waits on the run queue, it is the first one with its key.        *)
PutBack(t, s, n, X) ==
    /\ SaneBut(t, X)
    /\ t.current = s.current
    /\ n # Idle => t.state[n] # "UNUSED" /\ OnQueue(s, n)
    /\ n \notin X \cup {Idle} => IsFirstOf(t.rq, n, t.vruntime[n])
    /\ \A p \in Slots :
           /\ t.state[p] # "RUNNING"
           /\ t.state[p] = IF Preempted(s, p) THEN "READY" ELSE s.state[p]
           /\ OnQueue(t, p) <=> OnQueue(s, p) \/ Preempted(s, p)

(* schedule() may put the previous process back only when it is running.   *)
LEMMA PutPrevFacts ==
    ASSUME NEW X, NEW s, SaneBut(s, X), NEW d \in Nat, PickNext(s) # s.current,
           \A p \in Slots : s.state[p] = "RUNNING" => p = s.current
    PROVE  PickNext(s) \in Slots /\ PutBack(PutPrev(s, d), s, PickNext(s), X)
  <1> DEFINE n == PickNext(s)
             prev == s.current
  <1>1. s \in SchedState /\ QueueOKBut(s, X) /\ WeightOK(s)
    BY DEF SaneBut
  <1>2. /\ s.rq \in Seq(Node) /\ Len(s.rq) \in Nat /\ DOMAIN s.rq = 1 .. Len(s.rq)
        /\ \A i \in 1 .. Len(s.rq) : s.rq[i].proc \in Slots /\ s.rq[i].key \in Nat
    BY <1>1, Fields, NodeFields
  <1>3. s.rq # <<>> => Len(s.rq) > 0
    BY <1>2
  <1>4. n \in Slots
    BY <1>2, <1>3, SlotFacts DEF PickNext
  <1>5. /\ n # Idle => Len(s.rq) > 0 /\ s.rq[1].proc = n /\ s.state[n] # "UNUSED"
        /\ n \notin X \cup {Idle} => s.rq[1].key = s.vruntime[n]
    <2>1. n # Idle => Len(s.rq) > 0 /\ s.rq[1].proc = n
      BY <1>3 DEF PickNext
    <2> HIDE DEF n
    <2>2. QED
      BY <1>1, <1>2, <2>1 DEF QueueOKBut
  <1> HIDE DEF n
  <1>9. n # Idle => OnQueue(s, n)
    BY <1>2, <1>5 DEF OnQueue
  <1>6. CASE prev # NONE /\ s.state[prev] = "RUNNING"
    <2> DEFINE v == s.vruntime[prev] + Charge(s, prev, d)
               u == [s EXCEPT !.vruntime[prev] = v]
    <2>1. prev \in Slots
      BY <1>1, <1>6, Fields
    <2>2. s.weight[prev] > 0
      BY <1>1, <1>6, <2>1 DEF WeightOK
    <2>3. v \in Nat
      BY <2>1, <2>2, ChargeNat
    <2>4. prev \notin X \cup {Idle} => ~OnQueue(s, prev)
      BY <1>1, <1>6, <2>1, NotQueued
    <2>5. PutPrev(s, d) = CfsEnqueue(u, prev)
      BY <1>6 DEF PutPrev
    <2> HIDE DEF v
    <2>6. SaneBut(u, X)
      BY <2>1, <2>3, <2>4, SetVruntimeBut
    <2>7. /\ u.current = s.current /\ u.rq = s.rq /\ u.state = s.state /\ u.weight = s.weight
          /\ u.vruntime = [s.vruntime EXCEPT ![prev] = v]
      BY <1>1 DEF SchedState
    <2> HIDE DEF u
    <2>8. u \in SchedState /\ u.vruntime[prev] \in Nat
      BY <2>1, <2>6, Fields DEF SaneBut
    <2>9. prev # n
      BY DEF n
    <2> DEFINE t == CfsEnqueue(u, prev)
    <2> HIDE DEF prev
    <2>10. SaneBut(t, X)
      BY <2>1, <2>2, <2>4, <2>6, <2>7, EnqueueBut DEF OnQueue
    <2>11. /\ t.current = u.current /\ t.vruntime = u.vruntime
           /\ t.rq = RbInsert(u.rq, prev, u.vruntime[prev])
           /\ \A p \in Slots : t.state[p] = IF p = prev THEN "READY" ELSE u.state[p]
      BY <2>1, <2>8, CfsFields
    <2> HIDE DEF t
    <2>12. \A p \in Slots : t.state[p] # "RUNNING"
      BY <2>7, <2>11 DEF prev
    <2>19. n # Idle => t.state[n] # "UNUSED"
      BY <1>4, <1>5, <2>7, <2>11
    <2>13. ASSUME n \notin X \cup {Idle}
           PROVE  IsFirstOf(t.rq, n, t.vruntime[n])
      <3>2. s.vruntime \in [Slots -> Nat]
        BY <1>1, Fields
      <3>3. t.vruntime[n] = s.vruntime[n]
        BY <1>4, <2>1, <2>7, <2>9, <2>11, <3>2
      <3>4. IsFirstOf(RbInsert(s.rq, prev, u.vruntime[prev]), s.rq[1].proc, s.rq[1].key)
        BY <1>2, <1>5, <2>1, <2>8, <2>13, InsertBehind
      <3>5. QED
        BY <1>5, <2>7, <2>11, <2>13, <3>3, <3>4
    <2>16. /\ s.current = prev /\ u.state = s.state
           /\ \A p \in Slots : OnQueue(u, p) <=> OnQueue(s, p)
      BY <2>7 DEF prev, OnQueue
    <2>17. ASSUME NEW p \in Slots
           PROVE  /\ t.state[p] = IF Preempted(s, p) THEN "READY" ELSE s.state[p]
                  /\ OnQueue(t, p) <=> OnQueue(s, p) \/ Preempted(s, p)
      <3>1. Preempted(s, p) <=> p = prev
        BY <1>6, <2>16 DEF Preempted
      <3>2. OnQueue(t, p) <=> OnQueue(u, p) \/ p = prev
        BY <2>1, <2>8, EnqueueAdds DEF t
      <3>3. QED
        BY <2>11, <2>16, <3>1, <3>2
    <2>18. t.current = s.current
      BY <2>7, <2>11
    <2>14. PutBack(t, s, n, X)
      BY <1>9, <2>10, <2>12, <2>13, <2>17, <2>18, <2>19 DEF PutBack
    <2>15. QED
      BY <1>4, <2>5, <2>14 DEF t, n
  <1>7. CASE ~(prev # NONE /\ s.state[prev] = "RUNNING")
    <2>1. PutPrev(s, d) = s
      BY <1>7 DEF PutPrev
    <2>2. \A p \in Slots : s.state[p] # "RUNNING"
      BY <1>7, SlotFacts
    <2>3. n \notin X \cup {Idle} => IsFirstOf(s.rq, n, s.vruntime[n])
      <3>1. n # Idle => /\ 1 \in 1 .. Len(s.rq)
                        /\ \A i \in 1 .. (1 - 1) : s.rq[i].key # s.vruntime[n]
        BY <1>2, <1>5
      <3>2. QED
        BY <1>5, <3>1 DEF IsFirstOf
    <2>6. \A p \in Slots : ~Preempted(s, p)
      BY <2>2 DEF Preempted
    <2>4. PutBack(s, s, n, X)
      BY <1>5, <1>9, <2>2, <2>3, <2>6 DEF PutBack
    <2>5. QED
      BY <1>4, <2>1, <2>4 DEF n
  <1>8. QED
    BY <1>6, <1>7
(* What schedule() gives when it switches, to process n: n is the one that *)
(* runs and, unless it is one of X, has left the run queue; the previous    *)
(* process is queued if it was still running; nobody else is touched.      *)
SwitchedBut(x, s, n, X) ==
    /\ SaneBut(x, X) /\ RunsOnly(x) /\ x.current = n
    /\ n # Idle => OnQueue(s, n)
    /\ \A p \in Slots :
           x.state[p] = IF p = n THEN "RUNNING"
                        ELSE IF Preempted(s, p) THEN "READY" ELSE s.state[p]
    /\ n \notin X => \A p \in Slots \ {Idle} :
           OnQueue(x, p) <=> p # n /\ (OnQueue(s, p) \/ Preempted(s, p))

(* The process that was picked leaves the run queue and runs. *)
LEMMA SetNextFacts ==
    ASSUME NEW X, NEW t, NEW s, NEW n \in Slots, PutBack(t, s, n, X)
    PROVE  SwitchedBut(SetNext(t, n), s, n, X)
  <1> DEFINE u == IF n = Idle THEN t ELSE CfsDequeue(t, n)
             w == [u EXCEPT !.state[n] = "RUNNING"]
             x == [w EXCEPT !.current = n]
  <1>1. SaneBut(t, X) /\ t \in SchedState /\ WeightOK(t)
    BY DEF PutBack, SaneBut
  <1>2. t.weight[n] > 0
    <2>1. n # Idle => t.state[n] # "UNUSED"
      BY DEF PutBack
    <2>2. QED
      BY <1>1, <2>1 DEF WeightOK
  <1>3. SaneBut(u, X) /\ u.state = t.state /\ u.weight = t.weight
    BY <1>1, DequeueBut, CfsFields
  <1>4. n \notin X => \A p \in Slots \ {Idle} : OnQueue(u, p) <=> OnQueue(t, p) /\ p # n
    <2> SUFFICES ASSUME n \notin X
                 PROVE  \A p \in Slots \ {Idle} : OnQueue(u, p) <=> OnQueue(t, p) /\ p # n
      OBVIOUS
    <2>1. CASE n = Idle
      BY <2>1
    <2>2. CASE n # Idle
      <3>1. IsFirstOf(t.rq, n, t.vruntime[n])
        BY <2>2 DEF PutBack
      <3>2. \A p \in Slots : OnQueue(CfsDequeue(t, n), p) <=> OnQueue(t, p) /\ p # n
        BY <1>1, <2>2, <3>1, DequeueTakesFirst
      <3>3. QED
        BY <2>2, <3>2
    <2>3. QED
      BY <2>1, <2>2
  <1> HIDE DEF u
  <1>5. u \in SchedState /\ u.state \in [Slots -> States]
    BY <1>3, Fields DEF SaneBut
  <1>6. SaneBut(w, X)
    <2>1. "RUNNING" \in States
      BY DEF States
    <2>2. QED
      BY <1>2, <1>3, <1>4, <2>1, SetStateBut
  <1>7. \A p \in Slots : w.state[p] = IF p = n THEN "RUNNING" ELSE t.state[p]
    BY <1>3, <1>5 DEF SchedState
  <1>8. SetNext(t, n) = x
    <2>1. x = [u EXCEPT !.state[n] = "RUNNING", !.current = n]
      BY <1>5 DEF SchedState
    <2>2. QED
      BY <2>1, Zenon DEF SetNext, u
  <1>9. w \in SchedState /\ w.rq = u.rq
    BY <1>5, <1>6 DEF SaneBut, SchedState
  <1> HIDE DEF w
  <1>10. SaneBut(x, X)
    BY <1>6, SetCurrentBut
  <1>11. x.state = w.state /\ x.current = n /\ x.rq = w.rq
    BY <1>9 DEF SchedState
  <1> HIDE DEF x
  <1>12. \A p \in Slots : t.state[p] # "RUNNING"
    BY DEF PutBack
  <1>13. RunsOnly(x)
    BY <1>7, <1>11, <1>12 DEF RunsOnly
  <1>14. \A p \in Slots :
             /\ t.state[p] = IF Preempted(s, p) THEN "READY" ELSE s.state[p]
             /\ OnQueue(t, p) <=> OnQueue(s, p) \/ Preempted(s, p)
    BY DEF PutBack
  <1>15. \A p \in Slots : OnQueue(x, p) <=> OnQueue(u, p)
    BY <1>9, <1>11 DEF OnQueue
  <1>16. n # Idle => OnQueue(s, n)
    BY DEF PutBack
  <1>17. SwitchedBut(x, s, n, X)
    <2>1. ASSUME NEW p \in Slots
          PROVE  x.state[p] = IF p = n THEN "RUNNING"
                              ELSE IF Preempted(s, p) THEN "READY" ELSE s.state[p]
      BY <1>7, <1>11, <1>14
    <2>2. ASSUME n \notin X, NEW p \in Slots \ {Idle}
          PROVE  OnQueue(x, p) <=> p # n /\ (OnQueue(s, p) \/ Preempted(s, p))
      BY <2>2, <1>4, <1>14, <1>15
    <2>3. QED
      BY <1>10, <1>11, <1>13, <1>16, <2>1, <2>2 DEF SwitchedBut
  <1>18. QED
    BY <1>8, <1>17

(* What may call schedule(): the boot code, or the current process, which  *)
(* is on the run queue only if it is one of X.                             *)
MayScheduleBut(s, X) ==
    /\ SaneBut(s, X)
    /\ \A p \in Slots : s.state[p] = "RUNNING" => p = s.current
    /\ s.current \in Slots \ (X \cup {Idle}) => ~OnQueue(s, s.current)

(* schedule() switches, except from the idle process to itself, and from   *)
(* one of X, whose own node may come first.                                *)
LEMMA ScheduleBut ==
    ASSUME NEW X, NEW s, MayScheduleBut(s, X), NEW d \in Nat
    PROVE  \/ Schedule(s, d) = s /\ s.current \in X \cup {Idle}
           \/ \E n \in Slots : n # s.current /\ SwitchedBut(Schedule(s, d), s, n, X)
  <1> DEFINE n == PickNext(s)
  <1>1. /\ SaneBut(s, X) /\ s \in SchedState
        /\ \A p \in Slots : s.state[p] = "RUNNING" => p = s.current
    BY DEF MayScheduleBut, SaneBut
  <1>2. CASE n = s.current
    <2>1. n \in Slots /\ (n # Idle => OnQueue(s, n))
      <3>1. /\ Len(s.rq) \in Nat /\ DOMAIN s.rq = 1 .. Len(s.rq)
            /\ \A i \in 1 .. Len(s.rq) : s.rq[i].proc \in Slots
        BY <1>1, Fields, NodeFields
      <3>2. CASE s.rq = <<>>
        BY <3>2, SlotFacts DEF PickNext
      <3>3. CASE s.rq # <<>>
        <4>1. 1 \in DOMAIN s.rq /\ n = s.rq[1].proc
          BY <1>1, <3>1, <3>3, Fields DEF PickNext
        <4> HIDE DEF n
        <4>2. QED
          BY <3>1, <4>1 DEF OnQueue
      <3>4. QED
        BY <3>2, <3>3
    <2>2. Schedule(s, d) = s
      BY <1>2 DEF Schedule
    <2> HIDE DEF n
    <2>3. s.current \in X \cup {Idle}
      BY <1>2, <2>1 DEF MayScheduleBut
    <2>4. QED
      BY <2>2, <2>3
  <1>3. CASE n # s.current
    <2>1. n \in Slots /\ PutBack(PutPrev(s, d), s, n, X)
      BY <1>1, <1>3, PutPrevFacts
    <2>2. Schedule(s, d) = SetNext(PutPrev(s, d), n)
      BY <1>3 DEF Schedule
    <2> HIDE DEF n
    <2>3. SwitchedBut(SetNext(PutPrev(s, d), n), s, n, X)
      BY <2>1, SetNextFacts
    <2>4. QED
      BY <1>3, <2>1, <2>2, <2>3
  <1>4. QED
    BY <1>2, <1>3

(* A process that is created in a free slot is put on the run queue. *)
LEMMA CreateBut ==
    ASSUME NEW X, NEW s, SaneBut(s, X), NEW p \in Slots, s.state[p] = "UNUSED",
           NEW prio \in Priorities
    PROVE  LET t == ProcessCreate(s, p, prio)
           IN  /\ SaneBut(t, X) /\ t.current = s.current
               /\ \A q \in Slots : t.state[q] = IF q = p THEN "READY" ELSE s.state[q]
               /\ \A q \in Slots : OnQueue(t, q) <=> OnQueue(s, q) \/ q = p
  <1> DEFINE a == [s EXCEPT !.vruntime[p] = 0]
             b == [a EXCEPT !.weight[p] = WeightOf[prio], !.parent[p] = s.current]
             t == CfsEnqueue(b, p)
  <1>1. s \in SchedState /\ QueueOKBut(s, X) /\ (p # Idle => ~OnQueue(s, p))
    BY NotQueued DEF SaneBut
  <1>2. SaneBut(a, X)
    BY <1>1, SetVruntimeBut
  <1>3. a.rq = s.rq /\ a.state = s.state /\ a.current = s.current /\ a.weight = s.weight
    BY <1>1 DEF SchedState
  <1>4. WeightOf[prio] \in Nat /\ WeightOf[prio] > 0
    BY DEF WeightOf, Priorities
  <1>5. ProcessCreate(s, p, prio) = t
    <2>1. b = [s EXCEPT !.weight[p] = WeightOf[prio], !.vruntime[p] = 0, !.parent[p] = s.current]
      BY <1>1 DEF SchedState
    <2>2. QED
      BY <2>1, Zenon DEF ProcessCreate
  <1> HIDE DEF a
  <1>6. a \in SchedState /\ QueueOKBut(a, X) /\ WeightOK(a) /\ s.current \in Slots \cup {NONE}
    BY <1>1, <1>2, Fields DEF SaneBut
  <1>7. /\ b.rq = a.rq /\ b.state = a.state /\ b.vruntime = a.vruntime /\ b.current = a.current
        /\ \A q \in Slots : b.weight[q] = IF q = p THEN WeightOf[prio] ELSE a.weight[q]
    BY <1>6 DEF SchedState
  <1>8. b \in SchedState
    BY <1>4, <1>6 DEF SchedState
  <1> HIDE DEF b
  <1>9. SaneBut(b, X)
    BY <1>4, <1>6, <1>7, <1>8 DEF SaneBut, QueueOKBut, WeightOK
  <1>10. \A q \in Slots : OnQueue(b, q) <=> OnQueue(s, q)
    BY <1>3, <1>7 DEF OnQueue
  <1>11. b.weight[p] > 0
    BY <1>4, <1>7
  <1>12. SaneBut(t, X)
    BY <1>1, <1>9, <1>10, <1>11, EnqueueBut
  <1>13. /\ t.current = s.current
         /\ \A q \in Slots : t.state[q] = IF q = p THEN "READY" ELSE s.state[q]
         /\ \A q \in Slots : OnQueue(t, q) <=> OnQueue(s, q) \/ q = p
    BY <1>3, <1>7, <1>8, <1>10, CfsFields, EnqueueAdds
  <1>14. QED
    BY <1>5, <1>12, <1>13
-----------------------------------------------------------------------------
(* The same with nobody excepted, for those who wake each process once.    *)
LEMMA SetStateSane ==
    ASSUME NEW s, Sane(s), NEW p \in Slots, p # Idle => ~OnQueue(s, p),
           NEW st \in States, st # "UNUSED", s.weight[p] > 0
    PROVE  Sane([s EXCEPT !.state[p] = st])
  BY ButNobody, SetStateBut

LEMMA EnqueueSane ==
    ASSUME NEW s, Sane(s), NEW p \in Slots, p # Idle => ~OnQueue(s, p), s.weight[p] > 0
    PROVE  Sane(CfsEnqueue(s, p))
  BY ButNobody, EnqueueBut

LEMMA CreateSane ==
    ASSUME NEW s, Sane(s), NEW p \in Slots, s.state[p] = "UNUSED", NEW prio \in Priorities
    PROVE  LET t == ProcessCreate(s, p, prio)
           IN  /\ Sane(t) /\ t.current = s.current
               /\ \A q \in Slots : t.state[q] = IF q = p THEN "READY" ELSE s.state[q]
               /\ \A q \in Slots : OnQueue(t, q) <=> OnQueue(s, q) \/ q = p
  <1>1. SaneBut(s, {})
    BY ButNobody
  <1>2. QED
    BY <1>1, ButNobody, CreateBut

MaySchedule(s) ==
    /\ Sane(s)
    /\ \A p \in Slots : s.state[p] = "RUNNING" => p = s.current
    /\ s.current \in Slots \ {Idle} => ~OnQueue(s, s.current)
    /\ s.current = Idle => s.state[Idle] = "RUNNING"

Switched(x, s, n) ==
    /\ Sane(x) /\ RunsOnly(x) /\ x.current = n
    /\ n # Idle => OnQueue(s, n)
    /\ \A p \in Slots :
           x.state[p] = IF p = n THEN "RUNNING"
                        ELSE IF Preempted(s, p) THEN "READY" ELSE s.state[p]
    /\ \A p \in Slots \ {Idle} :
           OnQueue(x, p) <=> p # n /\ (OnQueue(s, p) \/ Preempted(s, p))

LEMMA ScheduleSwitches ==
    ASSUME NEW s, MaySchedule(s), NEW d \in Nat
    PROVE  \/ Schedule(s, d) = s /\ s.current = Idle /\ RunsOnly(s)
           \/ \E n \in Slots : n # s.current /\ Switched(Schedule(s, d), s, n)
  <1>1. MayScheduleBut(s, {})
    BY ButNobody DEF MaySchedule, MayScheduleBut
  <1>2. CASE Schedule(s, d) = s /\ s.current \in {} \cup {Idle}
    BY <1>2, SlotFacts DEF MaySchedule, RunsOnly
  <1>3. CASE \E n \in Slots : n # s.current /\ SwitchedBut(Schedule(s, d), s, n, {})
    BY <1>3, ButNobody DEF SwitchedBut, Switched
  <1>4. QED
    BY <1>1, <1>2, <1>3, ScheduleBut

(* scheduler_init leaves a state that schedule() may be called in. *)
LEMMA InitSane ==
    /\ Sane(SchedInit) /\ SchedInit.current = NONE
    /\ \A p \in Slots : SchedInit.state[p] = IF p = Idle THEN "READY" ELSE "UNUSED"
    /\ \A p \in Slots : ~OnQueue(SchedInit, p)
  <1>1. SchedInit \in SchedState
    BY SlotFacts DEF SchedInit, SchedState, States, IdleWeight
  <1>2. SchedInit.rq = <<>> /\ SchedInit.current = NONE
    BY DEF SchedInit
  <1>3. /\ SchedInit.state = [p \in Slots |-> IF p = Idle THEN "READY" ELSE "UNUSED"]
        /\ SchedInit.weight = [p \in Slots |-> IF p = Idle THEN IdleWeight ELSE 0]
    BY DEF SchedInit
  <1>4. QueueOK(SchedInit)
    BY <1>2 DEF QueueOK
  <1>5. WeightOK(SchedInit)
    <2>1. ASSUME NEW p \in Slots, p = Idle \/ SchedInit.state[p] # "UNUSED"
          PROVE  SchedInit.weight[p] > 0
      <3>1. p = Idle
        BY <1>3, <2>1
      <3>2. SchedInit.weight[p] = IdleWeight
        BY <1>3, <3>1
      <3>3. QED
        BY <3>2 DEF IdleWeight
    <2>2. QED
      BY <2>1 DEF WeightOK
  <1>6. \A p \in Slots : ~OnQueue(SchedInit, p)
    BY <1>2 DEF OnQueue
  <1>7. QED
    BY <1>1, <1>2, <1>3, <1>4, <1>5, <1>6 DEF Sane
-----------------------------------------------------------------------------
(* What the boot code makes of the process table, slot by slot, and the     *)
(* table when it has come to slot k.                                        *)
IsCreated(f, prio) ==
    f = [p \in Slots |-> IF p = Idle THEN SchedInit
                         ELSE ProcessCreate(f[p - 1], p, prio[p])]

Filled(s, k) ==
    /\ Sane(s) /\ s.current = NONE
    /\ \A p \in Slots :
           /\ s.state[p] = IF p <= k THEN "READY" ELSE "UNUSED"
           /\ OnQueue(s, p) <=> p \in 1 .. k

LEMMA CreatedFilled ==
    ASSUME NEW prio, \A p \in Slots \ {Idle} : prio[p] \in Priorities,
           NEW Created, Created = CHOOSE f : IsCreated(f, prio)
    PROVE  IsCreated(Created, prio) /\ Filled(Created[MAX_PROCESSES - 1], MAX_PROCESSES - 1)
  <1> DEFINE n == MAX_PROCESSES - 1
             T == SchedState
             Processes == Slots \ {Idle}
  <1>1. /\ n \in Nat /\ Slots = 0 .. n /\ Idle = 0 /\ Processes = 1 .. n
        /\ \A p \in Processes : prio[p] \in Priorities
    BY SchedOpsAssumption DEF Slots, Idle
  <1>2. SchedInit \in T /\ Filled(SchedInit, 0)
    BY <1>1, InitSane DEF Filled, Sane
  <1>3. ASSUME NEW s \in T, NEW p \in Processes
        PROVE  ProcessCreate(s, p, prio[p]) \in T
    <2> DEFINE b == [s EXCEPT !.weight[p] = WeightOf[prio[p]], !.vruntime[p] = 0,
                              !.parent[p] = s.current]
    <2>1. WeightOf[prio[p]] \in Nat
      BY <1>1 DEF WeightOf, Priorities
    <2>2. p \in Slots
      OBVIOUS
    <2>3. s.current \in Slots \cup {NONE}
      BY Fields
    <2>4. b \in SchedState
      BY <2>1, <2>2, <2>3 DEF SchedState
    <2>5. ProcessCreate(s, p, prio[p]) = CfsEnqueue(b, p)
      BY Zenon DEF ProcessCreate
    <2> HIDE DEF b
    <2>6. QED
      BY <2>2, <2>4, <2>5, EnqueueType
  <1> DEFINE F == [p \in 1 .. n |-> [s \in T |-> ProcessCreate(s, p, prio[p])]]
  <1>4. F \in [1 .. n -> [T -> T]]
    BY <1>1, <1>3
  <1>5. \A p \in 1 .. n, s \in T : F[p][s] = ProcessCreate(s, p, prio[p])
    OBVIOUS
  <1> HIDE DEF F, T, n
  <1>6. PICK g \in [0 .. n -> T] :
            g[0] = SchedInit /\ \A p \in 1 .. n : g[p] = F[p][g[p - 1]]
    <2>1. n \in Nat /\ SchedInit \in T /\ F \in [1 .. n -> [T -> T]]
      BY <1>1, <1>2, <1>4
    <2>2. PICK g : Recursion(g, n, T, SchedInit, F)
      BY <2>1, RecursionExists
    <2>3. QED
      BY <2>2 DEF Recursion
  <1>7. IsCreated(g, prio)
    <2>1. ASSUME NEW p \in Slots
          PROVE  g[p] = IF p = Idle THEN SchedInit
                        ELSE ProcessCreate(g[p - 1], p, prio[p])
      <3>1. CASE p = Idle
        BY <3>1, <1>1, <1>6
      <3>2. CASE p # Idle
        <4>1. p \in 1 .. n /\ p - 1 \in 0 .. n
          BY <3>2, <1>1
        <4>2. g[p] = F[p][g[p - 1]] /\ g[p - 1] \in T
          BY <4>1, <1>6
        <4>3. QED
          BY <3>2, <4>1, <4>2, <1>5
      <3>3. QED
        BY <3>1, <3>2
    <2>2. DOMAIN g = Slots
      BY <1>1
    <2>3. QED
      BY <2>1, <2>2 DEF IsCreated
  <1>8. IsCreated(Created, prio)
    BY <1>7
  <1>9. /\ Created[0] = SchedInit
        /\ \A p \in 1 .. n : Created[p] = ProcessCreate(Created[p - 1], p, prio[p])
    <2>1. 0 \in Slots /\ \A p \in 1 .. n : p \in Slots /\ p # Idle
      BY <1>1
    <2>2. \A p \in Slots : Created[p] = IF p = Idle THEN SchedInit
                                        ELSE ProcessCreate(Created[p - 1], p, prio[p])
      BY <1>8 DEF IsCreated
    <2>3. QED
      BY <1>1, <2>1, <2>2
  <1> DEFINE K == {k \in Nat : k <= n => Filled(Created[k], k)}
  <1>10. 0 \in K
    BY <1>2, <1>9
  <1>11. ASSUME NEW k \in Nat, k \in K PROVE k + 1 \in K
    <2>1. SUFFICES ASSUME k + 1 <= n PROVE Filled(Created[k + 1], k + 1)
      OBVIOUS
    <2> DEFINE s == Created[k]
               p == k + 1
               t == ProcessCreate(s, p, prio[p])
    <2>2. p \in 1 .. n /\ k <= n /\ p - 1 = k /\ p \in Slots /\ p \in Processes
      BY <1>1, <2>1
    <2>3. Filled(s, k) /\ Created[k + 1] = t
      BY <1>9, <1>11, <2>2
    <2>4. s.state[p] = "UNUSED" /\ Sane(s) /\ s.current = NONE
      BY <2>2, <2>3 DEF Filled
    <2> HIDE DEF s
    <2>5. /\ Sane(t) /\ t.current = NONE
          /\ \A q \in Slots : t.state[q] = IF q = p THEN "READY" ELSE s.state[q]
          /\ \A q \in Slots : OnQueue(t, q) <=> OnQueue(s, q) \/ q = p
      BY <1>1, <2>2, <2>4, CreateSane
    <2> HIDE DEF t
    <2>6. ASSUME NEW q \in Slots
          PROVE  /\ t.state[q] = IF q <= k + 1 THEN "READY" ELSE "UNUSED"
                 /\ OnQueue(t, q) <=> q \in 1 .. (k + 1)
      <3>1. q \in Nat
        BY SlotFacts
      <3>2. s.state[q] = (IF q <= k THEN "READY" ELSE "UNUSED") /\ (OnQueue(s, q) <=> q \in 1 .. k)
        BY <2>3 DEF Filled
      <3>3. QED
        BY <2>5, <3>1, <3>2
    <2>7. QED
      BY <2>3, <2>5, <2>6 DEF Filled
  <1> HIDE DEF K
  <1>12. \A k \in Nat : k \in K
    BY <1>10, <1>11, SetInduction
  <1>13. Filled(Created[n], n)
    BY <1>1, <1>12 DEF K
  <1>14. QED
    BY <1>8, <1>13 DEF n
=============================================================================
