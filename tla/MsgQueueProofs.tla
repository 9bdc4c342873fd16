--------------------------- MODULE MsgQueueProofs ---------------------------
(***************************************************************************)
(* For any size of the ring, any processes, messages and types: msgsnd and *)
(* msgrcv implement the bounded queue of TypedQueue, with messages taken   *)
(* out of the middle of the ring, and the lists of waiting processes hold  *)
(* those only that wait for what has not come.                             *)
(*                                                                         *)
(* The first part, MqInv, holds whichever process the scheduler runs.  The *)
(* second, SleepInv, says that who is blocked is listed, and needs what    *)
(* schedule() and the loops that wake a list make of the processes' states.*)
(***************************************************************************)
EXTENDS MsgQueue, SchedLemmas, SequenceTheorems

N == MSG_QUEUE_SIZE
Stored == Messages \cup {NoMessage}

(* The slot of the ring that is k behind slot h. *)
At(h, k) == (h + k) % N

ContentOf(m, h, c) == [i \in 1 .. c |-> m[(h + i - 1) % N]]
-----------------------------------------------------------------------------
(* Arithmetic around the ring. *)
LEMMA ModLow == ASSUME NEW n \in Nat \ {0}, NEW x \in Nat, x < n PROVE x % n = x
  OBVIOUS

LEMMA ModHigh ==
    ASSUME NEW n \in Nat \ {0}, NEW x \in Nat, x >= n, x < 2 * n PROVE x % n = x - n
  OBVIOUS

LEMMA SizeIs == N \in Nat \ {0} /\ Ring = 0 .. (N - 1)
BY MsgQueueAssumption DEF N, Ring

LEMMA AtIs ==
    ASSUME NEW h \in Ring, NEW k \in 0 .. N
    PROVE  At(h, k) \in Ring /\ At(h, k) = IF h + k < N THEN h + k ELSE h + k - N
<1>1. N \in Nat \ {0} /\ Ring = 0 .. (N - 1)
  BY SizeIs
<1>2. h + k \in Nat /\ h + k < 2 * N
  BY <1>1
<1>3. CASE h + k < N
  <2>1. (h + k) % N = h + k
    BY <1>1, <1>2, <1>3, ModLow
  <2> QED
    BY <1>1, <1>2, <1>3, <2>1 DEF At
<1>4. CASE h + k >= N
  <2>1. (h + k) % N = (h + k) - N
    BY <1>1, <1>2, <1>4, ModHigh
  <2> QED
    BY <1>1, <1>2, <1>4, <2>1 DEF At
<1> QED
  BY <1>1, <1>3, <1>4

LEMMA ApartIs ==
    ASSUME NEW a \in Ring, NEW b \in Ring
    PROVE  (a - b + N) % N = IF a >= b THEN a - b ELSE a - b + N
<1>1. N \in Nat \ {0} /\ Ring = 0 .. (N - 1)
  BY SizeIs
<1>2. a - b + N \in Nat /\ a - b + N < 2 * N
  BY <1>1
<1>3. CASE a >= b
  <2>1. a - b + N >= N
    BY <1>1, <1>3
  <2>2. (a - b + N) % N = (a - b + N) - N
    BY <1>1, <1>2, <2>1, ModHigh
  <2> QED
    BY <1>1, <1>3, <2>2
<1>4. CASE a < b
  <2>1. (a - b + N) % N = a - b + N
    BY <1>1, <1>2, <1>4, ModLow
  <2> QED
    BY <1>1, <1>4, <2>1
<1> QED
  BY <1>1, <1>3, <1>4

LEMMA NextPrevIs ==
    ASSUME NEW i \in Ring
    PROVE  /\ Next1(i) \in Ring /\ Next1(i) = IF i = N - 1 THEN 0 ELSE i + 1
           /\ Prev1(i) \in Ring /\ Prev1(i) = IF i = 0 THEN N - 1 ELSE i - 1
<1>1. N \in Nat \ {0} /\ Ring = 0 .. (N - 1)
  BY SizeIs
<1>2. Next1(i) = At(i, 1) /\ 1 \in 0 .. N
  BY <1>1 DEF Next1, At, N
<1>3. Prev1(i) = (i - 1 + N) % N
  BY DEF Prev1, N
<1>4. Prev1(i) = IF i = 0 THEN N - 1 ELSE i - 1
  <2>1. CASE i = 0
    BY <1>1, <1>3, <2>1, ModLow
  <2>2. CASE i # 0
    <3>1. i - 1 + N \in Nat /\ i - 1 + N >= N /\ i - 1 + N < 2 * N
      BY <1>1, <2>2
    <3>2. (i - 1 + N) % N = (i - 1 + N) - N
      BY <1>1, <3>1, ModHigh
    <3> QED
      BY <1>1, <1>3, <2>2, <3>2
  <2> QED
    BY <2>1, <2>2
<1>5. Next1(i) \in Ring /\ Next1(i) = IF i + 1 < N THEN i + 1 ELSE i + 1 - N
  BY <1>2, AtIs
<1> QED
  BY <1>1, <1>4, <1>5
-----------------------------------------------------------------------------
(* What is queued, read off the ring. *)
ContentIs(m, h, c) ==
    /\ ContentOf(m, h, c) \in Seq(Stored)
    /\ Len(ContentOf(m, h, c)) = c
    /\ DOMAIN ContentOf(m, h, c) = 1 .. c
    /\ \A k \in 1 .. c : ContentOf(m, h, c)[k] = m[At(h, k - 1)]

LEMMA ContentFacts ==
    ASSUME NEW m \in [Ring -> Stored], NEW h \in Ring, NEW c \in 0 .. N
    PROVE  ContentIs(m, h, c)
<1>1. N \in Nat \ {0} /\ c \in Nat /\ h \in Int
  BY SizeIs
<1>2. ASSUME NEW k \in 1 .. c PROVE (h + k - 1) % N = At(h, k - 1) /\ At(h, k - 1) \in Ring
  <2>1. k - 1 \in 0 .. N /\ h + k - 1 = h + (k - 1)
    BY <1>1
  <2> QED
    BY <2>1, AtIs DEF At
<1>3. ContentOf(m, h, c) = [i \in 1 .. c |-> m[(h + i - 1) % N]]
  BY DEF ContentOf
<1>4. \A k \in 1 .. c : m[(h + k - 1) % N] \in Stored
  BY <1>2
<1>5. ContentOf(m, h, c) \in Seq(Stored) /\ Len(ContentOf(m, h, c)) = c
  <2> DEFINE e(i) == m[(h + i - 1) % N]
  <2>1. \A k \in 1 .. c : e(k) \in Stored
    BY <1>4
  <2> HIDE DEF e
  <2>2. [i \in 1 .. c |-> e(i)] \in Seq(Stored) /\ Len([i \in 1 .. c |-> e(i)]) = c
    BY <1>1, <2>1
  <2> QED
    BY <1>3, <2>2 DEF e
<1> QED
  BY <1>2, <1>3, <1>5 DEF ContentIs

(* A sequence that agrees with another as Append and RemoveAt do. *)
LEMMA IsAppend ==
    ASSUME NEW S, NEW s \in Seq(S), NEW u \in Seq(S), NEW e \in S,
           Len(u) = Len(s) + 1, u[Len(u)] = e, \A j \in 1 .. Len(s) : u[j] = s[j]
    PROVE  u = Append(s, e)
<1>1. Append(s, e) \in Seq(S) /\ Len(Append(s, e)) = Len(u)
  OBVIOUS
<1>2. \A j \in 1 .. Len(u) : u[j] = Append(s, e)[j]
  OBVIOUS
<1> QED
  BY <1>1, <1>2, SeqEqual

LEMMA IsRemoveAt ==
    ASSUME NEW S, NEW s \in Seq(S), NEW u \in Seq(S), NEW i \in 1 .. Len(s),
           Len(u) = Len(s) - 1,
           \A j \in 1 .. Len(u) : u[j] = IF j < i THEN s[j] ELSE s[j + 1]
    PROVE  u = RemoveAt(s, i)
<1> DEFINE a == SubSeq(s, 1, i - 1)
           b == SubSeq(s, i + 1, Len(s))
<1>1. a \in Seq(S) /\ Len(a) = i - 1 /\ \A j \in 1 .. (i - 1) : a[j] = s[j]
  OBVIOUS
<1>2. b \in Seq(S) /\ Len(b) = Len(s) - i /\ \A j \in 1 .. (Len(s) - i) : b[j] = s[i + j]
  OBVIOUS
<1> HIDE DEF a, b
<1>3. a \o b \in Seq(S) /\ Len(a \o b) = Len(u)
  BY <1>1, <1>2
<1>4. \A j \in 1 .. Len(u) : u[j] = (a \o b)[j]
  <2> TAKE j \in 1 .. Len(u)
  <2>1. CASE j < i
    <3>1. (a \o b)[j] = a[j] /\ j \in 1 .. (i - 1)
      BY <1>1, <1>2, <2>1
    <3>2. u[j] = s[j]
      BY <2>1
    <3> QED
      BY <1>1, <3>1, <3>2
  <2>2. CASE ~(j < i)
    <3>1. (a \o b)[j] = b[j - (i - 1)]
      BY <1>1, <1>2, <2>2
    <3>2. j - (i - 1) \in 1 .. (Len(s) - i) /\ i + (j - (i - 1)) = j + 1
      BY <2>2
    <3> QED
      BY <1>2, <2>2, <3>1, <3>2
  <2> QED
    BY <2>1, <2>2
<1>5. u = a \o b
  BY <1>3, <1>4, SeqEqual
<1> QED
  BY <1>5 DEF RemoveAt, a, b
-----------------------------------------------------------------------------
(* msgsnd stores at the tail. *)
LEMMA StoreAppends ==
    ASSUME NEW m \in [Ring -> Stored], NEW h \in Ring, NEW c \in 0 .. N, c < N,
           NEW e \in Stored
    PROVE  ContentOf([m EXCEPT ![At(h, c)] = e], h, c + 1) = Append(ContentOf(m, h, c), e)
<1> DEFINE n == [m EXCEPT ![At(h, c)] = e]
           s == ContentOf(m, h, c)
           u == ContentOf(n, h, c + 1)
<1>1. N \in Nat \ {0} /\ Ring = 0 .. (N - 1) /\ c + 1 \in 0 .. N
  BY SizeIs
<1>2. At(h, c) \in Ring /\ At(h, c) = IF h + c < N THEN h + c ELSE h + c - N
  BY AtIs
<1>3. n \in [Ring -> Stored]
  BY <1>2
<1>4. ContentIs(m, h, c) /\ ContentIs(n, h, c + 1)
  BY <1>1, <1>3, ContentFacts
<1>5. s \in Seq(Stored) /\ Len(s) = c /\ u \in Seq(Stored) /\ Len(u) = c + 1
  BY <1>4 DEF ContentIs
<1>6. u[c + 1] = e
  <2>1. c + 1 \in 1 .. c + 1 /\ (c + 1) - 1 = c
    BY <1>1
  <2>2. u[c + 1] = n[At(h, c)]
    BY <1>4, <2>1 DEF ContentIs
  <2> QED
    BY <1>2, <2>2
<1>7. \A k \in 1 .. c : u[k] = s[k]
  <2> TAKE k \in 1 .. c
  <2>1. k \in 1 .. c + 1 /\ k - 1 \in 0 .. N /\ k - 1 < c
    BY <1>1
  <2>2. u[k] = n[At(h, k - 1)] /\ s[k] = m[At(h, k - 1)]
    BY <1>4, <2>1 DEF ContentIs
  <2>3. At(h, k - 1) \in Ring
        /\ At(h, k - 1) = IF h + (k - 1) < N THEN h + (k - 1) ELSE h + (k - 1) - N
    BY <2>1, AtIs
  <2>4. At(h, k - 1) # At(h, c)
    BY <1>1, <1>2, <2>1, <2>3
  <2> QED
    BY <2>2, <2>3, <2>4
<1> HIDE DEF s, u
<1>8. u = Append(s, e)
  BY <1>5, <1>6, <1>7, IsAppend
<1> QED
  BY <1>8 DEF s, u

(* msgrcv takes the message at the head by moving the head. *)
LEMMA HeadTaken ==
    ASSUME NEW m \in [Ring -> Stored], NEW h \in Ring, NEW c \in 1 .. N
    PROVE  /\ ContentOf(m, Next1(h), c - 1) = RemoveAt(ContentOf(m, h, c), 1)
           /\ At(Next1(h), c - 1) = At(h, c)
<1> DEFINE s == ContentOf(m, h, c)
           u == ContentOf(m, Next1(h), c - 1)
<1>1. N \in Nat \ {0} /\ Ring = 0 .. (N - 1) /\ c \in 0 .. N /\ c - 1 \in 0 .. N
  BY SizeIs
<1>2. Next1(h) \in Ring /\ Next1(h) = IF h = N - 1 THEN 0 ELSE h + 1
  BY NextPrevIs
<1>3. ASSUME NEW k \in 0 .. (c - 1)
      PROVE  At(Next1(h), k) = At(h, k + 1)
  <2>1. k \in 0 .. N /\ k + 1 \in 0 .. N
    BY <1>1
  <2>2. At(Next1(h), k) = IF Next1(h) + k < N THEN Next1(h) + k ELSE Next1(h) + k - N
    BY <1>2, <2>1, AtIs
  <2>3. At(h, k + 1) = IF h + (k + 1) < N THEN h + (k + 1) ELSE h + (k + 1) - N
    BY <2>1, AtIs
  <2> QED
    BY <1>1, <1>2, <2>1, <2>2, <2>3
<1>4. ContentIs(m, h, c) /\ ContentIs(m, Next1(h), c - 1)
  BY <1>1, <1>2, ContentFacts
<1>5. s \in Seq(Stored) /\ Len(s) = c /\ u \in Seq(Stored) /\ Len(u) = c - 1
  BY <1>4 DEF ContentIs
<1>6. \A k \in 1 .. Len(u) : u[k] = IF k < 1 THEN s[k] ELSE s[k + 1]
  <2> TAKE k \in 1 .. Len(u)
  <2>1. k \in 1 .. c - 1 /\ k + 1 \in 1 .. c /\ k - 1 \in 0 .. (c - 1) /\ (k + 1) - 1 = k
        /\ (k - 1) + 1 = k
    BY <1>1, <1>5
  <2>2. u[k] = m[At(Next1(h), k - 1)] /\ s[k + 1] = m[At(h, k)]
    BY <1>4, <2>1 DEF ContentIs
  <2>3. At(Next1(h), k - 1) = At(h, k)
    BY <1>3, <2>1
  <2> QED
    BY <2>1, <2>2, <2>3
<1>7. 1 \in 1 .. Len(s)
  BY <1>1, <1>5
<1> HIDE DEF s, u
<1>8. u = RemoveAt(s, 1)
  BY <1>5, <1>6, <1>7, IsRemoveAt
<1>9. c - 1 \in 0 .. (c - 1) /\ (c - 1) + 1 = c
  BY <1>1
<1>10. At(Next1(h), c - 1) = At(h, c)
  BY <1>3, <1>9
<1> QED
  BY <1>8, <1>10 DEF s, u

(* CloseHole, of any ring m with its tail at t. *)
Closed(m, t, at) ==
    LET moved == (t - at + N) % N
    IN  [i \in Ring |-> IF (i - at + N) % N < moved THEN m[Next1(i)] ELSE m[i]]

(* msgrcv takes a message from behind the head by moving up what lies       *)
(* behind it, and moves the tail.                                           *)
LEMMA MiddleTaken ==
    ASSUME NEW m \in [Ring -> Stored], NEW h \in Ring, NEW c \in 1 .. N,
           NEW j \in 1 .. (c - 1)
    PROVE  /\ Closed(m, At(h, c), At(h, j)) \in [Ring -> Stored]
           /\ ContentOf(Closed(m, At(h, c), At(h, j)), h, c - 1)
                  = RemoveAt(ContentOf(m, h, c), j + 1)
           /\ Prev1(At(h, c)) = At(h, c - 1)
<1> DEFINE t == At(h, c)
           at == At(h, j)
           moved == (t - at + N) % N
           away(i) == (i - at + N) % N
           n == Closed(m, t, at)
           s == ContentOf(m, h, c)
           u == ContentOf(n, h, c - 1)
<1>1. N \in Nat \ {0} /\ Ring = 0 .. (N - 1) /\ c \in 0 .. N /\ c - 1 \in 0 .. N
      /\ j \in 0 .. N
  BY SizeIs
<1>2. /\ t \in Ring /\ t = IF h + c < N THEN h + c ELSE h + c - N
      /\ at \in Ring /\ at = IF h + j < N THEN h + j ELSE h + j - N
  BY <1>1, AtIs
<1>3. moved = IF t >= at THEN t - at ELSE t - at + N
  BY <1>2, ApartIs
<1>4. moved = c - j
  BY <1>1, <1>2, <1>3
<1>5. \A i \in Ring : away(i) = IF i >= at THEN i - at ELSE i - at + N
  BY <1>2, ApartIs
<1>6. n = [i \in Ring |-> IF away(i) < moved THEN m[Next1(i)] ELSE m[i]]
  BY DEF Closed
<1>7. n \in [Ring -> Stored]
  <2>1. \A i \in Ring : Next1(i) \in Ring
    BY NextPrevIs
  <2> HIDE DEF away, moved
  <2> QED
    BY <1>6, <2>1
<1>8. Prev1(t) = At(h, c - 1)
  <2>1. Prev1(t) = IF t = 0 THEN N - 1 ELSE t - 1
    BY <1>2, NextPrevIs
  <2>2. At(h, c - 1) = IF h + (c - 1) < N THEN h + (c - 1) ELSE h + (c - 1) - N
    BY <1>1, AtIs
  <2> QED
    BY <1>1, <1>2, <2>1, <2>2
<1> HIDE DEF t, at, moved, away, n
<1>9. ContentIs(m, h, c) /\ ContentIs(n, h, c - 1)
  BY <1>1, <1>7, ContentFacts
<1>10. s \in Seq(Stored) /\ Len(s) = c /\ u \in Seq(Stored) /\ Len(u) = c - 1
  BY <1>9 DEF ContentIs
<1>11. \A k \in 1 .. Len(u) : u[k] = IF k < j + 1 THEN s[k] ELSE s[k + 1]
  <2> SUFFICES ASSUME NEW k \in 1 .. Len(u)
               PROVE  u[k] = IF k < j + 1 THEN s[k] ELSE s[k + 1]
    OBVIOUS
  <2> DEFINE i == At(h, k - 1)
  <2>1. k \in 1 .. c - 1 /\ k \in 1 .. c /\ k + 1 \in 1 .. c /\ k - 1 \in 0 .. N
        /\ k \in 0 .. N /\ (k + 1) - 1 = k
    BY <1>1, <1>10
  <2>2. i \in Ring /\ i = IF h + (k - 1) < N THEN h + (k - 1) ELSE h + (k - 1) - N
    BY <2>1, AtIs
  <2>3. At(h, k) = IF h + k < N THEN h + k ELSE h + k - N
    BY <2>1, AtIs
  <2>4. Next1(i) = IF i = N - 1 THEN 0 ELSE i + 1
    BY <2>2, NextPrevIs
  <2>5. u[k] = n[i] /\ s[k] = m[i] /\ s[k + 1] = m[At(h, k)]
    BY <1>9, <2>1 DEF ContentIs
  <2> HIDE DEF i
  <2>6. Next1(i) = At(h, k)
    BY <1>1, <2>1, <2>2, <2>3, <2>4
  <2>7. away(i) = IF i >= at THEN i - at ELSE i - at + N
    BY <1>5, <2>2
  <2>8. n[i] = IF away(i) < moved THEN m[Next1(i)] ELSE m[i]
    BY <1>6, <2>2
  <2>9. CASE k < j + 1
    <3>1. away(i) = k - 1 - j + N
      BY <1>1, <1>2, <2>1, <2>2, <2>7, <2>9
    <3>2. ~(away(i) < moved)
      BY <1>1, <1>4, <2>1, <3>1
    <3> QED
      BY <2>5, <2>8, <2>9, <3>2
  <2>10. CASE ~(k < j + 1)
    <3>1. away(i) = k - 1 - j
      BY <1>1, <1>2, <2>1, <2>2, <2>7, <2>10
    <3>2. away(i) < moved
      BY <1>1, <1>4, <2>1, <3>1
    <3> QED
      BY <2>5, <2>6, <2>8, <2>10, <3>2
  <2> QED
    BY <2>9, <2>10
<1>12. j + 1 \in 1 .. Len(s)
  BY <1>1, <1>10
<1> HIDE DEF s, u
<1>13. u = RemoveAt(s, j + 1)
  <2>1. PICK b \in 1 .. Len(s) : b = j + 1
    BY <1>12
  <2>2. \A k \in 1 .. Len(u) : u[k] = IF k < b THEN s[k] ELSE s[k + 1]
    BY <1>11, <2>1
  <2>3. Len(u) = Len(s) - 1
    BY <1>10
  <2>4. u = RemoveAt(s, b)
    BY <1>10, <2>2, <2>3, IsRemoveAt
  <2> QED
    BY <2>1, <2>4
<1> QED
  BY <1>7, <1>8, <1>13 DEF s, u, n, t, at
-----------------------------------------------------------------------------
Places == {"user", "sending", "receiving"}

RingInv ==
    /\ messages \in [Ring -> Stored]
    /\ head \in Ring
    /\ count \in 0 .. N
    /\ received \in Stored
    /\ RingConsistent

(* Where each process is in its call, and what it was given. *)
CallInv ==
    /\ pc \in [Processes -> Places]
    /\ DOMAIN arg = Processes
    /\ \A p \in Processes : /\ pc[p] = "user" => arg[p] = NoMessage
                            /\ pc[p] = "sending" => arg[p] \in Messages
                            /\ pc[p] = "receiving" => arg[p] \in Types

ListInv ==
    /\ waiting_senders \in Seq(Processes)
    /\ waiting_receivers \in Seq(Processes)
    /\ NobodyWaitsInVain
    /\ ListedIsInCall

MqInv == RingInv /\ CallInv /\ ListInv

LEMMA RingFacts ==
    ASSUME RingInv
    PROVE  /\ Content = ContentOf(messages, head, count)
           /\ ContentIs(messages, head, count)
           /\ tail = At(head, count) /\ tail \in Ring
<1>1. tail = At(head, count)
  BY DEF RingInv, RingConsistent, At, N
<1>2. tail \in Ring
  BY <1>1, AtIs DEF RingInv
<1>3. Content = ContentOf(messages, head, count)
  BY DEF Content, ContentOf, N
<1> QED
  BY <1>1, <1>2, <1>3, ContentFacts DEF RingInv

LEMMA Starts == Init => MqInv /\ Abstract!Init
<1> SUFFICES ASSUME Init PROVE MqInv /\ Abstract!Init
  OBVIOUS
<1>1. N \in Nat \ {0} /\ Ring = 0 .. (N - 1) /\ 0 \in Ring /\ 0 \in 0 .. N
  BY SizeIs
<1>2. At(0, 0) = 0
  BY <1>1, AtIs
<1>3. RingInv
  <2>1. messages \in [Ring -> Stored] /\ received \in Stored
    BY DEF Init, Stored
  <2> QED
    BY <1>1, <1>2, <2>1 DEF Init, RingInv, RingConsistent, At, N
<1>4. CallInv
  BY DEF Init, CallInv, Places
<1>5. ListInv
  BY DEF Init, ListInv, NobodyWaitsInVain, ListedIsInCall
<1>6. Content = <<>>
  BY <1>3, RingFacts DEF ContentIs, Init
<1> QED
  BY <1>3, <1>4, <1>5, <1>6 DEF MqInv, Init, Abstract!Init

(* A process that goes to wait joins a list; the other list is empty then.  *)
LEMMA WaitKeeps ==
    ASSUME MqInv, NEW p \in Processes, NEW where \in {"sending", "receiving"}, NEW what,
           NEW d, Stay(p, where, what, d),
           where = "sending" => /\ what \in Messages /\ count = N
                                /\ waiting_senders' = Append(waiting_senders, p)
                                /\ waiting_receivers' = waiting_receivers,
           where = "receiving" => /\ what \in Types /\ count = 0
                                  /\ waiting_receivers' = Append(waiting_receivers, p)
                                  /\ waiting_senders' = waiting_senders
    PROVE  MqInv' /\ UNCHANGED <<Content, received>>
<1>1. UNCHANGED <<messages, head, tail, count, received>>
      /\ pc' = [pc EXCEPT ![p] = where] /\ arg' = [arg EXCEPT ![p] = what]
  BY DEF Stay, ringVars
<1>2. RingInv'
  BY <1>1 DEF MqInv, RingInv, RingConsistent
<1>3. CallInv'
  BY <1>1 DEF MqInv, CallInv, Places
<1>4. N \in Nat \ {0}
  BY SizeIs
<1>5. ListInv'
  <2>1. CASE where = "sending"
    <3>1. waiting_receivers = <<>> /\ count # 0
      BY <1>4, <2>1 DEF MqInv, ListInv, NobodyWaitsInVain, RingInv
    <3>2. waiting_senders' \in Seq(Processes) /\ waiting_receivers' = <<>>
      BY <2>1, <3>1 DEF MqInv, ListInv
    <3>3. \A i \in DOMAIN waiting_senders' : pc'[waiting_senders'[i]] = "sending"
      <4> TAKE i \in DOMAIN waiting_senders'
      <4>1. waiting_senders \in Seq(Processes)
        BY DEF MqInv, ListInv
      <4>2. waiting_senders' = Append(waiting_senders, p)
        BY <2>1
      <4>3. waiting_senders'[i] = p \/ \E k \in DOMAIN waiting_senders :
                                           waiting_senders'[i] = waiting_senders[k]
        BY <4>1, <4>2
      <4>4. \A q \in Processes : pc[q] = "sending" => pc'[q] = "sending"
        BY <1>1, <2>1 DEF MqInv, CallInv
      <4>5. \A k \in DOMAIN waiting_senders :
                pc[waiting_senders[k]] = "sending" /\ waiting_senders[k] \in Processes
        BY <4>1 DEF MqInv, ListInv, ListedIsInCall
      <4>6. pc'[p] = "sending"
        BY <1>1, <2>1 DEF MqInv, CallInv
      <4> QED
        BY <4>3, <4>4, <4>5, <4>6
    <3> QED
      BY <1>1, <2>1, <3>1, <3>2, <3>3 DEF ListInv, NobodyWaitsInVain, ListedIsInCall, N
  <2>2. CASE where = "receiving"
    <3>1. waiting_senders = <<>>
      BY <1>4, <2>2 DEF MqInv, ListInv, NobodyWaitsInVain, RingInv, N
    <3>2. waiting_receivers' \in Seq(Processes) /\ waiting_senders' = <<>>
      BY <2>2, <3>1 DEF MqInv, ListInv
    <3>3. \A i \in DOMAIN waiting_receivers' : pc'[waiting_receivers'[i]] = "receiving"
      <4> TAKE i \in DOMAIN waiting_receivers'
      <4>1. waiting_receivers \in Seq(Processes)
        BY DEF MqInv, ListInv
      <4>2. waiting_receivers' = Append(waiting_receivers, p)
        BY <2>2
      <4>3. waiting_receivers'[i] = p \/ \E k \in DOMAIN waiting_receivers :
                                             waiting_receivers'[i] = waiting_receivers[k]
        BY <4>1, <4>2
      <4>4. \A q \in Processes : pc[q] = "receiving" => pc'[q] = "receiving"
        BY <1>1, <2>2 DEF MqInv, CallInv
      <4>5. \A k \in DOMAIN waiting_receivers :
                pc[waiting_receivers[k]] = "receiving" /\ waiting_receivers[k] \in Processes
        BY <4>1 DEF MqInv, ListInv, ListedIsInCall
      <4>6. pc'[p] = "receiving"
        BY <1>1, <2>2 DEF MqInv, CallInv
      <4> QED
        BY <4>3, <4>4, <4>5, <4>6
    <3> QED
      BY <1>1, <2>2, <3>1, <3>2, <3>3 DEF ListInv, NobodyWaitsInVain, ListedIsInCall
  <2> QED
    BY <2>1, <2>2
<1>6. Content' = Content
  BY <1>1 DEF Content
<1> QED
  BY <1>1, <1>2, <1>3, <1>5, <1>6 DEF MqInv

LEMMA ReturnKeeps ==
    ASSUME CallInv, NEW p \in Processes, Return(p)
    PROVE  /\ CallInv'
           /\ \A q \in Processes \ {p} : pc'[q] = pc[q]
<1>1. pc' = [pc EXCEPT ![p] = "user"] /\ arg' = [arg EXCEPT ![p] = NoMessage]
  BY DEF Return
<1> QED
  BY <1>1 DEF CallInv, Places

(* msgsnd that finds room: whoever waited for room has been woken before,   *)
(* and who waits for a message is woken now.                                *)
LEMMA StoreKeeps ==
    ASSUME MqInv, NEW p \in Processes, NEW m \in Messages, ~Full,
           messages' = [messages EXCEPT ![tail] = m], tail' = Next1(tail),
           count' = count + 1, waiting_receivers' = <<>>, Return(p),
           UNCHANGED <<head, waiting_senders, received>>
    PROVE  MqInv' /\ Abstract!Send(m)
<1>1. /\ messages \in [Ring -> Stored] /\ head \in Ring /\ count \in 0 .. N
      /\ N \in Nat \ {0} /\ Ring = 0 .. (N - 1) /\ m \in Stored
  BY SizeIs DEF MqInv, RingInv, Stored
<1>2. count < N /\ count + 1 \in 0 .. N
  BY <1>1 DEF Full, N
<1>3. /\ Content = ContentOf(messages, head, count) /\ Len(Content) = count
      /\ tail = At(head, count) /\ tail \in Ring
  BY RingFacts DEF MqInv, ContentIs
<1>4. messages' \in [Ring -> Stored]
  BY <1>1, <1>3
<1>5. tail' = At(head, count + 1)
  <2>1. tail = IF head + count < N THEN head + count ELSE head + count - N
    BY <1>1, <1>3, AtIs
  <2>2. At(head, count + 1) = IF head + (count + 1) < N THEN head + (count + 1)
                              ELSE head + (count + 1) - N
    BY <1>1, <1>2, AtIs
  <2>3. tail' = IF tail = N - 1 THEN 0 ELSE tail + 1
    BY <1>3, NextPrevIs
  <2> QED
    BY <1>1, <1>2, <2>1, <2>2, <2>3
<1>6. RingInv'
  <2>1. head' = head /\ count' = count + 1 /\ received' = received
    OBVIOUS
  <2>2. RingConsistent'
    BY <1>5, <2>1 DEF RingConsistent, At, N
  <2> QED
    BY <1>2, <1>4, <2>1, <2>2 DEF RingInv, MqInv, N
<1>7. Content' = Append(Content, m)
  <2>1. Content' = ContentOf(messages', head', count')
    BY DEF Content, ContentOf, N
  <2>2. Content' = ContentOf([messages EXCEPT ![At(head, count)] = m], head, count + 1)
    BY <1>3, <2>1
  <2> QED
    BY <1>1, <1>2, <1>3, <2>2, StoreAppends
<1>8. CallInv'
  BY ReturnKeeps DEF MqInv
<1>9. waiting_senders = <<>>
  BY <1>1, <1>2 DEF MqInv, ListInv, NobodyWaitsInVain, N
<1>10. ListInv'
  BY <1>9 DEF ListInv, NobodyWaitsInVain, ListedIsInCall
<1>11. Abstract!Send(m)
  BY <1>2, <1>3, <1>7 DEF Abstract!Send, N
<1> QED
  BY <1>6, <1>8, <1>10, <1>11 DEF MqInv

(* The messages of a type, on the ring and in the abstract queue. *)
LEMMA MatchingIs ==
    ASSUME RingInv, NEW t
    PROVE  \A i \in Int : i \in Matches(t) <=> i + 1 \in Abstract!Matching(t)
<1>1. /\ count \in 0 .. N /\ N \in Nat \ {0}
      /\ DOMAIN Content = 1 .. count
      /\ \A k \in 1 .. count : Content[k] = messages[At(head, k - 1)]
  BY RingFacts, SizeIs DEF RingInv, ContentIs
<1> TAKE i \in Int
<1>2. i \in 0 .. (count - 1) <=> i + 1 \in 1 .. count
  BY <1>1
<1>3. ASSUME i \in 0 .. (count - 1)
      PROVE  Content[i + 1] = messages[(head + i) % MSG_QUEUE_SIZE]
  <2>1. (i + 1) - 1 = i /\ i + 1 \in 1 .. count
    BY <1>1, <1>3
  <2> QED
    BY <1>1, <2>1 DEF At, N
<1>4. i \in Matches(t) <=> i \in 0 .. (count - 1)
                           /\ t \in {0, messages[(head + i) % MSG_QUEUE_SIZE].type}
  BY DEF Matches
<1>5. i + 1 \in Abstract!Matching(t) <=> i + 1 \in 1 .. count /\ t \in {0, Content[i + 1].type}
  BY <1>1 DEF Abstract!Matching, Abstract!AnyType
<1> QED
  BY <1>2, <1>3, <1>4, <1>5

(* msgrcv that finds none of its type, or that is not to wait. *)
LEMMA NothingKeeps ==
    ASSUME MqInv, NEW p \in Processes, pc[p] # "sending",
           pc[p] = "receiving" => count # 0, NEW t \in Types, Matches(t) = {}, Nothing(p)
    PROVE  MqInv' /\ Abstract!ReceiveNothing(t)
<1>1. UNCHANGED <<messages, head, tail, count, waiting_senders, waiting_receivers>>
      /\ received' = NoMessage /\ Return(p)
  BY DEF Nothing, ringVars
<1>2. RingInv'
  BY <1>1 DEF MqInv, RingInv, RingConsistent, Stored
<1>3. CallInv' /\ \A q \in Processes \ {p} : pc'[q] = pc[q]
  BY <1>1, ReturnKeeps DEF MqInv
<1>4. \A i \in DOMAIN waiting_senders : waiting_senders[i] \in Processes \ {p}
  BY DEF MqInv, ListInv, ListedIsInCall
<1>5. \A i \in DOMAIN waiting_receivers : waiting_receivers[i] \in Processes \ {p}
  <2>1. CASE waiting_receivers = <<>>
    BY <2>1
  <2>2. CASE waiting_receivers # <<>>
    <3>1. pc[p] # "receiving"
      BY <2>2 DEF MqInv, ListInv, NobodyWaitsInVain
    <3> QED
      BY <3>1 DEF MqInv, ListInv, ListedIsInCall
  <2> QED
    BY <2>1, <2>2
<1>6. ListInv'
  <2>1. NobodyWaitsInVain'
    BY <1>1 DEF MqInv, ListInv, NobodyWaitsInVain
  <2>2. ListedIsInCall'
    BY <1>1, <1>3, <1>4, <1>5 DEF MqInv, ListInv, ListedIsInCall
  <2> QED
    BY <1>1, <2>1, <2>2 DEF MqInv, ListInv
<1>7. Content' = Content
  BY <1>1 DEF Content
<1>8. Abstract!Matching(t) = {}
  <2> SUFFICES ASSUME NEW k \in Abstract!Matching(t) PROVE FALSE
    OBVIOUS
  <2>1. k \in Int /\ k - 1 \in Int /\ (k - 1) + 1 = k
    BY RingFacts DEF Abstract!Matching, MqInv, RingInv, ContentIs
  <2> QED
    BY <2>1, MatchingIs DEF MqInv
<1>9. Abstract!ReceiveNothing(t)
  BY <1>1, <1>7, <1>8 DEF Abstract!ReceiveNothing
<1> QED
  BY <1>2, <1>3, <1>6, <1>9 DEF MqInv

(* The three writes of a receive, from the head or from behind it. *)
LEMMA TakeTakes ==
    ASSUME RingInv, NEW j \in 0 .. (count - 1), NEW p, Take(p, At(head, j))
    PROVE  /\ RingInv'
           /\ received' = Content[j + 1]
           /\ Content' = RemoveAt(Content, j + 1)
<1> DEFINE at == At(head, j)
           m == messages
           h == head
           c == count
<1>1. /\ m \in [Ring -> Stored] /\ h \in Ring /\ c \in 1 .. N
      /\ N \in Nat \ {0} /\ Ring = 0 .. (N - 1) /\ c - 1 \in 0 .. N /\ j \in 0 .. N
  BY SizeIs DEF RingInv
<1>2. /\ Content = ContentOf(m, h, c) /\ ContentIs(m, h, c)
      /\ tail = At(h, c) /\ tail \in Ring
  BY RingFacts
<1>3. at \in Ring /\ at = IF h + j < N THEN h + j ELSE h + j - N
  BY <1>1, AtIs
<1>4. at = h <=> j = 0
  BY <1>1, <1>3
<1>5. received' = m[at] /\ count' = c - 1
  BY DEF Take
<1>6. received' = Content[j + 1] /\ received' \in Stored
  <2>1. j + 1 \in 1 .. c /\ (j + 1) - 1 = j
    BY <1>1
  <2> QED
    BY <1>1, <1>2, <1>3, <1>5, <2>1 DEF ContentIs
<1> HIDE DEF at
<1>7. CASE j = 0
  <2>1. head' = Next1(h) /\ messages' = m /\ tail' = tail
    BY <1>4, <1>7 DEF Take, at
  <2>2. Content' = ContentOf(messages', head', count')
    BY DEF Content, ContentOf, N
  <2>3. Content' = RemoveAt(Content, 1) /\ tail' = At(Next1(h), c - 1)
    BY <1>1, <1>2, <1>5, <2>1, <2>2, HeadTaken
  <2>4. Next1(h) \in Ring
    BY <1>1, NextPrevIs
  <2>5. RingConsistent'
    BY <1>5, <2>1, <2>3 DEF RingConsistent, At, N
  <2>6. RingInv'
    BY <1>1, <1>5, <1>6, <2>1, <2>4, <2>5 DEF RingInv, N
  <2> QED
    BY <1>6, <1>7, <2>3, <2>6
<1>8. CASE j # 0
  <2>1. j \in 1 .. (c - 1)
    BY <1>1, <1>8
  <2>2. head' = h /\ messages' = CloseHole(at) /\ tail' = Prev1(tail)
    BY <1>4, <1>8 DEF Take, at
  <2>3. CloseHole(at) = Closed(m, tail, at)
    BY DEF CloseHole, Closed, N
  <2>4. messages' = Closed(m, At(h, c), At(h, j))
    BY <1>2, <2>2, <2>3 DEF at
  <2>5. /\ messages' \in [Ring -> Stored]
        /\ ContentOf(messages', h, c - 1) = RemoveAt(ContentOf(m, h, c), j + 1)
        /\ Prev1(At(h, c)) = At(h, c - 1)
    BY <1>1, <2>1, <2>4, MiddleTaken
  <2>6. Content' = ContentOf(messages', head', count')
    BY DEF Content, ContentOf, N
  <2>7. Content' = RemoveAt(Content, j + 1)
    BY <1>2, <1>5, <2>2, <2>5, <2>6
  <2>8. RingConsistent'
    BY <1>2, <1>5, <2>2, <2>5 DEF RingConsistent, At, N
  <2>9. RingInv'
    BY <1>1, <1>5, <1>6, <2>2, <2>5, <2>8 DEF RingInv, N
  <2> QED
    BY <1>6, <2>7, <2>9
<1> QED
  BY <1>7, <1>8

(* msgrcv that finds a message takes the oldest of its type. *)
LEMMA TakeKeeps ==
    ASSUME MqInv, NEW p \in Processes, pc[p] # "sending", NEW t \in Types,
           NEW i \in Matches(t), \A j \in Matches(t) : i <= j,
           Take(p, (head + i) % MSG_QUEUE_SIZE)
    PROVE  MqInv' /\ Abstract!Receive(t)
<1>1. i \in 0 .. (count - 1) /\ count \in 0 .. N /\ N \in Nat \ {0} /\ Take(p, At(head, i))
  BY SizeIs DEF Matches, MqInv, RingInv, At, N
<1>2. RingInv' /\ received' = Content[i + 1] /\ Content' = RemoveAt(Content, i + 1)
  BY <1>1, TakeTakes DEF MqInv
<1>3. /\ Return(p) /\ waiting_senders' = <<>>
      /\ waiting_receivers' = waiting_receivers
  BY DEF Take
<1>4. CallInv'
  BY <1>3, ReturnKeeps DEF MqInv
<1>5. waiting_receivers = <<>>
  BY <1>1 DEF MqInv, ListInv, NobodyWaitsInVain
<1>6. ListInv'
  BY <1>3, <1>5 DEF ListInv, NobodyWaitsInVain, ListedIsInCall
<1>7. i + 1 \in Abstract!Matching(t)
  BY <1>1, MatchingIs DEF MqInv
<1>8. \A k \in Abstract!Matching(t) : i + 1 <= k
  <2> TAKE k \in Abstract!Matching(t)
  <2>1. k \in Int /\ k - 1 \in Int /\ (k - 1) + 1 = k
    BY RingFacts DEF Abstract!Matching, MqInv, RingInv, ContentIs
  <2>2. k - 1 \in Matches(t)
    BY <2>1, MatchingIs DEF MqInv
  <2> QED
    BY <1>1, <2>1, <2>2
<1>9. Abstract!Receive(t)
  <2>1. PICK k \in Abstract!Matching(t) : k = i + 1
    BY <1>7
  <2>2. \A l \in Abstract!Matching(t) : k <= l
    BY <1>8, <2>1
  <2>3. received' = Content[k] /\ Content' = RemoveAt(Content, k)
    BY <1>2, <2>1
  <2> QED
    BY <2>2, <2>3 DEF Abstract!Receive, Abstract!RemoveAt, RemoveAt
<1> QED
  BY <1>2, <1>4, <1>6, <1>9 DEF MqInv
-----------------------------------------------------------------------------
Shown == <<Content, received>>

LEMMA SendKeeps ==
    ASSUME MqInv, NEW p \in Processes, NEW m \in Messages, NEW d, SendOrWait(p, m, d)
    PROVE  MqInv' /\ (Abstract!Next \/ UNCHANGED Shown)
<1>1. CASE Full
  <2>1. /\ waiting_senders' = Append(waiting_senders, p) /\ Stay(p, "sending", m, d)
        /\ waiting_receivers' = waiting_receivers
    BY <1>1 DEF SendOrWait
  <2>2. count = N
    BY <1>1, SizeIs DEF Full, MqInv, RingInv, N
  <2>3. MqInv' /\ UNCHANGED <<Content, received>>
    BY <2>1, <2>2, WaitKeeps
  <2> QED
    BY <2>3 DEF Shown
<1>2. CASE ~Full
  <2>1. /\ messages' = [messages EXCEPT ![tail] = m] /\ tail' = Next1(tail)
        /\ count' = count + 1 /\ waiting_receivers' = <<>> /\ Return(p)
        /\ UNCHANGED <<head, waiting_senders, received>>
    BY <1>2 DEF SendOrWait
  <2>2. MqInv' /\ Abstract!Send(m)
    BY <1>2, <2>1, StoreKeeps
  <2> QED
    BY <2>2 DEF Abstract!Next
<1> QED
  BY <1>1, <1>2

LEMMA ReceiveKeeps ==
    ASSUME MqInv, NEW p \in Processes, pc[p] # "sending", NEW t \in Types, NEW d,
           ReceiveOrWait(p, t, d)
    PROVE  MqInv' /\ (Abstract!Next \/ UNCHANGED Shown)
<1>1. CASE /\ count = 0
           /\ waiting_receivers' = Append(waiting_receivers, p)
           /\ Stay(p, "receiving", t, d)
           /\ UNCHANGED waiting_senders
  <2>1. MqInv' /\ UNCHANGED <<Content, received>>
    BY <1>1, WaitKeeps
  <2> QED
    BY <2>1 DEF Shown
<1>2. CASE \E i \in Matches(t) : /\ \A j \in Matches(t) : i <= j
                                 /\ Take(p, (head + i) % MSG_QUEUE_SIZE)
  <2>1. PICK i \in Matches(t) : /\ \A j \in Matches(t) : i <= j
                                /\ Take(p, (head + i) % MSG_QUEUE_SIZE)
    BY <1>2
  <2>2. MqInv' /\ Abstract!Receive(t)
    BY <2>1, TakeKeeps
  <2> QED
    BY <2>2 DEF Abstract!Next
<1>3. CASE count > 0 /\ Matches(t) = {} /\ Nothing(p)
  <2>1. count # 0
    BY <1>3 DEF MqInv, RingInv
  <2>2. MqInv' /\ Abstract!ReceiveNothing(t)
    BY <1>3, <2>1, NothingKeeps
  <2> QED
    BY <2>2 DEF Abstract!Next
<1> QED
  BY <1>1, <1>2, <1>3 DEF ReceiveOrWait

(* Signals, exits and yields are the scheduler's. *)
LEMMA OthersKeep ==
    ASSUME MqInv,
           UNCHANGED <<ringVars, waiting_senders, waiting_receivers, pc, arg, received>>
    PROVE  MqInv' /\ UNCHANGED Shown
<1>1. UNCHANGED <<messages, head, tail, count, received>>
  BY DEF ringVars
<1>2. RingInv'
  BY <1>1 DEF MqInv, RingInv, RingConsistent
<1>3. CallInv'
  BY DEF MqInv, CallInv
<1>4. ListInv'
  BY <1>1 DEF MqInv, ListInv, NobodyWaitsInVain, ListedIsInCall
<1> QED
  BY <1>1, <1>2, <1>3, <1>4 DEF MqInv, Shown, Content

LEMMA MqStep == MqInv /\ [Next]_vars => MqInv' /\ (Abstract!Next \/ UNCHANGED Shown)
<1> SUFFICES ASSUME MqInv, [Next]_vars
             PROVE  MqInv' /\ (Abstract!Next \/ UNCHANGED Shown)
  OBVIOUS
<1> DEFINE Good == MqInv' /\ (Abstract!Next \/ UNCHANGED Shown)
<1>1. CASE UNCHANGED vars
  BY <1>1, OthersKeep DEF vars
<1>2. ASSUME NEW p \in Processes, NEW m \in Messages, NEW d \in Deltas, Msgsnd(p, m, d)
      PROVE  Good
  BY <1>2, SendKeeps DEF Msgsnd
<1>3. ASSUME NEW p \in Processes, NEW d \in Deltas, MsgsndResume(p, d) PROVE Good
  <2>1. arg[p] \in Messages
    BY <1>3 DEF MsgsndResume, Running, MqInv, CallInv
  <2> QED
    BY <1>3, <2>1, SendKeeps DEF MsgsndResume
<1>4. ASSUME NEW p \in Processes, NEW t \in Types, NEW d \in Deltas, Msgrcv(p, t, d)
      PROVE  Good
  BY <1>4, ReceiveKeeps DEF Msgrcv, Running
<1>5. ASSUME NEW p \in Processes, NEW d \in Deltas, MsgrcvResume(p, d) PROVE Good
  <2>1. arg[p] \in Types /\ pc[p] # "sending"
    BY <1>5 DEF MsgrcvResume, Running, MqInv, CallInv
  <2> QED
    BY <1>5, <2>1, ReceiveKeeps DEF MsgrcvResume
<1>6. ASSUME NEW p \in Processes, MsgrcvNoWait(p) PROVE Good
  <2>1. pc[p] = "user" /\ count = 0 /\ Nothing(p)
    BY <1>6 DEF MsgrcvNoWait, Running
  <2>2. PICK t : t \in Types
    BY MsgQueueAssumption
  <2>3. Matches(t) = {}
    BY <2>1 DEF Matches
  <2>4. MqInv' /\ Abstract!ReceiveNothing(t)
    BY <2>1, <2>2, <2>3, NothingKeeps
  <2> QED
    BY <2>2, <2>4 DEF Abstract!Next
<1>7. CASE \/ \E p, q \in Processes : SignalSent(p, q)
           \/ \E p \in Processes, d \in Deltas : Exit(p, d)
           \/ \E d \in Deltas : Yield(d)
  <2>1. UNCHANGED <<ringVars, waiting_senders, waiting_receivers, pc, arg, received>>
    BY <1>7 DEF SignalSent, Exit, Yield
  <2> QED
    BY <2>1, OthersKeep
<1> HIDE DEF Good
<1>8. Good
  BY <1>2, <1>3, <1>4, <1>5, <1>6, <1>7, <1>1 DEF Next, Good
<1> QED
  BY <1>8 DEF Good

(* The inductive invariant of the message queue, for every size of the ring *)
(* and any processes that send, receive, signal, exit and yield.            *)
THEOREM MsgQueueInvariance == Spec => []MqInv
<1>1. Init => MqInv
  BY Starts
<1>2. MqInv /\ [Next]_vars => MqInv'
  BY MqStep
<1> QED
  BY <1>1, <1>2, PTL DEF Spec

(* msgsnd never overwrites a message: the tail is count behind the head,    *)
(* whichever of the three msgsnd or msgrcv moved.                           *)
THEOREM RingStaysConsistent == Spec => []RingConsistent
<1>1. MqInv => RingConsistent
  BY DEF MqInv, RingInv
<1> QED
  BY <1>1, MsgQueueInvariance, PTL

(* The lists of msgsnd and msgrcv are empty once what they wait for is      *)
(* there, and hold nobody who has left the call.                            *)
THEOREM NobodyEverWaitsInVain == Spec => []NobodyWaitsInVain
<1>1. MqInv => NobodyWaitsInVain
  BY DEF MqInv, ListInv
<1> QED
  BY <1>1, MsgQueueInvariance, PTL

(* Whom msgsnd or msgrcv wakes is in the wait that it ends. *)
THEOREM ListedStaysInCall == Spec => []ListedIsInCall
<1>1. MqInv => ListedIsInCall
  BY DEF MqInv, ListInv
<1> QED
  BY <1>1, MsgQueueInvariance, PTL

(* msgsnd and msgrcv implement the bounded queue with typed receives: they  *)
(* lose, double and reorder nothing, and a receiver is told "none" only     *)
(* when there is none of its type.                                          *)
THEOREM QueueRefinement == Spec => QueueSpec
<1>1. Init => MqInv /\ Abstract!Init
  BY Starts
<1>2. MqInv /\ [Next]_vars => [Abstract!Next]_Shown
  BY MqStep
<1> QED
  BY <1>1, <1>2, MsgQueueInvariance, PTL DEF Spec, QueueSpec, Abstract!Spec, Abstract!absVars, Shown
-----------------------------------------------------------------------------
(* The scheduler as the message queue may find it.  A process that a signal *)
(* woke may be queued twice, so its run queue need not be sound; what is    *)
(* left is that every process has a weight.                                 *)
Heavy(s) == s \in SchedState /\ \A q \in Slots : s.weight[q] > 0

(* t is what became of s, and blocks nobody. *)
Unblocks(t, s) ==
    /\ Heavy(t) /\ t.current \in Slots
    /\ \A q \in Slots : t.state[q] = "BLOCKED" => s.state[q] = "BLOCKED"

LEMMA EnqueueUnblocks ==
    ASSUME NEW s, Heavy(s), NEW p \in Slots
    PROVE  /\ Heavy(CfsEnqueue(s, p)) /\ CfsEnqueue(s, p).current = s.current
           /\ \A q \in Slots :
                  CfsEnqueue(s, p).state[q] = "BLOCKED" <=> s.state[q] = "BLOCKED" /\ q # p
  BY EnqueueType, CfsFields DEF Heavy

LEMMA DequeueKeeps ==
    ASSUME NEW s, Heavy(s), NEW p \in Slots
    PROVE  /\ Heavy(CfsDequeue(s, p)) /\ CfsDequeue(s, p).current = s.current
           /\ CfsDequeue(s, p).state = s.state /\ CfsDequeue(s, p).parent = s.parent
<1>1. s \in SchedState /\ s.vruntime[p] \in Nat /\ s.rq \in Seq(Node)
  BY Fields DEF Heavy
<1>2. RbRemove(s.rq, s.vruntime[p]) \in Seq(Node)
  BY <1>1, RbRemoveFacts DEF Removed
<1>3. s.nr - 1 \in Int /\ s.tw - s.weight[p] \in Int
  <2>1. s.weight[p] \in Int /\ s.nr \in Int /\ s.tw \in Int
    BY <1>1, Fields
  <2> QED
    BY <2>1
<1>4. CfsDequeue(s, p) \in SchedState
  BY <1>1, <1>2, <1>3 DEF CfsDequeue, SchedState
<1> QED
  BY <1>1, <1>4, CfsFields DEF Heavy

LEMMA SetStateHeavy ==
    ASSUME NEW s, Heavy(s), NEW p \in Slots, NEW st \in States
    PROVE  LET t == [s EXCEPT !.state[p] = st]
           IN  /\ Heavy(t) /\ t.current = s.current /\ t.parent = s.parent
               /\ \A q \in Slots : t.state[q] = IF q = p THEN st ELSE s.state[q]
  BY DEF Heavy, SchedState

LEMMA ScheduleUnblocks ==
    ASSUME NEW s, Heavy(s), NEW d \in Nat
    PROVE  Unblocks(Schedule(s, d), s)
<1> DEFINE next == PickNext(s)
           prev == s.current
<1>1. s \in SchedState /\ prev \in Slots \cup {NONE} /\ s.rq \in Seq(Node)
  BY Fields DEF Heavy
<1>2. next \in Slots
  BY <1>1, NodeFields, SlotFacts DEF PickNext
<1>3. CASE next = prev
  BY <1>2, <1>3 DEF Schedule, Unblocks
<1>4. CASE next # prev
  <2> DEFINE t == PutPrev(s, d)
  <2>1. Heavy(t) /\ \A q \in Slots : t.state[q] = "BLOCKED" => s.state[q] = "BLOCKED"
    <3>1. CASE prev # NONE /\ s.state[prev] = "RUNNING"
      <4> DEFINE v == s.vruntime[prev] + Charge(s, prev, d)
                 a == [s EXCEPT !.vruntime[prev] = v]
      <4>1. prev \in Slots
        BY <1>1, <3>1
      <4>2. v \in Nat
        <5>1. s.weight[prev] \in Nat /\ s.weight[prev] > 0 /\ s.vruntime[prev] \in Nat
          BY <1>1, <4>1, Fields DEF Heavy
        <5>2. \A x \in Nat, y \in Nat : y > 0 => x \div y \in Nat
          OBVIOUS
        <5>3. d * 1024 \in Nat
          OBVIOUS
        <5>4. Charge(s, prev, d) \in Nat
          BY <5>1, <5>2, <5>3 DEF Charge
        <5> QED
          BY <5>1, <5>4
      <4>3. t = CfsEnqueue(a, prev)
        BY <3>1 DEF PutPrev
      <4> HIDE DEF v, t
      <4>4. Heavy(a) /\ a.state = s.state
        BY <1>1, <4>1, <4>2 DEF Heavy, SchedState
      <4> HIDE DEF a
      <4> QED
        BY <4>1, <4>3, <4>4, EnqueueUnblocks
    <3>2. CASE ~(prev # NONE /\ s.state[prev] = "RUNNING")
      BY <3>2 DEF PutPrev
    <3> QED
      BY <3>1, <3>2
  <2>2. Schedule(s, d) = SetNext(t, next)
    BY <1>4 DEF Schedule
  <2> HIDE DEF t, next
  <2> DEFINE u == IF next = Idle THEN t ELSE CfsDequeue(t, next)
             w == [u EXCEPT !.state[next] = "RUNNING"]
             x == [w EXCEPT !.current = next]
  <2>3. Heavy(u) /\ u.state = t.state
    BY <1>2, <2>1, DequeueKeeps
  <2>4. SetNext(t, next) = x
    <3>1. SetNext(t, next) = [u EXCEPT !.state[next] = "RUNNING", !.current = next]
      BY DEF SetNext
    <3> QED
      BY <3>1
  <2> HIDE DEF u
  <2>5. Heavy(w) /\ \A q \in Slots : w.state[q] = IF q = next THEN "RUNNING" ELSE u.state[q]
    BY <1>2, <2>3, SetStateHeavy DEF States
  <2> HIDE DEF w
  <2>6. Heavy(x) /\ x.current = next /\ x.state = w.state
    BY <1>2, <2>5 DEF Heavy, SchedState
  <2> QED
    BY <1>2, <2>1, <2>2, <2>3, <2>4, <2>5, <2>6 DEF Unblocks
<1> QED
  BY <1>3, <1>4

(* One turn after the other of the loop that wakes a list. *)
LEMMA WakeTurns ==
    ASSUME NEW s \in SchedState, NEW l \in Seq(Processes)
    PROVE  \E f : /\ f[0] = s
                  /\ \A k \in 1 .. Len(l) : f[k] = CfsEnqueue(f[k - 1], l[k])
                  /\ WakeAll(s, l) = f[Len(l)]
<1> DEFINE n == Len(l)
           F == [i \in 1 .. n |-> [a \in SchedState |-> CfsEnqueue(a, l[i])]]
           IsIter(h) == h = [t \in SUBSET DOMAIN l |->
                               IF t = {} THEN s ELSE CfsEnqueue(h[t \ {Max(t)}], l[Max(t)])]
           iter == CHOOSE h : IsIter(h)
<1>1. n \in Nat /\ DOMAIN l = 1 .. n /\ \A i \in 1 .. n : l[i] \in Slots
  BY DEF Processes
<1>2. \A i \in 1 .. n, a \in SchedState : CfsEnqueue(a, l[i]) \in SchedState
  BY <1>1, EnqueueType
<1>3. F \in [1 .. n -> [SchedState -> SchedState]]
  <2> HIDE DEF n
  <2> QED
    BY <1>2
<1>4. \A i \in 1 .. n, a \in SchedState : F[i][a] = CfsEnqueue(a, l[i])
  OBVIOUS
<1> HIDE DEF F, n
<1>5. PICK g : Folds(g, n, SchedState, s, F)
  BY <1>1, <1>3, FoldExists
<1>6. IsIter(g)
  <2>1. g \in [SUBSET (1 .. n) -> SchedState]
    BY <1>5 DEF Folds
  <2>2. ASSUME NEW t \in SUBSET (1 .. n)
        PROVE  g[t] = IF t = {} THEN s ELSE CfsEnqueue(g[t \ {Max(t)}], l[Max(t)])
    <3>1. CASE t = {}
      BY <3>1, <1>5 DEF Folds
    <3>2. CASE t # {}
      <4>1. Max(t) \in 1 .. n /\ t \ {Max(t)} \in SUBSET (1 .. n)
        BY <1>1, <3>2, GreatestElement
      <4>2. g[t \ {Max(t)}] \in SchedState
        BY <2>1, <4>1
      <4>3. g[t] = F[Max(t)][g[t \ {Max(t)}]]
        BY <3>2, <1>5 DEF Folds
      <4> QED
        BY <1>4, <3>2, <4>1, <4>2, <4>3
    <3> QED
      BY <3>1, <3>2
  <2> QED
    BY <1>1, <2>1, <2>2
<1>7. IsIter(iter)
  BY <1>6
<1>8. WakeAll(s, l) = iter[DOMAIN l]
  BY Zenon DEF WakeAll, FoldLeft, MapThenFoldSet
<1> HIDE DEF iter
<1> DEFINE f == [k \in 0 .. n |-> iter[1 .. k]]
<1>9. f[0] = s
  <2>1. {} \in SUBSET DOMAIN l
    OBVIOUS
  <2>2. iter[{}] = s
    BY <1>7, <2>1
  <2> QED
    BY <1>1, <2>2, FoldIntervals
<1>10. ASSUME NEW k \in 1 .. n PROVE f[k] = CfsEnqueue(f[k - 1], l[k])
  <2>1. /\ 1 .. k \in SUBSET DOMAIN l /\ 1 .. k # {} /\ Max(1 .. k) = k
        /\ (1 .. k) \ {k} = 1 .. (k - 1) /\ k \in 0 .. n /\ k - 1 \in 0 .. n
    BY <1>1, FoldIntervals
  <2>2. iter[1 .. k] = CfsEnqueue(iter[(1 .. k) \ {k}], l[k])
    BY <1>7, <2>1
  <2> QED
    BY <2>1, <2>2
<1>11. WakeAll(s, l) = f[n]
  BY <1>1, <1>8
<1> QED
  BY <1>9, <1>10, <1>11 DEF n

(* The whole loop: whoever was listed is blocked no more. *)
LEMMA WakeAllUnblocks ==
    ASSUME NEW s, Heavy(s), s.current \in Slots, NEW l \in Seq(Processes)
    PROVE  /\ Unblocks(WakeAll(s, l), s)
           /\ \A q \in Slots : WakeAll(s, l).state[q] = "BLOCKED" => ~Contains(l, q)
<1> DEFINE n == Len(l)
<1>1. n \in Nat /\ s \in SchedState /\ \A i \in 1 .. n : l[i] \in Slots
  BY DEF Heavy, Processes
<1>2. PICK f : /\ f[0] = s
               /\ \A k \in 1 .. n : f[k] = CfsEnqueue(f[k - 1], l[k])
               /\ WakeAll(s, l) = f[n]
  BY <1>1, WakeTurns
<1> DEFINE Good(k) == /\ Heavy(f[k]) /\ f[k].current = s.current
                      /\ \A q \in Slots : f[k].state[q] = "BLOCKED" =>
                             s.state[q] = "BLOCKED" /\ \A i \in 1 .. k : l[i] # q
           Turns == {k \in Nat : k <= n => Good(k)}
<1> HIDE DEF n
<1>3. 0 \in Turns
  BY <1>2
<1>4. ASSUME NEW k \in Nat, k \in Turns PROVE k + 1 \in Turns
  <2>1. SUFFICES ASSUME k + 1 <= n PROVE Good(k + 1)
    OBVIOUS
  <2>2. k + 1 \in 1 .. n /\ (k + 1) - 1 = k /\ k <= n
    BY <1>1, <2>1
  <2>3. Good(k) /\ f[k + 1] = CfsEnqueue(f[k], l[k + 1]) /\ l[k + 1] \in Slots
    BY <1>1, <1>2, <1>4, <2>2
  <2> DEFINE a == f[k]
             b == f[k + 1]
             e == l[k + 1]
  <2>4. Heavy(a) /\ e \in Slots /\ b = CfsEnqueue(a, e)
    BY <2>3
  <2> HIDE DEF a, b, e
  <2>6. /\ Heavy(b) /\ b.current = a.current
        /\ \A q \in Slots : b.state[q] = "BLOCKED" <=> a.state[q] = "BLOCKED" /\ q # e
    BY <2>4, EnqueueUnblocks
  <2>5. \A i \in 1 .. (k + 1) : i \in 1 .. k \/ i = k + 1
    OBVIOUS
  <2> QED
    BY <2>3, <2>5, <2>6 DEF a, b, e
<1> HIDE DEF Turns
<1>5. \A k \in Nat : k \in Turns
  BY <1>3, <1>4, SetInduction
<1>6. Good(n)
  BY <1>1, <1>5 DEF Turns
<1> QED
  BY <1>2, <1>6 DEF Unblocks, Contains, n

(* A wait, from the state it sets to what schedule() picks. *)
LEMMA BlockUnblocks ==
    ASSUME NEW s, Heavy(s), s.current \in Slots, NEW d \in Nat
    PROVE  LET t == Schedule(Block(s), d)
           IN  /\ Heavy(t) /\ t.current \in Slots
               /\ \A q \in Slots : t.state[q] = "BLOCKED" =>
                      s.state[q] = "BLOCKED" \/ q = s.current
<1> DEFINE b == Block(s)
<1>1. /\ Heavy(b)
      /\ \A q \in Slots : b.state[q] = IF q = s.current THEN "BLOCKED" ELSE s.state[q]
  BY SetStateHeavy DEF Block, States
<1> HIDE DEF b
<1>2. Unblocks(Schedule(b, d), b)
  BY <1>1, ScheduleUnblocks
<1> QED
  BY <1>1, <1>2 DEF Unblocks, b

(* Signals and exits. *)
LEMMA SignalUnblocks ==
    ASSUME NEW s, Heavy(s), NEW p \in Slots
    PROVE  /\ Heavy(SignalSend(s, p)) /\ SignalSend(s, p).current = s.current
           /\ \A q \in Slots : SignalSend(s, p).state[q] = "BLOCKED" => s.state[q] = "BLOCKED"
  BY EnqueueUnblocks DEF SignalSend

LEMMA ExitUnblocks ==
    ASSUME NEW s, Heavy(s), s.current \in Slots, NEW d \in Nat
    PROVE  Unblocks(ProcessExit(s, d), s)
<1> DEFINE p == s.current
           z == [s EXCEPT !.state[p] = "ZOMBIE"]
           t == CfsDequeue(z, p)
           u == IF s.parent[p] = NONE THEN t ELSE SignalSend(t, s.parent[p])
<1>1. ProcessExit(s, d) = Schedule(u, d)
  BY DEF ProcessExit
<1>2. s.parent[p] \in Slots \cup {NONE}
  BY Fields DEF Heavy
<1>3. Heavy(z) /\ \A q \in Slots : z.state[q] = "BLOCKED" => s.state[q] = "BLOCKED"
  <2>1. Heavy(z) /\ \A q \in Slots : z.state[q] = IF q = p THEN "ZOMBIE" ELSE s.state[q]
    BY SetStateHeavy DEF States
  <2> QED
    BY <2>1
<1> HIDE DEF z
<1>4. Heavy(t) /\ t.state = z.state
  BY <1>3, DequeueKeeps
<1> HIDE DEF t
<1>5. Heavy(u) /\ \A q \in Slots : u.state[q] = "BLOCKED" => t.state[q] = "BLOCKED"
  BY <1>2, <1>4, SignalUnblocks
<1> HIDE DEF u
<1>6. Unblocks(Schedule(u, d), u)
  BY <1>5, ScheduleUnblocks
<1> QED
  BY <1>1, <1>3, <1>4, <1>5, <1>6 DEF Unblocks
-----------------------------------------------------------------------------
(* Who sleeps is on the list of what it sleeps for.  With NobodyWaitsInVain *)
(* this is inductive: a process that is blocked and current all the same,   *)
(* which a second node on the run queue may bring about, cannot leave its   *)
(* loop, because what it waits for has not come.                            *)
SleepInv == Heavy(sched) /\ sched.current \in Slots /\ BlockedIsListed

SleepsFor(p) ==
    \/ pc[p] = "receiving" /\ Contains(waiting_receivers, p)
    \/ pc[p] = "sending" /\ Contains(waiting_senders, p)

LEMMA ContainsAppend ==
    ASSUME NEW l \in Seq(Processes), NEW p \in Processes
    PROVE  \A q : Contains(Append(l, p), q) <=> Contains(l, q) \/ q = p
<1> DEFINE m == Append(l, p)
<1>1. /\ Len(l) \in Nat /\ Len(m) = Len(l) + 1 /\ m[Len(l) + 1] = p
      /\ \A i \in 1 .. Len(l) : m[i] = l[i]
  OBVIOUS
<1> HIDE DEF m
<1>2. \A i \in 1 .. Len(m) : i \in 1 .. Len(l) \/ i = Len(l) + 1
  BY <1>1
<1>3. \A i \in 1 .. Len(l) : i \in 1 .. Len(m)
  BY <1>1
<1>4. Len(l) + 1 \in 1 .. Len(m)
  BY <1>1
<1> QED
  BY <1>1, <1>2, <1>3, <1>4 DEF Contains, m

LEMMA NotInEmpty == \A p : ~Contains(<<>>, p)
  BY DEF Contains

(* Who leaves a loop is awake. *)
LEMMA GoesOnAwake ==
    ASSUME MqInv, SleepInv, NEW p \in Processes,
           \/ ~Full /\ pc[p] # "receiving"
           \/ count > 0 /\ pc[p] # "sending"
    PROVE  sched.state[p] # "BLOCKED"
<1>1. SUFFICES ASSUME sched.state[p] = "BLOCKED" PROVE FALSE
  OBVIOUS
<1>2. SleepsFor(p)
  BY <1>1 DEF SleepInv, BlockedIsListed, SleepsFor
<1>3. /\ waiting_receivers # <<>> => count = 0
      /\ waiting_senders # <<>> => count = MSG_QUEUE_SIZE
  BY DEF MqInv, ListInv, NobodyWaitsInVain
<1>4. count \in Nat /\ MSG_QUEUE_SIZE \in Nat
  BY SizeIs DEF MqInv, RingInv, N
<1> QED
  BY <1>2, <1>3, <1>4, NotInEmpty DEF SleepsFor, Full

(* Going to wait, returning, and leaving everything to the scheduler. *)
LEMMA WaitSleeps ==
    ASSUME MqInv, SleepInv, NEW p \in Processes, sched.current = p, NEW d \in Nat,
           NEW where \in {"sending", "receiving"}, NEW what, Stay(p, where, what, d),
           where = "sending" => /\ waiting_senders' = Append(waiting_senders, p)
                                /\ waiting_receivers' = waiting_receivers,
           where = "receiving" => /\ waiting_receivers' = Append(waiting_receivers, p)
                                  /\ waiting_senders' = waiting_senders
    PROVE  SleepInv'
<1>1. /\ sched' = Schedule(Block(sched), d) /\ pc' = [pc EXCEPT ![p] = where]
      /\ pc \in [Processes -> Places] /\ waiting_senders \in Seq(Processes)
      /\ waiting_receivers \in Seq(Processes) /\ p \in Slots
  BY DEF Stay, MqInv, CallInv, ListInv, Processes
<1>2. /\ Heavy(sched') /\ sched'.current \in Slots
      /\ \A q \in Slots : sched'.state[q] = "BLOCKED" => sched.state[q] = "BLOCKED" \/ q = p
  BY <1>1, BlockUnblocks DEF SleepInv
<1>3. /\ \A q : /\ Contains(waiting_senders, q) => Contains(waiting_senders', q)
                /\ Contains(waiting_receivers, q) => Contains(waiting_receivers', q)
      /\ where = "sending" => Contains(waiting_senders', p)
      /\ where = "receiving" => Contains(waiting_receivers', p)
  <2>1. /\ \A q : Contains(Append(waiting_senders, p), q) <=> Contains(waiting_senders, q) \/ q = p
        /\ \A q : Contains(Append(waiting_receivers, p), q) <=>
                   Contains(waiting_receivers, q) \/ q = p
    BY <1>1, ContainsAppend
  <2>2. CASE where = "sending"
    BY <2>1, <2>2
  <2>3. CASE where = "receiving"
    BY <2>1, <2>3
  <2> QED
    BY <2>2, <2>3
<1>4. ASSUME NEW q \in Processes, sched'.state[q] = "BLOCKED" PROVE SleepsFor(q)'
  <2>1. q \in Slots
    BY DEF Processes
  <2>2. CASE q = p
    BY <1>1, <1>3, <2>2 DEF SleepsFor
  <2>3. CASE q # p
    <3>1. SleepsFor(q) /\ pc'[q] = pc[q]
      BY <1>1, <1>2, <1>4, <2>1, <2>3 DEF SleepInv, BlockedIsListed, SleepsFor
    <3> QED
      BY <1>3, <3>1 DEF SleepsFor
  <2> QED
    BY <2>2, <2>3
<1> QED
  BY <1>2, <1>4 DEF SleepInv, BlockedIsListed, SleepsFor

LEMMA WakeSleeps ==
    ASSUME MqInv, SleepInv, NEW p \in Processes, sched.state[p] # "BLOCKED", Return(p),
           \/ /\ sched' = WakeAll(sched, waiting_receivers) /\ waiting_receivers' = <<>>
              /\ waiting_senders' = waiting_senders
           \/ /\ sched' = WakeAll(sched, waiting_senders) /\ waiting_senders' = <<>>
              /\ waiting_receivers' = waiting_receivers
           \/ UNCHANGED <<sched, waiting_senders, waiting_receivers>>
    PROVE  SleepInv'
<1>1. /\ pc' = [pc EXCEPT ![p] = "user"] /\ pc \in [Processes -> Places]
      /\ waiting_senders \in Seq(Processes) /\ waiting_receivers \in Seq(Processes)
      /\ \A q \in Processes : q \in Slots
      /\ Heavy(sched) /\ sched.current \in Slots
  BY DEF Return, MqInv, CallInv, ListInv, Processes, SleepInv
<1>2. ListedIsInCall
  BY DEF MqInv, ListInv
<1>3. Unblocks(sched', sched)
  <2>1. CASE UNCHANGED sched
    BY <1>1, <2>1 DEF Unblocks
  <2>2. CASE \/ sched' = WakeAll(sched, waiting_receivers)
             \/ sched' = WakeAll(sched, waiting_senders)
    BY <1>1, <2>2, WakeAllUnblocks
  <2> QED
    BY <2>1, <2>2
<1>4. ASSUME NEW q \in Processes, sched'.state[q] = "BLOCKED" PROVE SleepsFor(q)'
  <2>1. sched.state[q] = "BLOCKED" /\ q # p
    BY <1>1, <1>3, <1>4 DEF Unblocks
  <2>2. SleepsFor(q) /\ pc'[q] = pc[q]
    BY <1>1, <2>1 DEF SleepInv, BlockedIsListed, SleepsFor
  <2>3. CASE sched' = WakeAll(sched, waiting_receivers) /\ waiting_senders' = waiting_senders
    <3>1. ~Contains(waiting_receivers, q)
      BY <1>1, <1>4, <2>3, WakeAllUnblocks
    <3> QED
      BY <2>2, <2>3, <3>1 DEF SleepsFor
  <2>4. CASE sched' = WakeAll(sched, waiting_senders) /\ waiting_receivers' = waiting_receivers
    <3>1. ~Contains(waiting_senders, q)
      BY <1>1, <1>4, <2>4, WakeAllUnblocks
    <3> QED
      BY <2>2, <2>4, <3>1 DEF SleepsFor
  <2>5. CASE UNCHANGED <<sched, waiting_senders, waiting_receivers>>
    BY <2>2, <2>5 DEF SleepsFor
  <2> QED
    BY <2>3, <2>4, <2>5
<1> QED
  BY <1>3, <1>4 DEF SleepInv, BlockedIsListed, SleepsFor, Unblocks

LEMMA OthersSleep ==
    ASSUME SleepInv, Unblocks(sched', sched),
           UNCHANGED <<waiting_senders, waiting_receivers, pc>>
    PROVE  SleepInv'
<1>1. \A q \in Processes : q \in Slots
  BY DEF Processes
<1>2. ASSUME NEW q \in Processes, sched'.state[q] = "BLOCKED" PROVE SleepsFor(q)'
  <2>1. SleepsFor(q)
    BY <1>1, <1>2 DEF SleepInv, BlockedIsListed, SleepsFor, Unblocks
  <2> QED
    BY <2>1 DEF SleepsFor
<1> QED
  BY <1>2 DEF SleepInv, BlockedIsListed, SleepsFor, Unblocks
-----------------------------------------------------------------------------
LEMMA SendSleeps ==
    ASSUME MqInv, SleepInv, NEW p \in Processes, sched.current = p, pc[p] # "receiving",
           NEW m, NEW d \in Nat, SendOrWait(p, m, d)
    PROVE  SleepInv'
<1>1. CASE /\ Full
           /\ waiting_senders' = Append(waiting_senders, p)
           /\ Stay(p, "sending", m, d)
           /\ UNCHANGED waiting_receivers
  BY <1>1, WaitSleeps
<1>2. CASE /\ ~Full /\ sched' = WakeAll(sched, waiting_receivers)
           /\ waiting_receivers' = <<>> /\ Return(p) /\ waiting_senders' = waiting_senders
  BY <1>2, GoesOnAwake, WakeSleeps
<1> QED
  BY <1>1, <1>2 DEF SendOrWait

LEMMA ReceiveSleeps ==
    ASSUME MqInv, SleepInv, NEW p \in Processes, sched.current = p, pc[p] # "sending",
           NEW t, NEW d \in Nat, ReceiveOrWait(p, t, d)
    PROVE  SleepInv'
<1>1. CASE /\ count = 0
           /\ waiting_receivers' = Append(waiting_receivers, p)
           /\ Stay(p, "receiving", t, d)
           /\ UNCHANGED waiting_senders
  BY <1>1, WaitSleeps
<1>2. CASE \E i \in Matches(t) : Take(p, (head + i) % MSG_QUEUE_SIZE)
  <2>1. count > 0
    <3>1. PICK i \in Matches(t) : TRUE
      BY <1>2
    <3>2. i \in 0 .. (count - 1)
      BY <3>1 DEF Matches
    <3>3. count \in Nat
      BY SizeIs DEF MqInv, RingInv
    <3> QED
      BY <3>2, <3>3
  <2>2. /\ sched' = WakeAll(sched, waiting_senders) /\ waiting_senders' = <<>> /\ Return(p)
        /\ waiting_receivers' = waiting_receivers
    BY <1>2 DEF Take
  <2> QED
    BY <2>1, <2>2, GoesOnAwake, WakeSleeps
<1>3. CASE count > 0 /\ Nothing(p)
  <2>1. Return(p) /\ UNCHANGED <<sched, waiting_senders, waiting_receivers>>
    BY <1>3 DEF Nothing
  <2> QED
    BY <1>3, <2>1, GoesOnAwake, WakeSleeps
<1> QED
  BY <1>1, <1>2, <1>3 DEF ReceiveOrWait

LEMMA SleepStep == MqInv /\ SleepInv /\ [Next]_vars => SleepInv'
<1> SUFFICES ASSUME MqInv, SleepInv, [Next]_vars PROVE SleepInv'
  OBVIOUS
<1>1. Deltas \subseteq Nat /\ Heavy(sched) /\ sched.current \in Slots
  BY MsgQueueAssumption DEF SleepInv
<1>2. CASE UNCHANGED vars
  BY <1>1, <1>2, OthersSleep DEF vars, Unblocks
<1>3. CASE \E p \in Processes, m \in Messages, d \in Deltas : Msgsnd(p, m, d)
  BY <1>1, <1>3, SendSleeps DEF Msgsnd, Running
<1>4. CASE \E p \in Processes, d \in Deltas : MsgsndResume(p, d)
  BY <1>1, <1>4, SendSleeps DEF MsgsndResume, Running
<1>5. CASE \E p \in Processes, t \in Types, d \in Deltas : Msgrcv(p, t, d)
  BY <1>1, <1>5, ReceiveSleeps DEF Msgrcv, Running
<1>6. CASE \E p \in Processes, d \in Deltas : MsgrcvResume(p, d)
  BY <1>1, <1>6, ReceiveSleeps DEF MsgrcvResume, Running
<1>7. CASE \E p \in Processes : MsgrcvNoWait(p)
  <2>1. PICK p \in Processes : Running(p, "user") /\ Nothing(p)
    BY <1>7 DEF MsgrcvNoWait
  <2>2. sched.state[p] # "BLOCKED"
    BY <2>1 DEF Running, SleepInv, BlockedIsListed
  <2>3. Return(p) /\ UNCHANGED <<sched, waiting_senders, waiting_receivers>>
    BY <2>1 DEF Nothing
  <2> QED
    BY <2>2, <2>3, WakeSleeps
<1>8. CASE \E p, q \in Processes : SignalSent(p, q)
  <2>1. PICK q \in Processes : sched' = SignalSend(sched, q)
    BY <1>8 DEF SignalSent
  <2>2. UNCHANGED <<waiting_senders, waiting_receivers, pc>>
    BY <1>8 DEF SignalSent
  <2>3. q \in Slots
    BY DEF Processes
  <2>4. Unblocks(sched', sched)
    BY <1>1, <2>1, <2>3, SignalUnblocks DEF Unblocks
  <2> QED
    BY <2>2, <2>4, OthersSleep
<1>9. CASE \E p \in Processes, d \in Deltas : Exit(p, d)
  <2>1. PICK d \in Deltas : sched' = ProcessExit(sched, d)
    BY <1>9 DEF Exit
  <2>2. UNCHANGED <<waiting_senders, waiting_receivers, pc>>
    BY <1>9 DEF Exit
  <2> QED
    BY <1>1, <2>1, <2>2, ExitUnblocks, OthersSleep
<1>10. CASE \E d \in Deltas : Yield(d)
  <2>1. PICK d \in Deltas : sched' = Schedule(sched, d)
    BY <1>10 DEF Yield
  <2>2. UNCHANGED <<waiting_senders, waiting_receivers, pc>>
    BY <1>10 DEF Yield
  <2> QED
    BY <1>1, <2>1, <2>2, ScheduleUnblocks, OthersSleep
<1> QED
  BY <1>2, <1>3, <1>4, <1>5, <1>6, <1>7, <1>8, <1>9, <1>10 DEF Next

LEMMA StartsAwake == Init => SleepInv
<1> SUFFICES ASSUME Init PROVE SleepInv
  OBVIOUS
<1> DEFINE s == Created[MAX_PROCESSES - 1]
           normal == [p \in Slots |-> "NORMAL"]
<1>1. \A p \in Slots \ {Idle} : normal[p] \in Priorities
  BY DEF Priorities
<1>2. Created = CHOOSE f : IsCreated(f, normal)
  <2>1. \A f : IsCreated(f, normal) <=>
                   f = [p \in Slots |-> IF p = Idle THEN SchedInit
                                        ELSE ProcessCreate(f[p - 1], p, "NORMAL")]
    BY DEF IsCreated
  <2> QED
    BY <2>1, Zenon DEF Created
<1>3. Filled(s, MAX_PROCESSES - 1)
  BY <1>1, <1>2, CreatedFilled
<1>4. \A q \in Slots : q <= MAX_PROCESSES - 1
  BY SchedOpsAssumption DEF Slots
<1> HIDE DEF s
<1>5. Heavy(s) /\ \A q \in Slots : s.state[q] # "BLOCKED"
  BY <1>3, <1>4 DEF Filled, Sane, WeightOK, Heavy
<1>6. sched = Schedule(s, 0)
  BY DEF Init, s
<1>7. Unblocks(sched, s)
  BY <1>5, <1>6, ScheduleUnblocks
<1> QED
  BY <1>5, <1>7 DEF SleepInv, BlockedIsListed, Unblocks, Processes

(* Who is blocked is listed, the processes have weights, and the current    *)
(* one is a process, for any that wait, are woken, signalled or end.        *)
THEOREM SleepInvariance == Spec => []SleepInv
<1>1. Init => SleepInv
  BY StartsAwake
<1>2. MqInv /\ SleepInv /\ [Next]_vars => SleepInv'
  BY SleepStep
<1> QED
  BY <1>1, <1>2, MsgQueueInvariance, PTL DEF Spec

(* No wake-up of a message queue is lost, for any number of processes that  *)
(* wait, are woken together, overtaken, signalled or end: who is blocked is *)
(* on the list that the next msgsnd or msgrcv goes through.                 *)
THEOREM BlockedStaysListed == Spec => []BlockedIsListed
<1>1. SleepInv => BlockedIsListed
  BY DEF SleepInv
<1> QED
  BY <1>1, SleepInvariance, PTL

(* The ring, the lists, and what each call was given have their types; of  *)
(* the scheduler's fields, the current process.                            *)
THEOREM TypeCorrect == Spec => []TypeOK
<1>1. MqInv /\ SleepInv => TypeOK
  <2> SUFFICES ASSUME MqInv, SleepInv PROVE TypeOK
    OBVIOUS
  <2>1. tail \in Ring
    BY RingFacts DEF MqInv
  <2>2. \A p \in Processes :
            arg[p] \in CASE pc[p] = "user"      -> {NoMessage}
                         [] pc[p] = "sending"   -> Messages
                         [] pc[p] = "receiving" -> Types
    BY DEF MqInv, CallInv, Places
  <2> QED
    BY <2>1, <2>2 DEF TypeOK, MqInv, RingInv, CallInv, ListInv, SleepInv, Places, Stored, N
<1> QED
  BY <1>1, MsgQueueInvariance, SleepInvariance, PTL
=============================================================================
