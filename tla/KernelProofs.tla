---------------------------- MODULE KernelProofs ----------------------------
(***************************************************************************)
(* Proofs about the parts of Kernel, each from an inductive invariant of   *)
(* its own, and about virtual memory, which has its section at the end.    *)
(*   The ring of the keyboard driver implements the queue of KeyQueue: the *)
(* invariant says what the reader, between two of its accesses, may rely   *)
(* on.  Pipes: PipesInert is not inductive alone, since a process that is  *)
(* inside a call might add itself to a list; that none ever gets there is  *)
(* the rest of the induction.  Periodic: RateKept needs to know when       *)
(* each task is due: a period behind what it has spent at the earliest,    *)
(* except while it runs, when it is not looked at.  Console: what is printed is a *)
(* fold over its characters, and each character leaves the cells behind    *)
(* the cursor blank, which is what lets a prompt be read off the screen    *)
(* whatever a command printed before it.                                   *)
(***************************************************************************)
EXTENDS Kernel, VirtualMemory, DataLemmas, SequenceTheorems, FiniteSetTheorems, TLAPS

(* A step of the system is a step of each part or leaves it alone. *)
LEMMA KernelTurns ==
    ASSUME [KernelNext]_kernelVars
    PROVE  /\ [Kb!Next]_(Kb!kbVars)
           /\ [Con!Next]_(Con!conVars)
           /\ [Pi!Next]_(Pi!pipeVars)
           /\ [Pe!Next]_(Pe!perVars)
  BY DEF KernelNext, KeyboardTurn, kernelVars, kbVars, conVars, pipeVars, perVars, Kb!kbVars,
         Kb!ring, Kb!mods, Con!conVars, Pi!pipeVars, Pe!perVars, Pe!passVars, Pe!critVars

LEMMA KernelStarts == KernelStart => Kb!Init /\ Con!Init /\ Pi!Init /\ Pe!Init
  BY DEF KernelStart
-----------------------------------------------------------------------------
N == KEYBOARD_BUFFER_SIZE
Held == Kb!Chars \cup {NoChar}
Count == (buffer_head - buffer_tail) % N
Place(k) == (buffer_tail + k - 1) % N

KbInv ==
    /\ Kb!KeyboardAssumption
    /\ Kb!TypeOK
    /\ at \in {"boot", "init"} => buffer_tail = 0
    /\ at \in {"read", "advance"} => buffer_head # buffer_tail
    /\ at = "advance" => c = keyboard_buffer[buffer_tail]
-----------------------------------------------------------------------------
(* Arithmetic around the ring. *)
LEMMA ModLow == ASSUME NEW n \in Nat \ {0}, NEW x \in Nat, x < n PROVE x % n = x
  OBVIOUS

LEMMA ModHigh ==
    ASSUME NEW n \in Nat \ {0}, NEW x \in Nat, x >= n, x < 2 * n PROVE x % n = x - n
  OBVIOUS

LEMMA ModBelow ==
    ASSUME NEW n \in Nat \ {0}, NEW x \in Int, x < 0, x >= -n PROVE x % n = x + n
  OBVIOUS

LEMMA SuccessorIs ==
    ASSUME Kb!KeyboardAssumption, NEW x \in Kb!Indices
    PROVE  /\ Kb!Successor(x) = IF x = N - 1 THEN 0 ELSE x + 1
           /\ Kb!Successor(x) \in Kb!Indices
<1>1. N \in Nat \ {0, 1} /\ x \in Nat /\ x < N
  BY DEF Kb!KeyboardAssumption, N, Kb!Indices
<1>2. Kb!Successor(x) = IF x = N - 1 THEN 0 ELSE x + 1
  <2>1. CASE x = N - 1
    BY <1>1, <2>1, ModHigh DEF Kb!Successor, N
  <2>2. CASE x # N - 1
    <3>1. x + 1 \in Nat /\ x + 1 < N
      BY <1>1, <2>2
    <3> QED
      BY <1>1, <2>2, <3>1, ModLow DEF Kb!Successor, N
  <2> QED
    BY <2>1, <2>2
<1> QED
  BY <1>1, <1>2 DEF Kb!Indices, N

LEMMA CountIs ==
    ASSUME NEW n \in Nat \ {0}, NEW h \in 0 .. (n - 1), NEW t \in 0 .. (n - 1)
    PROVE  (h - t) % n = IF h >= t THEN h - t ELSE h - t + n
<1>1. CASE h >= t
  BY <1>1, ModLow
<1>2. CASE h < t
  BY <1>2, ModBelow
<1> QED
  BY <1>1, <1>2

LEMMA PlaceIs ==
    ASSUME NEW n \in Nat \ {0}, NEW t \in 0 .. (n - 1), NEW k \in 1 .. n
    PROVE  (t + k - 1) % n = IF t + k - 1 < n THEN t + k - 1 ELSE t + k - 1 - n
<1>1. CASE t + k - 1 < n
  BY <1>1, ModLow
<1>2. CASE t + k - 1 >= n
  BY <1>2, ModHigh
<1> QED
  BY <1>1, <1>2
-----------------------------------------------------------------------------
(* A sequence that agrees with another as Append and Tail do. *)
LEMMA IsAppend ==
    ASSUME NEW S, NEW s \in Seq(S), NEW u \in Seq(S), NEW e \in S,
           Len(u) = Len(s) + 1, u[Len(u)] = e, \A j \in 1 .. Len(s) : u[j] = s[j]
    PROVE  u = Append(s, e)
<1>1. Append(s, e) \in Seq(S) /\ Len(Append(s, e)) = Len(u)
  OBVIOUS
<1>2. \A j \in 1 .. Len(u) : u[j] = Append(s, e)[j]
  OBVIOUS
<1> QED
  BY <1>1, <1>2, SeqEqual

LEMMA IsTail ==
    ASSUME NEW S, NEW s \in Seq(S), NEW u \in Seq(S),
           s # <<>>, Len(u) = Len(s) - 1, \A j \in 1 .. Len(u) : u[j] = s[j + 1]
    PROVE  u = Tail(s)
<1>1. Tail(s) \in Seq(S) /\ Len(Tail(s)) = Len(u)
  OBVIOUS
<1>2. \A j \in 1 .. Len(u) : u[j] = Tail(s)[j]
  OBVIOUS
<1> QED
  BY <1>1, <1>2, SeqEqual

(* What is stored: as many as the indices are apart, from the tail on. *)
StoredIs ==
    /\ Count \in 0 .. (N - 1)
    /\ Count = IF buffer_head >= buffer_tail THEN buffer_head - buffer_tail
               ELSE buffer_head - buffer_tail + N
    /\ Kb!Stored \in Seq(Held)
    /\ Len(Kb!Stored) = Count
    /\ \A k \in 1 .. Count :
           /\ Kb!Stored[k] = keyboard_buffer[Place(k)]
           /\ Place(k) \in Kb!Indices
           /\ Place(k) = IF buffer_tail + k - 1 < N THEN buffer_tail + k - 1
                         ELSE buffer_tail + k - 1 - N

LEMMA StoredFacts == Kb!KeyboardAssumption /\ Kb!TypeOK => StoredIs
<1> SUFFICES ASSUME Kb!KeyboardAssumption, Kb!TypeOK PROVE StoredIs
  OBVIOUS
<1>1. /\ N \in Nat \ {0} /\ buffer_head \in 0 .. (N - 1) /\ buffer_tail \in 0 .. (N - 1)
      /\ keyboard_buffer \in [Kb!Indices -> Held]
  BY DEF Kb!KeyboardAssumption, Kb!TypeOK, N, Kb!Indices, Held
<1>2. Count = IF buffer_head >= buffer_tail THEN buffer_head - buffer_tail
              ELSE buffer_head - buffer_tail + N
  BY <1>1, CountIs DEF Count
<1>3. Count \in 0 .. (N - 1)
  BY <1>1, <1>2
<1>4. ASSUME NEW k \in 1 .. Count
      PROVE  /\ Place(k) = IF buffer_tail + k - 1 < N THEN buffer_tail + k - 1
                           ELSE buffer_tail + k - 1 - N
             /\ Place(k) \in Kb!Indices
  <2>1. k \in 1 .. N
    BY <1>1, <1>3
  <2>2. Place(k) = IF buffer_tail + k - 1 < N THEN buffer_tail + k - 1
                   ELSE buffer_tail + k - 1 - N
    BY <1>1, <2>1, PlaceIs DEF Place
  <2> QED
    BY <1>1, <2>1, <2>2 DEF Kb!Indices, N
<1>5. Kb!Stored = [k \in 1 .. Count |-> keyboard_buffer[Place(k)]]
  BY DEF Kb!Stored, Count, Place, N
<1>6. \A k \in 1 .. Count : keyboard_buffer[Place(k)] \in Held
  BY <1>1, <1>4
<1>7. Kb!Stored \in Seq(Held) /\ Len(Kb!Stored) = Count
  <2> HIDE DEF Count, Place
  <2> QED BY <1>3, <1>5, <1>6
<1> QED
  BY <1>2, <1>3, <1>4, <1>5, <1>7 DEF StoredIs
-----------------------------------------------------------------------------
(* An interrupt that adds a character appends it, or drops it exactly if    *)
(* the queue is full.                                                       *)
LEMMA AddAppends ==
    ASSUME Kb!KeyboardAssumption, Kb!TypeOK, Kb!TypeOK', NEW ch \in Kb!Chars, Kb!BufferAdd(ch),
           UNCHANGED buffer_tail
    PROVE  Kb!Stored' = IF Len(Kb!Stored) < N - 1 THEN Append(Kb!Stored, ch) ELSE Kb!Stored
<1>1. StoredIs /\ StoredIs'
  <2>1. StoredIs
    BY StoredFacts
  <2>2. (Kb!KeyboardAssumption /\ Kb!TypeOK => StoredIs)'
    BY StoredFacts, PTL
  <2> QED
    BY <2>1, <2>2
<1>2. /\ N \in Nat \ {0, 1} /\ buffer_head \in 0 .. (N - 1) /\ buffer_tail \in 0 .. (N - 1)
      /\ buffer_head \in Kb!Indices /\ keyboard_buffer \in [Kb!Indices -> Held]
  BY DEF Kb!KeyboardAssumption, Kb!TypeOK, N, Kb!Indices, Held
<1>3. Kb!Successor(buffer_head) = IF buffer_head = N - 1 THEN 0 ELSE buffer_head + 1
  BY <1>2, SuccessorIs
<1>4. CASE Kb!Successor(buffer_head) = buffer_tail
  <2>1. Count = N - 1
    BY <1>1, <1>2, <1>3, <1>4 DEF StoredIs
  <2>2. UNCHANGED <<keyboard_buffer, buffer_head, buffer_tail>>
    BY <1>4 DEF Kb!BufferAdd
  <2>3. Kb!Stored' = Kb!Stored
    BY <2>2 DEF Kb!Stored
  <2> QED
    BY <1>1, <1>2, <2>1, <2>3 DEF StoredIs
<1>5. CASE Kb!Successor(buffer_head) # buffer_tail
  <2>1. /\ keyboard_buffer' = [keyboard_buffer EXCEPT ![buffer_head] = ch]
        /\ buffer_head' = Kb!Successor(buffer_head)
    BY <1>5 DEF Kb!BufferAdd
  <2>2. Count < N - 1 /\ Count' = Count + 1
    BY <1>1, <1>2, <1>3, <1>5, <2>1 DEF StoredIs, N
  <2>3. (buffer_tail' + (Count + 1) - 1) % N = buffer_head
    <3>1. Count \in Nat /\ Count + 1 \in 1 .. N
      BY <1>1, <1>2, <2>2 DEF StoredIs
    <3>2. Place(Count + 1) = IF buffer_tail + (Count + 1) - 1 < N
                               THEN buffer_tail + (Count + 1) - 1
                             ELSE buffer_tail + (Count + 1) - 1 - N
      BY <1>2, <3>1, PlaceIs DEF Place
    <3>3. Place(Count + 1) = buffer_head
      BY <1>1, <1>2, <3>1, <3>2 DEF StoredIs
    <3> QED
      BY <3>3 DEF Place, N
  <2>4. \A k \in 1 .. Count : Kb!Stored'[k] = Kb!Stored[k]
    <3> SUFFICES ASSUME NEW k \in 1 .. Count PROVE Kb!Stored'[k] = Kb!Stored[k]
      OBVIOUS
    <3>1. Kb!Stored[k] = keyboard_buffer[Place(k)] /\ Place(k) \in Kb!Indices
      BY <1>1 DEF StoredIs
    <3>2. Place(k)' = Place(k)
      BY DEF Place, N
    <3>3. Kb!Stored'[k] = keyboard_buffer'[Place(k)]
      BY <1>1, <2>2, <3>2 DEF StoredIs
    <3>4. Place(k) # buffer_head
      BY <1>1, <1>2 DEF StoredIs
    <3> QED
      BY <1>2, <2>1, <3>1, <3>3, <3>4
  <2>5. Kb!Stored'[Count + 1] = ch
    <3>1. Count + 1 \in 1 .. Count'
      BY <1>1, <2>2 DEF StoredIs
    <3>2. Kb!Stored'[Count + 1] = keyboard_buffer'[(buffer_tail' + (Count + 1) - 1) % N]
      BY <1>1, <3>1 DEF StoredIs, Place, N
    <3> QED
      BY <1>2, <2>1, <2>3, <3>2
  <2>6. Kb!Stored' = Append(Kb!Stored, ch)
    BY <1>1, <2>2, <2>4, <2>5, IsAppend DEF StoredIs, Held
  <2> QED
    BY <1>1, <2>2, <2>6 DEF StoredIs
<1> QED
  BY <1>4, <1>5

(* What the reader has seen is the first, and moving the tail takes it off. *)
LEMMA AdvanceTakes ==
    ASSUME Kb!KeyboardAssumption, Kb!TypeOK, Kb!TypeOK', buffer_head # buffer_tail,
           buffer_tail' = Kb!Successor(buffer_tail), UNCHANGED <<keyboard_buffer, buffer_head>>
    PROVE  /\ Kb!Stored # <<>>
           /\ Head(Kb!Stored) = keyboard_buffer[buffer_tail]
           /\ Kb!Stored' = Tail(Kb!Stored)
<1>1. StoredIs /\ StoredIs'
  <2>1. StoredIs
    BY StoredFacts
  <2>2. (Kb!KeyboardAssumption /\ Kb!TypeOK => StoredIs)'
    BY StoredFacts, PTL
  <2> QED
    BY <2>1, <2>2
<1>2. /\ N \in Nat \ {0, 1} /\ buffer_head \in 0 .. (N - 1) /\ buffer_tail \in 0 .. (N - 1)
      /\ buffer_tail \in Kb!Indices
  BY DEF Kb!KeyboardAssumption, Kb!TypeOK, N, Kb!Indices
<1>3. buffer_tail' = IF buffer_tail = N - 1 THEN 0 ELSE buffer_tail + 1
  BY <1>2, SuccessorIs
<1>4. Count > 0 /\ Count' = Count - 1
  BY <1>1, <1>2, <1>3 DEF StoredIs, N
<1>5. Kb!Stored # <<>> /\ Head(Kb!Stored) = Kb!Stored[1]
  BY <1>1, <1>4 DEF StoredIs
<1>6. Kb!Stored[1] = keyboard_buffer[buffer_tail]
  <2>1. 1 \in 1 .. Count
    BY <1>1, <1>4 DEF StoredIs
  <2>2. Place(1) = buffer_tail
    BY <1>1, <1>2, <2>1 DEF StoredIs
  <2> QED
    BY <1>1, <2>1, <2>2 DEF StoredIs
<1>7. \A k \in 1 .. Count' : Kb!Stored'[k] = Kb!Stored[k + 1]
  <2> SUFFICES ASSUME NEW k \in 1 .. Count' PROVE Kb!Stored'[k] = Kb!Stored[k + 1]
    OBVIOUS
  <2>1. k + 1 \in 1 .. Count
    BY <1>1, <1>4 DEF StoredIs
  <2>2. /\ Kb!Stored'[k] = keyboard_buffer[Place(k)']
          /\ Kb!Stored[k + 1] = keyboard_buffer[Place(k + 1)]
    BY <1>1, <2>1 DEF StoredIs
  <2>3. Place(k)' = IF buffer_tail' + k - 1 < N THEN buffer_tail' + k - 1
                    ELSE buffer_tail' + k - 1 - N
    BY <1>1 DEF StoredIs, N
  <2>4. Place(k + 1) = IF buffer_tail + (k + 1) - 1 < N THEN buffer_tail + (k + 1) - 1
                       ELSE buffer_tail + (k + 1) - 1 - N
    BY <1>1, <2>1 DEF StoredIs
  <2>5. Place(k)' = Place(k + 1)
    BY <1>1, <1>2, <1>3, <1>4, <2>1, <2>3, <2>4 DEF StoredIs
  <2> QED
    BY <2>2, <2>5
<1>8. Kb!Stored' = Tail(Kb!Stored)
  BY <1>1, <1>4, <1>5, <1>7, IsTail DEF StoredIs
<1> QED
  BY <1>5, <1>6, <1>8
-----------------------------------------------------------------------------
LEMMA AddKeepsType ==
    ASSUME Kb!KeyboardAssumption, Kb!TypeOK, NEW ch \in Kb!Chars, Kb!BufferAdd(ch)
    PROVE  /\ keyboard_buffer' \in [Kb!Indices -> Held]
           /\ buffer_head' \in Kb!Indices
  BY SuccessorIs DEF Kb!BufferAdd, Kb!TypeOK, Held

LEMMA CharsAre == \A key : Kb!ToAscii(key) \in Kb!Chars
  BY DEF Kb!ToAscii, Kb!Chars

(* The interrupt handler moves the head only, away from a tail it is not at,*)
(* and writes where nothing is stored.                                      *)
LEMMA InterruptKeeps ==
    ASSUME KbInv, Kb!KeyInterrupt
    PROVE  KbInv'
<1> USE DEF KbInv
<1>1. PICK s \in Scancodes : IF s[1] = "up" THEN Kb!Release(s[2]) ELSE Kb!Press(s[2])
  BY DEF Kb!KeyInterrupt
<1>2. /\ buffer_tail' = buffer_tail /\ UNCHANGED <<c, got>>
      /\ at' = IF at = "asleep" THEN "check" ELSE at
  BY <1>1 DEF Kb!KeyInterrupt, Kb!Wakes, Kb!Release, Kb!Press, Kb!ring
<1>3. CASE s[1] = "up"
  <2>1. Kb!Release(s[2])
    BY <1>1, <1>3
  <2>2. UNCHANGED <<keyboard_buffer, buffer_head, caps_lock, beat>>
    BY <2>1 DEF Kb!Release, Kb!ring
  <2>3. {shift_pressed', ctrl_pressed', alt_pressed'} \subseteq BOOLEAN
    BY <2>1 DEF Kb!Release
  <2>4. Kb!TypeOK'
    BY <1>2, <2>2, <2>3 DEF Kb!TypeOK
  <2> QED
    BY <1>2, <2>2, <2>4
<1>4. CASE s[1] # "up"
  <2>1. Kb!Press(s[2])
    BY <1>1, <1>4
  <2>2. {shift_pressed', ctrl_pressed', alt_pressed', caps_lock'} \subseteq BOOLEAN
    BY <2>1 DEF Kb!Press
  <2>3. \/ Kb!BufferAdd(Kb!ToAscii(s[2])) /\ beat' = 1 - beat
        \/ UNCHANGED <<keyboard_buffer, buffer_head, beat>>
    BY <2>1 DEF Kb!Press
  <2>4. keyboard_buffer' \in [Kb!Indices -> Held] /\ buffer_head' \in Kb!Indices /\ beat' \in {0, 1}
    <3>1. CASE Kb!BufferAdd(Kb!ToAscii(s[2])) /\ beat' = 1 - beat
      BY <3>1, CharsAre, AddKeepsType DEF Kb!TypeOK
    <3>2. CASE UNCHANGED <<keyboard_buffer, buffer_head, beat>>
      BY <3>2 DEF Kb!TypeOK, Held
    <3> QED
      BY <2>3, <3>1, <3>2
  <2>5. Kb!TypeOK'
    BY <1>2, <2>2, <2>4 DEF Kb!TypeOK, Held
  <2>6. ASSUME buffer_head # buffer_tail
        PROVE  /\ buffer_head' # buffer_tail
               /\ keyboard_buffer'[buffer_tail] = keyboard_buffer[buffer_tail]
    <3>1. CASE Kb!BufferAdd(Kb!ToAscii(s[2]))
      BY <2>6, <3>1 DEF Kb!BufferAdd, Kb!TypeOK
    <3>2. CASE UNCHANGED <<keyboard_buffer, buffer_head, beat>>
      BY <2>6, <3>2
    <3> QED
      BY <2>3, <3>1, <3>2
  <2> QED
    BY <1>2, <2>5, <2>6
<1> QED
  BY <1>3, <1>4

LEMMA LoopKeeps ==
    ASSUME KbInv, Kb!Loop
    PROVE  KbInv'
<1> USE DEF KbInv
<1>1. 0 \in Kb!Indices
  BY DEF Kb!KeyboardAssumption, Kb!Indices
<1>2. CASE Kb!InitHead
  BY <1>1, <1>2 DEF Kb!InitHead, Kb!Goes, Kb!TypeOK, Kb!mods
<1>3. CASE Kb!InitRest
  BY <1>1, <1>3 DEF Kb!InitRest, Kb!Goes, Kb!TypeOK, Kb!mods
<1>4. CASE Kb!Check
  <2>1. (at' = "read" /\ buffer_head # buffer_tail) \/ at' = "hlt"
    BY <1>4 DEF Kb!Check, Kb!HasInput
  <2> QED
    BY <1>4, <2>1 DEF Kb!Check, Kb!TypeOK, Kb!ring, Kb!mods
<1>5. CASE Kb!Read
  BY <1>5 DEF Kb!Read, Kb!Goes, Kb!TypeOK, Kb!ring, Kb!mods
<1>6. CASE Kb!Advance
  <2>1. buffer_tail' \in Kb!Indices
    BY <1>6, SuccessorIs DEF Kb!Advance, Kb!TypeOK
  <2> QED
    BY <1>6, <2>1 DEF Kb!Advance, Kb!Goes, Kb!TypeOK, Kb!mods
<1>7. CASE Kb!Handle
  BY <1>7 DEF Kb!Handle, Kb!TypeOK, Kb!ring, Kb!mods
<1>8. CASE Kb!Sleep
  BY <1>8 DEF Kb!Sleep, Kb!Goes, Kb!TypeOK, Kb!ring, Kb!mods
<1> QED
  BY <1>2, <1>3, <1>4, <1>5, <1>6, <1>7, <1>8 DEF Kb!Loop

LEMMA KbStep == KbInv /\ [Kb!Next]_(Kb!kbVars) => KbInv'
<1> SUFFICES ASSUME KbInv, [Kb!Next]_(Kb!kbVars) PROVE KbInv'
  OBVIOUS
<1>1. CASE Kb!KeyInterrupt
  BY <1>1, InterruptKeeps
<1>2. CASE Kb!TimerInterrupt
  BY <1>2 DEF Kb!TimerInterrupt, Kb!Wakes, KbInv, Kb!TypeOK, Kb!ring, Kb!mods
<1>3. CASE Kb!Loop
  BY <1>3, LoopKeeps
<1>4. CASE UNCHANGED Kb!kbVars
  BY <1>4 DEF Kb!kbVars, KbInv, Kb!TypeOK, Kb!ring, Kb!mods
<1> QED
  BY <1>1, <1>2, <1>3, <1>4 DEF Kb!Next

LEMMA KbStart == Kb!KeyboardAssumption /\ Kb!Init => KbInv
<1> SUFFICES ASSUME Kb!KeyboardAssumption, Kb!Init PROVE KbInv
  OBVIOUS
<1>1. 0 \in Kb!Indices
  BY DEF Kb!KeyboardAssumption, Kb!Indices
<1> QED
  BY <1>1 DEF Kb!Init, KbInv, Kb!TypeOK

(* For every size of the ring its indices stay in it, and what the reader   *)
(* goes by between its accesses stays true under the interrupts.            *)
THEOREM KeyboardInvariance == KernelSpec => []KbInv
<1>1. KernelStart => KbInv
  BY KernelAssumption, KernelStarts, KbStart
<1>2. KbInv /\ [KernelNext]_kernelVars => KbInv'
  BY KernelTurns, KbStep
<1> QED
  BY <1>1, <1>2, PTL DEF KernelSpec

-----------------------------------------------------------------------------
LEMMA QueueInit == Kb!KeyboardAssumption /\ Kb!Init => Kb!Queue!Init
<1> SUFFICES ASSUME Kb!KeyboardAssumption, Kb!Init PROVE Kb!Queue!Init
  OBVIOUS
<1>1. KbInv /\ StoredIs
  BY KbStart, StoredFacts DEF KbInv
<1>2. Count = 0
  BY <1>1 DEF Kb!Init, StoredIs
<1>3. Kb!Stored = <<>>
  BY <1>1, <1>2 DEF StoredIs
<1> QED
  BY <1>3 DEF Kb!Init, Kb!Queue!Init

(* An interrupt puts a character or does nothing that shows. *)
LEMMA InterruptPuts ==
    ASSUME KbInv, KbInv', Kb!KeyInterrupt
    PROVE  Kb!Queue!Next \/ UNCHANGED <<Kb!Stored, got, beat>>
<1>1. PICK s \in Scancodes : IF s[1] = "up" THEN Kb!Release(s[2]) ELSE Kb!Press(s[2])
  BY DEF Kb!KeyInterrupt
<1>2. buffer_tail' = buffer_tail /\ got' = got
  BY <1>1 DEF Kb!KeyInterrupt, Kb!Release, Kb!Press, Kb!ring
<1>3. CASE UNCHANGED <<keyboard_buffer, buffer_head, beat>>
  BY <1>2, <1>3 DEF Kb!Stored
<1>4. CASE Kb!BufferAdd(Kb!ToAscii(s[2])) /\ beat' = 1 - beat
  <2>1. Kb!Stored' = IF Len(Kb!Stored) < N - 1 THEN Append(Kb!Stored, Kb!ToAscii(s[2]))
                     ELSE Kb!Stored
    BY <1>2, <1>4, AddAppends, CharsAre DEF KbInv
  <2>2. Kb!Queue!Put(Kb!ToAscii(s[2]))
    BY <1>2, <1>4, <2>1 DEF Kb!Queue!Put, N
  <2> QED
    BY <2>2, CharsAre DEF Kb!Queue!Next
<1>5. \/ UNCHANGED <<keyboard_buffer, buffer_head, beat>>
      \/ Kb!BufferAdd(Kb!ToAscii(s[2])) /\ beat' = 1 - beat
  BY <1>1 DEF Kb!Release, Kb!Press, Kb!ring
<1> QED
  BY <1>3, <1>4, <1>5

(* The reader's last access takes a character; keyboard_init clears.        *)
LEMMA LoopTakes ==
    ASSUME KbInv, KbInv', Kb!Loop
    PROVE  Kb!Queue!Next \/ UNCHANGED <<Kb!Stored, got, beat>>
<1>1. CASE Kb!InitHead
  <2>1. Kb!KeyboardAssumption /\ buffer_head' = 0 /\ buffer_tail' = 0 /\ UNCHANGED <<got, beat>>
    BY <1>1 DEF Kb!InitHead, Kb!Goes, KbInv
  <2>2. StoredIs'
    <3>1. (Kb!KeyboardAssumption /\ Kb!TypeOK => StoredIs)'
      BY StoredFacts, PTL
    <3> QED
      BY <3>1 DEF KbInv
  <2>3. Kb!Stored' = <<>>
    BY <2>1, <2>2 DEF StoredIs
  <2> QED
    BY <2>1, <2>3 DEF Kb!Queue!Next, Kb!Queue!Reset
<1>2. CASE Kb!InitRest
  <2>1. UNCHANGED <<keyboard_buffer, buffer_head, buffer_tail, got, beat>>
    BY <1>2 DEF Kb!InitRest, Kb!Goes, KbInv
  <2> QED
    BY <2>1 DEF Kb!Stored
<1>3. CASE Kb!Advance
  <2>1. /\ buffer_head # buffer_tail /\ c = keyboard_buffer[buffer_tail]
        /\ buffer_tail' = Kb!Successor(buffer_tail) /\ got' = c
        /\ UNCHANGED <<keyboard_buffer, buffer_head, beat>>
    BY <1>3 DEF Kb!Advance, Kb!Goes, KbInv
  <2>2. Kb!Stored # <<>> /\ Head(Kb!Stored) = c /\ Kb!Stored' = Tail(Kb!Stored)
    BY <2>1, AdvanceTakes DEF KbInv
  <2> QED
    BY <2>1, <2>2 DEF Kb!Queue!Next, Kb!Queue!Take
<1>4. CASE Kb!Check \/ Kb!Read \/ Kb!Handle \/ Kb!Sleep
  <2>1. UNCHANGED <<keyboard_buffer, buffer_head, buffer_tail, got, beat>>
    BY <1>4 DEF Kb!Check, Kb!Read, Kb!Handle, Kb!Sleep, Kb!ring
  <2> QED
    BY <2>1 DEF Kb!Stored
<1> QED
  BY <1>1, <1>2, <1>3, <1>4 DEF Kb!Loop

(* The keyboard driver and its reader implement the queue: for every size   *)
(* of the ring, and with interrupts between any two accesses.               *)
THEOREM KeyboardRefinement == KernelSpec => KeysInOrder
<1>1. KbInv /\ KbInv' /\ [Kb!Next]_(Kb!kbVars) => [Kb!Queue!Next]_<<Kb!Stored, got, beat>>
  <2> SUFFICES ASSUME KbInv, KbInv', [Kb!Next]_(Kb!kbVars)
               PROVE  Kb!Queue!Next \/ UNCHANGED <<Kb!Stored, got, beat>>
    OBVIOUS
  <2>1. CASE Kb!KeyInterrupt
    BY <2>1, InterruptPuts
  <2>2. CASE Kb!Loop
    BY <2>2, LoopTakes
  <2>3. CASE Kb!TimerInterrupt \/ UNCHANGED Kb!kbVars
    <3>1. UNCHANGED <<keyboard_buffer, buffer_head, buffer_tail, got, beat>>
      BY <2>3 DEF Kb!TimerInterrupt, Kb!kbVars, Kb!ring
    <3> QED
      BY <3>1 DEF Kb!Stored
  <2> QED
    BY <2>1, <2>2, <2>3 DEF Kb!Next
<1>2. KbInv /\ KbInv' /\ [KernelNext]_kernelVars => [Kb!Queue!Next]_<<Kb!Stored, got, beat>>
  BY <1>1, KernelTurns
<1>3. KernelStart => Kb!Queue!Init
  BY KernelAssumption, KernelStarts, QueueInit
<1> QED
  BY <1>2, <1>3, KeyboardInvariance, PTL DEF KernelSpec, KeysInOrder, Kb!KeysInOrder, Kb!Queue!Spec
-----------------------------------------------------------------------------
InertInv ==
    /\ Pi!TypeOK
    /\ Pi!PipesInert
    /\ \A p \in Processes : call[p] = "user"

(* A call that finds a pipe as InertInv has it leaves it so. *)
LEMMA ReadReturns ==
    ASSUME InertInv, NEW p \in Processes, NEW n \in Pi!Numbers, NEW size \in Sizes,
           Pi!Reading(p, n, size)
    PROVE  InertInv'
<1>1. pipes[n].data_size = 0 /\ pipes[n].writers = <<>>
  BY DEF InertInv, Pi!PipesInert
<1>2. call' = [call EXCEPT ![p] = "user"] /\ UNCHANGED <<pipes, blocked, sigpipe>>
  <2>1. /\ pipes' = [pipes EXCEPT ![n] =
                [pipes[n] EXCEPT !.data_size = 0 - Pi!Lesser(size, 0), !.writers = <<>>]]
        /\ blocked' = blocked \ Pi!ToSet(<<>>)
        /\ call' = [call EXCEPT ![p] = "user"] /\ UNCHANGED sigpipe
    BY <1>1 DEF Pi!Reading, Pi!Returns
  <2>2. Pi!Lesser(size, 0) = 0
    BY KernelAssumption DEF Pi!PipesAssumption, Pi!Lesser
  <2>3. /\ pipes[n] = [pipes[n] EXCEPT !.data_size = 0, !.writers = <<>>]
        /\ pipes = [pipes EXCEPT ![n] = pipes[n]]
    BY <1>1 DEF InertInv, Pi!TypeOK
  <2>4. Pi!ToSet(<<>>) = {}
    BY DEF Pi!ToSet
  <2>5. UNCHANGED blocked
    BY <2>1, <2>4
  <2>6. UNCHANGED pipes
    <3>1. 0 - Pi!Lesser(size, 0) = 0
      BY <2>2
    <3>2. pipes' = [pipes EXCEPT ![n] = [pipes[n] EXCEPT !.data_size = 0, !.writers = <<>>]]
      BY <2>1, <3>1
    <3> QED
      BY <2>3, <3>2, Zenon
  <2> QED
    BY <2>1, <2>5, <2>6
<1>3. answer' \in [asked: Nat, given: Nat]
  <2>1. size \in Nat /\ Pi!Lesser(size, pipes[n].data_size) \in Nat
    BY <1>1, KernelAssumption DEF Pi!PipesAssumption, Pi!Lesser
  <2>2. answer' = [asked |-> size, given |-> Pi!Lesser(size, pipes[n].data_size)]
    BY <1>1 DEF Pi!Reading
  <2> QED
    BY <2>1, <2>2
<1> QED
  BY <1>2, <1>3 DEF InertInv, Pi!PipesInert, Pi!TypeOK

LEMMA CreateKeeps ==
    ASSUME InertInv, NEW p \in Processes, Pi!PipeCreate(p)
    PROVE  InertInv'
<1>1. PICK n \in Pi!Numbers :
          /\ pipes' = [pipes EXCEPT ![n] = Pi!Created(p)]
          /\ UNCHANGED <<blocked, call, sigpipe, answer>>
  BY DEF Pi!PipeCreate
<1>2. /\ Pi!Created(p).data_size = 0 /\ Pi!Created(p).readers = <<>>
      /\ Pi!Created(p).writers = <<>>
      /\ Pi!Created(p) \in [in_use: BOOLEAN, data_size: 0 .. PIPE_BUFFER_SIZE,
                            readers: Seq(Processes), writers: Seq(Processes)]
  <2>1. 0 \in 0 .. PIPE_BUFFER_SIZE /\ <<>> \in Seq(Processes)
    BY KernelAssumption DEF Pi!PipesAssumption
  <2> QED
    BY <2>1 DEF Pi!Created, Pi!NoPipe
<1>3. \A m \in Pi!Numbers :
          pipes'[m].data_size = 0 /\ pipes'[m].readers = <<>> /\ pipes'[m].writers = <<>>
  BY <1>1, <1>2 DEF InertInv, Pi!PipesInert, Pi!TypeOK
<1>4. Pi!TypeOK'
  BY <1>1, <1>2 DEF InertInv, Pi!TypeOK
<1> QED
  BY <1>1, <1>3, <1>4 DEF InertInv, Pi!PipesInert

(* What the pipes' induction goes by: no process is inside a call.          *)
THEOREM PipesInvariance == KernelSpec => []InertInv
<1>1. KernelStart => InertInv
  <2>1. Pi!Init => InertInv
    BY KernelAssumption
       DEF Pi!Init, InertInv, Pi!TypeOK, Pi!PipesInert, Pi!NoPipe, Pi!PipesAssumption
  <2> QED
    BY <2>1, KernelStarts
<1>2. InertInv /\ [KernelNext]_kernelVars => InertInv'
  <2> SUFFICES ASSUME InertInv, [Pi!Next]_(Pi!pipeVars) PROVE InertInv'
    BY KernelTurns
  <2>1. CASE UNCHANGED Pi!pipeVars
    BY <2>1 DEF Pi!pipeVars, InertInv, Pi!PipesInert, Pi!TypeOK
  <2>2. CASE Pi!Next
    <3> PICK p \in Processes :
            Pi!PipeCreate(p) \/ Pi!PipeRead(p) \/ Pi!PipeWrite(p) \/ Pi!Resume(p)
      BY <2>2 DEF Pi!Next
    <3>1. CASE Pi!PipeCreate(p)
      BY <3>1, CreateKeeps
    <3>2. CASE Pi!PipeRead(p)
      BY <3>2, ReadReturns DEF Pi!PipeRead
    <3>3. CASE Pi!PipeWrite(p)
      <4>1. UNCHANGED <<pipes, blocked, call, answer>> /\ sigpipe' \subseteq Processes
        BY <3>3 DEF Pi!PipeWrite, InertInv, Pi!PipesInert, Pi!TypeOK
      <4> QED
        BY <4>1 DEF InertInv, Pi!PipesInert, Pi!TypeOK
    <3>4. CASE Pi!Resume(p)
      BY <3>4 DEF Pi!Resume, InertInv
    <3> QED
      BY <3>1, <3>2, <3>3, <3>4
  <2> QED
    BY <2>1, <2>2
<1> QED
  BY <1>1, <1>2, PTL DEF KernelSpec

(* No byte is ever stored in a pipe and nobody ever blocks at one, for any  *)
(* number of pipes, processes and sizes: the code's readers and writers are *)
(* only those that wait, and nobody waits for a first one.                  *)
THEOREM NothingFlows == KernelSpec => []Pi!PipesInert
<1>1. InertInv => Pi!PipesInert
  BY DEF InertInv
<1> QED
  BY <1>1, PipesInvariance, PTL
-----------------------------------------------------------------------------

(* What a task has spent is in the past, and when it is looked at it has    *)
(* not spent the period before it is due.                                   *)
DueAPeriodLater ==
    /\ current_ticks <= system_ticks
    /\ \A k \in DOMAIN tasks :
           /\ tasks[k].spent <= system_ticks
           /\ IF pass \in {"task", "delay"} /\ k = i
                THEN tasks[k].spent <= current_ticks
                ELSE tasks[k].next >= tasks[k].spent + tasks[k].period

PerInv == Pe!TypeOK /\ Pe!CriticalIsQuiet /\ DueAPeriodLater

(* Replacing one task by another keeps the table a table. *)
LEMMA TaskReplaced ==
    ASSUME NEW s \in Seq(Pe!Task), NEW k \in DOMAIN s, NEW t \in Pe!Task
    PROVE  /\ [s EXCEPT ![k] = t] \in Seq(Pe!Task)
           /\ Len([s EXCEPT ![k] = t]) = Len(s)
           /\ DOMAIN [s EXCEPT ![k] = t] = DOMAIN s
           /\ \A j \in DOMAIN s : [s EXCEPT ![k] = t][j] = IF j = k THEN t ELSE s[j]
  BY ExceptSeq

LEMMA TaskAdded ==
    ASSUME NEW s \in Seq(Pe!Task), NEW t \in Pe!Task
    PROVE  /\ Append(s, t) \in Seq(Pe!Task)
           /\ Len(Append(s, t)) = Len(s) + 1
           /\ DOMAIN Append(s, t) = 1 .. (Len(s) + 1)
           /\ \A j \in DOMAIN s : Append(s, t)[j] = s[j]
           /\ Append(s, t)[Len(s) + 1] = t
  OBVIOUS

(* What is proved of periodic tasks by induction, through late passes,      *)
(* delays and critical sections.                                            *)
THEOREM PeriodicInvariance == KernelSpec => []PerInv
<1>1. KernelStart => PerInv
  <2>1. Pe!Init => PerInv
    BY KernelAssumption
       DEF Pe!PeriodicAssumption, Pe!Init, PerInv, Pe!TypeOK, Pe!CriticalIsQuiet,
           DueAPeriodLater
  <2> QED
    BY <2>1, KernelStarts
<1>2. PerInv /\ [KernelNext]_kernelVars => PerInv'
  <2> SUFFICES ASSUME PerInv, [Pe!Next]_(Pe!perVars) PROVE PerInv'
    BY KernelTurns
  <2> USE KernelAssumption DEF Pe!PeriodicAssumption
  <2>1. CASE Pe!Tick
    <3>1. /\ system_ticks \in Nat /\ current_ticks \in Nat
          /\ \A k \in DOMAIN tasks : tasks[k].spent \in Nat
      <4>1. tasks \in Seq(Pe!Task) /\ {current_ticks, wake} \subseteq Nat /\ system_ticks \in Nat
        BY DEF PerInv, Pe!TypeOK
      <4>2. \A k \in DOMAIN tasks : tasks[k] \in Pe!Task
        BY <4>1
      <4> QED
        BY <4>1, <4>2 DEF Pe!Task
    <3>2. Pe!TypeOK' /\ Pe!CriticalIsQuiet'
      BY <2>1 DEF Pe!Tick, PerInv, Pe!TypeOK, Pe!CriticalIsQuiet, Pe!passVars, Pe!critVars
    <3> QED
      BY <2>1, <3>1, <3>2 DEF Pe!Tick, PerInv, DueAPeriodLater, Pe!passVars
  <2>2. CASE \E period \in Periods : Pe!Register(period)
    <3> PICK period \in Periods : Pe!Register(period)
      BY <2>2
    <3> DEFINE t == Pe!Registered(period)
    <3>1. t \in Pe!Task
      BY DEF Pe!Task, Pe!Registered, PerInv, Pe!TypeOK
    <3>2. tasks \in Seq(Pe!Task) /\ tasks' = Append(tasks, t) /\ Len(tasks) < MaxTasks
      BY DEF Pe!Register, PerInv, Pe!TypeOK
    <3>3. /\ tasks' \in Seq(Pe!Task) /\ Len(tasks') = Len(tasks) + 1
          /\ DOMAIN tasks' = 1 .. (Len(tasks) + 1)
          /\ \A j \in DOMAIN tasks : tasks'[j] = tasks[j]
          /\ tasks'[Len(tasks) + 1] = t
      <4> HIDE DEF t
      <4> QED BY <3>1, <3>2, TaskAdded
    <3>4. Pe!TypeOK' /\ Pe!CriticalIsQuiet'
      BY <3>2, <3>3 DEF Pe!Register, PerInv, Pe!TypeOK, Pe!CriticalIsQuiet, Pe!passVars, Pe!critVars
    <3>5. DueAPeriodLater'
      <4> SUFFICES ASSUME NEW k \in DOMAIN tasks'
                   PROVE  /\ tasks'[k].spent <= system_ticks'
                          /\ IF pass' \in {"task", "delay"} /\ k = i'
                               THEN tasks'[k].spent <= current_ticks'
                               ELSE tasks'[k].next >= tasks'[k].spent + tasks'[k].period
        BY DEF DueAPeriodLater, PerInv, Pe!Register, Pe!passVars
      <4>1. CASE k = Len(tasks) + 1
        <5>1. /\ t.spent = system_ticks /\ t.next = system_ticks + period
              /\ t.period = period
          BY DEF Pe!Registered
        <5>2. ~(pass' \in {"task", "delay"} /\ k = i')
          BY <4>1, <3>2 DEF Pe!Register, PerInv, Pe!TypeOK, Pe!passVars
        <5> QED
          BY <4>1, <5>1, <5>2, <3>2, <3>3 DEF Pe!Register, PerInv, Pe!TypeOK
      <4>2. CASE k # Len(tasks) + 1
        <5>1. k \in DOMAIN tasks
          BY <4>2, <3>2, <3>3
        <5> QED
          BY <5>1, <3>3 DEF Pe!Register, PerInv, DueAPeriodLater, Pe!passVars
      <4> QED
        BY <4>1, <4>2
    <3> QED
      BY <3>4, <3>5 DEF PerInv
  <2>3. CASE Pe!StartPass
    BY <2>3 DEF Pe!StartPass, PerInv, Pe!TypeOK, Pe!CriticalIsQuiet, DueAPeriodLater, Pe!critVars
  <2>4. CASE Pe!StartTask
    <3> DEFINE t == Pe!Charged(tasks[i])
    <3>1. tasks \in Seq(Pe!Task) /\ i \in DOMAIN tasks /\ tasks[i] \in Pe!Task
      BY <2>4 DEF Pe!StartTask, Pe!Due, PerInv, Pe!TypeOK
    <3>2. t \in Pe!Task /\ t.spent <= current_ticks
      <4>1. /\ tasks[i].spent \in Nat /\ tasks[i].period \in Nat
            /\ tasks[i].next \in Nat /\ current_ticks \in Nat
        BY <3>1 DEF Pe!Task, PerInv, Pe!TypeOK
      <4>2. /\ current_ticks >= tasks[i].next
            /\ tasks[i].next >= tasks[i].spent + tasks[i].period
        BY <2>4, <3>1 DEF Pe!StartTask, Pe!Due, PerInv, DueAPeriodLater
      <4>3. t.spent = tasks[i].spent + tasks[i].period
        BY <3>1 DEF Pe!Task, Pe!Charged
      <4>4. \A n \in Nat : [tasks[i] EXCEPT !.spent = n] \in Pe!Task
        BY <3>1, Zenon DEF Pe!Task
      <4>5. tasks[i].spent + tasks[i].period \in Nat
        BY <4>1
      <4>6. t \in Pe!Task
        BY <4>4, <4>5 DEF Pe!Charged
      <4> QED
        BY <4>1, <4>2, <4>3, <4>6
    <3>3. tasks' = [tasks EXCEPT ![i] = t] /\ i' = i /\ pass' = "task"
      BY <2>4 DEF Pe!StartTask
    <3>4. /\ tasks' \in Seq(Pe!Task) /\ Len(tasks') = Len(tasks) /\ DOMAIN tasks' = DOMAIN tasks
          /\ tasks'[i] = t
          /\ \A j \in DOMAIN tasks : j # i => tasks'[j] = tasks[j]
      <4> HIDE DEF t
      <4> QED BY <3>1, <3>2, <3>3, TaskReplaced
    <3>5. Pe!TypeOK' /\ Pe!CriticalIsQuiet'
      BY <2>4, <3>1, <3>4 DEF Pe!StartTask, PerInv, Pe!TypeOK, Pe!CriticalIsQuiet, Pe!critVars
    <3>6. DueAPeriodLater'
      <4> HIDE DEF t
      <4>1. t.spent \in Nat /\ {current_ticks, system_ticks} \subseteq Nat
        BY <3>2 DEF Pe!Task, PerInv, Pe!TypeOK
      <4> QED
        BY <2>4, <3>2, <3>3, <3>4, <4>1 DEF Pe!StartTask, PerInv, DueAPeriodLater
    <3> QED
      BY <3>5, <3>6 DEF PerInv
  <2>5. CASE Pe!SkipTask
    BY <2>5 DEF Pe!SkipTask, PerInv, Pe!TypeOK, Pe!CriticalIsQuiet, DueAPeriodLater, Pe!critVars
  <2>6. CASE Pe!EndPass
    BY <2>6 DEF Pe!EndPass, PerInv, Pe!TypeOK, Pe!CriticalIsQuiet, DueAPeriodLater, Pe!critVars
  <2>7. CASE Pe!TaskReturns
    <3> DEFINE t == Pe!Rescheduled(tasks[i])
    <3>1. tasks \in Seq(Pe!Task) /\ i \in DOMAIN tasks /\ tasks[i] \in Pe!Task
      BY <2>7 DEF Pe!TaskReturns, PerInv, Pe!TypeOK
    <3>2. current_ticks \in Nat /\ tasks[i].period \in Nat
      BY <3>1 DEF Pe!Task, PerInv, Pe!TypeOK
    <3>3. /\ t.period = tasks[i].period /\ t.spent = tasks[i].spent
          /\ t.next = current_ticks + tasks[i].period
      BY <3>1 DEF Pe!Rescheduled, Pe!Task
    <3>4. t \in Pe!Task
      <4>1. current_ticks + tasks[i].period \in Nat
        BY <3>2
      <4>2. \A n \in Nat : [tasks[i] EXCEPT !.next = n] \in Pe!Task
        BY <3>1, Zenon DEF Pe!Task
      <4> QED
        BY <4>1, <4>2 DEF Pe!Rescheduled
    <3>5. tasks' = [tasks EXCEPT ![i] = t] /\ i' = i + 1 /\ pass' = "loop"
      BY <2>7 DEF Pe!TaskReturns
    <3>6. /\ tasks' \in Seq(Pe!Task) /\ Len(tasks') = Len(tasks) /\ DOMAIN tasks' = DOMAIN tasks
          /\ tasks'[i] = t
          /\ \A j \in DOMAIN tasks : j # i => tasks'[j] = tasks[j]
      <4> HIDE DEF t
      <4> QED BY <3>1, <3>4, <3>5, TaskReplaced
    <3>7. Pe!TypeOK' /\ Pe!CriticalIsQuiet'
      BY <2>7, <3>6 DEF Pe!TaskReturns, PerInv, Pe!TypeOK, Pe!CriticalIsQuiet, Pe!critVars
    <3> HIDE DEF t
    <3>8. DueAPeriodLater'
      <4> SUFFICES ASSUME NEW k \in DOMAIN tasks
                   PROVE  /\ tasks'[k].spent <= system_ticks
                          /\ tasks'[k].next >= tasks'[k].spent + tasks'[k].period
        BY <2>7, <3>5, <3>6 DEF DueAPeriodLater, PerInv, Pe!TaskReturns
      <4>1. CASE k = i
        <5>1. tasks[i].spent <= current_ticks /\ tasks[i].spent <= system_ticks
          BY <2>7, <3>1 DEF Pe!TaskReturns, PerInv, DueAPeriodLater
        <5>2. tasks[i].spent \in Nat
          BY <3>1 DEF Pe!Task
        <5> QED
          BY <4>1, <5>1, <5>2, <3>2, <3>3, <3>6
      <4>2. CASE k # i
        BY <4>2, <3>6 DEF PerInv, DueAPeriodLater
      <4> QED
        BY <4>1, <4>2
    <3> QED
      BY <3>7, <3>8 DEF PerInv
  <2>8. CASE Pe!EnterCritical
    <3> critical_section_count' \in Nat
      BY <2>8 DEF Pe!EnterCritical, PerInv, Pe!TypeOK
    <3>1. Pe!TypeOK' /\ DueAPeriodLater'
      BY <2>8 DEF Pe!EnterCritical, PerInv, Pe!TypeOK, DueAPeriodLater, Pe!passVars
    <3>2. interrupts' = FALSE /\ critical_section_count' # 0
      BY <2>8 DEF Pe!EnterCritical, PerInv, Pe!TypeOK
    <3> QED
      BY <3>1, <3>2 DEF PerInv, Pe!CriticalIsQuiet
  <2>9. CASE Pe!ExitCritical
    <3>1. critical_section_count' \in Nat
      BY <2>9 DEF Pe!ExitCritical, PerInv, Pe!TypeOK
    <3>2. Pe!TypeOK' /\ DueAPeriodLater'
      BY <2>9, <3>1 DEF Pe!ExitCritical, PerInv, Pe!TypeOK, DueAPeriodLater, Pe!passVars
    <3>3. ~interrupts /\ (critical_section_count' = 0 <=> critical_section_count = 1)
      BY <2>9 DEF Pe!ExitCritical, PerInv, Pe!TypeOK, Pe!CriticalIsQuiet
    <3>4. Pe!CriticalIsQuiet'
      BY <2>9, <3>3 DEF Pe!ExitCritical, Pe!CriticalIsQuiet
    <3> QED
      BY <3>2, <3>4 DEF PerInv
  <2>10. CASE \E us \in Microseconds : Pe!Delay(us)
    <3> PICK us \in Microseconds : Pe!Delay(us)
      BY <2>10
    <3>1. wake' \in Nat
      <4>1. us \in Nat /\ WORD \in Nat \ {0} /\ system_ticks \in Nat
        BY DEF PerInv, Pe!TypeOK
      <4>2. (us * 1000) % WORD \in Nat
        BY <4>1
      <4>3. Pe!DelayTicks(us) \in Nat
        BY <4>2 DEF Pe!DelayTicks
      <4> QED
        BY <4>1, <4>3 DEF Pe!Delay
    <3> QED
      BY <3>1 DEF Pe!Delay, PerInv, Pe!TypeOK, Pe!CriticalIsQuiet, DueAPeriodLater, Pe!critVars
  <2>11. CASE Pe!DelayOver
    BY <2>11 DEF Pe!DelayOver, PerInv, Pe!TypeOK, Pe!CriticalIsQuiet, DueAPeriodLater, Pe!critVars
  <2>12. CASE UNCHANGED Pe!perVars
    BY <2>12 DEF Pe!perVars, Pe!passVars, Pe!critVars, PerInv, Pe!TypeOK, Pe!CriticalIsQuiet,
                 DueAPeriodLater
  <2> QED
    BY <2>1, <2>2, <2>3, <2>4, <2>5, <2>6, <2>7, <2>8, <2>9, <2>10, <2>11, <2>12 DEF Pe!Next
<1> QED
  BY <1>1, <1>2, PTL DEF KernelSpec

(* Interrupts are off exactly while a critical section is open, for any     *)
(* nesting.                                                                 *)
THEOREM CriticalSections == KernelSpec => []Pe!CriticalIsQuiet
<1>1. PerInv => Pe!CriticalIsQuiet
  BY DEF PerInv
<1> QED
  BY <1>1, PeriodicInvariance, PTL

(* Whatever the tasks, their periods and their delays, and however late the *)
(* passes come: a task has not been run more often than its period allows   *)
(* in the ticks since it was registered.                                    *)
THEOREM RatesKept == KernelSpec => []RateKept
<1>1. PerInv => RateKept
  BY DEF PerInv, DueAPeriodLater, RateKept, Pe!RateKept
<1> QED
  BY <1>1, PeriodicInvariance, PTL
-----------------------------------------------------------------------------
(* The shell's line on its screen. *)
W == VGA_WIDTH
H == VGA_HEIGHT
Screens == [buf: [Con!Cells -> Printable], x: Con!Cols, y: Con!Rows]

(* Nothing stands at the cursor or behind it. *)
BlankBehind(s) == \A k \in Con!Cells : k >= Con!Place(s) => s.buf[k] = Con!Space

BlankScreens == {s \in Screens : BlankBehind(s)}

(* The line stands before the cursor, as far as it has not scrolled away. *)
Shows(s, line) ==
    \A k \in DOMAIN line :
        LET cell == Con!Place(s) - Len(line) + k - 1
        IN  cell >= 0 => s.buf[cell] = line[k]

(* What vga_putchar does at the edges, behind Put, and what it comes to:    *)
(* everything, the cursor too, is where it was or one row higher.           *)
Settled(u) ==
    LET w == Con!Wrapped(u)
    IN  IF w.y >= H THEN [Con!Scroll(w) EXCEPT !.y = H - 1] ELSE w

Moved(u, t, d) ==
    /\ t \in Screens
    /\ Con!Place(t) = Con!Place(u) - d
    /\ \A k \in Con!Cells : t.buf[k] = IF k + d \in Con!Cells THEN u.buf[k + d] ELSE Con!Space

LEMMA ScreenSize ==
    /\ W \in Nat \ {0} /\ H \in Nat \ {0} /\ MAX_COMMAND_LENGTH \in Nat \ {0}
    /\ W * H \in Nat /\ Con!Space \in Printable
    /\ Con!Cells = 0 .. (W * H - 1) /\ Con!Cols = 0 .. (W - 1) /\ Con!Rows = 0 .. (H - 1)
<1>1. W \in Nat \ {0} /\ H \in Nat \ {0} /\ MAX_COMMAND_LENGTH \in Nat \ {0}
  BY KernelAssumption DEF Con!ConsoleAssumption, W, H
<1>2. W * H \in Nat
  BY <1>1
<1>3. Con!Space \in Printable
  BY KernelAssumption DEF Con!ConsoleAssumption, Con!Space
<1> QED
  BY <1>1, <1>2, <1>3 DEF Con!Cells, Con!Cols, Con!Rows, W, H

LEMMA RowFacts ==
    /\ (H - 1) * W = W * H - W
    /\ \A y \in Nat : y * W \in Nat /\ (y + 1) * W = y * W + W
    /\ \A y \in 0 .. (H - 1) : y * W + W <= W * H
<1>1. W \in Nat \ {0} /\ H \in Nat \ {0}
  BY ScreenSize
<1>2. (H - 1) * W = W * H - W
  BY <1>1
<1>3. \A y \in Nat : y * W \in Nat /\ (y + 1) * W = y * W + W
  BY <1>1
<1>4. ASSUME NEW y \in 0 .. (H - 1) PROVE y * W + W <= W * H
  <2>1. (H - 1 - y) * W >= 0
    BY <1>1
  <2>2. y \in Int /\ W \in Int /\ H \in Int
    BY <1>1
  <2>3. (H - 1 - y) * W = W * H - W - y * W
    BY <2>2
  <2>4. y * W \in Int /\ W * H \in Int
    BY <2>2
  <2> QED
    BY <2>1, <2>2, <2>3, <2>4
<1> QED
  BY <1>2, <1>3, <1>4

LEMMA PlaceInside ==
    ASSUME NEW s \in Screens
    PROVE  Con!Place(s) \in Con!Cells /\ Con!Place(s) = s.y * W + s.x
<1>1. s.x \in 0 .. (W - 1) /\ s.y \in 0 .. (H - 1)
  BY ScreenSize DEF Screens
<1>2. s.y * W \in Nat /\ s.y * W + W <= W * H
  BY <1>1, RowFacts
<1> QED
  BY <1>1, <1>2, ScreenSize DEF Con!Place, W

LEMMA SettleFacts ==
    ASSUME NEW u \in [buf: [Con!Cells -> Printable], x: 0 .. W, y: 0 .. H],
           u.y = H => u.x = 0
    PROVE  \E d \in {0, W} : Moved(u, Settled(u), d)
<1> DEFINE w == Con!Wrapped(u)
           t == Settled(u)
<1>0. /\ W \in Nat \ {0} /\ H \in Nat \ {0} /\ u.x \in 0 .. W /\ u.y \in 0 .. H
      /\ u.buf \in [Con!Cells -> Printable] /\ u.y * W \in Nat /\ (u.y + 1) * W = u.y * W + W
  BY ScreenSize, RowFacts
<1>1. /\ w.buf = u.buf /\ w.x \in 0 .. (W - 1) /\ w.y \in 0 .. H
      /\ w.y = H => w.x = 0
      /\ w.y * W + w.x = u.y * W + u.x
      /\ w = [buf |-> w.buf, x |-> w.x, y |-> w.y]
  <2>1. CASE u.x = W
    <3>1. w = [u EXCEPT !.x = 0, !.y = u.y + 1]
      BY <1>0, <2>1 DEF Con!Wrapped, W
    <3>2. w = [buf |-> u.buf, x |-> 0, y |-> u.y + 1]
      BY <3>1
    <3>3. w.buf = u.buf /\ w.x = 0 /\ w.y = u.y + 1
      BY <3>2
    <3> HIDE DEF w
    <3>4. (u.y + 1) * W + 0 = u.y * W + W /\ u.y + 1 \in 0 .. H
      BY <1>0, <2>1
    <3> QED
      BY <1>0, <2>1, <3>2, <3>3, <3>4
  <2>2. CASE u.x # W
    <3>1. w = u
      BY <1>0, <2>2 DEF Con!Wrapped, W
    <3> HIDE DEF w
    <3>2. u = [buf |-> u.buf, x |-> u.x, y |-> u.y]
      OBVIOUS
    <3> QED
      BY <1>0, <2>2, <3>1, <3>2
  <2> QED
    BY <2>1, <2>2
<1>2. Con!Place(u) = u.y * W + u.x
  BY DEF Con!Place, W
<1>3. t = IF w.y >= H THEN [Con!Scroll(w) EXCEPT !.y = H - 1] ELSE w
  BY DEF Settled
<1> HIDE DEF w, t
<1>4. CASE w.y # H
  <2>1. t = w
    BY <1>0, <1>1, <1>3, <1>4
  <2>2. t \in Screens
    <3>1. w.x \in Con!Cols /\ w.y \in Con!Rows /\ w.buf \in [Con!Cells -> Printable]
      <4>1. w.x \in 0 .. (W - 1) /\ w.y \in 0 .. (H - 1)
        BY <1>0, <1>1, <1>4
      <4>2. w.buf \in [Con!Cells -> Printable]
        BY <1>0, <1>1
      <4> QED
        BY <4>1, <4>2, ScreenSize
    <3>2. t = [buf |-> w.buf, x |-> w.x, y |-> w.y]
      BY <1>1, <2>1
    <3> QED
      BY <3>1, <3>2 DEF Screens
  <2>3. Con!Place(t) = Con!Place(u) - 0
    <3>1. Con!Place(t) = w.y * W + w.x
      BY <2>1 DEF Con!Place, W
    <3>2. Con!Place(t) = Con!Place(u)
      BY <1>1, <1>2, <3>1
    <3>3. Con!Place(u) \in Int
      BY <1>0, <1>2
    <3> QED
      BY <3>2, <3>3
  <2>4. \A k \in Con!Cells : t.buf[k] = IF k + 0 \in Con!Cells THEN u.buf[k + 0] ELSE Con!Space
    <3>1. t.buf = u.buf
      BY <1>1, <2>1
    <3>2. \A k \in Con!Cells : k + 0 = k
      BY ScreenSize
    <3> QED
      BY <3>1, <3>2
  <2>5. Moved(u, t, 0)
    BY <2>2, <2>3, <2>4 DEF Moved
  <2> QED
    BY <2>5 DEF t
<1>5. CASE w.y = H
  <2> DEFINE b == [k \in Con!Cells |-> IF k + W \in Con!Cells THEN u.buf[k + W] ELSE Con!Space]
  <2>1. Con!Scroll(w) = [w EXCEPT !.buf = b]
    BY <1>1 DEF Con!Scroll, W
  <2>2. b \in [Con!Cells -> Printable]
    BY <1>0, ScreenSize
  <2>3. \A k \in Con!Cells : b[k] = IF k + W \in Con!Cells THEN u.buf[k + W] ELSE Con!Space
    OBVIOUS
  <2> HIDE DEF b
  <2>4. t = [Con!Scroll(w) EXCEPT !.y = H - 1]
    BY <1>0, <1>3, <1>5
  <2>5. t = [buf |-> b, x |-> 0, y |-> H - 1]
    BY <1>1, <1>5, <2>1, <2>4
  <2>6. t.buf = b /\ t.x = 0 /\ t.y = H - 1
    BY <2>5
  <2>7. t \in Screens
    BY <1>0, <2>2, <2>5, ScreenSize DEF Screens
  <2>8. Con!Place(t) = Con!Place(u) - W
    <3>1. u.y * W + u.x = H * W
      BY <1>0, <1>1, <1>5
    <3>2. (H - 1) * W = H * W - W
      BY <1>0
    <3>3. Con!Place(t) = (H - 1) * W
      BY <1>0, <2>6 DEF Con!Place, W
    <3> QED
      BY <1>2, <3>1, <3>2, <3>3
  <2>9. Moved(u, t, W)
    BY <2>3, <2>6, <2>7, <2>8 DEF Moved
  <2> QED
    BY <2>9 DEF t
<1> QED
  BY <1>4, <1>5

(* Rows that move up move what is blank with them. *)
LEMMA MovedBlank ==
    ASSUME NEW u, NEW t, NEW d \in {0, W}, Moved(u, t, d), BlankBehind(u),
           Con!Place(u) \in Int
    PROVE  t \in BlankScreens
<1>1. ASSUME NEW k \in Con!Cells, k >= Con!Place(t) PROVE t.buf[k] = Con!Space
  <2>1. k + d >= Con!Place(u)
    BY <1>1, ScreenSize DEF Moved
  <2> QED
    BY <2>1 DEF Moved, BlankBehind
<1> QED
  BY <1>1 DEF Moved, BlankScreens, BlankBehind

LEMMA PlainPut ==
    ASSUME NEW s \in Screens, NEW ch \in Printable
    PROVE  \E u : /\ u \in [buf: [Con!Cells -> Printable], x: 0 .. W, y: 0 .. H]
                  /\ u.y # H
                  /\ Con!Place(u) = Con!Place(s) + 1
                  /\ Con!PutChar(s, ch) = Settled(u)
                  /\ \A k \in Con!Cells : u.buf[k] = IF k = Con!Place(s) THEN ch ELSE s.buf[k]
<1> DEFINE b == [s.buf EXCEPT ![Con!Place(s)] = ch]
           u == [buf |-> b, x |-> s.x + 1, y |-> s.y]
<1>1. /\ s.buf \in [Con!Cells -> Printable] /\ s.x \in 0 .. (W - 1) /\ s.y \in 0 .. (H - 1)
      /\ W \in Nat \ {0} /\ H \in Nat \ {0} /\ s.y * W \in Nat
  BY ScreenSize, RowFacts DEF Screens
<1>2. Con!Place(s) \in Con!Cells /\ Con!Place(s) = s.y * W + s.x
  BY PlaceInside
<1>3. ch \notin {"\n", "\r", "\t", "BS"}
  BY KernelAssumption DEF Con!ConsoleAssumption
<1>4. Con!Put(s, ch) = [s EXCEPT !.x = s.x + 1, !.buf = b]
  BY <1>3 DEF Con!Put
<1>5. b \in [Con!Cells -> Printable]
  BY <1>1, <1>2
<1>6. \A k \in Con!Cells : b[k] = IF k = Con!Place(s) THEN ch ELSE s.buf[k]
  BY <1>1, <1>2
<1> HIDE DEF b
<1>7. Con!Put(s, ch) = u
  BY <1>4 DEF Screens
<1>8. u \in [buf: [Con!Cells -> Printable], x: 0 .. W, y: 0 .. H] /\ u.y # H
  BY <1>1, <1>5
<1>9. Con!Place(u) = Con!Place(s) + 1
  BY <1>1, <1>2 DEF Con!Place, W
<1>10. Con!PutChar(s, ch) = Settled(u)
  BY <1>7, Zenon DEF Con!PutChar, Settled, H
<1>11. \A k \in Con!Cells : u.buf[k] = IF k = Con!Place(s) THEN ch ELSE s.buf[k]
  BY <1>6
<1> QED
  BY <1>8, <1>9, <1>10, <1>11, Zenon

(* A character that is typed or printed stands at the end of the line.      *)
LEMMA TypedShows ==
    ASSUME NEW s \in BlankScreens, NEW ch \in Printable,
           NEW line \in Seq(Printable), Shows(s, line)
    PROVE  /\ Con!PutChar(s, ch) \in BlankScreens
           /\ Shows(Con!PutChar(s, ch), Append(line, ch))
<1> DEFINE p == Con!Place(s)
           n == Len(line)
<1>1. s \in Screens /\ BlankBehind(s)
  BY DEF BlankScreens
<1>2. p \in Con!Cells /\ p \in Nat /\ n \in Nat /\ W \in Nat
  BY <1>1, PlaceInside, ScreenSize
<1>3. PICK u : /\ u \in [buf: [Con!Cells -> Printable], x: 0 .. W, y: 0 .. H]
               /\ u.y # H
               /\ Con!Place(u) = p + 1
               /\ Con!PutChar(s, ch) = Settled(u)
               /\ \A k \in Con!Cells : u.buf[k] = IF k = p THEN ch ELSE s.buf[k]
  BY <1>1, PlainPut
<1>4. PICK d \in {0, W} : Moved(u, Settled(u), d)
  BY <1>3, SettleFacts
<1> DEFINE t == Con!PutChar(s, ch)
<1>5. Moved(u, t, d) /\ d \in Nat
  BY <1>2, <1>3, <1>4
<1> HIDE DEF p, t
<1>6. BlankBehind(u)
  <2>1. \A k \in Con!Cells : k >= p + 1 => k >= p /\ k # p
    BY <1>2, ScreenSize
  <2> QED
    BY <1>1, <1>3, <2>1 DEF BlankBehind, p
<1>7. t \in BlankScreens
  BY <1>2, <1>3, <1>5, <1>6, MovedBlank
<1>8. Shows(t, Append(line, ch))
  <2>1. Con!Place(t) = p + 1 - d
    <3>1. Con!Place(t) = Con!Place(u) - d
      BY <1>5, Zenon DEF Moved
    <3>2. Con!Place(u) = p + 1
      BY <1>3, Zenon
    <3> QED
      BY <1>2, <1>5, <3>1, <3>2
  <2>2. Len(Append(line, ch)) = n + 1 /\ DOMAIN Append(line, ch) = 1 .. (n + 1)
    OBVIOUS
  <2> HIDE DEF n
  <2> SUFFICES ASSUME NEW k \in DOMAIN Append(line, ch),
                      Con!Place(t) - Len(Append(line, ch)) + k - 1 >= 0
               PROVE  t.buf[Con!Place(t) - Len(Append(line, ch)) + k - 1] = Append(line, ch)[k]
    BY DEF Shows
  <2> DEFINE cell == p + 1 - d - (n + 1) + k - 1
  <2> k \in 1 .. (n + 1) /\ Con!Place(t) - Len(Append(line, ch)) + k - 1 = cell /\ cell >= 0
    BY <1>2, <1>5, <2>1, <2>2
  <2>3. cell \in Nat /\ cell + d = p - n + k - 1 /\ cell <= cell + d /\ cell + d <= p
    BY <1>2, <1>5
  <2>4. cell \in Con!Cells /\ cell + d \in Con!Cells
    BY <1>2, <1>5, <2>3, ScreenSize
  <2>5. t.buf[cell] = IF cell + d = p THEN ch ELSE s.buf[cell + d]
    BY <1>3, <1>5, <2>4 DEF Moved
  <2>6. CASE k = n + 1
    <3>1. cell + d = p
      BY <1>2, <2>3, <2>6
    <3> QED
      BY <2>5, <2>6, <3>1 DEF n
  <2>7. CASE k # n + 1
    <3>1. k \in 1 .. n
      BY <1>2, <2>7
    <3>2. cell + d = p - n + k - 1 /\ cell + d >= 0 /\ cell + d # p
      BY <1>2, <1>5, <2>3, <3>1
    <3>3. s.buf[p - n + k - 1] = line[k]
      BY <3>1, <3>2 DEF Shows, p, n
    <3>4. Append(line, ch)[k] = line[k]
      BY <3>1 DEF n
    <3> QED
      BY <2>5, <3>2, <3>3, <3>4
  <2> QED
    BY <2>6, <2>7
<1> QED
  BY <1>7, <1>8 DEF t

LEMMA WrappedIs ==
    ASSUME NEW b, NEW x \in Nat, NEW y \in Nat, x >= W
    PROVE  Con!Wrapped([buf |-> b, x |-> x, y |-> y]) = [buf |-> b, x |-> 0, y |-> y + 1]
  BY DEF Con!Wrapped, W

(* A new line or a tab leaves what is behind the cursor blank. *)
LEMMA ControlKeeps ==
    ASSUME NEW s \in BlankScreens, NEW ch \in {"\n", "\t"}
    PROVE  Con!PutChar(s, ch) \in BlankScreens
<1>1. /\ s \in Screens /\ BlankBehind(s)
      /\ s.buf \in [Con!Cells -> Printable] /\ s.x \in 0 .. (W - 1) /\ s.y \in 0 .. (H - 1)
      /\ W \in Nat \ {0} /\ H \in Nat \ {0}
  BY ScreenSize DEF BlankScreens, Screens
<1>2. s.y * W \in Nat /\ (s.y + 1) * W = s.y * W + W
  BY <1>1, RowFacts
<1>3. Con!Place(s) = s.y * W + s.x
  BY <1>1, PlaceInside
<1>4. ASSUME NEW u \in [buf: [Con!Cells -> Printable], x: 0 .. W, y: 0 .. H],
             u.y = H => u.x = 0, u.buf = s.buf, u.y * W + u.x >= s.y * W + s.x,
             Con!PutChar(s, ch) = Settled(u), u.y * W + u.x \in Int
      PROVE  Con!PutChar(s, ch) \in BlankScreens
  <2>1. PICK d \in {0, W} : Moved(u, Settled(u), d)
    BY <1>4, SettleFacts
  <2>2. Con!Place(u) = u.y * W + u.x
    BY DEF Con!Place, W
  <2>3. \A k \in Con!Cells : k >= Con!Place(u) => k >= Con!Place(s)
    BY <1>1, <1>2, <1>3, <1>4, <2>2, ScreenSize
  <2>4. BlankBehind(u)
    BY <1>1, <1>4, <2>3 DEF BlankBehind
  <2> QED
    BY <1>4, <2>1, <2>2, <2>4, MovedBlank
<1>5. CASE ch = "\n"
  <2> DEFINE u == [buf |-> s.buf, x |-> 0, y |-> s.y + 1]
  <2>1. Con!Put(s, ch) = u
    <3>1. Con!Put(s, ch) = [s EXCEPT !.x = 0, !.y = s.y + 1]
      BY <1>5 DEF Con!Put
    <3> QED
      BY <1>1, <3>1 DEF Screens
  <2>2. Con!PutChar(s, ch) = Settled(u)
    BY <2>1, Zenon DEF Con!PutChar, Settled, H
  <2>3. u \in [buf: [Con!Cells -> Printable], x: 0 .. W, y: 0 .. H]
    BY <1>1
  <2>4. u.y * W + u.x = s.y * W + W
    <3>1. u.y * W = s.y * W + W
      BY <1>2
    <3>2. u.x = 0 /\ s.y * W + W \in Nat
      BY <1>1, <1>2
    <3> QED
      BY <3>1, <3>2
  <2> QED
    BY <1>1, <1>2, <1>4, <2>2, <2>3, <2>4
<1>6. CASE ch = "\t"
  <2> DEFINE x == ((s.x + 8) \div 8) * 8
             v == [buf |-> s.buf, x |-> x, y |-> s.y]
  <2>1. Con!Put(s, ch) = v
    <3>1. Con!Put(s, ch) = [s EXCEPT !.x = x]
      BY <1>6 DEF Con!Put
    <3> QED
      BY <1>1, <3>1 DEF Screens
  <2>2. Con!PutChar(s, ch) = Settled(v)
    BY <2>1, Zenon DEF Con!PutChar, Settled, H
  <2>3. x \in Nat /\ x >= s.x
    BY <1>1
  <2> HIDE DEF x
  <2>4. CASE x <= W
    <3>1. v \in [buf: [Con!Cells -> Printable], x: 0 .. W, y: 0 .. H] /\ v.y # H
      BY <1>1, <2>3, <2>4
    <3>2. v.y * W + v.x >= s.y * W + s.x /\ v.y * W + v.x \in Int
      BY <1>1, <1>2, <2>3
    <3> QED
      BY <1>4, <2>2, <3>1, <3>2
  <2>5. CASE x > W
    <3> DEFINE u == [buf |-> s.buf, x |-> W, y |-> s.y]
    <3>1. Con!Wrapped(v) = [buf |-> s.buf, x |-> 0, y |-> s.y + 1]
      BY <1>1, <2>3, <2>5, WrappedIs
    <3>2. Con!Wrapped(u) = [buf |-> s.buf, x |-> 0, y |-> s.y + 1]
      BY <1>1, WrappedIs
    <3>3. Settled(v) = Settled(u)
      BY <3>1, <3>2, Zenon DEF Settled
    <3>4. u \in [buf: [Con!Cells -> Printable], x: 0 .. W, y: 0 .. H] /\ u.y # H
      BY <1>1
    <3>5. u.y * W + u.x >= s.y * W + s.x /\ u.y * W + u.x \in Int
      BY <1>1, <1>2
    <3> QED
      BY <1>4, <2>2, <3>3, <3>4, <3>5
  <2> QED
    BY <1>1, <2>3, <2>4, <2>5
<1> QED
  BY <1>5, <1>6

LEMMA TextKeeps ==
    ASSUME NEW s \in BlankScreens, NEW ch \in Con!Text
    PROVE  Con!PutChar(s, ch) \in BlankScreens
<1>1. CASE ch \in Printable
  <2>1. <<>> \in Seq(Printable) /\ Shows(s, <<>>)
    BY DEF Shows
  <2> QED
    BY <1>1, <2>1, TypedShows
<1>2. CASE ch \notin Printable
  BY <1>2, ControlKeeps DEF Con!Text
<1> QED
  BY <1>1, <1>2

(* vga_puts is vga_putchar of one character after the other. *)
LEMMA PutsTurns ==
    ASSUME NEW s \in BlankScreens, NEW text \in Seq(Con!Text)
    PROVE  \E f : /\ f[0] = s
                  /\ \A k \in 1 .. Len(text) : f[k] = Con!PutChar(f[k - 1], text[k])
                  /\ Con!Puts(s, text) = f[Len(text)]
  <1> DEFINE n == Len(text)
             S == BlankScreens
             F == [j \in 1 .. n |-> [a \in S |-> Con!PutChar(a, text[j])]]
             IsIter(h) == h = [z \in SUBSET DOMAIN text |->
                                 IF z = {} THEN s ELSE Con!PutChar(h[z \ {Max(z)}], text[Max(z)])]
             iter == CHOOSE h : IsIter(h)
  <1>1. n \in Nat /\ DOMAIN text = 1 .. n /\ \A j \in 1 .. n : text[j] \in Con!Text
    OBVIOUS
  <1>2. \A j \in 1 .. n, a \in S : Con!PutChar(a, text[j]) \in S
    BY <1>1, TextKeeps
  <1>3. F \in [1 .. n -> [S -> S]]
    <2> HIDE DEF S, n
    <2> QED
      BY <1>2
  <1>4. \A j \in 1 .. n, a \in S : F[j][a] = Con!PutChar(a, text[j])
    OBVIOUS
  <1> HIDE DEF F, S, n
  <1>5. PICK g : Folds(g, n, S, s, F)
    BY <1>1, <1>3, FoldExists DEF S
  <1>6. IsIter(g)
    <2>1. g \in [SUBSET (1 .. n) -> S]
      BY <1>5 DEF Folds
    <2>2. ASSUME NEW z \in SUBSET (1 .. n)
          PROVE  g[z] = IF z = {} THEN s ELSE Con!PutChar(g[z \ {Max(z)}], text[Max(z)])
      <3>1. CASE z = {}
        BY <3>1, <1>5 DEF Folds
      <3>2. CASE z # {}
        <4>1. Max(z) \in 1 .. n /\ z \ {Max(z)} \in SUBSET (1 .. n)
          BY <1>1, <3>2, GreatestElement
        <4>2. g[z \ {Max(z)}] \in S
          BY <2>1, <4>1
        <4>3. g[z] = F[Max(z)][g[z \ {Max(z)}]]
          BY <3>2, <1>5 DEF Folds
        <4> QED
          BY <1>4, <3>2, <4>1, <4>2, <4>3
      <3> QED
        BY <3>1, <3>2
    <2> QED
      BY <1>1, <2>1, <2>2
  <1>7. IsIter(iter)
    BY <1>6
  <1>8. Con!Puts(s, text) = iter[DOMAIN text]
    BY Zenon DEF Con!Puts, Con!FoldLeft, Con!MapThenFoldSet, Con!Max, Max
  <1> HIDE DEF iter
  <1> DEFINE f == [k \in 0 .. n |-> iter[1 .. k]]
  <1>9. f[0] = s
    <2>1. {} \in SUBSET DOMAIN text
      OBVIOUS
    <2>2. iter[{}] = s
      BY <1>7, <2>1
    <2> QED
      BY <1>1, <2>2, FoldIntervals
  <1>10. ASSUME NEW k \in 1 .. n PROVE f[k] = Con!PutChar(f[k - 1], text[k])
    <2>1. /\ 1 .. k \in SUBSET DOMAIN text /\ 1 .. k # {} /\ Max(1 .. k) = k
          /\ (1 .. k) \ {k} = 1 .. (k - 1) /\ k \in 0 .. n /\ k - 1 \in 0 .. n
      BY <1>1, FoldIntervals
    <2>2. iter[1 .. k] = Con!PutChar(iter[(1 .. k) \ {k}], text[k])
      BY <1>7, <2>1
    <2> QED
      BY <2>1, <2>2
  <1>11. Con!Puts(s, text) = f[n]
    BY <1>1, <1>8
  <1> QED
    BY <1>9, <1>10, <1>11 DEF n

LEMMA PutsKeeps ==
    ASSUME NEW s \in BlankScreens, NEW text \in Seq(Con!Text)
    PROVE  /\ Con!Puts(s, text) \in BlankScreens
           /\ text \in Seq(Printable) => Shows(Con!Puts(s, text), text)
<1> DEFINE n == Len(text)
<1>1. n \in Nat /\ \A j \in 1 .. n : text[j] \in Con!Text
  OBVIOUS
<1>2. PICK f : /\ f[0] = s
               /\ \A k \in 1 .. n : f[k] = Con!PutChar(f[k - 1], text[k])
               /\ Con!Puts(s, text) = f[n]
  BY PutsTurns
<1>3. f[n] \in BlankScreens
  <2> DEFINE T == {k \in Nat : k <= n => f[k] \in BlankScreens}
  <2>1. 0 \in T
    BY <1>2
  <2>2. ASSUME NEW k \in Nat, k \in T PROVE k + 1 \in T
    <3> SUFFICES ASSUME k + 1 <= n PROVE f[k + 1] \in BlankScreens
      OBVIOUS
    <3>1. k + 1 \in 1 .. n /\ (k + 1) - 1 = k /\ k <= n
      BY <1>1
    <3>2. /\ f[k] \in BlankScreens /\ text[k + 1] \in Con!Text
          /\ f[k + 1] = Con!PutChar(f[k], text[k + 1])
      BY <1>1, <1>2, <2>2, <3>1
    <3> QED
      BY <3>2, TextKeeps
  <2> HIDE DEF T
  <2>3. \A k \in Nat : k \in T
    BY <2>1, <2>2, SetInduction
  <2> QED
    BY <1>1, <2>3 DEF T
<1>4. ASSUME text \in Seq(Printable) PROVE Shows(f[n], text)
  <2> DEFINE Good(k) == f[k] \in BlankScreens /\ Shows(f[k], SubSeq(text, 1, k))
             T == {k \in Nat : k <= n => Good(k)}
  <2>1. 0 \in T
    <3>1. SubSeq(text, 1, 0) = <<>>
      OBVIOUS
    <3> QED
      BY <1>2, <3>1 DEF Shows
  <2>2. ASSUME NEW k \in Nat, k \in T PROVE k + 1 \in T
    <3> SUFFICES ASSUME k + 1 <= n PROVE Good(k + 1)
      OBVIOUS
    <3>1. k + 1 \in 1 .. n /\ (k + 1) - 1 = k /\ k <= n
      BY <1>1
    <3>2. Good(k) /\ text[k + 1] \in Printable /\ f[k + 1] = Con!PutChar(f[k], text[k + 1])
      BY <1>2, <1>4, <2>2, <3>1
    <3>3. /\ SubSeq(text, 1, k) \in Seq(Printable)
          /\ SubSeq(text, 1, k + 1) = Append(SubSeq(text, 1, k), text[k + 1])
      BY <1>4, <3>1
    <3> QED
      BY <3>2, <3>3, TypedShows
  <2> HIDE DEF T
  <2>3. \A k \in Nat : k \in T
    BY <2>1, <2>2, SetInduction
  <2>4. SubSeq(text, 1, n) = text
    BY <1>4
  <2>5. Good(n)
    BY <1>1, <2>3 DEF T
  <2> QED
    BY <2>4, <2>5
<1> QED
  BY <1>2, <1>3, <1>4

(* A backspace, other than at the start of a row, takes the last character  *)
(* of the line.                                                             *)
LEMMA BackspaceShows ==
    ASSUME NEW s \in BlankScreens
    PROVE  /\ Con!PutChar(s, "BS") \in BlankScreens
           /\ \A line \in Seq(Printable), ch \in Printable :
                  s.x > 0 /\ Shows(s, Append(line, ch)) => Shows(Con!PutChar(s, "BS"), line)
<1>1. /\ s \in Screens /\ BlankBehind(s)
      /\ s.buf \in [Con!Cells -> Printable] /\ s.x \in 0 .. (W - 1) /\ s.y \in 0 .. (H - 1)
      /\ W \in Nat \ {0} /\ H \in Nat \ {0}
  BY ScreenSize DEF BlankScreens, Screens
<1>2. Con!Place(s) \in Con!Cells /\ Con!Place(s) = s.y * W + s.x /\ s.y * W \in Nat
  BY <1>1, PlaceInside, RowFacts
<1> DEFINE p == Con!Place(s)
           b == [s.buf EXCEPT ![p - 1] = Con!Space]
           u == IF s.x > 0 THEN [buf |-> b, x |-> s.x - 1, y |-> s.y] ELSE s
<1>3. Con!Put(s, "BS") = u
  <2>1. "BS" \notin {"\n", "\r", "\t"}
    OBVIOUS
  <2>2. Con!Put(s, "BS") = IF s.x > 0 THEN [s EXCEPT !.x = s.x - 1, !.buf = b] ELSE s
    BY <2>1 DEF Con!Put
  <2> HIDE DEF b
  <2> QED
    BY <1>1, <2>2 DEF Screens
<1>4. Con!PutChar(s, "BS") = Settled(u)
  BY <1>3, Zenon DEF Con!PutChar, Settled, H
<1>5. /\ b \in [Con!Cells -> Printable]
      /\ \A k \in Con!Cells : b[k] = IF k = p - 1 THEN Con!Space ELSE s.buf[k]
  BY <1>1, <1>2, ScreenSize
<1> HIDE DEF b
<1>6. u \in Screens /\ u.x < W /\ u.y < H
  <2>1. CASE s.x > 0
    BY <1>1, <1>5, <2>1, ScreenSize DEF Screens
  <2>2. CASE ~(s.x > 0)
    BY <1>1, <2>2
  <2> QED
    BY <2>1, <2>2
<1>7. Settled(u) = u
  BY <1>1, <1>6, ScreenSize DEF Settled, Con!Wrapped, Screens, W
<1>8. u.buf = (IF s.x > 0 THEN b ELSE s.buf) /\ Con!Place(u) = IF s.x > 0 THEN p - 1 ELSE p
  <2>1. CASE s.x > 0
    BY <1>1, <1>2, <2>1 DEF Con!Place, W
  <2>2. CASE ~(s.x > 0)
    BY <2>2
  <2> QED
    BY <2>1, <2>2
<1> HIDE DEF u, p
<1>9. BlankBehind(u)
  <2> SUFFICES ASSUME NEW k \in Con!Cells, k >= Con!Place(u) PROVE u.buf[k] = Con!Space
    BY DEF BlankBehind
  <2>1. p \in Int /\ k \in Int
    BY <1>2, ScreenSize DEF p
  <2>2. (s.x > 0 /\ k = p - 1) \/ k >= p
    BY <1>1, <1>8, <2>1
  <2>3. k >= p => s.buf[k] = Con!Space /\ k # p - 1
    BY <1>1, <2>1 DEF BlankBehind, p
  <2> QED
    BY <1>5, <1>8, <2>2, <2>3
<1>10. ASSUME NEW line \in Seq(Printable), NEW ch \in Printable, s.x > 0,
              Shows(s, Append(line, ch))
       PROVE  Shows(u, line)
  <2> SUFFICES ASSUME NEW k \in DOMAIN line, Con!Place(u) - Len(line) + k - 1 >= 0
               PROVE  u.buf[Con!Place(u) - Len(line) + k - 1] = line[k]
    BY DEF Shows
  <2> DEFINE cell == Con!Place(u) - Len(line) + k - 1
             longer == Append(line, ch)
  <2>1. k \in 1 .. Len(line) /\ Len(line) \in Nat /\ p \in Con!Cells /\ p \in Nat
    BY <1>2, ScreenSize DEF p
  <2>2. Con!Place(u) = p - 1 /\ u.buf = b
    BY <1>8, <1>10
  <2>3. k \in DOMAIN longer /\ Len(longer) = Len(line) + 1 /\ longer[k] = line[k]
    BY <2>1
  <2>4. cell = p - Len(longer) + k - 1 /\ cell >= 0 /\ cell < p - 1
    BY <2>1, <2>2, <2>3
  <2>5. s.buf[cell] = longer[k]
    <3>1. Shows(s, longer)
      BY <1>10
    <3> HIDE DEF longer, cell
    <3>2. p - Len(longer) + k - 1 >= 0 => s.buf[p - Len(longer) + k - 1] = longer[k]
      BY <2>3, <3>1, Zenon DEF Shows, p
    <3> QED
      BY <2>4, <3>2
  <2>6. cell \in Con!Cells /\ cell # p - 1
    BY <2>1, <2>4, ScreenSize
  <2> QED
    BY <1>5, <2>2, <2>3, <2>5, <2>6
<1> QED
  BY <1>4, <1>6, <1>7, <1>9, <1>10 DEF BlankScreens

(* What a command prints leaves the cursor at the end of what is shown.     *)
LEMMA ExecutedKeeps ==
    ASSUME NEW s \in BlankScreens, NEW line \in Seq(Keys)
    PROVE  Con!Executed(s, line) \in BlankScreens
<1>1. Keys \subseteq Con!Text /\ "\n" \in Con!Text
  BY KernelAssumption DEF Con!ConsoleAssumption, Con!Text
<1>2. Con!Cleared \in BlankScreens
  <2>1. Con!Cleared \in Screens
    BY ScreenSize DEF Con!Cleared, Screens
  <2>2. BlankBehind(Con!Cleared)
    BY DEF Con!Cleared, BlankBehind
  <2> QED
    BY <2>1, <2>2 DEF BlankScreens
<1>3. ASSUME NEW l \in Seq(Keys)
      PROVE  /\ Con!Trimmed(l) \in Seq(Keys)
             /\ Con!FirstWord(l) \in Seq(Keys)
             /\ Con!Arguments(l) \in Seq(Keys)
  <2>1. ASSUME NEW I \in SUBSET (1 .. Len(l)), I # {}
        PROVE  Con!Min(I) \in 1 .. Len(l)
    <3>1. PICK m \in I : \A k \in I : m <= k
      BY <2>1, LeastElement
    <3>2. \E x \in I : \A k \in I : x <= k
      BY <3>1
    <3>3. Con!Min(I) \in I
      BY <3>2 DEF Con!Min
    <3> QED
      BY <3>3
  <2> DEFINE Notspace == {k \in 1 .. Len(l) : l[k] # Con!Space}
             Spaces == {k \in 1 .. Len(l) : l[k] = Con!Space}
  <2>2. ASSUME NEW a \in Nat, a >= 1 PROVE SubSeq(l, a, Len(l)) \in Seq(Keys)
    BY <2>2
  <2>3. Con!Trimmed(l) \in Seq(Keys)
    <3>1. CASE \A k \in DOMAIN l : l[k] = Con!Space
      <4>1. Con!Trimmed(l) = <<>>
        BY <3>1, Zenon DEF Con!Trimmed
      <4> QED
        BY <4>1
    <3>2. CASE ~(\A k \in DOMAIN l : l[k] = Con!Space)
      <4>1. Notspace # {}
        BY <3>2
      <4>2. Con!Trimmed(l) = SubSeq(l, Con!Min(Notspace), Len(l))
        BY <3>2, <4>1, Zenon DEF Con!Trimmed, Con!SelectInSeq
      <4>3. Con!Min(Notspace) \in 1 .. Len(l)
        BY <2>1, <4>1
      <4> HIDE DEF Notspace
      <4>4. Con!Min(Notspace) \in Nat /\ Con!Min(Notspace) >= 1
        BY <4>3
      <4> QED
        BY <2>2, <4>2, <4>4
    <3> QED
      BY <3>1, <3>2
  <2>4. Con!FirstWord(l) \in Seq(Keys)
    <3>1. CASE Spaces = {}
      <4>1. Con!FirstWord(l) = IF 0 = 0 THEN l ELSE SubSeq(l, 1, 0 - 1)
        BY <3>1, Zenon DEF Con!FirstWord, Con!SelectInSeq
      <4> QED
        BY <4>1
    <3>2. CASE Spaces # {}
      <4>1. Con!FirstWord(l) = IF Con!Min(Spaces) = 0 THEN l
                               ELSE SubSeq(l, 1, Con!Min(Spaces) - 1)
        BY <3>2, Zenon DEF Con!FirstWord, Con!SelectInSeq
      <4>2. Con!Min(Spaces) \in 1 .. Len(l)
        BY <2>1, <3>2
      <4> HIDE DEF Spaces
      <4>3. SubSeq(l, 1, Con!Min(Spaces) - 1) \in Seq(Keys)
        BY <4>2
      <4> QED
        BY <4>1, <4>3
    <3> QED
      BY <3>1, <3>2
  <2>5. Con!Arguments(l) \in Seq(Keys)
    <3>1. Len(Con!FirstWord(l)) + 2 \in Nat /\ Len(Con!FirstWord(l)) + 2 >= 1
      BY <2>4
    <3> QED
      BY <2>2, <3>1 DEF Con!Arguments
  <2> QED
    BY <2>3, <2>4, <2>5
<1> DEFINE words == Con!Trimmed(line)
           word == Con!FirstWord(words)
<1>4. words \in Seq(Keys) /\ Con!Arguments(words) \in Seq(Con!Text)
  <2>1. words \in Seq(Keys) /\ Con!Arguments(words) \in Seq(Keys)
    BY <1>3
  <2> HIDE DEF words
  <2> QED
    BY <1>1, <2>1
<1>5. Con!PutChar(Con!Puts(s, Con!Arguments(words)), "\n") \in BlankScreens
  BY <1>1, <1>4, PutsKeeps, TextKeeps
<1>6. ASSUME word \in DOMAIN Output PROVE Con!Puts(s, Output[word]) \in BlankScreens
  BY <1>6, KernelAssumption, PutsKeeps DEF Con!ConsoleAssumption
<1>7. Con!Puts(s, NotFound) \in BlankScreens
  BY KernelAssumption, PutsKeeps DEF Con!ConsoleAssumption
<1> HIDE DEF word, words
<1>8. \/ Con!Executed(s, line) \in {s, Con!Cleared, Con!Puts(s, NotFound),
                                    Con!PutChar(Con!Puts(s, Con!Arguments(words)), "\n")}
      \/ word \in DOMAIN Output /\ Con!Executed(s, line) = Con!Puts(s, Output[word])
  BY DEF Con!Executed, word, words
<1> QED
  BY <1>2, <1>5, <1>6, <1>7, <1>8

ConInv ==
    /\ screen \in BlankScreens
    /\ command_buffer \in Seq(Keys)
    /\ Len(command_buffer) < MAX_COMMAND_LENGTH
    /\ {halted, torn} \subseteq BOOLEAN
    /\ ~torn /\ ~halted => Shows(screen, Prompt \o command_buffer)

LEMMA PromptAndLine ==
    ASSUME NEW line \in Seq(Keys)
    PROVE  /\ line \in Seq(Printable)
           /\ Prompt \in Seq(Printable) /\ Prompt \in Seq(Con!Text)
           /\ Prompt \o line \in Seq(Printable)
           /\ Prompt \o <<>> = Prompt
           /\ \A ch \in Keys : Prompt \o Append(line, ch) = Append(Prompt \o line, ch)
<1>1. Keys \subseteq Printable /\ Prompt \in Seq(Printable)
  BY KernelAssumption DEF Con!ConsoleAssumption
<1>2. line \in Seq(Printable) /\ Prompt \in Seq(Con!Text)
  BY <1>1 DEF Con!Text
<1>3. \A ch \in Keys : Prompt \o Append(line, ch) = Append(Prompt \o line, ch)
  BY <1>1, <1>2
<1> QED
  BY <1>1, <1>2, <1>3

LEMMA ConsoleStart == Con!Init => ConInv
<1> SUFFICES ASSUME Con!Init PROVE ConInv
  OBVIOUS
<1>1. Con!Cleared \in BlankScreens
  <2>1. Con!Cleared \in Screens
    BY ScreenSize DEF Con!Cleared, Screens
  <2>2. BlankBehind(Con!Cleared)
    BY DEF Con!Cleared, BlankBehind
  <2> QED
    BY <2>1, <2>2 DEF BlankScreens
<1>2. <<>> \in Seq(Keys) /\ Len(<<>>) = 0 /\ 0 < MAX_COMMAND_LENGTH
  BY ScreenSize
<1>3. screen \in BlankScreens /\ Shows(screen, Prompt \o <<>>)
  BY <1>1, <1>2, PromptAndLine, PutsKeeps DEF Con!Init
<1> QED
  BY <1>2, <1>3 DEF Con!Init, ConInv

LEMMA EnterKeeps == ConInv /\ Con!Enter => ConInv'
<1> SUFFICES ASSUME ConInv, Con!Enter PROVE ConInv'
  OBVIOUS
<1> DEFINE s == Con!Executed(Con!PutChar(screen, "\n"), command_buffer)
<1>1. s \in BlankScreens
  <2>1. Con!PutChar(screen, "\n") \in BlankScreens
    BY ControlKeeps DEF ConInv
  <2> QED
    BY <2>1, ExecutedKeeps DEF ConInv
<1>2. <<>> \in Seq(Keys) /\ Len(<<>>) = 0 /\ 0 < MAX_COMMAND_LENGTH
  BY ScreenSize
<1>3. \/ screen' = s /\ halted' = TRUE
      \/ screen' = Con!Puts(s, Prompt) /\ halted' = FALSE
  BY DEF Con!Enter
<1>4. command_buffer' = <<>> /\ torn' = FALSE
  BY DEF Con!Enter
<1> HIDE DEF s
<1>5. Con!Puts(s, Prompt) \in BlankScreens /\ Shows(Con!Puts(s, Prompt), Prompt \o <<>>)
  BY <1>1, <1>2, PromptAndLine, PutsKeeps
<1> QED
  BY <1>1, <1>2, <1>3, <1>4, <1>5 DEF ConInv

LEMMA FrontAndLast ==
    ASSUME NEW q \in Seq(Keys), q # <<>>
    PROVE  \E line \in Seq(Keys), ch \in Keys :
               /\ q = Append(line, ch)
               /\ SubSeq(q, 1, Len(q) - 1) = line
               /\ Len(line) < Len(q)
<1> DEFINE n == Len(q)
           line == SubSeq(q, 1, n - 1)
<1>1. n \in Nat \ {0}
  OBVIOUS
<1>2. line \in Seq(Keys) /\ Len(line) = n - 1 /\ q[n] \in Keys
  <2>1. ASSUME NEW m \in 0 .. Len(q)
        PROVE  SubSeq(q, 1, m) \in Seq(Keys) /\ Len(SubSeq(q, 1, m)) = m
    OBVIOUS
  <2>2. n - 1 \in 0 .. Len(q)
    BY <1>1
  <2>3. line \in Seq(Keys) /\ Len(line) = n - 1
    BY <2>1, <2>2
  <2>4. n \in 1 .. Len(q)
    BY <1>1
  <2>5. q[n] \in Keys
    BY <2>4
  <2> QED
    BY <2>3, <2>5
<1>3. q = Append(line, q[n])
  BY <1>1, <1>2
<1>4. Len(line) < n
  BY <1>1, <1>2
<1> QED
  BY <1>2, <1>3, <1>4

LEMMA BackspaceKeeps == ConInv /\ Con!Backspace => ConInv'
<1> SUFFICES ASSUME ConInv, Con!Backspace PROVE ConInv'
  OBVIOUS
<1>1. /\ command_buffer \in Seq(Keys) /\ command_buffer # <<>> /\ halted' = halted
      /\ command_buffer' = Con!Front(command_buffer)
      /\ screen' = Con!PutChar(screen, "BS") /\ screen \in BlankScreens
      /\ torn' = (torn \/ screen.x = 0) /\ {halted, torn} \subseteq BOOLEAN
  BY DEF Con!Backspace, ConInv
<1>2. PICK line \in Seq(Keys), ch \in Keys :
          /\ command_buffer = Append(line, ch) /\ command_buffer' = line
          /\ Len(line) < MAX_COMMAND_LENGTH
  <2>1. Len(command_buffer) < MAX_COMMAND_LENGTH /\ MAX_COMMAND_LENGTH \in Nat
    BY ScreenSize DEF ConInv
  <2> QED
    BY <1>1, <2>1, FrontAndLast DEF Con!Front
<1>3. screen' \in BlankScreens
  BY <1>1, BackspaceShows
<1>4. ASSUME ~torn', ~halted' PROVE Shows(screen', Prompt \o line)
  <2>1. screen.x > 0 /\ ~torn /\ ~halted
    <3>1. screen.x \in 0 .. (W - 1) /\ W \in Nat
      <4>1. screen \in Screens
        BY <1>1 DEF BlankScreens
      <4>2. screen.x \in Con!Cols
        BY <4>1, Zenon DEF Screens
      <4> QED
        BY <4>2, ScreenSize
    <3>2. ~torn /\ ~halted /\ screen.x # 0
      BY <1>1, <1>4, Zenon
    <3> QED
      BY <3>1, <3>2
  <2>2. Shows(screen, Append(Prompt \o line, ch))
    BY <1>2, <2>1, PromptAndLine DEF ConInv
  <2>3. ch \in Printable /\ Prompt \o line \in Seq(Printable)
    BY PromptAndLine, KernelAssumption DEF Con!ConsoleAssumption
  <2> QED
    BY <1>1, <2>1, <2>2, <2>3, BackspaceShows
<1>5. {halted', torn'} \subseteq BOOLEAN
  BY <1>1
<1> QED
  BY <1>2, <1>3, <1>4, <1>5 DEF ConInv

LEMMA TypeKeeps == ASSUME ConInv, NEW ch \in Keys, Con!Type(ch) PROVE ConInv'
<1>1. /\ command_buffer \in Seq(Keys) /\ Len(command_buffer) < MAX_COMMAND_LENGTH - 1
      /\ command_buffer' = Append(command_buffer, ch)
      /\ screen' = Con!PutChar(screen, ch) /\ screen \in BlankScreens
      /\ UNCHANGED <<halted, torn>> /\ MAX_COMMAND_LENGTH \in Nat
  BY ScreenSize DEF Con!Type, ConInv
<1>2. command_buffer' \in Seq(Keys) /\ Len(command_buffer') < MAX_COMMAND_LENGTH
  BY <1>1
<1>3. ch \in Printable /\ ch \in Con!Text
  BY KernelAssumption DEF Con!ConsoleAssumption, Con!Text
<1>4. screen' \in BlankScreens
  BY <1>1, <1>3, TextKeeps
<1>5. ASSUME ~torn', ~halted' PROVE Shows(screen', Prompt \o command_buffer')
  <2>1. Shows(screen, Prompt \o command_buffer) /\ Prompt \o command_buffer \in Seq(Printable)
    BY <1>1, <1>5, PromptAndLine DEF ConInv
  <2>2. Prompt \o command_buffer' = Append(Prompt \o command_buffer, ch)
    BY <1>1, PromptAndLine
  <2> QED
    BY <1>1, <1>3, <2>1, <2>2, TypedShows
<1>6. {halted', torn'} \subseteq BOOLEAN
  BY <1>1 DEF ConInv
<1> QED
  BY <1>2, <1>4, <1>5, <1>6 DEF ConInv

LEMMA ConsoleStep == ConInv /\ [Con!Next]_(Con!conVars) => ConInv'
<1> SUFFICES ASSUME ConInv, [Con!Next]_(Con!conVars) PROVE ConInv'
  OBVIOUS
<1>1. CASE Con!Enter
  BY <1>1, EnterKeeps
<1>2. CASE Con!Backspace
  BY <1>2, BackspaceKeeps
<1>3. CASE \E ch \in Keys : Con!Type(ch)
  BY <1>3, TypeKeeps
<1>4. CASE UNCHANGED Con!conVars
  BY <1>4 DEF Con!conVars, ConInv, BlankScreens, BlankBehind, Shows
<1> QED
  BY <1>1, <1>2, <1>3, <1>4 DEF Con!Next

LEMMA ConsoleHolds == ConInv => Con!TypeOK /\ LineIsShown
<1> SUFFICES ASSUME ConInv PROVE Con!TypeOK /\ LineIsShown
  OBVIOUS
<1>1. Con!TypeOK
  BY DEF ConInv, Con!TypeOK, BlankScreens, Screens
<1>2. LineIsShown
  BY DEF ConInv, LineIsShown, Con!LineIsShown, Shows, BlankScreens, BlankBehind
<1> QED
  BY <1>1, <1>2

(* The screen and the cursor stay in their bounds, and the line is shown.   *)
THEOREM ConsoleInvariance == KernelSpec => []ConInv
<1>1. KernelStart => ConInv
  BY KernelStarts, ConsoleStart
<1>2. ConInv /\ [KernelNext]_kernelVars => ConInv'
  BY KernelTurns, ConsoleStep
<1> QED
  BY <1>1, <1>2, PTL DEF KernelSpec

(* The line that Enter would run is what the screen shows before the        *)
(* cursor, for screens of every size, any prompt and whatever commands      *)
(* print: vga_putchar keeps it through wrapping and scrolling.              *)
THEOREM LineShown == KernelSpec => []LineIsShown
<1>1. ConInv => LineIsShown
  BY ConsoleHolds
<1> QED
  BY <1>1, ConsoleInvariance, PTL
-----------------------------------------------------------------------------
(* Every part keeps its types, for all values of the constants: the ring's  *)
(* indices, the cursor, the pipes and the periodic tasks' index stay where  *)
(* the code's arrays are; and interrupts are off in a critical section      *)
(* only.                                                                    *)
THEOREM KernelTypes == KernelSpec => []KernelTypeOK
<1>1. KbInv /\ ConInv /\ InertInv /\ PerInv => KernelTypeOK
  BY ConsoleHolds DEF KernelTypeOK, KbInv, InertInv, PerInv
<1> QED
  BY <1>1, KeyboardInvariance, ConsoleInvariance, PipesInvariance, PeriodicInvariance, PTL
-----------------------------------------------------------------------------
(* Virtual memory.  Sound(m, X) says of the record m that a call works on, *)
(* and of the frames X that are used elsewhere, that each frame has one    *)
(* use: a page, a table, the free list, or X.  A frame that is allocated   *)
(* counts as X until it is entered.  FrameInv says it of every process,    *)
(* with the frames of the others as X.  Each loop is a fold, and is        *)
(* followed turn by turn.                                                  *)
(* Where the address space ends, and all tables there could be. *)
Limit == (LAST_PAGE + 1) * PAGE_SIZE
Nodes == {TableNode(u[1], u[2]) : u \in (1 .. 3) \X Pages}
Tables == UNION {[D -> Frame] : D \in SUBSET Nodes}

(* The records that the operators of VirtualMemory take and return. *)
Memory == [free: Seq(Frame), ref: [Frame -> 0 .. 1], vmas: Seq(Vma), tables: Tables,
           pte: [Pages -> Entry], failed: BOOLEAN]

(* The frames a space is made of. *)
Mine(m) ==
    {f \in Frame : \/ \E v \in Pages : m.pte[v].frame = f
                   \/ \E n \in DOMAIN m.tables : m.tables[n] = f}

(* X holds the frames that are used elsewhere.  Each frame has one use. *)
Sound(m, X) ==
    /\ m \in Memory
    /\ X \subseteq Frame
    /\ \A j, k \in DOMAIN m.free : m.free[j] = m.free[k] => j = k
    /\ \A v, w \in Pages : m.pte[v].frame = m.pte[w].frame => v = w \/ m.pte[v].frame = 0
    /\ \A n, k \in DOMAIN m.tables : m.tables[n] = m.tables[k] => n = k
    /\ \A v \in Pages, n \in DOMAIN m.tables : m.pte[v].frame # m.tables[n]
    /\ \A f \in Mine(m) : f \notin X /\ m.ref[f] = 1
    /\ \A f \in X : m.ref[f] = 1
    /\ \A j \in DOMAIN m.free : m.free[j] \notin Mine(m) /\ m.free[j] \notin X

(* What a step of a loop leaves of m, and the entries other than v's. *)
Like(a, m) == a.vmas = m.vmas /\ a.failed = m.failed

Elsewhere(a, m, v) == \A w \in Pages \ {v} : a.pte[w] = m.pte[w]

(* An entry without a frame is the empty one. *)
LEMMA EntryFacts ==
    /\ Unmapped \in Entry /\ Unmapped.frame = 0
    /\ \A e \in Entry : e.frame \in Frame \cup {0} /\ (e = Unmapped <=> e.frame = 0)
    /\ \A f \in Frame, write \in BOOLEAN :
           LET e == [frame |-> f, writable |-> write] IN e \in Entry /\ e.frame = f
    /\ 0 \notin Frame
<1>1. 0 \notin Frame
  BY DEF Frame
<1> QED
  BY <1>1 DEF Entry, Unmapped

(* A table that is entered is found, and the others stay. *)
LEMMA TablesFacts ==
    ASSUME NEW t \in Tables
    PROVE  /\ DOMAIN t \subseteq Nodes /\ t \in [DOMAIN t -> Frame]
           /\ \A n \in Nodes, f \in Frame :
                  LET u == Entered(t, n, f)
                  IN  /\ u \in Tables /\ DOMAIN u = DOMAIN t \cup {n}
                      /\ u[n] = f /\ \A k \in DOMAIN t \ {n} : u[k] = t[k]
<1>1. PICK D \in SUBSET Nodes : t \in [D -> Frame]
  BY DEF Tables
<1>2. ASSUME NEW n \in Nodes, NEW f \in Frame
      PROVE  LET u == Entered(t, n, f)
             IN  /\ u \in Tables /\ DOMAIN u = DOMAIN t \cup {n}
                 /\ u[n] = f /\ \A k \in DOMAIN t \ {n} : u[k] = t[k]
  <2> DEFINE u == Entered(t, n, f)
  <2>1. /\ DOMAIN u = DOMAIN t \cup {n}
        /\ u[n] = f /\ \A k \in DOMAIN t \ {n} : u[k] = t[k]
        /\ u \in [D \cup {n} -> Frame]
    BY <1>1 DEF Entered
  <2>2. u \in Tables
    BY <2>1 DEF Tables
  <2> QED
    BY <2>1, <2>2
<1> QED
  BY <1>1, <1>2

LEMMA NodeFacts ==
    ASSUME NEW l \in 1 .. 3, NEW v \in Pages
    PROVE  TableNode(l, v) \in Nodes
<1> DEFINE u == <<l, v>>
<1>1. u \in (1 .. 3) \X Pages /\ u[1] = l /\ u[2] = v
  OBVIOUS
<1> HIDE DEF u
<1> QED
  BY <1>1 DEF Nodes

(* What a memory is made of. *)
LEMMA MemoryFacts ==
    ASSUME NEW m \in Memory
    PROVE  /\ m.free \in Seq(Frame) /\ m.ref \in [Frame -> 0 .. 1] /\ m.vmas \in Seq(Vma)
           /\ m.tables \in Tables /\ m.pte \in [Pages -> Entry] /\ m.failed \in BOOLEAN
           /\ m = [free |-> m.free, ref |-> m.ref, vmas |-> m.vmas, tables |-> m.tables,
                   pte |-> m.pte, failed |-> m.failed]
BY DEF Memory

-----------------------------------------------------------------------------
(* A frame that is allocated is nobody's: it counts as used elsewhere      *)
(* until it is entered as a table or mapped as a page.                     *)
LEMMA AllocKeeps ==
    ASSUME NEW X, NEW m, Sound(m, X), m.free # <<>>
    PROVE  LET f == Head(m.free)
               a == AllocPage(m)
           IN  /\ f \in Frame /\ f \notin X /\ Sound(a, X \cup {f})
               /\ a.pte = m.pte /\ a.tables = m.tables
               /\ a.vmas = m.vmas /\ a.failed = m.failed
<1> DEFINE f == Head(m.free)
           a == AllocPage(m)
<1>1. /\ m \in Memory /\ m.free \in Seq(Frame) /\ m.ref \in [Frame -> 0 .. 1]
  BY MemoryFacts DEF Sound
<1>2. f \in Frame /\ f = m.free[1] /\ 1 \in DOMAIN m.free /\ Tail(m.free) \in Seq(Frame)
  BY <1>1
<1>3. /\ a.free = Tail(m.free) /\ a.ref = [m.ref EXCEPT ![f] = 1]
      /\ a.pte = m.pte /\ a.tables = m.tables /\ a.vmas = m.vmas /\ a.failed = m.failed
      /\ a \in Memory
  <2>1. [m.ref EXCEPT ![f] = 1] \in [Frame -> 0 .. 1]
    BY <1>1
  <2>2. a = [m EXCEPT !.free = Tail(m.free), !.ref = [m.ref EXCEPT ![f] = 1]]
    BY <1>1 DEF AllocPage, Memory
  <2> HIDE DEF a
  <2> QED
    BY <1>1, <1>2, <2>1, <2>2 DEF Memory
<1>4. \A j \in DOMAIN a.free : j + 1 \in DOMAIN m.free /\ a.free[j] = m.free[j + 1] /\ j + 1 # 1
  BY <1>1, <1>2, <1>3
<1>5. f \notin X /\ f \notin Mine(m) /\ X \subseteq Frame
  BY <1>2 DEF Sound
<1>6. Mine(a) = Mine(m)
  BY <1>3 DEF Mine
<1>7. \A g \in Frame : a.ref[g] = IF g = f THEN 1 ELSE m.ref[g]
  BY <1>1, <1>2, <1>3
<1>8. \A j, k \in DOMAIN a.free : a.free[j] = a.free[k] => j = k
  <2> TAKE j, k \in DOMAIN a.free
  <2> HAVE a.free[j] = a.free[k]
  <2>1. j + 1 = k + 1
    BY <1>4 DEF Sound
  <2>2. j \in Nat /\ k \in Nat
    BY <1>2, <1>3
  <2> QED
    BY <2>1, <2>2
<1>9. \A j \in DOMAIN a.free : a.free[j] \notin Mine(m) /\ a.free[j] \notin X /\ a.free[j] # f
  BY <1>2, <1>4 DEF Sound
<1>10. \A g \in Mine(m) : g \in Frame
  BY DEF Mine
<1> HIDE DEF a, f
<1>11. Sound(a, X \cup {f})
  BY <1>2, <1>3, <1>5, <1>6, <1>7, <1>8, <1>9, <1>10 DEF Sound
<1> QED
  BY <1>2, <1>3, <1>5, <1>11 DEF a, f

(* Such a frame becomes a table... *)
LEMMA TableKeeps ==
    ASSUME NEW X, NEW f \in Frame, f \notin X, NEW m, Sound(m, X \cup {f}),
           NEW n \in Nodes, n \notin DOMAIN m.tables
    PROVE  Sound([m EXCEPT !.tables = Entered(@, n, f)], X)
<1> DEFINE a == [m EXCEPT !.tables = Entered(@, n, f)]
<1>1. m \in Memory /\ m.tables \in Tables
  BY MemoryFacts DEF Sound
<1>2. /\ a.tables \in Tables /\ DOMAIN a.tables = DOMAIN m.tables \cup {n}
      /\ a.tables[n] = f /\ \A k \in DOMAIN m.tables : a.tables[k] = m.tables[k]
  <2>1. a.tables = Entered(m.tables, n, f)
    BY <1>1 DEF Memory
  <2> DEFINE t == m.tables
             u == Entered(t, n, f)
  <2>2. t \in Tables /\ n \notin DOMAIN t /\ a.tables = u
    BY <1>1, <2>1
  <2> HIDE DEF t, a
  <2>3. /\ u \in Tables /\ DOMAIN u = DOMAIN t \cup {n}
        /\ u[n] = f /\ \A k \in DOMAIN t \ {n} : u[k] = t[k]
    BY <2>2, TablesFacts
  <2> QED
    BY <2>2, <2>3 DEF t
<1>3. /\ a.free = m.free /\ a.ref = m.ref /\ a.pte = m.pte /\ a.vmas = m.vmas
      /\ a.failed = m.failed /\ a \in Memory
  BY <1>1, <1>2 DEF Memory
<1> HIDE DEF a
<1>4. Mine(a) = Mine(m) \cup {f}
  BY <1>2, <1>3 DEF Mine
<1>5. f \notin Mine(m) /\ m.ref[f] = 1 /\ X \subseteq Frame
  BY DEF Sound
<1>6. \A k \in DOMAIN m.tables : m.tables[k] # f
  BY <1>5 DEF Mine
<1>7. \A v \in Pages : m.pte[v].frame # f
  BY <1>5 DEF Mine
<1>8. \A j, k \in DOMAIN a.tables : a.tables[j] = a.tables[k] => j = k
  BY <1>2, <1>6 DEF Sound
<1>9. \A v \in Pages, k \in DOMAIN a.tables : a.pte[v].frame # a.tables[k]
  BY <1>2, <1>3, <1>7 DEF Sound
<1>10. Sound(a, X)
  BY <1>3, <1>4, <1>5, <1>8, <1>9 DEF Sound
<1> QED
  BY <1>10 DEF a

(* ... or the frame of a page that had none. *)
LEMMA EntryKeeps ==
    ASSUME NEW X, NEW f \in Frame, f \notin X, NEW m, Sound(m, X \cup {f}),
           NEW v \in Pages, NEW write \in BOOLEAN
    PROVE  LET a == [m EXCEPT !.pte[v] = [frame |-> f, writable |-> write]]
           IN  /\ Sound(a, X) /\ Like(a, m)
               /\ a.pte[v] # Unmapped /\ Elsewhere(a, m, v)
<1> DEFINE e == [frame |-> f, writable |-> write]
           a == [m EXCEPT !.pte[v] = e]
<1>1. m \in Memory /\ m.pte \in [Pages -> Entry]
  BY MemoryFacts DEF Sound
<1>2. e \in Entry /\ e.frame = f /\ e # Unmapped
  BY EntryFacts
<1> HIDE DEF e
<1>3. /\ a.free = m.free /\ a.ref = m.ref /\ a.tables = m.tables /\ a.vmas = m.vmas
      /\ a.failed = m.failed /\ a.pte = [m.pte EXCEPT ![v] = e] /\ a \in Memory
  BY <1>1, <1>2 DEF Memory
<1>4. a.pte[v] = e /\ \A w \in Pages \ {v} : a.pte[w] = m.pte[w]
  BY <1>1, <1>3
<1> HIDE DEF a
<1>5. Mine(a) \subseteq Mine(m) \cup {f}
  BY <1>2, <1>3, <1>4 DEF Mine
<1>6. f \notin Mine(m) /\ m.ref[f] = 1 /\ X \subseteq Frame
  BY DEF Sound
<1>7. \A k \in DOMAIN m.tables : m.tables[k] # f
  BY <1>6 DEF Mine
<1>8. \A w \in Pages : m.pte[w].frame # f
  BY <1>6 DEF Mine
<1>9. \A u, w \in Pages : a.pte[u].frame = a.pte[w].frame => u = w \/ a.pte[u].frame = 0
  BY <1>2, <1>4, <1>8 DEF Sound
<1>10. \A w \in Pages, k \in DOMAIN a.tables : a.pte[w].frame # a.tables[k]
  BY <1>2, <1>3, <1>4, <1>7 DEF Sound
<1>11. Sound(a, X)
  BY <1>3, <1>5, <1>6, <1>9, <1>10 DEF Sound
<1> QED
  BY <1>2, <1>3, <1>4, <1>11 DEF a, e, Like, Elsewhere

(* The frame of an entry that is cleared is nobody's... *)
LEMMA ClearKeeps ==
    ASSUME NEW X, NEW m, Sound(m, X), NEW v \in Pages, m.pte[v] # Unmapped
    PROVE  LET f == m.pte[v].frame
               a == [m EXCEPT !.pte[v] = Unmapped]
           IN  /\ f \in Frame /\ f \notin X /\ Sound(a, X \cup {f})
               /\ Like(a, m) /\ a.pte[v] = Unmapped /\ Elsewhere(a, m, v)
<1> DEFINE f == m.pte[v].frame
           a == [m EXCEPT !.pte[v] = Unmapped]
<1>1. m \in Memory /\ m.pte \in [Pages -> Entry]
  BY MemoryFacts DEF Sound
<1>2. f \in Frame /\ f # 0 /\ Unmapped \in Entry /\ Unmapped.frame = 0
  BY <1>1, EntryFacts
<1>3. f \in Mine(m) /\ f \notin X /\ m.ref[f] = 1 /\ X \subseteq Frame
  BY <1>2 DEF Mine, Sound
<1>4. /\ a.free = m.free /\ a.ref = m.ref /\ a.tables = m.tables /\ a.vmas = m.vmas
      /\ a.failed = m.failed /\ a.pte = [m.pte EXCEPT ![v] = Unmapped] /\ a \in Memory
  BY <1>1, <1>2 DEF Memory
<1>5. a.pte[v] = Unmapped /\ \A w \in Pages \ {v} : a.pte[w] = m.pte[w]
  BY <1>1, <1>4
<1> HIDE DEF a
<1>6. \A w \in Pages : a.pte[w].frame # f
  BY <1>2, <1>5 DEF Sound
<1>7. \A k \in DOMAIN a.tables : a.tables[k] # f
  BY <1>4 DEF Sound
<1>8. f \notin Mine(a) /\ Mine(a) \subseteq Mine(m)
  <2>1. f \notin Mine(a)
    BY <1>6, <1>7 DEF Mine
  <2>2. Mine(a) \subseteq Mine(m)
    <3> SUFFICES ASSUME NEW g \in Mine(a) PROVE g \in Mine(m)
      OBVIOUS
    <3>1. g \in Frame /\ g # 0
      BY EntryFacts DEF Mine
    <3> QED
      BY <1>2, <1>4, <1>5, <3>1 DEF Mine
  <2> QED
    BY <2>1, <2>2
<1>9. \A u, w \in Pages : a.pte[u].frame = a.pte[w].frame => u = w \/ a.pte[u].frame = 0
  BY <1>2, <1>5 DEF Sound
<1>10. \A w \in Pages, k \in DOMAIN a.tables : a.pte[w].frame # a.tables[k]
  <2> TAKE w \in Pages, k \in DOMAIN a.tables
  <2>1. a.tables[k] \in Frame
    BY <1>1, <1>4, MemoryFacts, TablesFacts
  <2> QED
    BY <1>2, <1>4, <1>5, <2>1, EntryFacts DEF Sound
<1> HIDE DEF f
<1>11. Sound(a, X \cup {f})
  <2>1. \A j \in DOMAIN a.free : a.free[j] # f
    BY <1>3, <1>4 DEF Sound
  <2> QED
    BY <1>2, <1>3, <1>4, <1>8, <1>9, <1>10, <2>1 DEF Sound
<1> QED
  BY <1>2, <1>3, <1>4, <1>5, <1>11 DEF a, f, Like, Elsewhere

(* ... until it is freed. *)
LEMMA FreeKeeps ==
    ASSUME NEW X, NEW f \in Frame, f \notin X, NEW m, Sound(m, X \cup {f})
    PROVE  LET a == FreePage(m, f)
           IN  Sound(a, X) /\ a.vmas = m.vmas /\ a.failed = m.failed /\ a.pte = m.pte
<1> DEFINE a == FreePage(m, f)
<1>1. m \in Memory /\ m.free \in Seq(Frame) /\ m.ref \in [Frame -> 0 .. 1]
  BY MemoryFacts DEF Sound
<1>2. /\ m.ref[f] = 1 /\ f \notin Mine(m) /\ X \subseteq Frame
      /\ \A j \in DOMAIN m.free : m.free[j] # f
  BY DEF Sound
<1>3. a = [m EXCEPT !.ref = [m.ref EXCEPT ![f] = 0], !.free = <<f>> \o m.free]
  BY <1>1, <1>2 DEF FreePage, Memory
<1>4. <<f>> \o m.free \in Seq(Frame) /\ [m.ref EXCEPT ![f] = 0] \in [Frame -> 0 .. 1]
  BY <1>1
<1> HIDE DEF a
<1>5. /\ a.free = <<f>> \o m.free /\ a.ref = [m.ref EXCEPT ![f] = 0] /\ a.tables = m.tables
      /\ a.vmas = m.vmas /\ a.failed = m.failed /\ a.pte = m.pte /\ a \in Memory
  BY <1>1, <1>3, <1>4 DEF Memory
<1>6. \A j \in DOMAIN a.free : /\ j = 1 => a.free[j] = f
                               /\ j # 1 => j - 1 \in DOMAIN m.free /\ a.free[j] = m.free[j - 1]
                               /\ j \in Nat
  BY <1>1, <1>5
<1>7. \A j, k \in DOMAIN a.free : a.free[j] = a.free[k] => j = k
  <2> TAKE j, k \in DOMAIN a.free
  <2> HAVE a.free[j] = a.free[k]
  <2>1. CASE j = 1 \/ k = 1
    BY <2>1, <1>2, <1>6
  <2>2. CASE j # 1 /\ k # 1
    <3>1. j - 1 = k - 1
      BY <2>2, <1>6 DEF Sound
    <3> QED
      BY <3>1, <1>6
  <2> QED
    BY <2>1, <2>2
<1>8. Mine(a) = Mine(m)
  BY <1>5 DEF Mine
<1>9. \A j \in DOMAIN a.free : a.free[j] \notin Mine(m) /\ a.free[j] \notin X
  BY <1>2, <1>6 DEF Sound
<1>10. \A g \in Frame \ {f} : a.ref[g] = m.ref[g]
  BY <1>1, <1>5
<1>11. \A g \in Mine(m) : g \in Frame \ {f}
  BY <1>2 DEF Mine
<1>12. Sound(a, X)
  BY <1>2, <1>5, <1>7, <1>8, <1>9, <1>10, <1>11 DEF Sound
<1> QED
  BY <1>5, <1>12 DEF a
-----------------------------------------------------------------------------
LEMMA Weaken ==
    ASSUME NEW X, NEW Y, Y \subseteq X, NEW m, Sound(m, X)
    PROVE  Sound(m, Y)
BY DEF Sound

(* Each of the three turns of get_pte makes at most one table, and page    *)
(* entries stay as they are.                                               *)
LEMMA DescendKeeps ==
    ASSUME NEW X, NEW m, Sound(m, X), NEW v \in Pages, NEW l \in 1 .. 3
    PROVE  LET a == Descend(m, v, l)
           IN  Sound(a, X) /\ Like(a, m) /\ a.pte = m.pte
<1>1. CASE TableNode(l, v) \in DOMAIN m.tables \/ m.free = <<>>
  BY <1>1 DEF Descend, Like
<1>2. CASE TableNode(l, v) \notin DOMAIN m.tables /\ m.free # <<>>
  <2> DEFINE n == TableNode(l, v)
             f == Head(m.free)
             b == AllocPage(m)
             a == [b EXCEPT !.tables = Entered(@, n, f)]
  <2>1. /\ f \in Frame /\ f \notin X /\ Sound(b, X \cup {f})
        /\ b.pte = m.pte /\ b.tables = m.tables /\ Like(b, m)
    BY <1>2, AllocKeeps DEF Like
  <2>2. n \in Nodes /\ n \notin DOMAIN b.tables /\ Descend(m, v, l) = a
    BY <1>2, <2>1, NodeFacts DEF Descend
  <2> HIDE DEF n, f, b
  <2>3. Sound(a, X)
    BY <2>1, <2>2, TableKeeps
  <2>4. b \in Memory
    BY <2>1 DEF Sound
  <2>5. a.pte = b.pte /\ a.vmas = b.vmas /\ a.failed = b.failed
    BY <2>4 DEF Memory
  <2> QED
    BY <2>1, <2>2, <2>3, <2>5 DEF Like
<1> QED
  BY <1>1, <1>2

LEMMA WalkKeeps ==
    ASSUME NEW X, NEW m, Sound(m, X), NEW v \in Pages
    PROVE  LET a == Walk(m, v)
           IN  Sound(a, X) /\ Like(a, m) /\ a.pte = m.pte
<1> DEFINE a == Descend(m, v, 1)
           b == Descend(a, v, 2)
           d == Descend(b, v, 3)
<1>1. Sound(a, X) /\ Like(a, m) /\ a.pte = m.pte
  BY DescendKeeps
<1> HIDE DEF a
<1>2. Sound(b, X) /\ Like(b, a) /\ b.pte = a.pte
  BY <1>1, DescendKeeps
<1> HIDE DEF b
<1>3. Sound(d, X) /\ Like(d, b) /\ d.pte = b.pte
  BY <1>2, DescendKeeps
<1> QED
  BY <1>1, <1>2, <1>3 DEF Walk, Like, a, b

(* map_page with a frame that has been allocated. *)
LEMMA MapPageKeeps ==
    ASSUME NEW X, NEW f \in Frame, f \notin X, NEW m, Sound(m, X \cup {f}),
           NEW v \in Pages, NEW write \in BOOLEAN
    PROVE  LET a == MapPage(m, v, f, write)
           IN  Sound(a, X) /\ Like(a, m) /\ Elsewhere(a, m, v)
<1> DEFINE w == Walk(m, v)
           a == [w EXCEPT !.pte[v] = [frame |-> f, writable |-> write]]
<1>1. Sound(w, X \cup {f}) /\ Like(w, m) /\ w.pte = m.pte
  BY WalkKeeps
<1>2. MapPage(m, v, f, write) = a \/ MapPage(m, v, f, write) = w
  BY DEF MapPage
<1> HIDE DEF w
<1>3. Sound(w, X)
  BY <1>1, Weaken
<1>4. Sound(a, X) /\ Like(a, w) /\ Elsewhere(a, w, v)
  BY <1>1, EntryKeeps
<1> HIDE DEF a
<1> QED
  BY <1>1, <1>2, <1>3, <1>4 DEF Like, Elsewhere

(* unmap_page clears one entry and gives its frame back. *)
LEMMA UnmapPageKeeps ==
    ASSUME NEW X, NEW m, Sound(m, X), NEW v \in Pages
    PROVE  LET a == UnmapPage(m, v)
           IN  Sound(a, X) /\ Like(a, m) /\ Elsewhere(a, m, v) /\ a.pte[v] = Unmapped
<1>1. CASE m.pte[v] = Unmapped
  BY <1>1 DEF UnmapPage, Like, Elsewhere
<1>2. CASE m.pte[v] # Unmapped
  <2> DEFINE f == m.pte[v].frame
             b == [m EXCEPT !.pte[v] = Unmapped]
             a == FreePage(b, f)
  <2>1. /\ f \in Frame /\ f \notin X /\ Sound(b, X \cup {f})
        /\ Like(b, m) /\ b.pte[v] = Unmapped /\ Elsewhere(b, m, v)
    BY <1>2, ClearKeeps
  <2>2. m \in Memory /\ m.pte \in [Pages -> Entry] /\ m.ref \in [Frame -> 0 .. 1]
    BY MemoryFacts DEF Sound
  <2>3. UnmapPage(m, v) = a
    <3>1. m.ref[f] = b.ref[f] /\ m.free = b.free
      BY <2>2 DEF Memory
    <3>2. UnmapPage(m, v) = [FreePage(m, f) EXCEPT !.pte[v] = Unmapped]
      BY <1>2 DEF UnmapPage
    <3>3. [FreePage(m, f) EXCEPT !.pte[v] = Unmapped] = FreePage(b, f)
      <4>1. CASE m.ref[f] = 0
        BY <3>1, <4>1 DEF FreePage
      <4>2. CASE m.ref[f] # 0
        BY <2>2, <3>1, <4>2 DEF FreePage, Memory
      <4> QED
        BY <4>1, <4>2
    <3> QED
      BY <3>2, <3>3
  <2> HIDE DEF f, b
  <2>4. Sound(a, X) /\ Like(a, b) /\ a.pte = b.pte
    BY <2>1, FreeKeeps DEF Like
  <2> QED
    BY <2>1, <2>3, <2>4 DEF Like, Elsewhere
<1> QED
  BY <1>1, <1>2

-----------------------------------------------------------------------------
(* Division by the size of a page. *)
LEMMA Division ==
    ASSUME NEW s \in Nat \ {0}, NEW a \in Nat
    PROVE  /\ a \div s \in Nat
           /\ s * (a \div s) <= a /\ a < s * (a \div s) + s
           /\ (a % s = 0 <=> a = s * (a \div s))
OBVIOUS

LEMMA QuotientBelow ==
    ASSUME NEW s \in Nat \ {0}, NEW a \in Int, NEW b \in Int, s * a < s * b
    PROVE  a < b
<1>1. SUFFICES ASSUME a >= b PROVE FALSE
  OBVIOUS
<1>2. a - b \in Nat /\ s * (a - b) >= 0 /\ s * (a - b) = s * a - s * b
  BY <1>1
<1> QED
  BY <1>2

LEMMA MultipleDiv ==
    ASSUME NEW s \in Nat \ {0}, NEW a \in Nat
    PROVE  (s * a) \div s = a /\ (s * a) % s = 0 /\ s * a \in Nat
OBVIOUS

(* A page count, and the pages of a VMA. *)
Extent(start, end) == (end - start) \div PAGE_SIZE

(* Where a VMA's pages lie, and that PagesOf lists each of them once. *)
LEMMA PagesFacts ==
    ASSUME NEW start \in Nat, NEW end \in Nat, start <= end, end <= Limit,
           (end - start) % PAGE_SIZE = 0
    PROVE  LET l == PagesOf(start, end)
               n == Extent(start, end)
           IN  /\ n \in Nat /\ DOMAIN l = 1 .. n /\ l \in Seq(Pages) /\ Len(l) = n
               /\ PageOf(start) \in Nat
               /\ \A k \in 1 .. n : l[k] = PageOf(start) + k - 1 /\ l[k] \in Pages
               /\ start % PAGE_SIZE = 0 =>
                      \A v \in Pages : /\ start <= v * PAGE_SIZE <=> PageOf(start) <= v
                                       /\ v * PAGE_SIZE < end <=> v < PageOf(start) + n
<1> DEFINE s == PAGE_SIZE
           q == PageOf(start)
           n == Extent(start, end)
           l == PagesOf(start, end)
<1>1. s \in Nat \ {0} /\ LAST_PAGE \in Nat /\ Limit = s * (LAST_PAGE + 1)
  BY VirtualMemoryAssumption DEF Limit
<1>2. q \in Nat /\ s * q <= start /\ (start % s = 0 => start = s * q)
  BY <1>1, Division DEF PageOf
<1>3. n \in Nat /\ end - start = s * n
  BY <1>1, Division DEF Extent
<1>4. l = [k \in 1 .. n |-> q + k - 1]
  BY DEF PagesOf, Extent
<1> HIDE DEF s, q, n, l
<1>5. q + n <= LAST_PAGE + 1
  <2>1. s * (q + n) <= s * (LAST_PAGE + 1)
    <3>1. s * (q + n) = s * q + s * n
      BY <1>1, <1>2, <1>3
    <3>2. s * q + s * n <= start + (end - start)
      BY <1>1, <1>2, <1>3
    <3>3. start + (end - start) <= s * (LAST_PAGE + 1)
      BY <1>1
    <3>4. s * (LAST_PAGE + 1) \in Nat /\ s * q \in Nat /\ s * n \in Nat
      BY <1>1, <1>2, <1>3
    <3> QED
      BY <3>1, <3>2, <3>3, <3>4
  <2>2. s * (q + n) < s * (LAST_PAGE + 2)
    BY <1>1, <1>2, <1>3, <2>1
  <2>3. q + n < LAST_PAGE + 2
    BY <1>1, <1>2, <1>3, <2>2, QuotientBelow
  <2> QED
    BY <1>1, <1>2, <1>3, <2>3
<1>6. \A k \in 1 .. n : l[k] = q + k - 1 /\ l[k] \in Pages
  BY <1>1, <1>2, <1>3, <1>4, <1>5 DEF Pages
<1>7. l \in Seq(Pages) /\ Len(l) = n /\ DOMAIN l = 1 .. n
  <2>1. l \in [1 .. n -> Pages]
    BY <1>4, <1>6
  <2> QED
    BY <1>3, <2>1
<1>8. ASSUME start % s = 0, NEW v \in Pages
      PROVE  /\ start <= v * s <=> q <= v
             /\ v * s < end <=> v < q + n
  <2>1. v \in Nat /\ start = s * q /\ end = s * (q + n) /\ v * s = s * v
    BY <1>1, <1>2, <1>3, <1>8 DEF Pages
  <2>2. s * v < s * q => v < q
    BY <1>1, <1>2, <2>1, QuotientBelow
  <2>3. s * v < s * (q + n) => v < q + n
    BY <1>1, <1>2, <1>3, <2>1, QuotientBelow
  <2>4. v < q => s * v < s * q
    BY <1>1, <1>2, <2>1
  <2>5. v < q + n => s * v < s * (q + n)
    <3> DEFINE z == q + n
    <3>1. z \in Nat
      BY <1>2, <1>3
    <3> HIDE DEF z
    <3>2. v < z => s * v < s * z
      BY <1>1, <2>1, <3>1
    <3> QED
      BY <3>2 DEF z
  <2>6. (start <= v * s <=> ~(s * v < s * q)) /\ (q <= v <=> ~(v < q))
    BY <1>1, <1>2, <2>1
  <2> QED
    BY <2>1, <2>2, <2>3, <2>4, <2>5, <2>6
<1> QED
  BY <1>2, <1>3, <1>6, <1>7, <1>8 DEF s, q, n, l

(* The loops of munmap and mmap turn by turn, in any set S of memories that *)
(* their bodies do not leave.                                               *)
LEMMA UnmapVmaTurns ==
    ASSUME NEW S, NEW m \in S, NEW vma \in Vma,
           \A a \in S, v \in Pages : UnmapPage(a, v) \in S
    PROVE  \E f : /\ f[0] = m
                  /\ \A k \in 1 .. Extent(vma.start, vma.end) :
                         f[k] = UnmapPage(f[k - 1], PagesOf(vma.start, vma.end)[k])
                  /\ UnmapVma(m, vma) = f[Extent(vma.start, vma.end)]
<1> DEFINE l == PagesOf(vma.start, vma.end)
           n == Extent(vma.start, vma.end)
           F == [k \in 1 .. n |-> [a \in S |-> UnmapPage(a, l[k])]]
           IsIter(h) == h = [t \in SUBSET DOMAIN l |->
                               IF t = {} THEN m ELSE UnmapPage(h[t \ {Max(t)}], l[Max(t)])]
           iter == CHOOSE h : IsIter(h)
<1>1. n \in Nat /\ DOMAIN l = 1 .. n
  BY PagesFacts DEF Vma, Limit
<1>2. \A k \in 1 .. n, a \in S : UnmapPage(a, l[k]) \in S
  <2>1. \A k \in 1 .. n : l[k] \in Pages
    BY PagesFacts DEF Vma, Limit
  <2> QED
    BY <2>1
<1>3. UnmapVma(m, vma) = iter[DOMAIN l]
  BY Zenon DEF UnmapVma, FoldLeft, MapThenFoldSet
<1>4. F \in [1 .. n -> [S -> S]]
  <2> HIDE DEF n, l
  <2> QED
    BY <1>2
<1>5. \A k \in 1 .. n, a \in S : F[k][a] = UnmapPage(a, l[k])
  OBVIOUS
<1> HIDE DEF F, n, l
<1>6. PICK g : Folds(g, n, S, m, F)
  BY <1>1, <1>4, FoldExists
<1>7. IsIter(g)
  <2>1. g \in [SUBSET (1 .. n) -> S]
    BY <1>6 DEF Folds
  <2>2. ASSUME NEW t \in SUBSET (1 .. n)
        PROVE  g[t] = IF t = {} THEN m ELSE UnmapPage(g[t \ {Max(t)}], l[Max(t)])
    <3>1. CASE t = {}
      BY <3>1, <1>6 DEF Folds
    <3>2. CASE t # {}
      <4>1. Max(t) \in 1 .. n /\ t \ {Max(t)} \in SUBSET (1 .. n)
        BY <1>1, <3>2, GreatestElement
      <4>2. g[t \ {Max(t)}] \in S
        BY <2>1, <4>1
      <4>3. g[t] = F[Max(t)][g[t \ {Max(t)}]]
        BY <3>2, <1>6 DEF Folds
      <4> QED
        BY <1>5, <3>2, <4>1, <4>2, <4>3
    <3> QED
      BY <3>1, <3>2
  <2> QED
    BY <1>1, <2>1, <2>2
<1>8. IsIter(iter)
  BY <1>7
<1> HIDE DEF iter
<1> DEFINE f == [k \in 0 .. n |-> iter[1 .. k]]
<1>9. f[0] = m
  <2>1. {} \in SUBSET DOMAIN l
    OBVIOUS
  <2>2. iter[{}] = m
    BY <1>8, <2>1
  <2> QED
    BY <1>1, <2>2, FoldIntervals
<1>10. ASSUME NEW k \in 1 .. n PROVE f[k] = UnmapPage(f[k - 1], l[k])
  <2>1. /\ 1 .. k \in SUBSET DOMAIN l /\ 1 .. k # {} /\ Max(1 .. k) = k
        /\ (1 .. k) \ {k} = 1 .. (k - 1) /\ k \in 0 .. n /\ k - 1 \in 0 .. n
    BY <1>1, FoldIntervals
  <2>2. iter[1 .. k] = UnmapPage(iter[(1 .. k) \ {k}], l[k])
    BY <1>8, <2>1
  <2> QED
    BY <2>1, <2>2
<1>11. UnmapVma(m, vma) = f[n]
  BY <1>1, <1>3
<1> HIDE DEF f
<1> QED
  BY <1>1, <1>9, <1>10, <1>11 DEF n, l

LEMMA UnmapTurns ==
    ASSUME NEW S, NEW m, [m EXCEPT !.vmas = <<>>] \in S, m.vmas \in Seq(Vma),
           NEW addr \in Nat, NEW length \in Nat,
           \A a \in S, vma \in Vma :
               UnmapNext(a, vma, AlignDown(addr), AlignUp(addr + length)) \in S
    PROVE  \E f : /\ f[0] = [m EXCEPT !.vmas = <<>>]
                  /\ \A k \in 1 .. Len(m.vmas) :
                         f[k] = UnmapNext(f[k - 1], m.vmas[k], AlignDown(addr),
                                          AlignUp(addr + length))
                  /\ Unmap(m, addr, length) = f[Len(m.vmas)]
<1> DEFINE l == m.vmas
           n == Len(m.vmas)
           F == [k \in 1 .. n |->
                    [a \in S |-> UnmapNext(a, l[k], AlignDown(addr), AlignUp(addr + length))]]
           IsIter(h) == h = [t \in SUBSET DOMAIN l |->
                               IF t = {} THEN [m EXCEPT !.vmas = <<>>]
                               ELSE UnmapNext(h[t \ {Max(t)}], l[Max(t)], AlignDown(addr),
                                              AlignUp(addr + length))]
           iter == CHOOSE h : IsIter(h)
<1>1. n \in Nat /\ DOMAIN l = 1 .. n
  OBVIOUS
<1>2. \A k \in 1 .. n, a \in S : UnmapNext(a, l[k], AlignDown(addr), AlignUp(addr + length)) \in S
  OBVIOUS
<1>3. Unmap(m, addr, length) = iter[DOMAIN l]
  BY Zenon DEF Unmap, FoldLeft, MapThenFoldSet
<1>4. F \in [1 .. n -> [S -> S]]
  <2> HIDE DEF n, l
  <2> QED
    BY <1>2
<1>5. \A k \in 1 .. n, a \in S :
          F[k][a] = UnmapNext(a, l[k], AlignDown(addr), AlignUp(addr + length))
  OBVIOUS
<1> HIDE DEF F, n, l
<1>6. PICK g : Folds(g, n, S, [m EXCEPT !.vmas = <<>>], F)
  BY <1>1, <1>4, FoldExists
<1>7. IsIter(g)
  <2>1. g \in [SUBSET (1 .. n) -> S]
    BY <1>6 DEF Folds
  <2>2. ASSUME NEW t \in SUBSET (1 .. n)
        PROVE  g[t] = IF t = {} THEN [m EXCEPT !.vmas = <<>>]
                      ELSE UnmapNext(g[t \ {Max(t)}], l[Max(t)], AlignDown(addr),
                                     AlignUp(addr + length))
    <3>1. CASE t = {}
      BY <3>1, <1>6 DEF Folds
    <3>2. CASE t # {}
      <4>1. Max(t) \in 1 .. n /\ t \ {Max(t)} \in SUBSET (1 .. n)
        BY <1>1, <3>2, GreatestElement
      <4>2. g[t \ {Max(t)}] \in S
        BY <2>1, <4>1
      <4>3. g[t] = F[Max(t)][g[t \ {Max(t)}]]
        BY <3>2, <1>6 DEF Folds
      <4> QED
        BY <1>5, <3>2, <4>1, <4>2, <4>3
    <3> QED
      BY <3>1, <3>2
  <2> QED
    BY <1>1, <2>1, <2>2
<1>8. IsIter(iter)
  BY <1>7
<1> HIDE DEF iter
<1> DEFINE f == [k \in 0 .. n |-> iter[1 .. k]]
<1>9. f[0] = [m EXCEPT !.vmas = <<>>]
  <2>1. {} \in SUBSET DOMAIN l
    OBVIOUS
  <2>2. iter[{}] = [m EXCEPT !.vmas = <<>>]
    BY <1>8, <2>1
  <2> QED
    BY <1>1, <2>2, FoldIntervals
<1>10. ASSUME NEW k \in 1 .. n
       PROVE  f[k] = UnmapNext(f[k - 1], l[k], AlignDown(addr), AlignUp(addr + length))
  <2>1. /\ 1 .. k \in SUBSET DOMAIN l /\ 1 .. k # {} /\ Max(1 .. k) = k
        /\ (1 .. k) \ {k} = 1 .. (k - 1) /\ k \in 0 .. n /\ k - 1 \in 0 .. n
    BY <1>1, FoldIntervals
  <2>2. iter[1 .. k] =
            UnmapNext(iter[(1 .. k) \ {k}], l[k], AlignDown(addr), AlignUp(addr + length))
    BY <1>8, <2>1
  <2> QED
    BY <2>1, <2>2
<1>11. Unmap(m, addr, length) = f[n]
  BY <1>1, <1>3
<1> HIDE DEF f
<1> QED
  BY <1>1, <1>9, <1>10, <1>11 DEF n, l

(* The VMA that mmap puts in front of the list. *)
NewVma(start, length, write) ==
    [start |-> start, end |-> start + AlignUp(length), write |-> write]

LEMMA MapPagesTurns ==
    ASSUME NEW S, NEW m \in S, NEW vma \in Vma, NEW write \in BOOLEAN,
           \A a \in S, v \in Pages : MapNext(a, v, write) \in S
    PROVE  \E f : /\ f[0] = m
                  /\ \A k \in 1 .. Extent(vma.start, vma.end) :
                         f[k] = MapNext(f[k - 1], PagesOf(vma.start, vma.end)[k], write)
                  /\ MapPages(m, vma.start, vma.end, write) = f[Extent(vma.start, vma.end)]
<1> DEFINE l == PagesOf(vma.start, vma.end)
           n == Extent(vma.start, vma.end)
           F == [k \in 1 .. n |-> [a \in S |-> MapNext(a, l[k], write)]]
           IsIter(h) == h = [t \in SUBSET DOMAIN l |->
                               IF t = {} THEN m ELSE MapNext(h[t \ {Max(t)}], l[Max(t)], write)]
           iter == CHOOSE h : IsIter(h)
<1>1. n \in Nat /\ DOMAIN l = 1 .. n
  BY PagesFacts DEF Vma, Limit
<1>2. \A k \in 1 .. n, a \in S : MapNext(a, l[k], write) \in S
  <2>1. \A k \in 1 .. n : l[k] \in Pages
    BY PagesFacts DEF Vma, Limit
  <2> QED
    BY <2>1
<1>3. MapPages(m, vma.start, vma.end, write) = iter[DOMAIN l]
  BY Zenon DEF MapPages, FoldLeft, MapThenFoldSet
<1>4. F \in [1 .. n -> [S -> S]]
  <2> HIDE DEF n, l
  <2> QED
    BY <1>2
<1>5. \A k \in 1 .. n, a \in S : F[k][a] = MapNext(a, l[k], write)
  OBVIOUS
<1> HIDE DEF F, n, l
<1>6. PICK g : Folds(g, n, S, m, F)
  BY <1>1, <1>4, FoldExists
<1>7. IsIter(g)
  <2>1. g \in [SUBSET (1 .. n) -> S]
    BY <1>6 DEF Folds
  <2>2. ASSUME NEW t \in SUBSET (1 .. n)
        PROVE  g[t] = IF t = {} THEN m ELSE MapNext(g[t \ {Max(t)}], l[Max(t)], write)
    <3>1. CASE t = {}
      BY <3>1, <1>6 DEF Folds
    <3>2. CASE t # {}
      <4>1. Max(t) \in 1 .. n /\ t \ {Max(t)} \in SUBSET (1 .. n)
        BY <1>1, <3>2, GreatestElement
      <4>2. g[t \ {Max(t)}] \in S
        BY <2>1, <4>1
      <4>3. g[t] = F[Max(t)][g[t \ {Max(t)}]]
        BY <3>2, <1>6 DEF Folds
      <4> QED
        BY <1>5, <3>2, <4>1, <4>2, <4>3
    <3> QED
      BY <3>1, <3>2
  <2> QED
    BY <1>1, <2>1, <2>2
<1>8. IsIter(iter)
  BY <1>7
<1> HIDE DEF iter
<1> DEFINE f == [k \in 0 .. n |-> iter[1 .. k]]
<1>9. f[0] = m
  <2>1. {} \in SUBSET DOMAIN l
    OBVIOUS
  <2>2. iter[{}] = m
    BY <1>8, <2>1
  <2> QED
    BY <1>1, <2>2, FoldIntervals
<1>10. ASSUME NEW k \in 1 .. n PROVE f[k] = MapNext(f[k - 1], l[k], write)
  <2>1. /\ 1 .. k \in SUBSET DOMAIN l /\ 1 .. k # {} /\ Max(1 .. k) = k
        /\ (1 .. k) \ {k} = 1 .. (k - 1) /\ k \in 0 .. n /\ k - 1 \in 0 .. n
    BY <1>1, FoldIntervals
  <2>2. iter[1 .. k] = MapNext(iter[(1 .. k) \ {k}], l[k], write)
    BY <1>8, <2>1
  <2> QED
    BY <2>1, <2>2
<1>11. MapPages(m, vma.start, vma.end, write) = f[n]
  BY <1>1, <1>3
<1> HIDE DEF f
<1> QED
  BY <1>1, <1>9, <1>10, <1>11 DEF n, l

(* mmap step by step. *)
LEMMA MapIs ==
    ASSUME NEW m, NEW start, NEW length, NEW write \in BOOLEAN
    PROVE  Map(m, start, length, write) =
               LET vma == NewVma(start, length, write)
                   done == MapPages([m EXCEPT !.vmas = <<vma>> \o @], vma.start, vma.end, write)
               IN  IF done.failed THEN Unmap(done, start, AlignUp(length)) ELSE done
<1> DEFINE vma == NewVma(start, length, write)
<1>1. vma.start = start /\ vma.end = start + AlignUp(length)
  BY DEF NewVma
<1> QED
  BY Zenon, <1>1 DEF Map, NewVma
-----------------------------------------------------------------------------
(* The pages of a VMA. *)
In(v, vma) ==
    /\ PageOf(vma.start) <= v
    /\ v < PageOf(vma.start) + Extent(vma.start, vma.end)

(* The set that the loops stay in. *)
SoundOnes(X) == {a \in Memory : Sound(a, X)}

LEMMA SoundOnesAre == ASSUME NEW X, NEW a PROVE a \in SoundOnes(X) <=> Sound(a, X)
<1>1. Sound(a, X) => a \in Memory
  BY DEF Sound
<1> QED
  BY <1>1 DEF SoundOnes

(* What is unmapped is what lies in the VMA. *)
LEMMA UnmapVmaKeeps ==
    ASSUME NEW X, NEW m, Sound(m, X), NEW vma \in Vma
    PROVE  LET a == UnmapVma(m, vma)
           IN  /\ Sound(a, X) /\ Like(a, m)
               /\ \A v \in Pages : a.pte[v] = IF In(v, vma) THEN Unmapped ELSE m.pte[v]
<1> DEFINE S == SoundOnes(X)
           q == PageOf(vma.start)
           n == Extent(vma.start, vma.end)
           l == PagesOf(vma.start, vma.end)
<1>1. m \in S /\ \A a \in S : Sound(a, X)
  BY SoundOnesAre
<1>2. \A a \in S, v \in Pages : UnmapPage(a, v) \in S
  BY SoundOnesAre, UnmapPageKeeps
<1>3. n \in Nat /\ q \in Nat /\ \A k \in 1 .. n : l[k] = q + k - 1 /\ l[k] \in Pages
  BY PagesFacts DEF Vma, Limit
<1>4. PICK f : /\ f[0] = m
               /\ \A k \in 1 .. n : f[k] = UnmapPage(f[k - 1], l[k])
               /\ UnmapVma(m, vma) = f[n]
  <2> HIDE DEF S
  <2> QED
    BY <1>1, <1>2, UnmapVmaTurns
<1> DEFINE G == [k \in 0 .. n |->
                   {a \in S : /\ Like(a, m)
                              /\ \A v \in Pages : a.pte[v] = IF q <= v /\ v < q + k THEN Unmapped
                                                             ELSE m.pte[v]}]
<1> HIDE DEF S, q, n, l
<1>5. f[0] \in G[0]
  <2>1. \A v \in Pages : ~(q <= v /\ v < q + 0)
    BY <1>3 DEF Pages
  <2> QED
    BY <1>1, <1>3, <1>4, <2>1 DEF Like
<1>6. ASSUME NEW k \in 1 .. n, f[k - 1] \in G[k - 1] PROVE f[k] \in G[k]
  <2> DEFINE a == f[k - 1]
             b == f[k]
             w == l[k]
  <2>1. /\ a \in S /\ Like(a, m) /\ k - 1 \in 0 .. n /\ k \in 0 .. n
        /\ \A v \in Pages : a.pte[v] = IF q <= v /\ v < q + (k - 1) THEN Unmapped ELSE m.pte[v]
    BY <1>3, <1>6
  <2>2. b = UnmapPage(a, w) /\ w \in Pages /\ w = q + k - 1
    BY <1>3, <1>4
  <2> HIDE DEF a, b, w
  <2>3. /\ b \in S /\ Like(b, a) /\ b.pte[w] = Unmapped
        /\ \A v \in Pages \ {w} : b.pte[v] = a.pte[v]
    BY <1>1, <1>2, <2>1, <2>2, UnmapPageKeeps DEF Elsewhere
  <2>4. \A v \in Pages : (q <= v /\ v < q + k) <=> (q <= v /\ v < q + (k - 1)) \/ v = w
    BY <1>3, <2>2 DEF Pages
  <2>5. \A v \in Pages : b.pte[v] = IF q <= v /\ v < q + k THEN Unmapped ELSE m.pte[v]
    BY <2>1, <2>3, <2>4
  <2>6. b \in G[k]
    BY <2>1, <2>3, <2>5 DEF Like
  <2> QED
    BY <2>6 DEF b
<1> HIDE DEF G
<1>7. f[n] \in G[n]
  <2>1. \A k \in 1 .. n : f[k - 1] \in G[k - 1] => f[k] \in G[k]
    BY <1>6
  <2>2. n \in Nat
    BY <1>3
  <2>3. \A k \in 0 .. n : f[k] \in G[k]
    BY <1>5, <2>1, <2>2, Reaches
  <2> QED
    BY <2>2, <2>3
<1>8. /\ f[n] \in S /\ Like(f[n], m)
      /\ \A v \in Pages : f[n].pte[v] = IF q <= v /\ v < q + n THEN Unmapped ELSE m.pte[v]
  BY <1>3, <1>7 DEF G
<1> QED
  BY <1>1, <1>4, <1>8 DEF In, q, n

LEMMA SoundFacts ==
    ASSUME NEW X, NEW m, Sound(m, X)
    PROVE  /\ m \in Memory /\ m.vmas \in Seq(Vma) /\ m.pte \in [Pages -> Entry]
           /\ m.failed \in BOOLEAN
BY MemoryFacts DEF Sound

(* The list of VMAs matters to no frame. *)
LEMMA ListKeeps ==
    ASSUME NEW X, NEW m, Sound(m, X), NEW l \in Seq(Vma)
    PROVE  LET a == [m EXCEPT !.vmas = l]
           IN  Sound(a, X) /\ a.vmas = l /\ a.pte = m.pte /\ a.failed = m.failed
<1> DEFINE a == [m EXCEPT !.vmas = l]
<1>1. m \in Memory
  BY DEF Sound
<1>2. /\ a \in Memory /\ a.vmas = l /\ a.pte = m.pte /\ a.failed = m.failed
      /\ a.free = m.free /\ a.ref = m.ref /\ a.tables = m.tables
  BY <1>1 DEF Memory
<1> HIDE DEF a
<1>3. Mine(a) = Mine(m)
  BY <1>2 DEF Mine
<1>4. Sound(a, X)
  BY <1>2, <1>3 DEF Sound
<1> QED
  BY <1>2, <1>4 DEF a

(* A turn of munmap's loop. *)
LEMMA UnmapNextKeeps ==
    ASSUME NEW X, NEW m, Sound(m, X), NEW vma \in Vma, NEW lo, NEW hi
    PROVE  LET a == UnmapNext(m, vma, lo, hi)
           IN  /\ Sound(a, X) /\ a.failed = m.failed
               /\ InRange(vma, lo, hi) =>
                      /\ a.vmas = m.vmas
                      /\ \A v \in Pages : a.pte[v] = IF In(v, vma) THEN Unmapped ELSE m.pte[v]
               /\ ~InRange(vma, lo, hi) => a.vmas = Append(m.vmas, vma) /\ a.pte = m.pte
<1>1. CASE InRange(vma, lo, hi)
  <2>1. UnmapNext(m, vma, lo, hi) = UnmapVma(m, vma)
    BY <1>1 DEF UnmapNext
  <2> QED
    BY <1>1, <2>1, UnmapVmaKeeps DEF Like
<1>2. CASE ~InRange(vma, lo, hi)
  <2> DEFINE l == Append(m.vmas, vma)
  <2>1. UnmapNext(m, vma, lo, hi) = [m EXCEPT !.vmas = l]
    BY <1>2 DEF UnmapNext
  <2>2. l \in Seq(Vma)
    <3>1. m.vmas \in Seq(Vma)
      BY MemoryFacts DEF Sound
    <3> QED
      BY <3>1
  <2> HIDE DEF l
  <2>3. LET a == [m EXCEPT !.vmas = l]
        IN  Sound(a, X) /\ a.vmas = l /\ a.pte = m.pte /\ a.failed = m.failed
    BY <2>2, ListKeeps
  <2> QED
    BY <1>2, <2>1, <2>3 DEF l
<1> QED
  BY <1>1, <1>2

(* Every page that is present lies in one of the VMAs of l. *)
Covers(l, m) == \A v \in Pages : m.pte[v] # Unmapped => \E j \in DOMAIN l : In(v, l[j])

(* munmap: what goes, goes with the VMAs that do. *)
LEMMA UnmapKeeps ==
    ASSUME NEW X, NEW m, Sound(m, X), NEW addr \in Nat, NEW length \in Nat
    PROVE  LET a == Unmap(m, addr, length)
           IN  /\ Sound(a, X) /\ a.failed = m.failed
               /\ \A j \in DOMAIN a.vmas : \E k \in DOMAIN m.vmas : a.vmas[j] = m.vmas[k]
               /\ \A v \in Pages :
                      \/ a.pte[v] = m.pte[v]
                      \/ \E k \in DOMAIN m.vmas :
                             /\ In(v, m.vmas[k])
                             /\ InRange(m.vmas[k], AlignDown(addr), AlignUp(addr + length))
               /\ Covers(m.vmas, m) => Covers(a.vmas, a)
<1> DEFINE lo == AlignDown(addr)
           hi == AlignUp(addr + length)
           S == SoundOnes(X)
           l == m.vmas
           n == Len(l)
           base == [m EXCEPT !.vmas = <<>>]
<1>1. l \in Seq(Vma) /\ n \in Nat /\ DOMAIN l = 1 .. n /\ \A k \in 1 .. n : l[k] \in Vma
  BY MemoryFacts DEF Sound
<1>2. /\ Sound(base, X) /\ base.vmas = <<>> /\ base.pte = m.pte /\ base.failed = m.failed
      /\ DOMAIN base.vmas = {}
  <2> DEFINE e == <<>>
  <2>1. e \in Seq(Vma) /\ DOMAIN e = {}
    OBVIOUS
  <2> HIDE DEF e
  <2>2. LET a == [m EXCEPT !.vmas = e]
        IN  Sound(a, X) /\ a.vmas = e /\ a.pte = m.pte /\ a.failed = m.failed
    BY <2>1, ListKeeps
  <2> QED
    BY <2>1, <2>2 DEF e
<1>3. base \in S /\ \A a \in S, vma \in Vma : UnmapNext(a, vma, lo, hi) \in S
  BY <1>2, SoundOnesAre, UnmapNextKeeps
<1>4. PICK f : /\ f[0] = base
               /\ \A k \in 1 .. n : f[k] = UnmapNext(f[k - 1], l[k], lo, hi)
               /\ Unmap(m, addr, length) = f[n]
  <2> HIDE DEF S
  <2> QED
    BY <1>1, <1>3, UnmapTurns
<1> DEFINE Left(a, k) ==
             \A v \in Pages : a.pte[v] # Unmapped =>
                 \/ \E j \in DOMAIN a.vmas : In(v, a.vmas[j])
                 \/ \E j \in (k + 1) .. n : In(v, l[j])
           Good(a, k) ==
             /\ a.failed = m.failed
             /\ \A j \in DOMAIN a.vmas : \E h \in 1 .. n : a.vmas[j] = l[h]
             /\ \A v \in Pages :
                    \/ a.pte[v] = m.pte[v]
                    \/ \E h \in 1 .. n : In(v, l[h]) /\ InRange(l[h], lo, hi)
             /\ Covers(l, m) => Left(a, k)
           G == [k \in 0 .. n |-> {a \in S : Good(a, k)}]
<1> HIDE DEF S, n, l, lo, hi, base
<1>5. f[0] \in G[0]
  <2>1. Covers(l, m) => Left(base, 0)
    BY <1>1, <1>2 DEF Covers
  <2>2. Good(base, 0)
    BY <1>2, <2>1
  <2> HIDE DEF Good
  <2> QED
    BY <1>1, <1>3, <1>4, <2>2
<1>6. ASSUME NEW k \in 1 .. n, f[k - 1] \in G[k - 1] PROVE f[k] \in G[k]
  <2> DEFINE a == f[k - 1]
             b == f[k]
             e == l[k]
  <2>1. a \in S /\ Good(a, k - 1) /\ k - 1 \in 0 .. n /\ k \in 0 .. n
    BY <1>1, <1>6
  <2>2. b = UnmapNext(a, e, lo, hi) /\ e \in Vma /\ e = l[k]
    BY <1>1, <1>4
  <2> HIDE DEF a, b, e
  <2>3. Sound(a, X) /\ b \in S /\ a.vmas \in Seq(Vma)
    <3>1. Sound(a, X)
      BY <2>1, SoundOnesAre DEF S
    <3>2. b \in S
      BY <1>3, <2>1, <2>2
    <3> QED
      BY <3>1, <3>2, SoundFacts
  <2>4. /\ b.failed = a.failed
        /\ InRange(e, lo, hi) =>
               /\ b.vmas = a.vmas
               /\ \A v \in Pages : b.pte[v] = IF In(v, e) THEN Unmapped ELSE a.pte[v]
        /\ ~InRange(e, lo, hi) => b.vmas = Append(a.vmas, e) /\ b.pte = a.pte
    BY <2>2, <2>3, UnmapNextKeeps
  <2>5. \A j \in ((k - 1) + 1) .. n : j = k \/ j \in (k + 1) .. n
    BY <1>1
  <2>6. Good(b, k)
    <3>1. CASE InRange(e, lo, hi)
      <4>1. Covers(l, m) => Left(b, k)
        BY <2>1, <2>2, <2>4, <2>5, <3>1
      <4>2. \A v \in Pages : \/ b.pte[v] = m.pte[v]
                             \/ \E h \in 1 .. n : In(v, l[h]) /\ InRange(l[h], lo, hi)
        BY <2>1, <2>2, <2>4, <3>1
      <4> QED
        BY <2>1, <2>4, <3>1, <4>1, <4>2
    <3>2. CASE ~InRange(e, lo, hi)
      <4>1. /\ DOMAIN b.vmas = DOMAIN a.vmas \cup {Len(a.vmas) + 1}
            /\ \A j \in DOMAIN a.vmas : b.vmas[j] = a.vmas[j]
            /\ b.vmas[Len(a.vmas) + 1] = e
        BY <2>3, <2>4, <3>2
      <4> DEFINE z == Len(a.vmas) + 1
      <4> HIDE DEF z
      <4>2. DOMAIN b.vmas = DOMAIN a.vmas \cup {z} /\ b.vmas[z] = e
        BY <4>1 DEF z
      <4>3. Covers(l, m) => Left(b, k)
        BY <2>1, <2>2, <2>4, <2>5, <3>2, <4>1, <4>2
      <4>4. \A j \in DOMAIN b.vmas : \E h \in 1 .. n : b.vmas[j] = l[h]
        BY <2>1, <2>2, <4>1, <4>2
      <4> QED
        BY <2>1, <2>4, <3>2, <4>3, <4>4
    <3> QED
      BY <3>1, <3>2
  <2> HIDE DEF Good
  <2>7. b \in G[k]
    BY <2>1, <2>3, <2>6
  <2> QED
    BY <2>7 DEF b
<1> HIDE DEF G
<1>7. f[n] \in G[n]
  <2>1. \A k \in 1 .. n : f[k - 1] \in G[k - 1] => f[k] \in G[k]
    BY <1>6
  <2>2. n \in Nat
    BY <1>1
  <2>3. \A k \in 0 .. n : f[k] \in G[k]
    BY <1>5, <2>1, <2>2, Reaches
  <2> QED
    BY <2>2, <2>3
<1>8. f[n] \in S /\ Good(f[n], n)
  <2> HIDE DEF Good
  <2> QED
    BY <1>1, <1>7 DEF G
<1>9. Covers(l, m) => Covers(f[n].vmas, f[n])
  <2>1. (n + 1) .. n = {}
    BY <1>1
  <2> QED
    BY <1>8, <2>1 DEF Covers
<1>10. Sound(f[n], X)
  BY <1>8, SoundOnesAre DEF S
<1> QED
  BY <1>1, <1>4, <1>8, <1>9, <1>10 DEF lo, hi, l

(* Rounding, of a multiple of the page size and of any address. *)
LEMMA AlignFacts ==
    ASSUME NEW a \in Nat
    PROVE  /\ AlignDown(a) \in Nat /\ AlignDown(a) % PAGE_SIZE = 0 /\ AlignDown(a) <= a
           /\ AlignUp(a) \in Nat /\ AlignUp(a) % PAGE_SIZE = 0
           /\ a % PAGE_SIZE = 0 => AlignDown(a) = a
<1>1. PAGE_SIZE \in Nat \ {0}
  BY VirtualMemoryAssumption
<1>2. ASSUME NEW b \in Nat
      PROVE  AlignDown(b) \in Nat /\ AlignDown(b) % PAGE_SIZE = 0 /\ AlignDown(b) <= b
             /\ (b % PAGE_SIZE = 0 => AlignDown(b) = b)
  <2> DEFINE q == b \div PAGE_SIZE
  <2>1. q \in Nat /\ PAGE_SIZE * q <= b /\ (b % PAGE_SIZE = 0 => b = PAGE_SIZE * q)
    BY <1>1, Division
  <2>2. AlignDown(b) = q * PAGE_SIZE
    BY DEF AlignDown
  <2> HIDE DEF q
  <2>3. q * PAGE_SIZE = PAGE_SIZE * q
    BY <1>1, <2>1
  <2>4. PAGE_SIZE * q \in Nat /\ (PAGE_SIZE * q) % PAGE_SIZE = 0
    BY <1>1, <2>1, MultipleDiv
  <2> QED
    BY <2>1, <2>2, <2>3, <2>4
<1>3. a + PAGE_SIZE - 1 \in Nat
  BY <1>1
<1> QED
  BY <1>2, <1>3 DEF AlignUp

(* What mmap puts in front of the list is a VMA. *)
LEMMA NewVmaFacts ==
    ASSUME NEW start \in Nat, NEW length \in Nat, NEW write \in BOOLEAN, HasRoom(start, length)
    PROVE  /\ NewVma(start, length, write) \in Vma
           /\ NewVma(start, length, write).start = start
<1> DEFINE up == AlignUp(length)
<1>1. up \in Nat /\ up % PAGE_SIZE = 0 /\ start + up <= (LAST_PAGE + 1) * PAGE_SIZE
  BY AlignFacts DEF HasRoom
<1>2. NewVma(start, length, write) = [start |-> start, end |-> start + up, write |-> write]
  BY DEF NewVma
<1> HIDE DEF up
<1>3. (start + up) - start = up /\ start <= start + up /\ start + up \in Nat
  BY <1>1
<1> QED
  BY <1>1, <1>2, <1>3 DEF Vma

(* A turn of mmap's loop: one page changes, or none when a frame is missing. *)
LEMMA MapNextKeeps ==
    ASSUME NEW X, NEW m, Sound(m, X), NEW v \in Pages, NEW write \in BOOLEAN
    PROVE  LET a == MapNext(m, v, write)
           IN  Sound(a, X) /\ a.vmas = m.vmas /\ Elsewhere(a, m, v)
<1>1. CASE m.failed \/ m.free = <<>>
  <2> DEFINE a == [m EXCEPT !.failed = TRUE]
  <2>1. m \in Memory
    BY SoundFacts
  <2>2. /\ a \in Memory /\ a.vmas = m.vmas /\ a.pte = m.pte /\ a.free = m.free
        /\ a.ref = m.ref /\ a.tables = m.tables
    BY <2>1 DEF Memory
  <2>3. MapNext(m, v, write) = a
    BY <1>1 DEF MapNext
  <2> HIDE DEF a
  <2>4. Mine(a) = Mine(m)
    BY <2>2 DEF Mine
  <2>5. Sound(a, X)
    BY <2>2, <2>4 DEF Sound
  <2> QED
    BY <2>2, <2>3, <2>5 DEF Elsewhere
<1>2. CASE ~m.failed /\ m.free # <<>>
  <2> DEFINE f == Head(m.free)
             b == AllocPage(m)
             a == MapPage(b, v, f, write)
  <2>1. f \in Frame /\ f \notin X /\ Sound(b, X \cup {f}) /\ b.pte = m.pte /\ b.vmas = m.vmas
    BY <1>2, AllocKeeps
  <2>2. MapNext(m, v, write) = a
    BY <1>2 DEF MapNext
  <2> HIDE DEF f, b
  <2>3. Sound(a, X) /\ Like(a, b) /\ Elsewhere(a, b, v)
    BY <2>1, MapPageKeeps
  <2> QED
    BY <2>1, <2>2, <2>3 DEF Like, Elsewhere
<1> QED
  BY <1>1, <1>2

(* mmap's loop changes pages of the new VMA only. *)
LEMMA MapPagesKeeps ==
    ASSUME NEW X, NEW m, Sound(m, X), NEW vma \in Vma, NEW write \in BOOLEAN
    PROVE  LET a == MapPages(m, vma.start, vma.end, write)
           IN  /\ Sound(a, X) /\ a.vmas = m.vmas
               /\ \A v \in Pages : a.pte[v] = m.pte[v] \/ In(v, vma)
<1> DEFINE S == SoundOnes(X)
           q == PageOf(vma.start)
           n == Extent(vma.start, vma.end)
           l == PagesOf(vma.start, vma.end)
<1>1. m \in S /\ \A a \in S : Sound(a, X)
  BY SoundOnesAre
<1>2. \A a \in S, v \in Pages : MapNext(a, v, write) \in S
  BY SoundOnesAre, MapNextKeeps
<1>3. n \in Nat /\ q \in Nat /\ \A k \in 1 .. n : l[k] = q + k - 1 /\ l[k] \in Pages
  BY PagesFacts DEF Vma, Limit
<1>4. PICK f : /\ f[0] = m
               /\ \A k \in 1 .. n : f[k] = MapNext(f[k - 1], l[k], write)
               /\ MapPages(m, vma.start, vma.end, write) = f[n]
  <2> HIDE DEF S
  <2> QED
    BY <1>1, <1>2, MapPagesTurns
<1> DEFINE G == [k \in 0 .. n |->
                   {a \in S : /\ a.vmas = m.vmas
                              /\ \A v \in Pages : a.pte[v] = m.pte[v] \/ (q <= v /\ v < q + n)}]
<1> HIDE DEF S, q, n, l
<1>5. f[0] \in G[0]
  BY <1>1, <1>3, <1>4
<1>6. ASSUME NEW k \in 1 .. n, f[k - 1] \in G[k - 1] PROVE f[k] \in G[k]
  <2> DEFINE a == f[k - 1]
             b == f[k]
             w == l[k]
  <2>1. /\ a \in S /\ a.vmas = m.vmas /\ k - 1 \in 0 .. n /\ k \in 0 .. n
        /\ \A v \in Pages : a.pte[v] = m.pte[v] \/ (q <= v /\ v < q + n)
    BY <1>3, <1>6
  <2>2. b = MapNext(a, w, write) /\ w \in Pages /\ q <= w /\ w < q + n
    BY <1>3, <1>4
  <2> HIDE DEF a, b, w
  <2>3. Sound(a, X) /\ b \in S
    BY <1>1, <1>2, <2>1, <2>2
  <2>4. b.vmas = a.vmas /\ Elsewhere(b, a, w)
    BY <2>2, <2>3, MapNextKeeps
  <2>5. \A v \in Pages : b.pte[v] = m.pte[v] \/ (q <= v /\ v < q + n)
    BY <2>1, <2>2, <2>4 DEF Elsewhere
  <2>6. b \in G[k]
    BY <2>1, <2>3, <2>4, <2>5
  <2> QED
    BY <2>6 DEF b
<1> HIDE DEF G
<1>7. f[n] \in G[n]
  <2>1. \A k \in 1 .. n : f[k - 1] \in G[k - 1] => f[k] \in G[k]
    BY <1>6
  <2>2. n \in Nat
    BY <1>3
  <2>3. \A k \in 0 .. n : f[k] \in G[k]
    BY <1>5, <2>1, <2>2, Reaches
  <2> QED
    BY <2>2, <2>3
<1>8. /\ f[n] \in S /\ f[n].vmas = m.vmas
      /\ \A v \in Pages : f[n].pte[v] = m.pte[v] \/ (q <= v /\ v < q + n)
  BY <1>3, <1>7 DEF G
<1> QED
  BY <1>1, <1>4, <1>8 DEF In, q, n

LEMMA PrependFacts ==
    ASSUME NEW T, NEW e \in T, NEW l \in Seq(T)
    PROVE  LET s == <<e>> \o l
           IN  /\ 1 \in DOMAIN s /\ s[1] = e
               /\ \A k \in DOMAIN l : k + 1 \in DOMAIN s /\ s[k + 1] = l[k]
               /\ \A j \in DOMAIN s : s[j] = e \/ \E k \in DOMAIN l : s[j] = l[k]
<1> DEFINE s == <<e>> \o l
<1>1. DOMAIN s = 1 .. (Len(l) + 1) /\ Len(l) \in Nat /\ DOMAIN l = 1 .. Len(l)
  OBVIOUS
<1>2. s[1] = e /\ \A j \in 1 .. (Len(l) + 1) : j # 1 => s[j] = l[j - 1]
  OBVIOUS
<1> HIDE DEF s
<1>3. ASSUME NEW k \in DOMAIN l PROVE k + 1 \in DOMAIN s /\ s[k + 1] = l[k]
  BY <1>1, <1>2
<1>4. ASSUME NEW j \in DOMAIN s, j # 1 PROVE j - 1 \in DOMAIN l /\ s[j] = l[j - 1]
  BY <1>1, <1>2, <1>4
<1>5. \A j \in DOMAIN s : s[j] = e \/ \E k \in DOMAIN l : s[j] = l[k]
  BY <1>2, <1>4
<1> QED
  BY <1>1, <1>2, <1>3, <1>5 DEF s

(* mmap: the new VMA covers what the loop maps, and if a frame is missing   *)
(* it goes again with all its pages.                                        *)
LEMMA MapKeeps ==
    ASSUME NEW X, NEW m, Sound(m, X), NEW start \in Nat, NEW length \in Nat,
           NEW write \in BOOLEAN, HasRoom(start, length)
    PROVE  LET vma == NewVma(start, length, write)
               a == Map(m, start, length, write)
           IN  /\ Sound(a, X)
               /\ \A j \in DOMAIN a.vmas :
                      a.vmas[j] = vma \/ \E k \in DOMAIN m.vmas : a.vmas[j] = m.vmas[k]
               /\ ~a.failed => \A v \in Pages : a.pte[v] = m.pte[v] \/ In(v, vma)
               /\ Covers(m.vmas, m) => Covers(a.vmas, a)
<1> DEFINE vma == NewVma(start, length, write)
           base == [m EXCEPT !.vmas = <<vma>> \o @]
           d == MapPages(base, vma.start, vma.end, write)
           up == AlignUp(length)
           a == Map(m, start, length, write)
<1>1. vma \in Vma
  BY NewVmaFacts
<1>2. /\ Sound(d, X) /\ d.vmas = <<vma>> \o m.vmas
      /\ \A v \in Pages : d.pte[v] = m.pte[v] \/ In(v, vma)
  <2> DEFINE u == <<vma>> \o m.vmas
  <2>1. u \in Seq(Vma) /\ base = [m EXCEPT !.vmas = u]
    <3>1. m.vmas \in Seq(Vma)
      BY SoundFacts
    <3> HIDE DEF vma
    <3> QED
      BY <1>1, <3>1
  <2> HIDE DEF u, base, vma
  <2>2. LET b == [m EXCEPT !.vmas = u]
        IN  Sound(b, X) /\ b.vmas = u /\ b.pte = m.pte /\ b.failed = m.failed
    BY <2>1, ListKeeps
  <2>3. Sound(base, X) /\ base.vmas = u /\ base.pte = m.pte
    BY <2>1, <2>2
  <2>4. LET b == MapPages(base, vma.start, vma.end, write)
        IN  /\ Sound(b, X) /\ b.vmas = base.vmas
            /\ \A v \in Pages : b.pte[v] = base.pte[v] \/ In(v, vma)
    BY <1>1, <2>3, MapPagesKeeps
  <2> QED
    BY <2>3, <2>4 DEF u
<1>3. up \in Nat /\ a = IF d.failed THEN Unmap(d, start, up) ELSE d
  BY MapIs, AlignFacts
<1>4. m.vmas \in Seq(Vma)
  BY SoundFacts
<1> HIDE DEF vma, base, d, up, a
<1>5. /\ 1 \in DOMAIN d.vmas /\ d.vmas[1] = vma
      /\ \A k \in DOMAIN m.vmas : k + 1 \in DOMAIN d.vmas /\ d.vmas[k + 1] = m.vmas[k]
      /\ \A j \in DOMAIN d.vmas : d.vmas[j] = vma \/ \E k \in DOMAIN m.vmas : d.vmas[j] = m.vmas[k]
  BY <1>1, <1>2, <1>4, PrependFacts
<1>6. Covers(m.vmas, m) => Covers(d.vmas, d)
  BY <1>2, <1>5 DEF Covers
<1>7. CASE ~d.failed
  BY <1>2, <1>3, <1>5, <1>6, <1>7 DEF vma, a
<1>8. CASE d.failed
  <2>1. a = Unmap(d, start, up)
    BY <1>3, <1>8
  <2>2. /\ Sound(a, X) /\ a.failed = d.failed
        /\ \A j \in DOMAIN a.vmas : \E k \in DOMAIN d.vmas : a.vmas[j] = d.vmas[k]
        /\ Covers(d.vmas, d) => Covers(a.vmas, a)
    <3>1. LET b == Unmap(d, start, up)
          IN  /\ Sound(b, X) /\ b.failed = d.failed
              /\ \A j \in DOMAIN b.vmas : \E k \in DOMAIN d.vmas : b.vmas[j] = d.vmas[k]
              /\ \A v \in Pages :
                     \/ b.pte[v] = d.pte[v]
                     \/ \E k \in DOMAIN d.vmas :
                            /\ In(v, d.vmas[k])
                            /\ InRange(d.vmas[k], AlignDown(start), AlignUp(start + up))
              /\ Covers(d.vmas, d) => Covers(b.vmas, b)
      BY Zenon, <1>2, <1>3, UnmapKeeps
    <3> QED
      BY <2>1, <3>1
  <2> QED
    BY <1>5, <1>6, <1>8, <2>2 DEF vma, a
<1> QED
  BY <1>7, <1>8
-----------------------------------------------------------------------------
(* The frames that other processes than p use. *)
Others(p) == UNION {Mine(Of(q)) : q \in Procs \ {p}}

(* The spaces of the processes have their types and use no frame twice. *)
Space == [vmas: Seq(Vma), tables: Tables, pte: [Pages -> Entry]]

FrameInv ==
    /\ frames \in [free: Seq(Frame), ref: [Frame -> 0 .. 1]]
    /\ space \in [Procs -> Space]
    /\ brk \in [Procs -> Nat]
    /\ \A j, k \in DOMAIN frames.free : frames.free[j] = frames.free[k] => j = k
    /\ \A p \in Procs : Sound(Of(p), Others(p))

(* Every VMA of l starts with a page, and what is present lies in one. *)
Tidy(l, m) ==
    /\ \A j \in DOMAIN l : l[j].start % PAGE_SIZE = 0
    /\ Covers(l, m)

PageAligned == \A a \in Addresses : a % PAGE_SIZE = 0

TidyInv == \A p \in Procs : brk[p] % PAGE_SIZE = 0 /\ Tidy(space[p].vmas, space[p])

(* A page lies in a VMA when it overlaps it. *)
LEMMA InFacts ==
    ASSUME NEW vma \in Vma, vma.start % PAGE_SIZE = 0, NEW v \in Pages
    PROVE  In(v, vma) <=> vma.start <= v * PAGE_SIZE /\ v * PAGE_SIZE < vma.end
BY PagesFacts DEF In, Vma, Limit

(* A call gives process p the memory m. *)
LEMMA BecomesKeeps ==
    ASSUME FrameInv, NEW p \in Procs, NEW m, Sound(m, Others(p)), Becomes(p, m),
           brk' \in [Procs -> Nat]
    PROVE  /\ FrameInv'
           /\ space'[p].vmas = m.vmas /\ space'[p].pte = m.pte
           /\ \A q \in Procs \ {p} : space'[q] = space[q]
<1>1. /\ m.free \in Seq(Frame) /\ m.ref \in [Frame -> 0 .. 1] /\ m.vmas \in Seq(Vma)
      /\ m.tables \in Tables /\ m.pte \in [Pages -> Entry]
  BY MemoryFacts DEF Sound
<1>2. /\ frames' = [free |-> m.free, ref |-> m.ref]
      /\ space' = [space EXCEPT ![p] = [vmas |-> m.vmas, tables |-> m.tables, pte |-> m.pte]]
  BY DEF Becomes
<1>3. /\ frames' \in [free: Seq(Frame), ref: [Frame -> 0 .. 1]]
      /\ space \in [Procs -> Space] /\ space' \in [Procs -> Space]
  BY <1>1, <1>2 DEF FrameInv, Space
<1>4. /\ space'[p] = [vmas |-> m.vmas, tables |-> m.tables, pte |-> m.pte]
      /\ \A q \in Procs \ {p} : space'[q] = space[q]
  BY <1>2, <1>3
<1>5. \A q \in Procs : Sound(Of(q), Others(q))
  BY DEF FrameInv
<1>6. \A q \in Procs : /\ Of(q)'.free = m.free /\ Of(q)'.ref = m.ref
                       /\ Of(q)'.vmas = space'[q].vmas /\ Of(q)'.tables = space'[q].tables
                       /\ Of(q)'.pte = space'[q].pte /\ Of(q)' \in Memory
  <2> TAKE q \in Procs
  <2>1. space'[q] \in Space
    BY <1>3
  <2>2. Of(q)' = [free |-> m.free, ref |-> m.ref, vmas |-> space'[q].vmas,
                  tables |-> space'[q].tables, pte |-> space'[q].pte, failed |-> FALSE]
    BY <1>2 DEF Of
  <2> QED
    BY <1>1, <2>1, <2>2 DEF Memory, Space
<1>7. /\ Mine(Of(p))' = Mine(m)
      /\ \A q \in Procs \ {p} : /\ Mine(Of(q))' = Mine(Of(q))
                                /\ Of(q)'.pte = Of(q).pte /\ Of(q)'.tables = Of(q).tables
  <2>1. Mine(Of(p))' = Mine(m)
    BY <1>4, <1>6 DEF Mine
  <2>2. ASSUME NEW q \in Procs \ {p}
        PROVE  Of(q)'.pte = Of(q).pte /\ Of(q)'.tables = Of(q).tables
    BY <1>4, <1>6 DEF Of
  <2>3. \A q \in Procs \ {p} : Mine(Of(q))' = Mine(Of(q))
    BY <2>2 DEF Mine
  <2> QED
    BY <2>1, <2>2, <2>3
<1>8. Others(p)' = Others(p)
  BY <1>7 DEF Others
<1>9. Sound(Of(p)', Others(p)')
  <2> DEFINE a == Of(p)'
             X == Others(p)
  <2>1. /\ a.free = m.free /\ a.ref = m.ref /\ a.tables = m.tables /\ a.pte = m.pte
        /\ a \in Memory /\ Mine(a) = Mine(m) /\ Sound(m, X)
    BY <1>4, <1>6, <1>7
  <2> HIDE DEF a, X
  <2>2. Sound(a, X)
    BY <2>1 DEF Sound
  <2> QED
    BY <1>8, <2>2 DEF a, X
<1>10. ASSUME NEW q \in Procs \ {p} PROVE Sound(Of(q)', Others(q)')
  <2> DEFINE a == Of(q)'
             b == Of(q)
             X == Others(p)
             Y == Others(q)'
             Z == Others(q)
  <2>1. /\ a.free = m.free /\ a.ref = m.ref /\ a.tables = b.tables /\ a.pte = b.pte
        /\ a \in Memory /\ Mine(a) = Mine(b) /\ Sound(m, X) /\ Sound(b, Z)
    BY <1>5, <1>6, <1>7
  <2>2. Mine(b) \subseteq X
    BY DEF Others
  <2>3. ASSUME NEW f \in Y PROVE f \in Mine(m) \/ (f \in X /\ f \in Z)
    <3>1. PICK r \in Procs \ {q} : f \in Mine(Of(r))'
      BY <2>3 DEF Others
    <3>2. CASE r = p
      BY <3>1, <3>2, <1>7
    <3>3. CASE r # p
      BY <3>1, <3>3, <1>7 DEF Others
    <3> QED
      BY <3>2, <3>3
  <2> HIDE DEF a, b, X, Y, Z
  <2>4. /\ Mine(m) \subseteq Frame /\ X \subseteq Frame
        /\ \A f \in Mine(m) : f \notin X /\ m.ref[f] = 1
    BY <2>1 DEF Sound, Mine
  <2>5. \A f \in Mine(b) : f \notin Y /\ m.ref[f] = 1
    BY <2>1, <2>2, <2>3, <2>4 DEF Sound
  <2>6. \A f \in Y : m.ref[f] = 1 /\ f \in Frame
    BY <2>1, <2>3, <2>4 DEF Sound
  <2>7. \A j \in DOMAIN m.free : m.free[j] \notin Mine(b) /\ m.free[j] \notin Y
    BY <2>1, <2>2, <2>3 DEF Sound
  <2>8. Sound(a, Y)
    BY <2>1, <2>5, <2>6, <2>7 DEF Sound
  <2> QED
    BY <2>8 DEF a, Y
<1>11. FrameInv'
  <2>1. \A j, k \in DOMAIN frames'.free : frames'.free[j] = frames'.free[k] => j = k
    BY <1>2 DEF Sound
  <2> QED
    BY <1>3, <1>9, <1>10, <2>1 DEF FrameInv
<1> QED
  BY <1>4, <1>11
-----------------------------------------------------------------------------
(* What lies below a keeps its entry. *)
KeepsBelow(a, m, b) == \A v \in Pages : v * PAGE_SIZE < a => b.pte[v] = m.pte[v]

(* munmap is such a change, and leaves what lies below its range. *)
LEMMA UnmapChange ==
    ASSUME NEW X, NEW m, Sound(m, X), NEW addr \in Nat, NEW length \in Nat
    PROVE  LET b == Unmap(m, addr, length)
           IN  /\ Sound(b, X)
               /\ Tidy(m.vmas, m) => Tidy(b.vmas, b)
               /\ Tidy(m.vmas, m) /\ addr % PAGE_SIZE = 0 => KeepsBelow(addr, m, b)
<1> DEFINE b == Unmap(m, addr, length)
           lo == AlignDown(addr)
           hi == AlignUp(addr + length)
<1>1. /\ Sound(b, X)
      /\ \A j \in DOMAIN b.vmas : \E k \in DOMAIN m.vmas : b.vmas[j] = m.vmas[k]
      /\ \A v \in Pages :
             \/ b.pte[v] = m.pte[v]
             \/ \E k \in DOMAIN m.vmas : In(v, m.vmas[k]) /\ InRange(m.vmas[k], lo, hi)
      /\ Covers(m.vmas, m) => Covers(b.vmas, b)
  BY UnmapKeeps
<1>2. \A k \in DOMAIN m.vmas : m.vmas[k] \in Vma
  <2>1. m.vmas \in Seq(Vma)
    BY SoundFacts
  <2> QED
    BY <2>1
<1>3. addr % PAGE_SIZE = 0 => lo = addr
  BY AlignFacts
<1> HIDE DEF b, lo, hi
<1>4. Tidy(m.vmas, m) => Tidy(b.vmas, b)
  BY <1>1 DEF Tidy
<1>5. ASSUME Tidy(m.vmas, m), addr % PAGE_SIZE = 0 PROVE KeepsBelow(addr, m, b)
  <2> SUFFICES ASSUME NEW v \in Pages, v * PAGE_SIZE < addr, b.pte[v] # m.pte[v] PROVE FALSE
    BY DEF KeepsBelow
  <2>1. PICK k \in DOMAIN m.vmas : In(v, m.vmas[k]) /\ InRange(m.vmas[k], lo, hi)
    BY <1>1
  <2> DEFINE vma == m.vmas[k]
  <2>2. vma \in Vma /\ vma.start % PAGE_SIZE = 0 /\ In(v, vma) /\ vma.start >= addr
    BY <1>2, <1>3, <1>5, <2>1 DEF Tidy, InRange
  <2> HIDE DEF vma
  <2>3. vma.start <= v * PAGE_SIZE /\ vma.start \in Nat /\ v * PAGE_SIZE \in Nat
    BY <2>2, InFacts, VirtualMemoryAssumption DEF Vma, Pages
  <2> QED
    BY <2>2, <2>3
<1> QED
  BY <1>1, <1>4, <1>5 DEF b

(* mmap is, and leaves what lies below its start. *)
LEMMA MapChange ==
    ASSUME NEW X, NEW m, Sound(m, X), NEW start \in Nat, NEW length \in Nat,
           NEW write \in BOOLEAN, HasRoom(start, length)
    PROVE  LET b == Map(m, start, length, write)
           IN  /\ Sound(b, X)
               /\ start % PAGE_SIZE = 0 =>
                      /\ Tidy(m.vmas, m) => Tidy(b.vmas, b)
                      /\ ~b.failed => KeepsBelow(start, m, b)
<1> DEFINE b == Map(m, start, length, write)
           vma == NewVma(start, length, write)
<1>1. /\ Sound(b, X)
      /\ \A j \in DOMAIN b.vmas :
             b.vmas[j] = vma \/ \E k \in DOMAIN m.vmas : b.vmas[j] = m.vmas[k]
      /\ ~b.failed => \A v \in Pages : b.pte[v] = m.pte[v] \/ In(v, vma)
      /\ Covers(m.vmas, m) => Covers(b.vmas, b)
  BY MapKeeps
<1>2. vma \in Vma /\ vma.start = start
  BY NewVmaFacts
<1> HIDE DEF b, vma
<1>3. start % PAGE_SIZE = 0 /\ Tidy(m.vmas, m) => Tidy(b.vmas, b)
  BY <1>1, <1>2 DEF Tidy
<1>4. ASSUME start % PAGE_SIZE = 0, ~b.failed PROVE KeepsBelow(start, m, b)
  <2> SUFFICES ASSUME NEW v \in Pages, v * PAGE_SIZE < start, b.pte[v] # m.pte[v] PROVE FALSE
    BY DEF KeepsBelow
  <2>1. In(v, vma)
    BY <1>1, <1>4
  <2>2. start <= v * PAGE_SIZE /\ v * PAGE_SIZE \in Nat
    BY <1>2, <1>4, <2>1, InFacts, VirtualMemoryAssumption DEF Pages
  <2> QED
    BY <2>2
<1> QED
  BY <1>1, <1>3, <1>4 DEF b

(* A fault maps one page, of the VMA that the address lies in. *)
LEMMA FaultChange ==
    ASSUME NEW X, NEW m, Sound(m, X), NEW a \in Nat, NEW z \in Hits(m, a), m.free # <<>>
    PROVE  LET b == MapPage(AllocPage(m), PageOf(a), Head(m.free), m.vmas[z].write)
           IN  /\ Sound(b, X)
               /\ Tidy(m.vmas, m) => Tidy(b.vmas, b)
<1> DEFINE vma == m.vmas[z]
           v == PageOf(a)
           f == Head(m.free)
           d == AllocPage(m)
           b == MapPage(d, v, f, vma.write)
<1>1. z \in DOMAIN m.vmas /\ vma \in Vma /\ vma.start <= a /\ a < vma.end
  <2>1. m.vmas \in Seq(Vma)
    BY SoundFacts
  <2> QED
    BY <2>1 DEF Hits
<1>2. PAGE_SIZE \in Nat \ {0} /\ LAST_PAGE \in Nat
  BY VirtualMemoryAssumption
<1>3. v \in Nat /\ PAGE_SIZE * v <= a /\ a < PAGE_SIZE * v + PAGE_SIZE
  BY <1>2, Division DEF PageOf
<1> HIDE DEF vma, v, f, d, b
<1>4. /\ vma.start \in Nat /\ vma.end \in Nat /\ vma.end <= (LAST_PAGE + 1) * PAGE_SIZE
      /\ vma.write \in BOOLEAN
  BY <1>1 DEF Vma
<1>5. v \in Pages
  <2>1. (LAST_PAGE + 1) * PAGE_SIZE = PAGE_SIZE * (LAST_PAGE + 1)
    BY <1>2
  <2>2. PAGE_SIZE * v < PAGE_SIZE * (LAST_PAGE + 1)
    BY <1>1, <1>2, <1>3, <1>4, <2>1
  <2>3. v < LAST_PAGE + 1
    BY <1>2, <1>3, <2>2, QuotientBelow
  <2> QED
    BY <1>2, <1>3, <2>3 DEF Pages
<1>6. f \in Frame /\ f \notin X /\ Sound(d, X \cup {f}) /\ d.pte = m.pte /\ d.vmas = m.vmas
  BY AllocKeeps DEF f, d
<1>7. Sound(b, X) /\ Like(b, d) /\ Elsewhere(b, d, v)
  BY <1>4, <1>5, <1>6, MapPageKeeps DEF b
<1>8. ASSUME vma.start % PAGE_SIZE = 0 PROVE In(v, vma)
  <2>1. PAGE_SIZE * v \in Nat /\ v * PAGE_SIZE = PAGE_SIZE * v
    BY <1>2, <1>3
  <2>2. v * PAGE_SIZE < vma.end
    BY <1>1, <1>3, <1>4, <2>1
  <2>3. vma.start <= v * PAGE_SIZE
    <3> DEFINE q == vma.start \div PAGE_SIZE
    <3>1. q \in Nat /\ vma.start = PAGE_SIZE * q
      BY <1>2, <1>4, <1>8, Division
    <3> HIDE DEF q
    <3>2. PAGE_SIZE * q < PAGE_SIZE * v + PAGE_SIZE
      BY <1>1, <1>2, <1>3, <1>4, <2>1, <3>1
    <3>3. PAGE_SIZE * q < PAGE_SIZE * (v + 1)
      BY <1>2, <1>3, <3>1, <3>2
    <3>4. q < v + 1
      BY <1>2, <1>3, <3>1, <3>3, QuotientBelow
    <3>5. PAGE_SIZE * q <= PAGE_SIZE * v
      BY <1>2, <1>3, <3>1, <3>4
    <3> QED
      BY <2>1, <3>1, <3>5
  <2> QED
    BY <1>1, <1>5, <1>8, <2>2, <2>3, InFacts
<1>9. Tidy(m.vmas, m) => Tidy(b.vmas, b)
  <2> SUFFICES ASSUME Tidy(m.vmas, m) PROVE Tidy(b.vmas, b)
    OBVIOUS
  <2>1. b.vmas = m.vmas /\ \A w \in Pages \ {v} : b.pte[w] = m.pte[w]
    BY <1>6, <1>7 DEF Like, Elsewhere
  <2>2. In(v, m.vmas[z]) /\ z \in DOMAIN m.vmas
    BY <1>1, <1>8 DEF Tidy, vma
  <2> QED
    BY <2>1, <2>2 DEF Tidy, Covers
<1> QED
  BY <1>7, <1>9 DEF b, vma, v, f, d
-----------------------------------------------------------------------------
(* What a call of p does: p's memory becomes m. *)
Change(p, m) ==
    /\ Sound(m, Others(p)) /\ Becomes(p, m)
    /\ brk' \in [Procs -> Nat] /\ \A q \in Procs \ {p} : brk'[q] = brk[q]
    /\ PageAligned /\ brk[p] % PAGE_SIZE = 0 /\ Tidy(space[p].vmas, space[p]) =>
           /\ Tidy(m.vmas, m) /\ brk'[p] % PAGE_SIZE = 0
           /\ brk'[p] # brk[p] =>
                  KeepsBelow(brk[p], space[p], m) \/ KeepsBelow(brk'[p], space[p], m)

(* Each call is a change of one process's memory. *)
LEMMA CallChange ==
    ASSUME FrameInv, NEW p \in Procs,
           \/ \E length \in Lengths, write \in BOOLEAN : Mmap(p, length, write)
           \/ \E a \in Addresses, length \in Lengths, write \in BOOLEAN :
                  MmapFixed(p, a, length, write)
           \/ \E a \in Addresses, length \in Lengths : Munmap(p, a, length)
           \/ \E a \in Addresses : Grow(p, a)
           \/ \E a \in Addresses : Shrink(p, a)
           \/ \E a \in Addresses, write \in BOOLEAN : PageFault(p, a, write)
    PROVE  \E m : Change(p, m)
<1> DEFINE X == Others(p)
           o == Of(p)
<1>1. /\ Sound(o, X) /\ o.vmas = space[p].vmas /\ o.pte = space[p].pte
      /\ brk \in [Procs -> Nat]
  BY DEF FrameInv, Of
<1>2. Addresses \subseteq Nat /\ Lengths \subseteq Nat
  BY VirtualMemoryAssumption
<1>3. /\ Tidy(space[p].vmas, space[p]) <=> Tidy(o.vmas, o)
      /\ \A b, a : KeepsBelow(a, space[p], b) <=> KeepsBelow(a, o, b)
  BY <1>1 DEF Tidy, Covers, KeepsBelow
<1> HIDE DEF X, o
<1>4. ASSUME NEW start \in Nat, NEW length \in Lengths, NEW write \in BOOLEAN,
             HasRoom(start, length), PageAligned => start % PAGE_SIZE = 0,
             Becomes(p, Map(o, start, length, write)), UNCHANGED brk
      PROVE  \E m : Change(p, m)
  <2> DEFINE m == Map(o, start, length, write)
  <2>1. Sound(m, X) /\ (start % PAGE_SIZE = 0 /\ Tidy(o.vmas, o) => Tidy(m.vmas, m))
    BY <1>1, <1>2, <1>4, MapChange
  <2> HIDE DEF m
  <2>2. Becomes(p, m)
    BY <1>4 DEF m
  <2>3. Change(p, m)
    BY <1>1, <1>3, <1>4, <2>1, <2>2 DEF Change, X
  <2> QED
    BY <2>3
<1>5. ASSUME NEW length \in Lengths, NEW write \in BOOLEAN, Mmap(p, length, write)
      PROVE  \E m : Change(p, m)
  BY <1>2, <1>4, <1>5 DEF Mmap, o
<1>6. ASSUME NEW a \in Addresses, NEW length \in Lengths, NEW write \in BOOLEAN,
             MmapFixed(p, a, length, write)
      PROVE  \E m : Change(p, m)
  BY <1>2, <1>4, <1>6 DEF MmapFixed, o, PageAligned
<1>7. ASSUME NEW a \in Addresses, NEW length \in Lengths, Munmap(p, a, length)
      PROVE  \E m : Change(p, m)
  <2> DEFINE m == Unmap(o, a, length)
  <2>1. Sound(m, X) /\ (Tidy(o.vmas, o) => Tidy(m.vmas, m))
    BY <1>1, <1>2, UnmapChange
  <2> HIDE DEF m
  <2>2. Becomes(p, m) /\ UNCHANGED brk
    BY <1>7 DEF m, Munmap, o
  <2>3. Change(p, m)
    BY <1>1, <1>3, <2>1, <2>2 DEF Change, X
  <2> QED
    BY <2>3
<1>8. ASSUME NEW a \in Addresses, Grow(p, a) PROVE \E m : Change(p, m)
  <2> DEFINE start == brk[p]
             length == a - brk[p]
             m == Map(o, start, length, TRUE)
  <2>1. a \in Nat /\ start \in Nat /\ length \in Nat /\ HasRoom(start, length)
    BY <1>1, <1>2, <1>8 DEF Grow
  <2>2. Becomes(p, m) /\ brk' = IF m.failed THEN brk ELSE [brk EXCEPT ![p] = a]
    BY <1>8 DEF Grow, o
  <2> HIDE DEF length, m
  <2>3. /\ Sound(m, X)
        /\ start % PAGE_SIZE = 0 =>
               /\ Tidy(o.vmas, o) => Tidy(m.vmas, m)
               /\ ~m.failed => KeepsBelow(start, o, m)
    BY <1>1, <2>1, MapChange DEF m
  <2>4. brk' \in [Procs -> Nat] /\ \A q \in Procs \ {p} : brk'[q] = brk[q]
    BY <1>1, <2>1, <2>2
  <2>5. \/ m.failed /\ brk' = brk
        \/ ~m.failed /\ brk'[p] = a
    <3>1. m.failed \in BOOLEAN
      BY <2>3, SoundFacts
    <3>2. [brk EXCEPT ![p] = a][p] = a
      BY <1>1
    <3> QED
      BY <2>2, <3>1, <3>2
  <2>6. CASE m.failed /\ brk' = brk
    <3>1. Change(p, m)
      BY <1>3, <2>2, <2>3, <2>4, <2>6 DEF Change, X
    <3> QED
      BY <3>1
  <2>7. CASE ~m.failed /\ brk'[p] = a
    <3>1. PageAligned => a % PAGE_SIZE = 0
      BY DEF PageAligned
    <3>2. Change(p, m)
      BY <1>3, <2>2, <2>3, <2>4, <2>7, <3>1 DEF Change, X
    <3> QED
      BY <3>2
  <2> QED
    BY <2>5, <2>6, <2>7
<1>9. ASSUME NEW a \in Addresses, Shrink(p, a) PROVE \E m : Change(p, m)
  <2> DEFINE length == brk[p] - a
             m == Unmap(o, a, length)
  <2>1. a \in Nat /\ length \in Nat
    BY <1>1, <1>2, <1>9 DEF Shrink
  <2>2. Becomes(p, m) /\ brk' = [brk EXCEPT ![p] = a]
    BY <1>9 DEF Shrink, o
  <2> HIDE DEF length, m
  <2>3. /\ Sound(m, X)
        /\ Tidy(o.vmas, o) => Tidy(m.vmas, m)
        /\ Tidy(o.vmas, o) /\ a % PAGE_SIZE = 0 => KeepsBelow(a, o, m)
    BY <1>1, <2>1, UnmapChange DEF m
  <2>4. /\ brk' \in [Procs -> Nat] /\ \A q \in Procs \ {p} : brk'[q] = brk[q]
        /\ brk'[p] = a
    BY <1>1, <2>1, <2>2
  <2>5. PageAligned => a % PAGE_SIZE = 0
    BY DEF PageAligned
  <2>6. Change(p, m)
    BY <1>3, <2>2, <2>3, <2>4, <2>5 DEF Change, X
  <2> QED
    BY <2>6
<1>10. ASSUME NEW a \in Addresses, NEW write \in BOOLEAN, PageFault(p, a, write)
       PROVE  \E m : Change(p, m)
  <2>1. PICK z \in Hits(o, a) :
            /\ o.free # <<>>
            /\ Becomes(p, MapPage(AllocPage(o), PageOf(a), Head(o.free), o.vmas[z].write))
            /\ UNCHANGED brk
    BY <1>10 DEF PageFault, o
  <2> DEFINE m == MapPage(AllocPage(o), PageOf(a), Head(o.free), o.vmas[z].write)
  <2>2. Sound(m, X) /\ (Tidy(o.vmas, o) => Tidy(m.vmas, m))
    BY <1>1, <1>2, <2>1, FaultChange
  <2>3. Becomes(p, m) /\ UNCHANGED brk
    BY <2>1
  <2> HIDE DEF m
  <2>4. Change(p, m)
    BY <1>1, <1>3, <2>2, <2>3 DEF Change, X
  <2> QED
    BY <2>4
<1> QED
  BY <1>5, <1>6, <1>7, <1>8, <1>9, <1>10

LEMMA CallsOnly == VmNext => \E p \in Procs : FrameInv => \E m : Change(p, m)
<1> SUFFICES ASSUME VmNext PROVE \E p \in Procs : FrameInv => \E m : Change(p, m)
  OBVIOUS
<1>1. PICK p \in Procs :
          \/ \E length \in Lengths, write \in BOOLEAN : Mmap(p, length, write)
          \/ \E a \in Addresses, length \in Lengths, write \in BOOLEAN :
                 MmapFixed(p, a, length, write)
          \/ \E a \in Addresses, length \in Lengths : Munmap(p, a, length)
          \/ \E a \in Addresses : Grow(p, a)
          \/ \E a \in Addresses : Shrink(p, a)
          \/ \E a \in Addresses, write \in BOOLEAN : PageFault(p, a, write)
  BY DEF VmNext
<1> QED
  BY <1>1, CallChange

(* At boot every frame is on the free list, once. *)
LEMMA FramesBegin == VmInit => FrameInv
<1> SUFFICES ASSUME VmInit PROVE FrameInv
  OBVIOUS
<1>1. FRAMES \in Nat /\ LAST_PAGE \in Nat /\ HeapBase \in Nat
  BY VirtualMemoryAssumption
<1> DEFINE l == [j \in Frame |-> FRAMES + 1 - j]
           r == [f \in Frame |-> 0]
           e == [v \in Pages |-> Unmapped]
           s == [vmas |-> <<>>, tables |-> <<>>, pte |-> e]
<1>2. frames = [free |-> l, ref |-> r] /\ space = [p \in Procs |-> s]
  BY DEF VmInit
<1>3. /\ l \in Seq(Frame) /\ DOMAIN l = Frame /\ r \in [Frame -> 0 .. 1]
      /\ \A j, k \in DOMAIN l : l[j] = l[k] => j = k
  BY <1>1 DEF Frame
<1>4. e \in [Pages -> Entry] /\ \A v \in Pages : e[v].frame = 0
  BY EntryFacts
<1>5. <<>> \in Tables /\ <<>> \in Seq(Vma) /\ DOMAIN <<>> = {}
  <2>1. <<>> \in [{} -> Frame] /\ {} \in SUBSET Nodes
    OBVIOUS
  <2>2. <<>> \in Tables
    BY <2>1, Zenon DEF Tables
  <2> QED
    BY <2>2
<1>6. brk \in [Procs -> Nat]
  BY <1>1 DEF VmInit
<1> HIDE DEF l, r, e
<1>7. \A p \in Procs : Mine(Of(p)) = {}
  <2>1. \A p \in Procs, v \in Pages : Of(p).pte[v].frame = 0
    BY <1>2, <1>4 DEF Of
  <2>2. \A p \in Procs : DOMAIN Of(p).tables = {}
    BY <1>2, <1>5 DEF Of
  <2> QED
    BY <2>1, <2>2, EntryFacts DEF Mine
<1>8. \A p \in Procs : Others(p) = {}
  BY <1>7 DEF Others
<1>9. ASSUME NEW p \in Procs PROVE Sound(Of(p), Others(p))
  <2> DEFINE a == Of(p)
  <2>1. /\ a.free = l /\ a.tables = <<>> /\ a.pte = e /\ a \in Memory
    BY <1>2, <1>3, <1>4, <1>5 DEF Of, Memory
  <2>2. Mine(a) = {}
    BY <1>7
  <2> HIDE DEF a
  <2>3. Sound(a, {})
    BY <1>3, <1>4, <1>5, <2>1, <2>2 DEF Sound
  <2> QED
    BY <1>8, <2>3 DEF a
<1>10. s \in Space
  BY <1>4, <1>5 DEF Space
<1> QED
  BY <1>2, <1>3, <1>6, <1>9, <1>10 DEF FrameInv

THEOREM FramesInvariance == VmSpec => []FrameInv
<1>1. FrameInv /\ [VmNext]_vmVars => FrameInv'
  <2> SUFFICES ASSUME FrameInv, [VmNext]_vmVars PROVE FrameInv'
    OBVIOUS
  <2>1. CASE VmNext
    <3>1. PICK p \in Procs : \E m : Change(p, m)
      BY <2>1, CallsOnly
    <3>2. PICK m : Change(p, m)
      BY <3>1
    <3> QED
      BY <3>2, BecomesKeeps DEF Change
  <2>2. CASE UNCHANGED vmVars
    BY <2>2 DEF vmVars, FrameInv, Others, Mine, Of, Sound
  <2> QED
    BY <2>1, <2>2
<1> QED
  BY <1>1, FramesBegin, PTL DEF VmSpec

(* The fields of frames and space have their types in every state. *)
THEOREM MemoryTypes == VmSpec => []VmTypeOK
<1>1. FrameInv => VmTypeOK
  <2> SUFFICES ASSUME FrameInv PROVE VmTypeOK
    OBVIOUS
  <2>1. ASSUME NEW p \in Procs
        PROVE  /\ space[p].vmas \in Seq(Vma)
               /\ space[p].pte \in [Pages -> Entry]
               /\ space[p].tables \in Tables
    BY DEF FrameInv, Space
  <2>2. ASSUME NEW p \in Procs, NEW n \in DOMAIN space[p].tables
        PROVE  n[1] \in 1 .. 3 /\ space[p].tables[n] \in Frame
    <3> DEFINE t == space[p].tables
    <3>1. DOMAIN t \subseteq Nodes /\ t[n] \in Frame
      BY <2>1, <2>2, TablesFacts
    <3>2. PICK u \in (1 .. 3) \X Pages : n = TableNode(u[1], u[2])
      BY <2>2, <3>1 DEF Nodes
    <3>3. n[1] = u[1] /\ u[1] \in 1 .. 3
      BY <3>2 DEF TableNode
    <3> QED
      BY <3>1, <3>3
  <2> QED
    BY <2>1, <2>2 DEF VmTypeOK, FrameInv
<1> QED
  BY <1>1, FramesInvariance, PTL

(* A set any two of whose members are equal has at most one. *)
LEMMA AtMostOne ==
    ASSUME NEW S, \A x, y \in S : x = y
    PROVE  Cardinality(S) \in {0, 1} /\ (S = {} => Cardinality(S) = 0)
<1>1. CASE S = {}
  BY <1>1, FS_EmptySet
<1>2. CASE S # {}
  <2>1. PICK x \in S : TRUE
    BY <1>2
  <2>2. S = {x}
    BY <2>1
  <2> QED
    BY <1>2, <2>2, FS_Singleton
<1> QED
  BY <1>1, <1>2

(* No frame has two uses, nor one while it is free: whatever the calls of   *)
(* any processes map, unmap and overwrite, and wherever the frames run out. *)
THEOREM FramesHaveOneUse == VmSpec => []OneUse
<1>1. FrameInv => OneUse
  <2> SUFFICES ASSUME FrameInv, NEW f \in Frame
               PROVE  /\ Cardinality(Uses(f))
                         + Cardinality({j \in DOMAIN frames.free : frames.free[j] = f}) <= 1
                      /\ Uses(f) # {} => frames.ref[f] = 1
    BY DEF OneUse
  <2> DEFINE Free == {j \in DOMAIN frames.free : frames.free[j] = f}
             Own(p) == {v \in Pages : space[p].pte[v].frame = f}
             Below(p) == {n \in DOMAIN space[p].tables : space[p].tables[n] = f}
  <2>1. \A p \in Procs : Sound(Of(p), Others(p))
    BY DEF FrameInv
  <2>2. \A p \in Procs : /\ Of(p).pte = space[p].pte /\ Of(p).tables = space[p].tables
                         /\ Of(p).free = frames.free /\ Of(p).ref = frames.ref
    BY DEF Of
  <2>3. \A p \in Procs : f \in Mine(Of(p)) <=> Own(p) # {} \/ Below(p) # {}
    BY <2>2 DEF Mine
  <2>4. \A p, q \in Procs : f \in Mine(Of(p)) /\ f \in Mine(Of(q)) => p = q
    BY <2>1 DEF Sound, Others
  <2>5. \A p \in Procs : /\ \A v, w \in Own(p) : v = w
                         /\ \A n, k \in Below(p) : n = k
                         /\ Own(p) = {} \/ Below(p) = {}
    BY <2>1, <2>2, EntryFacts DEF Sound
  <2>6. \A x \in Uses(f) : \E p \in Procs : \/ \E v \in Own(p) : x = <<p, v>>
                                           \/ \E n \in Below(p) : x = <<p, n>>
    <3> SUFFICES ASSUME NEW x \in Uses(f)
                 PROVE  \E p \in Procs : \/ \E v \in Own(p) : x = <<p, v>>
                                         \/ \E n \in Below(p) : x = <<p, n>>
      OBVIOUS
    <3>1. \/ x \in {u \in Procs \X Pages : space[u[1]].pte[u[2]].frame = f}
          \/ \E p \in Procs : x \in {<<p, n>> : n \in Below(p)}
      BY DEF Uses
    <3>2. CASE x \in {u \in Procs \X Pages : space[u[1]].pte[u[2]].frame = f}
      <4>1. x = <<x[1], x[2]>> /\ x[1] \in Procs /\ x[2] \in Own(x[1])
        BY <3>2
      <4> QED
        BY <4>1
    <3>3. CASE \E p \in Procs : x \in {<<p, n>> : n \in Below(p)}
      <4> HIDE DEF Below
      <4> QED
        BY <3>3
    <3> QED
      BY <3>1, <3>2, <3>3
  <2> HIDE DEF Own, Below
  <2>7. \A x \in Uses(f) : \E p \in Procs : f \in Mine(Of(p))
    BY <2>3, <2>6
  <2>8. \A x, y \in Uses(f) : x = y
    <3> TAKE x, y \in Uses(f)
    <3>1. PICK p \in Procs : (\E v \in Own(p) : x = <<p, v>>) \/ (\E n \in Below(p) : x = <<p, n>>)
      BY <2>6
    <3>2. PICK q \in Procs : (\E v \in Own(q) : y = <<q, v>>) \/ (\E n \in Below(q) : y = <<q, n>>)
      BY <2>6
    <3>3. p = q
      BY <2>3, <2>4, <3>1, <3>2
    <3> QED
      BY <2>5, <3>1, <3>2, <3>3
  <2>9. Cardinality(Uses(f)) \in {0, 1} /\ (Uses(f) = {} => Cardinality(Uses(f)) = 0)
    BY <2>8, AtMostOne
  <2>10. CASE Uses(f) = {}
    <3>1. \A x, y \in Free : x = y
      BY DEF FrameInv
    <3>2. Cardinality(Free) \in {0, 1}
      BY <3>1, AtMostOne
    <3> QED
      BY <2>9, <2>10, <3>2
  <2>11. CASE Uses(f) # {}
    <3>1. PICK p \in Procs : f \in Mine(Of(p))
      BY <2>7, <2>11
    <3>2. Free = {} /\ frames.ref[f] = 1
      BY <2>1, <2>2, <3>1 DEF Sound
    <3>3. Cardinality(Free) = 0
      BY <3>2, FS_EmptySet
    <3> QED
      BY <2>9, <3>2, <3>3
  <2> QED
    BY <2>10, <2>11
<1> QED
  BY <1>1, FramesInvariance, PTL

(* No page is present at boot. *)
LEMMA TidyBegins == ASSUME VmInit PROVE TidyInv
<1>1. HeapBase % PAGE_SIZE = 0
  BY VirtualMemoryAssumption
<1>2. \A p \in Procs : /\ brk[p] = HeapBase /\ DOMAIN space[p].vmas = {}
                       /\ \A v \in Pages : space[p].pte[v] = Unmapped
  BY DEF VmInit
<1> QED
  BY <1>1, <1>2 DEF TidyInv, Tidy, Covers

(* What one process does tidily leaves the others' spaces alone. *)
LEMMA TidyStep ==
    ASSUME PageAligned, FrameInv, TidyInv, [VmNext]_vmVars
    PROVE  /\ TidyInv'
           /\ \A p \in Procs : brk'[p] # brk[p] =>
                  \/ KeepsBelow(brk[p], space[p], space'[p])
                  \/ KeepsBelow(brk'[p], space[p], space'[p])
<1>1. CASE VmNext
  <2>1. PICK p \in Procs : \E m : Change(p, m)
    BY <1>1, CallsOnly
  <2>2. PICK m : Change(p, m)
    BY <2>1
  <2>3. /\ space'[p].vmas = m.vmas /\ space'[p].pte = m.pte
        /\ \A q \in Procs \ {p} : space'[q] = space[q] /\ brk'[q] = brk[q]
    BY <2>2, BecomesKeeps DEF Change
  <2>4. /\ Tidy(m.vmas, m) /\ brk'[p] % PAGE_SIZE = 0
        /\ brk'[p] # brk[p] =>
               KeepsBelow(brk[p], space[p], m) \/ KeepsBelow(brk'[p], space[p], m)
    BY <2>2 DEF Change, TidyInv
  <2>5. Tidy(space'[p].vmas, space'[p])
    BY <2>3, <2>4 DEF Tidy, Covers
  <2> QED
    BY <2>3, <2>4, <2>5 DEF TidyInv, KeepsBelow
<1>2. CASE UNCHANGED vmVars
  BY <1>2 DEF vmVars, TidyInv, Tidy, Covers
<1> QED
  BY <1>1, <1>2

(* When mappings begin with a page, as they do from every aligned address   *)
(* and break, VMAs cover what is present and breaks are aligned.  An access *)
(* within a page of such a VMA does what one to its first byte does.        *)
THEOREM TidyInvariance == ASSUME PageAligned PROVE VmSpec => []TidyInv
<1>1. FrameInv /\ TidyInv /\ [VmNext]_vmVars => TidyInv'
  BY TidyStep
<1>2. VmInit => TidyInv
  BY TidyBegins
<1> QED
  BY <1>1, <1>2, FramesInvariance, PTL DEF VmSpec

(* Whatever is present a later munmap finds, after overlapping mappings,    *)
(* mappings that ran out of frames half-way and faults in between.          *)
THEOREM PresentLiesInVma == ASSUME PageAligned PROVE VmSpec => []PresentIsInVma
<1>1. FrameInv /\ TidyInv => PresentIsInVma
  <2> SUFFICES ASSUME FrameInv, TidyInv, NEW p \in Procs, NEW v \in Pages,
                      space[p].pte[v] # Unmapped
               PROVE  \E j \in DOMAIN space[p].vmas :
                          /\ space[p].vmas[j].start < (v + 1) * PAGE_SIZE
                          /\ v * PAGE_SIZE < space[p].vmas[j].end
    BY DEF PresentIsInVma
  <2>1. PICK j \in DOMAIN space[p].vmas : In(v, space[p].vmas[j])
    BY DEF TidyInv, Tidy, Covers
  <2> DEFINE vma == space[p].vmas[j]
  <2>2. vma \in Vma
    <3>1. space[p].vmas \in Seq(Vma)
      BY DEF FrameInv, Space
    <3> QED
      BY <2>1, <3>1
  <2>3. vma.start % PAGE_SIZE = 0 /\ In(v, vma)
    BY <2>1 DEF TidyInv, Tidy
  <2> HIDE DEF vma
  <2>4. vma.start <= v * PAGE_SIZE /\ v * PAGE_SIZE < vma.end
    BY <2>2, <2>3, InFacts
  <2>5. vma.start < (v + 1) * PAGE_SIZE
    <3>1. PAGE_SIZE \in Nat \ {0} /\ v \in Nat /\ vma.start \in Nat
      BY <2>2, VirtualMemoryAssumption DEF Vma, Pages
    <3>2. (v + 1) * PAGE_SIZE = v * PAGE_SIZE + PAGE_SIZE /\ v * PAGE_SIZE \in Nat
      BY <3>1
    <3> QED
      BY <2>4, <3>1, <3>2
  <2> QED
    BY <2>1, <2>4, <2>5 DEF vma
<1> QED
  BY <1>1, FramesInvariance, TidyInvariance, PTL

(* A break that moves by whole pages leaves what is below it where it is,   *)
(* however often it moved before and whatever is mapped around it.          *)
THEOREM BreakKeepsHeap == ASSUME PageAligned PROVE VmSpec => BrkKeepsHeap
<1> DEFINE Keeps ==
      \A p \in Procs :
         brk'[p] # brk[p] =>
             \A v \in Pages :
                 HeapBase <= v * PAGE_SIZE /\ v * PAGE_SIZE < brk[p] /\ v * PAGE_SIZE < brk'[p]
                     => space'[p].pte[v] = space[p].pte[v]
<1>1. FrameInv /\ TidyInv /\ [VmNext]_vmVars => [Keeps]_vmVars
  BY TidyStep DEF KeepsBelow
<1>2. VmSpec => [][Keeps]_vmVars
  <2> HIDE DEF Keeps
  <2> QED
    BY <1>1, FramesInvariance, TidyInvariance, PTL DEF VmSpec
<1> QED
  BY <1>2 DEF BrkKeepsHeap
=============================================================================
