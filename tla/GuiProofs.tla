----------------------------- MODULE GuiProofs -----------------------------
(***************************************************************************)
(* For tables, texts, windows, clicks and commands of any size and number: *)
(* the two places of window_manager.c that know which window has the focus *)
(* agree, what an application still calls its window leads it to no memory *)
(* but that window's own, and what each application shows is what it holds *)
(* - its cursor, its input line, its selection, its tabs, its settings.    *)
(* The application's part of the invariant has the name of its instance:   *)
(* EdInv, TmInv, FmInv, SmInv, WbInv.                                      *)
(***************************************************************************)
EXTENDS Gui, DataLemmas, SequenceTheorems, FiniteSetTheorems, TLAPS

WmState ==
    [windows: [WinSlots -> Window], next_window_id: Nat \ {0}, focused_window: Nat,
     window_count: Int, held: SUBSET Buffers]

(* An id is given once, and to one slot. *)
IdsOK(w) ==
    \A i \in Live(w) :
        /\ w.windows[i].id < w.next_window_id
        /\ \A j \in Live(w) : w.windows[j].id = w.windows[i].id => j = i

(* FocusAgrees, of any window table. *)
FocusOK(w) ==
    /\ \A i \in Live(w) : w.windows[i].focused <=> w.windows[i].id = w.focused_window
    /\ w.focused_window # 0 => \E i \in Live(w) : w.windows[i].id = w.focused_window

(* A buffer is of one slot, which is in use, and is held. *)
BuffersOK(w) ==
    \A i \in WinSlots :
        w.windows[i].buffer # NoBuffer =>
            /\ w.windows[i].id # 0
            /\ w.windows[i].buffer \in w.held
            /\ \A j \in WinSlots : w.windows[j].buffer = w.windows[i].buffer => j = i

(* A buffer is as large as its window's place on the screen. *)
Filled(win) == win.buffer # NoBuffer => win.pixels = Area(win.rect)
SizesOK(w) == \A i \in WinSlots : Filled(w.windows[i])

(* While the count is right, a creation that passes its test finds a slot.  *)
CountOK(w) == w.window_count = Cardinality(Live(w))

Table(w) == w \in WmState /\ IdsOK(w) /\ BuffersOK(w) /\ SizesOK(w) /\ CountOK(w)
Sound(w) == Table(w) /\ FocusOK(w)
-----------------------------------------------------------------------------
(* Least is the least element of a set that has any. *)
LEMMA LeastIsIn ==
    ASSUME NEW S \in SUBSET Nat, S # {}
    PROVE  Least(S) \in S
BY LeastElement DEF Least

(* The window manager finds a slot with the id it looks for. *)
LEMMA FoundHasId ==
    ASSUME NEW w, NEW id, Named(w, id) # {}
    PROVE  /\ Least(Named(w, id)) \in WinSlots
           /\ w.windows[Least(Named(w, id))].id = id
<1>1. Named(w, id) \in SUBSET Nat
  BY WindowAssumption DEF Named, WinSlots
<1>2. Least(Named(w, id)) \in Named(w, id)
  BY <1>1, LeastIsIn
<1> QED
  BY <1>2 DEF Named

(* What kmalloc hands out is not held. *)
LEMMA NewBuffer ==
    ASSUME NEW w, NEW b \in Mallocs(w)
    PROVE  b = NoBuffer \/ b \in Buffers \ w.held
<1>1. CASE Buffers \subseteq w.held
  BY <1>1 DEF Mallocs
<1>2. CASE ~(Buffers \subseteq w.held)
  <2>1. Buffers \ w.held \in SUBSET Nat /\ Buffers \ w.held # {}
    BY <1>2, WindowAssumption DEF Buffers
  <2>2. Least(Buffers \ w.held) \in Buffers \ w.held
    BY <2>1, LeastIsIn
  <2> QED
    BY <1>2, <2>2 DEF Mallocs
<1> QED
  BY <1>1, <1>2

LEMMA AreaIsNat == ASSUME NEW r \in Rects PROVE Area(r) \in Nat
<1>1. r.width \in Nat /\ r.height \in Nat
  BY DEF Rects
<1>2. \A a, b \in Nat : a * b \in Nat
  OBVIOUS
<1> QED
  BY <1>1, <1>2 DEF Area

(* What depends on the ids, the buffers and the counters only. *)
SameWindows(v, w) ==
    /\ v \in WmState
    /\ v.next_window_id = w.next_window_id
    /\ v.window_count = w.window_count
    /\ v.held = w.held
    /\ \A i \in WinSlots : /\ v.windows[i].id = w.windows[i].id
                           /\ v.windows[i].buffer = w.windows[i].buffer
                           /\ Filled(w.windows[i]) => Filled(v.windows[i])

(* So the table is as sound as it was. *)
LEMMA SameWindowsKeep ==
    ASSUME NEW v, NEW w, Table(w), SameWindows(v, w)
    PROVE  Table(v)
<1>1. Live(v) = Live(w)
  BY DEF Live, SameWindows
<1>2. IdsOK(v)
  BY <1>1 DEF IdsOK, Table, SameWindows, Live
<1>3. BuffersOK(v)
  BY DEF BuffersOK, Table, SameWindows
<1>4. CountOK(v)
  BY <1>1 DEF CountOK, Table, SameWindows
<1>5. SizesOK(v)
  BY DEF SizesOK, Table, SameWindows
<1> QED
  BY <1>2, <1>3, <1>4, <1>5 DEF Table, SameWindows
-----------------------------------------------------------------------------
(* What wm_set_window_focus leaves, when it finds the window. *)
FocusSet(v, w, id, focused) ==
    /\ SameWindows(v, w)
    /\ v.focused_window = IF focused THEN id ELSE w.focused_window
    /\ \A i \in WinSlots :
           v.windows[i].focused = IF i = Least(Named(w, id)) THEN focused
                                  ELSE IF focused /\ w.windows[i].id # 0 THEN FALSE
                                  ELSE w.windows[i].focused

(* wm_set_window_focus does that. *)
LEMMA SetFocusSets ==
    ASSUME NEW w \in WmState, NEW id, Named(w, id) # {}, NEW focused \in BOOLEAN
    PROVE  FocusSet(SetFocus(w, id, focused), w, id, focused)
<1> DEFINE f == Least(Named(w, id))
           s(i) == IF i = f THEN [w.windows[i] EXCEPT !.focused = focused]
                   ELSE IF focused /\ w.windows[i].id # 0
                     THEN [w.windows[i] EXCEPT !.focused = FALSE]
                   ELSE w.windows[i]
           v == SetFocus(w, id, focused)
<1>1. f \in WinSlots /\ id \in Nat
  BY FoundHasId DEF WmState, Window
<1>2. v = [w EXCEPT !.windows = [i \in WinSlots |-> s(i)],
                    !.focused_window = IF focused THEN id ELSE w.focused_window]
  BY DEF SetFocus
<1>3. \A i \in WinSlots :
          /\ s(i) \in Window
          /\ s(i).id = w.windows[i].id
          /\ s(i).buffer = w.windows[i].buffer
          /\ Filled(w.windows[i]) => Filled(s(i))
          /\ s(i).focused = IF i = f THEN focused
                            ELSE IF focused /\ w.windows[i].id # 0 THEN FALSE
                            ELSE w.windows[i].focused
  <2> TAKE i \in WinSlots
  <2>1. w.windows[i] \in Window
    BY DEF WmState
  <2>2. CASE i = f
    BY <2>1, <2>2 DEF Window, Filled
  <2>3. CASE i # f
    BY <2>1, <2>3 DEF Window, Filled
  <2> QED
    BY <2>2, <2>3
<1> HIDE DEF f, s, v
<1>4. v.windows = [i \in WinSlots |-> s(i)]
      /\ v.focused_window = IF focused THEN id ELSE w.focused_window
  BY <1>2 DEF WmState
<1>5. v \in WmState
      /\ v.next_window_id = w.next_window_id
      /\ v.window_count = w.window_count
      /\ v.held = w.held
  BY <1>1, <1>2, <1>3 DEF WmState
<1> QED
  BY <1>3, <1>4, <1>5 DEF FocusSet, SameWindows, f, v

(* A window that gets the focus is the only one that has it. *)
LEMMA SetFocusKeeps ==
    ASSUME NEW w, Sound(w), NEW id
    PROVE  Sound(SetFocus(w, id, TRUE))
<1>1. CASE Named(w, id) = {}
  BY <1>1 DEF SetFocus
<1>2. CASE Named(w, id) # {}
  <2> DEFINE v == SetFocus(w, id, TRUE)
             f == Least(Named(w, id))
  <2>1. w \in WmState
    BY DEF Sound, Table
  <2>2. FocusSet(v, w, id, TRUE)
    BY <1>2, <2>1, SetFocusSets
  <2>3. f \in WinSlots /\ w.windows[f].id = id
    BY <1>2, FoundHasId
  <2> HIDE DEF v, f
  <2>4. Live(v) = Live(w)
    BY <2>2 DEF FocusSet, SameWindows, Live
  <2>5. v.focused_window = id
    BY <2>2 DEF FocusSet
  <2>6. \A i \in Live(v) : v.windows[i].focused <=> i = f
    BY <2>2, <2>4 DEF FocusSet, Live, f
  <2>7. \A i \in Live(v) : v.windows[i].id = id <=> i = f
    BY <2>2, <2>3, <2>4 DEF Sound, Table, IdsOK, FocusSet, SameWindows, Live
  <2>8. id # 0 => f \in Live(v) /\ v.windows[f].id = id
    BY <2>2, <2>3, <2>4 DEF FocusSet, SameWindows, Live
  <2>9. FocusOK(v)
    BY <2>5, <2>6, <2>7, <2>8 DEF FocusOK
  <2> QED
    BY <2>2, <2>9, SameWindowsKeep DEF Sound, FocusSet, v
<1> QED
  BY <1>1, <1>2

(* A move, a resize and a minimizing change one slot and no id, focus or    *)
(* counter.                                                                 *)
LEMMA OneSlotKeeps ==
    ASSUME NEW w, Sound(w), NEW s \in WinSlots, NEW n \in Window,
           n.id = w.windows[s].id, n.focused = w.windows[s].focused,
           n.buffer = w.windows[s].buffer, Filled(w.windows[s]) => Filled(n),
           NEW v, v = [w EXCEPT !.windows = [w.windows EXCEPT ![s] = n]]
    PROVE  Sound(v)
<1>1. w \in WmState
  BY DEF Sound, Table
<1>2. v.windows = [w.windows EXCEPT ![s] = n] /\ v.focused_window = w.focused_window
  BY <1>1 DEF WmState
<1>3. SameWindows(v, w)
  BY <1>1, <1>2 DEF WmState, SameWindows
<1>4. \A i \in WinSlots : /\ v.windows[i].focused = w.windows[i].focused
                          /\ v.windows[i].id = w.windows[i].id
  BY <1>1, <1>2 DEF WmState
<1>5. Live(v) = Live(w)
  BY <1>4 DEF Live
<1>6. FocusOK(v)
  BY <1>2, <1>4, <1>5 DEF FocusOK, Sound, Table, Live
<1> QED
  BY <1>3, <1>6, SameWindowsKeep DEF Sound

(* A window moves. *)
LEMMA MoveKeeps ==
    ASSUME NEW w, Sound(w), NEW id, NEW x \in Nat, NEW y \in Nat
    PROVE  Sound(Move(w, id, x, y))
<1>1. CASE Named(w, id) = {}
  BY <1>1 DEF Move
<1>2. CASE Named(w, id) # {}
  <2> DEFINE s == Least(Named(w, id))
             n == [w.windows[s] EXCEPT !.rect = [w.windows[s].rect EXCEPT !.x = x, !.y = y]]
  <2>1. s \in WinSlots
    BY <1>2, FoundHasId
  <2>2. w \in WmState /\ w.windows[s] \in Window
    BY <2>1 DEF Sound, Table, WmState
  <2>3. n \in Window /\ n.id = w.windows[s].id /\ n.focused = w.windows[s].focused
        /\ n.buffer = w.windows[s].buffer /\ (Filled(w.windows[s]) => Filled(n))
    BY <2>2 DEF Window, Rects, Filled, Area
  <2>4. Move(w, id, x, y) = [w EXCEPT !.windows = [w.windows EXCEPT ![s] = n]]
    BY <1>2, <2>1, <2>2 DEF Move, WmState, Window, Rects
  <2> HIDE DEF s, n
  <2> QED
    BY <2>1, <2>3, <2>4, OneSlotKeeps
<1> QED
  BY <1>1, <1>2

(* A window is minimized, or restored. *)
LEMMA MinimizeKeeps ==
    ASSUME NEW w, Sound(w), NEW s \in WinSlots
    PROVE  Sound([w EXCEPT !.windows[s].minimized = ~@])
<1> DEFINE n == [w.windows[s] EXCEPT !.minimized = ~w.windows[s].minimized]
<1>1. w \in WmState /\ w.windows[s] \in Window
  BY DEF Sound, Table, WmState
<1>2. n \in Window /\ n.id = w.windows[s].id /\ n.focused = w.windows[s].focused
      /\ n.buffer = w.windows[s].buffer /\ (Filled(w.windows[s]) => Filled(n))
  BY <1>1 DEF Window, Filled
<1>3. [w EXCEPT !.windows[s].minimized = ~@]
          = [w EXCEPT !.windows = [w.windows EXCEPT ![s] = n]]
  BY <1>1 DEF WmState
<1> HIDE DEF n
<1> QED
  BY <1>2, <1>3, OneSlotKeeps

(* No window, and no focus. *)
LEMMA EmptyIsSound ==
    ASSUME NEW v \in WmState, v.windows = [i \in WinSlots |-> Free(NoBuffer)],
           v.focused_window = 0, v.window_count = 0
    PROVE  Sound(v)
<1>1. Free(NoBuffer).id = 0 /\ Free(NoBuffer).buffer = NoBuffer /\ Filled(Free(NoBuffer))
  BY DEF Free, Filled
<1>2. Live(v) = {}
  BY <1>1 DEF Live
<1>3. CountOK(v)
  BY <1>2, FS_EmptySet DEF CountOK
<1>4. IdsOK(v) /\ FocusOK(v)
  BY <1>2 DEF IdsOK, FocusOK
<1>5. BuffersOK(v) /\ SizesOK(v)
  BY <1>1 DEF BuffersOK, SizesOK
<1> QED
  BY <1>3, <1>4, <1>5 DEF Sound, Table

(* A slot that is free is a slot. *)
LEMMA FreeIsSlot == Free(NoBuffer) \in Window
BY DEF Free, NoBuffer, NoRect, Window, Rects

(* wm_init leaves no window. *)
LEMMA WmInitIsSound ==
    ASSUME NEW w \in WmState
    PROVE  Sound(WmInit(w))
<1> DEFINE t == [i \in WinSlots |-> Free(NoBuffer)]
           v == [w EXCEPT !.windows = t, !.focused_window = 0, !.window_count = 0, !.held = {}]
<1>1. t \in [WinSlots -> Window]
  BY FreeIsSlot
<1>2. v = WmInit(w)
  BY DEF WmInit
<1> HIDE DEF t
<1>3. {} \in SUBSET Buffers /\ 0 \in Nat /\ 0 \in Int
  OBVIOUS
<1>4. v \in WmState
  BY <1>1, <1>3, Zenon DEF WmState
<1>5. v.windows = t /\ v.focused_window = 0 /\ v.window_count = 0
  BY DEF WmState
<1> QED
  BY <1>2, <1>4, <1>5, EmptyIsSound DEF t

(* Nor is there one before. *)
LEMMA WmStartIsSound == Sound(WmStart)
<1>1. WmStart \in WmState
  BY FreeIsSlot DEF WmStart, WmState
<1> QED
  BY <1>1, EmptyIsSound DEF WmStart
-----------------------------------------------------------------------------
(* There are as many windows as slots when every slot is in use. *)
LEMMA LiveIsFinite ==
    ASSUME NEW w
    PROVE  /\ IsFiniteSet(Live(w)) /\ Cardinality(Live(w)) \in Nat
           /\ Live(w) = WinSlots => Cardinality(Live(w)) = MAX_WINDOWS
<1>1. 0 \in Int /\ MAX_WINDOWS - 1 \in Int /\ MAX_WINDOWS \in Nat \ {0}
  BY WindowAssumption
<1>2. IsFiniteSet(WinSlots)
  BY <1>1, FS_Interval DEF WinSlots
<1>3. Cardinality(WinSlots) = MAX_WINDOWS
  BY <1>1, FS_Interval DEF WinSlots
<1>4. Live(w) \subseteq WinSlots
  BY DEF Live
<1> QED
  BY <1>2, <1>3, <1>4, FS_Subset, FS_CardinalityType

(* What a closed window leaves, before the focus is looked at. *)
LEMMA ReleasedLeaves ==
    ASSUME NEW w, Table(w), NEW s \in Live(w)
    PROVE  /\ Table(Released(w, s))
           /\ Released(w, s).focused_window = w.focused_window
           /\ Live(Released(w, s)) = Live(w) \ {s}
           /\ \A i \in Live(w) \ {s} : Released(w, s).windows[i] = w.windows[i]
<1> DEFINE t == [w.windows EXCEPT ![s] = Free(NoBuffer)]
           h == w.held \ {w.windows[s].buffer}
           v == [w EXCEPT !.windows = t, !.window_count = w.window_count - 1, !.held = h]
<1>1. w \in WmState /\ s \in WinSlots /\ w.windows[s].id # 0
  BY DEF Table, Live
<1>2. v = Released(w, s)
  BY <1>1 DEF Released, WmState
<1>3. t \in [WinSlots -> Window]
  BY <1>1, FreeIsSlot DEF WmState
<1>4. h \in SUBSET Buffers /\ w.window_count - 1 \in Int
  BY <1>1 DEF WmState
<1>5. t[s] = Free(NoBuffer) /\ \A i \in WinSlots \ {s} : t[i] = w.windows[i]
  BY <1>1 DEF WmState
<1>6. t[s].id = 0 /\ t[s].buffer = NoBuffer /\ Filled(t[s])
  BY <1>5 DEF Free, Filled
<1> HIDE DEF t, h
<1>7. v \in WmState
  BY <1>1, <1>3, <1>4, Zenon DEF WmState
<1>8. /\ v.windows = t /\ v.held = h /\ v.window_count = w.window_count - 1
      /\ v.focused_window = w.focused_window /\ v.next_window_id = w.next_window_id
  BY <1>1 DEF WmState
<1> HIDE DEF v
<1>9. Live(v) = Live(w) \ {s}
  BY <1>5, <1>6, <1>8 DEF Live
<1>10. \A i \in Live(v) : v.windows[i] = w.windows[i]
  BY <1>5, <1>8, <1>9 DEF Live
<1>11. IdsOK(v)
  BY <1>8, <1>9, <1>10 DEF IdsOK, Table
<1>12. BuffersOK(v)
  <2> SUFFICES ASSUME NEW i \in WinSlots, t[i].buffer # NoBuffer
               PROVE  /\ t[i].id # 0
                      /\ t[i].buffer \in h
                      /\ \A j \in WinSlots : t[j].buffer = t[i].buffer => j = i
    BY <1>8 DEF BuffersOK
  <2>1. i # s /\ t[i] = w.windows[i]
    BY <1>5, <1>6
  <2>2. w.windows[i].id # 0 /\ w.windows[i].buffer \in w.held
        /\ \A j \in WinSlots : w.windows[j].buffer = w.windows[i].buffer => j = i
    BY <2>1 DEF Table, BuffersOK
  <2>3. t[i].buffer \in h
    BY <1>1, <2>1, <2>2 DEF h
  <2> QED
    BY <1>5, <1>6, <2>1, <2>2, <2>3
<1>13. CountOK(v)
  <2>1. Cardinality(Live(w) \ {s}) = Cardinality(Live(w)) - 1
    BY LiveIsFinite, FS_RemoveElement
  <2> QED
    BY <1>8, <1>9, <2>1 DEF CountOK, Table
<1>14. SizesOK(v)
  BY <1>5, <1>6, <1>8 DEF SizesOK, Table
<1> QED
  BY <1>2, <1>7, <1>8, <1>9, <1>10, <1>11, <1>12, <1>13, <1>14 DEF Table

(* The window that gets the focus of one that closes has it alone, for the  *)
(* one that closed was the only one that had it.                            *)
LEMMA DestroyKeeps ==
    ASSUME NEW w, Sound(w), NEW id, id # 0
    PROVE  Sound(Destroy(w, id))
<1>1. CASE Named(w, id) = {}
  BY <1>1 DEF Destroy
<1>2. CASE Named(w, id) # {}
  <2> DEFINE s == Least(Named(w, id))
             g == Released(w, s)
             t == {i \in Live(g) : g.windows[i].visible}
  <2>1. s \in Live(w) /\ w.windows[s].id = id
    BY <1>2, FoundHasId DEF Live
  <2>2. /\ Table(g) /\ g.focused_window = w.focused_window /\ Live(g) = Live(w) \ {s}
        /\ \A i \in Live(g) : g.windows[i] = w.windows[i]
    BY <2>1, ReleasedLeaves DEF Sound
  <2>3. \A i \in Live(g) :
            /\ g.windows[i].focused <=> g.windows[i].id = w.focused_window
            /\ g.windows[i].id # id /\ g.windows[i].id # 0
    BY <2>1, <2>2 DEF Sound, Table, FocusOK, IdsOK, Live
  <2>4. CASE w.focused_window # id
    <3>1. Destroy(w, id) = g
      BY <1>2, <2>4 DEF Destroy
    <3>2. FocusOK(g)
      <4>1. w.focused_window # 0 => \E i \in Live(g) : g.windows[i].id = w.focused_window
        BY <2>1, <2>2, <2>4 DEF Sound, FocusOK
      <4> QED
        BY <2>2, <2>3, <4>1 DEF FocusOK
    <3> QED
      BY <2>2, <3>1, <3>2 DEF Sound
  <2>5. CASE w.focused_window = id /\ t = {}
    <3> DEFINE v == [g EXCEPT !.focused_window = 0]
    <3>1. Destroy(w, id) = v
      BY <1>2, <2>5 DEF Destroy
    <3>2. SameWindows(v, g) /\ v.windows = g.windows /\ v.focused_window = 0
      BY <2>2 DEF Table, WmState, SameWindows
    <3> HIDE DEF v
    <3>3. Live(v) = Live(g)
      BY <3>2 DEF Live
    <3>4. FocusOK(v)
      BY <2>3, <2>5, <3>2, <3>3 DEF FocusOK
    <3> QED
      BY <2>2, <3>1, <3>2, <3>4, SameWindowsKeep DEF Sound
  <2>6. CASE w.focused_window = id /\ t # {}
    <3> DEFINE f == Least(t)
               n == [g.windows[f] EXCEPT !.focused = TRUE]
               v == [g EXCEPT !.focused_window = g.windows[f].id,
                              !.windows = [g.windows EXCEPT ![f] = n]]
    <3>1. t \in SUBSET Nat
      BY WindowAssumption DEF Live, WinSlots
    <3>2. f \in t
      BY <2>6, <3>1, LeastIsIn
    <3>3. f \in Live(g) /\ f \in WinSlots /\ g \in WmState /\ g.windows[f] \in Window
      BY <2>2, <3>2 DEF Live, Table, WmState
    <3>4. Destroy(w, id) = v
      BY <1>2, <2>6, <3>3 DEF Destroy, WmState
    <3>5. n \in Window /\ n.id = g.windows[f].id /\ n.buffer = g.windows[f].buffer
          /\ n.focused = TRUE /\ (Filled(g.windows[f]) => Filled(n))
      BY <3>3 DEF Window, Filled
    <3> HIDE DEF f, n
    <3>6. v.windows = [g.windows EXCEPT ![f] = n] /\ v.focused_window = g.windows[f].id
      BY <3>3 DEF WmState
    <3>7. g.windows[f].id \in Nat
      BY <3>3 DEF Window
    <3>8. SameWindows(v, g)
      BY <3>3, <3>5, <3>7 DEF SameWindows, WmState
    <3> HIDE DEF v
    <3>9. v.windows[f] = n /\ \A i \in WinSlots \ {f} : v.windows[i] = g.windows[i]
      BY <3>3, <3>6 DEF WmState
    <3>10. Live(v) = Live(g)
      BY <3>8 DEF Live, SameWindows
    <3>11. \A i \in Live(g) : i # f => g.windows[i].id # g.windows[f].id
      BY <2>2, <3>3 DEF Table, IdsOK
    <3>12. \A i \in Live(v) : v.windows[i].focused <=> v.windows[i].id = v.focused_window
      <4> TAKE i \in Live(v)
      <4>1. CASE i = f
        BY <3>5, <3>6, <3>9, <4>1
      <4>2. CASE i # f
        <5>1. v.windows[i] = g.windows[i]
          BY <3>9, <3>10, <4>2 DEF Live
        <5> QED
          BY <2>3, <2>6, <3>6, <3>10, <3>11, <4>2, <5>1
      <4> QED
        BY <4>1, <4>2
    <3>13. FocusOK(v)
      BY <3>3, <3>5, <3>6, <3>9, <3>10, <3>12 DEF FocusOK
    <3> QED
      BY <2>2, <3>4, <3>8, <3>13, SameWindowsKeep DEF Sound
  <2> QED
    BY <2>4, <2>5, <2>6
<1> QED
  BY <1>1, <1>2

(* A slot in use gets a buffer that nobody else has, or none; its old one   *)
(* has been given back.                                                     *)
LEMMA NewBufferKeeps ==
    ASSUME NEW w, Sound(w), NEW s \in Live(w), NEW b,
           b = NoBuffer \/ b \in Buffers \ (w.held \ {w.windows[s].buffer}),
           NEW n \in Window, n.id = w.windows[s].id, n.focused = w.windows[s].focused,
           n.buffer = b, Filled(n),
           NEW v, v = [w EXCEPT !.windows = [w.windows EXCEPT ![s] = n],
                                !.held = (w.held \ {w.windows[s].buffer})
                                         \cup ({b} \ {NoBuffer})]
    PROVE  Sound(v)
<1> DEFINE t == [w.windows EXCEPT ![s] = n]
           h == (w.held \ {w.windows[s].buffer}) \cup ({b} \ {NoBuffer})
<1>1. w \in WmState /\ s \in WinSlots /\ w.windows[s].id # 0
  BY DEF Sound, Table, Live
<1>2. t \in [WinSlots -> Window] /\ h \in SUBSET Buffers
  BY <1>1 DEF WmState
<1>3. t[s] = n /\ \A i \in WinSlots \ {s} : t[i] = w.windows[i]
  BY <1>1 DEF WmState
<1>4. v = [w EXCEPT !.windows = t, !.held = h]
  OBVIOUS
<1> HIDE DEF t
<1>5. \A i \in WinSlots \ {s} : w.windows[i].buffer # NoBuffer =>
          w.windows[i].buffer \in w.held \ {w.windows[s].buffer}
  BY <1>1 DEF Sound, Table, BuffersOK
<1>6. \A i \in WinSlots \ {s} : t[i].buffer # NoBuffer =>
          t[i].id # 0 /\ t[i].buffer \in h /\ t[i].buffer # b
  BY <1>3, <1>5 DEF Sound, Table, BuffersOK
<1>7. b # NoBuffer => b \in h
  OBVIOUS
<1> HIDE DEF h
<1>8. v \in WmState
  BY <1>1, <1>2, <1>4, Zenon DEF WmState
<1>9. /\ v.windows = t /\ v.held = h /\ v.window_count = w.window_count
      /\ v.focused_window = w.focused_window /\ v.next_window_id = w.next_window_id
  BY <1>1, <1>4 DEF WmState
<1>10. \A i \in WinSlots : t[i].id = w.windows[i].id /\ t[i].focused = w.windows[i].focused
  BY <1>3
<1>11. Live(v) = Live(w)
  BY <1>9, <1>10 DEF Live
<1>12. IdsOK(v) /\ CountOK(v) /\ FocusOK(v)
  <2>1. IdsOK(v)
    BY <1>9, <1>10, <1>11 DEF Sound, Table, IdsOK, Live
  <2>2. CountOK(v)
    BY <1>9, <1>11 DEF Sound, Table, CountOK
  <2>3. FocusOK(v)
    BY <1>9, <1>10, <1>11 DEF Sound, FocusOK, Live
  <2> QED
    BY <2>1, <2>2, <2>3
<1>13. BuffersOK(v)
  <2>1. \A i \in WinSlots : t[i].buffer # NoBuffer => t[i].id # 0 /\ t[i].buffer \in h
    BY <1>1, <1>3, <1>6, <1>7
  <2>2. \A i \in WinSlots \ {s}, j \in WinSlots \ {s} :
            t[i].buffer # NoBuffer /\ t[j].buffer = t[i].buffer => j = i
    BY <1>3 DEF Sound, Table, BuffersOK
  <2>3. \A i, j \in WinSlots :
            t[i].buffer # NoBuffer /\ t[j].buffer = t[i].buffer => j = i
    BY <1>3, <1>6, <2>2
  <2> HIDE <1>6
  <2> QED
    BY <1>9, <2>1, <2>3 DEF BuffersOK
<1>14. SizesOK(v)
  BY <1>3, <1>9 DEF SizesOK, Sound, Table
<1> QED
  BY <1>8, <1>12, <1>13, <1>14 DEF Sound, Table

(* A window gets another size, and another buffer if kmalloc has one. *)
LEMMA ResizeKeeps ==
    ASSUME NEW w, Sound(w), NEW id, id # 0, NEW width \in Nat, NEW height \in Nat,
           NEW b \in ResizeMallocs(w, id)
    PROVE  Sound(Resize(w, id, width, height, b))
<1>1. CASE Named(w, id) = {}
  BY <1>1 DEF Resize
<1>2. CASE Named(w, id) # {}
  <2> DEFINE s == Least(Named(w, id))
             e == [w EXCEPT !.held = w.held \ {w.windows[s].buffer}]
             n == Resized(w.windows[s], width, height, b)
             v == [w EXCEPT !.windows = [w.windows EXCEPT ![s] = n],
                            !.held = (w.held \ {w.windows[s].buffer})
                                     \cup ({b} \ {NoBuffer})]
  <2>1. s \in Live(w) /\ s \in WinSlots
    BY <1>2, FoundHasId DEF Live
  <2>2. w \in WmState /\ w.windows[s] \in Window
    BY <2>1 DEF Sound, Table, WmState
  <2>3. b \in Mallocs(e) /\ e.held = w.held \ {w.windows[s].buffer}
    BY <1>2, <2>2 DEF ResizeMallocs, WmState
  <2>4. b = NoBuffer \/ b \in Buffers \ (w.held \ {w.windows[s].buffer})
    BY <2>3, NewBuffer
  <2>5. Resize(w, id, width, height, b) = v
    BY <1>2, <2>1, <2>2 DEF Resize, WmState
  <2> HIDE DEF s, e
  <2>6. n \in Window /\ n.id = w.windows[s].id /\ n.focused = w.windows[s].focused
        /\ n.buffer = b /\ Filled(n)
    <3> DEFINE r == [w.windows[s].rect EXCEPT !.width = width, !.height = height]
    <3>1. r \in Rects
      BY <2>2 DEF Window, Rects
    <3> HIDE DEF r
    <3>2. Area(r) \in Nat
      BY <3>1, AreaIsNat
    <3>3. n = IF b = NoBuffer THEN [w.windows[s] EXCEPT !.buffer = NoBuffer, !.pixels = 0]
              ELSE [w.windows[s] EXCEPT !.rect = r, !.buffer = b, !.pixels = Area(r)]
      BY DEF Resized, r
    <3> HIDE DEF n
    <3>4. CASE b = NoBuffer
      BY <2>2, <3>3, <3>4 DEF Window, Filled, NoBuffer
    <3>5. CASE b # NoBuffer
      <4>1. n = [w.windows[s] EXCEPT !.rect = r, !.buffer = b, !.pixels = Area(r)]
        BY <3>3, <3>5
      <4>2. b \in Buffers
        BY <2>4, <3>5
      <4>3. n.rect = r /\ n.buffer = b /\ n.pixels = Area(r)
            /\ n.id = w.windows[s].id /\ n.focused = w.windows[s].focused
        BY <2>2, <4>1 DEF Window
      <4>4. n \in Window
        BY <2>2, <3>1, <3>2, <4>1, <4>2 DEF Window
      <4> QED
        BY <4>3, <4>4 DEF Filled
    <3> QED
      BY <3>4, <3>5
  <2> HIDE DEF n
  <2>7. Sound(v)
    BY <2>1, <2>4, <2>6, NewBufferKeeps
  <2> HIDE DEF v
  <2> QED
    BY <2>5, <2>7
<1> QED
  BY <1>1, <1>2
-----------------------------------------------------------------------------
(* Below its limit, wm_create_window takes a slot that is free. *)
LEMMA FreeSlotFound ==
    ASSUME NEW w, Sound(w), ~(w.window_count >= MAX_WINDOWS)
    PROVE  Named(w, 0) # {} /\ Least(Named(w, 0)) \in WinSlots \ Live(w)
<1>1. Named(w, 0) # {}
  <2> SUFFICES ASSUME Named(w, 0) = {} PROVE FALSE
    OBVIOUS
  <2>1. Live(w) = WinSlots
    BY DEF Named, Live
  <2>2. w.window_count = MAX_WINDOWS
    BY <2>1, LiveIsFinite DEF Sound, Table, CountOK
  <2> QED
    BY <2>2, WindowAssumption
<1> QED
  BY <1>1, FoundHasId DEF Live

(* Without memory, nothing but an id is used. *)
LEMMA FailedCreateKeeps ==
    ASSUME NEW w, Sound(w), NEW s \in WinSlots \ Live(w), NEW v,
           v = [w EXCEPT !.next_window_id = w.next_window_id + 1,
                         !.windows = [w.windows EXCEPT ![s] = Free(NoBuffer)]]
    PROVE  Sound(v)
<1> DEFINE t == [w.windows EXCEPT ![s] = Free(NoBuffer)]
<1>1. w \in WmState /\ w.windows[s].id = 0
  BY DEF Sound, Table, Live
<1>2. t[s].id = 0 /\ t[s].buffer = NoBuffer /\ \A i \in WinSlots \ {s} : t[i] = w.windows[i]
  BY <1>1 DEF WmState, Free
<1>3. t \in [WinSlots -> Window]
  BY <1>1, FreeIsSlot DEF WmState
<1> HIDE DEF t
<1>4. v = [w EXCEPT !.next_window_id = w.next_window_id + 1, !.windows = t]
  BY DEF t
<1>5. w.next_window_id + 1 \in Nat \ {0}
  BY <1>1 DEF WmState
<1>6. v \in WmState
  BY <1>1, <1>3, <1>4, <1>5, Zenon DEF WmState
<1>7. /\ v.windows = t /\ v.held = w.held /\ v.window_count = w.window_count
      /\ v.focused_window = w.focused_window /\ v.next_window_id = w.next_window_id + 1
  BY <1>1, <1>4 DEF WmState
<1>8. Live(v) = Live(w)
  BY <1>1, <1>2, <1>7 DEF Live
<1>9. \A i \in Live(v) : v.windows[i] = w.windows[i] /\ w.windows[i].id \in Nat
  BY <1>1, <1>2, <1>7, <1>8 DEF Live, WmState, Window
<1>10. IdsOK(v)
  <2>1. \A i \in Live(v) : w.windows[i].id < v.next_window_id
    BY <1>1, <1>7, <1>8, <1>9 DEF Sound, Table, IdsOK, WmState
  <2> QED
    BY <1>8, <1>9, <2>1 DEF Sound, Table, IdsOK
<1>11. FocusOK(v)
  BY <1>7, <1>8, <1>9 DEF Sound, FocusOK
<1>12. CountOK(v)
  BY <1>7, <1>8 DEF Sound, Table, CountOK
<1>13. BuffersOK(v) /\ SizesOK(v)
  <2>1. Filled(t[s])
    BY <1>2 DEF Filled
  <2> QED
    BY <1>2, <1>7, <2>1 DEF Sound, Table, BuffersOK, SizesOK
<1> QED
  BY <1>6, <1>10, <1>11, <1>12, <1>13 DEF Sound, Table

(* The three writes of a creation that succeeds: the slot, the focus of the *)
(* window that had it, the counters.                                        *)
Entered(n, w, s, k) ==
    n = [w EXCEPT !.next_window_id = w.next_window_id + 1,
                  !.windows = [w.windows EXCEPT ![s] = k]]
Unfocused(u, n) ==
    u = IF n.focused_window = 0 THEN n ELSE SetFocus(n, n.focused_window, FALSE)
Counted(v, u, id, b) ==
    v = [u EXCEPT !.focused_window = id, !.window_count = u.window_count + 1,
                  !.held = u.held \cup {b}]

(* The new window has the focus, and the one that had it has been told. *)
LEMMA OpenedKeeps ==
    ASSUME NEW w, Sound(w), NEW s \in WinSlots \ Live(w), NEW b \in Buffers \ w.held,
           NEW k \in Window, k.id = w.next_window_id, k.focused = TRUE, k.buffer = b,
           Filled(k),
           NEW n, Entered(n, w, s, k), NEW u, Unfocused(u, n),
           NEW v, Counted(v, u, w.next_window_id, b)
    PROVE  Sound(v)
<1> DEFINE t == [w.windows EXCEPT ![s] = k]
           id == w.next_window_id
<1>1. w \in WmState /\ w.windows[s].id = 0 /\ id \in Nat \ {0}
  BY DEF Sound, Table, Live, WmState
<1>2. t[s] = k /\ \A i \in WinSlots \ {s} : t[i] = w.windows[i]
  BY <1>1 DEF WmState
<1>3. t \in [WinSlots -> Window]
  BY <1>1 DEF WmState
<1> HIDE DEF t
<1>4. n = [w EXCEPT !.next_window_id = id + 1, !.windows = t]
  BY DEF t, Entered
<1>5. n \in WmState
  <2>1. id + 1 \in Nat \ {0}
    BY <1>1
  <2> QED
    BY <1>1, <1>3, <1>4, <2>1, Zenon DEF WmState
<1>6. /\ n.windows = t /\ n.held = w.held /\ n.window_count = w.window_count
      /\ n.focused_window = w.focused_window /\ n.next_window_id = id + 1
  BY <1>1, <1>4 DEF WmState
<1>7. Live(n) = Live(w) \cup {s}
  BY <1>1, <1>2, <1>6 DEF Live
<1>8. \A i \in Live(w) : i # s /\ i \in WinSlots /\ t[i] = w.windows[i]
                         /\ w.windows[i].id < id /\ w.windows[i].id # id
  <2> TAKE i \in Live(w)
  <2>1. i # s /\ i \in WinSlots
    BY DEF Live
  <2>2. w.windows[i].id < id /\ w.windows[i].id \in Nat
    BY <1>1, <2>1 DEF Sound, Table, IdsOK, WmState, Window
  <2> QED
    BY <1>1, <1>2, <2>1, <2>2
<1>9. SameWindows(u, n) /\ \A i \in Live(n) : u.windows[i].focused <=> i = s
  <2>1. CASE w.focused_window = 0
    <3>1. u = n
      BY <1>6, <2>1 DEF Unfocused
    <3>2. \A i \in Live(w) : ~w.windows[i].focused
      BY <2>1 DEF Sound, FocusOK, Live
    <3> QED
      BY <1>2, <1>5, <1>6, <1>7, <1>8, <3>1, <3>2 DEF SameWindows
  <2>2. CASE w.focused_window # 0
    <3> DEFINE o == w.focused_window
               f == Least(Named(n, o))
    <3>1. PICK h \in Live(w) : w.windows[h].id = o
      BY <2>2 DEF Sound, FocusOK
    <3>2. h \in Named(n, o)
      BY <1>6, <1>8, <3>1 DEF Named
    <3>3. f \in WinSlots /\ n.windows[f].id = o
      BY <3>2, FoundHasId
    <3>4. FocusSet(u, n, o, FALSE)
      BY <1>5, <1>6, <2>2, <3>2, SetFocusSets DEF Unfocused
    <3> HIDE DEF f
    <3>5. o < id /\ o # id
      BY <1>8, <3>1
    <3>6. f # s
      BY <1>2, <1>6, <3>3, <3>5
    <3>7. \A i \in Live(n) : u.windows[i].focused = IF i = f THEN FALSE ELSE t[i].focused
      BY <1>6, <3>4 DEF FocusSet, Live, f
    <3>8. \A i \in Live(w) : w.windows[i].focused => i = f
      <4>1. f \in Live(w) /\ w.windows[f].id = o
        BY <1>2, <1>6, <2>2, <3>3, <3>6 DEF Live
      <4> QED
        BY <4>1 DEF Sound, Table, FocusOK, IdsOK
    <3> QED
      BY <1>2, <1>7, <1>8, <3>4, <3>6, <3>7, <3>8 DEF FocusSet
  <2> QED
    BY <2>1, <2>2
<1>10. /\ v.windows = u.windows /\ v.held = w.held \cup {b}
       /\ v.window_count = w.window_count + 1
       /\ v.focused_window = id /\ v.next_window_id = id + 1
  BY <1>6, <1>9 DEF SameWindows, WmState, Counted
<1>11. v \in WmState
  <2>1. u.window_count + 1 \in Int /\ u.held \cup {b} \in SUBSET Buffers /\ u \in WmState
        /\ id \in Nat
    BY <1>1, <1>9 DEF SameWindows, WmState
  <2> QED
    BY <2>1, Zenon DEF WmState, Counted
<1> HIDE DEF id
<1>12. \A i \in WinSlots : v.windows[i].id = t[i].id /\ v.windows[i].buffer = t[i].buffer
  BY <1>6, <1>9, <1>10 DEF SameWindows
<1>13. Live(v) = Live(w) \cup {s} /\ s \notin Live(w)
  BY <1>6, <1>7, <1>12 DEF Live
<1>14. \A i \in Live(v) : IF i = s THEN v.windows[i].id = id
                          ELSE i \in Live(w) /\ v.windows[i].id = w.windows[i].id
  BY <1>2, <1>8, <1>12, <1>13 DEF id
<1>15. IdsOK(v)
  <2>1. \A i \in Live(v) : v.windows[i].id < v.next_window_id
    <3> TAKE i \in Live(v)
    <3>1. CASE i = s
      BY <1>1, <1>10, <1>14, <3>1 DEF id
    <3>2. CASE i # s
      <4>1. v.windows[i].id < id /\ v.windows[i].id \in Nat /\ id \in Nat
        BY <1>1, <1>8, <1>14, <3>2 DEF WmState, Window
      <4> QED
        BY <1>10, <4>1
    <3> QED
      BY <3>1, <3>2
  <2>2. \A i, j \in Live(v) : v.windows[j].id = v.windows[i].id => j = i
    BY <1>8, <1>14 DEF Sound, Table, IdsOK
  <2> QED
    BY <2>1, <2>2 DEF IdsOK
<1>16. FocusOK(v)
  <2>1. \A i \in Live(v) : v.windows[i].focused <=> i = s
    BY <1>7, <1>9, <1>10, <1>13
  <2>2. \A i \in Live(v) : v.windows[i].id = id <=> i = s
    BY <1>8, <1>14
  <2> QED
    BY <1>10, <1>13, <2>1, <2>2 DEF FocusOK
<1>17. CountOK(v)
  <2>1. Cardinality(Live(w) \cup {s}) = Cardinality(Live(w)) + 1
    BY <1>13, LiveIsFinite, FS_AddElement
  <2> QED
    BY <1>10, <1>13, <2>1 DEF Sound, Table, CountOK
<1>18. BuffersOK(v)
  <2>1. \A i \in WinSlots \ {s} : t[i].buffer # NoBuffer =>
            t[i].id # 0 /\ t[i].buffer \in w.held /\ t[i].buffer # b
    BY <1>2 DEF Sound, Table, BuffersOK
  <2>2. t[s].id # 0 /\ t[s].buffer = b
    BY <1>1, <1>2 DEF id
  <2>3. \A i \in WinSlots : t[i].buffer # NoBuffer => t[i].id # 0 /\ t[i].buffer \in v.held
    BY <1>10, <2>1, <2>2
  <2>4. \A i \in WinSlots \ {s}, j \in WinSlots \ {s} :
            t[i].buffer # NoBuffer /\ t[j].buffer = t[i].buffer => j = i
    BY <1>2 DEF Sound, Table, BuffersOK
  <2>5. \A i, j \in WinSlots :
            t[i].buffer # NoBuffer /\ t[j].buffer = t[i].buffer => j = i
    BY <2>1, <2>2, <2>4
  <2> QED
    BY <1>12, <2>3, <2>5 DEF BuffersOK
<1>19. SizesOK(v)
  <2>1. \A i \in WinSlots : Filled(t[i])
    BY <1>2 DEF Sound, Table, SizesOK
  <2> QED
    BY <1>6, <1>9, <1>10, <2>1 DEF SameWindows, SizesOK
<1> QED
  BY <1>11, <1>15, <1>16, <1>17, <1>18, <1>19 DEF Sound, Table

(* A window is opened, or fails to open in any of the ways the code        *)
(* knows.                                                                  *)
LEMMA CreateKeeps ==
    ASSUME NEW w, Sound(w), NEW r \in Rects, NEW b \in Mallocs(w)
    PROVE  Sound(Create(w, r, b))
<1>1. CASE w.window_count >= MAX_WINDOWS
  BY <1>1 DEF Create
<1>2. CASE ~(w.window_count >= MAX_WINDOWS)
  <2> DEFINE s == IF Named(w, 0) = {} THEN 0 ELSE Least(Named(w, 0))
             id == w.next_window_id
             k == [id |-> id, rect |-> r, visible |-> TRUE, focused |-> TRUE,
                   minimized |-> FALSE, buffer |-> b, pixels |-> Area(r)]
             x == IF b = NoBuffer THEN Free(NoBuffer) ELSE k
             n == [w EXCEPT !.next_window_id = @ + 1, !.windows[s] = x]
             u == IF n.focused_window = 0 THEN n ELSE SetFocus(n, n.focused_window, FALSE)
             v == [u EXCEPT !.focused_window = id, !.window_count = @ + 1,
                            !.held = @ \cup {b}]
  <2>1. Named(w, 0) # {} /\ s \in WinSlots \ Live(w)
    BY <1>2, FreeSlotFound
  <2>2. w \in WmState
    BY DEF Sound, Table
  <2>3. n = [w EXCEPT !.next_window_id = w.next_window_id + 1,
                      !.windows = [w.windows EXCEPT ![s] = x]]
    BY <2>2 DEF WmState
  <2>4. Create(w, r, b) = IF b = NoBuffer THEN n ELSE v
    BY <1>2 DEF Create
  <2>5. CASE b = NoBuffer
    <3>1. x = Free(NoBuffer)
      BY <2>5
    <3> HIDE DEF s, x, n
    <3>2. Sound(n)
      BY <2>1, <2>3, <3>1, FailedCreateKeeps
    <3> QED
      BY <2>4, <2>5, <3>2
  <2>6. CASE b # NoBuffer
    <3>1. b \in Buffers \ w.held
      BY <2>6, NewBuffer
    <3>2. r \in Rects /\ Area(r) \in Nat
      BY AreaIsNat
    <3>3. x \in Window /\ x.id = id /\ x.focused = TRUE /\ x.buffer = b /\ Filled(x)
      BY <2>2, <2>6, <3>1, <3>2 DEF Window, WmState, Filled
    <3>4. Entered(n, w, s, x) /\ Unfocused(u, n) /\ Counted(v, u, id, b)
      BY <2>3 DEF Entered, Unfocused, Counted
    <3> HIDE DEF s, x, n, u, v
    <3>5. Sound(v)
      BY <2>1, <3>1, <3>3, <3>4, OpenedKeeps
    <3> QED
      BY <2>4, <2>6, <3>5
  <2> QED
    BY <2>5, <2>6
<1> QED
  BY <1>1, <1>2

(* A click focuses a window, and closes or minimizes it if it hit the      *)
(* button.                                                                 *)
LEMMA WmClickKeeps ==
    ASSUME NEW w, Sound(w), NEW p
    PROVE  Sound(WmClick(w, p))
<1>1. CASE Hit(w, p) = {}
  BY <1>1 DEF WmClick
<1>2. CASE Hit(w, p) # {}
  <2> DEFINE s == Least(Hit(w, p))
             g == SetFocus(w, w.windows[s].id, TRUE)
  <2>1. Hit(w, p) \in SUBSET Nat
    BY WindowAssumption DEF Hit, Live, WinSlots
  <2>2. s \in Hit(w, p)
    BY <1>2, <2>1, LeastIsIn
  <2>3. s \in WinSlots /\ w.windows[s].id # 0
    BY <2>2 DEF Hit, Live
  <2>4. Sound(g)
    BY SetFocusKeeps
  <2>5. Sound(Destroy(g, w.windows[s].id))
    BY <2>3, <2>4, DestroyKeeps
  <2>6. Sound([g EXCEPT !.windows[s].minimized = ~@])
    BY <2>3, <2>4, MinimizeKeeps
  <2> QED
    BY <1>2, <2>4, <2>5, <2>6 DEF WmClick
<1> QED
  BY <1>1, <1>2
-----------------------------------------------------------------------------
(* The desktop's steps go on from one table to the next. *)
Goes(d) == "wm" \in DOMAIN d /\ Sound(d.wm)

(* An application is launched. *)
LEMMA LaunchKeeps ==
    ASSUME NEW d, Goes(d), NEW k \in Kinds, NEW e \in Launch(d, k)
    PROVE  Goes(e)
<1>1. PICK b \in Mallocs(d.wm) :
          e = [d EXCEPT !.wm   = Create(@, AppRect[k], b),
                        !.tabs = AddTab(@, Created(d.wm, b)),
                        !.apps = Enter(@, k, Created(d.wm, b))]
  BY DEF Launch
<1>2. "wm" \in DOMAIN e /\ e.wm = Create(d.wm, AppRect[k], b)
  BY <1>1 DEF Goes
<1>3. AppRect[k] \in Rects
  BY DesktopAssumption
<1> QED
  BY <1>2, <1>3, CreateKeeps DEF Goes

(* Three are launched in a row. *)
LEMMA LaunchDemoKeeps ==
    ASSUME NEW d, Goes(d), NEW e \in LaunchDemo(d)
    PROVE  Goes(e)
<1>1. PICK f \in Launch(d, "terminal") : \E g \in Launch(f, "files") : e \in Launch(g, "editor")
  BY DEF LaunchDemo
<1>2. PICK g \in Launch(f, "files") : e \in Launch(g, "editor")
  BY <1>1
<1>3. Goes(f)
  BY LaunchKeeps DEF Kinds
<1>4. Goes(g)
  BY <1>3, LaunchKeeps DEF Kinds
<1> QED
  BY <1>2, <1>4, LaunchKeeps DEF Kinds

(* A step begins with the table as it is. *)
LEMMA NowGoes ==
    ASSUME Sound(wm)
    PROVE  Goes(Now)
BY DEF Goes, Now

(* A click on the desktop. *)
LEMMA DesktopClickKeeps ==
    ASSUME Sound(wm), NEW p, NEW d \in DesktopClick(p)
    PROVE  Goes(d)
<1>1. Goes(Now)
  BY NowGoes
<1>2. CASE OnStart(p)
  <2>1. d = [Now EXCEPT !.menu = ~@]
    BY <1>2 DEF DesktopClick
  <2> QED
    BY <1>1, <2>1 DEF Goes, Now
<1>3. CASE ~OnStart(p) /\ TabAt(p) # {}
  <2> DEFINE i == Least(TabAt(p))
             id == taskbar[i].window_id
             u == [j \in DOMAIN taskbar |-> [taskbar[j] EXCEPT !.active = (j = i)]]
  <2>1. d = [Now EXCEPT !.wm = SetFocus(@, id, TRUE), !.tabs = u]
    BY <1>3 DEF DesktopClick
  <2> HIDE DEF id, u
  <2>2. "wm" \in DOMAIN d /\ d.wm = SetFocus(wm, id, TRUE)
    BY <2>1 DEF Now
  <2> QED
    BY <2>2, SetFocusKeeps DEF Goes
<1>4. CASE ~OnStart(p) /\ TabAt(p) = {} /\ IconAt(p) # {}
  <2>1. \/ d \in Launch(Now, "terminal")
        \/ d \in Launch(Now, "files")
        \/ d \in Launch(Now, "editor")
        \/ d = Now
    BY <1>4 DEF DesktopClick
  <2> QED
    BY <1>1, <2>1, LaunchKeeps DEF Kinds
<1>5. CASE ~OnStart(p) /\ TabAt(p) = {} /\ IconAt(p) = {}
  <2>1. d = [Now EXCEPT !.menu = FALSE]
    BY <1>5 DEF DesktopClick
  <2> QED
    BY <1>1, <2>1 DEF Goes, Now
<1> QED
  BY <1>2, <1>3, <1>4, <1>5

(* Every step of the desktop leaves the window table sound. *)
LEMMA WmNext ==
    ASSUME Sound(wm), [Next]_vars
    PROVE  Sound(wm')
<1>1. CASE UNCHANGED vars
  BY <1>1 DEF vars
<1>2. ASSUME NEW who \in {"gui", "demo"}, GuiInit(who) PROVE Sound(wm')
  BY <1>2, WmInitIsSound DEF GuiInit, Sound, Table
<1>3. CASE KeyCtrl
  BY <1>3 DEF KeyCtrl
<1>4. CASE KeyAlt
  BY <1>4 DEF KeyAlt
<1>5. ASSUME NEW k \in Kinds, KeyLaunch(k) PROVE Sound(wm')
  <2>1. PICK d \in IF ctrl /\ alt THEN Launch(Now, k) ELSE {Now} : Becomes(d)
    BY <1>5 DEF KeyLaunch
  <2>2. Goes(d)
    BY <2>1, NowGoes, LaunchKeeps
  <2> QED
    BY <2>1, <2>2 DEF Becomes, Goes
<1>6. CASE KeyQuit
  <2>1. CASE ctrl /\ alt
    <3>1. PICK d \in IF mode = "demo" THEN LaunchDemo(Now) ELSE {Now} : Becomes(d)
      BY <1>6, <2>1 DEF KeyQuit
    <3>2. Goes(d)
      BY <3>1, NowGoes, LaunchDemoKeeps
    <3> QED
      BY <3>1, <3>2 DEF Becomes, Goes
  <2>2. CASE ~(ctrl /\ alt)
    BY <1>6, <2>2 DEF KeyQuit
  <2> QED
    BY <2>1, <2>2
<1>7. ASSUME NEW p \in Points, Click(p) PROVE Sound(wm')
  <2>1. PICK d \in DesktopClick(p) : Becomes([d EXCEPT !.wm = WmClick(@, p)])
    BY <1>7 DEF Click
  <2>2. Goes(d)
    BY <2>1, DesktopClickKeeps
  <2>3. wm' = WmClick(d.wm, p)
    BY <2>1, <2>2 DEF Becomes, Goes
  <2> QED
    BY <2>2, <2>3, WmClickKeeps DEF Goes
<1>8. ASSUME NEW id \in LiveIds PROVE id # 0
  BY DEF LiveIds, Live
<1>9. ASSUME NEW id \in LiveIds, EventClose(id) PROVE Sound(wm')
  <2>1. wm' = Destroy(wm, id)
    BY <1>9 DEF EventClose, Becomes, Now
  <2> QED
    BY <1>8, <2>1, DestroyKeeps
<1>10. ASSUME NEW id \in LiveIds, EventFocus(id) PROVE Sound(wm')
  BY <1>10, SetFocusKeeps DEF EventFocus
<1>11. ASSUME NEW id \in LiveIds, NEW to \in MoveTo, EventMove(id, to) PROVE Sound(wm')
  <2>1. to.x \in Nat /\ to.y \in Nat
    BY DesktopAssumption
  <2> QED
    BY <1>11, <2>1, MoveKeeps DEF EventMove
<1>12. ASSUME NEW id \in LiveIds, NEW size \in Sizes, EventResize(id, size) PROVE Sound(wm')
  <2>1. size.width \in Nat /\ size.height \in Nat
    BY DesktopAssumption
  <2>2. PICK b \in ResizeMallocs(wm, id) : wm' = Resize(wm, id, size.width, size.height, b)
    BY <1>12 DEF EventResize
  <2> QED
    BY <1>8, <2>1, <2>2, ResizeKeeps
<1>13. ASSUME NEW k \in {"terminal", "editor"}, NEW i \in DOMAIN apps[k], Quit(k, i)
       PROVE  Sound(wm')
  <2> DEFINE id == apps[k][i].window_id
  <2>1. id # 0 /\ wm' = Destroy(wm, id)
    BY <1>13 DEF Quit, Becomes, Now
  <2> QED
    BY <2>1, DestroyKeeps
<1> QED
  BY <1>1, <1>2, <1>3, <1>4, <1>5, <1>6, <1>7, <1>9, <1>10, <1>11, <1>12, <1>13 DEF Next

WmSound == Sound(wm)

(* So the window table is sound in every state. *)
LEMMA SoundForever == Spec => []WmSound
<1>1. Init => WmSound
  BY WmStartIsSound DEF Init, WmSound
<1>2. WmSound /\ [Next]_vars => WmSound'
  BY WmNext DEF WmSound
<1> QED
  BY <1>1, <1>2, PTL DEF Spec
-----------------------------------------------------------------------------
(* The two places that know the focus agree, for any number of windows,     *)
(* any places and sizes, any clicks, and whatever kmalloc fails to give: a  *)
(* window of window_manager.c is drawn as focused exactly if its id is in   *)
(* focused_window, and that id is 0 or a window's.                          *)
THEOREM FocusAlwaysAgrees == Spec => []FocusAgrees
<1>1. WmSound => FocusAgrees
  BY DEF WmSound, Sound, FocusOK, FocusAgrees
<1> QED
  BY <1>1, SoundForever, PTL

(* Whatever id an application of desktop.c's has kept, of a window that is  *)
(* there, that is gone or that never came, wm_get_window_buffer leads it to *)
(* memory that is held for that one window and as large as wm_render reads  *)
(* it, or to none.                                                          *)
THEOREM BuffersAreOwn == Spec => []BufferIsOwn
<1>1. WmSound => BufferIsOwn
  <2> SUFFICES ASSUME Sound(wm), NEW k \in Kinds, NEW i \in DOMAIN apps[k],
                      BufferOf(wm, apps[k][i].window_id) # NoBuffer
               PROVE  LET id == apps[k][i].window_id
                      IN  /\ BufferOf(wm, id) \in wm.held
                          /\ \A j \in WinSlots :
                                 wm.windows[j].buffer = BufferOf(wm, id) =>
                                     /\ wm.windows[j].id = id /\ id # 0
                                     /\ wm.windows[j].pixels = Area(wm.windows[j].rect)
    BY DEF BufferIsOwn, WmSound
  <2> DEFINE id == apps[k][i].window_id
             s == Least(Named(wm, id))
  <2> HIDE DEF id
  <2>1. Named(wm, id) # {} /\ BufferOf(wm, id) = wm.windows[s].buffer
    BY DEF BufferOf, id
  <2>2. s \in WinSlots /\ wm.windows[s].id = id
    BY <2>1, FoundHasId
  <2> HIDE DEF s
  <2>3. wm.windows[s].buffer # NoBuffer
    BY <2>1 DEF id
  <2> QED
    BY <2>1, <2>2, <2>3 DEF Sound, Table, BuffersOK, SizesOK, Filled, id
<1> QED
  BY <1>1, SoundForever, PTL
-----------------------------------------------------------------------------
(* A window as the taskbar and the applications hold it.                    *)
Holder == [window_id: Nat, active: BOOLEAN]

TabsOK(t) == t \in Seq(Holder) /\ Len(t) <= MAX_TASKBAR_ITEMS

TableOK(a) == a \in [Kinds -> Seq(Holder)] /\ \A k \in Kinds : Len(a[k]) <= Limit[k]

(* What a step of the desktop's goes on with, besides the windows.          *)
Holds(d) ==
    /\ {"wm", "tabs", "apps", "menu"} \subseteq DOMAIN d
    /\ TabsOK(d.tabs) /\ TableOK(d.apps) /\ d.menu \in BOOLEAN

DeskTyped ==
    /\ TabsOK(taskbar) /\ TableOK(apps)
    /\ start_menu_open \in BOOLEAN
    /\ icons \subseteq Icons /\ icon_count \in Nat
    /\ mode \in {"text", "gui", "demo"}
    /\ ctrl \in BOOLEAN /\ alt \in BOOLEAN

(* The tabs, each in its place, with another active one. *)
LEMMA AsManyTabs ==
    ASSUME NEW t \in Seq(Holder), NEW u, u = [j \in DOMAIN t |-> u[j]],
           \A j \in DOMAIN t : u[j] \in Holder
    PROVE  u \in Seq(Holder) /\ Len(u) = Len(t)
<1>1. DOMAIN t = 1 .. Len(t) /\ Len(t) \in Nat
  OBVIOUS
<1>2. u \in [1 .. Len(t) -> Holder]
  BY <1>1
<1>3. u \in Seq(Holder)
  BY <1>1, <1>2
<1>4. DOMAIN u = 1 .. Len(t)
  BY <1>2
<1>5. Len(u) = Len(t)
  BY <1>1, <1>3, <1>4
<1> QED
  BY <1>3, <1>5

(* A window that is marked active, or not. *)
LEMMA MarkedHolder ==
    ASSUME NEW h \in Holder, NEW b \in BOOLEAN
    PROVE  [h EXCEPT !.active = b] \in Holder
BY DEF Holder

(* A tab is added, made the active one, or removed. *)
LEMMA AddTabKeeps ==
    ASSUME NEW t, TabsOK(t), NEW id \in Nat
    PROVE  TabsOK(AddTab(t, id))
<1>1. CASE Len(t) >= MAX_TASKBAR_ITEMS
  BY <1>1 DEF AddTab
<1>2. CASE ~(Len(t) >= MAX_TASKBAR_ITEMS)
  <2> DEFINE u == [j \in DOMAIN t |-> [t[j] EXCEPT !.active = FALSE]]
             h == [window_id |-> id, active |-> TRUE]
  <2>1. t \in Seq(Holder) /\ Len(t) \in Nat
    BY DEF TabsOK
  <2>2. u \in Seq(Holder) /\ Len(u) = Len(t)
    <3>1. ASSUME NEW j \in DOMAIN t PROVE u[j] \in Holder
      <4>1. t[j] \in Holder
        BY <2>1
      <4>2. FALSE \in BOOLEAN
        OBVIOUS
      <4>3. u[j] = [t[j] EXCEPT !.active = FALSE]
        OBVIOUS
      <4> HIDE DEF u
      <4> QED
        BY <4>1, <4>2, <4>3, MarkedHolder
    <3>2. u = [j \in DOMAIN t |-> u[j]]
      OBVIOUS
    <3> HIDE DEF u
    <3> QED
      BY <2>1, <3>1, <3>2, AsManyTabs
  <2>3. h \in Holder
    BY DEF Holder
  <2>4. AddTab(t, id) = Append(u, h)
    BY <1>2 DEF AddTab
  <2> HIDE DEF u, h
  <2>5. Append(u, h) \in Seq(Holder) /\ Len(Append(u, h)) = Len(t) + 1
    BY <2>2, <2>3
  <2>6. Len(t) + 1 <= MAX_TASKBAR_ITEMS
    BY <1>2, <2>1, DesktopAssumption
  <2> QED
    BY <2>4, <2>5, <2>6 DEF TabsOK
<1> QED
  BY <1>1, <1>2

(* A tab is removed, if the window has one. *)
LEMMA RemoveTabKeeps ==
    ASSUME NEW t, TabsOK(t), NEW id
    PROVE  TabsOK(RemoveTab(t, id))
<1> DEFINE of == {i \in DOMAIN t : t[i].window_id = id}
           k == Least(of)
<1>1. t \in Seq(Holder) /\ Len(t) \in Nat /\ DOMAIN t = 1 .. Len(t)
  BY DEF TabsOK
<1>2. CASE of = {}
  BY <1>2 DEF RemoveTab
<1>3. CASE of # {}
  <2>1. of \in SUBSET Nat
    BY <1>1
  <2>2. k \in of
    BY <1>3, <2>1, LeastIsIn
  <2>3. RemoveTab(t, id) = RemoveAt(t, k)
    BY <1>3 DEF RemoveTab
  <2>4. k \in 1 .. Len(t)
    BY <1>1, <2>2
  <2> HIDE DEF of, k
  <2>5. Removed(Holder, RemoveAt(t, k), t, k)
    BY <1>1, <2>4, RemoveAtFacts
  <2>6. RemoveAt(t, k) \in Seq(Holder) /\ Len(RemoveAt(t, k)) = Len(t) - 1
    BY <2>5 DEF Removed
  <2>7. Len(t) - 1 <= MAX_TASKBAR_ITEMS
    BY <1>1, DesktopAssumption DEF TabsOK
  <2> QED
    BY <2>3, <2>6, <2>7 DEF TabsOK
<1> QED
  BY <1>2, <1>3

(* An application remembers one more window. *)
LEMMA EnterKeepsTable ==
    ASSUME NEW a, TableOK(a), NEW k \in Kinds, NEW id \in Nat
    PROVE  TableOK(Enter(a, k, id))
<1>1. CASE Len(a[k]) >= Limit[k]
  BY <1>1 DEF Enter
<1>2. CASE ~(Len(a[k]) >= Limit[k])
  <2> DEFINE h == [window_id |-> id, active |-> TRUE]
             s == Append(a[k], h)
  <2>1. a[k] \in Seq(Holder) /\ Len(a[k]) \in Nat /\ Limit[k] \in Nat
    BY DesktopAssumption DEF TableOK
  <2>2. h \in Holder
    BY DEF Holder
  <2> HIDE DEF h
  <2>3. s \in Seq(Holder) /\ Len(s) = Len(a[k]) + 1
    BY <2>1, <2>2
  <2>4. Len(s) <= Limit[k]
    BY <1>2, <2>1, <2>3
  <2>5. Enter(a, k, id) = [a EXCEPT ![k] = s]
    BY <1>2 DEF Enter, h
  <2> HIDE DEF s
  <2>6. [a EXCEPT ![k] = s] \in [Kinds -> Seq(Holder)]
    BY <2>3 DEF TableOK
  <2>7. \A m \in Kinds : Len([a EXCEPT ![k] = s][m]) <= Limit[m]
    BY <2>4 DEF TableOK
  <2> QED
    BY <2>5, <2>6, <2>7 DEF TableOK
<1> QED
  BY <1>1, <1>2

(* A launch hands on a taskbar and tables of the right types. *)
LEMMA LaunchHolds ==
    ASSUME NEW d, Goes(d), Holds(d), NEW k \in Kinds, NEW e \in Launch(d, k)
    PROVE  Goes(e) /\ Holds(e)
<1>1. PICK b \in Mallocs(d.wm) :
          e = [d EXCEPT !.wm   = Create(@, AppRect[k], b),
                        !.tabs = AddTab(@, Created(d.wm, b)),
                        !.apps = Enter(@, k, Created(d.wm, b))]
  BY DEF Launch
<1> DEFINE id == Created(d.wm, b)
<1>2. id \in Nat
  BY DEF Goes, Sound, Table, WmState, Created
<1>3. TabsOK(AddTab(d.tabs, id)) /\ TableOK(Enter(d.apps, k, id))
  BY <1>2, AddTabKeeps, EnterKeepsTable DEF Holds
<1> HIDE DEF id
<1>4. /\ {"wm", "tabs", "apps", "menu"} \subseteq DOMAIN e
      /\ e.tabs = AddTab(d.tabs, id) /\ e.apps = Enter(d.apps, k, id) /\ e.menu = d.menu
  BY <1>1 DEF Holds, id
<1> QED
  BY <1>3, <1>4, LaunchKeeps DEF Holds

(* So do three in a row. *)
LEMMA LaunchDemoHolds ==
    ASSUME NEW d, Goes(d), Holds(d), NEW e \in LaunchDemo(d)
    PROVE  Holds(e)
<1>1. PICK f \in Launch(d, "terminal") : \E g \in Launch(f, "files") : e \in Launch(g, "editor")
  BY DEF LaunchDemo
<1>2. PICK g \in Launch(f, "files") : e \in Launch(g, "editor")
  BY <1>1
<1>3. Goes(f) /\ Holds(f)
  BY LaunchHolds DEF Kinds
<1>4. Goes(g) /\ Holds(g)
  BY <1>3, LaunchHolds DEF Kinds
<1> QED
  BY <1>2, <1>4, LaunchHolds DEF Kinds

(* What a step begins with. *)
LEMMA NowHolds ==
    ASSUME DeskTyped
    PROVE  Holds(Now)
BY DEF Holds, Now, DeskTyped

(* What a click on the desktop hands on. *)
LEMMA DesktopClickHolds ==
    ASSUME Sound(wm), DeskTyped, NEW p, NEW d \in DesktopClick(p)
    PROVE  Holds(d)
<1>1. Goes(Now) /\ Holds(Now)
  BY NowGoes, NowHolds
<1>2. CASE OnStart(p)
  <2>1. d = [Now EXCEPT !.menu = ~@]
    BY <1>2 DEF DesktopClick
  <2>2. /\ {"wm", "tabs", "apps", "menu"} \subseteq DOMAIN d
        /\ d.tabs = taskbar /\ d.apps = apps /\ d.menu = ~start_menu_open
    BY <2>1 DEF Now
  <2> QED
    BY <2>2 DEF Holds, DeskTyped
<1>3. CASE ~OnStart(p) /\ TabAt(p) # {}
  <2> DEFINE i == Least(TabAt(p))
             id == taskbar[i].window_id
             u == [j \in DOMAIN taskbar |-> [taskbar[j] EXCEPT !.active = (j = i)]]
  <2>1. d = [Now EXCEPT !.wm = SetFocus(@, id, TRUE), !.tabs = u]
    BY <1>3 DEF DesktopClick
  <2>2. taskbar \in Seq(Holder)
    BY DEF DeskTyped, TabsOK
  <2>3. u \in Seq(Holder) /\ Len(u) = Len(taskbar)
    <3>1. ASSUME NEW j \in DOMAIN taskbar PROVE u[j] \in Holder
      <4>1. taskbar[j] \in Holder
        BY <2>2
      <4>2. (j = i) \in BOOLEAN
        OBVIOUS
      <4>3. u[j] = [taskbar[j] EXCEPT !.active = (j = i)]
        OBVIOUS
      <4> HIDE DEF u
      <4> QED
        BY <4>1, <4>2, <4>3, MarkedHolder
    <3>2. u = [j \in DOMAIN taskbar |-> u[j]]
      OBVIOUS
    <3> HIDE DEF u
    <3> QED
      BY <2>2, <3>1, <3>2, AsManyTabs
  <2> HIDE DEF id, u
  <2>4. /\ {"wm", "tabs", "apps", "menu"} \subseteq DOMAIN d
        /\ d.tabs = u /\ d.apps = apps /\ d.menu = start_menu_open
    BY <2>1 DEF Now
  <2> QED
    BY <2>3, <2>4 DEF Holds, DeskTyped, TabsOK
<1>4. CASE ~OnStart(p) /\ TabAt(p) = {} /\ IconAt(p) # {}
  <2>1. \/ d \in Launch(Now, "terminal")
        \/ d \in Launch(Now, "files")
        \/ d \in Launch(Now, "editor")
        \/ d = Now
    BY <1>4 DEF DesktopClick
  <2> QED
    BY <1>1, <2>1, LaunchHolds DEF Kinds
<1>5. CASE ~OnStart(p) /\ TabAt(p) = {} /\ IconAt(p) = {}
  <2>1. d = [Now EXCEPT !.menu = FALSE]
    BY <1>5 DEF DesktopClick
  <2>2. /\ {"wm", "tabs", "apps", "menu"} \subseteq DOMAIN d
        /\ d.tabs = taskbar /\ d.apps = apps /\ d.menu = FALSE
    BY <2>1 DEF Now
  <2> QED
    BY <2>2 DEF Holds, DeskTyped
<1> QED
  BY <1>2, <1>3, <1>4, <1>5

(* What a step leaves typed that hands d on. *)
LEMMA BecomesTyped ==
    ASSUME DeskTyped, NEW d, Holds(d), Becomes(d), UNCHANGED <<icons, icon_count>>,
           mode' \in {"text", "gui", "demo"}, ctrl' \in BOOLEAN, alt' \in BOOLEAN
    PROVE  DeskTyped'
BY DEF Becomes, Holds, DeskTyped, TabsOK, TableOK

(* An application gives its window up. *)
LEMMA QuitHolds ==
    ASSUME NEW a, TableOK(a), NEW k \in Kinds, NEW i \in DOMAIN a[k]
    PROVE  TableOK([a EXCEPT ![k][i].active = FALSE])
<1> DEFINE s == [a[k] EXCEPT ![i] = [a[k][i] EXCEPT !.active = FALSE]]
<1>1. a[k] \in Seq(Holder) /\ a[k][i] \in Holder
  BY DEF TableOK
<1>2. [a[k][i] EXCEPT !.active = FALSE] \in Holder
  BY <1>1 DEF Holder
<1>3. s \in Seq(Holder) /\ Len(s) = Len(a[k])
  BY <1>1, <1>2
<1>4. [a EXCEPT ![k][i].active = FALSE] = [a EXCEPT ![k] = s]
  BY DEF TableOK
<1> HIDE DEF s
<1> QED
  BY <1>3, <1>4 DEF TableOK

(* Every step of the desktop keeps the types. *)
LEMMA TypedNext ==
    ASSUME Sound(wm), DeskTyped, [Next]_vars
    PROVE  DeskTyped'
<1> USE DEF DeskTyped, TabsOK, TableOK
<1>1. CASE UNCHANGED vars
  BY <1>1 DEF vars, deskVars, guiVars
<1>2. ASSUME NEW who \in {"gui", "demo"}, GuiInit(who) PROVE DeskTyped'
  <2>1. taskbar' = <<>> /\ <<>> \in Seq(Holder) /\ Len(<<>>) = 0
    BY <1>2 DEF GuiInit
  <2>2. TabsOK(taskbar')
    BY <2>1, DesktopAssumption
  <2>3. TableOK(apps')
    BY <1>2, <2>1, DesktopAssumption DEF GuiInit
  <2> QED
    BY <1>2, <2>2, <2>3 DEF GuiInit
<1>3. CASE KeyCtrl
  BY <1>3 DEF KeyCtrl, deskVars
<1>4. CASE KeyAlt
  BY <1>4 DEF KeyAlt, deskVars
<1> USE NowGoes, NowHolds
<1>5. ASSUME NEW k \in Kinds, KeyLaunch(k) PROVE DeskTyped'
  <2>1. PICK d \in IF ctrl /\ alt THEN Launch(Now, k) ELSE {Now} : Becomes(d)
    BY <1>5 DEF KeyLaunch
  <2>2. Holds(d)
    BY <2>1, LaunchHolds
  <2> QED
    BY <1>5, <2>1, <2>2, BecomesTyped DEF KeyLaunch
<1>6. CASE KeyQuit
  <2>1. CASE ctrl /\ alt
    <3>1. PICK d \in IF mode = "demo" THEN LaunchDemo(Now) ELSE {Now} : Becomes(d)
      BY <1>6, <2>1 DEF KeyQuit
    <3>2. Holds(d)
      BY <3>1, LaunchDemoHolds
    <3> QED
      BY <1>6, <2>1, <3>1, <3>2, BecomesTyped DEF KeyQuit
  <2>2. CASE ~(ctrl /\ alt)
    BY <1>6, <2>2 DEF KeyQuit
  <2> QED
    BY <2>1, <2>2
<1>7. ASSUME NEW p \in Points, Click(p) PROVE DeskTyped'
  <2>1. PICK d \in DesktopClick(p) : Becomes([d EXCEPT !.wm = WmClick(@, p)])
    BY <1>7 DEF Click
  <2>2. Holds(d)
    BY <2>1, DesktopClickHolds
  <2>3. Holds([d EXCEPT !.wm = WmClick(@, p)])
    BY <2>2 DEF Holds
  <2> QED
    BY <1>7, <2>1, <2>3, BecomesTyped DEF Click, guiVars
<1>9. ASSUME NEW id \in LiveIds, EventClose(id) PROVE DeskTyped'
  <2> DEFINE d == [Now EXCEPT !.wm = Destroy(@, id), !.tabs = RemoveTab(@, id)]
  <2>1. d.tabs = RemoveTab(taskbar, id) /\ d.apps = apps /\ d.menu = start_menu_open
        /\ {"wm", "tabs", "apps", "menu"} \subseteq DOMAIN d
    BY DEF Now
  <2>2. Holds(d)
    BY <2>1, RemoveTabKeeps DEF Holds
  <2> QED
    BY <1>9, <2>2, BecomesTyped DEF EventClose, guiVars
<1>10. ASSUME NEW id \in LiveIds, EventFocus(id) PROVE DeskTyped'
  BY <1>10 DEF EventFocus, deskVars, guiVars
<1>11. ASSUME NEW id \in LiveIds, NEW to \in MoveTo, EventMove(id, to) PROVE DeskTyped'
  BY <1>11 DEF EventMove, deskVars, guiVars
<1>12. ASSUME NEW id \in LiveIds, NEW size \in Sizes, EventResize(id, size) PROVE DeskTyped'
  BY <1>12 DEF EventResize, deskVars, guiVars
<1>13. ASSUME NEW k \in {"terminal", "editor"}, NEW i \in DOMAIN apps[k], Quit(k, i)
       PROVE  DeskTyped'
  <2> DEFINE id == apps[k][i].window_id
             a == [apps EXCEPT ![k][i].active = FALSE]
             d == [Now EXCEPT !.wm = Destroy(@, id), !.tabs = RemoveTab(@, id),
                              !.apps[k][i].active = FALSE]
  <2>1. TabsOK(RemoveTab(taskbar, id)) /\ TableOK(a)
    BY RemoveTabKeeps, QuitHolds DEF Kinds
  <2>2. Becomes(d)
    BY <1>13 DEF Quit
  <2>3. d.tabs = RemoveTab(taskbar, id) /\ d.apps = a /\ d.menu = start_menu_open
    BY DEF Now
  <2>4. UNCHANGED <<icons, icon_count, mode, ctrl, alt>>
    BY <1>13 DEF Quit, guiVars
  <2> HIDE DEF a, d, id
  <2>5. TabsOK(taskbar') /\ TableOK(apps') /\ start_menu_open' = start_menu_open
    BY <2>1, <2>2, <2>3 DEF Becomes
  <2> QED
    BY <2>4, <2>5
<1> QED
  BY <1>1, <1>2, <1>3, <1>4, <1>5, <1>6, <1>7, <1>9, <1>10, <1>11, <1>12, <1>13 DEF Next

(* The types hold of the first state. *)
LEMMA TypedInit == Init => DeskTyped
<1> SUFFICES ASSUME Init PROVE DeskTyped
  OBVIOUS
<1>1. <<>> \in Seq(Holder) /\ Len(<<>>) = 0
  OBVIOUS
<1>2. TabsOK(taskbar)
  BY <1>1, DesktopAssumption DEF Init, TabsOK
<1>3. TableOK(apps)
  BY <1>1, DesktopAssumption DEF Init, TableOK
<1> QED
  BY <1>2, <1>3 DEF Init, DeskTyped

(* The window table and the rest make up the type invariant. *)
LEMMA TypedImplies ==
    ASSUME Sound(wm), DeskTyped
    PROVE  TypeOK
BY DEF Sound, Table, WmState, Window, TypeOK, DeskTyped, TabsOK, TableOK, Holder
-----------------------------------------------------------------------------
(* A step of the system is a step of each part or leaves it alone. *)
LEMMA GuiTurns ==
    ASSUME [GuiNext]_allVars
    PROVE  /\ [Next]_vars
           /\ [Ed!Next]_(Ed!edVars)
           /\ [Tm!Next]_(Tm!termVars)
           /\ [Fm!Next]_(Fm!fmVars)
           /\ [Sm!Next]_(Sm!smVars)
           /\ [Sa!Next]_(Sa!saVars)
           /\ [Pm!Next]_(Pm!pmVars)
           /\ [Wb!Next]_(Wb!wbVars)
           /\ [Wp!Next]_(Wp!wpVars)
  BY DEF GuiNext, allVars, edVars, termVars, fmVars, smVars, saVars, pmVars, wbVars, wpVars,
         Ed!edVars, Ed!cursor, Tm!termVars, Fm!fmVars, Sm!smVars, Sa!saVars, Pm!pmVars,
         Wb!wbVars, Wp!wpVars

(* The system starts with each part in its first state. *)
LEMMA GuiStarts ==
    GuiStart => /\ Init /\ Ed!Init /\ Tm!Init /\ Fm!Init /\ Sm!Init /\ Sa!Init /\ Pm!Init
                /\ Wb!Init /\ Wp!Init
  BY DEF GuiStart
-----------------------------------------------------------------------------
(* What the last accepted value of a setting is, its entry holds. *)
SmInv ==
    /\ Sm!TypeOK
    /\ \A n \in DOMAIN accepted : entries[n].value = accepted[n]

(* No setting is known, and none has been accepted. *)
LEMMA SmBegins == Sm!Init => SmInv
  BY DEF Sm!Init, SmInv, Sm!TypeOK

(* The entry of one name changes, to one of the right type. *)
LEMMA EntryPut ==
    ASSUME SmInv, NEW name \in Settings, NEW e,
           e.type \in Sm!Types, e.value \in Sm!Values(e.type) \cup {BlankEntry},
           DOMAIN entries' = DOMAIN entries \cup {name}, entries'[name] = e,
           \A n \in DOMAIN entries \ {name} : entries'[n] = entries[n],
           result' \in BOOLEAN,
           \A n \in DOMAIN accepted' : n \in DOMAIN entries' /\ entries'[n].value = accepted'[n]
    PROVE  SmInv'
<1>1. ASSUME NEW n \in DOMAIN entries'
      PROVE  /\ n \in Settings /\ entries'[n].type \in Sm!Types
             /\ entries'[n].value \in Sm!Values(entries'[n].type) \cup {BlankEntry}
  <2>1. CASE n = name
    BY <2>1
  <2>2. CASE n # name
    <3>1. n \in DOMAIN entries /\ entries'[n] = entries[n]
      BY <2>2
    <3> QED
      BY <3>1 DEF SmInv, Sm!TypeOK
  <2> QED
    BY <2>1, <2>2
<1>2. Sm!TypeOK'
  BY <1>1 DEF Sm!TypeOK, Sm!Values, Sm!Types
<1> QED
  BY <1>2 DEF SmInv

(* settings_manager_set: a name is found or added, and its value is        *)
(* accepted or refused.                                                    *)
LEMMA SetKeeps ==
    ASSUME SmInv, NEW name \in Settings, NEW type \in Sm!Types, NEW v \in Sm!Values(type),
           Sm!Set(name, type, v)
    PROVE  SmInv'
<1>1. CASE UNCHANGED entries /\ UNCHANGED accepted /\ result' \in BOOLEAN
  BY <1>1 DEF SmInv, Sm!TypeOK
<1>2. CASE /\ entries' = Sm!Put(entries, name, Sm!Found(name, type))
           /\ UNCHANGED accepted /\ result' \in BOOLEAN
  <2>1. Sm!Found(name, type).type \in Sm!Types
    BY DEF SmInv, Sm!TypeOK, Sm!Found
  <2>2. Sm!Found(name, type).value
            \in Sm!Values(Sm!Found(name, type).type) \cup {BlankEntry}
    BY DEF SmInv, Sm!TypeOK, Sm!Found
  <2>3. name \in DOMAIN entries => Sm!Found(name, type) = entries[name]
    BY DEF Sm!Found
  <2> HIDE DEF Sm!Found
  <2>4. /\ DOMAIN entries' = DOMAIN entries \cup {name}
        /\ entries'[name] = Sm!Found(name, type)
        /\ \A n \in DOMAIN entries \ {name} : entries'[n] = entries[n]
    BY <1>2 DEF Sm!Put
  <2>5. \A n \in DOMAIN entries : entries'[n] = entries[n]
    BY <2>3, <2>4
  <2>6. \A n \in DOMAIN accepted' : n \in DOMAIN entries' /\ entries'[n].value = accepted'[n]
    BY <1>2, <2>4, <2>5 DEF SmInv, Sm!TypeOK
  <2> QED
    BY <1>2, <2>1, <2>2, <2>4, <2>6, EntryPut
<1>3. CASE /\ entries' = Sm!Put(entries, name, [type |-> type, value |-> v])
           /\ accepted' = Sm!Put(accepted, name, v) /\ result' \in BOOLEAN
  <2> DEFINE e == [type |-> type, value |-> v]
  <2>1. e.type = type /\ e.value = v
    OBVIOUS
  <2> HIDE DEF e
  <2>2. /\ DOMAIN entries' = DOMAIN entries \cup {name} /\ entries'[name] = e
        /\ \A n \in DOMAIN entries \ {name} : entries'[n] = entries[n]
    BY <1>3 DEF Sm!Put, e
  <2>3. /\ DOMAIN accepted' = DOMAIN accepted \cup {name} /\ accepted'[name] = v
        /\ \A n \in DOMAIN accepted \ {name} : accepted'[n] = accepted[n]
    BY <1>3 DEF Sm!Put
  <2>4. ASSUME NEW n \in DOMAIN accepted'
        PROVE  n \in DOMAIN entries' /\ entries'[n].value = accepted'[n]
    <3>1. CASE n = name
      BY <2>1, <2>2, <2>3, <3>1
    <3>2. CASE n # name
      <4>1. n \in DOMAIN accepted /\ n \in DOMAIN entries
        BY <2>3, <3>2 DEF SmInv, Sm!TypeOK
      <4> QED
        BY <2>2, <2>3, <3>2, <4>1 DEF SmInv
    <3> QED
      BY <3>1, <3>2
  <2> QED
    BY <1>3, <2>1, <2>2, <2>4, EntryPut
<1> QED
  BY <1>1, <1>2, <1>3 DEF Sm!Set, Sm!Returns, Sm!LeftByRefusal

(* Every operation of the settings manager keeps its invariant. *)
LEMMA SmStep ==
    ASSUME SmInv, [Sm!Next]_(Sm!smVars)
    PROVE  SmInv'
<1>1. CASE UNCHANGED Sm!smVars
  BY <1>1 DEF Sm!smVars, SmInv, Sm!TypeOK
<1>2. CASE Sm!Next
  BY <1>2, SetKeeps DEF Sm!Next
<1> QED
  BY <1>1, <1>2

(* settings_manager.c: whatever other settings are written, refused or        *)
(* dropped at the limit meanwhile, settings_manager_get answers with the last *)
(* value that settings_manager_set accepted for the name.                     *)
THEOREM ReadsWhatWasAccepted == GuiSpec => []ReadsLastAccepted
<1>1. GuiStart => SmInv
  BY GuiStarts, SmBegins
<1>2. SmInv /\ [GuiNext]_allVars => SmInv'
  BY GuiTurns, SmStep
<1>3. SmInv => ReadsLastAccepted
  <2> SUFFICES ASSUME SmInv, NEW n \in DOMAIN accepted
               PROVE  Sm!Get(n, entries[n].type) = accepted[n]
    BY DEF ReadsLastAccepted, Sm!ReadsLastAccepted
  <2>1. n \in DOMAIN entries
    BY DEF SmInv, Sm!TypeOK
  <2> QED
    BY <2>1 DEF SmInv, Sm!Get
<1> QED
  BY <1>1, <1>2, <1>3, PTL DEF GuiSpec
-----------------------------------------------------------------------------
WbInv == Wb!TypeOK /\ TabsAgree

Tab == [url: Wb!Urls, active: BOOLEAN]

(* Exactly the tab t of ts is marked active. *)
OneActive(ts, t) ==
    /\ ts \in Seq(Tab) /\ Len(ts) \in 1 .. MAX_TABS
    /\ t \in DOMAIN ts
    /\ \A k \in DOMAIN ts : ts[k].active <=> k = t

(* The assumptions of the browser, and that its home page is a URL. *)
LEMMA BrowserAssumed ==
    /\ MAX_TABS \in Nat \ {0} /\ MAX_HISTORY \in Nat \ {0} /\ MAX_URL_LENGTH \in Nat
    /\ HomePage \in Wb!Urls
  BY GuiAssumption DEF Wb!BrowserAssumption

(* The invariant in terms of the tabs, the address bar and the rest. *)
WbSound(ts, t, url, h, b) ==
    /\ OneActive(ts, t)
    /\ url \in Wb!Urls
    /\ h \in Seq(Wb!Urls) /\ Len(h) \in 1 .. MAX_HISTORY
    /\ b \in BOOLEAN
    /\ ~b => url = ts[t].url

(* The invariant, and the invariant of the next state. *)
LEMMA WbIs ==
    /\ WbInv <=> WbSound(tabs, active_tab, address_bar, history, typed)
    /\ WbInv' <=> WbSound(tabs', active_tab', address_bar', history', typed')
<1>1. WbInv <=> WbSound(tabs, active_tab, address_bar, history, typed)
  BY BrowserAssumed DEF WbInv, Wb!TypeOK, TabsAgree, Wb!TabsAgree, OneActive, Tab, WbSound
<1>2. WbInv' <=> WbSound(tabs', active_tab', address_bar', history', typed')
  BY BrowserAssumed DEF WbInv, Wb!TypeOK, TabsAgree, Wb!TabsAgree, OneActive, Tab, WbSound
<1> QED
  BY <1>1, <1>2

(* A tab gets a URL, and the marks stay. *)
LEMMA UrlPut ==
    ASSUME NEW ts, NEW t, OneActive(ts, t), NEW url \in Wb!Urls
    PROVE  /\ OneActive([ts EXCEPT ![t].url = url], t)
           /\ [ts EXCEPT ![t].url = url][t].url = url
<1> DEFINE new == [ts EXCEPT ![t].url = url]
<1>1. new = [ts EXCEPT ![t] = [ts[t] EXCEPT !.url = url]]
  BY DEF OneActive
<1>2. ts[t] \in Tab
  BY DEF OneActive
<1>3. [ts[t] EXCEPT !.url = url] \in Tab
  BY <1>2 DEF Tab
<1>4. /\ new \in Seq(Tab) /\ Len(new) = Len(ts) /\ DOMAIN new = DOMAIN ts
      /\ new[t] = [ts[t] EXCEPT !.url = url]
      /\ \A k \in DOMAIN ts \ {t} : new[k] = ts[k]
  BY <1>1, <1>3 DEF OneActive
<1>5. new[t].url = url /\ new[t].active = ts[t].active
  BY <1>2, <1>4 DEF Tab
<1> HIDE DEF new
<1>6. \A k \in DOMAIN new : new[k].active = ts[k].active
  BY <1>4, <1>5
<1>7. OneActive(new, t)
  BY <1>4, <1>6 DEF OneActive
<1> QED
  BY <1>5, <1>7 DEF new

(* new is ts with the mark of t set to b. *)
Marked(new, ts, t, b) ==
    /\ new \in Seq(Tab) /\ Len(new) = Len(ts) /\ DOMAIN new = DOMAIN ts
    /\ new[t].active = b
    /\ \A k \in DOMAIN ts : new[k].url = ts[k].url
    /\ \A k \in DOMAIN ts \ {t} : new[k].active = ts[k].active

(* The mark of one tab is set, and nothing else. *)
LEMMA MarkPut ==
    ASSUME NEW ts \in Seq(Tab), NEW t \in DOMAIN ts, NEW b \in BOOLEAN
    PROVE  Marked([ts EXCEPT ![t].active = b], ts, t, b)
<1> DEFINE new == [ts EXCEPT ![t].active = b]
<1>1. new = [ts EXCEPT ![t] = [ts[t] EXCEPT !.active = b]]
  OBVIOUS
<1>2. ts[t] \in Tab
  OBVIOUS
<1>3. [ts[t] EXCEPT !.active = b] \in Tab
  BY <1>2 DEF Tab
<1>4. /\ new \in Seq(Tab) /\ Len(new) = Len(ts) /\ DOMAIN new = DOMAIN ts
      /\ new[t] = [ts[t] EXCEPT !.active = b]
      /\ \A k \in DOMAIN ts \ {t} : new[k] = ts[k]
  BY <1>1, <1>3
<1>5. new[t].url = ts[t].url /\ new[t].active = b
  BY <1>2, <1>4 DEF Tab
<1> HIDE DEF new
<1>6. Marked(new, ts, t, b)
  BY <1>4, <1>5 DEF Marked
<1> QED
  BY <1>6 DEF new

(* The tab that becomes the active one is the only one that is marked. *)
LEMMA ActivatedKeeps ==
    ASSUME NEW ts \in Seq(Tab), Len(ts) \in 1 .. MAX_TABS, NEW t \in DOMAIN ts,
           active_tab \in DOMAIN ts,
           \A k \in DOMAIN ts : ts[k].active => k = active_tab
    PROVE  /\ OneActive(Wb!Activated(ts, t), t)
           /\ Wb!Activated(ts, t)[t].url = ts[t].url
<1> DEFINE o == [ts EXCEPT ![active_tab].active = FALSE]
           n == [o EXCEPT ![t].active = TRUE]
<1>1. Wb!Activated(ts, t) = n
  BY DEF Wb!Activated
<1> HIDE DEF n
<1>0. Marked(o, ts, active_tab, FALSE)
  BY MarkPut
<1> HIDE DEF o
<1>2. /\ o \in Seq(Tab) /\ Len(o) = Len(ts) /\ DOMAIN o = DOMAIN ts
      /\ o[active_tab].active = FALSE
      /\ \A k \in DOMAIN ts : o[k].url = ts[k].url
      /\ \A k \in DOMAIN ts \ {active_tab} : o[k].active = ts[k].active
  BY <1>0 DEF Marked
<1>3. /\ n \in Seq(Tab) /\ Len(n) = Len(o) /\ DOMAIN n = DOMAIN o
      /\ n[t].active = TRUE
      /\ \A k \in DOMAIN o : n[k].url = o[k].url
      /\ \A k \in DOMAIN o \ {t} : n[k].active = o[k].active
  <2>1. Marked([o EXCEPT ![t].active = TRUE], o, t, TRUE)
    BY <1>2, MarkPut
  <2> QED
    BY <2>1 DEF Marked, n
<1>4. ASSUME NEW k \in DOMAIN ts
      PROVE  o[k].active = FALSE
  <2>1. ts[k] \in Tab
    OBVIOUS
  <2>2. ts[k].active \in BOOLEAN
    BY <2>1 DEF Tab
  <2> QED
    BY <1>2, <2>2
<1>5. \A k \in DOMAIN n : n[k].active <=> k = t
  BY <1>2, <1>3, <1>4
<1> QED
  BY <1>1, <1>2, <1>3, <1>5 DEF OneActive

(* web_browser_load_page gives the active tab and the address bar the      *)
(* same URL.                                                               *)
LEMMA LoadKeeps ==
    ASSUME WbInv, NEW ts, NEW t, OneActive(ts, t), NEW url \in Wb!Urls,
           Wb!LoadPage(ts, t, url)
    PROVE  WbInv'
<1>1. OneActive(tabs', t) /\ tabs'[t].url = url
  BY UrlPut DEF Wb!LoadPage
<1>2. history' \in Seq(Wb!Urls) /\ Len(history') \in 1 .. MAX_HISTORY
  <2>1. history \in Seq(Wb!Urls) /\ Len(history) \in 1 .. MAX_HISTORY
    BY WbIs DEF WbSound
  <2>2. history' = Wb!Remembered(url)
    BY DEF Wb!LoadPage
  <2>3. CASE Len(history) >= MAX_HISTORY
    <3>1. Tail(history) \in Seq(Wb!Urls) /\ Len(Tail(history)) = Len(history) - 1
      BY <2>1
    <3>2. history' = Append(Tail(history), url)
      BY <2>2, <2>3 DEF Wb!Remembered
    <3> QED
      BY <2>1, <2>3, <3>1, <3>2, BrowserAssumed
  <2>4. CASE ~(Len(history) >= MAX_HISTORY)
    BY <2>1, <2>2, <2>4, BrowserAssumed DEF Wb!Remembered
  <2> QED
    BY <2>3, <2>4
<1> QED
  BY <1>1, <1>2, WbIs DEF Wb!LoadPage, WbSound

(* The tab before the closed one takes over, and the tabs behind move up. *)
LEMMA CloseKeeps ==
    ASSUME WbInv, NEW t \in DOMAIN tabs, Wb!CloseTab(t)
    PROVE  WbInv'
<1> DEFINE s == Wb!Successor(t)
           q == RemoveAt(tabs, t)
<1>1. /\ OneActive(tabs, active_tab) /\ Len(tabs) \in 2 .. MAX_TABS
      /\ active_tab \in 1 .. Len(tabs) /\ t \in 1 .. Len(tabs)
  BY WbIs, BrowserAssumed DEF WbSound, OneActive, Wb!CloseTab
<1>2. s \in 1 .. (Len(tabs) - 1)
  BY <1>1 DEF Wb!Successor
<1>3. s = IF active_tab > t \/ (active_tab = t /\ t > 1) THEN active_tab - 1 ELSE active_tab
  BY <1>1 DEF Wb!Successor
<1>4. Removed(Tab, q, tabs, t)
  BY <1>1, RemoveAtFacts DEF OneActive
<1>5. /\ tabs' = [q EXCEPT ![s].active = TRUE] /\ active_tab' = s
      /\ typed' = (typed \/ t = active_tab)
      /\ UNCHANGED <<address_bar, history>>
  BY DEF Wb!CloseTab, Wb!RemoveAt, RemoveAt
<1> HIDE DEF s, q
<1>6. DOMAIN q = 1 .. (Len(tabs) - 1) /\ q \in Seq(Tab) /\ Len(q) = Len(tabs) - 1
  BY <1>1, <1>4 DEF Removed
<1>7. /\ tabs' \in Seq(Tab) /\ Len(tabs') = Len(q) /\ DOMAIN tabs' = DOMAIN q
      /\ tabs'[s].active = TRUE
      /\ \A k \in DOMAIN q : tabs'[k].url = q[k].url
      /\ \A k \in DOMAIN q \ {s} : tabs'[k].active = q[k].active
  <2>1. Marked([q EXCEPT ![s].active = TRUE], q, s, TRUE)
    BY <1>2, <1>6, MarkPut
  <2>2. Marked(tabs', q, s, TRUE)
    BY <1>5, <2>1
  <2> QED
    BY <2>2 DEF Marked
<1>8. \A k \in DOMAIN q : q[k] = IF k < t THEN tabs[k] ELSE tabs[k + 1]
  BY <1>1, <1>4, <1>6 DEF Removed
<1>9. \A k \in 1 .. Len(tabs) : tabs[k].active <=> k = active_tab
  BY <1>1 DEF OneActive
<1>10. ASSUME NEW k \in DOMAIN q, k # s
       PROVE  ~q[k].active
  <2>1. CASE k < t
    BY <1>1, <1>3, <1>6, <1>8, <1>9, <1>10, <2>1
  <2>2. CASE k >= t
    BY <1>1, <1>3, <1>6, <1>8, <1>9, <1>10, <2>2
  <2> QED
    BY <1>1, <1>6, <2>1, <2>2
<1>11. \A k \in DOMAIN q : tabs'[k].active <=> k = s
  BY <1>7, <1>10
<1>12. OneActive(tabs', s)
  BY <1>1, <1>2, <1>6, <1>7, <1>11, BrowserAssumed DEF OneActive
<1>13. ASSUME ~typed'
       PROVE  address_bar' = tabs'[s].url
  <2>1. ~typed /\ t # active_tab
    BY <1>5, <1>13
  <2>2. address_bar' = tabs[active_tab].url
    BY <1>5, <2>1, WbIs DEF WbSound
  <2>3. q[s] = tabs[active_tab]
    <3>1. CASE active_tab > t
      <4>1. s = active_tab - 1 /\ ~(s < t) /\ s + 1 = active_tab
        BY <1>1, <1>3, <3>1
      <4> QED
        BY <1>2, <1>6, <1>8, <4>1
    <3>2. CASE active_tab < t
      <4>1. s = active_tab /\ s < t
        BY <1>1, <1>3, <2>1, <3>2
      <4> QED
        BY <1>2, <1>6, <1>8, <4>1
    <3> QED
      BY <1>1, <2>1, <3>1, <3>2
  <2> QED
    BY <1>2, <1>6, <1>7, <2>2, <2>3
<1>14. typed' \in BOOLEAN
  BY <1>5, WbIs DEF WbSound
<1>15. /\ address_bar' \in Wb!Urls
       /\ history' \in Seq(Wb!Urls) /\ Len(history') \in 1 .. MAX_HISTORY
  BY <1>5, WbIs DEF WbSound
<1> QED
  BY <1>5, <1>12, <1>13, <1>14, <1>15, WbIs DEF WbSound

(* The browser opens with one tab, the active one. *)
LEMMA WbBegins == Wb!Init => WbInv
<1> SUFFICES ASSUME Wb!Init PROVE WbInv
  OBVIOUS
<1>1. tabs \in Seq(Tab) /\ Len(tabs) = 1 /\ tabs[1].active = TRUE /\ tabs[1].url = HomePage
      /\ active_tab = 1
  BY BrowserAssumed DEF Wb!Init, Tab
<1>2. OneActive(tabs, active_tab)
  BY <1>1, BrowserAssumed DEF OneActive
<1>3. history \in Seq(Wb!Urls) /\ Len(history) \in 1 .. MAX_HISTORY
  BY BrowserAssumed DEF Wb!Init
<1> QED
  BY <1>1, <1>2, <1>3, BrowserAssumed, WbIs DEF WbSound, Wb!Init

(* Every operation of the browser keeps its invariant. *)
LEMMA WbStep ==
    ASSUME WbInv, [Wb!Next]_(Wb!wbVars)
    PROVE  WbInv'
<1>1. CASE UNCHANGED Wb!wbVars
  BY <1>1 DEF Wb!wbVars, WbInv, Wb!TypeOK, TabsAgree, Wb!TabsAgree
<1>2. OneActive(tabs, active_tab)
  BY WbIs DEF WbSound
<1>3. CASE Wb!Back
  BY <1>2, <1>3, BrowserAssumed, LoadKeeps DEF Wb!Back
<1>4. CASE Wb!Refresh
  <2>1. tabs[active_tab] \in Tab
    BY <1>2 DEF OneActive
  <2>2. tabs[active_tab].url \in Wb!Urls
    BY <2>1 DEF Tab
  <2> QED
    BY <1>2, <1>4, <2>2, LoadKeeps DEF Wb!Refresh
<1>5. CASE Wb!Enter
  BY <1>2, <1>5, WbIs, LoadKeeps DEF WbSound, Wb!Enter
<1>6. CASE Wb!NewTab
  <2> DEFINE ts == Append(tabs, [url |-> HomePage, active |-> FALSE])
             n == Len(ts)
  <2>1. /\ ts \in Seq(Tab) /\ Len(ts) = Len(tabs) + 1
        /\ \A k \in DOMAIN tabs : ts[k] = tabs[k]
        /\ ts[Len(tabs) + 1] = [url |-> HomePage, active |-> FALSE]
    <3>1. [url |-> HomePage, active |-> FALSE] \in Tab
      BY BrowserAssumed DEF Tab
    <3> QED
      BY <1>2, <3>1 DEF OneActive
  <2>2. ts[Len(tabs) + 1].active = FALSE
    BY <2>1
  <2>3. Len(tabs) < MAX_TABS /\ Wb!LoadPage(Wb!Activated(ts, n), n, HomePage)
    BY <1>6 DEF Wb!NewTab
  <2> HIDE DEF ts
  <2>4. Len(ts) \in 1 .. MAX_TABS /\ n \in DOMAIN ts /\ active_tab \in DOMAIN ts
    BY <1>2, <2>1, <2>3, BrowserAssumed DEF OneActive
  <2>5. \A k \in DOMAIN ts : ts[k].active => k = active_tab
    BY <1>2, <2>1, <2>2 DEF OneActive
  <2>6. OneActive(Wb!Activated(ts, n), n)
    BY <2>1, <2>4, <2>5, ActivatedKeeps
  <2> QED
    BY <2>3, <2>6, BrowserAssumed, LoadKeeps
<1>7. ASSUME NEW t \in DOMAIN tabs, Wb!SwitchTab(t)
      PROVE  WbInv'
  <2>1. OneActive(tabs', t) /\ tabs'[t].url = tabs[t].url
    BY <1>2, <1>7, ActivatedKeeps DEF Wb!SwitchTab, OneActive
  <2>2. tabs[t] \in Tab
    BY <1>2, <1>7 DEF OneActive
  <2>3. tabs[t].url \in Wb!Urls
    BY <2>2 DEF Tab
  <2> QED
    BY <1>7, <2>1, <2>3, WbIs DEF Wb!SwitchTab, WbSound
<1>8. ASSUME NEW t \in DOMAIN tabs, Wb!CloseTab(t)
      PROVE  WbInv'
  BY <1>8, CloseKeeps
<1>9. ASSUME NEW c \in BrowserChars, Wb!Type(c)
      PROVE  WbInv'
  <2>1. address_bar' \in Wb!Urls
    BY <1>9, WbIs, BrowserAssumed DEF WbSound, Wb!Type, Wb!Urls
  <2> QED
    BY <1>9, <2>1, WbIs DEF Wb!Type, WbSound
<1>10. CASE Wb!Backspace
  <2>1. address_bar \in Seq(BrowserChars) /\ Len(address_bar) < MAX_URL_LENGTH
    BY WbIs DEF WbSound, Wb!Urls
  <2>2. address_bar' = SubSeq(address_bar, 1, Len(address_bar) - 1) /\ address_bar # <<>>
    BY <1>10 DEF Wb!Backspace, Wb!Front
  <2>3. address_bar' \in Seq(BrowserChars) /\ Len(address_bar') = Len(address_bar) - 1
    BY <2>1, <2>2, FrontFacts
  <2>4. address_bar' \in Wb!Urls
    BY <2>1, <2>3, BrowserAssumed DEF Wb!Urls
  <2> QED
    BY <1>10, <2>4, WbIs DEF Wb!Backspace, WbSound
<1> QED
  BY <1>1, <1>3, <1>4, <1>5, <1>6, <1>7, <1>8, <1>9, <1>10 DEF Wb!Next

(* web_browser.c: exactly one tab is marked active, it is active_tab, and the *)
(* address bar shows its URL, unless the user has typed since or has closed   *)
(* the tab whose address is in the bar, through opening, closing and          *)
(* switching tabs in any order.                                               *)
THEOREM TabsAlwaysAgree == GuiSpec => []TabsAgree
<1>1. GuiStart => WbInv
  BY GuiStarts, WbBegins
<1>2. WbInv /\ [GuiNext]_allVars => WbInv'
  BY GuiTurns, WbStep
<1>3. WbInv => TabsAgree
  BY DEF WbInv
<1> QED
  BY <1>1, <1>2, <1>3, PTL DEF GuiSpec
-----------------------------------------------------------------------------
EdInv == Ed!TypeOK /\ CursorInLine

Lines == Ed!Texts

(* The assumptions of the editor. *)
LEMMA EditorAssumed ==
    /\ EDITOR_ROWS \in Nat \ {0} /\ MAX_LINE_LENGTH \in Nat \ {0}
    /\ EditorWelcome \in [Ed!Rows -> Lines] /\ Sample \in [Ed!Rows -> Lines]
    /\ SavedNote \in Lines /\ WelcomeCursor \in Ed!Rows
  BY GuiAssumption DEF Ed!EditorAssumption, Lines

(* The lines ls and a cursor in them, in the last one or no further than its end. *)
CursorOK(ls, x, y) ==
    /\ ls \in [Ed!Rows -> Lines]
    /\ x \in Nat /\ x <= MAX_LINE_LENGTH
    /\ y \in Ed!Rows
    /\ y # Ed!Bottom => x <= Len(ls[y])

EdRest(m, f, o) ==
    m \in BOOLEAN /\ o \in BOOLEAN /\ f \in {"untitled.txt", "sample.txt"}

(* The invariant, and the invariant of the next state. *)
LEMMA EdIs ==
    /\ EdInv <=> CursorOK(lines, cursor_x, cursor_y) /\ EdRest(modified, filename, overrun)
    /\ EdInv' <=> CursorOK(lines', cursor_x', cursor_y') /\ EdRest(modified', filename', overrun')
<1>1. EdInv <=> CursorOK(lines, cursor_x, cursor_y) /\ EdRest(modified, filename, overrun)
  BY EditorAssumed
  DEF EdInv, Ed!TypeOK, CursorInLine, Ed!CursorInLine, Ed!Line, CursorOK, EdRest, Lines
<1>2. EdInv' <=> CursorOK(lines', cursor_x', cursor_y') /\ EdRest(modified', filename', overrun')
  BY EditorAssumed
  DEF EdInv, Ed!TypeOK, CursorInLine, Ed!CursorInLine, Ed!Line, CursorOK, EdRest, Lines
<1> QED
  BY <1>1, <1>2

(* A line has room for its end mark. *)
LEMMA LineFacts ==
    ASSUME NEW l \in Lines
    PROVE  l \in Seq(EditorChars) /\ Len(l) \in Nat /\ Len(l) < MAX_LINE_LENGTH
  BY DEF Lines, Ed!Texts

(* Text with room for its end mark is a line. *)
LEMMA LineMade ==
    ASSUME NEW l \in Seq(EditorChars), Len(l) < MAX_LINE_LENGTH
    PROVE  l \in Lines
  BY DEF Lines, Ed!Texts

(* A step that leaves the flags and the name in their types. *)
LEMMA EdMoves ==
    ASSUME EdInv, CursorOK(lines', cursor_x', cursor_y'),
           \/ Ed!Edited \/ UNCHANGED <<modified, filename, overrun>>
    PROVE  EdInv'
<1>1. EdRest(modified', filename', overrun')
  BY EdIs DEF Ed!Edited, EdRest
<1> QED
  BY <1>1, EdIs

(* The rows, and the last of them. *)
LEMMA EdRows ==
    /\ Ed!Rows = 0 .. Ed!Bottom /\ Ed!Bottom \in Nat /\ Ed!Bottom \in Ed!Rows
    /\ Ed!Bottom + 1 = EDITOR_ROWS
  BY EditorAssumed DEF Ed!Rows, Ed!Bottom

(* A character goes into the line at the cursor, and the cursor goes on. *)
LEMMA TypeKeeps ==
    ASSUME EdInv, NEW c \in EditorChars, Ed!Type(c)
    PROVE  EdInv'
<1> DEFINE l == lines[cursor_y]
           n == InsertAt(l, cursor_x + 1, c)
<1>1. CursorOK(lines, cursor_x, cursor_y) /\ l \in Lines
  BY EdIs DEF CursorOK
<1>2. l \in Seq(EditorChars) /\ Len(l) \in Nat /\ Len(l) < MAX_LINE_LENGTH - 1
  BY <1>1, LineFacts DEF Ed!Type, Ed!Line
<1>3. CASE Ed!Overrun
  <2>1. EdRest(modified', filename', overrun')
    BY <1>3, EdIs DEF Ed!Overrun, EdRest
  <2>2. CursorOK(lines', cursor_x', cursor_y')
    BY <1>1, <1>3 DEF Ed!Overrun, Ed!cursor
  <2> QED
    BY <2>1, <2>2, EdIs
<1>4. CASE ~Ed!Overrun
  <2>1. /\ ~(cursor_x >= MAX_LINE_LENGTH)
        /\ lines' = IF cursor_x <= Len(l) THEN [lines EXCEPT ![cursor_y] = n] ELSE lines
        /\ cursor_x' = cursor_x + 1 /\ cursor_y' = cursor_y /\ Ed!Edited
    BY <1>4 DEF Ed!Type, Ed!Line, Ed!At, Ed!InsertAt, InsertAt
  <2> HIDE DEF l, n
  <2>2. cursor_x' \in Nat /\ cursor_x' <= MAX_LINE_LENGTH
    BY <1>1, <2>1, EditorAssumed DEF CursorOK
  <2>3. CASE cursor_x <= Len(l)
    <3>1. Inserted(EditorChars, n, l, cursor_x + 1, c)
      <4>1. cursor_x + 1 \in 1 .. (Len(l) + 1)
        BY <1>1, <1>2, <2>3 DEF CursorOK
      <4> QED
        BY <1>2, <4>1, InsertAtFacts DEF n
    <3>2. n \in Lines /\ Len(n) = Len(l) + 1
      <4>1. n \in Seq(EditorChars) /\ Len(n) = Len(l) + 1
        BY <3>1 DEF Inserted
      <4> QED
        BY <1>2, <4>1, LineMade, EditorAssumed
    <3>3. lines' \in [Ed!Rows -> Lines] /\ lines'[cursor_y] = n
      BY <1>1, <2>1, <2>3, <3>2 DEF CursorOK
    <3>4. cursor_x' <= Len(lines'[cursor_y'])
      BY <1>1, <1>2, <2>1, <2>3, <3>2, <3>3 DEF CursorOK
    <3>5. CursorOK(lines', cursor_x', cursor_y')
      BY <1>1, <2>1, <2>2, <3>3, <3>4 DEF CursorOK
    <3> QED
      BY <2>1, <3>5, EdMoves
  <2>4. CASE ~(cursor_x <= Len(l))
    <3>1. cursor_y = Ed!Bottom
      BY <1>1, <2>4 DEF CursorOK, l
    <3>2. CursorOK(lines', cursor_x', cursor_y')
      BY <1>1, <2>1, <2>2, <2>4, <3>1 DEF CursorOK
    <3> QED
      BY <2>1, <3>2, EdMoves
  <2> QED
    BY <2>3, <2>4
<1> QED
  BY <1>3, <1>4

(* The line is cut at the cursor, and the cursor goes to the start of the  *)
(* second part.                                                            *)
LEMMA NewLineKeeps ==
    ASSUME EdInv, Ed!NewLine
    PROVE  EdInv'
<1> DEFINE l == lines[cursor_y]
           a == SubSeq(l, 1, cursor_x)
           b == SubSeq(l, cursor_x + 1, Len(l))
<1>1. CursorOK(lines, cursor_x, cursor_y) /\ l \in Lines /\ cursor_y < Ed!Bottom
  BY EdIs DEF CursorOK, Ed!NewLine
<1>2. /\ l \in Seq(EditorChars) /\ Len(l) \in Nat /\ Len(l) < MAX_LINE_LENGTH
      /\ cursor_x \in Nat /\ cursor_x <= Len(l) /\ cursor_y + 1 \in Ed!Rows
  BY <1>1, LineFacts, EdRows DEF CursorOK
<1>3. /\ lines' = [lines EXCEPT ![cursor_y] = a, ![cursor_y + 1] = b]
      /\ cursor_x' = 0 /\ cursor_y' = cursor_y + 1 /\ Ed!Edited
  BY DEF Ed!NewLine, Ed!Line, Ed!At
<1> HIDE DEF l
<1>4. a \in Lines
  <2>1. a \in Seq(EditorChars) /\ Len(a) = cursor_x - 1 + 1
    BY <1>2, SubSeqFacts
  <2> HIDE DEF a
  <2>2. Len(a) < MAX_LINE_LENGTH
    BY <1>2, <2>1, EditorAssumed
  <2> QED
    BY <2>1, <2>2, LineMade
<1>5. b \in Lines
  <2>1. b \in Seq(EditorChars) /\ Len(b) = Len(l) - (cursor_x + 1) + 1
    BY <1>2, SubSeqFacts
  <2> HIDE DEF b
  <2>2. Len(b) < MAX_LINE_LENGTH
    BY <1>2, <2>1, EditorAssumed
  <2> QED
    BY <2>1, <2>2, LineMade
<1> HIDE DEF a, b
<1>6. lines' \in [Ed!Rows -> Lines] /\ lines'[cursor_y + 1] \in Lines
  BY <1>1, <1>2, <1>3, <1>4, <1>5 DEF CursorOK
<1>7. 0 <= Len(lines'[cursor_y + 1])
  BY <1>6, LineFacts
<1>8. CursorOK(lines', cursor_x', cursor_y')
  BY <1>2, <1>3, <1>6, <1>7, EditorAssumed DEF CursorOK
<1> QED
  BY <1>3, <1>8, EdMoves

(* The character before the cursor goes. *)
LEMMA DeleteKeeps ==
    ASSUME EdInv, Ed!Delete
    PROVE  EdInv'
<1> DEFINE l == lines[cursor_y]
           n == RemoveAt(l, cursor_x)
<1>1. CursorOK(lines, cursor_x, cursor_y) /\ l \in Lines
  BY EdIs DEF CursorOK
<1>2. l \in Seq(EditorChars) /\ Len(l) \in Nat /\ Len(l) < MAX_LINE_LENGTH
  BY <1>1, LineFacts
<1>3. /\ cursor_x > 0
      /\ lines' = IF cursor_x <= Len(l) THEN [lines EXCEPT ![cursor_y] = n] ELSE lines
      /\ cursor_x' = cursor_x - 1 /\ cursor_y' = cursor_y /\ Ed!Edited
  BY DEF Ed!Delete, Ed!Line, Ed!At, Ed!RemoveAt, RemoveAt
<1> HIDE DEF l, n
<1>4. cursor_x' \in Nat /\ cursor_x' <= MAX_LINE_LENGTH
  BY <1>1, <1>3, EditorAssumed DEF CursorOK
<1>5. CASE cursor_x <= Len(l)
  <2>1. Removed(EditorChars, n, l, cursor_x)
    <3>1. cursor_x \in 1 .. Len(l)
      BY <1>1, <1>2, <1>3, <1>5 DEF CursorOK
    <3> QED
      BY <1>2, <3>1, RemoveAtFacts DEF n
  <2>2. n \in Lines /\ Len(n) = Len(l) - 1
    <3>1. n \in Seq(EditorChars) /\ Len(n) = Len(l) - 1
      BY <2>1 DEF Removed
    <3> QED
      BY <1>2, <3>1, LineMade, EditorAssumed
  <2>3. lines' \in [Ed!Rows -> Lines] /\ lines'[cursor_y] = n
    BY <1>1, <1>3, <1>5, <2>2 DEF CursorOK
  <2>4. cursor_x' <= Len(lines'[cursor_y'])
    BY <1>1, <1>2, <1>3, <1>5, <2>2, <2>3 DEF CursorOK
  <2>5. CursorOK(lines', cursor_x', cursor_y')
    BY <1>1, <1>3, <1>4, <2>3, <2>4 DEF CursorOK
  <2> QED
    BY <1>3, <2>5, EdMoves
<1>6. CASE ~(cursor_x <= Len(l))
  <2>1. cursor_y = Ed!Bottom
    BY <1>1, <1>6 DEF CursorOK, l
  <2>2. CursorOK(lines', cursor_x', cursor_y')
    BY <1>1, <1>3, <1>4, <1>6, <2>1 DEF CursorOK
  <2> QED
    BY <1>3, <2>2, EdMoves
<1> QED
  BY <1>5, <1>6

(* The rows behind y move up by one. *)
LEMMA ShiftUpKeeps ==
    ASSUME NEW ls \in [Ed!Rows -> Lines], NEW y \in Ed!Rows
    PROVE  /\ Ed!ShiftUp(ls, y) \in [Ed!Rows -> Lines]
           /\ \A r \in Ed!Rows : r < y => Ed!ShiftUp(ls, y)[r] = ls[r]
<1>1. <<>> \in Lines
  <2>1. <<>> \in Seq(EditorChars) /\ Len(<<>>) = 0
    OBVIOUS
  <2>2. 0 < MAX_LINE_LENGTH
    BY EditorAssumed
  <2> QED
    BY <2>1, <2>2, LineMade
<1>2. \A r \in Ed!Rows : r < Ed!Bottom => r + 1 \in Ed!Rows
  BY EdRows
<1> QED
  BY <1>1, <1>2 DEF Ed!ShiftUp

(* A line is appended to the one before it; the cursor stays where the     *)
(* two meet.                                                               *)
LEMMA JoinKeeps ==
    ASSUME EdInv, Ed!Join
    PROVE  EdInv'
<1> DEFINE l == lines[cursor_y]
           above == lines[cursor_y - 1]
           ls == [lines EXCEPT ![cursor_y - 1] = above \o l]
<1>1. CursorOK(lines, cursor_x, cursor_y) /\ cursor_y > 0
  BY EdIs DEF Ed!Join
<1>2. cursor_y \in Ed!Rows /\ cursor_y - 1 \in Ed!Rows /\ cursor_y - 1 < cursor_y
      /\ cursor_y - 1 # Ed!Bottom
  BY <1>1, EdRows DEF CursorOK
<1>3. l \in Lines /\ above \in Lines
  BY <1>1, <1>2 DEF CursorOK
<1>4. CASE Ed!Overrun
  <2>1. EdRest(modified', filename', overrun')
    BY <1>4, EdIs DEF Ed!Overrun, EdRest
  <2>2. CursorOK(lines', cursor_x', cursor_y')
    BY <1>1, <1>4 DEF Ed!Overrun, Ed!cursor
  <2> QED
    BY <2>1, <2>2, EdIs
<1>5. CASE ~Ed!Overrun
  <2>1. /\ ~(Len(above) + Len(l) >= MAX_LINE_LENGTH)
        /\ lines' = Ed!ShiftUp(ls, cursor_y)
        /\ cursor_x' = Len(above) /\ cursor_y' = cursor_y - 1 /\ Ed!Edited
    BY <1>5 DEF Ed!Join, Ed!Line, Ed!At
  <2> DEFINE j == above \o l
  <2> HIDE DEF above, l
  <2>2. /\ j \in Seq(EditorChars) /\ Len(j) = Len(above) + Len(l)
        /\ Len(above) \in Nat /\ Len(l) \in Nat
    BY <1>3, LineFacts, ConcatFacts
  <2> HIDE DEF j
  <2>3. Len(j) < MAX_LINE_LENGTH
    BY <2>1, <2>2, EditorAssumed
  <2>4. j \in Lines
    BY <2>2, <2>3, LineMade
  <2>5. ls \in [Ed!Rows -> Lines] /\ ls[cursor_y - 1] = j
    BY <1>1, <1>2, <2>4 DEF CursorOK, j
  <2> HIDE DEF ls
  <2>6. lines' \in [Ed!Rows -> Lines] /\ lines'[cursor_y - 1] = j
    BY <1>2, <2>1, <2>5, ShiftUpKeeps
  <2>7. /\ cursor_x' \in Nat /\ cursor_x' <= MAX_LINE_LENGTH
        /\ cursor_x' <= Len(lines'[cursor_y'])
    BY <2>1, <2>2, <2>3, <2>6, EditorAssumed
  <2>8. CursorOK(lines', cursor_x', cursor_y')
    BY <1>2, <2>1, <2>6, <2>7 DEF CursorOK
  <2> QED
    BY <2>1, <2>8, EdMoves
<1> QED
  BY <1>4, <1>5

(* The cursor moves over the lines as they are. *)
LEMMA CursorMoves ==
    ASSUME EdInv, Ed!Left \/ Ed!Right \/ Ed!Up \/ Ed!Down
    PROVE  EdInv'
<1>1. CursorOK(lines, cursor_x, cursor_y)
  BY EdIs
<1>2. \A y \in Ed!Rows : Len(lines[y]) \in Nat /\ Len(lines[y]) < MAX_LINE_LENGTH
  BY <1>1, LineFacts DEF CursorOK
<1>3. UNCHANGED <<lines, modified, filename, overrun>>
  BY DEF Ed!Left, Ed!Right, Ed!Up, Ed!Down, Ed!Moved
<1>4. ASSUME NEW x \in Nat, NEW y \in Ed!Rows, cursor_x' = x, cursor_y' = y, x <= Len(lines[y])
      PROVE  EdInv'
  <2>1. x <= MAX_LINE_LENGTH
    BY <1>2, <1>4, EditorAssumed
  <2>2. CursorOK(lines', cursor_x', cursor_y')
    BY <1>1, <1>3, <1>4, <2>1 DEF CursorOK
  <2> QED
    BY <1>3, <2>2, EdMoves
<1>5. /\ cursor_x \in Nat /\ cursor_y \in Ed!Rows /\ cursor_y \in Nat
      /\ cursor_x <= MAX_LINE_LENGTH
      /\ cursor_y > 0 => cursor_y - 1 \in Ed!Rows
      /\ cursor_y < Ed!Bottom => cursor_y + 1 \in Ed!Rows
  BY <1>1, EdRows DEF CursorOK
<1>6. CASE Ed!Left
  <2>1. CASE cursor_x > 0 /\ Ed!At(cursor_x - 1, cursor_y)
    <3>1. cursor_x - 1 \in Nat /\ cursor_x - 1 <= MAX_LINE_LENGTH
      BY <1>5, <2>1, EditorAssumed
    <3>2. cursor_y # Ed!Bottom => cursor_x - 1 <= Len(lines[cursor_y])
      BY <1>1, <1>2, <1>5 DEF CursorOK
    <3>3. CursorOK(lines', cursor_x', cursor_y')
      BY <1>1, <1>3, <2>1, <3>1, <3>2 DEF CursorOK, Ed!At
    <3> QED
      BY <1>3, <3>3, EdMoves
  <2>2. CASE cursor_y > 0 /\ Ed!At(Len(lines[cursor_y - 1]), cursor_y - 1)
    BY <1>2, <1>4, <1>5, <2>2 DEF Ed!At
  <2> QED
    BY <1>6, <2>1, <2>2 DEF Ed!Left
<1>7. CASE Ed!Right
  <2>1. CASE cursor_x < Len(lines[cursor_y]) /\ Ed!At(cursor_x + 1, cursor_y)
    <3>1. cursor_x + 1 \in Nat /\ cursor_x + 1 <= Len(lines[cursor_y])
      BY <1>2, <1>5, <2>1
    <3> QED
      BY <1>4, <1>5, <2>1, <3>1 DEF Ed!At
  <2>2. CASE cursor_y < Ed!Bottom /\ Ed!At(0, cursor_y + 1)
    <3>1. cursor_y + 1 \in Ed!Rows /\ 0 \in Nat /\ 0 <= Len(lines[cursor_y + 1])
      BY <1>2, <1>5, <2>2
    <3> QED
      BY <1>4, <2>2, <3>1 DEF Ed!At
  <2> QED
    BY <1>7, <2>1, <2>2 DEF Ed!Right, Ed!Line, Ed!NextLine
<1>8. ASSUME NEW y \in Ed!Rows
      PROVE  Ed!Clamped(cursor_x, y) \in Nat /\ Ed!Clamped(cursor_x, y) <= Len(lines[y])
  BY <1>2, <1>5 DEF Ed!Clamped
<1>9. CASE Ed!Up
  BY <1>4, <1>5, <1>8, <1>9 DEF Ed!Up, Ed!At
<1>10. CASE Ed!Down
  BY <1>4, <1>5, <1>8, <1>10 DEF Ed!Down, Ed!At, Ed!NextLine
<1> QED
  BY <1>6, <1>7, <1>9, <1>10

(* A text is opened, with the cursor at its start. *)
LEMMA LoadedKeeps ==
    ASSUME EdInv, NEW text \in [Ed!Rows -> Lines], NEW name \in {"untitled.txt", "sample.txt"},
           Ed!Load(text, name)
    PROVE  EdInv'
<1>1. 0 \in Ed!Rows /\ text[0] \in Lines /\ 0 <= Len(text[0])
  BY EdRows, LineFacts
<1>2. CursorOK(lines', cursor_x', cursor_y')
  BY <1>1, EditorAssumed DEF Ed!Load, Ed!At, CursorOK
<1>3. EdRest(modified', filename', overrun')
  BY EdIs DEF Ed!Load, EdRest
<1> QED
  BY <1>2, <1>3, EdIs

(* The editor opens with its welcome text. *)
LEMMA EdBegins == Ed!Init => EdInv
<1> SUFFICES ASSUME Ed!Init PROVE EdInv
  OBVIOUS
<1>1. 0 <= Len(lines[cursor_y])
  BY EditorAssumed, LineFacts DEF Ed!Init
<1>2. CursorOK(lines, cursor_x, cursor_y)
  BY <1>1, EditorAssumed DEF Ed!Init, CursorOK
<1>3. EdRest(modified, filename, overrun)
  BY DEF Ed!Init, EdRest
<1> QED
  BY <1>2, <1>3, EdIs

(* Every operation of the editor keeps its invariant. *)
LEMMA EdStep ==
    ASSUME EdInv, [Ed!Next]_(Ed!edVars)
    PROVE  EdInv'
<1>1. CASE UNCHANGED Ed!edVars
  BY <1>1, EdIs DEF Ed!edVars, Ed!cursor
<1>2. CASE Ed!Save
  <2>1. lines' \in [Ed!Rows -> Lines] /\ \A y \in Ed!Rows \ {Ed!Bottom} : lines'[y] = lines[y]
    BY <1>2, EdIs, EdRows, EditorAssumed DEF Ed!Save, CursorOK
  <2>2. CursorOK(lines', cursor_x', cursor_y')
    BY <1>2, <2>1, EdIs DEF Ed!Save, Ed!cursor, CursorOK
  <2>3. EdRest(modified', filename', overrun')
    BY <1>2, EdIs DEF Ed!Save, EdRest
  <2> QED
    BY <2>2, <2>3, EdIs
<1>3. CASE Ed!Open
  BY <1>3, EditorAssumed, LoadedKeeps DEF Ed!Open
<1>4. CASE Ed!New
  <2>1. <<>> \in Lines
    <3>1. <<>> \in Seq(EditorChars) /\ Len(<<>>) = 0
      OBVIOUS
    <3>2. 0 < MAX_LINE_LENGTH
      BY EditorAssumed
    <3> QED
      BY <3>1, <3>2, LineMade
  <2> QED
    BY <1>4, <2>1, LoadedKeeps DEF Ed!New
<1> QED
  BY <1>1, <1>2, <1>3, <1>4, TypeKeeps, NewLineKeeps, DeleteKeeps, JoinKeeps, CursorMoves
  DEF Ed!Next

(* text_editor.c: outside the last row the cursor is never behind the end of  *)
(* its line, whatever is typed, split, joined, deleted or loaded, in a text   *)
(* of any size.                                                               *)
THEOREM CursorStaysInLine == GuiSpec => []CursorInLine
<1>1. GuiStart => EdInv
  BY GuiStarts, EdBegins
<1>2. EdInv /\ [GuiNext]_allVars => EdInv'
  BY GuiTurns, EdStep
<1>3. EdInv => CursorInLine
  BY DEF EdInv
<1> QED
  BY <1>1, <1>2, <1>3, PTL DEF GuiSpec
-----------------------------------------------------------------------------
(* Where the cursor is in the whole text. *)
Place(ls, x, y) == Len(TextOf(ls, y)) + (IF x > Len(ls[y]) THEN Len(ls[y]) ELSE x)

Whole(ls) == TextOf(ls, EDITOR_ROWS)

(* The text up to a row, and the whole of it. *)
LEMMA LinesText ==
    ASSUME NEW ls \in [Ed!Rows -> Lines]
    PROVE  /\ TextOf(ls, 0) = <<>>
           /\ \A n \in 0 .. EDITOR_ROWS : TextOf(ls, n) \in Seq(EditorChars)
           /\ \A n \in 1 .. EDITOR_ROWS : TextOf(ls, n) = Cat(TextOf(ls, n - 1), ls[n - 1])
           /\ AreLines(ls, EDITOR_ROWS, EditorChars)
<1>1. AreLines(ls, EDITOR_ROWS, EditorChars)
  BY LineFacts DEF Ed!Rows, AreLines
<1>2. EDITOR_ROWS \in Nat
  BY EditorAssumed
<1> QED
  BY <1>1, <1>2, TextGrows

(* The text around one line, when only that line changes. *)
LEMMA AroundLine ==
    ASSUME NEW ls \in [Ed!Rows -> Lines], NEW y \in Ed!Rows, NEW l \in Lines
    PROVE  LET ms == [ls EXCEPT ![y] = l]
           IN  /\ TextOf(ls, y) \in Seq(EditorChars)
               /\ TextOf(ms, y) = TextOf(ls, y)
               /\ \E t \in Seq(EditorChars) :
                      /\ Whole(ls) = Cat(Cat(TextOf(ls, y), ls[y]), t)
                      /\ Whole(ms) = Cat(Cat(TextOf(ls, y), l), t)
<1> DEFINE ms == [ls EXCEPT ![y] = l]
           m == EDITOR_ROWS
           k == m - (y + 1)
<1>1. ms \in [Ed!Rows -> Lines]
  OBVIOUS
<1>2. m \in Nat /\ y \in Nat /\ k \in Nat /\ y <= m /\ (y + 1) + k = m /\ (y + 1) - 1 = y
      /\ y + 1 \in 1 .. m /\ y \in 0 .. m /\ y \in 0 .. (m - 1)
  BY EditorAssumed DEF Ed!Rows
<1>3. AreLines(ls, m, EditorChars)
  BY LinesText
<1>4. AreLines(ms, m, EditorChars)
  BY <1>1, LinesText
<1>5. \A r \in 0 .. (m - 1) : ms[r] = IF r = y THEN l ELSE ls[r]
  BY DEF Ed!Rows
<1> HIDE DEF ms, k, m
<1>6. TextOf(ls, y) = TextOf(ms, y)
  <2>1. SameLines(ls, 0, ms, 0, y)
    BY <1>2, <1>5 DEF SameLines
  <2> QED
    BY <1>2, <1>3, <1>4, <2>1, SameHead
<1>7. PICK t \in Seq(EditorChars) : /\ TextOf(ls, (y + 1) + k) = Cat(TextOf(ls, y + 1), t)
                                    /\ TextOf(ms, (y + 1) + k) = Cat(TextOf(ms, y + 1), t)
  <2>1. SameLines(ls, y + 1, ms, y + 1, k)
    BY <1>2, <1>5 DEF SameLines
  <2>2. m \in Nat /\ k \in Nat /\ y + 1 \in Nat /\ (y + 1) + k <= m
    BY <1>2
  <2>3. SameText(ls, y + 1, ms, y + 1, k, EditorChars)
    BY <1>3, <1>4, <2>1, <2>2, SameTail
  <2> QED
    BY <2>3, Zenon DEF SameText
<1>8. /\ TextOf(ls, y + 1) = Cat(TextOf(ls, y), ls[y])
      /\ TextOf(ms, y + 1) = Cat(TextOf(ms, y), l)
      /\ TextOf(ls, y) \in Seq(EditorChars)
  <2>1. ms[y] = l
    BY <1>2, <1>5
  <2>2. TextOf(ls, y + 1) = Cat(TextOf(ls, y), ls[y]) /\ TextOf(ls, y) \in Seq(EditorChars)
    BY <1>2, LinesText DEF m
  <2>3. TextOf(ms, y + 1) = Cat(TextOf(ms, y), ms[y])
    BY <1>1, <1>2, LinesText DEF m
  <2> QED
    BY <2>1, <2>2, <2>3
<1> QED
  BY <1>2, <1>6, <1>7, <1>8 DEF Whole, m, ms

(* What the keys of the editor do to the text. *)
EditsText(ls, x, y, ms, u, v) ==
    \/ Whole(ms) = Whole(ls)
    \/ \E c \in EditorChars : /\ Whole(ms) = InsertAt(Whole(ls), Place(ls, x, y) + 1, c)
                              /\ Place(ms, u, v) = Place(ls, x, y) + 1
    \/ /\ Place(ls, x, y) > 0
       /\ Whole(ms) = RemoveAt(Whole(ls), Place(ls, x, y))
       /\ Place(ms, u, v) = Place(ls, x, y) - 1

(* A character goes into the text at the cursor. *)
LEMMA TypeEdits ==
    ASSUME NEW ls \in [Ed!Rows -> Lines], NEW y \in Ed!Rows, NEW x \in Nat, x <= Len(ls[y]),
           NEW c \in EditorChars, InsertAt(ls[y], x + 1, c) \in Lines
    PROVE  EditsText(ls, x, y, [ls EXCEPT ![y] = InsertAt(ls[y], x + 1, c)], x + 1, y)
<1> DEFINE l == ls[y]
           n == InsertAt(l, x + 1, c)
           ms == [ls EXCEPT ![y] = n]
           a == TextOf(ls, y)
<1>1. l \in Seq(EditorChars) /\ Len(l) \in Nat
  BY LineFacts
<1>2. PICK t \in Seq(EditorChars) :
          /\ a \in Seq(EditorChars) /\ TextOf(ms, y) = a
          /\ Whole(ls) = Cat(Cat(a, l), t) /\ Whole(ms) = Cat(Cat(a, n), t)
  BY AroundLine
<1>3. Len(n) = Len(l) + 1
  <2>1. x + 1 \in 1 .. (Len(l) + 1)
    BY <1>1
  <2>2. Inserted(EditorChars, n, l, x + 1, c)
    BY <1>1, <2>1, InsertAtFacts
  <2> QED
    BY <2>2 DEF Inserted
<1>4. ms[y] = n
  OBVIOUS
<1>5. x \in 0 .. Len(l)
  BY <1>1
<1> HIDE DEF l, ms, a
<1>6. Cat(Cat(a, n), t) = InsertAt(Cat(Cat(a, l), t), Len(a) + x + 1, c)
  BY <1>1, <1>2, <1>5, InsertInPart
<1> HIDE DEF n
<1>7. Place(ls, x, y) = Len(a) + x
  BY <1>1, <1>5 DEF Place, l, a
<1>8. Place(ms, x + 1, y) = Len(a) + (x + 1)
  BY <1>1, <1>2, <1>3, <1>4, <1>5 DEF Place
<1>9. Len(a) \in Nat
  BY <1>2
<1>10. /\ Whole(ms) = InsertAt(Whole(ls), Place(ls, x, y) + 1, c)
       /\ Place(ms, x + 1, y) = Place(ls, x, y) + 1
  BY <1>2, <1>6, <1>7, <1>8, <1>9
<1> QED
  BY <1>10 DEF EditsText, ms, n, l

(* The character before the cursor goes out of it. *)
LEMMA DeleteEdits ==
    ASSUME NEW ls \in [Ed!Rows -> Lines], NEW y \in Ed!Rows, NEW x \in Nat, 0 < x, x <= Len(ls[y]),
           RemoveAt(ls[y], x) \in Lines
    PROVE  EditsText(ls, x, y, [ls EXCEPT ![y] = RemoveAt(ls[y], x)], x - 1, y)
<1> DEFINE l == ls[y]
           n == RemoveAt(l, x)
           ms == [ls EXCEPT ![y] = n]
           a == TextOf(ls, y)
<1>1. l \in Seq(EditorChars) /\ Len(l) \in Nat
  BY LineFacts
<1>2. PICK t \in Seq(EditorChars) :
          /\ a \in Seq(EditorChars) /\ TextOf(ms, y) = a
          /\ Whole(ls) = Cat(Cat(a, l), t) /\ Whole(ms) = Cat(Cat(a, n), t)
  BY AroundLine
<1>3. x \in 1 .. Len(l)
  BY <1>1
<1>4. Len(n) = Len(l) - 1
  <2>1. Removed(EditorChars, n, l, x)
    BY <1>1, <1>3, RemoveAtFacts
  <2> QED
    BY <2>1 DEF Removed
<1>5. ms[y] = n
  OBVIOUS
<1> HIDE DEF l, ms, a
<1>6. Cat(Cat(a, n), t) = RemoveAt(Cat(Cat(a, l), t), Len(a) + x)
  BY <1>1, <1>2, <1>3, RemoveInPart
<1> HIDE DEF n
<1>7. Place(ls, x, y) = Len(a) + x
  BY <1>1, <1>3 DEF Place, l, a
<1>8. Place(ms, x - 1, y) = Len(a) + (x - 1)
  BY <1>1, <1>2, <1>3, <1>4, <1>5 DEF Place
<1>9. Len(a) \in Nat
  BY <1>2
<1>10. /\ Place(ls, x, y) > 0
       /\ Whole(ms) = RemoveAt(Whole(ls), Place(ls, x, y))
       /\ Place(ms, x - 1, y) = Place(ls, x, y) - 1
  BY <1>2, <1>3, <1>6, <1>7, <1>8, <1>9
<1> QED
  BY <1>10 DEF EditsText, ms, n, l

(* Two lines made one: the text stays as it is. *)
LEMMA JoinKeepsText ==
    ASSUME NEW ls \in [Ed!Rows -> Lines], NEW ms \in [Ed!Rows -> Lines],
           NEW y \in Ed!Rows, 0 < y,
           \A r \in Ed!Rows : ms[r] = IF r < y - 1 THEN ls[r]
                                      ELSE IF r = y - 1 THEN Cat(ls[y - 1], ls[y])
                                      ELSE IF r < Ed!Bottom THEN ls[r + 1] ELSE <<>>
    PROVE  Whole(ms) = Whole(ls)
<1> DEFINE m == EDITOR_ROWS
           k == m - (y + 1)
           a == TextOf(ls, y - 1)
           l == ls[y - 1]
           n == ls[y]
<1>1. /\ m \in Nat /\ y \in Nat /\ y - 1 \in Nat /\ k \in Nat /\ y - 1 <= m
      /\ (y + 1) + k = m /\ y + 1 \in Nat /\ (y + 1) + k <= m /\ y + k = m - 1 /\ y + k <= m
      /\ (y + 1) - 1 = y /\ y - 1 \in 0 .. m /\ y \in 1 .. m /\ y + 1 \in 1 .. m /\ m \in 1 .. m
      /\ m - 1 \in 0 .. m
  BY EditorAssumed DEF Ed!Rows
<1>2. /\ ms[y - 1] = Cat(l, n)
      /\ SameLines(ls, 0, ms, 0, y - 1) /\ SameLines(ls, y + 1, ms, y, k)
  <2>1. y - 1 \in Ed!Rows /\ ~(y - 1 < y - 1)
    BY EditorAssumed DEF Ed!Rows
  <2>2. \A i \in 0 .. ((y - 1) - 1) : 0 + i \in Ed!Rows /\ 0 + i < y - 1
    BY <1>1 DEF Ed!Rows
  <2>3. \A i \in 0 .. (k - 1) : /\ y + i \in Ed!Rows /\ ~(y + i < y - 1) /\ y + i # y - 1
                                /\ y + i < Ed!Bottom /\ (y + i) + 1 = (y + 1) + i
    BY <1>1 DEF Ed!Rows, Ed!Bottom
  <2> HIDE DEF k
  <2> QED
    BY <2>1, <2>2, <2>3 DEF SameLines
<1>3. ms[m - 1] = <<>>
  BY <1>1 DEF Ed!Rows, Ed!Bottom
<1>4. l \in Seq(EditorChars) /\ n \in Seq(EditorChars)
  BY <1>1, LineFacts DEF Ed!Rows
<1> HIDE DEF m, k
<1>6. AreLines(ls, m, EditorChars) /\ AreLines(ms, m, EditorChars)
  BY LinesText DEF m
<1>7. TextOf(ls, y - 1) = TextOf(ms, y - 1)
  BY <1>1, <1>2, <1>6, SameHead
<1>8. SameText(ls, y + 1, ms, y, k, EditorChars)
  BY <1>1, <1>2, <1>6, SameTail
<1>9. PICK t \in Seq(EditorChars) : /\ TextOf(ls, (y + 1) + k) = Cat(TextOf(ls, y + 1), t)
                                    /\ TextOf(ms, y + k) = Cat(TextOf(ms, y), t)
  BY <1>8, Zenon DEF SameText
<1>10. /\ a \in Seq(EditorChars)
       /\ TextOf(ls, y) = Cat(a, l)
       /\ TextOf(ls, y + 1) = Cat(TextOf(ls, y), n)
  BY <1>1, LinesText DEF m
<1>11. TextOf(ms, y) = TextOf(ls, y + 1)
  <2>1. TextOf(ms, y) = Cat(TextOf(ms, y - 1), ms[y - 1])
    BY <1>1, LinesText DEF m
  <2> HIDE DEF a, l, n
  <2>2. TextOf(ms, y) = Cat(a, Cat(l, n))
    BY <1>2, <1>7, <2>1 DEF a
  <2>3. Cat(Cat(a, l), n) = Cat(a, Cat(l, n))
    BY <1>4, <1>10, CatAssociative
  <2> QED
    BY <1>10, <2>2, <2>3
<1>12. Whole(ms) = TextOf(ms, m - 1)
  <2>1. TextOf(ms, m) = Cat(TextOf(ms, m - 1), ms[m - 1]) /\ TextOf(ms, m - 1) \in Seq(EditorChars)
    BY <1>1, LinesText DEF m
  <2>2. Cat(TextOf(ms, m - 1), <<>>) = TextOf(ms, m - 1)
    BY <2>1, ConcatEmptySeq DEF Cat
  <2> QED
    BY <1>3, <2>1, <2>2 DEF Whole, m
<1> QED
  BY <1>1, <1>9, <1>11, <1>12 DEF Whole, m

(* What a key does to the text and to the cursor in it. *)
Edits ==
    \/ UNCHANGED lines
    \/ EditsText(lines, cursor_x, cursor_y, lines', cursor_x', cursor_y')
    \/ Ed!NewLine \/ Ed!Save \/ Ed!Open \/ Ed!New

(* A character is typed. *)
LEMMA TypeIsEdit ==
    ASSUME EdInv, NEW c \in EditorChars, Ed!Type(c)
    PROVE  Edits
<1> DEFINE l == lines[cursor_y]
           n == InsertAt(l, cursor_x + 1, c)
<1>1. CursorOK(lines, cursor_x, cursor_y) /\ l \in Lines
  BY EdIs DEF CursorOK
<1>2. CASE Ed!Overrun \/ ~(cursor_x <= Len(l))
  <2>1. lines' = lines
    BY <1>2 DEF Ed!Type, Ed!Line, Ed!Overrun
  <2> QED
    BY <2>1 DEF Edits
<1>3. CASE ~Ed!Overrun /\ cursor_x <= Len(l)
  <2>1. /\ lines' = [lines EXCEPT ![cursor_y] = n]
        /\ cursor_x' = cursor_x + 1 /\ cursor_y' = cursor_y
    BY <1>3 DEF Ed!Type, Ed!Line, Ed!At, Ed!InsertAt, InsertAt
  <2>2. n \in Lines
    <3>1. l \in Seq(EditorChars) /\ Len(l) \in Nat /\ Len(l) < MAX_LINE_LENGTH - 1
      BY <1>1, LineFacts DEF Ed!Type, Ed!Line
    <3>2. cursor_x + 1 \in 1 .. (Len(l) + 1)
      BY <1>1, <1>3, <3>1 DEF CursorOK
    <3> HIDE DEF l
    <3>3. Inserted(EditorChars, n, l, cursor_x + 1, c)
      BY <3>1, <3>2, InsertAtFacts
    <3> HIDE DEF n
    <3>4. n \in Seq(EditorChars) /\ Len(n) < MAX_LINE_LENGTH
      BY <3>1, <3>3, EditorAssumed DEF Inserted
    <3> QED
      BY <3>4, LineMade
  <2>3. EditsText(lines, cursor_x, cursor_y, [lines EXCEPT ![cursor_y] = n], cursor_x + 1, cursor_y)
    BY <1>1, <1>3, <2>2, TypeEdits DEF CursorOK
  <2> HIDE DEF n
  <2> QED
    BY <2>1, <2>3 DEF Edits
<1> QED
  BY <1>2, <1>3

(* A character is deleted. *)
LEMMA DeleteIsEdit ==
    ASSUME EdInv, Ed!Delete
    PROVE  Edits
<1> DEFINE l == lines[cursor_y]
           n == RemoveAt(l, cursor_x)
<1>1. CursorOK(lines, cursor_x, cursor_y) /\ l \in Lines /\ 0 < cursor_x
  BY EdIs DEF CursorOK, Ed!Delete
<1>2. CASE ~(cursor_x <= Len(l))
  <2>1. lines' = lines
    BY <1>2 DEF Ed!Delete, Ed!Line
  <2> QED
    BY <2>1 DEF Edits
<1>3. CASE cursor_x <= Len(l)
  <2>1. /\ lines' = [lines EXCEPT ![cursor_y] = n]
        /\ cursor_x' = cursor_x - 1 /\ cursor_y' = cursor_y
    BY <1>3 DEF Ed!Delete, Ed!Line, Ed!At, Ed!RemoveAt, RemoveAt
  <2>2. n \in Lines
    <3>1. l \in Seq(EditorChars) /\ Len(l) \in Nat /\ Len(l) < MAX_LINE_LENGTH
      BY <1>1, LineFacts
    <3>2. cursor_x \in 1 .. Len(l)
      BY <1>1, <1>3, <3>1 DEF CursorOK
    <3> HIDE DEF l
    <3>3. Removed(EditorChars, n, l, cursor_x)
      BY <3>1, <3>2, RemoveAtFacts
    <3> HIDE DEF n
    <3>4. n \in Seq(EditorChars) /\ Len(n) < MAX_LINE_LENGTH
      BY <3>1, <3>3, EditorAssumed DEF Removed
    <3> QED
      BY <3>4, LineMade
  <2>3. EditsText(lines, cursor_x, cursor_y, [lines EXCEPT ![cursor_y] = n], cursor_x - 1, cursor_y)
    BY <1>1, <1>3, <2>2, DeleteEdits DEF CursorOK
  <2> HIDE DEF n
  <2> QED
    BY <2>1, <2>3 DEF Edits
<1> QED
  BY <1>2, <1>3

(* Two lines are joined. *)
LEMMA JoinIsEdit ==
    ASSUME EdInv, Ed!Join
    PROVE  Edits
<1> DEFINE j == Cat(lines[cursor_y - 1], lines[cursor_y])
           ls == [lines EXCEPT ![cursor_y - 1] = j]
<1>1. CursorOK(lines, cursor_x, cursor_y) /\ 0 < cursor_y
  BY EdIs DEF Ed!Join
<1>2. CursorOK(lines', cursor_x', cursor_y')
  BY JoinKeeps, EdIs
<1>3. CASE Ed!Overrun
  BY <1>3 DEF Edits, Ed!Overrun
<1>4. CASE ~Ed!Overrun
  <2>1. lines' = Ed!ShiftUp(ls, cursor_y)
    BY <1>4 DEF Ed!Join, Ed!Line, Cat
  <2>2. cursor_y - 1 \in Ed!Rows /\ cursor_y \in Nat
    BY <1>1, EdRows DEF CursorOK
  <2>3. \A r \in Ed!Rows : ls[r] = IF r = cursor_y - 1 THEN j ELSE lines[r]
    BY <1>1, <2>2 DEF CursorOK
  <2> HIDE DEF ls
  <2>4. \A r \in Ed!Rows :
            lines'[r] = IF r < cursor_y THEN ls[r] ELSE IF r < Ed!Bottom THEN ls[r + 1] ELSE <<>>
    BY <2>1 DEF Ed!ShiftUp
  <2>5. ASSUME NEW r \in Ed!Rows
        PROVE  lines'[r] = IF r < cursor_y - 1 THEN lines[r]
                           ELSE IF r = cursor_y - 1 THEN j
                           ELSE IF r < Ed!Bottom THEN lines[r + 1] ELSE <<>>
    <3> HIDE DEF j
    <3>1. r \in Nat /\ (r < Ed!Bottom => r + 1 \in Ed!Rows)
      BY EdRows
    <3>2. CASE r < cursor_y
      BY <2>2, <2>3, <2>4, <3>1, <3>2
    <3>3. CASE ~(r < cursor_y)
      <4>1. r + 1 # cursor_y - 1 /\ r # cursor_y - 1 /\ ~(r < cursor_y - 1)
        BY <2>2, <3>1, <3>3
      <4> QED
        BY <2>3, <2>4, <3>1, <3>3, <4>1
    <3> QED
      BY <3>2, <3>3
  <2>6. Whole(lines') = Whole(lines)
    BY <1>1, <1>2, <2>5, JoinKeepsText DEF CursorOK
  <2> QED
    BY <2>6 DEF Edits, EditsText
<1> QED
  BY <1>3, <1>4

(* A key that changes the text changes it where the cursor is. *)
LEMMA KeysEdit ==
    ASSUME EdInv, Ed!Next
    PROVE  Edits
<1>1. CASE Ed!Left \/ Ed!Right \/ Ed!Up \/ Ed!Down
  BY <1>1 DEF Edits, Ed!Left, Ed!Right, Ed!Up, Ed!Down, Ed!Moved
<1>2. CASE Ed!NewLine \/ Ed!Save \/ Ed!Open \/ Ed!New
  BY <1>2 DEF Edits
<1> QED
  BY <1>1, <1>2, TypeIsEdit, DeleteIsEdit, JoinIsEdit DEF Ed!Next

(* The text of the lines, before and after a step. *)
LEMMA TextIs ==
    /\ \A n : Ed!TextTo(n) = TextOf(lines, n) /\ Ed!TextTo(n)' = TextOf(lines', n)
    /\ Ed!Text = Whole(lines) /\ Ed!Text' = Whole(lines')
    /\ Ed!Offset = Place(lines, cursor_x, cursor_y)
    /\ Ed!Offset' = Place(lines', cursor_x', cursor_y')
<1>1. ASSUME NEW n
      PROVE  Ed!TextTo(n) = TextOf(lines, n) /\ Ed!TextTo(n)' = TextOf(lines', n)
  BY Zenon DEF Ed!TextTo, TextOf, Ed!FlattenSeq, FlattenSeq
<1>2. Ed!Text = Whole(lines) /\ Ed!Text' = Whole(lines')
  BY <1>1 DEF Ed!Text, Whole
<1>3. Ed!Offset = Place(lines, cursor_x, cursor_y)
  BY <1>1, Zenon DEF Ed!Offset, Ed!Clamped, Place
<1>4. Ed!Offset' = Place(lines', cursor_x', cursor_y')
  BY <1>1, Zenon DEF Ed!Offset, Ed!Clamped, Place
<1> QED
  BY <1>1, <1>2, <1>3, <1>4

(* The same in the terms of the editor. *)
AtCursor ==
    \/ UNCHANGED lines \/ Ed!Text' = Ed!Text
    \/ \E c \in EditorChars :
          Ed!Text' = Ed!InsertAt(Ed!Text, Ed!Offset + 1, c) /\ Ed!Offset' = Ed!Offset + 1
    \/ Ed!Offset > 0 /\ Ed!Text' = Ed!RemoveAt(Ed!Text, Ed!Offset) /\ Ed!Offset' = Ed!Offset - 1
    \/ Ed!NewLine \/ Ed!Save \/ Ed!Open \/ Ed!New

(* What was said of the lines says it of the editor. *)
LEMMA EditsAtTheCursor == Edits => AtCursor
<1> SUFFICES ASSUME Edits PROVE AtCursor
  OBVIOUS
<1>1. CASE EditsText(lines, cursor_x, cursor_y, lines', cursor_x', cursor_y')
  BY <1>1, TextIs, Zenon DEF EditsText, AtCursor, Ed!InsertAt, InsertAt, Ed!RemoveAt, RemoveAt
<1>2. CASE UNCHANGED lines \/ Ed!NewLine \/ Ed!Save \/ Ed!Open \/ Ed!New
  BY <1>2 DEF AtCursor
<1> QED
  BY <1>1, <1>2 DEF Edits

(* text_editor.c: whatever the lines are, a character that is typed goes into  *)
(* the text at the cursor, Backspace takes out the one before it, also when it *)
(* joins two lines, and an arrow changes nothing; of Enter and of Ctrl with S, *)
(* O or N nothing is said.                                                     *)
THEOREM KeysEditAtCursor == GuiSpec => EditsAtCursor
<1>1. GuiStart => EdInv
  BY GuiStarts, EdBegins
<1>2. EdInv /\ [GuiNext]_allVars => EdInv'
  BY GuiTurns, EdStep
<1>3. EdInv /\ [GuiNext]_allVars => [AtCursor]_(Ed!edVars)
  BY GuiTurns, KeysEdit, EditsAtTheCursor
<1> QED
  BY <1>1, <1>2, <1>3, PTL DEF GuiSpec, EditsAtCursor, Ed!EditsAtCursor, AtCursor
-----------------------------------------------------------------------------
(* terminal_print_text prints one line after the other. *)
LEMMA PrintLinesTurns ==
    ASSUME NEW S, NEW b \in S, NEW ls \in Seq(Seq(Printable)),
           \A a \in S, l \in Seq(Printable) : Tm!PrintLine(a, l) \in S
    PROVE  \E f : /\ f[0] = b
                  /\ \A k \in 1 .. Len(ls) : f[k] = Tm!PrintLine(f[k - 1], ls[k])
                  /\ Tm!PrintLines(b, ls) = f[Len(ls)]
<1> DEFINE l == ls
           n == Len(ls)
           F == [k \in 1 .. n |-> [a \in S |-> Tm!PrintLine(a, l[k])]]
           IsIter(h) == h = [t \in SUBSET DOMAIN l |->
                               IF t = {} THEN b ELSE Tm!PrintLine(h[t \ {Max(t)}], l[Max(t)])]
           iter == CHOOSE h : IsIter(h)
<1>1. n \in Nat /\ DOMAIN l = 1 .. n
  OBVIOUS
<1>2. \A k \in 1 .. n, a \in S : Tm!PrintLine(a, l[k]) \in S
  OBVIOUS
<1>3. Tm!PrintLines(b, ls) = iter[DOMAIN l]
  BY Zenon DEF Tm!PrintLines, Tm!FoldLeft, Tm!MapThenFoldSet, Tm!Max, Max
<1>4. F \in [1 .. n -> [S -> S]]
  <2> HIDE DEF n, l
  <2> QED
    BY <1>2
<1>5. \A k \in 1 .. n, a \in S : F[k][a] = Tm!PrintLine(a, l[k])
  OBVIOUS
<1> HIDE DEF F, n, l
<1>6. PICK g : Folds(g, n, S, b, F)
  BY <1>1, <1>4, FoldExists
<1>7. IsIter(g)
  <2>1. g \in [SUBSET (1 .. n) -> S]
    BY <1>6 DEF Folds
  <2>2. ASSUME NEW t \in SUBSET (1 .. n)
        PROVE  g[t] = IF t = {} THEN b ELSE Tm!PrintLine(g[t \ {Max(t)}], l[Max(t)])
    <3>1. CASE t = {}
      BY <3>1, <1>6 DEF Folds
    <3>2. CASE t # {}
      <4>1. Max(t) \in 1 .. n /\ t \ {Max(t)} \in SUBSET (1 .. n)
        BY <1>1, <3>2, GreatestElement
      <4>2. g[t \ {Max(t)}] \in S
        BY <2>1, <4>1
      <4>3. g[t] = F[Max(t)][g[t \ {Max(t)}]]
        BY <3>2, <1>6 DEF Folds
      <4> QED
        BY <1>5, <3>2, <4>1, <4>2, <4>3
    <3> QED
      BY <3>1, <3>2
  <2> QED
    BY <1>1, <2>1, <2>2
<1>8. IsIter(iter)
  BY <1>7
<1> HIDE DEF iter
<1> DEFINE f == [k \in 0 .. n |-> iter[1 .. k]]
<1>9. f[0] = b
  <2>1. {} \in SUBSET DOMAIN l
    OBVIOUS
  <2>2. iter[{}] = b
    BY <1>8, <2>1
  <2> QED
    BY <1>1, <2>2, FoldIntervals
<1>10. ASSUME NEW k \in 1 .. n PROVE f[k] = Tm!PrintLine(f[k - 1], l[k])
  <2>0. k \in 0 .. n /\ k - 1 \in 0 .. n
    BY <1>1
  <2>1. /\ 1 .. k \in SUBSET DOMAIN l /\ 1 .. k # {} /\ Max(1 .. k) = k
        /\ (1 .. k) \ {k} = 1 .. (k - 1) /\ k \in 0 .. n /\ k - 1 \in 0 .. n
    BY <1>1, <2>0, FoldIntervals
  <2>2. iter[1 .. k] = Tm!PrintLine(iter[(1 .. k) \ {k}], l[k])
    BY <1>8, <2>1
  <2> QED
    BY <2>1, <2>2
<1>11. Tm!PrintLines(b, ls) = f[n]
  BY <1>1, <1>3
<1> HIDE DEF f
<1> QED
  BY <1>1, <1>9, <1>10, <1>11 DEF n, l


(* What every printed line keeps, a text keeps. *)
LEMMA PrintLinesStay ==
    ASSUME NEW S, NEW b \in S, NEW ls \in Seq(Seq(Printable)),
           \A a \in S, l \in Seq(Printable) : Tm!PrintLine(a, l) \in S
    PROVE  Tm!PrintLines(b, ls) \in S
<1>1. PICK f : /\ f[0] = b
               /\ \A k \in 1 .. Len(ls) : f[k] = Tm!PrintLine(f[k - 1], ls[k])
               /\ Tm!PrintLines(b, ls) = f[Len(ls)]
  BY PrintLinesTurns
<1> DEFINE n == Len(ls)
           G == [k \in 0 .. n |-> S]
<1>2. n \in Nat /\ \A k \in 1 .. n : ls[k] \in Seq(Printable)
  OBVIOUS
<1>3. f[0] \in G[0]
  BY <1>1, <1>2
<1>4. \A k \in 1 .. n : f[k - 1] \in G[k - 1] => f[k] \in G[k]
  BY <1>1, <1>2
<1> HIDE DEF n
<1>5. \A k \in 0 .. n : f[k] \in G[k]
  <2> HIDE DEF G
  <2> QED
    BY <1>2, <1>3, <1>4, Reaches
<1> QED
  BY <1>1, <1>2, <1>5 DEF n

Cells  == Printable \cup {Blank}
Buffer == [Tm!Rows -> [Tm!Cols -> Cells]]

(* A screen; with blank rows behind the row that a line is printed into, and  *)
(* with that row blank as well.                                               *)
TermScreen == [buf: Buffer, x: 0 .. TERM_COLS, y: 0 .. (TERM_ROWS - 1)]

Ready == {t \in TermScreen : \A r \in Tm!Rows : r > t.y + 1 => t.buf[r] = Tm!BlankRow}
Fresh == {t \in TermScreen : \A r \in Tm!Rows : r > t.y => t.buf[r] = Tm!BlankRow}

(* The assumptions of the terminal. *)
LEMMA TerminalAssumed ==
    /\ TERM_ROWS \in Nat \ {0} /\ TERM_COLS \in Nat /\ Len(Prompt) < TERM_COLS
    /\ TerminalChars \subseteq Printable
    /\ Prompt \in Seq(Printable) /\ NotFound \in Seq(Printable)
    /\ TerminalWelcome \in Seq(Seq(Printable))
    /\ \A command \in DOMAIN Commands : Commands[command] \in Seq(Seq(Printable))
    /\ EchoCommand \in Seq(Printable)
    /\ Len(Prompt) \in Nat
<1>1. Tm!TerminalAssumption
  BY GuiAssumption
<1> QED
  BY <1>1 DEF Tm!TerminalAssumption

(* A row that was cleared is a row. *)
LEMMA BlankRowIsRow == Tm!BlankRow \in [Tm!Cols -> Cells]
  BY DEF Tm!BlankRow, Cells

(* The fields of a screen are replaced one after the other. *)
LEMMA FieldPut ==
    ASSUME NEW B, NEW X, NEW Y, NEW t \in [buf: B, x: X, y: Y], NEW e
    PROVE  /\ [t EXCEPT !.buf = e] \in [buf: {e}, x: {t.x}, y: {t.y}]
           /\ [t EXCEPT !.x = e] \in [buf: {t.buf}, x: {e}, y: {t.y}]
           /\ [t EXCEPT !.y = e] \in [buf: {t.buf}, x: {t.x}, y: {e}]
<1>1. [t EXCEPT !.buf = e] \in [buf: {e}, x: {t.x}, y: {t.y}]
  OBVIOUS
<1>2. [t EXCEPT !.x = e] \in [buf: {t.buf}, x: {e}, y: {t.y}]
  OBVIOUS
<1>3. [t EXCEPT !.y = e] \in [buf: {t.buf}, x: {t.x}, y: {e}]
  OBVIOUS
<1> QED
  BY <1>1, <1>2, <1>3

Refilled(t, b, u, v) == [t EXCEPT !.buf = b, !.x = u, !.y = v]
Replaced(t, b, v)    == [[t EXCEPT !.buf = b] EXCEPT !.y = v]

(* Two fields of a screen, and three. *)
LEMMA FieldsPut ==
    ASSUME NEW B, NEW X, NEW Y, NEW t \in [buf: B, x: X, y: Y], NEW b, NEW u, NEW v
    PROVE  /\ Refilled(t, b, u, v) = [buf |-> b, x |-> u, y |-> v]
           /\ Replaced(t, b, v) = [buf |-> b, x |-> t.x, y |-> v]
<1> DEFINE t1 == [t EXCEPT !.buf = b]
           t2 == [t1 EXCEPT !.x = u]
           t3 == [t2 EXCEPT !.y = v]
           t4 == [t1 EXCEPT !.y = v]
<1>1. Refilled(t, b, u, v) = t3
  BY DEF Refilled
<1>2. t1 \in [buf: {b}, x: {t.x}, y: {t.y}]
  BY FieldPut
<1>3. Replaced(t, b, v) = t4
  BY DEF Replaced
<1> HIDE DEF t1
<1>4. t2 \in [buf: {b}, x: {u}, y: {t.y}] /\ t4 \in [buf: {b}, x: {t.x}, y: {v}]
  BY <1>2, FieldPut
<1> HIDE DEF t2, t4
<1>5. t3 \in [buf: {b}, x: {u}, y: {v}]
  BY <1>4, FieldPut
<1> HIDE DEF t3
<1>6. t3 = [buf |-> b, x |-> u, y |-> v] /\ t4 = [buf |-> b, x |-> t.x, y |-> v]
  BY <1>4, <1>5
<1> QED
  BY <1>1, <1>3, <1>6

(* What a line leaves: the cursor at the start of a blank row. *)
LEMMA PrintedLine ==
    ASSUME NEW t \in Ready, NEW l \in Seq(Printable)
    PROVE  Tm!PrintLine(t, l) \in Fresh /\ Tm!PrintLine(t, l).x = 0
<1> DEFINE y == t.y + 1
           row == [c \in Tm!Cols |-> IF c > t.x /\ c - t.x <= Len(l) THEN l[c - t.x]
                                     ELSE t.buf[y][c]]
           new == [t.buf EXCEPT ![y] = row]
           p == [buf |-> new, x |-> 0, y |-> y]
           up == [r \in Tm!Rows |-> IF r < TERM_ROWS THEN new[r + 1] ELSE Tm!BlankRow]
           s == [buf |-> up, x |-> 0, y |-> TERM_ROWS - 1]
<1>1. /\ t.buf \in Buffer /\ t.x \in 0 .. TERM_COLS /\ t.y \in 0 .. (TERM_ROWS - 1)
      /\ t = [buf |-> t.buf, x |-> t.x, y |-> t.y]
      /\ \A r \in Tm!Rows : r > t.y + 1 => t.buf[r] = Tm!BlankRow
  BY DEF Ready, TermScreen
<1>2. y \in Tm!Rows /\ y \in Nat /\ t.x \in Nat /\ TERM_ROWS \in Tm!Rows
  BY <1>1, TerminalAssumed DEF Tm!Rows
<1>3. Tm!PrintLine(t, l) = IF y >= TERM_ROWS THEN s ELSE p
  <2> DEFINE q == [t EXCEPT !.buf[t.y + 1] = row, !.x = 0, !.y = t.y + 1]
  <2>1. Tm!PrintLine(t, l) =
            IF q.y >= TERM_ROWS THEN [Tm!Scroll(q) EXCEPT !.y = TERM_ROWS - 1] ELSE q
    BY DEF Tm!PrintLine
  <2> HIDE DEF row
  <2>2. q = p
    <3>1. q = [t EXCEPT !.buf = new, !.x = 0, !.y = y]
      OBVIOUS
    <3> HIDE DEF q, new, y
    <3>2. [t EXCEPT !.buf = new, !.x = 0, !.y = y] = p
      <4>1. t \in [buf: Buffer, x: 0 .. TERM_COLS, y: 0 .. (TERM_ROWS - 1)]
        BY DEF Ready, TermScreen
      <4>2. Refilled(t, new, 0, y) = p
        BY <4>1, FieldsPut
      <4> QED
        BY <4>2 DEF Refilled
    <3> QED
      BY <3>1, <3>2
  <2> HIDE DEF q, new
  <2>3. [Tm!Scroll(p) EXCEPT !.y = TERM_ROWS - 1] = s /\ p.y = y
    <3>1. p.buf = new /\ p.x = 0 /\ p.y = y
      OBVIOUS
    <3>4. PICK B, X, Y : p \in [buf: B, x: X, y: Y]
      <4>1. p \in [buf: {new}, x: {0}, y: {y}]
        OBVIOUS
      <4> HIDE DEF p
      <4> QED
        BY <4>1, Zenon
    <3> HIDE DEF p
    <3>2. Tm!Scroll(p) = [p EXCEPT !.buf = up]
      BY <3>1 DEF Tm!Scroll
    <3> HIDE DEF up
    <3>3. [[p EXCEPT !.buf = up] EXCEPT !.y = TERM_ROWS - 1] = s
      <4>1. Replaced(p, up, TERM_ROWS - 1) = [buf |-> up, x |-> p.x, y |-> TERM_ROWS - 1]
        BY <3>4, FieldsPut
      <4> QED
        BY <3>1, <4>1 DEF Replaced
    <3> QED
      BY <3>1, <3>2, <3>3
  <2> QED
    BY <2>1, <2>2, <2>3
<1>4. row \in [Tm!Cols -> Cells]
  <2>1. ASSUME NEW c \in Tm!Cols
        PROVE  (IF c > t.x /\ c - t.x <= Len(l) THEN l[c - t.x] ELSE t.buf[y][c]) \in Cells
    <3>1. CASE c > t.x /\ c - t.x <= Len(l)
      <4>1. c - t.x \in 1 .. Len(l)
        BY <1>2, <3>1, TerminalAssumed DEF Tm!Cols
      <4> QED
        BY <3>1, <4>1 DEF Cells
    <3>2. CASE ~(c > t.x /\ c - t.x <= Len(l))
      BY <1>1, <1>2, <3>2 DEF Buffer
    <3> QED
      BY <3>1, <3>2
  <2> QED
    BY <2>1
<1> HIDE DEF row
<1>5. /\ new \in Buffer
      /\ \A r \in Tm!Rows : r > y => new[r] = Tm!BlankRow
  BY <1>1, <1>2, <1>4 DEF Buffer, Tm!Rows
<1> HIDE DEF new
<1>6. up \in Buffer /\ up[TERM_ROWS] = Tm!BlankRow
  <2>1. \A r \in Tm!Rows : r < TERM_ROWS => r + 1 \in Tm!Rows
    BY TerminalAssumed DEF Tm!Rows
  <2> QED
    BY <1>2, <1>5, <2>1, BlankRowIsRow, TerminalAssumed DEF Buffer
<1> HIDE DEF up
<1>7. CASE y >= TERM_ROWS
  <2>1. s \in TermScreen
    BY <1>6, TerminalAssumed DEF TermScreen
  <2>2. \A r \in Tm!Rows : r > s.y => r = TERM_ROWS
    BY TerminalAssumed DEF Tm!Rows
  <2>3. \A r \in Tm!Rows : r > s.y => s.buf[r] = Tm!BlankRow
    BY <1>6, <2>2
  <2> QED
    BY <1>3, <1>7, <2>1, <2>3 DEF Fresh
<1>8. CASE ~(y >= TERM_ROWS)
  <2>1. p \in TermScreen
    BY <1>1, <1>2, <1>5, <1>8, TerminalAssumed DEF TermScreen
  <2> QED
    BY <1>3, <1>5, <1>8, <2>1 DEF Fresh
<1> QED
  BY <1>7, <1>8

(* A cleared row is ready for a line. *)
LEMMA FreshIsReady ==
    ASSUME NEW t \in Fresh
    PROVE  t \in Ready
  BY TerminalAssumed DEF Fresh, Ready, TermScreen, Tm!Rows

(* A text leaves a cleared row at the cursor. *)
LEMMA PrintedLines ==
    ASSUME NEW t \in Fresh, NEW ls \in Seq(Seq(Printable))
    PROVE  Tm!PrintLines(t, ls) \in Fresh
<1>1. \A a \in Fresh, l \in Seq(Printable) : Tm!PrintLine(a, l) \in Fresh
  BY PrintedLine, FreshIsReady
<1> QED
  BY <1>1, PrintLinesStay

(* The prompt leaves the cursor behind it in its row. *)
LEMMA PrintedPrompt ==
    ASSUME NEW t \in Fresh
    PROVE  Tm!PrintPrompt(t) \in Fresh /\ Tm!PrintPrompt(t).x = Len(Prompt)
<1> DEFINE p == Tm!PrintLine(t, Prompt)
<1>1. p \in Fresh
  BY PrintedLine, FreshIsReady, TerminalAssumed
<1>2. Tm!PrintPrompt(t) = [p EXCEPT !.x = Len(Prompt)]
  BY DEF Tm!PrintPrompt
<1> HIDE DEF p
<1>3. Len(Prompt) \in 0 .. TERM_COLS
  BY TerminalAssumed
<1>4. Tm!PrintPrompt(t) = [buf |-> p.buf, x |-> Len(Prompt), y |-> p.y]
  BY <1>1, <1>2 DEF Fresh, TermScreen
<1> QED
  BY <1>1, <1>3, <1>4 DEF Fresh, TermScreen

(* Between two lines of input, the screen is cleared from the cursor on. *)
LEMMA ScreenIsFresh == Tm!Screen \in Fresh
<1>1. Tm!Screen \in TermScreen
  BY TerminalAssumed, BlankRowIsRow DEF Tm!Screen, TermScreen, Buffer
<1> QED
  BY <1>1 DEF Fresh, Tm!Screen

(* A command leaves a cleared row, whatever it prints. *)
LEMMA Executed ==
    ASSUME NEW t \in Fresh, NEW command \in Seq(TerminalChars)
    PROVE  Tm!Execute(t, command) \in Fresh
<1>1. \A l \in Seq(Printable) : Tm!PrintLine(t, l) \in Fresh
  BY PrintedLine, FreshIsReady
<1>2. SubSeq(command, Len(EchoCommand) + 1, Len(command)) \in Seq(Printable)
  <2> DEFINE m == Len(EchoCommand) + 1
             n == Len(command)
  <2>1. m \in Nat /\ m >= 1 /\ n \in Nat /\ m \in Int /\ n \in Int
    BY TerminalAssumed
  <2>2. \A j \in m .. n : command[j] \in Printable
    BY <2>1, TerminalAssumed
  <2> HIDE DEF m, n
  <2>3. SubSeq(command, m, n) \in Seq(Printable)
    BY <2>1, <2>2, SubSeqProperties
  <2> QED
    BY <2>3 DEF m, n
<1>3. command \in DOMAIN Commands => Tm!PrintLines(t, Commands[command]) \in Fresh
  BY PrintedLines, TerminalAssumed
<1>4. /\ Tm!PrintLine(t, SubSeq(command, Len(EchoCommand) + 1, Len(command))) \in Fresh
      /\ Tm!PrintLine(t, NotFound) \in Fresh
  BY <1>1, <1>2, TerminalAssumed
<1> QED
  BY <1>3, <1>4, ScreenIsFresh DEF Tm!Execute

(* What the row of the cursor holds while line is typed into it. *)
InputRow(line) ==
    [c \in Tm!Cols |-> IF c > Len(Prompt) /\ c <= Len(Prompt) + Len(line)
                       THEN line[c - Len(Prompt)] ELSE Blank]

TmSound(buf, x, y, line, b) ==
    /\ [buf |-> buf, x |-> x, y |-> y] \in Ready
    /\ line \in Seq(TerminalChars) /\ Len(line) <= 255
    /\ b \in BOOLEAN
    /\ x = Len(Prompt) + Len(line)
    /\ buf[y + 1] = InputRow(line)

TmInv == TmSound(buffer, cx, cy, input_line, active)

(* What the invariant says of the input line. *)
LEMMA TmImplies == TmInv => Tm!TypeOK /\ InputIsShown
<1> SUFFICES ASSUME TmInv PROVE Tm!TypeOK /\ InputIsShown
  OBVIOUS
<1>1. buffer \in Buffer /\ cx \in 0 .. TERM_COLS /\ cy \in 0 .. (TERM_ROWS - 1)
  BY DEF TmInv, TmSound, Ready, TermScreen
<1>2. Tm!TypeOK
  BY <1>1 DEF TmInv, TmSound, Tm!TypeOK, Buffer, Cells
<1>3. InputIsShown
  <2>1. Len(Prompt) \in Nat /\ TERM_COLS \in Nat
    BY TerminalAssumed
  <2>2. \A c \in (Len(Prompt) + 1) .. TERM_COLS : c \in Tm!Cols /\ c > Len(Prompt)
    BY <2>1 DEF Tm!Cols
  <2> QED
    BY <2>2 DEF TmInv, TmSound, InputRow, InputIsShown, Tm!InputIsShown
<1> QED
  BY <1>2, <1>3

(* A prompt that was just printed shows the line <<>>. *)
LEMMA PromptShows ==
    ASSUME NEW t \in Fresh, NEW b \in BOOLEAN
    PROVE  LET p == Tm!PrintPrompt(t)
           IN  TmSound(p.buf, p.x, p.y, <<>>, b)
<1> DEFINE p == Tm!PrintPrompt(t)
<1>1. p \in Fresh /\ p.x = Len(Prompt)
  BY PrintedPrompt
<1> HIDE DEF p
<1>2. p \in Ready /\ p = [buf |-> p.buf, x |-> p.x, y |-> p.y]
  BY <1>1, FreshIsReady DEF Fresh, TermScreen
<1>3. p.y \in 0 .. (TERM_ROWS - 1) /\ p.y + 1 \in Tm!Rows /\ p.y + 1 > p.y
  BY <1>1, TerminalAssumed DEF Fresh, TermScreen, Tm!Rows
<1>4. p.buf[p.y + 1] = Tm!BlankRow
  BY <1>1, <1>3 DEF Fresh
<1>5. <<>> \in Seq(TerminalChars) /\ Len(<<>>) = 0
  OBVIOUS
<1>6. InputRow(<<>>) = Tm!BlankRow
  BY <1>5, TerminalAssumed DEF InputRow, Tm!BlankRow, Tm!Cols
<1>7. p.x = Len(Prompt) + Len(<<>>)
  BY <1>1, <1>5, TerminalAssumed
<1>8. TmSound(p.buf, p.x, p.y, <<>>, b)
  BY <1>2, <1>4, <1>5, <1>6, <1>7 DEF TmSound
<1> QED
  BY <1>8 DEF p

(* The terminal opens with its welcome text and a prompt. *)
LEMMA TmBegins == Tm!Init => TmInv
<1> SUFFICES ASSUME Tm!Init PROVE TmInv
  OBVIOUS
<1> DEFINE b == Tm!PrintLines(Tm!Screen, TerminalWelcome)
           t == Tm!PrintPrompt(b)
<1>1. b \in Fresh
  BY ScreenIsFresh, PrintedLines, TerminalAssumed
<1>2. buffer = t.buf /\ cx = t.x /\ cy = t.y /\ input_line = <<>> /\ active = TRUE
  BY DEF Tm!Init
<1> HIDE DEF b
<1>3. TmSound(t.buf, t.x, t.y, <<>>, TRUE)
  BY <1>1, PromptShows
<1> QED
  BY <1>2, <1>3 DEF TmInv

(* A character that is typed goes into the line and onto the screen. *)
LEMMA TmTyped ==
    ASSUME TmInv, NEW c \in TerminalChars, Tm!Type(c)
    PROVE  TmInv'
<1>1. /\ buffer \in Buffer /\ cx \in 0 .. TERM_COLS /\ cy \in 0 .. (TERM_ROWS - 1)
      /\ \A r \in Tm!Rows : r > cy + 1 => buffer[r] = Tm!BlankRow
  BY DEF TmInv, TmSound, Ready, TermScreen
<1>2. /\ input_line \in Seq(TerminalChars) /\ Len(input_line) \in Nat
      /\ cx = Len(Prompt) + Len(input_line) /\ active \in BOOLEAN
      /\ buffer[cy + 1] = InputRow(input_line)
  BY DEF TmInv, TmSound
<1>3. /\ Len(input_line) < 255 /\ cx < TERM_COLS
      /\ input_line' = Append(input_line, c)
      /\ buffer' = [buffer EXCEPT ![cy + 1][cx + 1] = c]
      /\ cx' = cx + 1 /\ UNCHANGED <<cy, active>>
  BY DEF Tm!Type
<1>4. cy + 1 \in Tm!Rows /\ cx + 1 \in Tm!Cols /\ c \in Cells /\ cx' \in 0 .. TERM_COLS
  BY <1>1, <1>3, TerminalAssumed DEF Tm!Rows, Tm!Cols, Cells
<1> DEFINE row == [buffer[cy + 1] EXCEPT ![cx + 1] = c]
<1>5. row \in [Tm!Cols -> Cells]
  BY <1>1, <1>4 DEF Buffer
<1>6. buffer' = [buffer EXCEPT ![cy + 1] = row]
  BY <1>3
<1>7. row = InputRow(input_line')
  <2>1. /\ Len(input_line') = Len(input_line) + 1
        /\ input_line'[Len(input_line) + 1] = c
        /\ \A j \in 1 .. Len(input_line) : input_line'[j] = input_line[j]
    BY <1>2, <1>3
  <2>2. DOMAIN row = Tm!Cols
    BY <1>5
  <2>3. ASSUME NEW k \in Tm!Cols
        PROVE  row[k] = IF k > Len(Prompt) /\ k <= Len(Prompt) + Len(input_line')
                        THEN input_line'[k - Len(Prompt)] ELSE Blank
    <3>1. row[k] = IF k = cx + 1 THEN c ELSE buffer[cy + 1][k]
      BY <1>1, <1>4 DEF Buffer
    <3>2. k \in Nat
      BY TerminalAssumed DEF Tm!Cols
    <3>3. buffer[cy + 1][k] = IF k > Len(Prompt) /\ k <= Len(Prompt) + Len(input_line)
                              THEN input_line[k - Len(Prompt)] ELSE Blank
      BY <1>2 DEF InputRow
    <3>4. CASE k = cx + 1
      <4>1. k > Len(Prompt) /\ k <= Len(Prompt) + Len(input_line')
            /\ k - Len(Prompt) = Len(input_line) + 1
        BY <1>2, <2>1, <3>2, <3>4, TerminalAssumed
      <4> QED
        BY <2>1, <3>1, <3>4, <4>1
    <3>5. CASE k > Len(Prompt) /\ k <= Len(Prompt) + Len(input_line)
      <4>1. k # cx + 1 /\ k <= Len(Prompt) + Len(input_line')
            /\ k - Len(Prompt) \in 1 .. Len(input_line)
        BY <1>2, <2>1, <3>2, <3>5, TerminalAssumed
      <4> QED
        BY <2>1, <3>1, <3>3, <3>5, <4>1
    <3>6. CASE ~(k > Len(Prompt) /\ k <= Len(Prompt) + Len(input_line)) /\ k # cx + 1
      <4> DEFINE m == Len(Prompt)
                 n == Len(input_line)
      <4>1. m \in Nat /\ n \in Nat /\ Len(input_line') = n + 1 /\ k # m + n + 1
            /\ ~(k > m /\ k <= m + n)
        BY <1>2, <2>1, <3>6, TerminalAssumed
      <4> HIDE DEF m, n
      <4>2. ~(k > m /\ k <= m + (n + 1))
        BY <3>2, <4>1
      <4>3. ~(k > Len(Prompt) /\ k <= Len(Prompt) + Len(input_line'))
        BY <4>1, <4>2 DEF m
      <4> QED
        BY <3>1, <3>3, <3>6, <4>3
    <3> QED
      BY <3>4, <3>5, <3>6
  <2> HIDE DEF row
  <2> QED
    BY <1>5, <2>3 DEF InputRow
<1> HIDE DEF row
<1>8. /\ buffer' \in Buffer
      /\ buffer'[cy + 1] = row
      /\ \A r \in Tm!Rows : r > cy + 1 => buffer'[r] = Tm!BlankRow
  BY <1>1, <1>4, <1>5, <1>6 DEF Buffer
<1>9. [buf |-> buffer', x |-> cx', y |-> cy'] \in Ready
  BY <1>1, <1>3, <1>4, <1>8 DEF Ready, TermScreen
<1>10. input_line' \in Seq(TerminalChars) /\ Len(input_line') = Len(input_line) + 1
  BY <1>2, <1>3
<1> QED
  BY <1>2, <1>3, <1>7, <1>8, <1>9, <1>10, TerminalAssumed DEF TmInv, TmSound

(* A character that is erased goes from both. *)
LEMMA TmErased ==
    ASSUME TmInv, Tm!Backspace
    PROVE  TmInv'
<1>1. /\ buffer \in Buffer /\ cx \in 0 .. TERM_COLS /\ cy \in 0 .. (TERM_ROWS - 1)
      /\ \A r \in Tm!Rows : r > cy + 1 => buffer[r] = Tm!BlankRow
  BY DEF TmInv, TmSound, Ready, TermScreen
<1>2. /\ input_line \in Seq(TerminalChars) /\ Len(input_line) \in Nat
      /\ cx = Len(Prompt) + Len(input_line) /\ active \in BOOLEAN
      /\ buffer[cy + 1] = InputRow(input_line) /\ Len(input_line) <= 255
  BY DEF TmInv, TmSound
<1>3. /\ input_line # <<>> /\ input_line' = SubSeq(input_line, 1, Len(input_line) - 1)
      /\ buffer' = [buffer EXCEPT ![cy + 1][cx] = Blank]
      /\ cx' = cx - 1 /\ UNCHANGED <<cy, active>>
  BY DEF Tm!Backspace, Tm!Front
<1>4. Len(input_line) - 1 \in Nat /\ Len(input_line) - 1 < Len(input_line)
  <2>1. Len(input_line) # 0
    BY <1>2, <1>3
  <2> QED
    BY <1>2, <2>1
<1>5. cy + 1 \in Tm!Rows /\ cx \in Tm!Cols /\ Blank \in Cells /\ cx' \in 0 .. TERM_COLS
  BY <1>1, <1>2, <1>3, <1>4, TerminalAssumed DEF Tm!Rows, Tm!Cols, Cells
<1> DEFINE row == [buffer[cy + 1] EXCEPT ![cx] = Blank]
           n == Len(input_line) - 1
<1>6. row \in [Tm!Cols -> Cells]
  BY <1>1, <1>5 DEF Buffer
<1>7. buffer' = [buffer EXCEPT ![cy + 1] = row]
  BY <1>3
<1>8. /\ input_line' \in Seq(TerminalChars) /\ Len(input_line') = n
      /\ \A j \in 1 .. n : input_line'[j] = input_line[j]
  BY <1>2, <1>3, <1>4, FrontFacts
<1>9. row = InputRow(input_line')
  <2>1. ASSUME NEW k \in Tm!Cols
        PROVE  row[k] = IF k > Len(Prompt) /\ k <= Len(Prompt) + Len(input_line')
                        THEN input_line'[k - Len(Prompt)] ELSE Blank
    <3>1. row[k] = IF k = cx THEN Blank ELSE buffer[cy + 1][k]
      BY <1>1, <1>5 DEF Buffer
    <3>2. k \in Nat
      BY TerminalAssumed DEF Tm!Cols
    <3>3. buffer[cy + 1][k] = IF k > Len(Prompt) /\ k <= Len(Prompt) + Len(input_line)
                              THEN input_line[k - Len(Prompt)] ELSE Blank
      BY <1>2 DEF InputRow
    <3>4. CASE k = cx
      <4>1. ~(k <= Len(Prompt) + Len(input_line'))
        BY <1>2, <1>4, <1>8, <3>2, <3>4, TerminalAssumed
      <4> QED
        BY <3>1, <3>4, <4>1
    <3>5. CASE k # cx /\ k > Len(Prompt) /\ k <= Len(Prompt) + Len(input_line)
      <4>1. k <= Len(Prompt) + Len(input_line') /\ k - Len(Prompt) \in 1 .. n
        BY <1>2, <1>4, <1>8, <3>2, <3>5, TerminalAssumed
      <4> QED
        BY <1>8, <3>1, <3>3, <3>5, <4>1
    <3>6. CASE ~(k > Len(Prompt) /\ k <= Len(Prompt) + Len(input_line)) /\ k # cx
      <4>1. ~(k > Len(Prompt) /\ k <= Len(Prompt) + Len(input_line'))
        BY <1>2, <1>4, <1>8, <3>2, <3>6, TerminalAssumed
      <4> QED
        BY <3>1, <3>3, <3>6, <4>1
    <3> QED
      BY <3>4, <3>5, <3>6
  <2> HIDE DEF row
  <2> QED
    BY <1>6, <2>1 DEF InputRow
<1> HIDE DEF row
<1>10. /\ buffer' \in Buffer
       /\ buffer'[cy + 1] = row
       /\ \A r \in Tm!Rows : r > cy + 1 => buffer'[r] = Tm!BlankRow
  BY <1>1, <1>5, <1>6, <1>7 DEF Buffer
<1>11. [buf |-> buffer', x |-> cx', y |-> cy'] \in Ready
  BY <1>1, <1>3, <1>5, <1>10 DEF Ready, TermScreen
<1>12. cx' = Len(Prompt) + Len(input_line') /\ Len(input_line') <= 255
  BY <1>2, <1>3, <1>4, <1>8, TerminalAssumed
<1> QED
  BY <1>2, <1>3, <1>8, <1>9, <1>10, <1>11, <1>12 DEF TmInv, TmSound

(* A command runs, and a new prompt waits for the next one. *)
LEMMA TmEntered ==
    ASSUME TmInv, Tm!Enter
    PROVE  TmInv'
<1> DEFINE b == [Tm!Now EXCEPT !.x = TERM_COLS]
           e == Tm!PrintLine(b, <<>>)
           t == Tm!Execute(e, input_line)
<1>1. b \in Ready
  <2>1. Tm!Now \in Ready
    BY DEF TmInv, TmSound, Tm!Now
  <2>2. TERM_COLS \in 0 .. TERM_COLS
    BY TerminalAssumed
  <2>3. b = [buf |-> buffer, x |-> TERM_COLS, y |-> cy]
    BY DEF Tm!Now
  <2> QED
    BY <2>1, <2>2, <2>3 DEF Ready, TermScreen, Tm!Now
<1>2. /\ Tm!Shows(Tm!PrintPrompt(t)) /\ input_line' = <<>>
      /\ active' = (input_line # ExitCommand)
  BY DEF Tm!Enter
<1> HIDE DEF b
<1>3. e \in Fresh
  <2>1. <<>> \in Seq(Printable)
    OBVIOUS
  <2> QED
    BY <1>1, <2>1, PrintedLine
<1> HIDE DEF e
<1>4. t \in Fresh
  BY <1>3, Executed DEF TmInv, TmSound
<1> HIDE DEF t
<1>5. active' \in BOOLEAN
  BY <1>2
<1> DEFINE p == Tm!PrintPrompt(t)
<1>6. TmSound(p.buf, p.x, p.y, <<>>, active')
  BY <1>4, <1>5, PromptShows
<1>7. buffer' = p.buf /\ cx' = p.x /\ cy' = p.y /\ input_line' = <<>>
  BY <1>2 DEF Tm!Shows
<1> QED
  BY <1>6, <1>7 DEF TmInv

(* Every operation of the terminal keeps its invariant. *)
LEMMA TmStep ==
    ASSUME TmInv, [Tm!Next]_(Tm!termVars)
    PROVE  TmInv'
<1>1. CASE UNCHANGED Tm!termVars
  BY <1>1 DEF Tm!termVars, TmInv
<1> QED
  BY <1>1, TmTyped, TmErased, TmEntered DEF Tm!Next

(* terminal_app.c: the cursor's own row holds, from the prompt's width on to   *)
(* its end, the line that Enter will execute and nothing else, on a terminal   *)
(* of any size that the prompt fits and whatever commands print.               *)
THEOREM InputAlwaysShown == GuiSpec => []InputIsShown
<1>1. GuiStart => TmInv
  BY GuiStarts, TmBegins
<1>2. TmInv /\ [GuiNext]_allVars => TmInv'
  BY GuiTurns, TmStep
<1>3. TmInv => InputIsShown
  BY TmImplies
<1> QED
  BY <1>1, <1>2, <1>3, PTL DEF GuiSpec
-----------------------------------------------------------------------------
Full  == Fm!Listing(Fm!Home)
Paths == {path \in Seq(Fm!Names) : Len(path) <= PathMax}

(* An entry that is a directory has a name that a path may hold, or goes up. *)
Entries == {e \in [name: Fm!Names \cup {Parent} \cup Fm!Range(Files), dir: BOOLEAN] :
                e.dir => e.name \in Fm!Names \cup {Parent}}

(* The assumptions of the file manager. *)
LEMMA FilesAssumed ==
    /\ PAGE \in Nat \ {0} /\ PathMax \in Nat /\ PathMax >= 2
    /\ Directories \in Seq(Fm!Range(Directories))
    /\ Files \in Seq(Fm!Range(Files)) /\ Files # <<>>
<1>1. Fm!FileManagerAssumption
  BY GuiAssumption
<1>2. PathMax \in Nat \ {0, 1}
  BY <1>1 DEF Fm!FileManagerAssumption
<1>3. PathMax >= 2
  BY <1>2
<1> QED
  BY <1>1, <1>2, <1>3 DEF Fm!FileManagerAssumption

(* Every directory but the root lists the same entries. *)
LEMMA Listed ==
    /\ Full \in Seq(Entries) /\ Len(Full) \in Nat /\ Len(Full) >= 2
    /\ \A path : path # <<>> => Fm!Listing(path) = Full
<1> DEFINE a == <<[name |-> Parent, dir |-> TRUE]>>
           b == [i \in DOMAIN Directories |-> [name |-> Directories[i], dir |-> TRUE]]
           c == [i \in DOMAIN Files |-> [name |-> Files[i], dir |-> FALSE]]
<1>1. a \in Seq(Entries) /\ Len(a) = 1
  <2>1. [name |-> Parent, dir |-> TRUE] \in Entries
    BY DEF Entries
  <2> QED
    BY <2>1
<1>2. b \in Seq(Entries) /\ Len(b) = Len(Directories) /\ Len(Directories) \in Nat
  <2>1. DOMAIN Directories = 1 .. Len(Directories) /\ Len(Directories) \in Nat
        /\ \A i \in DOMAIN Directories : Directories[i] \in Fm!Range(Directories)
    BY FilesAssumed
  <2>2. \A i \in DOMAIN Directories : [name |-> Directories[i], dir |-> TRUE] \in Entries
    BY <2>1 DEF Entries, Fm!Names
  <2> QED
    BY <2>1, <2>2
<1>3. c \in Seq(Entries) /\ Len(c) = Len(Files) /\ Len(Files) \in Nat /\ Len(Files) >= 1
  <2>1. DOMAIN Files = 1 .. Len(Files) /\ Len(Files) \in Nat
        /\ \A i \in DOMAIN Files : Files[i] \in Fm!Range(Files)
    BY FilesAssumed
  <2>2. \A i \in DOMAIN Files : [name |-> Files[i], dir |-> FALSE] \in Entries
    BY <2>1 DEF Entries
  <2>3. Len(Files) # 0
    BY FilesAssumed
  <2>4. Len(Files) >= 1
    BY <2>1, <2>3
  <2> QED
    BY <2>1, <2>2, <2>4
<1>4. ASSUME NEW path, path # <<>> PROVE Fm!Listing(path) = (a \o b) \o c
  BY <1>4 DEF Fm!Listing
<1>5. Fm!Home # <<>>
  BY DEF Fm!Home
<1> HIDE DEF a, b, c
<1> DEFINE d == a \o b
<1>6. d \in Seq(Entries) /\ Len(d) = 1 + Len(Directories)
  BY <1>1, <1>2, ConcatFacts
<1> HIDE DEF d
<1>7. d \o c \in Seq(Entries) /\ Len(d \o c) = 1 + Len(Directories) + Len(Files)
  <2>1. d \o c \in Seq(Entries) /\ Len(d \o c) = Len(d) + Len(c)
    <3>1. d \in Seq(Entries) /\ c \in Seq(Entries)
      BY <1>3, <1>6
    <3> QED
      BY <3>1, ConcatFacts, Zenon
  <2> QED
    BY <1>3, <1>6, <2>1
<1>8. Full = d \o c
  BY <1>4, <1>5 DEF Full, d
<1>9. \A path : path # <<>> => Fm!Listing(path) = Full
  BY <1>4, <1>8 DEF d
<1> QED
  BY <1>2, <1>3, <1>7, <1>8, <1>9

(* The directory a file manager starts in is not the root. *)
LEMMA HomeIsPath == Fm!Home \in Paths /\ Fm!Home # <<>>
<1>1. /\ 1 \in DOMAIN Fm!Home /\ Fm!Home[1] = "home"
      /\ 2 \in DOMAIN Fm!Home /\ Fm!Home[2] = "user"
  BY DEF Fm!Home
<1>2. "home" \in Fm!Names /\ "user" \in Fm!Names
  <2> HIDE DEF Fm!Home
  <2> QED
    BY <1>1 DEF Fm!Names, Fm!Range
<1>3. Fm!Home \in Seq(Fm!Names) /\ Len(Fm!Home) = 2 /\ Fm!Home # <<>>
  BY <1>2 DEF Fm!Home
<1> QED
  BY <1>3, FilesAssumed DEF Paths

(* What is known of a window, and of one that is open. *)
WindowOK(path, count, s, offset) ==
    path \in Paths /\ count \in 0 .. Len(Full) /\ s \in Nat /\ offset \in Nat

OpenOK(path, count, s, offset) ==
    /\ path # <<>>
    /\ count = Len(Full)
    /\ s < count /\ offset <= s /\ s < offset + PAGE

FmInv ==
    /\ open \subseteq Managers
    /\ DOMAIN current_path = Managers /\ current_path = [m \in Managers |-> current_path[m]]
    /\ file_count = [m \in Managers |-> file_count[m]]
    /\ selected_file = [m \in Managers |-> selected_file[m]]
    /\ scroll_offset = [m \in Managers |-> scroll_offset[m]]
    /\ \A m \in Managers :
           WindowOK(current_path[m], file_count[m], selected_file[m], scroll_offset[m])
    /\ \A m \in open :
           OpenOK(current_path[m], file_count[m], selected_file[m], scroll_offset[m])
    /\ file_list \in {<<>>, Full}
    /\ open # {} => file_list = Full
    /\ paths_full \in BOOLEAN

(* What the invariant says of the selection. *)
LEMMA FmImplies == FmInv => Fm!TypeOK /\ SelectionIsShown
<1> SUFFICES ASSUME FmInv PROVE Fm!TypeOK /\ SelectionIsShown
  OBVIOUS
<1>1. Fm!TypeOK
  BY DEF FmInv, WindowOK, Paths, Full, Fm!TypeOK
<1>2. ASSUME NEW m \in open
      PROVE  SubSeq(file_list, 1, file_count[m]) = Fm!Listing(current_path[m])
  <2>1. file_list = Full /\ file_count[m] = Len(Full) /\ current_path[m] # <<>>
    BY DEF FmInv, OpenOK
  <2>2. Fm!Listing(current_path[m]) = Full
    BY <2>1, Listed
  <2>3. SubSeq(Full, 1, Len(Full)) = Full
    BY Listed
  <2> QED
    BY <2>1, <2>2, <2>3
<1>3. SelectionIsShown
  BY <1>2 DEF FmInv, OpenOK, SelectionIsShown, Fm!SelectionIsShown
<1> QED
  BY <1>1, <1>3

(* What is known of an open window. *)
LEMMA WindowFacts ==
    ASSUME FmInv, NEW m \in open
    PROVE  /\ m \in Managers
           /\ current_path[m] \in Seq(Fm!Names) /\ Len(current_path[m]) \in Nat
           /\ current_path[m] # <<>>
           /\ file_count[m] \in Nat /\ selected_file[m] \in Nat /\ scroll_offset[m] \in Nat
           /\ selected_file[m] < file_count[m] /\ file_count[m] = Len(Full)
           /\ scroll_offset[m] <= selected_file[m]
           /\ selected_file[m] < scroll_offset[m] + PAGE
<1>1. m \in Managers
  BY DEF FmInv
<1>2. /\ WindowOK(current_path[m], file_count[m], selected_file[m], scroll_offset[m])
      /\ OpenOK(current_path[m], file_count[m], selected_file[m], scroll_offset[m])
  BY <1>1 DEF FmInv
<1>3. current_path[m] \in Seq(Fm!Names)
  BY <1>2 DEF WindowOK, Paths
<1>4. Len(current_path[m]) \in Nat
  BY <1>3
<1> QED
  BY <1>1, <1>2, <1>3, <1>4 DEF WindowOK, OpenOK

(* file_manager_load_directory selects the first entry and shows the list  *)
(* from its start.                                                         *)
LEMMA LoadIs ==
    ASSUME FmInv, NEW m \in Managers, NEW path \in Paths, path # <<>>, Fm!Load(m, path),
           open' = open \cup {m}, UNCHANGED paths_full
    PROVE  FmInv'
<1>1. Fm!Listing(path) = Full /\ Full \in Seq(Entries) /\ Len(Full) \in Nat /\ Len(Full) >= 2
  BY Listed
<1>2. file_list' = Full
  <2>1. file_list' = Full \o SubSeq(file_list, Len(Full) + 1, Len(file_list))
    BY <1>1 DEF Fm!Load
  <2>2. Len(file_list) \in Nat /\ Len(file_list) < Len(Full) + 1
    BY <1>1 DEF FmInv
  <2>3. SubSeq(file_list, Len(Full) + 1, Len(file_list)) = <<>>
    BY <1>1, <2>2, SubSeqEmpty
  <2>4. Full \o <<>> = Full
    BY <1>1, ConcatEmptySeq
  <2> QED
    BY <2>1, <2>3, <2>4
<1>3. /\ current_path' = [current_path EXCEPT ![m] = path]
      /\ file_count' = [file_count EXCEPT ![m] = Len(Full)]
      /\ selected_file' = [selected_file EXCEPT ![m] = 0]
      /\ scroll_offset' = [scroll_offset EXCEPT ![m] = 0]
  BY <1>1 DEF Fm!Load
<1>4. /\ current_path'[m] = path /\ file_count'[m] = Len(Full)
      /\ selected_file'[m] = 0 /\ scroll_offset'[m] = 0
      /\ \A k \in Managers \ {m} :
             /\ current_path'[k] = current_path[k] /\ file_count'[k] = file_count[k]
             /\ selected_file'[k] = selected_file[k] /\ scroll_offset'[k] = scroll_offset[k]
  BY <1>3 DEF FmInv
<1>5. /\ DOMAIN current_path' = Managers
      /\ current_path' = [k \in Managers |-> current_path'[k]]
      /\ file_count' = [k \in Managers |-> file_count'[k]]
      /\ selected_file' = [k \in Managers |-> selected_file'[k]]
      /\ scroll_offset' = [k \in Managers |-> scroll_offset'[k]]
  BY <1>3 DEF FmInv
<1>6. /\ WindowOK(path, Len(Full), 0, 0) /\ OpenOK(path, Len(Full), 0, 0)
  BY <1>1, FilesAssumed DEF WindowOK, OpenOK
<1>7. ASSUME NEW k \in Managers
      PROVE  WindowOK(current_path'[k], file_count'[k], selected_file'[k], scroll_offset'[k])
  <2>1. CASE k = m
    BY <2>1, <1>4, <1>6
  <2>2. CASE k # m
    BY <2>2, <1>4, <1>6 DEF FmInv
  <2> QED
    BY <2>1, <2>2
<1>8. ASSUME NEW k \in open'
      PROVE  OpenOK(current_path'[k], file_count'[k], selected_file'[k], scroll_offset'[k])
  <2>1. CASE k = m
    BY <2>1, <1>4, <1>6
  <2>2. CASE k # m
    BY <2>2, <1>4, <1>6 DEF FmInv
  <2> QED
    BY <2>1, <2>2
<1> QED
  BY <1>2, <1>5, <1>7, <1>8 DEF FmInv

(* The selection moves. *)
LEMMA SelectionMoves ==
    ASSUME FmInv, NEW m \in open, NEW s \in Nat, NEW offset \in Nat,
           s < file_count[m], offset <= s, s < offset + PAGE,
           selected_file' = [selected_file EXCEPT ![m] = s],
           scroll_offset' = [scroll_offset EXCEPT ![m] = offset],
           UNCHANGED <<current_path, file_count, open, file_list, paths_full>>
    PROVE  FmInv'
<1>1. /\ selected_file'[m] = s /\ scroll_offset'[m] = offset
      /\ \A k \in Managers \ {m} : /\ selected_file'[k] = selected_file[k]
                                   /\ scroll_offset'[k] = scroll_offset[k]
  BY DEF FmInv
<1>2. /\ selected_file' = [k \in Managers |-> selected_file'[k]]
      /\ scroll_offset' = [k \in Managers |-> scroll_offset'[k]]
  BY DEF FmInv
<1>3. /\ WindowOK(current_path[m], file_count[m], s, offset)
      /\ OpenOK(current_path[m], file_count[m], s, offset)
  BY DEF FmInv, WindowOK, OpenOK
<1>4. ASSUME NEW k \in Managers
      PROVE  WindowOK(current_path'[k], file_count'[k], selected_file'[k], scroll_offset'[k])
  <2>1. CASE k = m
    BY <2>1, <1>1, <1>3
  <2>2. CASE k # m
    BY <2>2, <1>1, <1>3 DEF FmInv
  <2> QED
    BY <2>1, <2>2
<1>5. ASSUME NEW k \in open'
      PROVE  OpenOK(current_path'[k], file_count'[k], selected_file'[k], scroll_offset'[k])
  <2>1. CASE k = m
    BY <2>1, <1>1, <1>3
  <2>2. CASE k # m
    BY <2>2, <1>1, <1>3 DEF FmInv
  <2> QED
    BY <2>1, <2>2
<1>6. /\ open' \subseteq Managers
      /\ DOMAIN current_path' = Managers
      /\ current_path' = [k \in Managers |-> current_path'[k]]
      /\ file_count' = [k \in Managers |-> file_count'[k]]
      /\ file_list' \in {<<>>, Full} /\ paths_full' \in BOOLEAN
  BY DEF FmInv
<1>7. open' # {} => file_list' = Full
  BY DEF FmInv
<1> QED
  BY <1>2, <1>4, <1>5, <1>6, <1>7 DEF FmInv

(* No file manager is open. *)
LEMMA FmBegins == Fm!Init => FmInv
<1> SUFFICES ASSUME Fm!Init PROVE FmInv
  OBVIOUS
<1>1. <<>> \in Seq(Fm!Names) /\ Len(<<>>) = 0
  OBVIOUS
<1>2. <<>> \in Paths
  BY <1>1, FilesAssumed DEF Paths
<1>3. WindowOK(<<>>, 0, 0, 0)
  BY <1>2, Listed DEF WindowOK
<1> QED
  BY <1>3 DEF Fm!Init, FmInv

(* Enter opens the directory that is selected, the parent directory, or    *)
(* nothing.                                                                *)
LEMMA EnterKeeps ==
    ASSUME FmInv, NEW m \in Managers, Fm!KeyEnter(m)
    PROVE  FmInv'
<1> DEFINE entry == file_list[selected_file[m] + 1]
           path  == IF entry.name = Parent THEN Fm!ParentOf(current_path[m])
                    ELSE Append(current_path[m], entry.name)
<1>1. m \in open /\ entry.dir /\ UNCHANGED open
  BY DEF Fm!KeyEnter
<1>2. CASE Len(path) > PathMax
  <2>1. paths_full' = TRUE /\ UNCHANGED <<current_path, file_count, selected_file,
                                    scroll_offset, file_list>>
    BY <1>2 DEF Fm!KeyEnter
  <2> QED
    BY <1>1, <2>1 DEF FmInv
<1>3. CASE ~(Len(path) > PathMax)
  <2>1. Fm!Load(m, path) /\ UNCHANGED paths_full
    BY <1>3 DEF Fm!KeyEnter
  <2>2. current_path[m] \in Seq(Fm!Names) /\ current_path[m] # <<>> /\ Len(current_path[m]) \in Nat
    BY <1>1, WindowFacts
  <2>3. entry.name \in Fm!Names \cup {Parent}
    <3>1. file_list = Full /\ selected_file[m] \in Nat /\ selected_file[m] < Len(Full)
      BY <1>1, WindowFacts DEF FmInv
    <3>2. entry \in Entries
      BY <3>1, Listed
    <3> QED
      BY <1>1, <3>2 DEF Entries
  <2> HIDE DEF entry
  <2>4. path \in Seq(Fm!Names) /\ path # <<>>
    <3>1. CASE entry.name # Parent
      BY <2>2, <2>3, <3>1
    <3>2. CASE entry.name = Parent /\ Len(current_path[m]) <= 1
      BY <2>2, <3>2 DEF Fm!ParentOf
    <3>3. CASE entry.name = Parent /\ ~(Len(current_path[m]) <= 1)
      <4> DEFINE f == SubSeq(current_path[m], 1, Len(current_path[m]) - 1)
      <4>1. path = f
        BY <3>3 DEF Fm!ParentOf, Fm!Front
      <4>2. f \in Seq(Fm!Names) /\ Len(f) = Len(current_path[m]) - 1
        BY <2>2, FrontFacts
      <4> HIDE DEF f
      <4>3. Len(f) # 0
        BY <2>2, <3>3, <4>2
      <4>4. f # <<>>
        <5>1. Len(<<>>) = 0
          OBVIOUS
        <5> QED
          BY <4>3, <5>1
      <4> QED
        BY <4>1, <4>2, <4>4
    <3> QED
      BY <3>1, <3>2, <3>3
  <2> HIDE DEF path
  <2>5. path \in Paths
    BY <1>3, <2>4, FilesAssumed DEF Paths
  <2>6. open' = open \cup {m}
    BY <1>1
  <2> QED
    BY <2>1, <2>4, <2>5, <2>6, LoadIs
<1> QED
  BY <1>2, <1>3

(* Every operation of the file manager keeps its invariant. *)
LEMMA FmStep ==
    ASSUME FmInv, [Fm!Next]_(Fm!fmVars)
    PROVE  FmInv'
<1>1. CASE UNCHANGED Fm!fmVars
  BY <1>1 DEF Fm!fmVars, FmInv
<1>2. ASSUME NEW m \in Managers, Fm!Launch(m)
      PROVE  FmInv'
  BY <1>2, HomeIsPath, LoadIs DEF Fm!Launch
<1>3. ASSUME NEW m \in Managers, Fm!KeyUp(m)
      PROVE  FmInv'
  <2> DEFINE s == selected_file[m] - 1
             offset == IF s < scroll_offset[m] THEN s ELSE scroll_offset[m]
  <2>1. /\ m \in open /\ selected_file[m] > 0
        /\ selected_file' = [selected_file EXCEPT ![m] = s]
        /\ scroll_offset' = [scroll_offset EXCEPT ![m] = offset]
        /\ UNCHANGED <<current_path, file_count, open, file_list, paths_full>>
    BY <1>3 DEF Fm!KeyUp
  <2>2. /\ s \in Nat /\ offset \in Nat /\ s < file_count[m]
        /\ offset <= s /\ s < offset + PAGE
    BY <2>1, FilesAssumed, WindowFacts
  <2> HIDE DEF s, offset
  <2> QED
    BY <2>1, <2>2, SelectionMoves
<1>4. ASSUME NEW m \in Managers, Fm!KeyDown(m)
      PROVE  FmInv'
  <2> DEFINE s == selected_file[m] + 1
             offset == Fm!ScrolledDown(s, scroll_offset[m])
  <2>1. /\ m \in open /\ selected_file[m] < file_count[m] - 1
        /\ selected_file' = [selected_file EXCEPT ![m] = s]
        /\ scroll_offset' = [scroll_offset EXCEPT ![m] = offset]
        /\ UNCHANGED <<current_path, file_count, open, file_list, paths_full>>
    BY <1>4 DEF Fm!KeyDown
  <2>2. /\ s \in Nat /\ offset \in Nat /\ s < file_count[m]
        /\ offset <= s /\ s < offset + PAGE
    BY <2>1, FilesAssumed, WindowFacts DEF Fm!ScrolledDown
  <2> HIDE DEF s, offset
  <2> QED
    BY <2>1, <2>2, SelectionMoves
<1>5. ASSUME NEW m \in Managers, Fm!KeyEnter(m)
      PROVE  FmInv'
  BY <1>5, EnterKeeps
<1> QED
  BY <1>1, <1>2, <1>3, <1>4, <1>5 DEF Fm!Next

(* file_manager.c: the selected entry of an open window exists and is on the  *)
(* page that is drawn, and the list that all windows read holds the entries   *)
(* of the window's own directory, for any directories, files and page size.   *)
THEOREM SelectionAlwaysShown == GuiSpec => []SelectionIsShown
<1>1. GuiStart => FmInv
  BY GuiStarts, FmBegins
<1>2. FmInv /\ [GuiNext]_allVars => FmInv'
  BY GuiTurns, FmStep
<1>3. FmInv => SelectionIsShown
  BY FmImplies
<1> QED
  BY <1>1, <1>2, <1>3, PTL DEF GuiSpec
-----------------------------------------------------------------------------
(* The settings panel. *)
ItemOK(i) == Sa!OfKind(i, i.value) /\ (i.kind = "dropdown" => i.options = 3)

(* The controls are made with a value of their kind. *)
LEMMA KindsOK ==
    /\ \A b \in BOOLEAN : ItemOK(Sa!Toggle(b))
    /\ ItemOK(Sa!Dropdown)
    /\ \A s : ItemOK(Sa!Button(s)) /\ ItemOK(Sa!Text(s))
<1>1. \A b \in BOOLEAN : ItemOK(Sa!Toggle(b))
  BY DEF ItemOK, Sa!OfKind, Sa!Toggle
<1>2. ItemOK(Sa!Dropdown)
  BY DEF ItemOK, Sa!OfKind, Sa!Dropdown
<1>3. \A s : ItemOK(Sa!Button(s)) /\ ItemOK(Sa!Text(s))
  BY DEF ItemOK, Sa!OfKind, Sa!Button, Sa!Text
<1> QED
  BY <1>1, <1>2, <1>3

(* Sequences of two. *)
LEMMA PairIn ==
    ASSUME NEW T, NEW a \in T, NEW b \in T
    PROVE  <<a, b>> \in Seq(T) /\ 1 \in DOMAIN <<a, b>>
  OBVIOUS

(* Sequences of three. *)
LEMMA TripleIn ==
    ASSUME NEW T, NEW a \in T, NEW b \in T, NEW c \in T
    PROVE  <<a, b, c>> \in Seq(T) /\ 1 \in DOMAIN <<a, b, c>>
  OBVIOUS

(* Each category of the panel has a control, and each control a value of   *)
(* its kind.                                                               *)
LEMMA DefaultsOK ==
    /\ Sa!Categories = 1 .. 6
    /\ \A c \in Sa!Categories : 1 \in Sa!Items(c)
    /\ \A c \in Sa!Categories : \A i \in Sa!Items(c) : ItemOK(Sa!Defaults[c][i])
<1>1. Sa!Categories = 1 .. 6
  BY DEF Sa!Categories, Sa!Defaults
<1>2. /\ Sa!Defaults[1] = <<Sa!Dropdown, Sa!Button("Change..."), Sa!Toggle(TRUE)>>
      /\ Sa!Defaults[2] = <<Sa!Button("Manage..."), Sa!Toggle(TRUE), Sa!Dropdown>>
      /\ Sa!Defaults[3] = <<Sa!Toggle(TRUE), Sa!Toggle(FALSE), Sa!Toggle(TRUE)>>
      /\ Sa!Defaults[4] = <<Sa!Text("user"), Sa!Button("Add...")>>
      /\ Sa!Defaults[5] = <<Sa!Toggle(TRUE), Sa!Toggle(TRUE)>>
      /\ Sa!Defaults[6] = <<Sa!Text("View Details..."), Sa!Button("Check Now")>>
  BY DEF Sa!Defaults
<1> DEFINE I == {i \in {Sa!Dropdown, Sa!Toggle(TRUE), Sa!Toggle(FALSE), Sa!Button("Change..."),
                        Sa!Button("Manage..."), Sa!Button("Add..."), Sa!Button("Check Now"),
                        Sa!Text("user"), Sa!Text("View Details...")} : ItemOK(i)}
<1>3. /\ Sa!Dropdown \in I /\ Sa!Toggle(TRUE) \in I /\ Sa!Toggle(FALSE) \in I
      /\ Sa!Button("Change...") \in I /\ Sa!Button("Manage...") \in I
      /\ Sa!Button("Add...") \in I /\ Sa!Button("Check Now") \in I
      /\ Sa!Text("user") \in I /\ Sa!Text("View Details...") \in I
  BY KindsOK
<1>4. \A i \in I : ItemOK(i)
  OBVIOUS
<1> HIDE DEF I
<1>5. ASSUME NEW c \in Sa!Categories
      PROVE  Sa!Defaults[c] \in Seq(I) /\ 1 \in DOMAIN Sa!Defaults[c]
  <2>1. c = 1 \/ c = 2 \/ c = 3 \/ c = 4 \/ c = 5 \/ c = 6
    BY <1>1
  <2>2. CASE c = 1
    BY <1>2, <1>3, <2>2, TripleIn
  <2>3. CASE c = 2
    BY <1>2, <1>3, <2>3, TripleIn
  <2>4. CASE c = 3
    BY <1>2, <1>3, <2>4, TripleIn
  <2>5. CASE c = 4
    BY <1>2, <1>3, <2>5, PairIn
  <2>6. CASE c = 5
    BY <1>2, <1>3, <2>6, PairIn
  <2>7. CASE c = 6
    BY <1>2, <1>3, <2>7, PairIn
  <2> QED
    BY <2>1, <2>2, <2>3, <2>4, <2>5, <2>6, <2>7
<1>6. \A c \in Sa!Categories : 1 \in Sa!Items(c)
  BY <1>5 DEF Sa!Items
<1>7. ASSUME NEW c \in Sa!Categories, NEW i \in Sa!Items(c)
      PROVE  ItemOK(Sa!Defaults[c][i])
  <2>1. Sa!Defaults[c] \in Seq(I) /\ i \in DOMAIN Sa!Defaults[c]
    BY <1>5 DEF Sa!Items
  <2>2. Sa!Defaults[c][i] \in I
    BY <2>1
  <2> QED
    BY <1>4, <2>2
<1> QED
  BY <1>1, <1>6, <1>7

(* A control is an item of a category. *)
LEMMA ControlsAre ==
    /\ \A k \in Sa!Controls : ItemOK(Sa!Item(k))
    /\ \A c, i : <<c, i>> \in Sa!Controls => c \in Sa!Categories /\ i \in Sa!Items(c)
<1>1. ASSUME NEW k \in Sa!Controls
      PROVE  ItemOK(Sa!Item(k))
  <2>1. PICK c \in Sa!Categories : k \in {c} \X Sa!Items(c)
    BY DEF Sa!Controls
  <2>2. k[1] \in Sa!Categories /\ k[2] \in Sa!Items(k[1])
    BY <2>1
  <2> QED
    BY <2>2, DefaultsOK DEF Sa!Item
<1>2. ASSUME NEW c, NEW i, <<c, i>> \in Sa!Controls
      PROVE  c \in Sa!Categories /\ i \in Sa!Items(c)
  <2>1. PICK d \in Sa!Categories : <<c, i>> \in {d} \X Sa!Items(d)
    BY <1>2 DEF Sa!Controls
  <2> QED
    BY <2>1
<1> QED
  BY <1>1, <1>2

(* Operating a control leaves it with a value of its kind. *)
LEMMA OperatedKeeps ==
    ASSUME NEW item, ItemOK(item), NEW v, Sa!OfKind(item, v)
    PROVE  Sa!OfKind(item, Sa!Operated(item, v))
<1>1. CASE item.kind = "toggle"
  <2>1. v \in BOOLEAN
    BY <1>1 DEF Sa!OfKind
  <2>2. Sa!Operated(item, v) = ~v
    BY <1>1 DEF Sa!Operated
  <2>3. Sa!Operated(item, v) \in BOOLEAN
    BY <2>1, <2>2
  <2> QED
    BY <1>1, <2>3 DEF Sa!OfKind
<1>2. CASE item.kind = "dropdown"
  <2>1. v \in 0 .. 2 /\ item.options = 3
    BY <1>2 DEF Sa!OfKind, ItemOK
  <2>2. Sa!Operated(item, v) = (v + 1) % 3
    BY <1>2, <2>1 DEF Sa!Operated
  <2>3. Sa!Operated(item, v) \in 0 .. 2
    BY <2>1, <2>2
  <2> QED
    BY <1>2, <2>1, <2>3 DEF Sa!OfKind
<1>3. CASE item.kind # "toggle" /\ item.kind # "dropdown"
  <2>1. v \in {item.value, "Up to date"}
    BY <1>3 DEF Sa!OfKind
  <2>2. Sa!Operated(item, v) \in {v, "Up to date"}
    BY <1>3 DEF Sa!Operated
  <2> QED
    BY <1>3, <2>1, <2>2 DEF Sa!OfKind
<1> QED
  BY <1>1, <1>2, <1>3

(* The panel shows the defaults. *)
LEMMA SaBegins == Sa!Init => Sa!TypeOK
  BY ControlsAre, DefaultsOK DEF Sa!Init, Sa!TypeOK, ItemOK

(* Every operation of the panel keeps the types. *)
LEMMA SaStep ==
    ASSUME Sa!TypeOK, [Sa!Next]_(Sa!saVars)
    PROVE  Sa!TypeOK'
<1>1. CASE UNCHANGED Sa!saVars
  BY <1>1 DEF Sa!saVars, Sa!TypeOK
<1>2. ASSUME NEW p \in PanelPoints, Sa!Sidebar(p)
      PROVE  Sa!TypeOK'
  BY <1>2, DefaultsOK DEF Sa!Sidebar, Sa!TypeOK
<1>3. ASSUME NEW p \in PanelPoints, Sa!Content(p)
      PROVE  Sa!TypeOK'
  <2> DEFINE i == Sa!Row(p.y, 60, 80)
             k == <<current_category, i>>
  <2>1. /\ k \in Sa!Controls /\ selected_item' = i
        /\ \/ values' = [values EXCEPT ![k] = Sa!Operated(Sa!Item(k), values[k])]
           \/ values' = values
        /\ UNCHANGED current_category
    BY <1>3 DEF Sa!Content
  <2> HIDE DEF i
  <2>2. i \in Sa!Items(current_category)
    BY <2>1, ControlsAre
  <2> HIDE DEF k
  <2>3. Sa!OfKind(Sa!Item(k), Sa!Operated(Sa!Item(k), values[k]))
    BY <2>1, ControlsAre, OperatedKeeps DEF Sa!TypeOK
  <2>4. DOMAIN values' = Sa!Controls /\ \A c \in Sa!Controls : Sa!OfKind(Sa!Item(c), values'[c])
    BY <2>1, <2>3 DEF Sa!TypeOK
  <2> QED
    BY <2>1, <2>2, <2>4 DEF Sa!TypeOK
<1> QED
  BY <1>1, <1>2, <1>3 DEF Sa!Next

(* The package manager. *)
LEMMA SamplesAre ==
    /\ Pm!package_count = 15 /\ Pm!Packages = 0 .. 14
    /\ \A i \in 1 .. 15 : Pm!Samples[i] \in {"INSTALLED", "NOT_INSTALLED", "UPGRADABLE"}
  BY DEF Pm!package_count, Pm!Packages, Pm!Samples

(* The package manager lists the sample packages. *)
LEMMA PmBegins == Pm!Init => Pm!TypeOK
<1> SUFFICES ASSUME Pm!Init PROVE Pm!TypeOK
  OBVIOUS
<1>1. \A p \in Pm!Packages : p + 1 \in 1 .. 15
  BY SamplesAre
<1>2. 0 \in Pm!Packages
  BY SamplesAre
<1> QED
  BY <1>1, <1>2, SamplesAre DEF Pm!Init, Pm!TypeOK

(* Every operation of the package manager keeps the types. *)
LEMMA PmStep ==
    ASSUME Pm!TypeOK, [Pm!Next]_(Pm!pmVars)
    PROVE  Pm!TypeOK'
<1>1. CASE UNCHANGED Pm!pmVars
  BY <1>1 DEF Pm!pmVars, Pm!TypeOK
<1>2. ASSUME NEW p \in PackagePoints, Pm!Toolbar(p)
      PROVE  Pm!TypeOK'
  <2>1. /\ Pm!Upgraded \in [Pm!Packages -> {"INSTALLED", "NOT_INSTALLED", "UPGRADABLE"}]
        /\ Pm!Installed \in [Pm!Packages -> {"INSTALLED", "NOT_INSTALLED", "UPGRADABLE"}]
        /\ Pm!Removed \in [Pm!Packages -> {"INSTALLED", "NOT_INSTALLED", "UPGRADABLE"}]
    BY DEF Pm!TypeOK, Pm!Upgraded, Pm!Installed, Pm!Removed
  <2>2. status' \in {Pm!Upgraded, Pm!Installed, Pm!Removed, status}
    BY <1>2 DEF Pm!Toolbar
  <2> QED
    BY <1>2, <2>1, <2>2 DEF Pm!Toolbar, Pm!TypeOK
<1>3. ASSUME NEW p \in PackagePoints, Pm!List(p)
      PROVE  Pm!TypeOK'
  <2>1. p.y \in Nat
    BY GuiAssumption DEF Pm!PackageAssumption
  <2>2. p.y \in 50 .. 499
    BY <1>3 DEF Pm!List, Pm!ListTop, Pm!ListHeight
  <2>3. (p.y - 50) \div 60 \in Nat
    BY <2>2
  <2>4. Pm!RowAt(p) \in Nat
    BY <2>3 DEF Pm!RowAt, Pm!ListTop, Pm!ItemHeight, Pm!TypeOK
  <2>5. Pm!RowAt(p) \in Pm!Packages
    BY <1>3, <2>4, SamplesAre DEF Pm!List
  <2> QED
    BY <1>3, <2>5 DEF Pm!List, Pm!TypeOK
<1> QED
  BY <1>1, <1>2, <1>3 DEF Pm!Next

(* The wallpaper manager. *)
LEMMA WallpapersAre ==
    wallpaper_count \in Nat \ {0} /\ Wp!Wallpapers = 0 .. (wallpaper_count - 1)
  BY GuiAssumption DEF Wp!WallpaperAssumption, Wp!Wallpapers

(* The wallpaper manager shows its first wallpaper. *)
LEMMA WpBegins == Wp!Init => Wp!TypeOK
<1>1. 0 \in Wp!Wallpapers
  BY WallpapersAre
<1>2. [selected |-> 0, active |-> FALSE] \in [selected: Wp!Wallpapers, active: BOOLEAN]
  BY <1>1
<1> QED
  BY <1>1, <1>2 DEF Wp!Init, Wp!TypeOK

(* The slideshow goes on to the next wallpaper. *)
LEMMA CycleKeeps ==
    ASSUME Wp!TypeOK, Wp!Cycle
    PROVE  Wp!TypeOK'
<1>1. Wp!Following \in Wp!Wallpapers
  BY WallpapersAre DEF Wp!Following, Wp!TypeOK
<1> QED
  BY <1>1 DEF Wp!Cycle, Wp!SetCurrent, Wp!TypeOK

(* Every operation of the wallpaper manager keeps the types. *)
LEMMA WpStep ==
    ASSUME Wp!TypeOK, [Wp!Next]_(Wp!wpVars)
    PROVE  Wp!TypeOK'
<1>1. CASE UNCHANGED Wp!wpVars
  BY <1>1 DEF Wp!wpVars, Wp!TypeOK, Wp!NoPicture
<1>2. CASE Wp!LaunchSelector
  BY <1>2 DEF Wp!LaunchSelector, Wp!TypeOK, Wp!Selectors
<1>3. ASSUME NEW s \in Wp!Selectors, NEW p \in SelectorPoints, Wp!Grid(s, p)
      PROVE  Wp!TypeOK'
  BY <1>3 DEF Wp!Grid, Wp!TypeOK
<1>4. ASSUME NEW s \in Wp!Selectors, NEW p \in SelectorPoints, Wp!Buttons(s, p)
      PROVE  Wp!TypeOK'
  <2>1. selectors' \in [Wp!Selectors -> [selected: Wp!Wallpapers, active: BOOLEAN]]
    <3> DEFINE S == [selected: Wp!Wallpapers, active: BOOLEAN]
               n == [selectors[s] EXCEPT !.active = FALSE]
    <3>1. selectors \in [Wp!Selectors -> S] /\ selectors[s] \in S
      BY DEF Wp!TypeOK
    <3>2. n \in S
      BY <3>1
    <3>3. selectors' = [selectors EXCEPT ![s] = n]
      BY <1>4, <3>1 DEF Wp!Buttons
    <3> HIDE DEF S, n
    <3>4. selectors' \in [Wp!Selectors -> S]
      BY <3>1, <3>2, <3>3
    <3> QED
      BY <3>4 DEF S
  <2> QED
    BY <1>4, <2>1 DEF Wp!Buttons, Wp!SetCurrent, Wp!TypeOK
<1>5. ASSUME NEW p \in SelectorPoints, Wp!Toggle(p)
      PROVE  Wp!TypeOK'
  BY <1>5 DEF Wp!Toggle, Wp!TypeOK
<1> QED
  BY <1>1, <1>2, <1>3, <1>4, <1>5, CycleKeeps DEF Wp!Next, Wp!Slideshow, Wp!Click
-----------------------------------------------------------------------------
(* The desktop's types, beside the window table's. *)
LEMMA DesktopTyped == GuiSpec => []TypeOK
<1>1. GuiStart => WmSound /\ DeskTyped
  BY GuiStarts, TypedInit, WmStartIsSound DEF Init, WmSound
<1>2. WmSound /\ DeskTyped /\ [GuiNext]_allVars => (WmSound /\ DeskTyped)'
  BY GuiTurns, WmNext, TypedNext DEF WmSound
<1>3. WmSound /\ DeskTyped => TypeOK
  BY TypedImplies DEF WmSound
<1> QED
  BY <1>1, <1>2, <1>3, PTL DEF GuiSpec

(* Types of the panel, the packages and the wallpapers, which are inductive.  *)
LEMMA PanelsTyped == GuiSpec => [](Sa!TypeOK /\ Pm!TypeOK /\ Wp!TypeOK)
<1>1. GuiStart => Sa!TypeOK /\ Pm!TypeOK /\ Wp!TypeOK
  BY GuiStarts, SaBegins, PmBegins, WpBegins
<1>2. Sa!TypeOK /\ Pm!TypeOK /\ Wp!TypeOK /\ [GuiNext]_allVars
          => (Sa!TypeOK /\ Pm!TypeOK /\ Wp!TypeOK)'
  BY GuiTurns, SaStep, PmStep, WpStep
<1> QED
  BY <1>1, <1>2, PTL DEF GuiSpec

(* Types of the others, from their invariants. *)
LEMMA ApplicationsTyped ==
    GuiSpec => [](Ed!TypeOK /\ Tm!TypeOK /\ Fm!TypeOK /\ Sm!TypeOK /\ Wb!TypeOK)
<1>1. GuiStart => EdInv /\ TmInv /\ FmInv /\ SmInv /\ WbInv
  BY GuiStarts, EdBegins, TmBegins, FmBegins, SmBegins, WbBegins
<1>2. EdInv /\ TmInv /\ FmInv /\ SmInv /\ WbInv /\ [GuiNext]_allVars
          => (EdInv /\ TmInv /\ FmInv /\ SmInv /\ WbInv)'
  BY GuiTurns, EdStep, TmStep, FmStep, SmStep, WbStep
<1>3. EdInv /\ TmInv /\ FmInv /\ SmInv /\ WbInv
          => Ed!TypeOK /\ Tm!TypeOK /\ Fm!TypeOK /\ Sm!TypeOK /\ Wb!TypeOK
  BY TmImplies, FmImplies DEF EdInv, SmInv, WbInv
<1> QED
  BY <1>1, <1>2, <1>3, PTL DEF GuiSpec

(* The fields of desktop.c's and of every application's state have their      *)
(* types, and every table keeps within its limit, whatever the user does and  *)
(* for any limits, sizes, texts and listings.                                 *)
THEOREM EverythingTyped == GuiSpec => []AllTypeOK
<1> DEFINE Typed ==
               /\ TypeOK
               /\ Ed!TypeOK /\ Tm!TypeOK /\ Fm!TypeOK /\ Sm!TypeOK /\ Wb!TypeOK
               /\ Sa!TypeOK /\ Pm!TypeOK /\ Wp!TypeOK
<1>1. Typed => AllTypeOK
  BY DEF AllTypeOK
<1> QED
  BY <1>1, DesktopTyped, PanelsTyped, ApplicationsTyped, PTL
=============================================================================
