---- MODULE TaskSurfaceProofs ----
(***************************************************************************)
(* Proofs about a project's task surface, for any tasks, groups, tabs,     *)
(* views and filters: the invariants of TaskBoard, then those of           *)
(* TaskViews, then that a surface with its saved views runs both.          *)
(***************************************************************************)
EXTENDS MCTaskSurface, FiniteSetTheorems, WellFoundedInduction, TLAPS

-----------------------------------------------------------------------------
(* Filtered is a recursive function: what it returns is proved by induction on the length, and
   the induction from the well-foundedness of the naturals. *)

LEMMA UpToAll ==
  ASSUME NEW S, 0 \in S, \A n \in Nat : n \in S => n + 1 \in S
  PROVE  Nat \subseteq S
<1> DEFINE T == Nat \ S
           R == OpToRel(<, Nat)
<1>1. ASSUME T # {} PROVE FALSE
  <2>1. \E x \in T : \A y \in T : ~(<<y, x>> \in R)
    <3>1. T \subseteq Nat
      OBVIOUS
    <3>2. IsWellFoundedOn(R, Nat)
      BY NatLessThanWellFounded
    <3> HIDE DEF T, R
    <3> QED
      BY <1>1, <3>1, <3>2, WFMin
  <2>2. PICK x \in T : \A y \in T : ~(<<y, x>> \in R)
    BY <2>1
  <2>3. x \in Nat /\ x # 0
    OBVIOUS
  <2>4. x - 1 \in T
    <3>1. x - 1 \in Nat /\ (x - 1) + 1 = x
      BY <2>3
    <3> QED BY <3>1
  <2>5. <<x - 1, x>> \in R
    <3>1. R = {ss \in Nat \X Nat : ss[1] < ss[2]}
      BY DEF OpToRel
    <3>2. x - 1 \in Nat /\ x - 1 < x
      BY <2>3
    <3> QED BY <2>3, <3>1, <3>2
  <2> QED
    BY <2>2, <2>4, <2>5
<1> QED
  BY <1>1

LEMMA AppendedSet ==
  ASSUME NEW T, NEW seq \in Seq(T), NEW t \in T
  PROVE  Append(seq, t) \in Seq(T) /\ ToSet(Append(seq, t)) = ToSet(seq) \cup {t}
<1> DEFINE long == Append(seq, t)
<1>1. /\ long \in Seq(T) /\ Len(long) = Len(seq) + 1 /\ Len(seq) \in Nat
      /\ DOMAIN long = 1..Len(seq) + 1 /\ DOMAIN seq = 1..Len(seq)
      /\ \A i \in 1..Len(seq) : long[i] = seq[i]
      /\ long[Len(seq) + 1] = t
  OBVIOUS
<1> HIDE DEF long
<1>2. 1..Len(seq) + 1 = 1..Len(seq) \cup {Len(seq) + 1}
  BY <1>1
<1>3. ToSet(long) = ToSet(seq) \cup {t}
  BY <1>1, <1>2 DEF ToSet
<1> QED BY <1>1, <1>3 DEF long

\* The step of the recursion.
Longer(seq, set, f, n) == IF seq[n] \in set THEN Append(f, seq[n]) ELSE f

\* upto satisfies the recursion for the first last tasks.
Filters_UpTo(seq, set, upto, last) ==
  upto = [n \in 0..last |-> IF n = 0 THEN <<>> ELSE Longer(seq, set, upto[n - 1], n)]

LEMMA FilterExists ==
  ASSUME NEW seq, NEW set
  PROVE  \A last \in Nat : \E upto : Filters_UpTo(seq, set, upto, last)
<1> DEFINE S == {last \in Nat : \E upto : Filters_UpTo(seq, set, upto, last)}
<1>1. 0 \in S
  <2> DEFINE upto == [n \in 0..0 |-> <<>>]
  <2>1. Filters_UpTo(seq, set, upto, 0)
    BY DEF Filters_UpTo
  <2> QED BY <2>1
<1>2. ASSUME NEW last \in Nat, last \in S PROVE last + 1 \in S
  <2>1. PICK f : Filters_UpTo(seq, set, f, last)
    BY <1>2
  <2> DEFINE g == [n \in 0..last + 1 |-> IF n <= last THEN f[n] ELSE Longer(seq, set, f[last], n)]
  <2>2. ASSUME NEW n \in 0..last + 1
        PROVE  g[n] = IF n = 0 THEN <<>> ELSE Longer(seq, set, g[n - 1], n)
    <3>1. CASE n = 0
      <4>1. f[0] = <<>>
        BY <2>1 DEF Filters_UpTo
      <4> QED BY <3>1, <4>1
    <3>2. CASE n \in 1..last
      <4>1. n \in 0..last /\ n - 1 \in 0..last /\ n # 0 /\ n - 1 \in 0..last + 1 /\ n - 1 <= last
        BY <3>2
      <4>2. f[n] = Longer(seq, set, f[n - 1], n)
        BY <2>1, <4>1 DEF Filters_UpTo
      <4>3. g[n] = f[n] /\ g[n - 1] = f[n - 1]
        BY <4>1
      <4> HIDE DEF g
      <4> QED BY <4>1, <4>2, <4>3
    <3>3. CASE n = last + 1
      <4>1. ~(n <= last) /\ n # 0 /\ n - 1 = last /\ last \in 0..last + 1 /\ last <= last
        BY <3>3
      <4>2. g[n] = Longer(seq, set, f[last], n) /\ g[last] = f[last]
        BY <4>1
      <4> HIDE DEF g
      <4> QED BY <4>1, <4>2
    <3> QED BY <3>1, <3>2, <3>3
  <2>3. g = [n \in 0..last + 1 |-> g[n]]
    OBVIOUS
  <2> HIDE DEF g
  <2>4. Filters_UpTo(seq, set, g, last + 1)
    BY <2>2, <2>3 DEF Filters_UpTo
  <2> QED BY <2>4
<1>3. Nat \subseteq S
  <2> HIDE DEF S
  <2> QED BY <1>1, <1>2, UpToAll
<1> QED BY <1>3

\* What the filters leave: the tasks of the sequence that are in the set, and nothing else.
LEMMA FilteredIs ==
  ASSUME NEW T, NEW seq \in Seq(T), NEW set
  PROVE  /\ Filtered(seq, set) \in Seq(T)
         /\ ToSet(Filtered(seq, set)) = ToSet(seq) \cap set
<1> DEFINE upto == CHOOSE f : Filters_UpTo(seq, set, f, Len(seq))
<1>1. Len(seq) \in Nat /\ DOMAIN seq = 1..Len(seq)
  OBVIOUS
<1>2. Filters_UpTo(seq, set, upto, Len(seq))
  <2>1. \E f : Filters_UpTo(seq, set, f, Len(seq))
    BY <1>1, FilterExists
  <2> QED BY <2>1
<1>3. Filtered(seq, set) = upto[Len(seq)]
  BY DEF Filtered, Filters_UpTo, Longer
<1> HIDE DEF upto
<1>4. upto[0] = <<>> /\ \A n \in 1..Len(seq) : upto[n] = Longer(seq, set, upto[n - 1], n)
  <2>1. upto[0] = <<>>
    BY <1>1, <1>2 DEF Filters_UpTo
  <2>2. ASSUME NEW n \in 1..Len(seq) PROVE upto[n] = Longer(seq, set, upto[n - 1], n)
    <3>1. n \in 0..Len(seq) /\ n # 0
      BY <1>1
    <3> QED BY <1>2, <3>1 DEF Filters_UpTo
  <2> QED BY <2>1, <2>2
<1> DEFINE Good(n) == upto[n] \in Seq(T) /\ ToSet(upto[n]) = {seq[i] : i \in 1..n} \cap set
           S == {n \in Nat : n <= Len(seq) => Good(n)}
<1>5. 0 \in S
  <2>1. <<>> \in Seq(T) /\ ToSet(<<>>) = {} /\ 1..0 = {}
    BY DEF ToSet
  <2> QED BY <1>4, <2>1
<1>6. ASSUME NEW n \in Nat, n \in S PROVE n + 1 \in S
  <2> SUFFICES ASSUME n + 1 <= Len(seq) PROVE Good(n + 1)
    OBVIOUS
  <2>1. n <= Len(seq) /\ n + 1 \in 1..Len(seq) /\ (n + 1) - 1 = n
    BY <1>1
  <2>2. Good(n)
    BY <1>6, <2>1
  <2>3. upto[n + 1] = Longer(seq, set, upto[n], n + 1)
    BY <1>4, <2>1
  <2>4. {seq[i] : i \in 1..n + 1} = {seq[i] : i \in 1..n} \cup {seq[n + 1]}
    <3>1. 1..n + 1 = 1..n \cup {n + 1}
      OBVIOUS
    <3> QED BY <3>1
  <2>5. seq[n + 1] \in T
    BY <2>1
  <2>6. CASE seq[n + 1] \in set
    <3>1. upto[n + 1] = Append(upto[n], seq[n + 1])
      BY <2>3, <2>6 DEF Longer
    <3>2. /\ Append(upto[n], seq[n + 1]) \in Seq(T)
          /\ ToSet(Append(upto[n], seq[n + 1])) = ToSet(upto[n]) \cup {seq[n + 1]}
      BY <2>2, <2>5, AppendedSet
    <3> QED BY <2>2, <2>4, <2>6, <3>1, <3>2
  <2>7. CASE seq[n + 1] \notin set
    <3>1. upto[n + 1] = upto[n]
      BY <2>3, <2>7 DEF Longer
    <3> QED BY <2>2, <2>4, <2>7, <3>1
  <2> QED BY <2>6, <2>7
<1>7. Len(seq) \in S
  <2> HIDE DEF S
  <2> QED BY <1>1, <1>5, <1>6, UpToAll
<1>8. Good(Len(seq))
  BY <1>1, <1>7
<1>9. {seq[i] : i \in 1..Len(seq)} = ToSet(seq)
  BY <1>1 DEF ToSet
<1> QED BY <1>3, <1>8, <1>9

-----------------------------------------------------------------------------
(* The operations on the store keep it a store, and setOrder leaves the focus on its task. *)

LEMMA IndexOfIs ==
  ASSUME NEW order \in Seq(Tasks), NEW t
  PROVE  /\ IndexOf(order, t) \in 0..Len(order)
         /\ IndexOf(order, t) # 0 => order[IndexOf(order, t)] = t
         /\ t \notin Tasks => IndexOf(order, t) = 0
<1>1. DOMAIN order = 1..Len(order) /\ Len(order) \in Nat /\ ToSet(order) \subseteq Tasks
  BY DEF ToSet
<1>2. CASE t \in ToSet(order)
  <2>1. \E i \in DOMAIN order : order[i] = t
    BY <1>2 DEF ToSet
  <2>2. IndexOf(order, t) \in DOMAIN order /\ order[IndexOf(order, t)] = t
    BY <1>2, <2>1 DEF IndexOf
  <2> QED BY <1>1, <1>2, <2>2
<1>3. CASE t \notin ToSet(order)
  BY <1>1, <1>3 DEF IndexOf
<1> QED BY <1>2, <1>3

LEMMA FocusedIs ==
  ASSUME NEW s, IsStore(s)
  PROVE  /\ Focused(s) \in Tasks \cup {NoTask}
         /\ s.focus # 0 => s.focus \in 1..Len(s.order) /\ Focused(s) = s.order[s.focus] /\ Focused(s) # NoTask
         /\ s.focus = 0 => Focused(s) = NoTask
<1>1. CASE s.focus = 0
  BY <1>1 DEF Focused
<1>2. CASE s.focus # 0
  <2>1. s.order \in Seq(Tasks) /\ s.focus \in 1..Len(s.order)
    BY <1>2 DEF IsStore
  <2>2. s.order[s.focus] \in Tasks
    BY <2>1
  <2> QED BY <1>2, <2>1, <2>2, NoTaskAssumption DEF Focused
<1> QED BY <1>1, <1>2

\* A store made of its four parts.
LEMMA StoreOf ==
  ASSUME NEW order \in Seq(Tasks), NEW focus \in 0..Len(order), NEW anchor \in 0..Len(order),
         NEW selected, selected \subseteq ToSet(order)
  PROVE  IsStore([order |-> order, focus |-> focus, anchor |-> anchor, selected |-> selected])
<1>1. selected \subseteq Tasks
  BY DEF ToSet
<1>2. focus \in Nat /\ anchor \in Nat
  OBVIOUS
<1> QED BY <1>1, <1>2 DEF IsStore

LEMMA StoreParts ==
  ASSUME NEW s, IsStore(s)
  PROVE  /\ s = [order |-> s.order, focus |-> s.focus, anchor |-> s.anchor, selected |-> s.selected]
         /\ s.order \in Seq(Tasks) /\ s.selected \subseteq ToSet(s.order) /\ Len(s.order) \in Nat
         /\ s.focus \in 0..Len(s.order) /\ s.anchor \in 0..Len(s.order)
         /\ DOMAIN s.order = 1..Len(s.order)
BY DEF IsStore

LEMMA SetOrderKeeps ==
  ASSUME NEW s, IsStore(s), NEW order \in Seq(Tasks)
  PROVE  /\ IsStore(setOrder(s, order)) /\ setOrder(s, order).order = order
         /\ Focused(setOrder(s, order)) \in {Focused(s), NoTask}
<1> DEFINE kept == s.selected \cap ToSet(order)
           focus == IndexOf(order, Focused(s))
           made == [order |-> order, focus |-> focus, anchor |-> focus, selected |-> kept]
<1>1. CASE setOrder(s, order) = s /\ order = s.order
  BY <1>1
<1>2. CASE setOrder(s, order) = made
  <2>1. focus \in 0..Len(order) /\ (focus # 0 => order[focus] = Focused(s))
    BY IndexOfIs
  <2>2. IsStore(made)
    <3>1. kept \subseteq ToSet(order)
      OBVIOUS
    <3> HIDE DEF kept, focus
    <3> QED BY <2>1, <3>1, StoreOf
  <2>3. made.order = order /\ made.focus = focus
    OBVIOUS
  <2>4. Focused(made) \in {Focused(s), NoTask}
    <3> HIDE DEF focus, made
    <3> QED BY <2>1, <2>3 DEF Focused
  <2> HIDE DEF made
  <2> QED BY <1>2, <2>2, <2>3, <2>4
<1> QED BY <1>1, <1>2 DEF setOrder

LEMMA ClearAllKeeps ==
  ASSUME NEW s, IsStore(s)
  PROVE  IsStore(clearAll(s)) /\ Focused(clearAll(s)) = NoTask
<1> DEFINE made == [order |-> s.order, focus |-> 0, anchor |-> 0, selected |-> {}]
<1>1. CASE clearAll(s) = s /\ s.focus = 0
  BY <1>1, FocusedIs
<1>2. CASE clearAll(s) = [s EXCEPT !.focus = 0, !.anchor = 0, !.selected = {}]
  <2>1. clearAll(s) = made
    BY <1>2, StoreParts
  <2>2. IsStore(made)
    BY StoreParts, StoreOf
  <2>3. made.focus = 0
    OBVIOUS
  <2> HIDE DEF made
  <2> QED BY <2>1, <2>2, <2>3 DEF Focused
<1> QED BY <1>1, <1>2 DEF clearAll

LEMMA ClampIndexIs ==
  ASSUME NEW index \in Int, NEW length \in Nat, length # 0
  PROVE  clampIndex(index, length) \in 1..length
BY DEF clampIndex

LEMMA BuildRangeIs ==
  ASSUME NEW order \in Seq(Tasks), NEW from, NEW to
  PROVE  buildRange(order, from, to) \subseteq ToSet(order)
BY DEF buildRange, ToSet

LEMMA MoveFocusKeeps ==
  ASSUME NEW s, IsStore(s), NEW down \in BOOLEAN
  PROVE  IsStore(moveFocus(s, down))
<1> DEFINE last == Len(s.order)
           next == IF s.focus = 0 THEN IF down THEN 1 ELSE last
                   ELSE clampIndex(IF down THEN s.focus + 1 ELSE s.focus - 1, last)
<1>1. CASE moveFocus(s, down) = s
  BY <1>1
<1>2. CASE last # 0 /\ moveFocus(s, down) = [s EXCEPT !.focus = next, !.anchor = next]
  <2>1. last \in Nat /\ s.focus \in 0..last
    BY StoreParts
  <2>2. next \in 1..last
    <3>1. CASE s.focus = 0
      BY <1>2, <2>1, <3>1
    <3>2. CASE s.focus # 0
      <4>1. (IF down THEN s.focus + 1 ELSE s.focus - 1) \in Int
        BY <2>1
      <4>2. clampIndex(IF down THEN s.focus + 1 ELSE s.focus - 1, last) \in 1..last
        BY <1>2, <2>1, <4>1, ClampIndexIs
      <4> QED BY <3>2, <4>2
    <3> QED BY <3>1, <3>2
  <2>3. next \in 0..Len(s.order)
    BY <2>1, <2>2
  <2> HIDE DEF next
  <2>4. moveFocus(s, down) = [order |-> s.order, focus |-> next, anchor |-> next, selected |-> s.selected]
    BY <1>2, StoreParts
  <2> QED BY <2>3, <2>4, StoreParts, StoreOf
<1> QED BY <1>1, <1>2 DEF moveFocus

LEMMA ExtendSelectionKeeps ==
  ASSUME NEW s, IsStore(s), NEW down \in BOOLEAN
  PROVE  IsStore(extendSelection(s, down))
<1> DEFINE last == Len(s.order)
           anchor == IF s.anchor = 0 THEN s.focus ELSE s.anchor
           base == IF s.focus = 0 THEN IF anchor = 0 THEN 1 ELSE anchor ELSE s.focus
           next == clampIndex(IF down THEN base + 1 ELSE base - 1, last)
           from == IF anchor = 0 THEN next ELSE anchor
           range == buildRange(s.order, from, next)
<1>1. CASE extendSelection(s, down) = s
  BY <1>1
<1>2. CASE last # 0 /\ extendSelection(s, down) = [s EXCEPT !.focus = next, !.anchor = from, !.selected = range]
  <2>1. last \in Nat /\ s.focus \in 0..last /\ s.anchor \in 0..last
    BY StoreParts
  <2>2. (IF down THEN base + 1 ELSE base - 1) \in Int
    BY <2>1
  <2>3. next \in 1..last
    <3> HIDE DEF base
    <3> QED BY <1>2, <2>1, <2>2, ClampIndexIs
  <2>4. next \in 0..Len(s.order) /\ from \in 0..Len(s.order)
    <3> HIDE DEF next
    <3> QED BY <2>1, <2>3
  <2>5. range \subseteq ToSet(s.order)
    BY StoreParts, BuildRangeIs
  <2> HIDE DEF next, from, range
  <2>6. extendSelection(s, down) = [order |-> s.order, focus |-> next, anchor |-> from, selected |-> range]
    BY <1>2, StoreParts
  <2> QED BY <2>4, <2>5, <2>6, StoreParts, StoreOf
<1> QED BY <1>1, <1>2 DEF extendSelection

\* The three ways a click changes the store.
LEMMA ClickKeeps ==
  ASSUME NEW s, IsStore(s), NEW t
  PROVE  IsStore(selectId(s, t)) /\ IsStore(toggleId(s, t)) /\ IsStore(rangeToId(s, t))
<1> DEFINE index == IndexOf(s.order, t)
<1>1. s.order \in Seq(Tasks) /\ index \in 0..Len(s.order) /\ (index # 0 => s.order[index] = t)
  BY StoreParts, IndexOfIs
<1>2. CASE index = 0
  BY <1>2 DEF selectId, toggleId, rangeToId
<1>3. CASE index # 0
  <2> DEFINE anchor == IF s.anchor = 0 THEN index ELSE s.anchor
             range == buildRange(s.order, anchor, index)
             toggled == IF t \in s.selected THEN s.selected \ {t} ELSE s.selected \cup {t}
  <2>1. t \in ToSet(s.order)
    BY <1>1, <1>3 DEF ToSet
  <2>2. anchor \in 0..Len(s.order) /\ range \subseteq ToSet(s.order) /\ toggled \subseteq ToSet(s.order)
    BY <1>1, <2>1, StoreParts, BuildRangeIs
  <2>3. selectId(s, t) = [s EXCEPT !.focus = index, !.anchor = index, !.selected = {t}]
    BY <1>3 DEF selectId
  <2>4. toggleId(s, t) = [s EXCEPT !.focus = index, !.anchor = index, !.selected = toggled]
    BY <1>3 DEF toggleId
  <2>5. rangeToId(s, t) = [s EXCEPT !.focus = index, !.selected = range]
    BY <1>3 DEF rangeToId
  <2> HIDE DEF index, range, toggled
  <2>6. selectId(s, t) = [order |-> s.order, focus |-> index, anchor |-> index, selected |-> {t}]
    BY <2>3, StoreParts
  <2>7. toggleId(s, t) = [order |-> s.order, focus |-> index, anchor |-> index, selected |-> toggled]
    BY <2>4, StoreParts
  <2>8. rangeToId(s, t) = [order |-> s.order, focus |-> index, anchor |-> s.anchor, selected |-> range]
    BY <2>5, StoreParts
  <2>9. {t} \subseteq ToSet(s.order)
    BY <2>1
  <2> QED BY <1>1, <2>2, <2>6, <2>7, <2>8, <2>9, StoreParts, StoreOf
<1> QED BY <1>2, <1>3

LEMMA SelectAllKeeps ==
  ASSUME NEW s, IsStore(s)
  PROVE  IsStore(selectAll(s))
<1> DEFINE anchor == IF s.focus = 0 THEN 1 ELSE s.focus
<1>1. CASE selectAll(s) = s
  BY <1>1
<1>2. CASE s.order # <<>> /\ selectAll(s) = [s EXCEPT !.selected = ToSet(s.order), !.anchor = anchor]
  <2>1. Len(s.order) # 0
    BY <1>2, StoreParts
  <2>2. anchor \in 0..Len(s.order)
    BY <2>1, StoreParts
  <2> HIDE DEF anchor
  <2>3. selectAll(s) = [order |-> s.order, focus |-> s.focus, anchor |-> anchor, selected |-> ToSet(s.order)]
    BY <1>2, StoreParts
  <2> QED BY <2>2, <2>3, StoreParts, StoreOf
<1> QED BY <1>1, <1>2 DEF selectAll

LEMMA ToggleFocusedKeeps ==
  ASSUME NEW s, IsStore(s)
  PROVE  IsStore(toggleFocused(s))
BY ClickKeeps DEF toggleFocused

-----------------------------------------------------------------------------
(* The inductive invariant.  While the keys work the store has the order that is drawn; and while
   nothing is left to come of a navigation, the address and the dialog agree. *)

Synced == Enabled(open, picker, failed) => store.order = Order(surface, data, filter, collapsed)

UrlFollows == ~due /\ ~crossed => (nav \in {"none", url} => open = url)

BoardInv == BoardTypeOK /\ Synced /\ UrlFollows

LEMMA LaidIs ==
  ASSUME NEW d \in Laid
  PROVE  d.rows \in Seq(Tasks)
<1>1. PICK T \in SUBSET Tasks : \E r \in [1..Cardinality(T) -> T], g \in [T -> Groups] : d = [rows |-> r, group |-> g]
  BY DEF Laid, Layouts
<1>2. PICK r \in [1..Cardinality(T) -> T] : d.rows = r
  BY <1>1
<1>3. IsFiniteSet(T)
  BY TasksAssumption, FS_Subset
<1>4. Cardinality(T) \in Nat
  BY <1>3, FS_CardinalityType
<1>5. r \in [1..Cardinality(T) -> Tasks]
  OBVIOUS
<1> HIDE DEF Laid
<1> QED BY <1>2, <1>4, <1>5

LEMMA OrderIs ==
  ASSUME NEW s, NEW d \in Laid, NEW f, NEW c
  PROVE  /\ Order(s, d, f, c) \in Seq(Tasks)
         /\ s = "board" => ToSet(Order(s, d, f, c)) = Passing(d, f, lanes)
         /\ s # "board" => ToSet(Order(s, d, f, c)) = Passing(d, f, Groups \ c)
<1>1. d.rows \in Seq(Tasks)
  BY LaidIs
<1>2. \A set : Filtered(d.rows, set) \in Seq(Tasks) /\ ToSet(Filtered(d.rows, set)) = ToSet(d.rows) \cap set
  BY <1>1, FilteredIs
<1>3. \A groups : ToSet(d.rows) \cap Passing(d, f, groups) = Passing(d, f, groups)
  BY DEF Passing
<1> QED BY <1>2, <1>3 DEF Order, BoardOrder, TableOrder

LEMMA HandOverKeeps ==
  ASSUME NEW s, IsStore(s), data' \in Laid, lanes' = lanes, HandOver(s)
  PROVE  IsStore(store') /\ Synced' /\ Focused(store') \in {Focused(s), NoTask}
<1> DEFINE order == Order(surface', data', filter', collapsed')
<1>1. CASE Enabled(open', picker', failed')
  <2>1. store' = setOrder(s, order)
    BY <1>1 DEF HandOver
  <2>2. order \in Seq(Tasks)
    BY OrderIs
  <2>3. Order(surface, data, filter, collapsed)' = order
    BY DEF Order, BoardOrder, TableOrder, Passing, Passes
  <2> HIDE DEF order
  <2>4. IsStore(store') /\ store'.order = order /\ Focused(store') \in {Focused(s), NoTask}
    BY <2>1, <2>2, SetOrderKeeps
  <2> QED BY <2>3, <2>4 DEF Synced
<1>2. CASE ~Enabled(open', picker', failed')
  BY <1>2 DEF HandOver, Synced, Enabled
<1> QED BY <1>1, <1>2

LEMMA SettleIs ==
  ASSUME BoardTypeOK, NEW s, Settle(s)
  PROVE  HandOver(s) /\ suppressed' \in BOOLEAN
<1> DEFINE comes == store.selected = {} /\ store'.selected # {}
           goes == store.selected # {} /\ store'.selected = {}
           returns == Gone(surface, failed) /\ ~Gone(surface', failed')
<1>1. /\ HandOver(s)
      /\ suppressed' \in CASE returns -> {FALSE, picker' # {}} [] comes -> {bar' = "assignee"}
                            [] goes -> {FALSE} [] OTHER -> {suppressed}
  BY DEF Settle
<1>2. suppressed \in BOOLEAN
  BY DEF BoardTypeOK
<1> HIDE DEF comes, goes, returns
<1>4. suppressed' \in {bar' = "assignee", FALSE, picker' # {}, suppressed}
  BY <1>1
<1> QED BY <1>1, <1>2, <1>4

\* What is left to show of a step that hands the order over.
LEMMA ShownStep ==
  ASSUME BoardInv, NEW s, IsStore(s), HandOver(s), lanes' = lanes,
         surface' \in {"board", "table"}, data' \in Laid, filter' \in Groups \cup {0}, collapsed' \subseteq Groups,
         picker' \subseteq Tasks, bar' \in Kinds \cup {"none"}, {failed', palette', suppressed', due', crossed'} \subseteq BOOLEAN,
         {open', url'} \subseteq Tasks \cup {NoTask}, nav' \in Tasks \cup {NoTask, "none"},
         changes' \in 0..MaxChanges, UrlFollows'
  PROVE  BoardInv' /\ Focused(store') \in {Focused(s), NoTask}
<1>1. IsStore(store') /\ Synced' /\ Focused(store') \in {Focused(s), NoTask}
  BY HandOverKeeps
<1>2. BoardTypeOK'
  BY <1>1 DEF BoardInv, BoardTypeOK, IsStore, ToSet, Laid, Layouts, Groups
<1> QED BY <1>1, <1>2 DEF BoardInv

\* The same of a step that leaves the address alone.
LEMMA PageStep ==
  ASSUME BoardInv, NEW s, IsStore(s), HandOver(s), UNCHANGED <<surface, lanes, address>>,
         data' \in Laid, filter' \in Groups \cup {0}, collapsed' \subseteq Groups,
         picker' \in {picker, {}}, bar' \in {bar, "none"}, palette' = palette, suppressed' \in BOOLEAN,
         failed' \in BOOLEAN, changes' \in 0..MaxChanges
  PROVE  BoardInv' /\ Focused(store') \in {Focused(s), NoTask}
<1>1. /\ surface' \in {"board", "table"} /\ picker' \subseteq Tasks /\ bar' \in Kinds \cup {"none"}
      /\ {failed', palette', suppressed', due', crossed'} \subseteq BOOLEAN
      /\ {open', url'} \subseteq Tasks \cup {NoTask} /\ nav' \in Tasks \cup {NoTask, "none"}
  BY DEF BoardInv, BoardTypeOK, address
<1>2. UrlFollows'
  BY DEF BoardInv, UrlFollows, address
<1>3. lanes' = lanes
  OBVIOUS
<1> QED BY <1>1, <1>2, <1>3, ShownStep

LEMMA WalkStep ==
  ASSUME BoardInv, NEW s, IsStore(s), Settle(s), UNCHANGED <<page, changes, address, picker, bar, palette>>
  PROVE  BoardInv' /\ Focused(store') \in {Focused(s), NoTask}
<1>1. HandOver(s) /\ suppressed' \in BOOLEAN
  BY SettleIs DEF BoardInv
<1>2. /\ UNCHANGED <<surface, lanes, address>> /\ data' \in Laid /\ filter' \in Groups \cup {0}
      /\ collapsed' \subseteq Groups /\ changes' \in 0..MaxChanges /\ picker' = picker /\ bar' = bar /\ palette' = palette
      /\ failed' \in BOOLEAN
  BY DEF BoardInv, BoardTypeOK, page
<1> QED BY <1>1, <1>2, PageStep

-----------------------------------------------------------------------------
(* One lemma per action, or per group of actions that differ in what they hand to Settle. *)

Stays == Focused(store') \in {Focused(store), NoTask}

LEMMA InvGives ==
  ASSUME BoardInv
  PROVE  /\ BoardTypeOK /\ IsStore(store) /\ data \in Laid /\ filter \in Groups \cup {0} /\ collapsed \subseteq Groups
         /\ suppressed \in BOOLEAN /\ failed \in BOOLEAN /\ changes \in 0..MaxChanges /\ store.selected \subseteq Tasks
         /\ Focused(store) \in Tasks \cup {NoTask}
<1>1. BoardTypeOK /\ IsStore(store)
  BY DEF BoardInv, BoardTypeOK
<1>2. store.selected \subseteq Tasks
  BY <1>1 DEF IsStore
<1>3. Focused(store) \in Tasks \cup {NoTask}
  BY <1>1, FocusedIs
<1> QED BY <1>1, <1>2, <1>3 DEF BoardTypeOK

LEMMA ChangeIs ==
  ASSUME BoardInv, Change
  PROVE  changes' \in 0..MaxChanges
BY InvGives, ChangesAssumption DEF Change

LEMMA KeysStep == ASSUME BoardInv, Keys PROVE BoardInv'
<1>1. IsStore(store)
  BY InvGives
<1>2. PICK s : IsStore(s) /\ Walk(s)
  BY <1>1, MoveFocusKeeps, ExtendSelectionKeeps, SelectAllKeeps, ToggleFocusedKeeps, ClearAllKeeps DEF Keys
<1> QED BY <1>2, WalkStep DEF Walk

LEMMA ClickStep == ASSUME BoardInv, Click PROVE BoardInv'
<1>1. IsStore(store)
  BY InvGives
<1>2. PICK t : \E s \in {selectId(store, t), toggleId(store, t), rangeToId(store, t)} : Settle(s)
  BY DEF Click
<1>3. PICK s : IsStore(s) /\ Settle(s)
  BY <1>1, <1>2, ClickKeeps
<1> QED BY <1>3, WalkStep DEF Click

\* The steps that change the tasks, the filter or the folding, and settle.
LEMMA SettlingStep ==
  ASSUME BoardInv, NEW s, IsStore(s), Settle(s), Change, UNCHANGED <<surface, lanes, address, picker, bar, palette>>,
         data' \in Laid, filter' \in Groups \cup {0}, collapsed' \subseteq Groups, failed' \in BOOLEAN
  PROVE  BoardInv' /\ Focused(store') \in {Focused(s), NoTask}
<1>1. HandOver(s) /\ suppressed' \in BOOLEAN
  BY InvGives, SettleIs
<1>2. changes' \in 0..MaxChanges
  BY ChangeIs
<1>3. UNCHANGED <<surface, lanes, address>> /\ picker' \in {picker, {}} /\ bar' \in {bar, "none"} /\ palette' = palette
  OBVIOUS
<1> QED BY <1>1, <1>2, <1>3, PageStep

LEMMA MovedIs ==
  ASSUME NEW ts, NEW d \in UNION {Moved(ts, g) : g \in Reach}
  PROVE  d \in Laid
BY DEF Moved

LEMMA WrittenIs ==
  ASSUME NEW tasks, tasks \subseteq Laid, Written(tasks)
  PROVE  data' \in Laid /\ failed' \in BOOLEAN
BY DEF Written

LEMMA ChangingStep ==
  ASSUME BoardInv, TasksArrive \/ MoveSome \/ ChangeFilter \/ Fold \/ ArchiveOrDelete
  PROVE  BoardInv' /\ Stays
<1>0. IsStore(store) /\ IsStore(clearAll(store)) /\ Focused(clearAll(store)) = NoTask
  BY InvGives, ClearAllKeeps
<1>1. CASE TasksArrive
  <2>1. data' \in Laid /\ failed' \in BOOLEAN
    BY <1>1, WrittenIs DEF TasksArrive
  <2> QED BY <1>0, <1>1, <2>1, InvGives, SettlingStep DEF TasksArrive, Stays
<1>2. CASE MoveSome
  <2>1. data' \in Laid /\ failed' \in BOOLEAN
    BY <1>2, MovedIs, WrittenIs DEF MoveSome
  <2> QED BY <1>0, <1>2, <2>1, InvGives, SettlingStep DEF MoveSome, Stays
<1>3. CASE ChangeFilter
  BY <1>0, <1>3, InvGives, SettlingStep DEF ChangeFilter, Stays
<1>4. CASE Fold
  <2>1. collapsed' \subseteq Groups
    BY <1>4, InvGives DEF Fold, BoardTypeOK
  <2> QED BY <1>0, <1>4, <2>1, InvGives, SettlingStep DEF Fold, Stays
<1>5. CASE ArchiveOrDelete
  <2>1. data' \in Laid /\ failed' \in BOOLEAN
    BY <1>5, MovedIs, WrittenIs, InvGives DEF ArchiveOrDelete
  <2>2. BoardInv' /\ Focused(store') \in {Focused(clearAll(store)), NoTask}
    BY <1>0, <1>5, <2>1, InvGives, SettlingStep DEF ArchiveOrDelete
  <2> QED BY <1>0, <2>2 DEF Stays
<1> QED BY <1>1, <1>2, <1>3, <1>4, <1>5

\* A picker is opened.
LEMMA OpeningStep ==
  ASSUME BoardInv, OpenPicker \/ OpenBarPicker
  PROVE  BoardInv' /\ Stays
<1>1. CASE OpenPicker
  <2>1. picker' \subseteq Tasks /\ picker' # {} /\ suppressed' = TRUE
    BY <1>1, InvGives DEF OpenPicker, Targets
  <2>2. UNCHANGED <<page, changes, address, store, bar, palette>>
    BY <1>1 DEF OpenPicker
  <2>3. BoardTypeOK'
    BY <2>1, <2>2, InvGives DEF BoardTypeOK, page, address, Groups, Laid, Layouts, ToSet
  <2>4. Synced' /\ UrlFollows'
    BY <2>1, <2>2 DEF BoardInv, Synced, UrlFollows, Enabled, address
  <2> QED BY <2>2, <2>3, <2>4 DEF BoardInv, Stays
<1>2. CASE OpenBarPicker
  <2>1. bar' \in Kinds /\ suppressed' = TRUE
    BY <1>2 DEF OpenBarPicker
  <2>2. UNCHANGED <<page, changes, address, store, picker, palette>>
    BY <1>2 DEF OpenBarPicker
  <2>3. BoardTypeOK'
    BY <2>1, <2>2, InvGives DEF BoardTypeOK, page, address, Groups, Laid, Layouts, ToSet
  <2>4. Synced' /\ UrlFollows'
    BY <2>2 DEF BoardInv, Synced, UrlFollows, Enabled, address, page, Order, BoardOrder, TableOrder
  <2> QED BY <2>2, <2>3, <2>4 DEF BoardInv, Stays
<1> QED BY <1>1, <1>2

\* After a refetch that failed the order is not handed over until something is written.
LEMMA FailingStep == ASSUME BoardInv, RefetchFails PROVE BoardInv' /\ Stays
<1>1. /\ UNCHANGED <<surface, data, lanes, filter, collapsed, address, picker, palette, store>>
      /\ failed' = TRUE /\ bar' \in {bar, "none"} /\ suppressed' \in {suppressed, FALSE}
  BY DEF RefetchFails, Shut
<1>2. changes' \in 0..MaxChanges
  BY ChangeIs DEF RefetchFails
<1>3. BoardTypeOK'
  <2>1. /\ {failed', palette', suppressed', due', crossed'} \subseteq BOOLEAN /\ bar' \in Kinds \cup {"none"}
        /\ {open', url'} \subseteq Tasks \cup {NoTask} /\ nav' \in Tasks \cup {NoTask, "none"}
        /\ picker' \subseteq Tasks
    BY <1>1, InvGives DEF BoardTypeOK, address
  <2>2. /\ surface' \in {"board", "table"} /\ lanes' \subseteq Groups /\ filter' \in Groups \cup {0}
        /\ collapsed' \subseteq Groups
    BY <1>1, InvGives DEF BoardTypeOK
  <2>3. (data \in Laid)' /\ IsStore(store)'
    BY <1>1, InvGives DEF Laid, Layouts, ToSet, Groups, IsStore
  <2> QED BY <1>2, <2>1, <2>2, <2>3 DEF BoardTypeOK, Groups
<1>4. Synced' /\ UrlFollows'
  BY <1>1 DEF BoardInv, Synced, UrlFollows, Enabled, address
<1> QED BY <1>1, <1>3, <1>4 DEF BoardInv, Stays

LEMMA QuietStep ==
  ASSUME BoardInv, CloseBarPicker \/ TogglePalette \/ FollowLink \/ Arrive
  PROVE  BoardInv' /\ Stays
<1>1. UNCHANGED <<page, store, picker, open>>
  BY DEF CloseBarPicker, TogglePalette, FollowLink, Arrive, address
<1>2. Stays /\ Synced'
  BY <1>1 DEF BoardInv, Stays, Synced, Enabled, page, Order, BoardOrder, TableOrder
<1>3. CASE CloseBarPicker \/ TogglePalette
  <2>1. UNCHANGED <<changes, address>> /\ bar' \in {bar, "none"} /\ palette' \in BOOLEAN /\ suppressed' \in BOOLEAN
    BY <1>3, InvGives DEF CloseBarPicker, TogglePalette, Shut, BoardTypeOK
  <2>2. BoardTypeOK'
    BY <1>1, <2>1, InvGives DEF BoardTypeOK, page, address, Groups, Laid, Layouts, ToSet
  <2>3. UrlFollows'
    BY <2>1 DEF BoardInv, UrlFollows, address
  <2> QED BY <1>2, <2>2, <2>3 DEF BoardInv
<1>4. CASE FollowLink
  <2>1. /\ nav' \in Tasks \cup {NoTask} /\ crossed' = (crossed \/ (nav # "none" /\ nav' = url)) /\ UNCHANGED <<url, due>>
        /\ UNCHANGED <<bar, keyboard>>
    BY <1>4 DEF FollowLink
  <2>2. changes' \in 0..MaxChanges
    BY <1>4, ChangeIs DEF FollowLink
  <2>3. BoardTypeOK'
    BY <1>1, <2>1, <2>2, InvGives DEF BoardTypeOK, page, keyboard, Groups, Laid, Layouts, ToSet
  <2>4. UrlFollows'
    <3>1. nav' # "none"
      BY <2>1, TasksAssumption
    <3> QED BY <1>1, <2>1, <3>1 DEF BoardInv, UrlFollows
  <2> QED BY <1>2, <2>3, <2>4 DEF BoardInv
<1>5. CASE Arrive
  <2>1. nav # "none" /\ url' = nav /\ nav' = "none" /\ due' = (due \/ url' # url) /\ UNCHANGED <<changes, bar, keyboard, crossed>>
    BY <1>5 DEF Arrive
  <2>2. url' \in Tasks \cup {NoTask} /\ due' \in BOOLEAN
    BY <2>1, InvGives DEF BoardTypeOK
  <2>3. BoardTypeOK'
    BY <1>1, <2>1, <2>2, InvGives DEF BoardTypeOK, page, keyboard, Groups, Laid, Layouts, ToSet
  <2>4. UrlFollows'
    BY <1>1, <2>1 DEF BoardInv, UrlFollows
  <2> QED BY <1>2, <2>3, <2>4 DEF BoardInv
<1> QED BY <1>3, <1>4, <1>5

\* The surface's picker is shut, with or without a change, or the bar's is applied.
LEMMA ShuttingStep ==
  ASSUME BoardInv, ClosePicker \/ ApplyPicker \/ ApplyBarPicker
  PROVE  BoardInv' /\ Stays
<1>1. IsStore(store) /\ HandOver(store) /\ suppressed' \in BOOLEAN
  BY InvGives DEF ClosePicker, ApplyPicker, ApplyBarPicker, Shut
<1>2. UNCHANGED <<surface, lanes, filter, collapsed, address>> /\ palette' = palette
  BY DEF ClosePicker, ApplyPicker, ApplyBarPicker, page
<1>3. data' \in Laid /\ failed' \in BOOLEAN
  BY InvGives, MovedIs, WrittenIs DEF ClosePicker, ApplyPicker, ApplyBarPicker, page
<1>4. picker' \in {picker, {}} /\ bar' \in {bar, "none"}
  BY DEF ClosePicker, ApplyPicker, ApplyBarPicker
<1>5. changes' \in 0..MaxChanges
  BY InvGives, ChangeIs DEF ClosePicker, ApplyPicker, ApplyBarPicker
<1>6. filter' \in Groups \cup {0} /\ collapsed' \subseteq Groups
  BY <1>2, InvGives
<1>7. UNCHANGED <<surface, lanes, address>>
  BY <1>2
<1> QED BY <1>1, <1>2, <1>3, <1>4, <1>5, <1>6, <1>7, PageStep DEF Stays

\* The dialog is opened, closed, or set by the address.
LEMMA AddressStep ==
  ASSUME BoardInv, OpenTask \/ LeaveTask \/ SyncOpen
  PROVE  BoardInv' /\ Stays
<1>1. Settle(store) /\ UNCHANGED <<page, picker, bar, palette, url>>
  BY DEF OpenTask, LeaveTask, SyncOpen, setOpenTaskId
<1>2. HandOver(store) /\ suppressed' \in BOOLEAN
  BY <1>1, InvGives, SettleIs
<1>3. changes' \in 0..MaxChanges
  BY InvGives, ChangeIs DEF OpenTask, LeaveTask, SyncOpen
<1>4. Visible \subseteq Tasks
  <2>1. data.rows \in Seq(Tasks)
    BY InvGives, LaidIs
  <2>2. ToSet(data.rows) \subseteq Tasks
    BY <2>1 DEF ToSet
  <2> QED BY <2>2 DEF Visible, Cards, Rows, Passing
<1>5. Targets \cup ({Focused(store)} \ {NoTask}) \subseteq Tasks
  BY InvGives DEF Targets
<1>6. /\ open' \in Tasks \cup {NoTask} /\ nav' \in Tasks \cup {NoTask, "none"} /\ {due', crossed'} \subseteq BOOLEAN
      /\ UrlFollows'
  <2>1. CASE OpenTask \/ LeaveTask
    <3>1. PICK t \in Tasks \cup {NoTask} : setOpenTaskId(t)
      BY <1>4, <1>5, <2>1 DEF OpenTask, LeaveTask
    <3>2. open' = t /\ nav' = t /\ crossed' = FALSE /\ due' = due /\ t # "none"
      BY <3>1, TasksAssumption DEF setOpenTaskId
    <3> QED BY <3>2, InvGives DEF BoardTypeOK, UrlFollows
  <2>2. CASE SyncOpen
    <3>1. open' = url /\ crossed' = FALSE /\ due' = FALSE /\ UNCHANGED <<url, nav>>
      BY <2>2 DEF SyncOpen
    <3> QED BY <3>1, InvGives DEF BoardTypeOK, UrlFollows
  <2> QED BY <2>1, <2>2
<1>7. /\ lanes' = lanes /\ surface' \in {"board", "table"} /\ data' \in Laid /\ filter' \in Groups \cup {0}
      /\ collapsed' \subseteq Groups /\ picker' \subseteq Tasks /\ bar' \in Kinds \cup {"none"}
      /\ palette' \in BOOLEAN /\ failed' \in BOOLEAN /\ url' \in Tasks \cup {NoTask}
  BY <1>1, InvGives DEF BoardTypeOK, page
<1>8. {failed', palette', suppressed', due', crossed'} \subseteq BOOLEAN /\ {open', url'} \subseteq Tasks \cup {NoTask}
  BY <1>2, <1>6, <1>7
<1> QED BY <1>2, <1>3, <1>6, <1>7, <1>8, InvGives, ShownStep DEF Stays

LEMMA SwitchStep == ASSUME BoardInv, SwitchSurface PROVE BoardInv' /\ Stays
<1>1. IsStore(clearAll(store)) /\ Focused(clearAll(store)) = NoTask /\ HandOver(clearAll(store))
  BY InvGives, ClearAllKeeps DEF SwitchSurface
<1>2. /\ lanes' = lanes /\ surface' \in {"board", "table"} /\ data' \in Laid /\ filter' \in Groups \cup {0}
      /\ collapsed' \subseteq Groups /\ picker' \subseteq Tasks /\ bar' \in Kinds \cup {"none"}
      /\ {failed', palette', suppressed', due', crossed'} \subseteq BOOLEAN /\ {open', url'} \subseteq Tasks \cup {NoTask}
      /\ nav' \in Tasks \cup {NoTask, "none"}
  BY InvGives DEF SwitchSurface, BoardTypeOK
<1>3. changes' \in 0..MaxChanges
  BY ChangeIs DEF SwitchSurface
<1>4. UrlFollows'
  BY DEF SwitchSurface, UrlFollows
<1>5. BoardInv' /\ Focused(store') \in {Focused(clearAll(store)), NoTask}
  BY <1>1, <1>2, <1>3, <1>4, ShownStep
<1> QED BY <1>1, <1>5 DEF Stays

LEMMA BoardStart == BoardInit => BoardInv
<1> SUFFICES ASSUME BoardInit PROVE BoardInv
  OBVIOUS
<1>1. IsStore(EmptyStore)
  <2>1. <<>> \in Seq(Tasks) /\ 0 \in 0..Len(<<>>) /\ {} \subseteq ToSet(<<>>)
    OBVIOUS
  <2>2. IsStore([order |-> <<>>, focus |-> 0, anchor |-> 0, selected |-> {}])
    BY <2>1, StoreOf
  <2> QED BY <2>2 DEF EmptyStore
<1>2. data \in Laid /\ surface \in {"board", "table"} /\ filter = 0 /\ collapsed = {} /\ picker = {} /\ open = url
  BY DEF BoardInit
<1>3. IsStore(store) /\ Synced
  <2>1. Order(surface, data, 0, {}) \in Seq(Tasks)
    BY <1>2, OrderIs
  <2>2. CASE open = NoTask
    <3>1. store = setOrder(EmptyStore, Order(surface, data, 0, {}))
      BY <2>2 DEF BoardInit
    <3> QED BY <1>1, <1>2, <2>1, <3>1, SetOrderKeeps DEF Synced
  <2>3. CASE open # NoTask
    BY <1>1, <2>3 DEF BoardInit, Synced, Enabled
  <2> QED BY <2>2, <2>3
<1>4. BoardTypeOK
  <2>1. lanes \subseteq Groups /\ url \in Tasks \cup {NoTask} /\ nav = "none" /\ bar = "none" /\ changes = 0
    BY DEF BoardInit
  <2>2. failed = FALSE /\ due = FALSE /\ palette = FALSE /\ suppressed = FALSE /\ crossed = FALSE
    BY DEF BoardInit
  <2>3. changes \in 0..MaxChanges
    BY <2>1, ChangesAssumption
  <2>4. {failed, palette, suppressed, due, crossed} \subseteq BOOLEAN
    BY <2>2
  <2> QED BY <1>2, <1>3, <2>1, <2>3, <2>4 DEF BoardTypeOK
<1>5. UrlFollows
  BY DEF BoardInit, UrlFollows
<1> QED BY <1>3, <1>4, <1>5 DEF BoardInv

LEMMA BoardStays ==
  ASSUME BoardInv, [BoardNext]_boardVars
  PROVE  BoardInv' /\ (Stays \/ Keys \/ Click)
<1>1. CASE Keys
  BY <1>1, KeysStep
<1>2. CASE Click
  BY <1>2, ClickStep
<1>3. CASE BoardNext /\ ~Keys /\ ~Click
  BY <1>3, ChangingStep, FailingStep, OpeningStep, QuietStep, ShuttingStep, AddressStep, SwitchStep DEF BoardNext
<1>4. CASE UNCHANGED boardVars
  <2>1. UNCHANGED <<page, address, keyboard, changes, store, picker, bar, surface, data, lanes, filter, collapsed, failed>>
    BY <1>4 DEF boardVars, page, address, keyboard
  <2>2. BoardTypeOK'
    BY <2>1, InvGives DEF BoardTypeOK, keyboard, address, Groups, Laid, Layouts, ToSet
  <2>3. Synced' /\ UrlFollows'
    BY <2>1 DEF BoardInv, Synced, UrlFollows, Enabled, address, Order, BoardOrder, TableOrder
  <2> QED BY <2>1, <2>2, <2>3 DEF BoardInv, Stays
<1> QED BY <1>1, <1>2, <1>3, <1>4

-----------------------------------------------------------------------------
(* The invariant the others follow from, of every state the surface reaches. *)
THEOREM BoardInvariant == BoardSpec => []BoardInv
BY BoardStart, BoardStays, PTL DEF BoardSpec

(* Every variable of the surface has its type: the focus and the anchor are places of the order,
   and what is selected is in it. *)
THEOREM BoardTypeCorrect == BoardSpec => []BoardTypeOK
<1>1. BoardInv => BoardTypeOK
  BY DEF BoardInv
<1> QED BY <1>1, BoardInvariant, PTL

(* While no dialog is open and the last refetch has not failed, what the bulk bar acts on is on the
   screen, or in a lane that a board has folded away. *)
THEOREM SelectedIsAlwaysShown == BoardSpec => []SelectedIsShown
<1>1. BoardInv => SelectedIsShown
  <2> SUFFICES ASSUME BoardInv, Enabled(open, picker, failed) PROVE store.selected \subseteq Visible \cup Hidden
    BY DEF SelectedIsShown
  <2>1. store.selected \subseteq ToSet(store.order) /\ data \in Laid /\ surface \in {"board", "table"}
    BY InvGives DEF IsStore, BoardTypeOK
  <2>2. store.order = Order(surface, data, filter, collapsed)
    BY DEF BoardInv, Synced
  <2>3. CASE surface = "board"
    BY <2>1, <2>2, <2>3, OrderIs DEF Enabled, Visible, Hidden, Cards, Passing
  <2>4. CASE surface = "table"
    BY <2>1, <2>2, <2>4, OrderIs DEF Enabled, Visible, Rows
  <2> QED BY <2>1, <2>3, <2>4
<1> QED BY <1>1, BoardInvariant, PTL

(* Once a navigation has come to its end and its effect has run, the dialog shows the task the
   address names, unless a link led back to the address that was being left (history: crossed). *)
THEOREM UrlAlwaysOwnsOpenTask == BoardSpec => []UrlOwnsOpenTask
<1>1. BoardInv => UrlOwnsOpenTask
  BY DEF BoardInv, UrlFollows, UrlOwnsOpenTask
<1> QED BY <1>1, BoardInvariant, PTL

(* Only a key or a click takes the focus to another task, and changes nothing else that is
   seen. *)
THEOREM FocusAlwaysStaysOnTask == BoardSpec => FocusStaysOnTask
<1>1. Keys => KeysWork /\ UNCHANGED <<page, address, picker, bar, palette>>
  BY DEF Keys, Walk
<1>2. Click => ~Modal /\ UNCHANGED <<page, address, picker, bar, palette>>
  BY DEF Click
<1>3. BoardInv /\ [BoardNext]_boardVars =>
        [Focused(store') \notin {Focused(store), NoTask} =>
           (KeysWork \/ ~Modal) /\ UNCHANGED <<page, address, picker, bar, palette>>]_boardVars
  BY <1>1, <1>2, BoardStays DEF Stays
<1> QED BY <1>3, BoardInvariant, PTL DEF BoardSpec, FocusStaysOnTask

-----------------------------------------------------------------------------
(***************************************************************************)
(* The saved views.  DefaultExists and ActiveViewIsApplied hold one another *)
(* up: a mount applies the default that storage names.  What makes a locked *)
(* view safe is Current: the copy of a tab that is not outdated is what is *)
(* stored, so that the checks of its buttons are checks of the storage.    *)
(***************************************************************************)

Current == \A b \in Browsers \ outdated : copy[b] = stored

\* ActiveViewIsApplied, without the Filter menu.
Marked ==
  \A b \in Browsers :
    active[b] # NoView =>
      active[b] \in Saved(b) /\ copy[b].views[active[b]].config.filter = config[b].filter

ViewsInv == ViewsTypeOK /\ DefaultExists /\ Marked /\ Current

Views == UNION {[V -> SavedView] : V \in SUBSET ViewIds}

\* A state is a record of these two fields.
LEMMA StateFields ==
    \A state \in ViewsState :
        /\ state.views \in Views /\ state.defaultId \in ViewIds \cup {NoView}
        /\ DOMAIN state.views \subseteq ViewIds
        /\ \A v \in DOMAIN state.views : state.views[v] \in SavedView
  BY DEF ViewsState, Views

\* What an operation on the tab's copy does to the type and to the shared variables.
LEMMA WriteKeeps ==
    ASSUME ViewsTypeOK, Current, NEW b \in Browsers, NEW state \in ViewsState, Write(b, state)
    PROVE  /\ stored' \in {state, stored} /\ copy' = [copy EXCEPT ![b] = state]
           /\ copy' \in [Browsers -> ViewsState] /\ copy'[b] = state
           /\ \A c \in Browsers \ {b} : copy'[c] = copy[c]
           /\ outdated' \subseteq Browsers /\ edits' \in 0..MaxEdits
           /\ Current'
  <1> USE DEF ViewsTypeOK, Write
  <1>1. /\ stored' \in {state, stored} /\ copy' = [copy EXCEPT ![b] = state]
        /\ copy' \in [Browsers -> ViewsState] /\ copy'[b] = state
        /\ \A c \in Browsers \ {b} : copy'[c] = copy[c]
    OBVIOUS
  <1>2. outdated' \subseteq Browsers OBVIOUS
  <1>3. edits' \in 0..MaxEdits BY EditsAssumption
  <1>4. Current'
    BY <1>1 DEF Current
  <1> QED BY <1>1, <1>2, <1>3, <1>4

\* What is left to show of an operation: the state it writes is consistent, and the view it
\* leaves active in its own tab is one of that state, with the filters of the tab.
LEMMA WriteStep ==
    ASSUME ViewsInv, NEW b \in Browsers, NEW state \in ViewsState, Write(b, state),
           Consistent(state),
           config' \in [Browsers -> Configs], active' \in [Browsers -> ViewIds \cup {NoView}],
           applied' \in [Browsers -> BOOLEAN], menu' \in [Browsers -> Menus],
           \A c \in Browsers \ {b} : config'[c] = config[c] /\ active'[c] = active[c],
           active'[b] # NoView =>
             /\ active'[b] \in DOMAIN state.views
             /\ state.views[active'[b]].config.filter = config'[b].filter
    PROVE  ViewsInv'
  <1>0. ViewsTypeOK /\ DefaultExists /\ Marked /\ Current BY DEF ViewsInv
  <1>1. /\ stored' \in {state, stored} /\ copy' = [copy EXCEPT ![b] = state]
        /\ copy' \in [Browsers -> ViewsState] /\ copy'[b] = state
        /\ \A c \in Browsers \ {b} : copy'[c] = copy[c]
        /\ outdated' \subseteq Browsers /\ edits' \in 0..MaxEdits
        /\ Current'
    BY <1>0, WriteKeeps
  <1>2. ViewsTypeOK' BY <1>0, <1>1 DEF ViewsTypeOK
  <1>3. DefaultExists' BY <1>0, <1>1 DEF DefaultExists, Consistent
  <1>4. Marked'
    <2> SUFFICES ASSUME NEW c \in Browsers, active'[c] # NoView
                 PROVE  /\ active'[c] \in DOMAIN copy'[c].views
                        /\ copy'[c].views[active'[c]].config.filter = config'[c].filter
      BY DEF Marked, Saved
    <2>1. CASE c = b BY <2>1, <1>1
    <2>2. CASE c # b BY <2>2, <1>0, <1>1 DEF Marked, Saved
    <2> QED BY <2>1, <2>2
  <1> QED BY <1>1, <1>2, <1>3, <1>4 DEF ViewsInv

\* The configuration of a saved view, and what applying the view does to the tab.
LEMMA AppliedShows ==
    ASSUME ViewsTypeOK, NEW b \in Browsers, NEW state \in ViewsState, NEW v \in DOMAIN state.views,
           Applied(b, state, v)
    PROVE  /\ config' \in [Browsers -> Configs] /\ active' \in [Browsers -> ViewIds \cup {NoView}]
           /\ \A c \in Browsers \ {b} : config'[c] = config[c] /\ active'[c] = active[c]
           /\ active'[b] = v /\ config'[b] = state.views[v].config
  <1>1. v \in ViewIds /\ state.views[v] \in SavedView BY StateFields
  <1>2. state.views[v].config \in Configs BY <1>1 DEF SavedView
  <1> QED BY <1>1, <1>2 DEF Applied, ViewsTypeOK

\* A step of one tab that leaves the views alone.
LEMMA LocalStep ==
    ASSUME ViewsInv, NEW b \in Browsers, UNCHANGED <<stored, copy, outdated, edits>>,
           config' \in [Browsers -> Configs], active' \in [Browsers -> ViewIds \cup {NoView}],
           applied' \in [Browsers -> BOOLEAN], menu' \in [Browsers -> Menus],
           \A c \in Browsers \ {b} : config'[c] = config[c] /\ active'[c] = active[c],
           active'[b] # NoView =>
             /\ active'[b] \in DOMAIN copy[b].views
             /\ copy[b].views[active'[b]].config.filter = config'[b].filter
    PROVE  ViewsInv'
  <1>1. ViewsTypeOK' BY DEF ViewsInv, ViewsTypeOK
  <1>2. DefaultExists' /\ Current' BY DEF ViewsInv, DefaultExists, Consistent, Current
  <1>3. Marked'
    <2> SUFFICES ASSUME NEW c \in Browsers, active'[c] # NoView
                 PROVE  /\ active'[c] \in DOMAIN copy'[c].views
                        /\ copy'[c].views[active'[c]].config.filter = config'[c].filter
      BY DEF Marked, Saved
    <2>1. CASE c = b BY <2>1
    <2>2. CASE c # b BY <2>2 DEF ViewsInv, Marked, Saved
    <2> QED BY <2>1, <2>2
  <1> QED BY <1>1, <1>2, <1>3 DEF ViewsInv

LEMMA StateOf ==
    ASSUME NEW V \in SUBSET ViewIds, NEW f \in [V -> SavedView], NEW d \in ViewIds \cup {NoView}
    PROVE  /\ [views |-> f, defaultId |-> d] \in ViewsState
           /\ DOMAIN [views |-> f, defaultId |-> d].views = V
  BY DEF ViewsState

-----------------------------------------------------------------------------
(***************************************************************************)
(* One lemma per operation that writes.                                    *)
(***************************************************************************)

LEMMA SaveStep == ASSUME ViewsInv, NEW b \in Browsers, saveView(b) PROVE ViewsInv'
  <1>0. ViewsTypeOK /\ DefaultExists BY DEF ViewsInv
  <1> DEFINE view == [config |-> config[b], locked |-> FALSE]
             state(v) == [views |-> [w \in Saved(b) \cup {v} |-> IF w = v THEN view ELSE copy[b].views[w]],
                          defaultId |-> copy[b].defaultId]
  <1>1. PICK v \in ViewIds \ (DOMAIN stored.views \cup UNION {Saved(c) : c \in Browsers}) :
          Write(b, state(v)) /\ Applied(b, state(v), v) /\ UNCHANGED <<menu, applied>>
    BY DEF saveView
  <1>2. copy[b] \in ViewsState /\ config[b] \in Configs BY <1>0 DEF ViewsTypeOK
  <1>3. view \in SavedView BY <1>2 DEF SavedView
  <1>4. Saved(b) \cup {v} \in SUBSET ViewIds BY <1>2, StateFields DEF Saved
  <1>5. \A w \in Saved(b) : copy[b].views[w] \in SavedView BY <1>2, StateFields DEF Saved
  <1>6. [w \in Saved(b) \cup {v} |-> IF w = v THEN view ELSE copy[b].views[w]] \in [Saved(b) \cup {v} -> SavedView]
    BY <1>3, <1>5
  <1>7. copy[b].defaultId \in ViewIds \cup {NoView} BY <1>2, StateFields
  <1>8. state(v) \in ViewsState /\ DOMAIN state(v).views = Saved(b) \cup {v}
    BY <1>4, <1>6, <1>7, StateOf
  <1>9. Consistent(state(v))
    <2>1. state(v).defaultId = copy[b].defaultId OBVIOUS
    <2> QED BY <1>0, <1>8, <2>1 DEF DefaultExists, Consistent, Saved
  <1>10. v \in DOMAIN state(v).views BY <1>8
  <1> HIDE DEF state
  <1>11. /\ config' \in [Browsers -> Configs] /\ active' \in [Browsers -> ViewIds \cup {NoView}]
         /\ \A c \in Browsers \ {b} : config'[c] = config[c] /\ active'[c] = active[c]
         /\ active'[b] = v /\ config'[b] = state(v).views[v].config
    BY <1>0, <1>1, <1>8, <1>10, AppliedShows
  <1>12. applied' \in [Browsers -> BOOLEAN] /\ menu' \in [Browsers -> Menus] BY <1>0, <1>1 DEF ViewsTypeOK
  <1> QED BY <1>1, <1>8, <1>9, <1>10, <1>11, <1>12, WriteStep

\* A view of a state is changed; the others and the default are as they were.
LEMMA ChangedView ==
    ASSUME NEW s \in ViewsState, NEW v \in DOMAIN s.views, NEW view \in SavedView
    PROVE  /\ Changed(s, v, view) \in ViewsState
           /\ Changed(s, v, view).defaultId = s.defaultId
           /\ DOMAIN Changed(s, v, view).views = DOMAIN s.views
           /\ Changed(s, v, view).views[v] = view
           /\ \A w \in DOMAIN s.views \ {v} : Changed(s, v, view).views[w] = s.views[w]
  <1> DEFINE f == [s.views EXCEPT ![v] = view]
  <1>1. PICK V \in SUBSET ViewIds : s.views \in [V -> SavedView] BY DEF ViewsState
  <1>2. /\ f \in [V -> SavedView] /\ f[v] = view
        /\ \A w \in DOMAIN s.views \ {v} : f[w] = s.views[w]
    BY <1>1
  <1>3. s.defaultId \in ViewIds \cup {NoView} BY StateFields
  <1> HIDE DEF f
  <1>4. [s EXCEPT !.views = f] = [views |-> f, defaultId |-> s.defaultId]
    BY DEF ViewsState
  <1>5. Changed(s, v, view) = [views |-> f, defaultId |-> s.defaultId]
    BY <1>4 DEF Changed, f
  <1>6. [views |-> f, defaultId |-> s.defaultId] \in ViewsState
    BY <1>2, <1>3, StateOf
  <1> QED BY <1>1, <1>2, <1>5, <1>6

LEMMA UpdateStep == ASSUME ViewsInv, NEW b \in Browsers, updateView(b) PROVE ViewsInv'
  <1>0. ViewsTypeOK /\ DefaultExists /\ Marked BY DEF ViewsInv
  <1> DEFINE v == active[b]
             view == [copy[b].views[v] EXCEPT !.config = config[b]]
             state == Changed(copy[b], v, view)
  <1>1. v # NoView /\ Write(b, state) /\ UNCHANGED <<config, menu, active, applied>>
    BY DEF updateView
  <1>2. copy[b] \in ViewsState /\ config[b] \in Configs BY <1>0 DEF ViewsTypeOK
  <1>3. v \in DOMAIN copy[b].views BY <1>0, <1>1 DEF Marked, Saved
  <1>4. copy[b].views[v] \in SavedView BY <1>2, <1>3, StateFields
  <1>5. view \in SavedView /\ view.config = config[b] BY <1>2, <1>4 DEF SavedView
  <1> HIDE DEF view, v
  <1>6. /\ state \in ViewsState /\ state.defaultId = copy[b].defaultId
        /\ DOMAIN state.views = DOMAIN copy[b].views /\ state.views[v] = view
    BY <1>2, <1>3, <1>5, ChangedView
  <1> HIDE DEF state
  <1>7. Consistent(state) BY <1>0, <1>6 DEF DefaultExists, Consistent
  <1>8. /\ config' \in [Browsers -> Configs] /\ active' \in [Browsers -> ViewIds \cup {NoView}]
        /\ applied' \in [Browsers -> BOOLEAN] /\ menu' \in [Browsers -> Menus]
        /\ \A c \in Browsers \ {b} : config'[c] = config[c] /\ active'[c] = active[c]
        /\ active'[b] = v /\ config'[b] = config[b]
    BY <1>0, <1>1 DEF ViewsTypeOK, v
  <1> QED BY <1>1, <1>3, <1>5, <1>6, <1>7, <1>8, WriteStep

LEMMA RenameStep == ASSUME ViewsInv, NEW b \in Browsers, renameView(b) PROVE ViewsInv'
  <1>0. ViewsTypeOK /\ DefaultExists /\ Marked BY DEF ViewsInv
  <1>1. copy[b] \in ViewsState /\ Consistent(copy[b]) BY <1>0 DEF ViewsTypeOK, DefaultExists
  <1>2. Write(b, copy[b]) /\ UNCHANGED <<config, menu, active, applied>> BY DEF renameView
  <1>3. /\ config' \in [Browsers -> Configs] /\ active' \in [Browsers -> ViewIds \cup {NoView}]
        /\ applied' \in [Browsers -> BOOLEAN] /\ menu' \in [Browsers -> Menus]
        /\ \A c \in Browsers \ {b} : config'[c] = config[c] /\ active'[c] = active[c]
        /\ active'[b] = active[b] /\ config'[b] = config[b]
    BY <1>0, <1>2 DEF ViewsTypeOK
  <1>4. active[b] # NoView => /\ active[b] \in DOMAIN copy[b].views
                              /\ copy[b].views[active[b]].config.filter = config[b].filter
    BY <1>0 DEF Marked, Saved
  <1> QED BY <1>1, <1>2, <1>3, <1>4, WriteStep

LEMMA DeleteStep == ASSUME ViewsInv, NEW b \in Browsers, deleteView(b) PROVE ViewsInv'
  <1>0. ViewsTypeOK /\ DefaultExists /\ Marked BY DEF ViewsInv
  <1> DEFINE f(v) == [w \in Saved(b) \ {v} |-> copy[b].views[w]]
             d(v) == IF copy[b].defaultId = v THEN NoView ELSE copy[b].defaultId
             state(v) == [views |-> f(v), defaultId |-> d(v)]
  <1>1. PICK v \in Saved(b) :
          /\ Write(b, state(v)) /\ UNCHANGED <<config, menu, applied>>
          /\ active' = IF active[b] = v THEN [active EXCEPT ![b] = NoView] ELSE active
    BY DEF deleteView
  <1>2. copy[b] \in ViewsState /\ Consistent(copy[b]) BY <1>0 DEF ViewsTypeOK, DefaultExists
  <1>3. Saved(b) \ {v} \in SUBSET ViewIds BY <1>2, StateFields DEF Saved
  <1>4. \A w \in Saved(b) : copy[b].views[w] \in SavedView BY <1>2, StateFields DEF Saved
  <1>5. f(v) \in [Saved(b) \ {v} -> SavedView] BY <1>4
  <1>6. d(v) \in ViewIds \cup {NoView} BY <1>2, StateFields
  <1>7. state(v) \in ViewsState /\ DOMAIN state(v).views = Saved(b) \ {v} BY <1>3, <1>5, <1>6, StateOf
  <1>8. Consistent(state(v))
    <2>1. state(v).defaultId = d(v) OBVIOUS
    <2> QED BY <1>2, <1>7, <2>1 DEF Consistent, Saved
  <1>9. \A w \in Saved(b) \ {v} : state(v).views[w] = copy[b].views[w] OBVIOUS
  <1>10. /\ config' \in [Browsers -> Configs] /\ active' \in [Browsers -> ViewIds \cup {NoView}]
         /\ applied' \in [Browsers -> BOOLEAN] /\ menu' \in [Browsers -> Menus]
         /\ \A c \in Browsers \ {b} : config'[c] = config[c] /\ active'[c] = active[c]
         /\ active'[b] = (IF active[b] = v THEN NoView ELSE active[b]) /\ config'[b] = config[b]
    BY <1>0, <1>1 DEF ViewsTypeOK
  <1>11. active'[b] # NoView => /\ active'[b] \in Saved(b) \ {v}
                                /\ copy[b].views[active'[b]].config.filter = config'[b].filter
    BY <1>0, <1>10 DEF Marked
  <1> HIDE DEF state, f, d
  <1> QED BY <1>1, <1>7, <1>8, <1>9, <1>10, <1>11, WriteStep

LEMMA DefaultStep == ASSUME ViewsInv, NEW b \in Browsers, setDefault(b) PROVE ViewsInv'
  <1>0. ViewsTypeOK /\ DefaultExists /\ Marked BY DEF ViewsInv
  <1> DEFINE id(v) == IF copy[b].defaultId = v THEN NoView ELSE v
             state(v) == [copy[b] EXCEPT !.defaultId = id(v)]
  <1>1. PICK v \in Saved(b) :
          /\ Write(b, state(v)) /\ UNCHANGED menu
          /\ IF id(v) # NoView /\ ~applied[b]
             THEN Applied(b, copy[b], v) /\ applied' = [applied EXCEPT ![b] = TRUE]
             ELSE UNCHANGED <<config, menu, active, applied>>
    BY DEF setDefault
  <1>2. copy[b] \in ViewsState BY <1>0 DEF ViewsTypeOK
  <1>3. v \in ViewIds BY <1>2, StateFields DEF Saved
  <1>4. state(v) \in ViewsState /\ state(v).views = copy[b].views /\ state(v).defaultId = id(v)
    BY <1>2, <1>3 DEF ViewsState
  <1>5. Consistent(state(v)) BY <1>4 DEF Consistent, Saved
  <1> HIDE DEF state
  <1>6. CASE id(v) # NoView /\ ~applied[b]
    <2>1. Applied(b, copy[b], v) /\ applied' = [applied EXCEPT ![b] = TRUE] BY <1>1, <1>6
    <2>2. /\ config' \in [Browsers -> Configs] /\ active' \in [Browsers -> ViewIds \cup {NoView}]
          /\ \A c \in Browsers \ {b} : config'[c] = config[c] /\ active'[c] = active[c]
          /\ active'[b] = v /\ config'[b] = copy[b].views[v].config
      BY <1>0, <1>2, <2>1, AppliedShows DEF Saved
    <2>3. applied' \in [Browsers -> BOOLEAN] /\ menu' \in [Browsers -> Menus] BY <1>0, <1>1, <2>1 DEF ViewsTypeOK
    <2> QED BY <1>1, <1>4, <1>5, <2>2, <2>3, WriteStep DEF Saved
  <1>7. CASE ~(id(v) # NoView /\ ~applied[b])
    <2>1. UNCHANGED <<config, active, applied>> BY <1>1, <1>7
    <2>2. /\ config' \in [Browsers -> Configs] /\ active' \in [Browsers -> ViewIds \cup {NoView}]
          /\ applied' \in [Browsers -> BOOLEAN] /\ menu' \in [Browsers -> Menus]
          /\ \A c \in Browsers \ {b} : config'[c] = config[c] /\ active'[c] = active[c]
          /\ active'[b] = active[b] /\ config'[b] = config[b]
      BY <1>0, <1>1, <2>1 DEF ViewsTypeOK
    <2>3. active[b] # NoView => /\ active[b] \in DOMAIN copy[b].views
                                /\ copy[b].views[active[b]].config.filter = config[b].filter
      BY <1>0 DEF Marked, Saved
    <2> QED BY <1>1, <1>4, <1>5, <2>2, <2>3, WriteStep
  <1> QED BY <1>6, <1>7

LEMMA LockStep == ASSUME ViewsInv, NEW b \in Browsers, toggleLock(b) PROVE ViewsInv'
  <1>0. ViewsTypeOK /\ DefaultExists /\ Marked BY DEF ViewsInv
  <1> DEFINE view(v) == [copy[b].views[v] EXCEPT !.locked = ~@]
             state(v) == Changed(copy[b], v, view(v))
  <1>1. PICK v \in Saved(b) : Write(b, state(v)) /\ UNCHANGED <<config, menu, active, applied>>
    BY DEF toggleLock
  <1>2. copy[b] \in ViewsState /\ Consistent(copy[b]) BY <1>0 DEF ViewsTypeOK, DefaultExists
  <1>3. v \in DOMAIN copy[b].views /\ copy[b].views[v] \in SavedView BY <1>2, StateFields DEF Saved
  <1>4. view(v) \in SavedView /\ view(v).config = copy[b].views[v].config
    <2>1. CASE copy[b].views[v].locked
      <3>1. view(v) = [copy[b].views[v] EXCEPT !.locked = FALSE] BY <2>1
      <3> QED BY <1>3, <3>1 DEF SavedView
    <2>2. CASE ~copy[b].views[v].locked
      <3>1. view(v) = [copy[b].views[v] EXCEPT !.locked = TRUE] BY <2>2
      <3> QED BY <1>3, <3>1 DEF SavedView
    <2> QED BY <2>1, <2>2
  <1> HIDE DEF view
  <1>5. /\ state(v) \in ViewsState /\ state(v).defaultId = copy[b].defaultId
        /\ DOMAIN state(v).views = DOMAIN copy[b].views /\ state(v).views[v] = view(v)
        /\ \A w \in DOMAIN copy[b].views \ {v} : state(v).views[w] = copy[b].views[w]
    BY <1>2, <1>3, <1>4, ChangedView
  <1> HIDE DEF state
  <1>6. Consistent(state(v)) BY <1>2, <1>5 DEF Consistent
  <1>7. /\ config' \in [Browsers -> Configs] /\ active' \in [Browsers -> ViewIds \cup {NoView}]
        /\ applied' \in [Browsers -> BOOLEAN] /\ menu' \in [Browsers -> Menus]
        /\ \A c \in Browsers \ {b} : config'[c] = config[c] /\ active'[c] = active[c]
        /\ active'[b] = active[b] /\ config'[b] = config[b]
    BY <1>0, <1>1 DEF ViewsTypeOK
  <1>8. active[b] # NoView => /\ active[b] \in DOMAIN state(v).views
                              /\ state(v).views[active[b]].config.filter = config[b].filter
    BY <1>0, <1>4, <1>5 DEF Marked, Saved
  <1> QED BY <1>1, <1>5, <1>6, <1>7, <1>8, WriteStep

-----------------------------------------------------------------------------
(***************************************************************************)
(* The steps that do not write.                                            *)
(***************************************************************************)

LEMMA NothingStored == Empty \in ViewsState /\ Empty.defaultId = NoView
  <1>1. [v \in {} |-> <<>>] \in [{} -> SavedView] OBVIOUS
  <1>2. {} \in SUBSET ViewIds OBVIOUS
  <1> QED BY <1>1, <1>2 DEF Empty, ViewsState

\* A surface that mounts takes what it finds, and applies the default of that.
LEMMA MountStep == ASSUME ViewsInv, NEW b \in Browsers, Mount(b) PROVE ViewsInv'
  <1>0. ViewsTypeOK /\ DefaultExists /\ Marked /\ Current BY DEF ViewsInv
  <1>a. PICK found \in {stored, Empty} :
          /\ copy' = [copy EXCEPT ![b] = found]
          /\ outdated' = IF found = stored THEN outdated \ {b} ELSE outdated \cup {b}
          /\ applied' = [applied EXCEPT ![b] = found.defaultId # NoView]
          /\ \E d \in Densities :
               IF found.defaultId # NoView THEN Applied(b, found, found.defaultId)
               ELSE /\ config' = [config EXCEPT ![b] = [filter |-> Plain, density |-> d]]
                    /\ active' = [active EXCEPT ![b] = NoView]
    BY DEF Mount
  <1>b. menu' = [menu EXCEPT ![b] = NoMenu] /\ UNCHANGED <<stored, edits>>
    BY DEF Mount
  <1>c. found \in ViewsState /\ Consistent(found)
    BY <1>0, NothingStored DEF ViewsTypeOK, DefaultExists, Consistent
  <1>1. /\ copy' \in [Browsers -> ViewsState] /\ copy'[b] = found
        /\ \A c \in Browsers \ {b} : copy'[c] = copy[c]
        /\ outdated' \subseteq Browsers
        /\ applied' \in [Browsers -> BOOLEAN] /\ menu' \in [Browsers -> Menus]
    BY <1>0, <1>a, <1>b, <1>c, MenuAssumption DEF ViewsTypeOK
  <1>2. /\ config' \in [Browsers -> Configs] /\ active' \in [Browsers -> ViewIds \cup {NoView}]
        /\ \A c \in Browsers \ {b} : config'[c] = config[c] /\ active'[c] = active[c]
        /\ active'[b] # NoView => /\ active'[b] \in DOMAIN found.views
                                  /\ found.views[active'[b]].config = config'[b]
    <2>1. CASE found.defaultId # NoView
      <3>1. found.defaultId \in DOMAIN found.views BY <1>c, <2>1 DEF Consistent
      <3>2. Applied(b, found, found.defaultId) BY <1>a, <2>1
      <3> QED BY <1>0, <1>c, <3>1, <3>2, AppliedShows
    <2>2. CASE found.defaultId = NoView
      <3>1. PICK d \in Densities : /\ config' = [config EXCEPT ![b] = [filter |-> Plain, density |-> d]]
                                   /\ active' = [active EXCEPT ![b] = NoView]
        BY <1>a, <2>2
      <3>2. [filter |-> Plain, density |-> d] \in Configs BY PlainAssumption DEF Configs
      <3> QED BY <1>0, <3>1, <3>2 DEF ViewsTypeOK
    <2> QED BY <2>1, <2>2
  <1>3. ViewsTypeOK' BY <1>0, <1>b, <1>1, <1>2 DEF ViewsTypeOK
  <1>4. DefaultExists' BY <1>0, <1>b, <1>c, <1>1 DEF DefaultExists, Consistent
  <1>5. Current' BY <1>0, <1>a, <1>b, <1>1 DEF Current
  <1>6. Marked'
    <2> SUFFICES ASSUME NEW c \in Browsers, active'[c] # NoView
                 PROVE  /\ active'[c] \in DOMAIN copy'[c].views
                        /\ copy'[c].views[active'[c]].config.filter = config'[c].filter
      BY DEF Marked, Saved
    <2>1. CASE c = b BY <2>1, <1>1, <1>2
    <2>2. CASE c # b BY <2>2, <1>0, <1>1, <1>2 DEF Marked, Saved
    <2> QED BY <2>1, <2>2
  <1> QED BY <1>3, <1>4, <1>5, <1>6 DEF ViewsInv

LEMMA ApplyStep == ASSUME ViewsInv, NEW b \in Browsers, Apply(b) PROVE ViewsInv'
  <1>0. ViewsTypeOK BY DEF ViewsInv
  <1>1. PICK v \in Saved(b) : Applied(b, copy[b], v) BY DEF Apply
  <1>2. UNCHANGED <<stored, copy, menu, applied, outdated, edits>> BY DEF Apply
  <1>3. copy[b] \in ViewsState /\ applied' \in [Browsers -> BOOLEAN] /\ menu' \in [Browsers -> Menus] BY <1>0, <1>2 DEF ViewsTypeOK
  <1>4. /\ config' \in [Browsers -> Configs] /\ active' \in [Browsers -> ViewIds \cup {NoView}]
        /\ \A c \in Browsers \ {b} : config'[c] = config[c] /\ active'[c] = active[c]
        /\ active'[b] = v /\ config'[b] = copy[b].views[v].config
    BY <1>0, <1>1, <1>3, AppliedShows DEF Saved
  <1> QED BY <1>1, <1>2, <1>3, <1>4, LocalStep DEF Saved

\* The filters, the row height and the active view of a tab change.
LEMMA ControlStep ==
    ASSUME ViewsInv, NEW b \in Browsers, changeFilter(b) \/ toggleMenu(b) \/ changeDensity(b) \/ clearActive(b)
    PROVE  ViewsInv'
  <1>0. ViewsTypeOK /\ Marked BY DEF ViewsInv
  <1>1. config[b] \in Configs BY <1>0 DEF ViewsTypeOK
  <1>2. CASE changeFilter(b)
    <2>1. PICK f \in Filters : config' = [config EXCEPT ![b].filter = f] BY <1>2 DEF changeFilter
    <2>2. /\ config' \in [Browsers -> Configs]
          /\ \A c \in Browsers \ {b} : config'[c] = config[c]
      BY <1>0, <1>1, <2>1 DEF ViewsTypeOK, Configs
    <2>3. /\ active' \in [Browsers -> ViewIds \cup {NoView}] /\ active'[b] = NoView
          /\ \A c \in Browsers \ {b} : active'[c] = active[c]
          /\ applied' \in [Browsers -> BOOLEAN] /\ menu' \in [Browsers -> Menus] /\ UNCHANGED <<stored, copy, outdated, edits>>
      BY <1>0, <1>2 DEF changeFilter, ViewsTypeOK
    <2> QED BY <2>2, <2>3, LocalStep
  <1>3. CASE changeDensity(b)
    <2>1. PICK d \in Densities : config' = [config EXCEPT ![b].density = d] BY <1>3 DEF changeDensity
    <2>2. /\ config' \in [Browsers -> Configs] /\ config'[b].filter = config[b].filter
          /\ \A c \in Browsers \ {b} : config'[c] = config[c]
      BY <1>0, <1>1, <2>1 DEF ViewsTypeOK, Configs
    <2>3. /\ active' = active /\ active' \in [Browsers -> ViewIds \cup {NoView}]
          /\ applied' \in [Browsers -> BOOLEAN] /\ menu' \in [Browsers -> Menus] /\ UNCHANGED <<stored, copy, outdated, edits>>
      BY <1>0, <1>3 DEF changeDensity, ViewsTypeOK
    <2>4. active[b] # NoView => /\ active[b] \in DOMAIN copy[b].views
                                /\ copy[b].views[active[b]].config.filter = config[b].filter
      BY <1>0 DEF Marked, Saved
    <2> QED BY <2>2, <2>3, <2>4, LocalStep
  <1>4. CASE clearActive(b)
    BY <1>0, <1>4, LocalStep DEF clearActive, ViewsTypeOK
  <1>5. CASE toggleMenu(b)
    <2>1. menu' \in [Browsers -> Menus] BY <1>0, <1>5 DEF toggleMenu, ViewsTypeOK
    <2>2. UNCHANGED <<stored, copy, config, active, applied, outdated, edits>> BY <1>5 DEF toggleMenu
    <2> QED BY <1>0, <2>1, <2>2, LocalStep DEF ViewsTypeOK, Marked, Saved
  <1> QED BY <1>2, <1>3, <1>4, <1>5

-----------------------------------------------------------------------------
LEMMA ViewsInitially == ViewsInit => ViewsInv
  <1> SUFFICES ASSUME ViewsInit PROVE ViewsInv OBVIOUS
  <1>2. ViewsTypeOK BY NothingStored, EditsAssumption, MenuAssumption DEF ViewsInit, ViewsTypeOK
  <1>3. DefaultExists BY NothingStored DEF ViewsInit, DefaultExists, Consistent
  <1>4. Marked BY DEF ViewsInit, Marked
  <1>5. Current BY DEF ViewsInit, Current
  <1> QED BY <1>2, <1>3, <1>4, <1>5 DEF ViewsInv

LEMMA ViewsStep == ViewsInv /\ [ViewsNext]_viewVars => ViewsInv'
  <1> SUFFICES ASSUME ViewsInv, [ViewsNext]_viewVars PROVE ViewsInv' OBVIOUS
  <1>1. CASE ViewsNext
    <2>1. PICK b \in Browsers :
            \/ Mount(b) \/ saveView(b) \/ Apply(b) \/ changeFilter(b) \/ toggleMenu(b) \/ changeDensity(b)
            \/ clearActive(b) \/ updateView(b) \/ renameView(b) \/ deleteView(b) \/ setDefault(b) \/ toggleLock(b)
      BY <1>1 DEF ViewsNext
    <2> QED
      BY <2>1, MountStep, SaveStep, ApplyStep, ControlStep, UpdateStep, RenameStep, DeleteStep,
         DefaultStep, LockStep
  <1>2. CASE UNCHANGED viewVars
    BY <1>2 DEF viewVars, ViewsInv, ViewsTypeOK, DefaultExists, Consistent, Marked, Saved, Current
  <1> QED BY <1>1, <1>2

LEMMA ViewsInvariant == ViewsSpec => []ViewsInv
  BY ViewsInitially, ViewsStep, PTL DEF ViewsSpec

\* Every variable of the saved views keeps its type.
THEOREM ViewsTypes == ViewsSpec => []ViewsTypeOK
  <1>1. ViewsInv => ViewsTypeOK BY DEF ViewsInv
  <1> QED BY <1>1, ViewsInvariant, PTL

\* However many tabs write their copies over one another, the default view exists in
\* storage and in every tab (task-views.ts).
THEOREM DefaultAlwaysExists == ViewsSpec => []DefaultExists
  <1>1. ViewsInv => DefaultExists BY DEF ViewsInv
  <1> QED BY <1>1, ViewsInvariant, PTL

\* A view is marked as active only while its filters are the ones of the tab; those of the Filter
\* menu come on top.
THEOREM ActiveIsAlwaysApplied == ViewsSpec => []ActiveViewIsApplied
  <1>1. ViewsInv => ActiveViewIsApplied
    <2> SUFFICES ASSUME ViewsInv, NEW b \in Browsers, active[b] # NoView
                 PROVE  /\ active[b] \in Saved(b)
                        /\ Passed(b) \in [inline: {copy[b].views[active[b]].config.filter}, menu: Menus]
      BY DEF ActiveViewIsApplied
    <2>1. menu[b] \in Menus BY DEF ViewsInv, ViewsTypeOK
    <2> QED BY <2>1 DEF ViewsInv, Marked, Passed
  <1> QED BY <1>1, ViewsInvariant, PTL

-----------------------------------------------------------------------------
\* What a write leaves of a locked view, if no outdated tab is the writer.
Kept(v) == v \in DOMAIN stored'.views /\ stored'.views[v].config = stored.views[v].config

\* A tab that writes and was not outdated has checked what is stored.
LEMMA WriterIsCurrent ==
    ASSUME ViewsInv, NEW b \in Browsers, NEW state, Write(b, state), outdated \subseteq outdated'
    PROVE  stored' = stored \/ (copy[b] = stored /\ stored' = state)
  <1>1. CASE stored' = state /\ outdated' = (IF state = stored THEN outdated ELSE Browsers) \ {b}
    <2>1. b \notin outdated' BY <1>1
    <2>2. b \in Browsers \ outdated BY <2>1
    <2> QED BY <1>1, <2>2 DEF ViewsInv, Current
  <1>2. CASE stored' = stored BY <1>2
  <1> QED BY <1>1, <1>2 DEF Write

LEMMA LockHolds ==
    ASSUME ViewsInv, ViewsNext, outdated \subseteq outdated',
           NEW v \in DOMAIN stored.views, stored.views[v].locked
    PROVE  Kept(v)
  <1>0. ViewsTypeOK /\ Marked BY DEF ViewsInv
  <1>1. PICK b \in Browsers :
          \/ Mount(b) \/ saveView(b) \/ Apply(b) \/ changeFilter(b) \/ toggleMenu(b) \/ changeDensity(b)
          \/ clearActive(b) \/ updateView(b) \/ renameView(b) \/ deleteView(b) \/ setDefault(b) \/ toggleLock(b)
    BY DEF ViewsNext
  <1>2. stored \in ViewsState BY <1>0 DEF ViewsTypeOK
  <1>3. CASE Mount(b) \/ Apply(b) \/ changeFilter(b) \/ toggleMenu(b) \/ changeDensity(b) \/ clearActive(b)
    BY <1>3 DEF Mount, Apply, changeFilter, toggleMenu, changeDensity, clearActive, Kept
  <1>4. CASE saveView(b)
    <2> DEFINE view == [config |-> config[b], locked |-> FALSE]
               state(w) == [views |-> [x \in Saved(b) \cup {w} |-> IF x = w THEN view ELSE copy[b].views[x]],
                            defaultId |-> copy[b].defaultId]
    <2>1. PICK w \in ViewIds \ (DOMAIN stored.views \cup UNION {Saved(c) : c \in Browsers}) : Write(b, state(w))
      BY <1>4 DEF saveView
    <2>2. w # v OBVIOUS
    <2> HIDE DEF view
    <2>3. v \in Saved(b) => /\ v \in DOMAIN state(w).views
                            /\ state(w).views[v] = copy[b].views[v]
      BY <2>2
    <2> HIDE DEF state
    <2>4. stored' = stored \/ (copy[b] = stored /\ stored' = state(w)) BY <2>1, WriterIsCurrent
    <2> QED BY <2>3, <2>4 DEF Saved, Kept
  <1>5. CASE updateView(b)
    <2> DEFINE a == active[b]
               view == [copy[b].views[a] EXCEPT !.config = config[b]]
               state == Changed(copy[b], a, view)
    <2>1. a # NoView /\ ~copy[b].views[a].locked /\ Write(b, state) BY <1>5 DEF updateView
    <2>2. config[b] \in Configs /\ copy[b] \in ViewsState BY <1>0 DEF ViewsTypeOK
    <2>3. a \in DOMAIN copy[b].views BY <1>0, <2>1 DEF Marked, Saved
    <2>4. view \in SavedView BY <2>2, <2>3, StateFields DEF SavedView
    <2> HIDE DEF view, a
    <2>5. /\ DOMAIN state.views = DOMAIN copy[b].views
          /\ \A w \in DOMAIN copy[b].views \ {a} : state.views[w] = copy[b].views[w]
      BY <2>2, <2>3, <2>4, ChangedView
    <2> HIDE DEF state
    <2>6. stored' = stored \/ (copy[b] = stored /\ stored' = state) BY <2>1, WriterIsCurrent
    <2> QED BY <2>1, <2>5, <2>6 DEF Kept
  <1>6. CASE renameView(b)
    <2>1. Write(b, copy[b]) BY <1>6 DEF renameView
    <2>2. stored' = stored BY <2>1, WriterIsCurrent
    <2> QED BY <2>2 DEF Kept
  <1>7. CASE deleteView(b)
    <2> DEFINE state(w) == [views |-> [x \in Saved(b) \ {w} |-> copy[b].views[x]],
                            defaultId |-> IF copy[b].defaultId = w THEN NoView ELSE copy[b].defaultId]
    <2>1. PICK w \in Saved(b) : ~copy[b].views[w].locked /\ Write(b, state(w)) BY <1>7 DEF deleteView
    <2>2. v \in Saved(b) \ {w} => /\ v \in DOMAIN state(w).views
                                  /\ state(w).views[v] = copy[b].views[v]
      OBVIOUS
    <2> HIDE DEF state
    <2>3. stored' = stored \/ (copy[b] = stored /\ stored' = state(w)) BY <2>1, WriterIsCurrent
    <2> QED BY <2>1, <2>2, <2>3 DEF Saved, Kept
  <1>8. CASE setDefault(b)
    <2> DEFINE state(w) == [copy[b] EXCEPT !.defaultId = IF copy[b].defaultId = w THEN NoView ELSE w]
    <2>1. PICK w \in Saved(b) : Write(b, state(w)) BY <1>8 DEF setDefault
    <2>2. copy[b] \in ViewsState BY <1>0 DEF ViewsTypeOK
    <2>3. state(w).views = copy[b].views BY <2>2 DEF ViewsState
    <2> HIDE DEF state
    <2>4. stored' = stored \/ (copy[b] = stored /\ stored' = state(w)) BY <2>1, WriterIsCurrent
    <2> QED BY <2>3, <2>4 DEF Kept
  <1>9. CASE toggleLock(b)
    <2> DEFINE view(w) == [copy[b].views[w] EXCEPT !.locked = ~@]
               state(w) == Changed(copy[b], w, view(w))
    <2>1. PICK w \in Saved(b) : Write(b, state(w)) BY <1>9 DEF toggleLock
    <2>2. copy[b] \in ViewsState BY <1>0 DEF ViewsTypeOK
    <2>3. w \in DOMAIN copy[b].views /\ copy[b].views[w] \in SavedView BY <2>2, StateFields DEF Saved
    <2>4. view(w) \in SavedView /\ view(w).config = copy[b].views[w].config
      <3>1. CASE copy[b].views[w].locked
        <4>1. view(w) = [copy[b].views[w] EXCEPT !.locked = FALSE] BY <3>1
        <4> QED BY <2>3, <4>1 DEF SavedView
      <3>2. CASE ~copy[b].views[w].locked
        <4>1. view(w) = [copy[b].views[w] EXCEPT !.locked = TRUE] BY <3>2
        <4> QED BY <2>3, <4>1 DEF SavedView
      <3> QED BY <3>1, <3>2
    <2> HIDE DEF view
    <2>5. /\ DOMAIN state(w).views = DOMAIN copy[b].views /\ state(w).views[w] = view(w)
          /\ \A x \in DOMAIN copy[b].views \ {w} : state(w).views[x] = copy[b].views[x]
      BY <2>2, <2>3, <2>4, ChangedView
    <2> HIDE DEF state
    <2>6. stored' = stored \/ (copy[b] = stored /\ stored' = state(w)) BY <2>1, WriterIsCurrent
    <2> QED BY <2>4, <2>5, <2>6 DEF Kept
  <1> QED BY <1>1, <1>3, <1>4, <1>5, <1>6, <1>7, <1>8, <1>9

\* A locked view stays as it is, as long as no tab writes an outdated copy.
THEOREM LockedViewsAlwaysStay == ViewsSpec => LockedViewsStay
  <1>1. ViewsInv /\ [ViewsNext]_viewVars =>
          [\A v \in DOMAIN stored.views :
             stored.views[v].locked /\ outdated \subseteq outdated' =>
               v \in DOMAIN stored'.views /\ stored'.views[v].config = stored.views[v].config]_viewVars
    BY LockHolds DEF Kept
  <1> QED BY <1>1, ViewsInvariant, PTL DEF ViewsSpec, LockedViewsStay

-----------------------------------------------------------------------------
(* A step of the whole is a step of one of the two, and the other stutters: each keeps what is
   proved of it alone. *)
THEOREM SurfaceRunsBoth == Spec => BoardSpec /\ ViewsSpec
<1>1. Init => BoardInit /\ ViewsInit
  BY DEF Init
<1>2. [Next]_<<boardVars, viewVars, part>> => [BoardNext]_boardVars /\ [ViewsNext]_viewVars
  BY DEF Next
<1> QED BY <1>1, <1>2, PTL DEF Spec, BoardSpec, ViewsSpec

\* Every variable of the surface and of its views has its type.
THEOREM SurfaceTypeCorrect == Spec => []TypeOK
<1>1. BoardInv /\ ViewsInv => TypeOK
  BY DEF BoardInv, ViewsInv, TypeOK
<1> QED BY <1>1, SurfaceRunsBoth, BoardInvariant, ViewsInvariant, PTL
=============================================================================
