-------------------------- MODULE ContentPageProofs --------------------------
(* Theorems about ContentPage, for any number of popups, sections, lists,  *)
(* items, boxes, days and listeners, and for layouts of any heights.       *)
EXTENDS ContentPage, FiniteSetTheorems, WellFoundedInduction, TLAPS

-----------------------------------------------------------------------------
(* Recursion over numbers *)

Least(S) == CHOOSE x \in S : \A y \in S : x <= y

\* Every set of natural numbers that is not empty has a least member.
LEMMA LeastOf ==
  ASSUME NEW S \in SUBSET Nat, S # {}
  PROVE  Least(S) \in S /\ \A j \in S : Least(S) <= j
<1>1. \E x \in S : \A y \in S : ~(<<y, x>> \in OpToRel(<, Nat))
  <2>1. IsWellFoundedOn(OpToRel(<, Nat), Nat)
    BY NatLessThanWellFounded, Zenon
  <2> QED BY <2>1, WFMin, Zenon
<1>2. \A x, y \in Nat : y < x => <<y, x>> \in OpToRel(<, Nat)
  BY Zenon DEF OpToRel
<1>3. \E x \in S : \A y \in S : x <= y
  <2>1. PICK x \in S : \A y \in S : ~(<<y, x>> \in OpToRel(<, Nat))
    BY <1>1, Zenon
  <2>2. ASSUME NEW y \in S PROVE ~(y < x)
    BY <1>2, <2>1, Zenon
  <2> QED BY <2>2
<1> QED BY <1>3 DEF Least

\* A set of places in a sequence has a last one.
LEMMA LastOf ==
  ASSUME NEW n \in Nat, NEW S \in SUBSET (1 .. n), S # {}
  PROVE  LET k == CHOOSE k \in S : \A j \in S : j <= k
         IN  k \in S /\ \A j \in S : j <= k
<1> DEFINE T == {n - k : k \in S}
<1>1. T \in SUBSET Nat /\ T # {}
  <2>1. \A k \in S : n - k \in Nat
    OBVIOUS
  <2> QED BY <2>1
<1>2. Least(T) \in T /\ \A t \in T : Least(T) <= t
  BY <1>1, LeastOf
<1>3. PICK k \in S : Least(T) = n - k
  BY <1>2
<1>4. \A j \in S : j <= k
  <2>1. ASSUME NEW j \in S PROVE j <= k
    <3>1. n - k <= n - j
      BY <1>2, <1>3
    <3> QED BY <3>1
  <2> QED BY <2>1
<1> QED BY <1>4

\* Induction, about a set instead of a predicate.
LEMMA Induction ==
  ASSUME NEW n \in Nat, NEW S, 0 \in S, \A k \in 0 .. n - 1 : k \in S => k + 1 \in S
  PROVE  0 .. n \subseteq S
<1> SUFFICES ASSUME (0 .. n) \ S # {} PROVE FALSE
  OBVIOUS
<1> DEFINE T == (0 .. n) \ S
           k == Least(T)
<1>1. T \in SUBSET Nat /\ T # {}
  OBVIOUS
<1> HIDE DEF T
<1>2. k \in T /\ \A j \in T : k <= j
  BY <1>1, LeastOf
<1> HIDE DEF k
<1>3. k \in 1 .. n /\ k \notin S
  BY <1>2 DEF T
<1>4. k - 1 \in 0 .. n - 1 /\ k - 1 \notin T
  BY <1>2, <1>3
<1>5. k - 1 \in S
  BY <1>3, <1>4 DEF T
<1> QED BY <1>3, <1>4, <1>5

\* A function defined by recursion on a number, from value b with the steps F.
StepsOn(n, V) == [1 .. n -> [V -> V]]
ByRecursion(f, n, V, b, F) ==
  f \in [0 .. n -> V] /\ f[0] = b /\ \A i \in 1 .. n : f[i] = F[i][f[i - 1]]

\* There is one.
LEMMA Recursion ==
  ASSUME NEW n \in Nat, NEW V, NEW b \in V, NEW F \in StepsOn(n, V)
  PROVE  \E f : ByRecursion(f, n, V, b, F)
<1> USE DEF StepsOn, ByRecursion
<1> DEFINE Upto(k, f) == f[0] = b /\ \A i \in 1 .. k : f[i] = F[i][f[i - 1]]
           S == {k \in 0 .. n : \E f \in [0 .. k -> V] : Upto(k, f)}
<1>1. 0 \in S
  <2> DEFINE f == [i \in 0 .. 0 |-> b]
  <2>1. f \in [0 .. 0 -> V] /\ f[0] = b
    OBVIOUS
  <2> HIDE DEF f
  <2>2. Upto(0, f)
    BY <2>1
  <2> HIDE DEF Upto
  <2> QED BY <2>1, <2>2
<1>2. ASSUME NEW k \in 0 .. n - 1, k \in S PROVE k + 1 \in S
  <2>1. PICK f \in [0 .. k -> V] : Upto(k, f)
    BY <1>2
  <2> DEFINE g == [i \in 0 .. k + 1 |-> IF i = k + 1 THEN F[k + 1][f[k]] ELSE f[i]]
  <2>2. k \in 0 .. k /\ k + 1 \in 1 .. n /\ 0 \in 0 .. k + 1 /\ 0 # k + 1
    OBVIOUS
  <2>3. F[k + 1] \in [V -> V] /\ f[k] \in V
    BY <2>2
  <2>4. g \in [0 .. k + 1 -> V]
    BY <2>3
  <2>5. g[0] = b
    BY <2>1, <2>2
  <2>6. ASSUME NEW i \in 1 .. k + 1 PROVE g[i] = F[i][g[i - 1]]
    <3>1. CASE i = k + 1
      BY <2>2, <3>1
    <3>2. CASE i # k + 1
      <4>1. i \in 1 .. k /\ i \in 0 .. k + 1 /\ i - 1 \in 0 .. k + 1 /\ i - 1 # k + 1
        BY <3>2
      <4>2. g[i] = f[i] /\ g[i - 1] = f[i - 1]
        BY <3>2, <4>1
      <4> QED BY <2>1, <4>1, <4>2
    <3> QED BY <3>1, <3>2
  <2>7. Upto(k + 1, g)
    BY <2>5, <2>6
  <2>8. k + 1 \in 0 .. n
    OBVIOUS
  <2> HIDE DEF g, Upto
  <2> QED BY <2>4, <2>7, <2>8
<1> HIDE DEF S, Upto
<1>3. 0 .. n \subseteq S
  BY <1>1, <1>2, Induction
<1>4. n \in S
  BY <1>3
<1> QED BY <1>4 DEF S, Upto

-----------------------------------------------------------------------------
(* The side navigation *)

Listeners == {"back", "title"}
SideFoci  == {"page", "button", "inside"} \X (Popups \cup {0})
Sides == [expanded : SUBSET Toggles, active : SUBSET Popups, aria : SUBSET Popups,
          moving : SUBSET Popups, listeners : [Popups -> Seq(Listeners)],
          last : Popups \cup {0}, focus : SideFoci, hasty : BOOLEAN]

\* The focus is inside open submenus only; unless the user was hasty, the one
\* that is open is that of the button clicked last, and is told to be.
Sided(s) == /\ s \in Sides
            /\ s.focus[1] = "inside" => s.focus[2] \in s.active
            /\ ~s.hasty => s.active \subseteq {s.last} /\ s.aria = s.active

\* A listener that will move the focus into the submenu.
Titled(ls) == \E i \in DOMAIN ls : ls[i] = "title"

\* An open submenu has the focus, or is to get it when it has slid in.
SideWaits(s) ==
  ~s.hasty => \A b \in s.active : s.focus = Inside(b) \/ (b \in s.moving /\ Titled(s.listeners[b]))

GoodSide(s) == Sided(s) /\ SideWaits(s)

\* The page as loaded.
LEMMA SideStarts == SideInits # {} /\ \A s \in SideInits : GoodSide(s)
<1>1. SideInits # {}
  BY DEF SideInits
<1>2. ASSUME NEW s \in SideInits PROVE GoodSide(s)
  <2>1. PICK e \in SUBSET Toggles :
          s = [expanded |-> e, active |-> {}, aria |-> {}, moving |-> {},
               listeners |-> [b \in Popups |-> <<>>], last |-> 0, focus |-> Elsewhere, hasty |-> FALSE]
    BY DEF SideInits
  <2>2. [b \in Popups |-> <<>>] \in [Popups -> Seq(Listeners)]
    OBVIOUS
  <2> QED BY <2>1, <2>2 DEF GoodSide, Sided, SideWaits, Sides, SideFoci, Elsewhere
<1> QED BY <1>1, <1>2

\* What moving the focus from a side navigation leaves: a submenu that loses
\* it is closed, and nothing that waits is forgotten.
Moved(s, to, m) ==
  /\ Sided(m) /\ m.focus = to
  /\ m.last = s.last /\ m.hasty = s.hasty /\ m.expanded = s.expanded
  /\ m.active \subseteq s.active /\ s.moving \subseteq m.moving
  /\ \A b \in m.active : s.focus = Inside(b) => to = Inside(b)
  /\ \A b \in Popups : Titled(s.listeners[b]) => Titled(m.listeners[b])

LEMMA TitledKept ==
  ASSUME NEW ls \in Seq(Listeners), NEW x \in Listeners
  PROVE  /\ Append(ls, x) \in Seq(Listeners)
         /\ Titled(ls) => Titled(Append(ls, x))
         /\ x = "title" => Titled(Append(ls, x))
BY DEF Titled

LEMMA FocusOutFacts ==
  ASSUME NEW s, Sided(s), NEW b \in s.active, s.focus = Inside(b)
  PROVE  LET m == FocusOut(s, b)
         IN  /\ m \in Sides
             /\ ~m.hasty => m.active \subseteq {m.last} /\ m.aria = m.active
             /\ m.active = s.active \ {b} /\ s.moving \subseteq m.moving
             /\ m.last = s.last /\ m.hasty = s.hasty /\ m.expanded = s.expanded
             /\ \A c \in Popups : Titled(s.listeners[c]) => Titled(m.listeners[c])
<1> DEFINE m == FocusOut(s, b)
           ls == s.listeners[b]
<1>1. s \in Sides /\ b \in Popups /\ ls \in Seq(Listeners)
  BY DEF Sided, Sides
<1>2. /\ Append(ls, "back") \in Seq(Listeners)
      /\ Titled(ls) => Titled(Append(ls, "back"))
  BY <1>1, TitledKept DEF Listeners
<1>3. CASE s.last = 0
  <2>1. m = [s EXCEPT !.active = @ \ {b}, !.moving = @ \cup {b}]
    BY <1>3 DEF FocusOut
  <2> HIDE DEF m
  <2>2. s.hasty
    BY <1>1, <1>3, PopupsAssumption DEF Sided
  <2>3. /\ m \in Sides /\ m.hasty = s.hasty /\ m.last = s.last /\ m.expanded = s.expanded
        /\ m.active = s.active \ {b} /\ s.moving \subseteq m.moving /\ m.listeners = s.listeners
    BY <1>1, <2>1 DEF Sides
  <2> QED BY <2>2, <2>3 DEF m
<1>4. CASE s.last # 0
  <2>1. m = [s EXCEPT !.active = @ \ {b}, !.moving = @ \cup {b}, !.aria = @ \ {s.last},
                      !.listeners[b] = Append(ls, "back")]
    BY <1>1, <1>4 DEF FocusOut, Sides
  <2> HIDE DEF m
  <2>2. m \in Sides
    BY <1>1, <1>2, <2>1 DEF Sides
  <2>3. ~m.hasty => m.active \subseteq {m.last} /\ m.aria = m.active
    BY <1>1, <2>1 DEF Sided, Sides
  <2>4. \A c \in Popups : Titled(s.listeners[c]) => Titled(m.listeners[c])
    BY <1>1, <1>2, <2>1 DEF Sides
  <2>5. /\ m.active = s.active \ {b} /\ s.moving \subseteq m.moving
        /\ m.last = s.last /\ m.hasty = s.hasty /\ m.expanded = s.expanded
    BY <1>1, <2>1 DEF Sides
  <2> QED BY <2>2, <2>3, <2>4, <2>5 DEF m
<1> QED BY <1>3, <1>4

LEMMA MoveFacts ==
  ASSUME NEW s, Sided(s), NEW to \in SideFoci, to[1] = "inside" => to[2] \in s.active
  PROVE  Moved(s, to, MoveSideFocus(s, to))
<1>1. s \in Sides
  BY DEF Sided
<1>2. s.focus \in SideFoci /\ s.focus = <<s.focus[1], s.focus[2]>> /\ to = <<to[1], to[2]>>
  BY <1>1 DEF Sides, SideFoci
<1>3. CASE s.focus[1] = "inside" /\ s.focus # to
  <2> DEFINE b == s.focus[2]
             f == FocusOut(s, b)
             m == [f EXCEPT !.focus = to]
  <2>1. b \in s.active /\ s.focus = Inside(b)
    BY <1>3, <1>2 DEF Sided, Inside
  <2>2. MoveSideFocus(s, to) = m
    BY <1>3 DEF MoveSideFocus
  <2>3. /\ f \in Sides
        /\ ~f.hasty => f.active \subseteq {f.last} /\ f.aria = f.active
        /\ f.active = s.active \ {b} /\ s.moving \subseteq f.moving
        /\ f.last = s.last /\ f.hasty = s.hasty /\ f.expanded = s.expanded
        /\ \A c \in Popups : Titled(s.listeners[c]) => Titled(f.listeners[c])
    BY <2>1, FocusOutFacts
  <2> HIDE DEF f
  <2>4. /\ m \in Sides /\ m.focus = to /\ m.active = f.active /\ m.aria = f.aria /\ m.last = f.last
        /\ m.hasty = f.hasty /\ m.moving = f.moving /\ m.listeners = f.listeners
        /\ m.expanded = f.expanded
    BY <2>3 DEF Sides
  <2> HIDE DEF m
  <2>5. to[1] = "inside" => to[2] \in m.active
    BY <1>3, <1>2, <2>3, <2>4
  <2>6. \A c \in m.active : s.focus # Inside(c)
    BY <2>1, <2>3, <2>4 DEF Inside
  <2> QED BY <2>2, <2>3, <2>4, <2>5, <2>6 DEF Moved, Sided
<1>4. CASE ~(s.focus[1] = "inside" /\ s.focus # to)
  <2> DEFINE m == [s EXCEPT !.focus = to]
  <2>1. MoveSideFocus(s, to) = m
    BY <1>4 DEF MoveSideFocus
  <2>2. /\ m \in Sides /\ m.focus = to /\ m.active = s.active /\ m.aria = s.aria /\ m.last = s.last
        /\ m.hasty = s.hasty /\ m.moving = s.moving /\ m.listeners = s.listeners
        /\ m.expanded = s.expanded
    BY <1>1 DEF Sides
  <2> HIDE DEF m
  <2>3. \A c : s.focus = Inside(c) => to = Inside(c)
    BY <1>4 DEF Inside
  <2> QED BY <2>1, <2>2, <2>3 DEF Moved, Sided
<1> QED BY <1>3, <1>4

\* So moving the focus keeps the invariant.
LEMMA MoveKeeps ==
  ASSUME NEW s, GoodSide(s), NEW to \in SideFoci, to[1] = "inside" => to[2] \in s.active
  PROVE  GoodSide(MoveSideFocus(s, to))
<1> DEFINE m == MoveSideFocus(s, to)
<1>1. Moved(s, to, m)
  BY MoveFacts DEF GoodSide
<1> HIDE DEF m
<1>2. ASSUME ~m.hasty, NEW b \in m.active
      PROVE  m.focus = Inside(b) \/ (b \in m.moving /\ Titled(m.listeners[b]))
  <2>1. ~s.hasty /\ b \in s.active /\ b \in Popups
    BY <1>1, <1>2 DEF Moved, Sided, Sides
  <2>2. s.focus = Inside(b) \/ (b \in s.moving /\ Titled(s.listeners[b]))
    BY <2>1 DEF GoodSide, SideWaits
  <2> QED BY <1>1, <1>2, <2>1, <2>2 DEF Moved
<1>3. SideWaits(m)
  BY <1>2 DEF SideWaits
<1> QED BY <1>1, <1>3 DEF GoodSide, Moved, m

\* After n of the listeners of b that waited.
Ran(s, b, waiting, n) ==
  /\ Sided(s)
  /\ ~s.hasty => \A c \in s.active :
       \/ s.focus = Inside(c)
       \/ c # b /\ c \in s.moving /\ Titled(s.listeners[c])
       \/ c = b /\ \E i \in n + 1 .. Len(waiting) : waiting[i] = "title"

LEMMA RunKeeps ==
  ASSUME NEW b \in Popups, NEW waiting \in Seq(Listeners), NEW n \in 1 .. Len(waiting),
         NEW s, Ran(s, b, waiting, n - 1)
  PROVE  Ran(RunListener(s, b, waiting[n]), b, waiting, n)
<1> DEFINE m == RunListener(s, b, waiting[n])
<1>0. s \in Sides /\ Sided(s) /\ n \in Nat /\ n - 1 + 1 = n /\ Len(waiting) \in Nat
  BY DEF Ran, Sided
<1>1. waiting[n] \in {"back", "title"}
  BY DEF Listeners
<1>2. ASSUME NEW to \in SideFoci, to[1] = "inside" => to = Inside(b) /\ b \in s.active,
             waiting[n] = "title" => to = Inside(b), m = MoveSideFocus(s, to)
      PROVE  Ran(m, b, waiting, n)
  <2>1. Moved(s, to, m)
    BY <1>0, <1>2, MoveFacts DEF Inside
  <2> HIDE DEF m
  <2>2. ASSUME ~m.hasty, NEW c \in m.active, m.focus # Inside(c)
        PROVE  \/ c # b /\ c \in m.moving /\ Titled(m.listeners[c])
               \/ c = b /\ \E i \in n + 1 .. Len(waiting) : waiting[i] = "title"
    <3>1. ~s.hasty /\ c \in s.active /\ c \in Popups /\ s.focus # Inside(c) /\ to # Inside(c)
      BY <2>1, <2>2 DEF Moved, Sided, Sides
    <3>2. CASE c # b
      <4>1. c \in s.moving /\ Titled(s.listeners[c])
        BY <3>1, <3>2 DEF Ran
      <4> QED BY <2>1, <3>1, <3>2, <4>1 DEF Moved
    <3>3. CASE c = b
      <4>1. PICK i \in n .. Len(waiting) : waiting[i] = "title"
        BY <1>0, <3>1, <3>3 DEF Ran
      <4>2. i # n
        BY <1>2, <3>1, <3>3, <4>1
      <4>3. i \in n + 1 .. Len(waiting)
        BY <1>0, <4>1, <4>2
      <4> QED BY <3>3, <4>1, <4>3
    <3> QED BY <3>2, <3>3
  <2>3. Sided(m)
    BY <2>1 DEF Moved
  <2> QED BY <2>2, <2>3 DEF Ran
<1>3. CASE waiting[n] = "back"
  <2>1. Button(s.last) \in SideFoci /\ Button(s.last)[1] # "inside"
    BY <1>0 DEF Button, SideFoci, Sides
  <2>2. m = MoveSideFocus(s, Button(s.last))
    BY <1>3 DEF RunListener
  <2> HIDE DEF m
  <2> QED BY <1>2, <1>3, <2>1, <2>2 DEF m
<1>4. CASE waiting[n] = "title" /\ b \in s.active
  <2>1. Inside(b) \in SideFoci
    BY DEF Inside, SideFoci
  <2>2. m = MoveSideFocus(s, Inside(b))
    BY <1>4 DEF RunListener
  <2> HIDE DEF m
  <2> QED BY <1>2, <1>4, <2>1, <2>2 DEF m
<1>5. CASE waiting[n] = "title" /\ b \notin s.active
  <2>1. m = s
    BY <1>5 DEF RunListener
  <2> HIDE DEF m
  <2>2. Ran(s, b, waiting, n)
    BY <1>5, <1>0 DEF Ran
  <2> QED BY <2>1, <2>2 DEF m
<1> QED BY <1>1, <1>3, <1>4, <1>5


LEMMA RunSided ==
  ASSUME NEW b \in Popups, NEW l \in Listeners, NEW s, Sided(s)
  PROVE  Sided(RunListener(s, b, l))
<1>0. s \in Sides
  BY DEF Sided
<1>1. /\ Button(s.last) \in SideFoci /\ Button(s.last)[1] # "inside"
      /\ Inside(b) \in SideFoci /\ Inside(b)[2] = b
  BY <1>0 DEF Button, Inside, SideFoci, Sides
<1>2. Sided(MoveSideFocus(s, Button(s.last)))
  BY <1>1, MoveFacts DEF Moved
<1>3. b \in s.active => Sided(MoveSideFocus(s, Inside(b)))
  BY <1>1, MoveFacts DEF Moved
<1> QED BY <1>2, <1>3 DEF RunListener

LEMMA RunListenersKeep ==
  ASSUME NEW b \in Popups, NEW waiting \in Seq(Listeners), NEW s, Ran(s, b, waiting, 0)
  PROVE  GoodSide(RunListeners(s, b, waiting))
<1> DEFINE n == Len(waiting)
           V == {t \in Sides : Sided(t)}
           F == [i \in 1 .. n |-> [t \in V |-> RunListener(t, b, waiting[i])]]
           E(f) == [i \in 0 .. n |-> IF i = 0 THEN s ELSE RunListener(f[i - 1], b, waiting[i])]
           ran == CHOOSE f : f = E(f)
           S == {i \in 0 .. n : Ran(ran[i], b, waiting, i)}
<1>1. n \in Nat /\ \A i \in 1 .. n : waiting[i] \in Listeners
  OBVIOUS
<1>2. s \in V
  BY DEF Ran, Sided
<1>3. F \in StepsOn(n, V)
  <2>1. ASSUME NEW t \in V, NEW i \in 1 .. n PROVE RunListener(t, b, waiting[i]) \in V
    <3>1. Sided(RunListener(t, b, waiting[i]))
      BY <1>1, RunSided
    <3> QED BY <3>1 DEF Sided
  <2> HIDE DEF V
  <2> QED BY <2>1 DEF StepsOn
<1>4. \E f : ByRecursion(f, n, V, s, F)
  <2> HIDE DEF V, F, n
  <2> QED BY <1>1, <1>2, <1>3, Recursion
<1>5. PICK f : ByRecursion(f, n, V, s, F)
  BY <1>4
<1>6. f = E(f)
  <2>1. f \in [0 .. n -> V] /\ f[0] = s /\ \A i \in 1 .. n : f[i] = F[i][f[i - 1]]
    BY <1>5 DEF ByRecursion
  <2>2. ASSUME NEW i \in 1 .. n PROVE f[i] = RunListener(f[i - 1], b, waiting[i])
    <3>1. f[i - 1] \in V
      BY <2>1, <1>1
    <3>2. F[i][f[i - 1]] = RunListener(f[i - 1], b, waiting[i])
      BY <3>1
    <3> QED BY <2>1, <3>2
  <2>3. f = [i \in 0 .. n |-> f[i]]
    BY <2>1
  <2>4. \A i \in 0 .. n : i # 0 => i \in 1 .. n
    BY <1>1
  <2> HIDE DEF n, V, F
  <2> QED BY <2>1, <2>2, <2>3, <2>4
<1>7. ran = E(ran)
  BY <1>6
<1>8. ran[0] = s /\ \A i \in 1 .. n : ran[i] = RunListener(ran[i - 1], b, waiting[i])
  <2>1. \A i \in 1 .. n : i \in 0 .. n /\ i # 0
    BY <1>1
  <2> HIDE DEF ran, n
  <2> QED BY <1>1, <1>7, <2>1
<1>9. RunListeners(s, b, waiting) = ran[n]
  BY DEF RunListeners
<1> HIDE DEF ran, E, F, V
<1>10. 0 \in S
  BY <1>1, <1>8
<1>11. ASSUME NEW i \in 0 .. n - 1, i \in S PROVE i + 1 \in S
  <2>1. i + 1 \in 1 .. n /\ i + 1 \in 0 .. n /\ i + 1 - 1 = i
    BY <1>1
  <2>2. Ran(ran[i], b, waiting, i + 1 - 1)
    BY <1>11, <2>1
  <2>3. Ran(RunListener(ran[i], b, waiting[i + 1]), b, waiting, i + 1)
    BY <2>1, <2>2, RunKeeps
  <2>4. ran[i + 1] = RunListener(ran[i], b, waiting[i + 1])
    BY <1>8, <2>1
  <2> QED BY <2>1, <2>3, <2>4
<1>12. n \in S
  <2> HIDE DEF S, n
  <2>1. n \in Nat
    BY <1>1
  <2>2. 0 .. n \subseteq S
    BY <1>10, <1>11, <2>1, Induction
  <2> QED BY <2>1, <2>2
<1>13. Ran(ran[n], b, waiting, n)
  BY <1>12
<1>14. GoodSide(ran[n])
  BY <1>1, <1>13 DEF Ran, GoodSide, SideWaits
<1> QED BY <1>9, <1>14

\* Every step of the widget.
LEMMA SideNextKeeps ==
  ASSUME GoodSide(side), SideNext
  PROVE  GoodSide(side')
<1>0. side \in Sides /\ Sided(side) /\ Elsewhere \in SideFoci /\ Elsewhere[1] # "inside"
  BY DEF GoodSide, Sided, Elsewhere, SideFoci
<1>1. ASSUME NEW t \in Toggles, ToggleSide(t) PROVE GoodSide(side')
  <2> DEFINE m == MoveSideFocus(side, Elsewhere)
  <2>1. GoodSide(m)
    BY <1>0, MoveKeeps
  <2>2. side' = [m EXCEPT !.expanded = IF t \in @ THEN {} ELSE {t}]
    BY <1>1 DEF ToggleSide
  <2> HIDE DEF m
  <2>3. m \in Sides
    BY <2>1 DEF GoodSide, Sided
  <2>4. /\ side' \in Sides /\ side'.focus = m.focus /\ side'.active = m.active /\ side'.aria = m.aria
        /\ side'.last = m.last /\ side'.hasty = m.hasty /\ side'.moving = m.moving
        /\ side'.listeners = m.listeners
    BY <2>2, <2>3 DEF Sides
  <2> QED BY <2>1, <2>4 DEF GoodSide, Sided, SideWaits
<1>2. ASSUME NEW b \in Popups, ClickPopup(b) PROVE GoodSide(side')
  <2> DEFINE m == MoveSideFocus(side, Button(b))
             ls == Append(m.listeners[b], "title")
  <2>1. Button(b) \in SideFoci /\ Button(b)[1] # "inside" /\ \A c : Button(b) # Inside(c)
    BY DEF Button, Inside, SideFoci
  <2>2. Moved(side, Button(b), m) /\ GoodSide(m)
    BY <1>0, <2>1, MoveKeeps, MoveFacts
  <2>3. side' = [m EXCEPT !.active = @ \cup {b}, !.aria = @ \cup {b},
                          !.moving = IF b \in m.active THEN @ ELSE @ \cup {b},
                          !.listeners[b] = ls, !.last = b,
                          !.hasty = @ \/ m.active \ {b} # {}]
    BY <1>2, <2>2 DEF ClickPopup, GoodSide, Sided, Sides
  <2> HIDE DEF m
  <2>4. m \in Sides /\ m.listeners[b] \in Seq(Listeners) /\ "title" \in Listeners
    BY <2>2 DEF GoodSide, Sided, Sides, Listeners
  <2>5. ls \in Seq(Listeners) /\ Titled(ls)
    BY <2>4, TitledKept
  <2> HIDE DEF ls
  <2>6. (m.hasty \/ m.active \ {b} # {}) \in BOOLEAN
    OBVIOUS
  <2>7. /\ side' \in Sides /\ side'.focus = m.focus /\ side'.active = m.active \cup {b}
        /\ side'.aria = m.aria \cup {b} /\ side'.last = b
        /\ side'.hasty <=> m.hasty \/ m.active \ {b} # {}
        /\ b \in m.active => side'.moving = m.moving
        /\ b \notin m.active => side'.moving = m.moving \cup {b}
        /\ side'.listeners[b] = ls
    BY <2>3, <2>4, <2>5, <2>6 DEF Sides
  <2>8. m.focus = Button(b)
    BY <2>2 DEF Moved
  <2>9. Sided(side')
    BY <2>1, <2>2, <2>7, <2>8 DEF GoodSide, Sided
  <2>10. ASSUME ~side'.hasty, NEW c \in side'.active PROVE c \in side'.moving /\ Titled(side'.listeners[c])
    <3>1. c = b /\ ~m.hasty
      BY <2>7, <2>10
    <3>2. b \in m.active => b \in m.moving
      BY <2>1, <2>2, <2>8, <3>1 DEF GoodSide, SideWaits
    <3> QED BY <2>5, <2>7, <3>1, <3>2
  <2> QED BY <2>9, <2>10 DEF GoodSide, SideWaits
<1>3. ASSUME NEW b \in Popups, SideTransitionEnd(b) PROVE GoodSide(side')
  <2>1. PICK moving \in {side.moving, side.moving \ {b}} :
          side' = RunListeners([side EXCEPT !.listeners[b] = <<>>, !.moving = moving],
                               b, side.listeners[b])
    BY <1>3 DEF SideTransitionEnd
  <2> DEFINE ls == side.listeners[b]
             s == [side EXCEPT !.listeners[b] = <<>>, !.moving = moving]
  <2>2. ls \in Seq(Listeners) /\ Len(ls) \in Nat /\ DOMAIN ls = 1 .. Len(ls)
    BY <1>0 DEF Sides
  <2>3. /\ s \in Sides /\ s.focus = side.focus /\ s.active = side.active /\ s.aria = side.aria
        /\ s.last = side.last /\ s.hasty = side.hasty /\ side.moving \ {b} \subseteq s.moving
        /\ \A c \in Popups \ {b} : s.listeners[c] = side.listeners[c]
    <3>1. <<>> \in Seq(Listeners)
      OBVIOUS
    <3> QED BY <1>0, <3>1 DEF Sides
  <2> HIDE DEF s
  <2>4. ASSUME ~s.hasty, NEW c \in s.active
        PROVE  \/ s.focus = Inside(c)
               \/ c # b /\ c \in s.moving /\ Titled(s.listeners[c])
               \/ c = b /\ \E i \in 0 + 1 .. Len(ls) : ls[i] = "title"
    <3>1. s.focus = Inside(c) \/ (c \in side.moving /\ Titled(side.listeners[c]))
      BY <2>3, <2>4 DEF GoodSide, SideWaits
    <3>2. c \in Popups
      BY <2>3 DEF Sides
    <3>3. CASE c = b /\ Titled(side.listeners[c])
      <4>1. PICK i \in DOMAIN ls : ls[i] = "title"
        BY <3>3 DEF Titled
      <4>2. i \in 0 + 1 .. Len(ls)
        BY <2>2
      <4> QED BY <3>3, <4>1, <4>2
    <3>4. CASE c # b
      BY <2>3, <3>1, <3>2, <3>4
    <3> QED BY <3>1, <3>3, <3>4
  <2>5. Sided(s)
    BY <2>3 DEF GoodSide, Sided
  <2>6. Ran(s, b, ls, 0)
    BY <2>4, <2>5 DEF Ran
  <2> HIDE DEF ls
  <2>7. GoodSide(RunListeners(s, b, ls))
    BY <2>2, <2>6, RunListenersKeep
  <2> QED BY <2>1, <2>7 DEF s, ls
<1>4. ASSUME NEW b \in Popups, ClickTitle(b) PROVE GoodSide(side')
  <2> DEFINE s == MoveSideFocus(side, Inside(b))
  <2>1. b \in side.active /\ side' = MoveSideFocus(s, Button(side.last))
    BY <1>4 DEF ClickTitle
  <2>2. /\ Inside(b) \in SideFoci /\ Inside(b)[2] = b
        /\ Button(side.last) \in SideFoci /\ Button(side.last)[1] # "inside"
    BY <1>0 DEF Button, Inside, SideFoci, Sides
  <2>3. GoodSide(s)
    BY <2>1, <2>2, MoveKeeps
  <2> HIDE DEF s
  <2> QED BY <2>1, <2>2, <2>3, MoveKeeps
<1>5. ASSUME NEW to \in {Elsewhere} \cup {Inside(b) : b \in Popups}, SideFocus(to) PROVE GoodSide(side')
  <2>1. to \in SideFoci
    BY <1>0 DEF Inside, SideFoci
  <2>2. to[1] = "inside" => to[2] \in side.active
    BY <1>5 DEF SideFocus
  <2>3. side' = MoveSideFocus(side, to)
    BY <1>5 DEF SideFocus
  <2> QED BY <2>1, <2>2, <2>3, MoveKeeps
<1> QED BY <1>1, <1>2, <1>3, <1>4, <1>5 DEF SideNext

\* What the invariant says of the properties.
LEMMA SideHolds ==
  ASSUME GoodSide(side)
  PROVE  /\ side.active \cup side.aria \subseteq Popups /\ side.last \in Popups \cup {0}
         /\ PopupsTold /\ PopupsHaveFocus
BY DEF GoodSide, Sided, SideWaits, Sides, PopupsTold, PopupsHaveFocus, SideSettled

-----------------------------------------------------------------------------
(* The links of the page *)

Navs == [layout : Layouts, tab : Tabs, selected : SUBSET Tabs, texts : [Tabs -> Nat],
         y : Nat, lastY : Nat, direction : {"up", "down", "none"}, links : SUBSET Nat,
         fresh : BOOLEAN]

\* updateActiveSection finds a section here.
Placed(l, y) == \/ y <= SectionTop(l, 1) \/ y + l.window >= ScrollHeight(l)
                \/ \E k \in Sections(l) : InSection(l, y + TopHeight(l), k)

GoodNav(n) ==
  /\ n \in Navs /\ n.lastY = n.y /\ (n.fresh => n.tab = 1)
  /\ \E k \in Sections(n.layout) : n.links = {k}
  /\ n.selected \in {{n.tab}, {}} /\ \A t \in Tabs : n.texts[t] = IF t = n.tab THEN 1 ELSE 0
  /\ n.fresh /\ Placed(n.layout, n.y) => n.links = {OnScreen(n.layout, n.y)}

\* The sections follow on each other.
LEMMA LayoutFacts ==
  ASSUME NEW l \in Layouts
  PROVE  /\ LastSection(l) \in Nat \ {0} /\ Sections(l) = 1 .. LastSection(l)
         /\ l.window \in Nat /\ l.header \in Nat /\ l.above \in Nat /\ l.footer \in Nat
         /\ \A k \in 1 .. LastSection(l) : l.heights[k] \in Nat
         /\ \A k \in 0 .. LastSection(l) : Bottom(l, k) \in Nat
         /\ Bottom(l, 0) = l.above
         /\ \A k \in 1 .. LastSection(l) :
              /\ SectionTop(l, k) \in Nat /\ Bottom(l, k - 1) <= SectionTop(l, k)
              /\ Bottom(l, k) = SectionTop(l, k) + l.heights[k]
<1> DEFINE n == LastSection(l)
           F == [k \in 1 .. n |-> [b \in Nat |-> b + l.gaps[k] + l.heights[k]]]
           E(f) == [k \in 0 .. n |-> IF k = 0 THEN l.above ELSE f[k - 1] + l.gaps[k] + l.heights[k]]
           end == CHOOSE f : f = E(f)
<1>1. /\ l.window \in Nat /\ l.header \in Nat /\ l.above \in Nat /\ l.footer \in Nat
      /\ l.heights \in Seq(Nat) /\ l.heights # <<>> /\ l.gaps \in [DOMAIN l.heights -> Nat]
  BY LayoutsAssumption
<1>2. /\ n \in Nat \ {0} /\ Sections(l) = 1 .. n
      /\ \A k \in 1 .. n : l.heights[k] \in Nat /\ l.gaps[k] \in Nat
  <2> DEFINE hs == l.heights
  <2>1. hs \in Seq(Nat) /\ hs # <<>> /\ l.gaps \in [DOMAIN hs -> Nat]
    BY <1>1
  <2> HIDE DEF hs
  <2>2. Len(hs) \in Nat \ {0} /\ DOMAIN hs = 1 .. Len(hs) /\ \A k \in 1 .. Len(hs) : hs[k] \in Nat
    BY <2>1
  <2>3. \A k \in 1 .. Len(hs) : l.gaps[k] \in Nat
    BY <2>1, <2>2
  <2>4. n = Len(hs) /\ Sections(l) = DOMAIN hs
    BY DEF LastSection, Sections, hs
  <2> QED BY <2>2, <2>3, <2>4 DEF hs
<1> HIDE DEF n
<1>3. F \in StepsOn(n, Nat)
  <2>1. \A k \in 1 .. n, b \in Nat : b + l.gaps[k] + l.heights[k] \in Nat
    BY <1>2
  <2> QED BY <2>1 DEF StepsOn
<1>4. \E f : ByRecursion(f, n, Nat, l.above, F)
  <2> HIDE DEF F
  <2> QED BY <1>1, <1>2, <1>3, Recursion
<1>5. PICK f : ByRecursion(f, n, Nat, l.above, F)
  BY <1>4
<1>6. f \in [0 .. n -> Nat] /\ f[0] = l.above /\ \A k \in 1 .. n : f[k] = f[k - 1] + l.gaps[k] + l.heights[k]
  <2>1. f \in [0 .. n -> Nat] /\ f[0] = l.above /\ \A k \in 1 .. n : f[k] = F[k][f[k - 1]]
    BY <1>5 DEF ByRecursion
  <2>2. \A k \in 1 .. n : k - 1 \in 0 .. n
    BY <1>2
  <2>3. \A k \in 1 .. n : f[k - 1] \in Nat
    BY <2>1, <2>2
  <2>4. \A k \in 1 .. n : F[k][f[k - 1]] = f[k - 1] + l.gaps[k] + l.heights[k]
    BY <2>3
  <2> QED BY <2>1, <2>4
<1>7. f = E(f)
  <2>1. f = [k \in 0 .. n |-> f[k]]
    BY <1>6
  <2>2. \A k \in 0 .. n : k # 0 => k \in 1 .. n
    BY <1>2
  <2> QED BY <1>6, <2>1, <2>2
<1>8. end = E(end)
  BY <1>7
<1>9. end[0] = l.above /\ \A k \in 1 .. n : end[k] = end[k - 1] + l.gaps[k] + l.heights[k]
  <2>1. \A k \in 1 .. n : k \in 0 .. n /\ k # 0
    BY <1>2
  <2>2. 0 \in 0 .. n
    BY <1>2
  <2> HIDE DEF end
  <2> QED BY <1>8, <2>1, <2>2
<1>10. Bottoms(l) = end
  BY DEF Bottoms, n
<1> HIDE DEF end
<1>11. \A k \in 0 .. n : end[k] \in Nat
  <2> DEFINE S == {k \in 0 .. n : end[k] \in Nat}
  <2>1. 0 \in S
    BY <1>1, <1>2, <1>9
  <2>2. ASSUME NEW k \in 0 .. n - 1, k \in S PROVE k + 1 \in S
    <3>1. k + 1 \in 1 .. n /\ k + 1 \in 0 .. n /\ k + 1 - 1 = k
      BY <1>2
    <3>2. /\ end[k + 1] = end[k] + l.gaps[k + 1] + l.heights[k + 1]
          /\ l.heights[k + 1] \in Nat /\ l.gaps[k + 1] \in Nat /\ end[k] \in Nat
      BY <1>2, <1>9, <2>2, <3>1
    <3> QED BY <3>1, <3>2
  <2> HIDE DEF S
  <2>3. 0 .. n \subseteq S
    BY <1>2, <2>1, <2>2, Induction
  <2> QED BY <2>3 DEF S
<1>12. \A k \in 0 .. n : Bottom(l, k) = end[k]
  BY <1>10 DEF Bottom
<1>13. ASSUME NEW k \in 1 .. n
       PROVE  /\ SectionTop(l, k) \in Nat /\ Bottom(l, k - 1) <= SectionTop(l, k)
              /\ Bottom(l, k) = SectionTop(l, k) + l.heights[k]
  <2>1. k - 1 \in 0 .. n /\ k \in 0 .. n
    BY <1>2
  <2>2. SectionTop(l, k) = end[k - 1] + l.gaps[k] /\ end[k - 1] \in Nat /\ l.gaps[k] \in Nat
    BY <1>2, <1>11, <1>12, <2>1 DEF SectionTop
  <2>3. Bottom(l, k) = end[k - 1] + l.gaps[k] + l.heights[k] /\ l.heights[k] \in Nat
    BY <1>2, <1>9, <1>12, <2>1
  <2> QED BY <1>12, <2>1, <2>2, <2>3
<1>14. 0 \in 0 .. n
  BY <1>2
<1> QED BY <1>1, <1>2, <1>9, <1>11, <1>12, <1>13, <1>14 DEF n

LEMMA BottomsRise ==
  ASSUME NEW l \in Layouts
  PROVE  \A i, j \in 0 .. LastSection(l) : i <= j => Bottom(l, i) <= Bottom(l, j)
<1> DEFINE n == LastSection(l)
           S == {j \in 0 .. n : \A i \in 0 .. j : Bottom(l, i) <= Bottom(l, j)}
<1>1. /\ n \in Nat /\ \A k \in 0 .. n : Bottom(l, k) \in Nat
      /\ \A k \in 1 .. n : Bottom(l, k - 1) <= Bottom(l, k)
  <2>1. /\ n \in Nat /\ \A k \in 0 .. n : Bottom(l, k) \in Nat
        /\ \A k \in 1 .. n : /\ SectionTop(l, k) \in Nat /\ Bottom(l, k - 1) <= SectionTop(l, k)
                            /\ Bottom(l, k) = SectionTop(l, k) + l.heights[k] /\ l.heights[k] \in Nat
    BY LayoutFacts
  <2> HIDE DEF n
  <2>2. ASSUME NEW k \in 1 .. n PROVE Bottom(l, k - 1) <= Bottom(l, k)
    <3>1. k - 1 \in 0 .. n
      BY <2>1
    <3> QED BY <2>1, <3>1
  <2> QED BY <2>1, <2>2
<1> HIDE DEF n
<1>2. 0 \in S
  BY <1>1
<1>3. ASSUME NEW j \in 0 .. n - 1, j \in S PROVE j + 1 \in S
  <2>1. j + 1 \in 1 .. n /\ j + 1 \in 0 .. n /\ j \in 0 .. n /\ j + 1 - 1 = j
    BY <1>1
  <2>2. Bottom(l, j) <= Bottom(l, j + 1) /\ Bottom(l, j) \in Nat /\ Bottom(l, j + 1) \in Nat
    BY <1>1, <2>1
  <2>3. ASSUME NEW i \in 0 .. j + 1 PROVE Bottom(l, i) <= Bottom(l, j + 1)
    <3>1. CASE i = j + 1
      BY <2>2, <3>1
    <3>2. CASE i # j + 1
      <4>1. i \in 0 .. j /\ i \in 0 .. n
        BY <1>1, <3>2
      <4>2. Bottom(l, i) <= Bottom(l, j) /\ Bottom(l, i) \in Nat
        BY <1>1, <1>3, <4>1
      <4> QED BY <2>2, <4>2
    <3> QED BY <3>1, <3>2
  <2> QED BY <2>1, <2>3
<1> HIDE DEF S
<1>4. 0 .. n \subseteq S
  BY <1>1, <1>2, <1>3, Induction
<1>5. ASSUME NEW i \in 0 .. n, NEW j \in 0 .. n, i <= j PROVE Bottom(l, i) <= Bottom(l, j)
  <2>1. i \in 0 .. j /\ j \in S
    BY <1>1, <1>4, <1>5
  <2> QED BY <2>1 DEF S
<1> QED BY <1>5 DEF n

\* A place in a section is past the tops of no later ones.
LEMMA InOneSection ==
  ASSUME NEW l \in Layouts, NEW p \in Nat, NEW k \in Sections(l), NEW j \in Sections(l),
         InSection(l, p, k), SectionTop(l, j) < p
  PROVE  j <= k
<1> DEFINE n == LastSection(l)
<1>1. /\ n \in Nat /\ k \in 1 .. n /\ j \in 1 .. n /\ \A i \in 0 .. n : Bottom(l, i) \in Nat
      /\ SectionTop(l, j) \in Nat /\ Bottom(l, j - 1) <= SectionTop(l, j)
  BY LayoutFacts
<1> HIDE DEF n
<1>2. k \in 0 .. n /\ j - 1 \in 0 .. n /\ j \in Nat /\ k \in Nat
  BY <1>1
<1>3. SUFFICES ASSUME k <= j - 1 PROVE FALSE
  BY <1>2
<1>4. Bottom(l, k) <= Bottom(l, j - 1)
  BY <1>2, <1>3, BottomsRise DEF n
<1>5. p <= Bottom(l, k) /\ SectionTop(l, j) < p
  BY DEF InSection
<1> QED BY <1>1, <1>2, <1>4, <1>5

\* The link of a section, in the cases that updateActiveSection tells apart.
LEMMA LinkFacts ==
  ASSUME NEW l \in Layouts, NEW y \in Nat, NEW k \in Sections(l)
  PROVE  /\ y + l.window >= ScrollHeight(l) => LinkOf(l, y, k) = LastSection(l)
         /\ y + l.window < ScrollHeight(l) /\ y <= SectionTop(l, 1) => LinkOf(l, y, k) = 1
         /\ y + l.window < ScrollHeight(l) /\ y > SectionTop(l, 1)
              => LinkOf(l, y, k) = IF InSection(l, y + TopHeight(l), k) THEN k ELSE 0
         /\ TopHeight(l) \in Nat /\ ScrollHeight(l) \in Nat /\ SectionTop(l, 1) \in Nat
<1>1. /\ LastSection(l) \in Nat /\ k \in 1 .. LastSection(l) /\ l.window \in Nat /\ l.footer \in Nat
      /\ \A j \in 0 .. LastSection(l) : Bottom(l, j) \in Nat
      /\ Bottom(l, k) = SectionTop(l, k) + l.heights[k] /\ l.heights[k] \in Nat
      /\ SectionTop(l, k) \in Nat /\ SectionTop(l, 1) \in Nat
  <2>1. 1 \in 1 .. LastSection(l)
    BY LayoutFacts
  <2> QED BY <2>1, LayoutFacts
<1>2. TopHeight(l) \in Nat
  BY <1>1 DEF TopHeight
<1>3. LastSection(l) \in 0 .. LastSection(l)
  BY <1>1
<1>4. ScrollHeight(l) \in Nat
  BY <1>1, <1>3 DEF ScrollHeight
<1> DEFINE h == l.heights[k]   t == TopHeight(l)   b == SectionTop(l, k)   w == l.window
           s == ScrollHeight(l)
<1>6. LinkOf(l, y, k) = CASE y + w >= s -> LastSection(l)
                          [] y + w < s /\ y <= SectionTop(l, 1) -> 1
                          [] OTHER -> IF y > b - t /\ y <= b - t + h THEN k ELSE 0
  BY DEF LinkOf
<1>7. InSection(l, y + t, k) <=> y > b - t /\ y <= b - t + h
  <2> DEFINE e == Bottom(l, k)
  <2>1. e = b + h /\ b \in Nat /\ h \in Nat /\ t \in Nat
    BY <1>1, <1>2
  <2>2. InSection(l, y + t, k) <=> b < y + t /\ y + t <= e
    BY DEF InSection
  <2> HIDE DEF e, b, h, t
  <2> QED BY <2>1, <2>2
<1> HIDE DEF h, t, b
<1>8. y + w \in Nat /\ s \in Nat /\ SectionTop(l, 1) \in Nat
  BY <1>1, <1>4
<1> HIDE DEF w, s
<1> QED BY <1>2, <1>4, <1>6, <1>7, <1>8 DEF t, w, s

\* It is that of the section on screen where there is one, and the greatest
\* section with a link tells it.
LEMMA ScreenFacts ==
  ASSUME NEW l \in Layouts, NEW y \in Nat
  PROVE  LET hits == {k \in Sections(l) : LinkOf(l, y, k) # 0}
             last == CHOOSE k \in hits : \A j \in hits : j <= k
         IN  /\ hits # {} => LinkOf(l, y, last) \in Sections(l)
             /\ Placed(l, y) => hits # {} /\ LinkOf(l, y, last) = OnScreen(l, y)
             /\ \A k \in Sections(l) :
                  y + l.window < ScrollHeight(l) /\ y > SectionTop(l, 1) /\ InSection(l, y + TopHeight(l), k)
                    => OnScreen(l, y) = k
<1> DEFINE hits == {k \in Sections(l) : LinkOf(l, y, k) # 0}
           last == CHOOSE k \in hits : \A j \in hits : j <= k
           n == LastSection(l)
           p == y + TopHeight(l)
<1> SUFFICES /\ hits # {} => LinkOf(l, y, last) \in Sections(l)
             /\ Placed(l, y) => hits # {} /\ LinkOf(l, y, last) = OnScreen(l, y)
             /\ \A k \in Sections(l) :
                  y + l.window < ScrollHeight(l) /\ y > SectionTop(l, 1) /\ InSection(l, p, k)
                    => OnScreen(l, y) = k
  OBVIOUS
<1>1. n \in Nat \ {0} /\ Sections(l) = 1 .. n /\ 1 \in Sections(l) /\ n \in Sections(l)
  BY LayoutFacts
<1>2. /\ p \in Nat /\ ScrollHeight(l) \in Nat /\ l.window \in Nat /\ y + l.window \in Nat
      /\ SectionTop(l, 1) \in Nat /\ TopHeight(l) \in Nat
  <2>1. l.window \in Nat
    BY LayoutFacts
  <2>2. TopHeight(l) \in Nat /\ ScrollHeight(l) \in Nat /\ SectionTop(l, 1) \in Nat
    BY <1>1, LinkFacts
  <2> QED BY <2>1, <2>2
<1>3. hits # {} => last \in hits /\ last \in Sections(l)
  <2>1. hits \in SUBSET (1 .. n)
    BY <1>1
  <2>2. hits # {} => last \in hits
    <3> HIDE DEF hits, n
    <3> QED BY <1>1, <2>1, LastOf
  <2> QED BY <2>2
<1> HIDE DEF last, n
<1>4. CASE y + l.window >= ScrollHeight(l)
  <2>1. \A k \in Sections(l) : LinkOf(l, y, k) = n
    BY <1>4, LinkFacts DEF n
  <2>2. n # 0 /\ OnScreen(l, y) = n
    BY <1>1, <1>4 DEF OnScreen, n
  <2>3. ~(y + l.window < ScrollHeight(l))
    BY <1>2, <1>4
  <2> QED BY <1>1, <1>3, <2>1, <2>2, <2>3
<1>5. CASE y + l.window < ScrollHeight(l) /\ y <= SectionTop(l, 1)
  <2>1. \A k \in Sections(l) : LinkOf(l, y, k) = 1
    BY <1>5, LinkFacts
  <2>2. OnScreen(l, y) = 1
    BY <1>2, <1>5 DEF OnScreen
  <2>3. ~(y > SectionTop(l, 1))
    BY <1>2, <1>5
  <2> QED BY <1>1, <1>3, <2>1, <2>2, <2>3
<1>6. CASE y + l.window < ScrollHeight(l) /\ y > SectionTop(l, 1)
  <2>1. \A k \in Sections(l) : LinkOf(l, y, k) = IF InSection(l, p, k) THEN k ELSE 0
    BY <1>6, LinkFacts
  <2>2. ASSUME NEW k \in Sections(l), InSection(l, p, k)
        PROVE  OnScreen(l, y) = k /\ hits = {k}
    <3> DEFINE begun == {j \in Sections(l) : SectionTop(l, j) < p}
               g == CHOOSE j \in begun : \A i \in begun : i <= j
    <3>1. \A j \in Sections(l) : SectionTop(l, j) < p => j <= k
      BY <1>2, <2>2, InOneSection
    <3>2. k \in begun /\ begun \in SUBSET (1 .. n) /\ \A j \in begun : j <= k
      BY <1>1, <2>2, <3>1 DEF InSection
    <3>3. g \in begun /\ \A j \in begun : j <= g
      <4> HIDE DEF begun
      <4> QED BY <1>1, <3>2, LastOf
    <3>4. OnScreen(l, y) = g
      BY <1>2, <1>6 DEF OnScreen
    <3> HIDE DEF g
    <3>5. g = k
      <4>1. g \in Nat /\ k \in Nat
        BY <1>1, <3>2, <3>3
      <4> QED BY <3>2, <3>3, <4>1
    <3>6. ASSUME NEW j \in hits PROVE j = k
      <4>1. InSection(l, p, j) /\ j \in 1 .. n /\ k \in 1 .. n
        BY <1>1, <2>1
      <4>2. j <= k /\ k <= j
        BY <1>1, <1>2, <2>2, <4>1, InOneSection DEF InSection
      <4> QED BY <1>1, <4>1, <4>2
    <3>7. k \in hits
      BY <1>1, <2>1, <2>2
    <3> QED BY <3>4, <3>5, <3>6, <3>7
  <2>3. ASSUME Placed(l, y) PROVE \E k \in Sections(l) : InSection(l, p, k)
    BY <1>2, <1>6, <2>3 DEF Placed
  <2>4. ASSUME hits # {} PROVE LinkOf(l, y, last) = last /\ last \in Sections(l)
    BY <1>3, <2>1, <2>4
  <2>5. ASSUME Placed(l, y) PROVE hits # {} /\ LinkOf(l, y, last) = OnScreen(l, y)
    <3>1. PICK k \in Sections(l) : InSection(l, p, k)
      BY <2>3, <2>5
    <3>2. OnScreen(l, y) = k /\ hits = {k}
      BY <2>2, <3>1
    <3>3. last = k
      BY <1>3, <3>2
    <3> QED BY <2>4, <3>2, <3>3
  <2> HIDE DEF hits
  <2> QED BY <2>2, <2>4, <2>5
<1> QED BY <1>2, <1>4, <1>5, <1>6

\* What looking at the sections makes of a good state of the page.
LEMMA UpdateFacts ==
  ASSUME NEW n \in Navs, n.lastY = n.y, n.fresh => n.tab = 1,
         n.selected \in {{n.tab}, {}}, \A t \in Tabs : n.texts[t] = IF t = n.tab THEN 1 ELSE 0,
         Placed(n.layout, n.y) \/ \E k \in Sections(n.layout) : n.links = {k}
  PROVE  LET m == UpdateActiveSection(n)
         IN  /\ n.tab = 1 \/ (\E k \in Sections(n.layout) : n.links = {k}) => GoodNav(m)
             /\ m.y = n.y /\ m.layout = n.layout /\ m.tab = n.tab /\ m.direction = n.direction
             /\ n.tab = 1 /\ Placed(n.layout, n.y) => m.links = {OnScreen(n.layout, n.y)}
<1> DEFINE m == UpdateActiveSection(n)
           l == n.layout
           y == n.y
           hits == {k \in Sections(l) : LinkOf(l, y, k) # 0}
           last == CHOOSE k \in hits : \A j \in hits : j <= k
           link == LinkOf(l, y, last)
<1>1. l \in Layouts /\ y \in Nat /\ n.tab \in Tabs
  BY DEF Navs
<1>2. /\ hits # {} => link \in Sections(l)
      /\ Placed(l, y) => hits # {} /\ link = OnScreen(l, y)
  <2> HIDE DEF l, y
  <2> QED BY <1>1, ScreenFacts
<1>3. Sections(l) \subseteq Nat
  <2>1. Sections(l) = 1 .. LastSection(l) /\ LastSection(l) \in Nat
    BY <1>1, LayoutFacts
  <2> QED BY <2>1
<1>4. m = IF n.tab # 1 \/ hits = {} THEN n ELSE [n EXCEPT !.links = {link}, !.fresh = TRUE]
  BY DEF UpdateActiveSection
<1> HIDE DEF m, l, y, hits, link
<1>5. CASE n.tab # 1
  <2>1. m = n /\ ~n.fresh
    BY <1>4, <1>5
  <2> QED BY <1>5, <2>1 DEF GoodNav, m
<1>6. CASE n.tab = 1 /\ hits = {}
  <2>1. m = n /\ ~Placed(l, y) /\ \E k \in Sections(l) : n.links = {k}
    BY <1>2, <1>4, <1>6 DEF l, y
  <2> QED BY <2>1 DEF GoodNav, m, l, y
<1>7. CASE n.tab = 1 /\ hits # {}
  <2>1. m = [n EXCEPT !.links = {link}, !.fresh = TRUE] /\ link \in Sections(l) /\ {link} \in SUBSET Nat
    BY <1>2, <1>3, <1>4, <1>7
  <2>2. /\ m \in Navs /\ m.links = {link} /\ m.layout = l /\ m.y = y /\ m.lastY = n.lastY
        /\ m.tab = n.tab /\ m.selected = n.selected /\ m.texts = n.texts /\ m.direction = n.direction
    BY <2>1 DEF Navs, l, y
  <2>3. Placed(l, y) => m.links = {OnScreen(l, y)}
    BY <1>2, <2>2
  <2>4. GoodNav(m)
    BY <1>7, <2>1, <2>2, <2>3 DEF GoodNav, y
  <2> QED BY <2>2, <2>3, <2>4 DEF m, l, y
<1> QED BY <1>5, <1>6, <1>7

LEMMA NavStarts == NavInits # {} /\ \A n \in NavInits : GoodNav(n)
<1> DEFINE page(l, told) ==
      [layout |-> l, tab |-> 1, selected |-> told, texts |-> [t \in Tabs |-> IF t = 1 THEN 1 ELSE 0],
       y |-> 0, lastY |-> 0, direction |-> "none", links |-> {}, fresh |-> FALSE]
      first(l, told) == UpdateActiveSection(page(l, told))
<1>1. NavInits = {first(l, told) : l \in Layouts, told \in {{}, {1}}}
  BY DEF NavInits
<1>2. ASSUME NEW l \in Layouts, NEW told \in {{}, {1}} PROVE GoodNav(first(l, told))
  <2> DEFINE n == page(l, told)
  <2>1. [t \in Tabs |-> IF t = 1 THEN 1 ELSE 0] \in [Tabs -> Nat]
    OBVIOUS
  <2>2. told \in SUBSET Tabs /\ 1 \in Tabs
    BY DEF Tabs
  <2>3. n \in Navs
    BY <2>1, <2>2 DEF Navs
  <2>4. /\ n.layout = l /\ n.tab = 1 /\ n.selected = told /\ n.y = 0 /\ n.lastY = 0 /\ ~n.fresh
        /\ \A t \in Tabs : n.texts[t] = IF t = 1 THEN 1 ELSE 0
    OBVIOUS
  <2>5. Placed(l, 0)
    <3>1. 1 \in 1 .. LastSection(l)
      BY LayoutFacts
    <3>2. SectionTop(l, 1) \in Nat
      BY <3>1, LayoutFacts
    <3> QED BY <3>2 DEF Placed
  <2> HIDE DEF n, page
  <2>6. GoodNav(UpdateActiveSection(n))
    BY <2>3, <2>4, <2>5, UpdateFacts
  <2> QED BY <2>6 DEF n
<1> HIDE DEF first
<1>3. PICK l \in Layouts : l \in Layouts
  BY LayoutsAssumption
<1>4. first(l, {}) \in NavInits
  BY <1>1, <1>3
<1> QED BY <1>1, <1>2, <1>4

\* The direction of a scroll from one position to another.
Directed(l, from, to) == IF to <= l.above + 50 THEN "none"
                         ELSE IF to > from THEN "down" ELSE "up"

LEMMA ScrolledFacts ==
  ASSUME NEW n, GoodNav(n), NEW y \in Nat
  PROVE  LET m == ScrolledTo(n, y)
         IN  /\ GoodNav(m) /\ m.y = y /\ m.layout = n.layout
             /\ y # n.y => m.direction = Directed(n.layout, n.y, y)
             /\ n.tab = 1 /\ Placed(n.layout, y) => m.links = {OnScreen(n.layout, y)}
<1> DEFINE l == n.layout
           below == y > l.above + 50
           dir == IF below /\ y > n.lastY THEN "down" ELSE IF below /\ y < n.lastY THEN "up" ELSE "none"
           s == HandleScrollDirection([n EXCEPT !.y = y])
<1>1. n \in Navs /\ n.lastY = n.y /\ n.y \in Nat /\ l \in Layouts
  BY DEF GoodNav, Navs
<1>2. s = [n EXCEPT !.y = y, !.direction = dir, !.lastY = y]
  <2> DEFINE a == [n EXCEPT !.y = y]
  <2>1. a.y = y /\ a.layout = l /\ a.lastY = n.lastY
    BY <1>1 DEF Navs
  <2>2. HandleScrollDirection(a) = [a EXCEPT !.direction = dir, !.lastY = y]
    <3> HIDE DEF a
    <3> QED BY <2>1 DEF HandleScrollDirection
  <2> QED BY <1>1, <2>2 DEF Navs
<1>3. dir \in {"up", "down", "none"}
  OBVIOUS
<1>4. y # n.y => dir = Directed(l, n.y, y)
  <2>1. l.above \in Nat
    BY <1>1, LayoutFacts
  <2> QED BY <1>1, <2>1 DEF Directed
<1> HIDE DEF dir, s, l
<1>5. /\ s \in Navs /\ s.layout = l /\ s.y = y /\ s.lastY = y /\ s.direction = dir /\ s.tab = n.tab
      /\ s.links = n.links /\ s.selected = n.selected /\ s.texts = n.texts /\ s.fresh = n.fresh
  BY <1>1, <1>2, <1>3 DEF Navs, l
<1>6. \E k \in Sections(l) : s.links = {k}
  BY <1>5 DEF GoodNav, l
<1> DEFINE m == UpdateActiveSection(s)
<1>7. /\ GoodNav(m) /\ m.y = y /\ m.layout = l /\ m.direction = dir
      /\ n.tab = 1 /\ Placed(l, y) => m.links = {OnScreen(l, y)}
  <2>1. /\ s.fresh => s.tab = 1
        /\ s.selected \in {{s.tab}, {}}
        /\ \A t \in Tabs : s.texts[t] = IF t = s.tab THEN 1 ELSE 0
    BY <1>5 DEF GoodNav
  <2>2. /\ GoodNav(m) /\ m.y = s.y /\ m.layout = s.layout /\ m.direction = s.direction
        /\ s.tab = 1 /\ Placed(s.layout, s.y) => m.links = {OnScreen(s.layout, s.y)}
    <3> HIDE DEF m
    <3> QED BY <1>5, <1>6, <2>1, UpdateFacts DEF m
  <2> QED BY <1>5, <2>2
<1> HIDE DEF m
<1>8. ScrolledTo(n, y) = m
  BY DEF ScrolledTo, m, s
<1> QED BY <1>4, <1>7, <1>8 DEF l

\* Following a link is scrolling, too.
LEMMA LinkScrolls ==
  ASSUME GoodNav(nav), NEW k \in Sections(nav.layout), ClickLink(k)
  PROVE  LET l == nav.layout
             y == IF GoalOf(l, k) > MaxScroll(l) THEN MaxScroll(l) ELSE GoalOf(l, k)
         IN  /\ y \in Nat /\ nav' = ScrolledTo(nav, y) /\ nav.tab = 1 /\ MaxScroll(l) \in Nat
             /\ SectionTop(l, k) \in Nat /\ l.header \in Nat
<1> DEFINE l == nav.layout
<1>1. l \in Layouts
  BY DEF GoodNav, Navs
<1> HIDE DEF l
<1>2. /\ LastSection(l) \in Nat /\ k \in 1 .. LastSection(l) /\ l.window \in Nat /\ l.header \in Nat
  BY <1>1, LayoutFacts DEF l
<1>4. SectionTop(l, k) \in Nat
  BY <1>1, <1>2, LayoutFacts
<1>5. ScrollHeight(l) \in Nat
  BY <1>1, LinkFacts DEF l
<1>6. MaxScroll(l) \in Nat
  BY <1>2, <1>5 DEF MaxScroll
<1>7. GoalOf(l, k) \in Nat
  BY <1>2, <1>4 DEF GoalOf
<1> QED BY <1>2, <1>4, <1>6, <1>7 DEF ClickLink, l

LEMMA NavNextKeeps ==
  ASSUME GoodNav(nav), NavNext
  PROVE  GoodNav(nav') /\ DirectionOfScroll
<1>1. nav \in Navs /\ nav.layout \in Layouts
  BY DEF GoodNav, Navs
<1>2. ASSUME NEW t \in Tabs, ClickTab(t) PROVE GoodNav(nav') /\ nav'.y = nav.y
  <2> DEFINE old == [u \in Tabs |-> IF nav.texts[u] > 0 THEN nav.texts[u] - 1 ELSE 0]
             texts == [old EXCEPT ![t] = @ + 1]
             fresh == nav.fresh /\ t = nav.tab
  <2>1. old = [u \in Tabs |-> 0]
    BY DEF GoodNav
  <2>2. texts = [u \in Tabs |-> IF u = t THEN 1 ELSE 0]
    <3> HIDE DEF old
    <3>1. old[t] + 1 = 1
      BY <2>1
    <3>2. texts = [old EXCEPT ![t] = 1]
      BY <3>1
    <3> QED BY <2>1, <3>2
  <2>3. nav' = [nav EXCEPT !.tab = t, !.selected = {t}, !.texts = texts, !.fresh = fresh]
    BY <1>1, <1>2 DEF ClickTab, ResetTabs, Navs
  <2> HIDE DEF texts, old
  <2>4. texts \in [Tabs -> Nat]
    BY <2>2
  <2>5. fresh \in BOOLEAN /\ {t} \in SUBSET Tabs
    OBVIOUS
  <2> HIDE DEF fresh
  <2>6. /\ nav' \in Navs /\ nav'.tab = t /\ nav'.selected = {t} /\ nav'.texts = texts
        /\ nav'.fresh = fresh /\ nav'.y = nav.y /\ nav'.lastY = nav.lastY
        /\ nav'.layout = nav.layout /\ nav'.links = nav.links
    BY <1>1, <2>3, <2>4, <2>5 DEF Navs
  <2>7. /\ nav'.lastY = nav'.y /\ nav'.selected \in {{nav'.tab}, {}}
        /\ \A u \in Tabs : nav'.texts[u] = IF u = nav'.tab THEN 1 ELSE 0
        /\ \E k \in Sections(nav'.layout) : nav'.links = {k}
    BY <2>2, <2>6 DEF GoodNav
  <2>8. nav'.fresh => nav.fresh /\ nav'.tab = 1
    BY <2>6 DEF GoodNav, fresh
  <2>9. nav'.fresh /\ Placed(nav'.layout, nav'.y) => nav'.links = {OnScreen(nav'.layout, nav'.y)}
    BY <2>6, <2>8 DEF GoodNav
  <2> QED BY <2>6, <2>7, <2>8, <2>9 DEF GoodNav
<1>3. ASSUME NEW y \in 0 .. MaxScroll(nav.layout), ScrollPage(y)
      PROVE  GoodNav(nav') /\ (nav'.y # nav.y => nav'.direction = Directed(nav.layout, nav.y, nav'.y))
  <2>1. y \in Nat
    OBVIOUS
  <2> QED BY <1>3, <2>1, ScrolledFacts DEF ScrollPage
<1>4. ASSUME NEW k \in Sections(nav.layout), ClickLink(k)
      PROVE  GoodNav(nav') /\ (nav'.y # nav.y => nav'.direction = Directed(nav.layout, nav.y, nav'.y))
  <2>1. PICK y \in Nat : nav' = ScrolledTo(nav, y)
    BY <1>4, LinkScrolls
  <2> QED BY <2>1, ScrolledFacts
<1> QED BY <1>2, <1>3, <1>4 DEF NavNext, DirectionOfScroll, Directed

\* Where the page can be scrolled to, the link that was followed is active.
LEMMA FollowedHolds ==
  ASSUME GoodNav(nav)
  PROVE  FollowedLinkActive
<1> DEFINE l == nav.layout
<1>1. l \in Layouts
  BY DEF GoodNav, Navs
<1> SUFFICES ASSUME NEW k \in Sections(l), ClickLink(k), GoalOf(l, k) < MaxScroll(l),
                    \/ k = 1
                    \/ /\ GoalOf(l, k) > SectionTop(l, 1) /\ l.header < TopHeight(l)
                       /\ TopHeight(l) <= l.header + l.heights[k]
             PROVE  nav'.links = {k}
  BY DEF FollowedLinkActive
<1> DEFINE y == GoalOf(l, k)
           p == y + TopHeight(l)
<1>2. y \in Nat /\ nav' = ScrolledTo(nav, y) /\ nav.tab = 1 /\ MaxScroll(l) \in Nat
      /\ SectionTop(l, k) \in Nat /\ l.header \in Nat
  <2>1. y \in Nat
    <3>1. SectionTop(l, k) \in Nat /\ l.header \in Nat
      BY LinkScrolls
    <3> QED BY <3>1 DEF GoalOf
  <2>2. ~(y > MaxScroll(l))
    <3>1. MaxScroll(l) \in Nat
      BY LinkScrolls
    <3> QED BY <2>1, <3>1
  <2> QED BY <2>1, <2>2, LinkScrolls
<1>3. Placed(l, y) => nav'.links = {OnScreen(l, y)}
  BY <1>2, ScrolledFacts
<1> HIDE DEF l, y
<1>4. /\ LastSection(l) \in Nat \ {0} /\ k \in 1 .. LastSection(l) /\ l.window \in Nat
      /\ Bottom(l, k) = SectionTop(l, k) + l.heights[k] /\ l.heights[k] \in Nat
      /\ k \in Sections(l)
  BY <1>1, LayoutFacts DEF l
<1>5. ScrollHeight(l) \in Nat /\ TopHeight(l) \in Nat /\ SectionTop(l, 1) \in Nat
  BY <1>1, <1>2, LinkFacts
<1>6. y + l.window < ScrollHeight(l)
  BY <1>2, <1>4, <1>5 DEF MaxScroll, y
<1>7. CASE y <= SectionTop(l, 1)
  <2>1. k = 1
    BY <1>2, <1>5, <1>4, <1>7 DEF y
  <2>2. Placed(l, y) /\ OnScreen(l, y) = 1
    BY <1>2, <1>4, <1>5, <1>6, <1>7 DEF Placed, OnScreen
  <2> QED BY <1>3, <2>1, <2>2
<1>8. CASE y > SectionTop(l, 1)
  <2>1. SectionTop(l, k) > l.header /\ y = SectionTop(l, k) - l.header
    BY <1>2, <1>4, <1>5, <1>8 DEF y, GoalOf
  <2>2. k # 1
    BY <1>2, <1>4, <1>5, <1>8, <2>1
  <2>3. l.header < TopHeight(l) /\ TopHeight(l) <= l.header + l.heights[k]
    BY <2>2 DEF l
  <2>4. InSection(l, p, k)
    <3> DEFINE b == SectionTop(l, k)   e == Bottom(l, k)   h == l.heights[k]   t == TopHeight(l)
               r == l.header
    <3>1. /\ b \in Nat /\ h \in Nat /\ t \in Nat /\ r \in Nat /\ e = b + h /\ y = b - r
          /\ r < t /\ t <= r + h
      BY <1>2, <1>4, <1>5, <2>1, <2>3
    <3>2. b < y + t /\ y + t <= e
      <4> HIDE DEF b, e, h, t, r
      <4> QED BY <3>1
    <3> QED BY <3>2 DEF InSection
  <2>5. OnScreen(l, y) = k
    BY <1>1, <1>2, <1>4, <1>6, <1>8, <2>4, ScreenFacts
  <2>6. Placed(l, y)
    BY <1>4, <2>4 DEF Placed
  <2> QED BY <1>3, <2>5, <2>6
<1> QED BY <1>2, <1>5, <1>4, <1>7, <1>8

\* What the invariant says of the properties.
LEMMA NavHolds ==
  ASSUME GoodNav(nav)
  PROVE  /\ nav.links \subseteq Sections(nav.layout) /\ Cardinality(nav.links) = 1
         /\ nav.tab \in Tabs /\ TabsTold /\ LinkOfSection
<1>1. nav \in Navs /\ nav.layout \in Layouts
  BY DEF GoodNav, Navs
<1>2. PICK k \in Sections(nav.layout) : nav.links = {k}
  BY DEF GoodNav
<1>3. Cardinality(nav.links) = 1
  BY <1>2, FS_Singleton
<1>4. ASSUME nav.y = MaxScroll(nav.layout) PROVE nav.y + nav.layout.window >= ScrollHeight(nav.layout)
  <2> DEFINE l == nav.layout
  <2>1. l.window \in Nat /\ 1 \in Sections(l)
    BY <1>1, LayoutFacts
  <2>2. ScrollHeight(l) \in Nat
    BY <1>1, <2>1, LinkFacts
  <2> QED BY <1>4, <2>1, <2>2 DEF MaxScroll
<1>5. LinkOfSection
  BY <1>4 DEF LinkOfSection, GoodNav, Placed
<1> QED BY <1>1, <1>2, <1>3, <1>5 DEF TabsTold, GoodNav, Navs

-----------------------------------------------------------------------------
(* Accordions, disclosures and boxes *)

GoodFold(f) ==
  /\ f \in [multi : BOOLEAN, active : SUBSET Folds, expanded : SUBSET Folds,
            shown : SUBSET Disclosures, told : SUBSET Disclosures, inert : SUBSET Disclosures]
  /\ f.expanded = f.active /\ f.told = f.shown /\ f.inert = Disclosures \ f.shown

LEMMA FoldStarts == FoldInits # {} /\ \A f \in FoldInits : GoodFold(f)
<1>1. FoldInits # {}
  <2> DEFINE loaded(m, a, d) == [multi |-> m, active |-> a, expanded |-> a, shown |-> d, told |-> d,
                                 inert |-> Disclosures \ d]
  <2>1. FoldInits = {loaded(m, a, d) : m \in BOOLEAN, a \in SUBSET Folds, d \in SUBSET Disclosures}
    BY DEF FoldInits
  <2> HIDE DEF loaded
  <2>2. PICK m \in BOOLEAN : TRUE
    OBVIOUS
  <2>3. loaded(m, {}, {}) \in FoldInits
    BY <2>1, <2>2
  <2> QED BY <2>3
<1>2. \A f \in FoldInits : GoodFold(f)
  BY DEF FoldInits, GoodFold
<1> QED BY <1>1, <1>2

LEMMA FoldNextKeeps ==
  ASSUME GoodFold(fold), FoldNext
  PROVE  GoodFold(fold') /\ OneItemOpen
<1>1. ASSUME NEW i \in Folds, ToggleFold(i) PROVE GoodFold(fold') /\ OneItemOpen
  <2> DEFINE kept == IF fold.multi \/ i \in fold.active THEN fold
                     ELSE [fold EXCEPT !.active = {}, !.expanded = {}]
  <2>1. /\ GoodFold(kept)
        /\ kept = fold \/ (~fold.multi /\ i \notin fold.active /\ kept.active = {})
        /\ fold.multi \/ i \in fold.active \/ kept.active = {}
    BY DEF GoodFold
  <2>2. fold' = IF i \in fold.expanded
                THEN [kept EXCEPT !.active = @ \ {i}, !.expanded = @ \ {i}]
                ELSE [kept EXCEPT !.active = @ \cup {i}, !.expanded = @ \cup {i}]
    BY <1>1 DEF ToggleFold
  <2> HIDE DEF kept
  <2>3. GoodFold(fold')
    BY <2>1, <2>2 DEF GoodFold
  <2>4. ASSUME ~fold.multi, fold'.active \ fold.active # {} PROVE Cardinality(fold'.active) = 1
    <3>1. i \notin fold.active
      BY <2>1, <2>2, <2>4 DEF GoodFold
    <3>2. fold'.active = {i}
      BY <2>1, <2>2, <2>4, <3>1 DEF GoodFold
    <3> QED BY <3>2, FS_Singleton
  <2> QED BY <2>3, <2>4 DEF OneItemOpen
<1>2. ASSUME NEW d \in Disclosures, ToggleDisclosure(d) PROVE GoodFold(fold') /\ OneItemOpen
  <2>1. GoodFold(fold') /\ fold'.active = fold.active
    BY <1>2 DEF ToggleDisclosure, GoodFold
  <2> QED BY <2>1 DEF OneItemOpen
<1> QED BY <1>1, <1>2 DEF FoldNext

LEMMA FoldHolds ==
  ASSUME GoodFold(fold)
  PROVE  fold.active \subseteq Folds /\ fold.shown \subseteq Disclosures /\ FoldsTold
BY DEF GoodFold, FoldsTold

\* One radio button is checked, now and in the page as loaded; a handler takes
\* a box for checked that has a frame, and a frame is right unless it is stale.
GoodChoice(c) ==
  /\ c \in [checked : SUBSET (Boxes \cup Radios), framed : SUBSET (Boxes \cup Radios),
            believed : SUBSET Boxes, default : SUBSET (Boxes \cup Radios),
            stale : SUBSET Boxes, reset : BOOLEAN]
  /\ \E r \in Radios : c.checked \cap Radios = {r}
  /\ \E r \in Radios : c.default \cap Radios = {r}
  /\ \A b \in Boxes : b \in c.framed <=> b \in c.believed
  /\ \A b \in Boxes : (b \in c.framed <=> b \in c.checked) <=> b \notin c.stale
  /\ c.reset \/ c.framed \cap Radios = c.checked \cap Radios

LEMMA ChoiceStarts == ChoiceInits # {} /\ \A c \in ChoiceInits : GoodChoice(c)
<1>1. ChoiceInits # {}
  <2>1. PICK r \in Radios : TRUE
    BY ChoicesAssumption
  <2> DEFINE loaded(b, x) == [checked |-> b \cup {x}, framed |-> b \cup {x}, believed |-> b,
                              default |-> b \cup {x}, stale |-> {}, reset |-> FALSE]
  <2>2. ChoiceInits = {loaded(b, x) : b \in SUBSET Boxes, x \in Radios}
    BY DEF ChoiceInits
  <2> HIDE DEF loaded
  <2>3. {} \in SUBSET Boxes
    OBVIOUS
  <2>4. loaded({}, r) \in ChoiceInits
    BY <2>2, <2>3
  <2> QED BY <2>4
<1>2. ASSUME NEW c \in ChoiceInits PROVE GoodChoice(c)
  <2>1. PICK b \in SUBSET Boxes, r \in Radios :
          c = [checked |-> b \cup {r}, framed |-> b \cup {r}, believed |-> b, default |-> b \cup {r},
               stale |-> {}, reset |-> FALSE]
    BY DEF ChoiceInits
  <2>2. r \notin Boxes /\ (b \cup {r}) \cap Radios = {r}
    BY ChoicesAssumption
  <2> QED BY <2>1, <2>2 DEF GoodChoice
<1> QED BY <1>1, <1>2

LEMMA ChoiceNextKeeps ==
  ASSUME GoodChoice(choice), ChoiceNext
  PROVE  GoodChoice(choice')
<1>1. ASSUME NEW b \in Boxes, ClickBox(b) PROVE GoodChoice(choice')
  <2>1. b \notin Radios
    BY ChoicesAssumption
  <2>2. choice' = [choice EXCEPT
                     !.checked  = IF b \in choice.checked THEN @ \ {b} ELSE @ \cup {b},
                     !.framed   = IF b \in choice.believed THEN @ \ {b} ELSE @ \cup {b},
                     !.believed = IF b \in choice.believed THEN @ \ {b} ELSE @ \cup {b}]
    BY <1>1 DEF ClickBox, GoodChoice
  <2>3. /\ choice'.checked \cap Radios = choice.checked \cap Radios
        /\ choice'.framed \cap Radios = choice.framed \cap Radios
        /\ choice'.default = choice.default /\ choice'.stale = choice.stale /\ choice'.reset = choice.reset
    BY <2>1, <2>2 DEF GoodChoice
  <2>4. \A c \in Boxes : /\ c \in choice'.framed <=> c \in choice'.believed
                         /\ (c \in choice'.framed <=> c \in choice'.checked) <=> c \notin choice.stale
    <3> TAKE c \in Boxes
    <3>1. CASE c = b
      BY <2>2, <3>1 DEF GoodChoice
    <3>2. CASE c # b
      BY <2>2, <3>2 DEF GoodChoice
    <3> QED BY <3>1, <3>2
  <2>5. choice' \in [checked : SUBSET (Boxes \cup Radios), framed : SUBSET (Boxes \cup Radios),
                     believed : SUBSET Boxes, default : SUBSET (Boxes \cup Radios),
                     stale : SUBSET Boxes, reset : BOOLEAN]
    BY <2>2 DEF GoodChoice
  <2> QED BY <2>3, <2>4, <2>5 DEF GoodChoice
<1>2. ASSUME NEW r \in Radios, ClickRadio(r) PROVE GoodChoice(choice')
  <2>1. \A b \in Boxes : b \notin Radios
    BY ChoicesAssumption
  <2>2. /\ choice'.checked = (choice.checked \ Radios) \cup {r} /\ choice'.believed = choice.believed
        /\ choice'.framed = (choice.framed \ Radios) \cup {r} /\ choice'.reset = FALSE
        /\ choice'.default = choice.default /\ choice'.stale = choice.stale
        /\ choice' \in [checked : SUBSET (Boxes \cup Radios), framed : SUBSET (Boxes \cup Radios),
                        believed : SUBSET Boxes, default : SUBSET (Boxes \cup Radios),
                        stale : SUBSET Boxes, reset : BOOLEAN]
    BY <1>2 DEF ClickRadio, GoodChoice
  <2>3. choice'.checked \cap Radios = {r} /\ choice'.framed \cap Radios = {r}
    BY <2>2
  <2>4. \A b \in Boxes : /\ b \in choice'.framed <=> b \in choice.framed
                         /\ b \in choice'.checked <=> b \in choice.checked
    BY <2>1, <2>2
  <2> QED BY <2>2, <2>3, <2>4 DEF GoodChoice
<1>3. ASSUME ResetForm PROVE GoodChoice(choice')
  <2> DEFINE changed == {b \in Boxes : (b \in choice.checked) # (b \in choice.default)}
             moved == (choice.stale \ changed) \cup (changed \ choice.stale)
  <2>1. \A b \in Boxes : b \in changed <=> ~(b \in choice.checked <=> b \in choice.default)
    OBVIOUS
  <2>2. choice' = [choice EXCEPT !.checked = choice.default, !.stale = moved,
                                 !.reset = @ \/ choice.checked \cap Radios # choice.default \cap Radios]
    BY <1>3 DEF ResetForm, GoodChoice
  <2>3. changed \subseteq Boxes
    OBVIOUS
  <2> HIDE DEF changed
  <2>4. /\ choice'.checked = choice.default /\ choice'.stale = moved /\ choice'.believed = choice.believed
        /\ choice'.framed = choice.framed /\ choice'.default = choice.default
        /\ choice'.reset <=> choice.reset \/ choice.checked \cap Radios # choice.default \cap Radios
        /\ choice' \in [checked : SUBSET (Boxes \cup Radios), framed : SUBSET (Boxes \cup Radios),
                        believed : SUBSET Boxes, default : SUBSET (Boxes \cup Radios),
                        stale : SUBSET Boxes, reset : BOOLEAN]
    BY <2>2, <2>3 DEF GoodChoice
  <2>5. \A b \in Boxes : (b \in choice.framed <=> b \in choice.default) <=> b \notin moved
    BY <2>1 DEF GoodChoice
  <2> HIDE DEF moved
  <2> QED BY <2>4, <2>5 DEF GoodChoice
<1> QED BY <1>1, <1>2, <1>3 DEF ChoiceNext

LEMMA ChoiceHolds ==
  ASSUME GoodChoice(choice)
  PROVE  Cardinality(choice.checked \cap Radios) = 1 /\ FramesAsChecked
BY FS_Singleton DEF GoodChoice, FramesAsChecked

-----------------------------------------------------------------------------
(* The body of the mobile menu *)

Gnbs == [top : Tops, lasts : Seq(Nat), folded : BOOLEAN, away : BOOLEAN,
         link : DOMAIN ListTops, timers : Nat, hurried : BOOLEAN]

\* Every listener but the newest has seen the last scroll event.
LastsAtTop(g) ==
  /\ Len(g.lasts) > 0 => g.lasts[Len(g.lasts)] = 0
  /\ \A k \in DOMAIN g.lasts : k < Len(g.lasts) => g.lasts[k] = g.top

\* Below the top the tabs are folded as soon as something listens; they are
\* away there, or will be back, unless the body was scrolled down too soon.
TabsFollow(g) ==
  /\ g.folded <=> g.top > 0 /\ Len(g.lasts) > 1
  /\ Len(g.lasts) < 2 => ~g.away /\ g.timers = 0 /\ ~g.hurried
  /\ Len(g.lasts) = 0 => g.top = 0
  /\ ~g.hurried /\ g.timers = 0 => (g.away <=> g.top > 0 /\ Len(g.lasts) > 1)
  /\ ~g.hurried /\ g.timers > 0 => g.top = 0

LinkFits(g) ==
  IF g.top = MaxTop THEN g.link = Len(ListTops)
  ELSE \A k \in DOMAIN ListTops :
         ListTops[k] <= g.top => k <= g.link /\ ListTops[g.link] <= g.top

GoodGnb(g) == g \in Gnbs /\ LastsAtTop(g) /\ TabsFollow(g) /\ (g.lasts # <<>> => LinkFits(g))

\* Which link is active after a scroll event.
LEMMA LinkOfTop ==
  ASSUME NEW top \in Nat, NEW old \in DOMAIN ListTops
  PROVE  LET link == LinkAt(top, old)
         IN  /\ link \in DOMAIN ListTops
             /\ IF top = MaxTop THEN link = Len(ListTops)
                ELSE \A k \in DOMAIN ListTops :
                       ListTops[k] <= top => k <= link /\ ListTops[link] <= top
<1> DEFINE n == Len(ListTops)
           fit == {k \in DOMAIN ListTops : top >= ListTops[k] \/ top = MaxTop}
           last == CHOOSE k \in fit : \A j \in fit : j <= k
<1>1. n \in Nat /\ n >= 1 /\ DOMAIN ListTops = 1 .. n /\ \A k \in 1 .. n : ListTops[k] \in Nat
  BY ListsAssumption
<1>2. LinkAt(top, old) = IF fit = {} THEN old ELSE last
  BY DEF LinkAt
<1>3. fit \in SUBSET (1 .. n)
  BY <1>1
<1>4. CASE fit = {}
  BY <1>1, <1>2, <1>4
<1>5. CASE fit # {}
  <2>1. last \in fit /\ \A j \in fit : j <= last
    <3> HIDE DEF fit, n
    <3> QED BY <1>1, <1>3, <1>5, LastOf
  <2>2. LinkAt(top, old) = last
    BY <1>2, <1>5
  <2> HIDE DEF last
  <2>3. top = MaxTop => n \in fit
    BY <1>1
  <2> QED BY <1>1, <2>1, <2>2, <2>3
<1> QED BY <1>4, <1>5

LEMMA GnbStarts == GnbInits # {} /\ \A g \in GnbInits : GoodGnb(g)
<1>1. 1 \in DOMAIN ListTops /\ 0 \in Tops
  BY ListsAssumption, TopsAssumption
<1>2. <<>> \in Seq(Nat) /\ Len(<<>>) = 0 /\ DOMAIN <<>> = {}
  OBVIOUS
<1> QED BY <1>1, <1>2 DEF GnbInits, GoodGnb, Gnbs, LastsAtTop, TabsFollow

LEMMA ReturnKeeps ==
  ASSUME GoodGnb(gnb), ReturnTabs
  PROVE  GoodGnb(gnb')
<1>1. gnb \in Gnbs /\ gnb.timers \in Nat /\ gnb.timers > 0
  BY DEF GoodGnb, Gnbs, ReturnTabs
<1> DEFINE ts == gnb.timers - 1
<1>2. ts \in Nat
  BY <1>1
<1>3. gnb' = [gnb EXCEPT !.away = FALSE, !.timers = ts]
  BY <1>1 DEF ReturnTabs, Gnbs
<1>4. /\ gnb' \in Gnbs /\ gnb'.top = gnb.top /\ gnb'.lasts = gnb.lasts /\ gnb'.folded = gnb.folded
      /\ gnb'.away = FALSE /\ gnb'.link = gnb.link /\ gnb'.timers = ts /\ gnb'.hurried = gnb.hurried
  <2> HIDE DEF ts
  <2> QED BY <1>1, <1>2, <1>3 DEF Gnbs
<1>5. TabsFollow(gnb')
  <2>1. gnb.top \in Nat
    <3>1. \A t \in Tops : t \in Nat
      BY TopsAssumption
    <3>2. gnb.top \in Tops
      BY <1>1 DEF Gnbs
    <3> QED BY <3>1, <3>2
  <2>2. Len(gnb.lasts) \in Nat
    BY <1>1 DEF Gnbs
  <2> QED BY <1>1, <1>2, <1>4, <2>1, <2>2 DEF GoodGnb, TabsFollow
<1> QED BY <1>4, <1>5 DEF GoodGnb, LastsAtTop, LinkFits

LEMMA ScrollKeeps ==
  ASSUME GoodGnb(gnb), NEW top \in Tops, ScrollBody(top)
  PROVE  GoodGnb(gnb')
<1> DEFINE n == Len(gnb.lasts)
           below == top > 0 /\ gnb.lasts # <<>>
           unfold == {k \in DOMAIN gnb.lasts : top = 0 /\ top < gnb.lasts[k]}
           lasts == [k \in DOMAIN gnb.lasts |-> top]
           ts == gnb.timers + Cardinality(unfold)
           link == LinkAt(top, gnb.link)
<1>1. /\ gnb \in Gnbs /\ gnb.timers \in Nat /\ gnb.lasts \in Seq(Nat)
      /\ gnb.link \in DOMAIN ListTops /\ gnb.top \in Nat /\ top \in Nat /\ top # gnb.top
      /\ MaxTop \in Nat
  BY TopsAssumption DEF GoodGnb, Gnbs, ScrollBody
<1>2. n \in Nat /\ DOMAIN gnb.lasts = 1 .. n /\ (gnb.lasts # <<>> <=> n > 0)
  BY <1>1
<1>3. gnb' = [gnb EXCEPT !.top = top, !.link = link,
                         !.hurried = @ \/ (top > 0 /\ gnb.timers > 0),
                         !.lasts = Append(lasts, 0), !.folded = (@ \/ below) /\ unfold = {},
                         !.away = @ \/ below, !.timers = ts]
  <2> DEFINE h == gnb.hurried \/ (top > 0 /\ gnb.timers > 0)
             f == (gnb.folded \/ below) /\ unfold = {}
             a == gnb.away \/ below
             moved == [gnb EXCEPT !.top = top, !.link = link, !.hurried = h]
             heard == [moved EXCEPT !.lasts = lasts, !.folded = f, !.away = a, !.timers = ts]
  <2>1. /\ moved.top = top /\ moved.lasts = gnb.lasts /\ moved.timers = gnb.timers
        /\ moved.folded = gnb.folded /\ moved.away = gnb.away
    BY <1>1 DEF Gnbs
  <2>2. HandleTopScroll(moved) = heard
    <3> HIDE DEF moved
    <3> QED BY <2>1 DEF HandleTopScroll
  <2>3. gnb' = Register(HandleTopScroll(moved))
    BY <1>1 DEF ScrollBody, Gnbs
  <2>4. heard.lasts = lasts
    BY <1>1 DEF Gnbs
  <2>5. Register(heard) = [heard EXCEPT !.lasts = Append(lasts, 0)]
    <3> HIDE DEF heard
    <3> QED BY <2>4 DEF Register
  <2> HIDE DEF h, f, a, lasts, ts, link
  <2>6. [heard EXCEPT !.lasts = Append(lasts, 0)]
          = [gnb EXCEPT !.top = top, !.link = link, !.hurried = h, !.lasts = Append(lasts, 0),
                        !.folded = f, !.away = a, !.timers = ts]
    BY <1>1 DEF Gnbs
  <2> QED BY <2>2, <2>3, <2>5, <2>6 DEF h, f, a
<1>4. ts \in Nat /\ (unfold # {} => ts > 0) /\ (unfold = {} => ts = gnb.timers)
  <2>1. IsFiniteSet(unfold)
    <3>1. unfold \subseteq 1 .. n /\ IsFiniteSet(1 .. n)
      BY <1>2, FS_Interval
    <3> QED BY <3>1, FS_Subset
  <2> DEFINE c == Cardinality(unfold)
  <2>2. c \in Nat /\ (c = 0 <=> unfold = {})
    BY <2>1, FS_CardinalityType, FS_EmptySet
  <2> HIDE DEF c, unfold
  <2> QED BY <1>1, <2>2 DEF c
<1>5. /\ lasts \in Seq(Nat) /\ Append(lasts, 0) \in Seq(Nat) /\ Len(Append(lasts, 0)) = n + 1
      /\ Append(lasts, 0)[n + 1] = 0 /\ \A k \in 1 .. n : Append(lasts, 0)[k] = top
  <2>1. lasts \in Seq(Nat) /\ Len(lasts) = n
    BY <1>1, <1>2
  <2> HIDE DEF lasts, n
  <2>2. Append(lasts, 0) \in Seq(Nat) /\ Len(Append(lasts, 0)) = n + 1 /\ Append(lasts, 0)[n + 1] = 0
    BY <1>2, <2>1
  <2>3. \A k \in 1 .. n : lasts[k] = top
    BY <1>2 DEF lasts, n
  <2>4. \A k \in 1 .. n : Append(lasts, 0)[k] = top
    BY <1>2, <2>1, <2>3
  <2> QED BY <2>1, <2>2, <2>4
<1>6. link \in DOMAIN ListTops
  BY <1>1, LinkOfTop
<1> DEFINE all == Append(lasts, 0)
<1> HIDE DEF lasts, ts, link, n
<1>7. /\ gnb' \in Gnbs /\ gnb'.top = top /\ gnb'.lasts = all /\ gnb'.link = link /\ gnb'.timers = ts
      /\ gnb'.folded <=> (gnb.folded \/ below) /\ unfold = {}
      /\ gnb'.away <=> gnb.away \/ below
      /\ gnb'.hurried <=> gnb.hurried \/ (top > 0 /\ gnb.timers > 0)
  <2> DEFINE f == (gnb.folded \/ below) /\ unfold = {}
             a == gnb.away \/ below
             h == gnb.hurried \/ (top > 0 /\ gnb.timers > 0)
  <2>1. f \in BOOLEAN /\ a \in BOOLEAN /\ h \in BOOLEAN
    OBVIOUS
  <2>2. gnb' = [gnb EXCEPT !.top = top, !.link = link, !.hurried = h, !.lasts = all,
                           !.folded = f, !.away = a, !.timers = ts]
    BY <1>1, <1>3 DEF Gnbs
  <2>3. all \in Seq(Nat)
    BY <1>5
  <2> HIDE DEF f, a, h, all
  <2>4. /\ gnb' \in Gnbs /\ gnb'.top = top /\ gnb'.lasts = all /\ gnb'.link = link /\ gnb'.timers = ts
        /\ gnb'.folded = f /\ gnb'.away = a /\ gnb'.hurried = h
    BY <1>1, <1>4, <1>6, <2>1, <2>2, <2>3 DEF Gnbs
  <2> QED BY <2>4 DEF f, a, h
<1>8. unfold # {} <=> top = 0 /\ n > 1
  <2>1. ASSUME top = 0, n > 1 PROVE top < gnb.lasts[1]
    BY <1>1, <1>2, <2>1 DEF GoodGnb, LastsAtTop, n
  <2>2. ASSUME unfold # {} PROVE top = 0 /\ n > 1
    <3>1. PICK k \in 1 .. n : top = 0 /\ top < gnb.lasts[k]
      BY <1>2, <2>2
    <3>2. k # n
      BY <1>1, <1>2, <3>1 DEF GoodGnb, LastsAtTop, n
    <3> QED BY <1>2, <3>1, <3>2
  <2>3. n > 1 => 1 \in DOMAIN gnb.lasts
    BY <1>2
  <2> QED BY <2>1, <2>2, <2>3
<1>9. LastsAtTop(gnb')
  BY <1>2, <1>5, <1>7 DEF LastsAtTop
<1>10. TabsFollow(gnb')
  <2>1. /\ gnb.folded <=> gnb.top > 0 /\ n > 1
        /\ n < 2 => ~gnb.away /\ gnb.timers = 0 /\ ~gnb.hurried
        /\ n = 0 => gnb.top = 0
        /\ ~gnb.hurried /\ gnb.timers = 0 => (gnb.away <=> gnb.top > 0 /\ n > 1)
        /\ ~gnb.hurried /\ gnb.timers > 0 => gnb.top = 0
    BY DEF GoodGnb, TabsFollow, n
  <2>2. Len(all) = n + 1
    BY <1>5
  <2> HIDE DEF all, unfold
  <2> QED BY <1>1, <1>2, <1>4, <1>7, <1>8, <2>1, <2>2 DEF TabsFollow
<1>11. LinkFits(gnb')
  BY <1>1, <1>7, LinkOfTop DEF LinkFits, link
<1> QED BY <1>7, <1>9, <1>10, <1>11 DEF GoodGnb

LEMMA GnbNextKeeps ==
  ASSUME GoodGnb(gnb), GnbNext
  PROVE  GoodGnb(gnb')
BY ReturnKeeps, ScrollKeeps DEF GnbNext

LEMMA GnbHolds ==
  ASSUME GoodGnb(gnb)
  PROVE  gnb.top \in Tops /\ gnb.link \in DOMAIN ListTops /\ LinkOfList /\ TabsAwayBelowTop
<1>1. gnb \in Gnbs
  BY DEF GoodGnb
<1>2. LinkOfList
  BY DEF GoodGnb, LinkFits, LinkOfList
<1>3. TabsAwayBelowTop
  BY DEF GoodGnb, TabsFollow, TabsAwayBelowTop
<1> QED BY <1>1, <1>2, <1>3 DEF Gnbs

-----------------------------------------------------------------------------
(* The range of the calendar *)

Dates  == (Months \X Days) \cup {NoDate}
Ranges == Dates \X Dates
Cals == [single : BOOLEAN, month : Months, starts : Seq(Days \cup {0}),
         period : SUBSET Days, start : SUBSET Days, end : SUBSET Days, input : Ranges,
         chosen : Ranges, torn : BOOLEAN, relabelled : BOOLEAN]

\* The days from one to another; what is marked of a range with such ends, 0
\* for one that is still open; where a set of handlers takes it to start.
Span(from, to) == {d \in Days : from <= d /\ d <= to}
Shows(c, from, to) ==
  IF from = 0 THEN c.period = {}
  ELSE /\ c.start = {from} /\ c.end = (IF to = 0 THEN {} ELSE {to})
       /\ c.period = (IF to = 0 THEN {from} ELSE Span(from, to))
AllStart(c, from) == \A k \in DOMAIN c.starts : c.starts[k] = from
Expected(c) == IF c.single \/ c.chosen[2] # NoDate THEN 0 ELSE c.chosen[1][2]

\* A range is clicked in its order, a single date is both of its ends, and the
\* cells stand for the month in which they were clicked.
Chosen(c) ==
  /\ c.chosen[1] = NoDate => c.chosen[2] = NoDate
  /\ c.chosen[2] # NoDate => c.chosen[1][2] <= c.chosen[2][2]
  /\ c.single => c.chosen[2] = c.chosen[1]
  /\ Expected(c) # 0 => c.chosen[1][1] = c.month
  /\ ~c.relabelled => \A i \in {1, 2} : c.chosen[i] # NoDate => c.chosen[i][1] = c.month

GoodCal(c) ==
  /\ c \in Cals /\ Len(c.starts) > 0 /\ (c.single => AllStart(c, 0))
  /\ ~c.torn => /\ Chosen(c) /\ Shows(c, c.chosen[1][2], c.chosen[2][2])
                /\ AllStart(c, Expected(c))

\* What a date and a pair of them are.
LEMMA DateFacts ==
  /\ NoDate \in Dates /\ NoRange \in Ranges /\ NoDate[2] = 0 /\ 0 \notin Days /\ Days \subseteq Nat
  /\ \A m \in Months, d \in Days : <<m, d>> \in Dates /\ <<m, d>> # NoDate /\ <<m, d>>[2] = d
  /\ \A a \in Dates : /\ a[2] \in Days \cup {0} /\ (a = NoDate <=> a[2] = 0)
                     /\ a # NoDate => a[1] \in Months /\ a[2] \in Days /\ a = <<a[1], a[2]>>
  /\ \A r \in Ranges : r[1] \in Dates /\ r[2] \in Dates /\ r = <<r[1], r[2]>>
<1>1. 0 \notin Days /\ Days \subseteq Nat
  BY DaysAssumption
<1>2. NoDate \in Dates /\ NoDate[2] = 0 /\ NoRange \in Ranges
  BY DEF Dates, NoDate, NoRange, Ranges
<1>3. \A m \in Months, d \in Days : <<m, d>> \in Dates /\ <<m, d>> # NoDate /\ <<m, d>>[2] = d
  BY <1>1 DEF Dates, NoDate
<1>4. ASSUME NEW a \in Dates
      PROVE  /\ a[2] \in Days \cup {0} /\ (a = NoDate <=> a[2] = 0)
             /\ a # NoDate => a[1] \in Months /\ a[2] \in Days /\ a = <<a[1], a[2]>>
  BY <1>1 DEF Dates, NoDate
<1>5. \A r \in Ranges : r[1] \in Dates /\ r[2] \in Dates /\ r = <<r[1], r[2]>>
  BY DEF Ranges
<1> QED BY <1>1, <1>2, <1>3, <1>4, <1>5

LEMMA DateOf ==
  ASSUME NEW a \in Dates
  PROVE  /\ a[2] \in Days \cup {0} /\ a[2] \in Nat /\ (a = NoDate <=> a[2] = 0)
         /\ a # NoDate => a[2] \in Days /\ a = <<a[1], a[2]>>
<1>1. 0 \notin Days /\ Days \subseteq Nat
  BY DaysAssumption
<1>2. CASE a = NoDate
  BY <1>2 DEF NoDate
<1>3. CASE a \in Months \X Days
  <2>1. PICK m \in Months, d \in Days : a = <<m, d>>
    BY <1>3
  <2>2. d \in Nat /\ d # 0
    BY <1>1
  <2> QED BY <2>1, <2>2 DEF NoDate
<1> QED BY <1>2, <1>3 DEF Dates

LEMMA CalStarts == CalRangeInits # {} /\ \A c \in CalRangeInits : GoodCal(c)
<1> DEFINE loaded(single, m) ==
      [single |-> single, month |-> m, starts |-> <<0>>, period |-> {}, start |-> {}, end |-> {},
       input |-> NoRange, chosen |-> NoRange, torn |-> FALSE, relabelled |-> FALSE]
<1>1. CalRangeInits = {loaded(single, m) : single \in BOOLEAN, m \in Months}
  BY DEF CalRangeInits
<1>2. ASSUME NEW single \in BOOLEAN, NEW m \in Months PROVE GoodCal(loaded(single, m))
  <2> DEFINE c == loaded(single, m)
  <2>1. <<0>> \in Seq(Days \cup {0}) /\ Len(<<0>>) = 1 /\ DOMAIN <<0>> = {1} /\ <<0>>[1] = 0
    OBVIOUS
  <2>2. NoRange[1] = NoDate /\ NoRange[2] = NoDate /\ NoDate[2] = 0 /\ NoRange \in Ranges
    BY DateFacts DEF NoRange
  <2>3. c \in Cals
    BY <2>1, <2>2 DEF Cals
  <2>4. /\ c.starts = <<0>> /\ c.period = {} /\ c.chosen = NoRange /\ ~c.torn /\ ~c.relabelled
    OBVIOUS
  <2> HIDE DEF c, loaded
  <2>5. Expected(c) = 0 /\ AllStart(c, 0) /\ Shows(c, 0, 0)
    BY <2>1, <2>2, <2>4 DEF Expected, AllStart, Shows
  <2>6. Chosen(c)
    BY <2>2, <2>4, <2>5 DEF Chosen
  <2> QED BY <2>1, <2>2, <2>3, <2>4, <2>5, <2>6 DEF GoodCal, c
<1> HIDE DEF loaded
<1>3. PICK single \in BOOLEAN, m \in Months : TRUE
  BY DaysAssumption
<1>4. loaded(single, m) \in CalRangeInits
  BY <1>1, <1>3
<1> QED BY <1>1, <1>2, <1>4

\* What no handler of a date changes.
Same(c, h) ==
  /\ h.single = c.single /\ h.month = c.month /\ h.input = c.input /\ h.chosen = c.chosen
  /\ h.torn = c.torn /\ h.relabelled = c.relabelled /\ DOMAIN h.starts = DOMAIN c.starts

\* What one of them does.
LEMMA HandleFacts ==
  ASSUME NEW c \in Cals, NEW d \in Days, NEW k \in DOMAIN c.starts
  PROVE  LET h == Handle(c, k, d)   from == c.starts[k]
         IN  /\ h \in Cals /\ Same(c, h)
             /\ \A j \in DOMAIN c.starts : j # k => h.starts[j] = c.starts[j]
             /\ from = 0 \/ d < from =>
                  h.period = {d} /\ h.start = {d} /\ h.end = {} /\ h.starts[k] = d
             /\ ~(from = 0 \/ d < from) =>
                  /\ h.period = c.period \cup Span(from, d) /\ h.start = c.start
                  /\ h.end = c.end \cup {d} /\ h.starts[k] = 0
<1> DEFINE h == Handle(c, k, d)
           from == c.starts[k]
<1>1. c.starts \in Seq(Days \cup {0}) /\ Span(from, d) \in SUBSET Days
  BY DEF Cals, Span
<1>2. ASSUME NEW x \in Days \cup {0}
      PROVE  /\ [c.starts EXCEPT ![k] = x] \in Seq(Days \cup {0})
             /\ DOMAIN [c.starts EXCEPT ![k] = x] = DOMAIN c.starts
             /\ [c.starts EXCEPT ![k] = x][k] = x
             /\ \A j \in DOMAIN c.starts : j # k => [c.starts EXCEPT ![k] = x][j] = c.starts[j]
  BY <1>1
<1>3. CASE from = 0 \/ d < from
  <2> DEFINE starts == [c.starts EXCEPT ![k] = d]
  <2>1. h = [c EXCEPT !.period = {d}, !.start = {d}, !.end = {}, !.starts = starts]
    BY <1>3 DEF Handle, Cals
  <2>2. /\ starts \in Seq(Days \cup {0}) /\ DOMAIN starts = DOMAIN c.starts /\ starts[k] = d
        /\ \A j \in DOMAIN c.starts : j # k => starts[j] = c.starts[j]
    BY <1>2
  <2> HIDE DEF h, starts
  <2>3. /\ h \in Cals /\ h.starts = starts /\ h.period = {d} /\ h.start = {d} /\ h.end = {}
        /\ h.single = c.single /\ h.month = c.month /\ h.input = c.input /\ h.chosen = c.chosen
        /\ h.torn = c.torn /\ h.relabelled = c.relabelled
    BY <2>1, <2>2 DEF Cals
  <2> QED BY <1>3, <2>2, <2>3 DEF Same, h
<1>4. CASE ~(from = 0 \/ d < from)
  <2> DEFINE starts == [c.starts EXCEPT ![k] = 0]
  <2>1. h = [c EXCEPT !.period = c.period \cup Span(from, d), !.end = c.end \cup {d}, !.starts = starts]
    BY <1>4 DEF Handle, EndRange, Cals, Span
  <2>2. /\ starts \in Seq(Days \cup {0}) /\ DOMAIN starts = DOMAIN c.starts /\ starts[k] = 0
        /\ \A j \in DOMAIN c.starts : j # k => starts[j] = c.starts[j]
    BY <1>2
  <2> HIDE DEF h, starts
  <2>3. /\ h \in Cals /\ h.starts = starts /\ h.period = c.period \cup Span(from, d)
        /\ h.start = c.start /\ h.end = c.end \cup {d}
        /\ h.single = c.single /\ h.month = c.month /\ h.input = c.input /\ h.chosen = c.chosen
        /\ h.torn = c.torn /\ h.relabelled = c.relabelled
    BY <1>1, <2>1, <2>2 DEF Cals
  <2> QED BY <1>4, <2>2, <2>3 DEF Same, h
<1> QED BY <1>3, <1>4

\* What k handlers that agree on the start s make of a click on d.
NextStart(s, d) == IF s = 0 \/ d < s THEN d ELSE 0
Handled(c, s, d, k, h) ==
  /\ \A j \in DOMAIN c.starts : h.starts[j] = IF j <= k THEN NextStart(s, d) ELSE s
  /\ k > 0 => IF s = 0 \/ d < s THEN h.period = {d} /\ h.start = {d} /\ h.end = {}
              ELSE h.period = Span(s, d) /\ h.start = {s} /\ h.end = {d}
  /\ k = 0 => h = c

LEMMA HandledOnce ==
  ASSUME NEW c \in Cals, NEW s \in Days \cup {0}, NEW d \in Days, NEW k \in DOMAIN c.starts,
         s # 0 => c.period = {s} /\ c.start = {s} /\ c.end = {},
         NEW h \in Cals, Same(c, h), Handled(c, s, d, k - 1, h)
  PROVE  Handled(c, s, d, k, Handle(h, k, d))
<1> DEFINE g == Handle(h, k, d)
<1>1. DOMAIN c.starts = DOMAIN h.starts /\ k \in DOMAIN h.starts /\ DOMAIN c.starts \subseteq Nat \ {0}
  BY DEF Same, Cals
<1>2. /\ \A j \in DOMAIN c.starts : j # k => g.starts[j] = h.starts[j]
      /\ h.starts[k] = 0 \/ d < h.starts[k] =>
           g.period = {d} /\ g.start = {d} /\ g.end = {} /\ g.starts[k] = d
      /\ ~(h.starts[k] = 0 \/ d < h.starts[k]) =>
           /\ g.period = h.period \cup Span(h.starts[k], d) /\ g.start = h.start
           /\ g.end = h.end \cup {d} /\ g.starts[k] = 0
  BY <1>1, HandleFacts
<1>3. h.starts[k] = s
  BY <1>1 DEF Handled
<1> HIDE DEF g
<1>4. g.starts[k] = NextStart(s, d)
  BY <1>2, <1>3 DEF NextStart
<1>5. ASSUME NEW j \in DOMAIN c.starts PROVE g.starts[j] = IF j <= k THEN NextStart(s, d) ELSE s
  <2>1. j \in Nat /\ k \in Nat /\ h.starts[j] = IF j <= k - 1 THEN NextStart(s, d) ELSE s
    BY <1>1 DEF Handled
  <2>2. CASE j = k
    BY <1>4, <2>1, <2>2
  <2>3. CASE j # k
    BY <1>2, <2>1, <2>3
  <2> QED BY <2>2, <2>3
<1>6. CASE s = 0 \/ d < s
  BY <1>1, <1>2, <1>3, <1>5, <1>6 DEF Handled, g
<1>7. CASE ~(s = 0 \/ d < s)
  <2>1. s \in Days /\ s \in Nat /\ d \in Nat /\ s <= d
    BY <1>7, DateFacts
  <2>2. s \in Span(s, d) /\ {s} \cup Span(s, d) = Span(s, d)
    BY <2>1 DEF Span
  <2>3. CASE k = 1
    <3>1. h = c
      BY <2>3 DEF Handled
    <3> QED BY <1>1, <1>2, <1>3, <1>5, <1>7, <2>2, <3>1 DEF Handled, g
  <2>4. CASE k # 1
    <3>1. k - 1 > 0
      BY <1>1, <2>4
    <3>2. h.period = Span(s, d) /\ h.start = {s} /\ h.end = {d}
      BY <1>7, <3>1 DEF Handled
    <3>3. /\ g.period = h.period \cup Span(s, d) /\ g.start = h.start /\ g.end = h.end \cup {d}
      BY <1>2, <1>3, <1>7
    <3>4. g.period = Span(s, d) /\ g.start = {s} /\ g.end = {d}
      BY <3>2, <3>3
    <3>5. k # 0
      BY <1>1
    <3> QED BY <1>5, <1>7, <3>4, <3>5 DEF Handled, g
  <2> QED BY <2>3, <2>4
<1> QED BY <1>6, <1>7

\* All of them.
LEMMA HandleAllFacts ==
  ASSUME NEW c \in Cals, NEW d \in Days
  PROVE  /\ HandleAll(c, d) \in Cals /\ Same(c, HandleAll(c, d))
         /\ \A s \in Days \cup {0} :
              /\ AllStart(c, s)
              /\ s # 0 => c.period = {s} /\ c.start = {s} /\ c.end = {}
              => Handled(c, s, d, Len(c.starts), HandleAll(c, d))
<1> DEFINE n == Len(c.starts)
           V == {h \in Cals : Same(c, h)}
           F == [k \in 1 .. n |-> [h \in V |-> Handle(h, k, d)]]
           E(f) == [k \in 0 .. n |-> IF k = 0 THEN c ELSE Handle(f[k - 1], k, d)]
           heard == CHOOSE f : f = E(f)
<1>1. n \in Nat /\ DOMAIN c.starts = 1 .. n /\ \A k \in 1 .. n : k - 1 \in 0 .. n /\ k \in 0 .. n
  BY DEF Cals
<1>2. c \in V
  BY DEF Same
<1>3. ASSUME NEW h \in V, NEW k \in 1 .. n PROVE Handle(h, k, d) \in V
  <2>1. h \in Cals /\ Same(c, h) /\ k \in DOMAIN h.starts
    BY <1>1 DEF Same
  <2>2. Handle(h, k, d) \in Cals /\ Same(h, Handle(h, k, d))
    BY <2>1, HandleFacts
  <2> QED BY <2>1, <2>2 DEF Same
<1>4. F \in StepsOn(n, V)
  <2> HIDE DEF V
  <2> QED BY <1>3 DEF StepsOn
<1>5. \E f : ByRecursion(f, n, V, c, F)
  <2> HIDE DEF V, F, n
  <2> QED BY <1>1, <1>2, <1>4, Recursion
<1>6. PICK f : ByRecursion(f, n, V, c, F)
  BY <1>5
<1>7. f = E(f)
  <2>1. f \in [0 .. n -> V] /\ f[0] = c /\ \A k \in 1 .. n : f[k] = F[k][f[k - 1]]
    BY <1>6 DEF ByRecursion
  <2>2. ASSUME NEW k \in 1 .. n PROVE f[k] = Handle(f[k - 1], k, d)
    <3>1. f[k - 1] \in V
      BY <2>1, <1>1
    <3>2. F[k][f[k - 1]] = Handle(f[k - 1], k, d)
      BY <3>1
    <3> QED BY <2>1, <3>2
  <2>3. f = [k \in 0 .. n |-> f[k]]
    BY <2>1
  <2>4. \A k \in 0 .. n : k # 0 => k \in 1 .. n
    BY <1>1
  <2> HIDE DEF n, V, F
  <2> QED BY <2>1, <2>2, <2>3, <2>4
<1>8. heard = E(heard)
  BY <1>7
<1>9. heard[0] = c /\ \A k \in 1 .. n : heard[k] = Handle(heard[k - 1], k, d)
  <2>1. \A k \in 1 .. n : k \in 0 .. n /\ k # 0
    BY <1>1
  <2>2. 0 \in 0 .. n
    BY <1>1
  <2> HIDE DEF heard, n
  <2> QED BY <1>8, <2>1, <2>2
<1>10. HandleAll(c, d) = heard[n]
  BY DEF HandleAll
<1> HIDE DEF heard, E, F, V
<1>11. heard[n] \in V
  <2> DEFINE S == {k \in 0 .. n : heard[k] \in V}
  <2>1. 0 \in S
    BY <1>1, <1>2, <1>9
  <2>2. ASSUME NEW k \in 0 .. n - 1, k \in S PROVE k + 1 \in S
    <3>1. k + 1 \in 1 .. n /\ k + 1 \in 0 .. n /\ k + 1 - 1 = k
      BY <1>1
    <3> QED BY <1>3, <1>9, <2>2, <3>1
  <2> HIDE DEF S, n
  <2>3. 0 .. n \subseteq S
    BY <1>1, <2>1, <2>2, Induction
  <2>4. n \in S
    BY <1>1, <2>3
  <2> QED BY <2>4 DEF S
<1>12. ASSUME NEW s \in Days \cup {0}, AllStart(c, s),
              s # 0 => c.period = {s} /\ c.start = {s} /\ c.end = {}
       PROVE  Handled(c, s, d, n, heard[n])
  <2> DEFINE S == {k \in 0 .. n : heard[k] \in V /\ Handled(c, s, d, k, heard[k])}
  <2>1. 0 \in S
    <3>1. \A j \in DOMAIN c.starts : ~(j <= 0) /\ c.starts[j] = s
      BY <1>1, <1>12 DEF AllStart
    <3>2. Handled(c, s, d, 0, c)
      BY <3>1 DEF Handled
    <3> QED BY <1>1, <1>2, <1>9, <3>2
  <2>2. ASSUME NEW k \in 0 .. n - 1, k \in S PROVE k + 1 \in S
    <3>1. k + 1 \in 1 .. n /\ k + 1 \in 0 .. n /\ k + 1 - 1 = k
      BY <1>1
    <3>2. heard[k] \in Cals /\ Same(c, heard[k]) /\ Handled(c, s, d, k + 1 - 1, heard[k])
      BY <2>2, <3>1 DEF V
    <3>3. k + 1 \in DOMAIN c.starts /\ (s # 0 => c.period = {s} /\ c.start = {s} /\ c.end = {})
      BY <1>1, <1>12, <3>1
    <3> DEFINE j == k + 1   h == heard[k]
    <3>4. h \in Cals /\ Same(c, h) /\ Handled(c, s, d, j - 1, h) /\ j \in DOMAIN c.starts
      BY <3>2, <3>3
    <3> HIDE DEF j, h
    <3>5. Handled(c, s, d, j, Handle(h, j, d))
      BY <3>3, <3>4, HandledOnce
    <3>6. Handled(c, s, d, k + 1, Handle(heard[k], k + 1, d))
      BY <3>5 DEF j, h
    <3> QED BY <1>3, <1>9, <2>2, <3>1, <3>6
  <2> HIDE DEF S, n
  <2>3. 0 .. n \subseteq S
    BY <1>1, <2>1, <2>2, Induction
  <2>4. n \in S
    BY <1>1, <2>3
  <2> QED BY <2>4 DEF S
<1> QED BY <1>10, <1>11, <1>12 DEF V

\* The first of some cells, which stands for a date of the month.
LEMMA FirstFacts ==
  ASSUME GoodCal(cal)
  PROVE  /\ \A cells \in SUBSET Days : FirstOf(cells) \in Dates
         /\ FirstOf({}) = NoDate /\ \A x \in Days : FirstOf({x}) = <<cal.month, x>>
<1>1. cal.month \in Months
  BY DEF GoodCal, Cals
<1>2. ASSUME NEW cells \in SUBSET Days, cells # {}
      PROVE  FirstOf(cells) = <<cal.month, Least(cells)>> /\ Least(cells) \in cells
  <2>1. cells \in SUBSET Nat
    BY DateFacts
  <2> QED BY <1>2, <2>1, LeastOf DEF FirstOf, Least
<1>3. ASSUME NEW cells \in SUBSET Days PROVE FirstOf(cells) \in Dates
  <2>1. CASE cells = {}
    BY <2>1, DateFacts DEF FirstOf
  <2>2. CASE cells # {}
    <3>1. FirstOf(cells) = <<cal.month, Least(cells)>> /\ Least(cells) \in Days
      BY <1>2, <2>2
    <3> QED BY <1>1, <3>1 DEF Dates
  <2> QED BY <2>1, <2>2
<1>4. ASSUME NEW x \in Days PROVE FirstOf({x}) = <<cal.month, x>>
  <2>1. FirstOf({x}) = <<cal.month, Least({x})>> /\ Least({x}) \in {x}
    BY <1>2
  <2> QED BY <2>1
<1> QED BY <1>3, <1>4 DEF FirstOf

\* The steps of the calendar.
LEMMA SelectKeeps ==
  ASSUME GoodCal(cal), NEW d \in Days, SelectDate(d)
  PROVE  GoodCal(cal')
<1> DEFINE at == <<cal.month, d>>
           r == Choose(cal, d)
           h == IF cal.single THEN Marked(cal, d) ELSE HandleAll(cal, d)
<1>1. cal \in Cals /\ cal.month \in Months /\ cal.chosen \in Ranges /\ d \in Nat
  BY DateFacts DEF GoodCal, Cals
<1>2. at \in Dates /\ at # NoDate /\ at[1] = cal.month /\ at[2] = d /\ d # 0
  BY <1>1, DateFacts
<1>3. cal.chosen[1] \in Dates /\ cal.chosen[2] \in Dates
  BY <1>1, DateFacts
<1>4. r \in Ranges
  BY <1>2, <1>3, DateFacts DEF Choose, Ranges
<1>5. h \in Cals /\ Same(cal, h)
  <2>1. CASE cal.single
    <3>1. h = [cal EXCEPT !.period = {d}, !.start = {d}, !.end = {d}]
      BY <2>1 DEF Marked
    <3> HIDE DEF h
    <3>2. {d} \in SUBSET Days
      OBVIOUS
    <3> QED BY <1>1, <3>1, <3>2 DEF Same, Cals
  <2>2. CASE ~cal.single
    BY <1>1, <2>2, HandleAllFacts
  <2> QED BY <2>1, <2>2
<1>6. cal' = [h EXCEPT !.chosen = r, !.relabelled = FALSE]
  BY DEF SelectDate
<1> HIDE DEF h, r, at
<1>7. /\ cal' \in Cals /\ cal'.chosen = r /\ ~cal'.relabelled /\ cal'.starts = h.starts
      /\ cal'.period = h.period /\ cal'.start = h.start /\ cal'.end = h.end
      /\ cal'.single = cal.single /\ cal'.month = cal.month /\ cal'.torn = cal.torn
      /\ DOMAIN h.starts = DOMAIN cal.starts /\ Len(h.starts) = Len(cal.starts) /\ Len(h.starts) > 0
  <2>1. Len(h.starts) = Len(cal.starts)
    <3>1. h.starts \in Seq(Days \cup {0}) /\ cal.starts \in Seq(Days \cup {0})
      BY <1>1, <1>5 DEF Cals
    <3>2. DOMAIN h.starts = DOMAIN cal.starts
      BY <1>5 DEF Same
    <3> QED BY <3>1, <3>2
  <2> QED BY <1>4, <1>5, <1>6, <2>1 DEF Cals, Same, GoodCal
<1>8. CASE cal.single
  <2>1. h = [cal EXCEPT !.period = {d}, !.start = {d}, !.end = {d}] /\ r = <<at, at>>
    BY <1>8 DEF h, r, at, Choose, Marked
  <2>2. h.period = {d} /\ h.start = {d} /\ h.end = {d} /\ h.starts = cal.starts
    BY <1>1, <2>1 DEF Cals
  <2>3. {d} = Span(d, d)
    BY DateFacts DEF Span
  <2>4. AllStart(cal', 0) /\ Expected(cal') = 0
    BY <1>2, <1>7, <1>8, <2>2 DEF GoodCal, AllStart, Expected
  <2>5. r[1] = at /\ r[2] = at
    BY <2>1
  <2>6. Chosen(cal')
    <3>1. \A i \in {1, 2} : r[i] = at
      BY <2>5
    <3> QED BY <1>1, <1>2, <1>7, <1>8, <2>4, <2>5, <3>1 DEF Chosen
  <2>7. Shows(cal', d, d)
    BY <1>2, <1>7, <2>2, <2>3 DEF Shows
  <2> QED BY <1>2, <1>7, <2>4, <2>5, <2>6, <2>7 DEF GoodCal
<1>9. CASE ~cal.single /\ cal.torn
  BY <1>7, <1>9 DEF GoodCal
<1>10. CASE ~cal.single /\ ~cal.torn
  <2> DEFINE s == Expected(cal)
             from == cal.chosen[1]
             begin == from = NoDate \/ cal.chosen[2] # NoDate \/ d < from[2]
  <2>1. Chosen(cal) /\ AllStart(cal, s) /\ Shows(cal, from[2], cal.chosen[2][2])
    BY <1>10 DEF GoodCal
  <2>2. from[2] \in Days \cup {0} /\ (from = NoDate <=> from[2] = 0) /\ NoDate[2] = 0 /\ NoDate \in Dates
    <3> HIDE DEF from
    <3>1. from \in Dates
      BY <1>3 DEF from
    <3> QED BY <3>1, DateOf, DateFacts
  <2>3. /\ s \in Days \cup {0} /\ s \in Nat
        /\ s # 0 => s = from[2] /\ cal.chosen[2] = NoDate
        /\ s = 0 <=> cal.chosen[2] # NoDate \/ from = NoDate
    BY <1>10, <2>2, DateFacts DEF Expected
  <2>4. s # 0 => cal.period = {s} /\ cal.start = {s} /\ cal.end = {}
    BY <2>1, <2>2, <2>3 DEF Shows
  <2>5. Handled(cal, s, d, Len(cal.starts), h)
    BY <1>1, <1>10, <2>1, <2>3, <2>4, HandleAllFacts DEF h
  <2>6. /\ \A k \in DOMAIN cal.starts : h.starts[k] = NextStart(s, d)
        /\ s = 0 \/ d < s => h.period = {d} /\ h.start = {d} /\ h.end = {}
        /\ ~(s = 0 \/ d < s) => h.period = Span(s, d) /\ h.start = {s} /\ h.end = {d}
    <3>1. /\ \A k \in DOMAIN cal.starts : k <= Len(cal.starts)
          /\ Len(cal.starts) > 0
      BY <1>1 DEF Cals, GoodCal
    <3> QED BY <2>5, <3>1 DEF Handled
  <2>7. begin <=> s = 0 \/ d < s
    BY <2>3
  <2>8. r = IF begin THEN <<at, NoDate>> ELSE <<from, at>>
    BY <1>10 DEF r, at, Choose
  <2>9. AllStart(cal', NextStart(s, d))
    BY <1>7, <2>6 DEF AllStart
  <2> HIDE DEF s, from, begin
  <2>10. CASE begin
    <3>1. r[1] = at /\ r[2] = NoDate
      BY <2>8, <2>10
    <3>2. Expected(cal') = d /\ NextStart(s, d) = d
      BY <1>2, <1>7, <1>10, <2>7, <2>10, <3>1 DEF Expected, NextStart
    <3>3. Chosen(cal')
      BY <1>2, <1>7, <1>10, <3>1, <3>2 DEF Chosen
    <3>4. Shows(cal', d, 0)
      BY <1>2, <1>7, <2>6, <2>7, <2>10 DEF Shows
    <3> QED BY <1>2, <1>7, <1>10, <2>2, <2>9, <3>1, <3>2, <3>3, <3>4 DEF GoodCal
  <2>11. CASE ~begin
    <3>1. r[1] = from /\ r[2] = at
      BY <2>8, <2>11
    <3>2. s # 0 /\ s = from[2] /\ s <= d
      BY <1>1, <2>3, <2>7, <2>11 DEF from
    <3>3. Expected(cal') = 0 /\ NextStart(s, d) = 0
      BY <1>2, <1>7, <2>7, <2>11, <3>1 DEF Expected, NextStart
    <3>4. from[1] = cal.month
      BY <2>1, <3>2 DEF Chosen, s, from
    <3>5. Chosen(cal')
      <4>1. r[1] # NoDate /\ r[1][2] <= r[2][2] /\ r[1][1] = cal.month /\ r[2][1] = cal.month
        BY <1>2, <2>2, <3>1, <3>2, <3>4
      <4> QED BY <1>7, <1>10, <3>3, <4>1 DEF Chosen
    <3>6. Shows(cal', s, d)
      BY <1>2, <1>7, <2>6, <2>7, <2>11, <3>2 DEF Shows
    <3> QED BY <1>2, <1>7, <1>10, <2>9, <3>1, <3>2, <3>3, <3>5, <3>6 DEF GoodCal
  <2> QED BY <2>10, <2>11
<1> QED BY <1>8, <1>9, <1>10

LEMMA TodayKeeps ==
  ASSUME GoodCal(cal), SelectToday
  PROVE  GoodCal(cal')
<1> DEFINE at == <<cal.month, Today>>
           torn == cal.torn \/ StartPending
<1>1. cal \in Cals /\ cal.month \in Months /\ Today \in Days /\ torn \in BOOLEAN
  BY DaysAssumption DEF GoodCal, Cals
<1>2. at \in Dates /\ at # NoDate /\ at[1] = cal.month /\ at[2] = Today /\ Today # 0 /\ Today \in Nat
  BY <1>1, DateFacts
<1>3. <<at, at>> \in Ranges
  BY <1>2 DEF Ranges
<1>4. cal' = [cal EXCEPT !.period = {Today}, !.start = {Today}, !.end = {Today},
                         !.chosen = <<at, at>>, !.torn = torn, !.relabelled = FALSE]
  BY <1>1 DEF SelectToday, Marked, Cals
<1> HIDE DEF at, torn
<1>5. /\ cal' \in Cals /\ cal'.chosen = <<at, at>> /\ ~cal'.relabelled /\ cal'.starts = cal.starts
      /\ cal'.period = {Today} /\ cal'.start = {Today} /\ cal'.end = {Today}
      /\ cal'.single = cal.single /\ cal'.month = cal.month /\ cal'.torn = torn
  BY <1>1, <1>3, <1>4 DEF Cals
<1>6. ~torn => AllStart(cal', 0)
  BY <1>5 DEF AllStart, StartPending, torn
<1>7. Expected(cal') = 0
  BY <1>2, <1>5 DEF Expected
<1>8. {Today} = Span(Today, Today)
  BY <1>1, DateFacts DEF Span
<1>9. cal'.chosen[1] = at /\ cal'.chosen[2] = at /\ \A i \in {1, 2} : cal'.chosen[i] = at
  BY <1>5
<1>10. Chosen(cal')
  BY <1>2, <1>5, <1>7, <1>9 DEF Chosen
<1>11. Shows(cal', Today, Today)
  BY <1>2, <1>5, <1>8 DEF Shows
<1>12. cal'.single => AllStart(cal', 0)
  BY <1>5 DEF GoodCal, AllStart
<1> QED BY <1>2, <1>5, <1>6, <1>7, <1>9, <1>10, <1>11, <1>12 DEF GoodCal

LEMMA ConfirmKeeps ==
  ASSUME GoodCal(cal), ConfirmDate
  PROVE  GoodCal(cal')
<1>1. cal \in Cals /\ Value \in Ranges
  <2>1. cal \in Cals /\ cal.period \in SUBSET Days
    BY DEF GoodCal, Cals
  <2>2. cal.period \cap cal.start \in SUBSET Days /\ cal.period \cap cal.end \in SUBSET Days
    BY <2>1
  <2>3. FirstOf(cal.period \cap cal.start) \in Dates /\ FirstOf(cal.period \cap cal.end) \in Dates
    BY <2>2, FirstFacts
  <2> QED BY <2>1, <2>3 DEF Value, Ranges
<1>2. /\ cal' \in Cals /\ cal'.chosen = cal.chosen /\ cal'.relabelled = cal.relabelled
      /\ cal'.starts = cal.starts /\ cal'.period = cal.period /\ cal'.start = cal.start
      /\ cal'.end = cal.end /\ cal'.single = cal.single /\ cal'.month = cal.month
      /\ cal'.torn = cal.torn
  BY <1>1 DEF ConfirmDate, Cals
<1> QED BY <1>2 DEF GoodCal, Chosen, Shows, AllStart, Expected

LEMMA MonthKeeps ==
  ASSUME GoodCal(cal), NEW m \in Months, ChangeMonth(m)
  PROVE  GoodCal(cal')
<1> DEFINE torn == cal.torn \/ StartPending
           moved == cal.relabelled \/ (cal.period # {} /\ m # cal.month)
           starts == Append(cal.starts, 0)
<1>1. cal \in Cals /\ torn \in BOOLEAN /\ moved \in BOOLEAN /\ cal.chosen \in Ranges
  BY DEF GoodCal, Cals
<1>2. /\ starts \in Seq(Days \cup {0}) /\ Len(starts) = Len(cal.starts) + 1 /\ Len(cal.starts) \in Nat
      /\ \A k \in DOMAIN starts : IF k \in DOMAIN cal.starts THEN starts[k] = cal.starts[k] ELSE starts[k] = 0
  <2>1. cal.starts \in Seq(Days \cup {0}) /\ 0 \in Days \cup {0}
    BY <1>1 DEF Cals
  <2> QED BY <2>1
<1>3. cal' = [cal EXCEPT !.month = m, !.starts = starts, !.torn = torn, !.relabelled = moved]
  BY <1>1 DEF ChangeMonth, Cals
<1> HIDE DEF torn, moved, starts
<1>4. /\ cal' \in Cals /\ cal'.chosen = cal.chosen /\ cal'.relabelled = moved /\ cal'.starts = starts
      /\ cal'.period = cal.period /\ cal'.start = cal.start /\ cal'.end = cal.end
      /\ cal'.single = cal.single /\ cal'.month = m /\ cal'.torn = torn
  BY <1>1, <1>2, <1>3 DEF Cals
<1>5. ~torn \/ cal.single => AllStart(cal', 0)
  <2>1. ~torn \/ cal.single => \A k \in DOMAIN cal.starts : cal.starts[k] = 0
    BY DEF torn, StartPending, GoodCal, AllStart
  <2> QED BY <1>2, <1>4, <2>1 DEF AllStart
<1>6. ASSUME ~torn PROVE Chosen(cal') /\ Shows(cal', cal.chosen[1][2], cal.chosen[2][2]) /\ Expected(cal') = 0
  <2> DEFINE from == cal.chosen[1]   to == cal.chosen[2]
  <2>1. Chosen(cal) /\ Shows(cal, from[2], to[2]) /\ AllStart(cal, Expected(cal))
    BY <1>6 DEF GoodCal, torn
  <2>2. Expected(cal) = 0
    <3>1. 1 \in DOMAIN cal.starts
      BY <1>1 DEF GoodCal, Cals
    <3>2. cal.starts[1] = 0
      BY <1>6, <3>1 DEF torn, StartPending
    <3> QED BY <2>1, <3>1, <3>2 DEF AllStart
  <2>3. Expected(cal') = 0
    BY <1>4, <2>2 DEF Expected
  <2>4. Shows(cal', from[2], to[2])
    BY <1>4, <2>1 DEF Shows
  <2>5. from \in Dates /\ to \in Dates
    BY <1>1, DateFacts
  <2>6. ASSUME cal.period = {} PROVE from = NoDate /\ to = NoDate
    <3>1. ASSUME from # NoDate PROVE FALSE
      <4>1. from[2] \in Days /\ from[2] # 0 /\ from[2] \in Nat
        <5> HIDE DEF from
        <5> QED BY <2>5, <3>1, DateOf, DateFacts
      <4>2. from[2] \in cal.period
        <5>1. CASE to[2] = 0
          BY <2>1, <4>1, <5>1 DEF Shows
        <5>2. CASE to[2] # 0
          <6>1. to # NoDate /\ from[2] <= to[2]
            BY <2>1, <5>2, DateFacts DEF Chosen
          <6> QED BY <2>1, <4>1, <5>2, <6>1 DEF Shows, Span
        <5> QED BY <5>1, <5>2
      <4> QED BY <2>6, <4>2
    <3> QED BY <2>1, <3>1 DEF Chosen
  <2>7. ASSUME ~moved, NEW i \in {1, 2}, cal.chosen[i] # NoDate PROVE cal.chosen[i][1] = m
    BY <2>1, <2>6, <2>7 DEF moved, Chosen
  <2>8. Chosen(cal')
    BY <1>4, <2>1, <2>3, <2>7 DEF Chosen
  <2> QED BY <2>3, <2>4, <2>8
<1>7. Len(cal'.starts) > 0
  BY <1>2, <1>4
<1> QED BY <1>4, <1>5, <1>6, <1>7 DEF GoodCal

LEMMA CalNextKeeps ==
  ASSUME GoodCal(cal), CalRangeNext
  PROVE  GoodCal(cal')
BY SelectKeeps, TodayKeeps, ConfirmKeeps, MonthKeeps DEF CalRangeNext

\* What the invariant says of the properties.
LEMMA CalHolds ==
  ASSUME GoodCal(cal)
  PROVE  /\ cal.period \cup cal.start \cup cal.end \subseteq Days /\ cal.month \in Months
         /\ RangeAsClicked /\ InputAsClicked
<1>1. cal \in Cals /\ cal.month \in Months /\ cal.chosen \in Ranges
  BY DEF GoodCal, Cals
<1>2. cal.period \cup cal.start \cup cal.end \subseteq Days
  BY <1>1 DEF Cals
<1> DEFINE from == cal.chosen[1]   to == cal.chosen[2]
<1>3. from \in Dates /\ to \in Dates /\ cal.chosen = <<from, to>>
  BY <1>1, DateFacts
<1>4. RangeAsClicked
  BY DEF GoodCal, Shows, Span, AllStart, Expected, RangeAsClicked, CellsAsClicked, StartsAgree
<1>5. ASSUME ~cal.torn, ~cal.relabelled PROVE Value = cal.chosen
  <2>1. Chosen(cal) /\ Shows(cal, from[2], to[2])
    BY <1>5 DEF GoodCal
  <2>2. from # NoDate => from = <<cal.month, from[2]>> /\ from[2] \in Days
    <3>1. from # NoDate => from[1] = cal.month
      BY <1>5, <2>1 DEF Chosen
    <3> HIDE DEF from
    <3> QED BY <1>3, <3>1, DateOf
  <2>3. to # NoDate => to = <<cal.month, to[2]>> /\ to[2] \in Days
    <3>1. to # NoDate => to[1] = cal.month
      BY <1>5, <2>1 DEF Chosen
    <3> HIDE DEF to
    <3> QED BY <1>3, <3>1, DateOf
  <2>4. /\ from = NoDate <=> from[2] = 0
        /\ to = NoDate <=> to[2] = 0
    <3> HIDE DEF from, to
    <3> QED BY <1>3, DateOf
  <2>5. /\ FirstOf({}) = NoDate
        /\ \A x \in Days : FirstOf({x}) = <<cal.month, x>>
    BY FirstFacts
  <2>6. CASE from = NoDate
    <3>1. to = NoDate /\ cal.period = {}
      BY <2>1, <2>4, <2>6 DEF Chosen, Shows
    <3>2. cal.period \cap cal.start = {} /\ cal.period \cap cal.end = {}
      BY <3>1
    <3> QED BY <1>3, <2>5, <2>6, <3>1, <3>2 DEF Value
  <2>7. CASE from # NoDate /\ to = NoDate
    <3>1. cal.period = {from[2]} /\ cal.start = {from[2]} /\ cal.end = {}
      BY <2>1, <2>4, <2>7 DEF Shows
    <3>2. cal.period \cap cal.start = {from[2]} /\ cal.period \cap cal.end = {}
      BY <3>1
    <3>3. FirstOf(cal.period \cap cal.start) = from /\ FirstOf(cal.period \cap cal.end) = to
      BY <2>2, <2>5, <2>7, <3>2
    <3> QED BY <1>3, <3>3 DEF Value
  <2>8. CASE from # NoDate /\ to # NoDate
    <3>1. cal.period = Span(from[2], to[2]) /\ cal.start = {from[2]} /\ cal.end = {to[2]}
      BY <2>1, <2>4, <2>8 DEF Shows
    <3>2. from[2] <= to[2] /\ from[2] \in Nat /\ to[2] \in Nat
      BY <2>1, <2>2, <2>3, <2>8, DateFacts DEF Chosen
    <3>3. from[2] \in Span(from[2], to[2]) /\ to[2] \in Span(from[2], to[2])
      BY <2>2, <2>3, <2>8, <3>2 DEF Span
    <3>4. cal.period \cap cal.start = {from[2]} /\ cal.period \cap cal.end = {to[2]}
      BY <3>1, <3>3
    <3>5. FirstOf(cal.period \cap cal.start) = from /\ FirstOf(cal.period \cap cal.end) = to
      BY <2>2, <2>3, <2>5, <2>8, <3>4
    <3> QED BY <1>3, <3>5 DEF Value
  <2> QED BY <2>6, <2>7, <2>8
<1>6. ASSUME ConfirmDate PROVE cal'.input = Value
  BY <1>1, <1>6 DEF ConfirmDate, Cals
<1> QED BY <1>1, <1>2, <1>4, <1>5, <1>6 DEF InputAsClicked

-----------------------------------------------------------------------------
(* The page *)

Widgets == {"side", "nav", "fold", "choice", "gnb", "cal"}

\* The strengthening: of every widget, whichever is used.
IInv == /\ used \in Widgets
        /\ GoodSide(side) /\ GoodNav(nav) /\ GoodFold(fold)
        /\ GoodChoice(choice) /\ GoodGnb(gnb) /\ GoodCal(cal)

\* The page as loaded.
LEMMA InitIInv == Init => IInv
<1> SUFFICES ASSUME Init PROVE IInv
  OBVIOUS
<1>1. \A widget, states, s : states # {} /\ s \in InitOf(widget, states) => s \in states
  BY DEF InitOf
<1>2. GoodSide(side)
  BY <1>1, SideStarts DEF Init
<1>3. GoodNav(nav)
  BY <1>1, NavStarts DEF Init
<1>4. GoodFold(fold)
  BY <1>1, FoldStarts DEF Init
<1>5. GoodChoice(choice)
  BY <1>1, ChoiceStarts DEF Init
<1>6. GoodGnb(gnb)
  BY <1>1, GnbStarts DEF Init
<1>7. GoodCal(cal)
  BY <1>1, CalStarts DEF Init
<1> QED BY <1>2, <1>3, <1>4, <1>5, <1>6, <1>7 DEF Init, IInv, Widgets

\* Every step is one of the widget in use.
LEMMA NextIInv == IInv /\ [Next]_vars => IInv'
<1> SUFFICES ASSUME IInv, [Next]_vars PROVE IInv'
  OBVIOUS
<1>1. CASE UseSide
  BY <1>1, SideNextKeeps DEF IInv, UseSide
<1>2. CASE UseNav
  BY <1>2, NavNextKeeps DEF IInv, UseNav
<1>3. CASE UseFold
  BY <1>3, FoldNextKeeps DEF IInv, UseFold
<1>4. CASE UseChoice
  BY <1>4, ChoiceNextKeeps DEF IInv, UseChoice
<1>5. CASE UseGnb
  BY <1>5, GnbNextKeeps DEF IInv, UseGnb
<1>6. CASE UseCal
  BY <1>6, CalNextKeeps DEF IInv, UseCal
<1>7. CASE UNCHANGED vars
  BY <1>7 DEF IInv, vars
<1> QED BY <1>1, <1>2, <1>3, <1>4, <1>5, <1>6, <1>7 DEF Next

\* What the widgets announce takes place.
LEMMA StepTakesEffect ==
  IInv /\ [Next]_vars => [FollowedLinkActive /\ DirectionOfScroll /\ OneItemOpen /\ InputAsClicked]_vars
<1> SUFFICES ASSUME IInv, Next
             PROVE  FollowedLinkActive /\ DirectionOfScroll /\ OneItemOpen /\ InputAsClicked
  OBVIOUS
<1>1. FollowedLinkActive /\ InputAsClicked
  BY FollowedHolds, CalHolds DEF IInv
<1>2. DirectionOfScroll
  <2>1. CASE UseNav
    BY <2>1, NavNextKeeps DEF IInv, UseNav
  <2>2. CASE ~UseNav
    <3>1. nav' = nav
      BY <2>2 DEF Next, UseSide, UseFold, UseChoice, UseGnb, UseCal
    <3> QED BY <3>1 DEF DirectionOfScroll
  <2> QED BY <2>1, <2>2
<1>3. OneItemOpen
  <2>1. CASE UseFold
    BY <2>1, FoldNextKeeps DEF IInv, UseFold
  <2>2. CASE ~UseFold
    <3>1. fold' = fold
      BY <2>2 DEF Next, UseSide, UseNav, UseChoice, UseGnb, UseCal
    <3> QED BY <3>1 DEF OneItemOpen
  <2> QED BY <2>1, <2>2
<1> QED BY <1>1, <1>2, <1>3

LEMMA Always == Spec => []IInv
BY InitIInv, NextIInv, PTL DEF Spec

\* What the widgets of a page show is what they tell screen readers, and what
\* has the focus, the frame and the text is what has been opened, checked and
\* clicked: the side navigation, tabs, foldables and choices of ui-script.js.
THEOREM WidgetsToldHold == Spec => []WidgetsTold
<1>1. IInv => WidgetsTold
  BY SideHolds, NavHolds, FoldHolds, ChoiceHolds, GnbHolds, CalHolds DEF IInv, WidgetsTold, TypeOK
<1> QED BY <1>1, Always, PTL

\* The active links of in-page navigation and mobile menu are those of the
\* place that is on screen, for sections of any height in a window of any
\* height; the menu's tabs are away below its top (updateActiveSection and
\* handleTopScroll).
THEOREM LinksHold == Spec => []LinksOfPlace
<1>1. IInv => LinksOfPlace
  BY NavHolds, GnbHolds DEF IInv, LinksOfPlace
<1> QED BY <1>1, Always, PTL

\* The calendar's cells and all its sets of handlers are those of the range
\* that was clicked, as long as no new set came between two clicks (example()).
THEOREM RangeHolds == Spec => []RangeAsClicked
<1>1. IInv => RangeAsClicked
  BY CalHolds DEF IInv
<1> QED BY <1>1, Always, PTL

\* A link that was followed is active, the header shows itself as the page was
\* scrolled, the accordion opens one item and the input gets the clicked dates.
THEOREM EventsHold == Spec => EventsTakeEffect
<1> QED BY Always, StepTakesEffect, PTL DEF Spec, EventsTakeEffect
=============================================================================
