-------------------------- MODULE MobileMenuProofs ---------------------------
(* Theorems about MobileMenu, for any number of openings and closings of   *)
(* the menu and of its panel.                                              *)
EXTENDS MobileMenu, TLAPS

-----------------------------------------------------------------------------
(* Timers *)

TimerSet == [job : {"in", "hide"}, of : {Menu, Panel}, delay : {0, 100, 400}]

\* A timer that is set is pending, and so are those that were.
LEMMA PendingAfterSet ==
  ASSUME NEW ts \in Seq(TimerSet), NEW t \in TimerSet, NEW j, NEW o
  PROVE  /\ Append(ts, t) \in Seq(TimerSet) /\ Append(ts, t) # <<>>
         /\ Pending(Append(ts, t), j, o) <=> Pending(ts, j, o) \/ (t.job = j /\ t.of = o)
<1>1. /\ Append(ts, t) \in Seq(TimerSet) /\ Len(Append(ts, t)) = Len(ts) + 1
      /\ DOMAIN Append(ts, t) = 1 .. Len(ts) + 1 /\ DOMAIN ts = 1 .. Len(ts) /\ Len(ts) \in Nat
      /\ \A i \in DOMAIN ts : Append(ts, t)[i] = ts[i]
      /\ Append(ts, t)[Len(ts) + 1] = t
  OBVIOUS
<1>2. Pending(ts, j, o) => Pending(Append(ts, t), j, o)
  BY <1>1 DEF Pending
<1>3. t.job = j /\ t.of = o => Pending(Append(ts, t), j, o)
  BY <1>1 DEF Pending
<1>4. Pending(Append(ts, t), j, o) => Pending(ts, j, o) \/ (t.job = j /\ t.of = o)
  <2> SUFFICES ASSUME NEW i \in 1 .. Len(ts) + 1, Append(ts, t)[i].job = j, Append(ts, t)[i].of = o
               PROVE  Pending(ts, j, o) \/ (t.job = j /\ t.of = o)
    BY <1>1 DEF Pending
  <2>1. CASE i = Len(ts) + 1
    BY <1>1, <2>1
  <2>2. CASE i # Len(ts) + 1
    <3>1. i \in DOMAIN ts
      BY <1>1, <2>2
    <3> QED BY <1>1, <3>1 DEF Pending
  <2> QED BY <2>1, <2>2
<1> QED BY <1>1, <1>2, <1>3, <1>4

\* A timer that runs is no longer pending; all the others are.
LEMMA PendingAfterRun ==
  ASSUME NEW ts \in Seq(TimerSet), NEW i \in DOMAIN ts, NEW j, NEW o
  PROVE  /\ ts[i] \in TimerSet /\ Without(ts, i) \in Seq(TimerSet)
         /\ Pending(ts, ts[i].job, ts[i].of)
         /\ Pending(Without(ts, i), j, o) => Pending(ts, j, o)
         /\ Pending(ts, j, o) => Pending(Without(ts, i), j, o) \/ (ts[i].job = j /\ ts[i].of = o)
<1> DEFINE w == Without(ts, i)
<1>1. Len(ts) \in Nat /\ i \in 1 .. Len(ts) /\ DOMAIN ts = 1 .. Len(ts)
  OBVIOUS
<1>2. /\ w \in Seq(TimerSet) /\ Len(w) = Len(ts) - 1 /\ DOMAIN w = 1 .. Len(ts) - 1
      /\ \A k \in 1 .. Len(ts) - 1 : w[k] = IF k < i THEN ts[k] ELSE ts[k + 1]
  <2> DEFINE a == SubSeq(ts, 1, i - 1)
             b == SubSeq(ts, i + 1, Len(ts))
  <2>1. /\ a \in Seq(TimerSet) /\ Len(a) = i - 1
        /\ \A k \in 1 .. i - 1 : a[k] = ts[k]
    BY <1>1
  <2>2. /\ b \in Seq(TimerSet) /\ Len(b) = Len(ts) - i
        /\ \A k \in 1 .. Len(ts) - i : b[k] = ts[k + i]
    BY <1>1
  <2>3. w = a \o b
    BY DEF Without, RemoveAt
  <2> HIDE DEF a, b, w
  <2>4. /\ a \o b \in Seq(TimerSet) /\ Len(a \o b) = Len(a) + Len(b)
        /\ \A k \in 1 .. Len(a) + Len(b) : (a \o b)[k] = IF k <= Len(a) THEN a[k] ELSE b[k - Len(a)]
    BY <2>1, <2>2
  <2>8. w \in Seq(TimerSet) /\ Len(w) = (i - 1) + (Len(ts) - i)
    BY <2>1, <2>2, <2>3, <2>4
  <2>9. (i - 1) + (Len(ts) - i) = Len(ts) - 1
    BY <1>1
  <2>5. Len(w) = Len(ts) - 1 /\ DOMAIN w = 1 .. Len(ts) - 1
    BY <2>8, <2>9
  <2>6. ASSUME NEW k \in 1 .. Len(ts) - 1 PROVE w[k] = IF k < i THEN ts[k] ELSE ts[k + 1]
    <3>1. CASE k < i
      BY <1>1, <2>1, <2>2, <2>3, <2>4, <3>1
    <3>2. CASE ~(k < i)
      <4>1. k - (i - 1) \in 1 .. Len(ts) - i /\ ~(k <= i - 1) /\ k - (i - 1) + i = k + 1
            /\ k \in 1 .. (i - 1) + (Len(ts) - i)
        BY <1>1, <3>2
      <4>2. w[k] = b[k - (i - 1)]
        BY <2>1, <2>2, <2>3, <2>4, <4>1
      <4>3. b[k - (i - 1)] = ts[k - (i - 1) + i]
        BY <2>2, <4>1
      <4> QED BY <3>2, <4>1, <4>2, <4>3
    <3> QED BY <3>1, <3>2
  <2> QED BY <2>8, <2>5, <2>6
<1> HIDE DEF w
<1>3. Pending(w, j, o) => Pending(ts, j, o)
  <2> SUFFICES ASSUME NEW k \in 1 .. Len(ts) - 1, w[k].job = j, w[k].of = o
               PROVE  Pending(ts, j, o)
    BY <1>2 DEF Pending
  <2>1. k \in DOMAIN ts /\ k + 1 \in DOMAIN ts
    BY <1>1
  <2> QED BY <1>2, <2>1 DEF Pending
<1>4. ASSUME NEW k \in DOMAIN ts, ts[k].job = j, ts[k].of = o, k # i PROVE Pending(w, j, o)
  <2>1. CASE k < i
    <3>1. k \in 1 .. Len(ts) - 1 /\ w[k] = ts[k]
      BY <1>1, <1>2, <2>1
    <3> QED BY <1>2, <1>4, <3>1 DEF Pending
  <2>2. CASE k > i
    <3>1. k - 1 \in 1 .. Len(ts) - 1 /\ w[k - 1] = ts[k]
      BY <1>1, <1>2, <2>2
    <3> QED BY <1>2, <1>4, <3>1 DEF Pending
  <2> QED BY <1>1, <1>4, <2>1, <2>2
<1>5. Pending(ts, j, o) => Pending(w, j, o) \/ (ts[i].job = j /\ ts[i].of = o)
  BY <1>4 DEF Pending
<1>6. Pending(ts, ts[i].job, ts[i].of)
  BY DEF Pending
<1> QED BY <1>1, <1>2, <1>3, <1>5, <1>6 DEF w

-----------------------------------------------------------------------------
(* The inductive invariant *)

\* An opening is waiting for the end of its transition.
Waiting(ls) == \E k \in DOMAIN ls : ls[k] = "open"

Typed ==
  /\ TypeOK
  /\ displayed \in BOOLEAN /\ isOpen \in BOOLEAN /\ bodyMobile \in BOOLEAN /\ moving \in BOOLEAN
  /\ pageInert \in BOOLEAN /\ panelShown \in BOOLEAN /\ panelOpen \in BOOLEAN
  /\ timers \in Seq(TimerSet) /\ listeners \in Seq({"open", "close"})
  /\ want \in {"open", "closed"} /\ rushed \in BOOLEAN /\ panelRushed \in BOOLEAN

\* Unless it was rushed, the page is or becomes inert for an open menu only.
InertForOpen == ~rushed /\ (pageInert \/ Waiting(listeners)) => want = "open"

\* Unless it was rushed, the menu is as it was asked to be, or its timer is
\* pending, and no timer is pending that would undo it.
MenuAsAsked ==
  ~rushed =>
    /\ want = "open" => /\ displayed /\ ~Pending(timers, "hide", Menu)
                        /\ Pending(timers, "in", Menu) \/ (isOpen /\ bodyMobile)
    /\ want = "closed" => /\ ~isOpen /\ ~Pending(timers, "in", Menu)
                          /\ Pending(timers, "hide", Menu) \/ (~displayed /\ ~bodyMobile)

\* The same for the panel, which does not have the focus when it is hidden.
PanelAsAsked ==
  ~panelRushed =>
    /\ \/ panelShown /\ ~Pending(timers, "hide", Panel) /\ (panelOpen \/ Pending(timers, "in", Panel))
       \/ ~panelOpen /\ ~Pending(timers, "in", Panel) /\ (Pending(timers, "hide", Panel) \/ ~panelShown)
    /\ Pending(timers, "hide", Panel) => focus # Panel

IInv == Typed /\ InertForOpen /\ MenuAsAsked /\ PanelAsAsked /\ FocusUnderInertPage

-----------------------------------------------------------------------------
(* Every action keeps it *)

\* The bounds.
LEMMA Bounds == MaxOpens \in Nat /\ MaxCloses \in Nat /\ MaxPanels \in Nat
BY BoundsAssumption

\* A listener joins those that are registered.
LEMMA WaitingAfterAppend ==
  ASSUME NEW ls \in Seq({"open", "close"}), NEW l \in {"open", "close"}
  PROVE  /\ Append(ls, l) \in Seq({"open", "close"}) /\ Len(Append(ls, l)) = Len(ls) + 1
         /\ Waiting(Append(ls, l)) <=> Waiting(ls) \/ l = "open"
<1>1. /\ Append(ls, l) \in Seq({"open", "close"}) /\ Len(Append(ls, l)) = Len(ls) + 1
      /\ DOMAIN Append(ls, l) = 1 .. Len(ls) + 1 /\ DOMAIN ls = 1 .. Len(ls) /\ Len(ls) \in Nat
      /\ \A i \in DOMAIN ls : Append(ls, l)[i] = ls[i]
      /\ Append(ls, l)[Len(ls) + 1] = l
  OBVIOUS
<1>2. Waiting(ls) \/ l = "open" => Waiting(Append(ls, l))
  BY <1>1 DEF Waiting
<1>3. ASSUME NEW k \in 1 .. Len(ls) + 1, Append(ls, l)[k] = "open", l # "open" PROVE Waiting(ls)
  <2>1. k \in DOMAIN ls
    BY <1>1, <1>3
  <2> QED BY <1>1, <1>3, <2>1 DEF Waiting
<1> QED BY <1>1, <1>2, <1>3 DEF Waiting

\* Opening over a pending hiding is rushed; any other leaves nothing to undo it.
LEMMA KeepOpenMainMenu ==
  ASSUME IInv, OpenMainMenu
  PROVE  IInv'
<1> USE Bounds DEF IInv, Typed, menuVars, panelVars, Menu, Panel, OpenMainMenu, ListenersAfterOpen, Timer, CanOpen
<1> DEFINE t == [job |-> "in", of |-> Menu, delay |-> 100]
<1>t. t \in TimerSet /\ t.job = "in" /\ t.of = Menu
  BY DEF TimerSet
<1>p. /\ timers' \in Seq(TimerSet)
      /\ \A j \in {"in", "hide"}, o \in {Menu, Panel} :
           Pending(timers', j, o) <=> Pending(timers, j, o) \/ (j = "in" /\ o = Menu)
  BY <1>t, PendingAfterSet
<1>l. listeners' \in Seq({"open", "close"}) /\ Len(listeners') = Len(listeners) + 1
  BY WaitingAfterAppend
<1>1. Typed'
  BY <1>t, <1>p, <1>l DEF Typed, TypeOK
<1>2. InertForOpen'
  BY <1>t, <1>p, <1>l DEF InertForOpen
<1>3. MenuAsAsked'
  BY <1>t, <1>p, <1>l DEF MenuAsAsked
<1>4. PanelAsAsked'
  BY <1>t, <1>p, <1>l DEF PanelAsAsked
<1>5. FocusUnderInertPage'
  BY <1>t, <1>p, <1>l DEF FocusUnderInertPage, InertForOpen, MenuAsAsked, PanelAsAsked
<1> QED BY <1>1, <1>2, <1>3, <1>4, <1>5

\* Closing before the end of an opening is rushed; any other finds no opening
\* left that could make the page inert.
LEMMA KeepCloseMainMenu ==
  ASSUME IInv, CloseMainMenu, winSize' \in {"pc", "mob"}
  PROVE  IInv'
<1> USE Bounds DEF IInv, Typed, menuVars, panelVars, Menu, Panel, CloseMainMenu, Hide, Timer, InertAfterClose
<1> DEFINE t == [job |-> "hide", of |-> Menu, delay |-> 400]
<1>t. t \in TimerSet /\ t.job = "hide" /\ t.of = Menu
  BY DEF TimerSet
<1>p. /\ timers' \in Seq(TimerSet)
      /\ \A j \in {"in", "hide"}, o \in {Menu, Panel} :
           Pending(timers', j, o) <=> Pending(timers, j, o) \/ (j = "hide" /\ o = Menu)
  BY <1>t, PendingAfterSet
<1>l. /\ listeners' \in Seq({"open", "close"}) /\ Len(listeners') = Len(listeners) + 1
      /\ Waiting(listeners') => Waiting(listeners)
  BY WaitingAfterAppend
<1>o. ~rushed' => ~Pending(timers, "in", Menu) /\ ~Waiting(listeners)
  BY DEF Opening, Waiting
<1>1. Typed'
  <2>1. winSize' \in {"pc", "mob"} /\ focus' \in {"page", Menu, Panel} /\ panelExits' \in 0 .. MaxPanels
    BY DEF TypeOK
  <2>2. opens' \in 0 .. MaxOpens /\ closes' \in 0 .. MaxCloses /\ Len(listeners') <= opens' + closes'
    BY <1>l DEF TypeOK
  <2>3. /\ displayed' \in BOOLEAN /\ isOpen' \in BOOLEAN /\ bodyMobile' \in BOOLEAN /\ moving' \in BOOLEAN
        /\ pageInert' \in BOOLEAN /\ panelShown' \in BOOLEAN /\ panelOpen' \in BOOLEAN
        /\ want' \in {"open", "closed"} /\ rushed' \in BOOLEAN /\ panelRushed' \in BOOLEAN
    OBVIOUS
  <2> QED BY <1>p, <1>l, <2>1, <2>2, <2>3 DEF TypeOK
<1>2. InertForOpen'
  BY <1>t, <1>p, <1>l, <1>o DEF InertForOpen
<1>3. MenuAsAsked'
  BY <1>t, <1>p, <1>l, <1>o DEF MenuAsAsked
<1>4. PanelAsAsked'
  BY <1>t, <1>p, <1>l, <1>o DEF PanelAsAsked
<1>5. FocusUnderInertPage'
  BY <1>t, <1>p, <1>l, <1>o DEF FocusUnderInertPage, InertForOpen, MenuAsAsked, PanelAsAsked
<1> QED BY <1>1, <1>2, <1>3, <1>4, <1>5

\* A resize of a narrow window changes nothing but its size.
LEMMA KeepStayNarrow ==
  ASSUME IInv, Resize, winSize' = "mob"
  PROVE  IInv'
<1> USE Bounds DEF IInv, Typed, menuVars, panelVars, Menu, Panel, Resize
<1>u. UNCHANGED <<menuVars, focus, timers, panelVars>>
  OBVIOUS
<1>1. Typed'
  BY <1>u DEF Typed, TypeOK
<1>2. InertForOpen'
  BY <1>u DEF InertForOpen
<1>3. MenuAsAsked'
  BY <1>u DEF MenuAsAsked
<1>4. PanelAsAsked'
  BY <1>u DEF PanelAsAsked
<1>5. FocusUnderInertPage'
  BY <1>u DEF FocusUnderInertPage, InertForOpen, MenuAsAsked, PanelAsAsked
<1> QED BY <1>1, <1>2, <1>3, <1>4, <1>5

\* The listeners make the page inert only for an opening, and take the focus.
LEMMA KeepRunListeners ==
  ASSUME IInv, RunListeners, moving' \in BOOLEAN
  PROVE  IInv'
<1> USE Bounds DEF IInv, Typed, menuVars, panelVars, Menu, Panel, RunListeners
<1>l. /\ listeners' = <<>> /\ listeners' \in Seq({"open", "close"}) /\ Len(listeners') = 0
      /\ ~Waiting(listeners')
  BY DEF Waiting
<1>o. /\ pageInert' = (pageInert \/ Waiting(listeners))
      /\ Waiting(listeners) => focus' = Menu
      /\ focus' \in {"page", Menu, focus} /\ (pageInert' => focus' \in {Menu, focus})
  <2> DEFINE opening == {k \in DOMAIN listeners : listeners[k] = "open"}
  <2>1. Waiting(listeners) <=> opening # {}
    BY DEF Waiting
  <2>2. pageInert' = (pageInert \/ opening # {})
    OBVIOUS
  <2>3. opening # {} => Len(listeners) # 0
    OBVIOUS
  <2>4. focus' = IF Len(listeners) = 0 THEN focus
                 ELSE IF Len(listeners) \in opening THEN Menu
                 ELSE IF ~pageInert' /\ winSize = "mob" THEN "page"
                 ELSE IF opening # {} THEN Menu ELSE focus
    OBVIOUS
  <2> HIDE DEF opening, RunListeners
  <2> QED BY <2>1, <2>2, <2>3, <2>4
<1>1. Typed'
  BY <1>l, <1>o DEF Typed, TypeOK
<1>2. InertForOpen'
  BY <1>l, <1>o DEF InertForOpen
<1>3. MenuAsAsked'
  BY <1>l, <1>o DEF MenuAsAsked
<1>4. PanelAsAsked'
  BY <1>l, <1>o DEF PanelAsAsked
<1>5. FocusUnderInertPage'
  BY <1>l, <1>o DEF FocusUnderInertPage, InertForOpen, MenuAsAsked, PanelAsAsked
<1> QED BY <1>1, <1>2, <1>3, <1>4, <1>5

\* Opening the panel over a pending hiding is rushed.
LEMMA KeepOpenPanel ==
  ASSUME IInv, OpenPanel
  PROVE  IInv'
<1> USE Bounds DEF IInv, Typed, menuVars, panelVars, Menu, Panel, OpenPanel, Timer
<1> DEFINE t == [job |-> "in", of |-> Panel, delay |-> 0]
<1>t. t \in TimerSet /\ t.job = "in" /\ t.of = Panel
  BY DEF TimerSet
<1>p. /\ timers' \in Seq(TimerSet)
      /\ \A j \in {"in", "hide"}, o \in {Menu, Panel} :
           Pending(timers', j, o) <=> Pending(timers, j, o) \/ (j = "in" /\ o = Panel)
  BY <1>t, PendingAfterSet
<1>1. Typed'
  BY <1>t, <1>p DEF Typed, TypeOK
<1>2. InertForOpen'
  BY <1>t, <1>p DEF InertForOpen
<1>3. MenuAsAsked'
  BY <1>t, <1>p DEF MenuAsAsked
<1>4. PanelAsAsked'
  BY <1>t, <1>p DEF PanelAsAsked
<1>5. FocusUnderInertPage'
  BY <1>t, <1>p DEF FocusUnderInertPage, InertForOpen, MenuAsAsked, PanelAsAsked
<1> QED BY <1>1, <1>2, <1>3, <1>4, <1>5

\* Closing the panel gives the focus to the menu.
LEMMA KeepClosePanel ==
  ASSUME IInv, ClosePanel
  PROVE  IInv'
<1> USE Bounds DEF IInv, Typed, menuVars, panelVars, Menu, Panel, ClosePanel, Hide, Timer
<1> DEFINE t == [job |-> "hide", of |-> Panel, delay |-> 400]
<1>t. t \in TimerSet /\ t.job = "hide" /\ t.of = Panel
  BY DEF TimerSet
<1>p. /\ timers' \in Seq(TimerSet)
      /\ \A j \in {"in", "hide"}, o \in {Menu, Panel} :
           Pending(timers', j, o) <=> Pending(timers, j, o) \/ (j = "hide" /\ o = Panel)
  BY <1>t, PendingAfterSet
<1>1. Typed'
  BY <1>t, <1>p DEF Typed, TypeOK
<1>2. InertForOpen'
  BY <1>t, <1>p DEF InertForOpen
<1>3. MenuAsAsked'
  BY <1>t, <1>p DEF MenuAsAsked
<1>4. PanelAsAsked'
  BY <1>t, <1>p DEF PanelAsAsked
<1>5. FocusUnderInertPage'
  BY <1>t, <1>p DEF FocusUnderInertPage, InertForOpen, MenuAsAsked, PanelAsAsked
<1> QED BY <1>1, <1>2, <1>3, <1>4, <1>5

\* A timer of the menu does what it was last asked to, unless it was rushed.
LEMMA KeepRunMenuTimer ==
  ASSUME IInv, NEW i \in DOMAIN timers, RunMenuTimer(i)
  PROVE  IInv'
<1> USE Bounds DEF IInv, Typed, menuVars, panelVars, Menu, Panel, RunMenuTimer
<1>p. /\ timers' \in Seq(TimerSet) /\ timers[i] \in TimerSet
      /\ Pending(timers, timers[i].job, timers[i].of)
      /\ \A j \in {"in", "hide"}, o \in {Menu, Panel} :
           /\ Pending(timers', j, o) => Pending(timers, j, o)
           /\ Pending(timers, j, o) => Pending(timers', j, o) \/ (timers[i].job = j /\ timers[i].of = o)
  BY PendingAfterRun
<1>t. timers[i].job \in {"in", "hide"} /\ timers[i].of \in {Menu, Panel}
  BY <1>p DEF TimerSet
<1>1. Typed'
  BY <1>p, <1>t DEF Typed, TypeOK
<1>2. InertForOpen'
  BY <1>p, <1>t DEF InertForOpen
<1>3. MenuAsAsked'
  BY <1>p, <1>t DEF MenuAsAsked
<1>4. PanelAsAsked'
  BY <1>p, <1>t DEF PanelAsAsked
<1>5. FocusUnderInertPage'
  BY <1>p, <1>t DEF FocusUnderInertPage, InertForOpen, MenuAsAsked, PanelAsAsked
<1> QED BY <1>1, <1>2, <1>3, <1>4, <1>5

\* A timer of the panel does what it was last asked to, unless it was rushed.
LEMMA KeepRunPanelTimer ==
  ASSUME IInv, NEW i \in DOMAIN timers, RunPanelTimer(i)
  PROVE  IInv'
<1> USE Bounds DEF IInv, Typed, menuVars, panelVars, Menu, Panel, RunPanelTimer
<1>p. /\ timers' \in Seq(TimerSet) /\ timers[i] \in TimerSet
      /\ Pending(timers, timers[i].job, timers[i].of)
      /\ \A j \in {"in", "hide"}, o \in {Menu, Panel} :
           /\ Pending(timers', j, o) => Pending(timers, j, o)
           /\ Pending(timers, j, o) => Pending(timers', j, o) \/ (timers[i].job = j /\ timers[i].of = o)
  BY PendingAfterRun
<1>t. timers[i].job \in {"in", "hide"} /\ timers[i].of \in {Menu, Panel}
  BY <1>p DEF TimerSet
<1>1. Typed'
  <2>1. winSize' \in {"pc", "mob"} /\ focus' \in {"page", Menu, Panel} /\ panelExits' \in 0 .. MaxPanels
    BY DEF TypeOK
  <2>2. opens' \in 0 .. MaxOpens /\ closes' \in 0 .. MaxCloses /\ Len(listeners') <= opens' + closes'
    BY DEF TypeOK
  <2>3. /\ displayed' \in BOOLEAN /\ isOpen' \in BOOLEAN /\ bodyMobile' \in BOOLEAN /\ moving' \in BOOLEAN
        /\ pageInert' \in BOOLEAN /\ panelShown' \in BOOLEAN /\ panelOpen' \in BOOLEAN
        /\ want' \in {"open", "closed"} /\ rushed' \in BOOLEAN /\ panelRushed' \in BOOLEAN
        /\ listeners' \in Seq({"open", "close"})
    OBVIOUS
  <2> QED BY <1>p, <2>1, <2>2, <2>3 DEF TypeOK
<1>2. InertForOpen'
  BY <1>p, <1>t DEF InertForOpen
<1>3. MenuAsAsked'
  BY <1>p, <1>t DEF MenuAsAsked
<1>4. PanelAsAsked'
  BY <1>p, <1>t DEF PanelAsAsked
<1>5. FocusUnderInertPage'
  BY <1>p, <1>t DEF FocusUnderInertPage, InertForOpen, MenuAsAsked, PanelAsAsked
<1> QED BY <1>1, <1>2, <1>3, <1>4, <1>5

\* A step of none of the variables.
LEMMA KeepStutter ==
  ASSUME IInv, UNCHANGED vars
  PROVE  IInv'
<1> USE Bounds DEF IInv, Typed, menuVars, panelVars, Menu, Panel, vars
<1>u. UNCHANGED vars
  OBVIOUS
<1>1. Typed'
  BY <1>u DEF Typed, TypeOK
<1>2. InertForOpen'
  BY <1>u DEF InertForOpen
<1>3. MenuAsAsked'
  BY <1>u DEF MenuAsAsked
<1>4. PanelAsAsked'
  BY <1>u DEF PanelAsAsked
<1>5. FocusUnderInertPage'
  BY <1>u DEF FocusUnderInertPage, InertForOpen, MenuAsAsked, PanelAsAsked
<1> QED BY <1>1, <1>2, <1>3, <1>4, <1>5

-----------------------------------------------------------------------------
(* The invariant holds *)

\* A page starts with the menu and the panel hidden.
LEMMA InitIInv == Init => IInv
<1> SUFFICES ASSUME Init PROVE IInv
  OBVIOUS
<1> USE Bounds DEF Init, Menu, Panel
<1>1. \A j, o : ~Pending(timers, j, o)
  BY DEF Pending
<1>2. Typed
  <2>1. winSize \in {"pc", "mob"} /\ focus \in {"page", Menu, Panel} /\ panelExits \in 0 .. MaxPanels
    OBVIOUS
  <2>2. opens \in 0 .. MaxOpens /\ closes \in 0 .. MaxCloses /\ Len(listeners) <= opens + closes
    OBVIOUS
  <2>3. timers \in Seq(TimerSet) /\ listeners \in Seq({"open", "close"}) /\ want \in {"open", "closed"}
    OBVIOUS
  <2> QED BY <2>1, <2>2, <2>3 DEF Typed, TypeOK
<1>3. InertForOpen /\ FocusUnderInertPage
  BY DEF InertForOpen, FocusUnderInertPage, Waiting
<1>4. MenuAsAsked /\ PanelAsAsked
  BY <1>1 DEF MenuAsAsked, PanelAsAsked
<1> QED BY <1>2, <1>3, <1>4 DEF IInv

\* Every step keeps the invariant.
LEMMA NextIInv == IInv /\ [Next]_vars => IInv'
<1> SUFFICES ASSUME IInv, [Next]_vars PROVE IInv'
  OBVIOUS
<1>0. winSize \in {"pc", "mob"}
  BY DEF IInv, Typed, TypeOK
<1>1. CASE OpenMainMenu
  BY <1>1, KeepOpenMainMenu
<1>2. CASE Close
  BY <1>0, <1>2, KeepCloseMainMenu DEF Close
<1>3. CASE Resize
  <2>1. CASE winSize' = "pc"
    BY <1>3, <2>1, KeepCloseMainMenu DEF Resize
  <2>2. CASE winSize' = "mob"
    BY <1>3, <2>2, KeepStayNarrow
  <2> QED BY <1>3, <2>1, <2>2 DEF Resize
<1>4. CASE TransitionEnd
  BY <1>4, KeepRunListeners DEF TransitionEnd
<1>5. CASE InnerTransitionEnd
  <2>1. moving \in BOOLEAN
    BY DEF IInv, Typed
  <2> QED BY <1>5, <2>1, KeepRunListeners DEF InnerTransitionEnd
<1>6. CASE OpenPanel
  BY <1>6, KeepOpenPanel
<1>7. CASE ClosePanel
  BY <1>7, KeepClosePanel
<1>8. CASE RunTimer
  BY <1>8, KeepRunMenuTimer, KeepRunPanelTimer DEF RunTimer
<1>9. CASE UNCHANGED vars
  BY <1>9, KeepStutter
<1> QED BY <1>1, <1>2, <1>3, <1>4, <1>5, <1>6, <1>7, <1>8, <1>9 DEF Next

\* The inductive invariant holds throughout.
LEMMA Invariance == Spec => []IInv
BY InitIInv, NextIInv, PTL DEF Spec

-----------------------------------------------------------------------------
(* Theorems *)

\* Unless they are rushed, menu and panel come to rest as they were asked to.
THEOREM Settles == Spec => []SettlesAsAsked
<1>1. IInv => SettlesAsAsked
  <2> SUFFICES ASSUME IInv PROVE SettlesAsAsked
    OBVIOUS
  <2>1. timers = <<>> => \A j, o : ~Pending(timers, j, o)
    BY DEF Pending
  <2>2. TypeOK /\ want \in {"open", "closed"} /\ isOpen \in BOOLEAN /\ displayed \in BOOLEAN
        /\ bodyMobile \in BOOLEAN /\ panelOpen \in BOOLEAN /\ panelShown \in BOOLEAN
    BY DEF IInv, Typed
  <2>3. MenuSettles
    BY <2>1, <2>2 DEF IInv, MenuAsAsked, MenuSettles
  <2>4. PanelSettles
    BY <2>1, <2>2 DEF IInv, PanelAsAsked, PanelSettles
  <2> QED BY <2>2, <2>3, <2>4 DEF SettlesAsAsked
<1> QED BY Invariance, <1>1, PTL

\* The page is inert only under an open menu, which has the focus.
THEOREM Inert == Spec => []InertUnderMenu
<1>1. IInv => InertUnderMenu
  BY DEF IInv, Typed, InertForOpen, InertUnderMenu, InertOnlyUnderMenu
<1> QED BY Invariance, <1>1, PTL
=============================================================================
