-------------------------- MODULE OverlayPageProofs --------------------------
(* Theorems about OverlayPage, for any number of modals, opened from the   *)
(* page or from inside each other, and any number of openings.             *)
EXTENDS OverlayPage, FiniteSetTheorems, TLAPS

-----------------------------------------------------------------------------
(* Timers *)

TimerSet == [job : {"in", "focus", "hide", "lock", "help"}, of : Modals \cup {Page},
             delay : {0, 50, 150, 350}]

\* Timers that are set are pending, and so are those that were.
LEMMA PendingAfterSets ==
  ASSUME NEW ts \in Seq(TimerSet), NEW us \in Seq(TimerSet), NEW j, NEW o
  PROVE  /\ ts \o us \in Seq(TimerSet)
         /\ Pending(ts \o us, j, o) <=> Pending(ts, j, o) \/ Pending(us, j, o)
<1> DEFINE s == ts \o us
<1>1. /\ s \in Seq(TimerSet) /\ Len(s) = Len(ts) + Len(us) /\ Len(ts) \in Nat /\ Len(us) \in Nat
      /\ DOMAIN s = 1 .. Len(ts) + Len(us) /\ DOMAIN ts = 1 .. Len(ts) /\ DOMAIN us = 1 .. Len(us)
      /\ \A i \in 1 .. Len(ts) + Len(us) : s[i] = IF i <= Len(ts) THEN ts[i] ELSE us[i - Len(ts)]
  OBVIOUS
<1> HIDE DEF s
<1>2. ASSUME Pending(ts, j, o) PROVE Pending(s, j, o)
  <2>1. PICK i \in 1 .. Len(ts) : ts[i].job = j /\ ts[i].of = o
    BY <1>1, <1>2 DEF Pending
  <2>2. i \in 1 .. Len(ts) + Len(us) /\ s[i] = ts[i]
    BY <1>1
  <2> QED BY <1>1, <2>1, <2>2 DEF Pending
<1>3. ASSUME Pending(us, j, o) PROVE Pending(s, j, o)
  <2>1. PICK i \in 1 .. Len(us) : us[i].job = j /\ us[i].of = o
    BY <1>1, <1>3 DEF Pending
  <2>2. /\ i + Len(ts) \in 1 .. Len(ts) + Len(us) /\ ~(i + Len(ts) <= Len(ts))
        /\ (i + Len(ts)) - Len(ts) = i
    BY <1>1
  <2>3. s[i + Len(ts)] = us[i]
    BY <1>1, <2>2
  <2> QED BY <1>1, <2>1, <2>2, <2>3 DEF Pending
<1>4. ASSUME Pending(s, j, o) PROVE Pending(ts, j, o) \/ Pending(us, j, o)
  <2>1. PICK i \in 1 .. Len(ts) + Len(us) : s[i].job = j /\ s[i].of = o
    BY <1>1, <1>4 DEF Pending
  <2>2. CASE i <= Len(ts)
    <3>1. i \in DOMAIN ts /\ s[i] = ts[i]
      BY <1>1, <2>2
    <3> QED BY <2>1, <3>1 DEF Pending
  <2>3. CASE ~(i <= Len(ts))
    <3>1. i - Len(ts) \in DOMAIN us /\ s[i] = us[i - Len(ts)]
      BY <1>1, <2>3
    <3> QED BY <2>1, <3>1 DEF Pending
  <2> QED BY <2>2, <2>3
<1> QED BY <1>1, <1>2, <1>3, <1>4 DEF s

\* A timer that runs is no longer pending; all the others are.
LEMMA PendingAfterRun ==
  ASSUME NEW ts \in Seq(TimerSet), NEW i \in DOMAIN ts, NEW j, NEW o
  PROVE  /\ ts[i] \in TimerSet /\ Without(ts, i) \in Seq(TimerSet)
         /\ Pending(ts, ts[i].job, ts[i].of)
         /\ Pending(Without(ts, i), j, o) => Pending(ts, j, o)
         /\ Pending(ts, j, o) => Pending(Without(ts, i), j, o) \/ (ts[i].job = j /\ ts[i].of = o)
<1> DEFINE w == Without(ts, i)
<1>1. Len(ts) \in Nat /\ i \in 1 .. Len(ts) /\ DOMAIN ts = 1 .. Len(ts)
  OBVIOUS
<1>2. /\ w \in Seq(TimerSet) /\ Len(w) = Len(ts) - 1 /\ DOMAIN w = 1 .. Len(ts) - 1
      /\ \A k \in 1 .. Len(ts) - 1 : w[k] = IF k < i THEN ts[k] ELSE ts[k + 1]
  <2> DEFINE a == SubSeq(ts, 1, i - 1)
             b == SubSeq(ts, i + 1, Len(ts))
  <2>1. /\ a \in Seq(TimerSet) /\ Len(a) = i - 1
        /\ \A k \in 1 .. i - 1 : a[k] = ts[k]
    BY <1>1
  <2>2. /\ b \in Seq(TimerSet) /\ Len(b) = Len(ts) - i
        /\ \A k \in 1 .. Len(ts) - i : b[k] = ts[k + i]
    BY <1>1
  <2>3. w = a \o b
    BY DEF Without, RemoveAt
  <2> HIDE DEF a, b, w
  <2>4. /\ a \o b \in Seq(TimerSet) /\ Len(a \o b) = Len(a) + Len(b)
        /\ \A k \in 1 .. Len(a) + Len(b) : (a \o b)[k] = IF k <= Len(a) THEN a[k] ELSE b[k - Len(a)]
    BY <2>1, <2>2
  <2>8. w \in Seq(TimerSet) /\ Len(w) = (i - 1) + (Len(ts) - i)
    BY <2>1, <2>2, <2>3, <2>4
  <2>9. (i - 1) + (Len(ts) - i) = Len(ts) - 1
    BY <1>1
  <2>5. Len(w) = Len(ts) - 1 /\ DOMAIN w = 1 .. Len(ts) - 1
    BY <2>8, <2>9
  <2>6. ASSUME NEW k \in 1 .. Len(ts) - 1 PROVE w[k] = IF k < i THEN ts[k] ELSE ts[k + 1]
    <3>1. CASE k < i
      BY <1>1, <2>1, <2>2, <2>3, <2>4, <3>1
    <3>2. CASE ~(k < i)
      <4>1. k - (i - 1) \in 1 .. Len(ts) - i /\ ~(k <= i - 1) /\ k - (i - 1) + i = k + 1
            /\ k \in 1 .. (i - 1) + (Len(ts) - i)
        BY <1>1, <3>2
      <4>2. w[k] = b[k - (i - 1)]
        BY <2>1, <2>2, <2>3, <2>4, <4>1
      <4>3. b[k - (i - 1)] = ts[k - (i - 1) + i]
        BY <2>2, <4>1
      <4> QED BY <3>2, <4>1, <4>2, <4>3
    <3> QED BY <3>1, <3>2
  <2> QED BY <2>8, <2>5, <2>6
<1> HIDE DEF w
<1>3. Pending(w, j, o) => Pending(ts, j, o)
  <2> SUFFICES ASSUME NEW k \in 1 .. Len(ts) - 1, w[k].job = j, w[k].of = o
               PROVE  Pending(ts, j, o)
    BY <1>2 DEF Pending
  <2>1. k \in DOMAIN ts /\ k + 1 \in DOMAIN ts
    BY <1>1
  <2> QED BY <1>2, <2>1 DEF Pending
<1>4. ASSUME NEW k \in DOMAIN ts, ts[k].job = j, ts[k].of = o, k # i PROVE Pending(w, j, o)
  <2>1. CASE k < i
    <3>1. k \in 1 .. Len(ts) - 1 /\ w[k] = ts[k]
      BY <1>1, <1>2, <2>1
    <3> QED BY <1>2, <1>4, <3>1 DEF Pending
  <2>2. CASE k > i
    <3>1. k - 1 \in 1 .. Len(ts) - 1 /\ w[k - 1] = ts[k]
      BY <1>1, <1>2, <2>2
    <3> QED BY <1>2, <1>4, <3>1 DEF Pending
  <2> QED BY <1>1, <1>4, <2>1, <2>2
<1>5. Pending(ts, j, o) => Pending(w, j, o) \/ (ts[i].job = j /\ ts[i].of = o)
  BY <1>4 DEF Pending
<1>6. Pending(ts, ts[i].job, ts[i].of)
  BY DEF Pending
<1> QED BY <1>1, <1>2, <1>3, <1>5, <1>6 DEF w

\* What an opening sets.
LEMMA PendingOfOpening ==
  ASSUME NEW m \in Modals, NEW j, NEW o
  PROVE  /\ <<Timer("in", m, 150), Timer("focus", m, 350)>> \in Seq(TimerSet)
         /\ Pending(<<Timer("in", m, 150), Timer("focus", m, 350)>>, j, o)
              <=> j \in {"in", "focus"} /\ o = m
<1> DEFINE s == <<Timer("in", m, 150), Timer("focus", m, 350)>>
<1>1. Timer("in", m, 150) \in TimerSet /\ Timer("focus", m, 350) \in TimerSet
  BY DEF Timer, TimerSet
<1>2. /\ s \in Seq(TimerSet) /\ DOMAIN s = {1, 2}
      /\ s[1] = Timer("in", m, 150) /\ s[2] = Timer("focus", m, 350)
  BY <1>1
<1> HIDE DEF s
<1>3. Pending(s, j, o) <=> j \in {"in", "focus"} /\ o = m
  BY <1>2 DEF Pending, Timer
<1> QED BY <1>2, <1>3 DEF s

\* What n closings set.
LEMMA PendingOfClosings ==
  ASSUME NEW m \in Modals, NEW n \in Nat \ {0}, NEW j, NEW o
  PROVE  /\ HideTimers(m, n) \in Seq(TimerSet)
         /\ Pending(HideTimers(m, n), j, o) <=> j = "hide" /\ o = m
<1>1. Timer("hide", m, 350) \in TimerSet
  BY DEF Timer, TimerSet
<1>2. /\ HideTimers(m, n) \in Seq(TimerSet) /\ DOMAIN HideTimers(m, n) = 1 .. n
      /\ 1 \in 1 .. n /\ \A i \in 1 .. n : HideTimers(m, n)[i] = Timer("hide", m, 350)
  BY <1>1 DEF HideTimers
<1> QED BY <1>2 DEF Pending, Timer

\* What the help panel sets.
LEMMA PendingOfPanel ==
  ASSUME NEW k \in {"lock", "help"}, NEW d \in {0, 50}, NEW j, NEW o
  PROVE  /\ <<Timer(k, Page, d)>> \in Seq(TimerSet)
         /\ Pending(<<Timer(k, Page, d)>>, j, o) <=> j = k /\ o = Page
<1> DEFINE s == <<Timer(k, Page, d)>>
<1>1. Timer(k, Page, d) \in TimerSet
  BY DEF Timer, TimerSet
<1>2. s \in Seq(TimerSet) /\ DOMAIN s = {1} /\ s[1] = Timer(k, Page, d)
  BY <1>1
<1> HIDE DEF s
<1>3. Pending(s, j, o) <=> j = k /\ o = Page
  BY <1>2 DEF Pending, Timer
<1> QED BY <1>2, <1>3 DEF s

\* ... and what is pending then.
LEMMA HelpSets ==
  ASSUME NEW ts \in Seq(TimerSet), NEW k \in {"lock", "help"}, NEW d \in {0, 50}
  PROVE  /\ ts \o <<Timer(k, Page, d)>> \in Seq(TimerSet)
         /\ Pending(ts \o <<Timer(k, Page, d)>>, k, Page)
         /\ \A j, o : j # k => (Pending(ts \o <<Timer(k, Page, d)>>, j, o) <=> Pending(ts, j, o))
<1> DEFINE us == <<Timer(k, Page, d)>>
<1>1. us \in Seq(TimerSet)
  BY PendingOfPanel
<1>2. ASSUME NEW j, NEW o PROVE Pending(us, j, o) <=> j = k /\ o = Page
  BY PendingOfPanel
<1> HIDE DEF us
<1>3. ts \o us \in Seq(TimerSet)
  BY <1>1, PendingAfterSets
<1>4. ASSUME NEW j, NEW o PROVE Pending(ts \o us, j, o) <=> Pending(ts, j, o) \/ (j = k /\ o = Page)
  BY <1>1, <1>2, PendingAfterSets
<1>5. /\ Pending(ts \o us, k, Page)
      /\ \A j, o : j # k => (Pending(ts \o us, j, o) <=> Pending(ts, j, o))
  BY <1>4
<1> QED BY <1>3, <1>5 DEF us

-----------------------------------------------------------------------------
(* The inductive invariant *)

Typed == TypeOK /\ timers \in Seq(TimerSet) /\ \A m \in Modals : escs[m] <= opens /\ zIndex[m] # 1

\* What is shown is open or will be hidden.
ShownOrHiding == \A m \in shown : m \in opened \/ Pending(timers, "hide", m)

\* Unless it was rushed, a modal is as it was asked to be, or the timer that
\* makes it so is pending, and no timer is pending that would undo it.
AsOpened ==
  \A m \in Modals \ rushed :
    /\ m \in opened => /\ m \in shown /\ ~Pending(timers, "hide", m)
                       /\ m \in visible => m \in classIn
                       /\ m \in visible \/ Pending(timers, "in", m)
    /\ m \notin opened => m \notin classIn /\ ~Pending(timers, "in", m)

\* A z-index that is not outdated counts no more modals than are counted now.
ZIndexCounts == \A m \in Modals \ outdated : zIndex[m] <= Cardinality(CountedIn) + 1

InnerNotBelow ==
  \A m \in opened \cap later :
    Home[m] \in opened /\ {m, Home[m]} \cap rushed = {}
      => Home[m] \in outdated \/ zIndex[Home[m]] <= zIndex[m]

\* With no modal open, the scroll lock is the help panel's, or will be.
LockOfPanel ==
  opened = {} /\ rushed = {} /\ ~Pending(timers, "lock", Page)
    => (scrollNo => winSize = "mob" /\ expanded)

Modality == ShownOrHiding /\ AsOpened /\ ZIndexCounts /\ InnerNotBelow /\ FocusInOpenModal
Locks    == ScrollLocked /\ LockOfPanel /\ HelpAriaTrue

IInv == Typed /\ Modality /\ Locks

-----------------------------------------------------------------------------
(* Every step keeps it *)

\* What the assumptions say of a modal and of the place of its trigger.
LEMMA Places ==
  ASSUME NEW m \in Modals
  PROVE  /\ m \in Nat /\ m # Page /\ Home[m] \in Modals \cup {Page} /\ Home[m] # m
         /\ Home[m] \in Modals => Home[m] \in Nat /\ Home[m] < m
<1>1. m \in Nat /\ m # Page /\ Home[m] \in Modals \cup {Page} /\ Home[m] < m
  BY ModalsAssumption, HomeAssumption
<1>2. Home[m] \in Nat
  BY <1>1, ModalsAssumption, 0 \in Nat DEF Page
<1>3. Home[m] # m
  BY <1>1, <1>2
<1> QED BY <1>1, <1>2, <1>3

\* Modals are counted by a number.
LEMMA Counting ==
  ASSUME NEW A \in SUBSET Modals
  PROVE  /\ IsFiniteSet(A) /\ Cardinality(A) \in Nat
         /\ Cardinality(A) <= Cardinality(Modals) /\ Cardinality(Modals) \in Nat
         /\ (A = {} \/ Cardinality(A) >= 1)
         /\ \A B \in SUBSET A : Cardinality(B) \in Nat /\ Cardinality(B) <= Cardinality(A)
<1>1. IsFiniteSet(Modals)
  BY ModalsAssumption
<1>2. IsFiniteSet(A) /\ Cardinality(A) <= Cardinality(Modals)
  BY <1>1, FS_Subset
<1>3. Cardinality(A) \in Nat /\ Cardinality(Modals) \in Nat
  BY <1>1, <1>2, FS_CardinalityType
<1>4. A = {} \/ Cardinality(A) >= 1
  BY <1>2, <1>3, FS_EmptySet
<1>5. \A B \in SUBSET A : Cardinality(B) \in Nat /\ Cardinality(B) <= Cardinality(A)
  BY <1>2, FS_Subset, FS_CardinalityType
<1> QED BY <1>2, <1>3, <1>4, <1>5

\* A click on the trigger of a modal.
LEMMA OpenModalKeeps ==
  ASSUME IInv, NEW m \in Modals, OpenModal(m), UNCHANGED panelVars,
         unlocked' = (unlocked /\ opens' = opens)
  PROVE  IInv'
<1> USE DEF IInv, Typed, TypeOK
<1>1. m # Page /\ Home[m] # m /\ Page \notin Modals
  BY Places, ModalsAssumption
<1>2. /\ timers' \in Seq(TimerSet)
      /\ \A j, o : Pending(timers', j, o) <=> Pending(timers, j, o) \/ (j \in {"in", "focus"} /\ o = m)
  <2> DEFINE us == <<Timer("in", m, 150), Timer("focus", m, 350)>>
  <2>1. timers' = timers \o us /\ us \in Seq(TimerSet)
    BY PendingOfOpening DEF OpenModal
  <2>2. ASSUME NEW j, NEW o PROVE Pending(us, j, o) <=> j \in {"in", "focus"} /\ o = m
    BY PendingOfOpening
  <2> HIDE DEF us
  <2>3. timers \o us \in Seq(TimerSet)
    BY <2>1, PendingAfterSets
  <2>4. ASSUME NEW j, NEW o
        PROVE  Pending(timers', j, o) <=> Pending(timers, j, o) \/ (j \in {"in", "focus"} /\ o = m)
    <3>1. Pending(timers \o us, j, o) <=> Pending(timers, j, o) \/ Pending(us, j, o)
      BY <2>1, PendingAfterSets
    <3> QED BY <2>1, <2>2, <3>1
  <2> QED BY <2>1, <2>3, <2>4
<1>3. /\ classIn' = classIn /\ focus' = focus
      /\ opened' = opened \cup {m} /\ shown' = shown \cup {m}
      /\ visible' = IF m \in classIn THEN visible \cup {m} ELSE visible
      /\ zIndex' = [zIndex EXCEPT ![m] = NewZIndex(m)]
      /\ rushed' = IF Pending(timers, "hide", m) THEN rushed \cup {m} ELSE rushed
      /\ later' = (later \cup {m}) \ {x \in Modals : Home[x] = m}
      /\ outdated' = IF CountedIn = {} THEN outdated ELSE outdated \ {m}
      /\ counted' = counted
  BY DEF OpenModal
<1>4. /\ CountedIn \in SUBSET Modals /\ Cardinality(CountedIn) \in Nat
      /\ Cardinality(CountedIn) <= Cardinality(Modals) /\ Cardinality(Modals) \in Nat
      /\ CountedIn = {} \/ Cardinality(CountedIn) >= 1
      /\ CountedIn' = CountedIn
  <2>1. CountedIn \in SUBSET Modals /\ CountedIn' = CountedIn
    BY <1>3 DEF CountedIn
  <2> QED BY <2>1, Counting
<1>5. Typed'
  <2>1. opens' \in 0 .. MaxOpens /\ opens' = opens + 1
    BY BoundsAssumption DEF OpenModal
  <2>2. escs' \in [Modals -> 0 .. MaxOpens] /\ \A x \in Modals : escs'[x] <= opens'
    BY <2>1, BoundsAssumption DEF OpenModal
  <2>3. NewZIndex(m) \in 0 .. Cardinality(Modals) + 1 /\ NewZIndex(m) # 1
    BY <1>4 DEF NewZIndex
  <2>4. zIndex' \in [Modals -> 0 .. Cardinality(Modals) + 1] /\ \A x \in Modals : zIndex'[x] # 1
    BY <1>3, <2>3
  <2>5. /\ counted' \subseteq Modals /\ classIn' \subseteq Modals /\ shown' \subseteq Modals
        /\ visible' \subseteq shown' /\ opened' \subseteq Modals
        /\ later' \subseteq Modals /\ outdated' \subseteq Modals
    BY <1>3
  <2>6. backIn' \subseteq Modals
    BY DEF OpenModal
  <2>7. /\ scrollNo' \in BOOLEAN /\ wrapInert' \in BOOLEAN /\ miscounted' \in BOOLEAN
        /\ expanded' \in BOOLEAN /\ execAria' \in BOOLEAN /\ unlocked' \in BOOLEAN
        /\ winSize' \in {"pc", "mob"}
    BY DEF OpenModal, panelVars
  <2> QED BY <1>2, <1>3, <2>1, <2>2, <2>4, <2>5, <2>6, <2>7
<1>6. ShownOrHiding'
  BY <1>2, <1>3 DEF Modality, ShownOrHiding
<1>7. AsOpened'
  <2> SUFFICES ASSUME NEW x \in Modals \ rushed'
               PROVE  /\ x \in opened' => /\ x \in shown' /\ ~Pending(timers', "hide", x)
                                          /\ x \in visible' => x \in classIn'
                                          /\ x \in visible' \/ Pending(timers', "in", x)
                      /\ x \notin opened' => x \notin classIn' /\ ~Pending(timers', "in", x)
    BY DEF AsOpened
  <2>1. x \notin rushed
    BY <1>3
  <2>2. CASE x = m
    <3>1. ~Pending(timers, "hide", m)
      BY <1>3, <2>2
    <3>2. m \in visible => m \in classIn
      BY <2>1, <2>2, <3>1 DEF Modality, AsOpened, ShownOrHiding
    <3>3. m \in shown' /\ m \in opened' /\ (m \in visible' => m \in classIn')
      BY <1>3, <3>2
    <3>4. ~Pending(timers', "hide", m) /\ Pending(timers', "in", m)
      BY <1>2, <3>1
    <3> QED BY <2>2, <3>3, <3>4
  <2>3. CASE x # m
    BY <1>2, <1>3, <2>1, <2>3 DEF Modality, AsOpened
  <2> QED BY <2>2, <2>3
<1>8. ZIndexCounts'
  <2> SUFFICES ASSUME NEW x \in Modals \ outdated' PROVE zIndex'[x] <= Cardinality(CountedIn) + 1
    BY <1>4 DEF ZIndexCounts
  <2>1. CASE x = m
    BY <1>3, <1>4, <2>1 DEF NewZIndex, Modality, ZIndexCounts
  <2>2. CASE x # m
    BY <1>3, <2>2 DEF Modality, ZIndexCounts
  <2> QED BY <2>1, <2>2
<1>9. InnerNotBelow'
  <2> SUFFICES ASSUME NEW x \in opened' \cap later', Home[x] \in opened',
                      {x, Home[x]} \cap rushed' = {}
               PROVE  Home[x] \in outdated' \/ zIndex'[Home[x]] <= zIndex'[x]
    BY DEF InnerNotBelow
  <2>1. x \in Modals /\ Home[x] # m /\ x \notin rushed /\ Home[x] \notin rushed
    BY <1>3
  <2>2. Home[x] \in opened
    BY <1>3, <2>1
  <2>3. CASE x = m
    <3>1. zIndex'[Home[x]] = zIndex[Home[x]] /\ zIndex'[x] = NewZIndex(x)
      BY <1>3, <2>1, <2>2, <2>3
    <3>2. Home[x] \in outdated \/ zIndex[Home[x]] <= Cardinality(CountedIn) + 1
      BY <2>2 DEF Modality, ZIndexCounts
    <3>3. CASE CountedIn = {}
      <4>1. Cardinality(CountedIn) = 0
        BY <3>3, FS_EmptySet
      <4>2. Home[x] \in outdated \/ zIndex[Home[x]] = 0
        BY <2>2, <3>2, <4>1
      <4> QED BY <1>3, <3>1, <3>3, <4>2 DEF NewZIndex
    <3>4. CASE CountedIn # {}
      BY <1>3, <2>1, <3>1, <3>2, <3>4 DEF NewZIndex
    <3> QED BY <3>3, <3>4
  <2>4. CASE x # m
    BY <1>3, <2>1, <2>2, <2>4 DEF Modality, InnerNotBelow
  <2> QED BY <2>3, <2>4
<1>10. FocusInOpenModal'
  BY <1>2, <1>3 DEF Modality, FocusInOpenModal
<1>11. Locks'
  BY DEF OpenModal, Locks, ScrollLocked, LockOfPanel, HelpAriaTrue, panelVars
<1> QED BY <1>5, <1>6, <1>7, <1>8, <1>9, <1>10, <1>11 DEF Modality

\* closeModal, called by a button or by listeners for Escape.
LEMMA CloseKeeps ==
  ASSUME IInv, NEW m \in Modals, NEW n \in Nat \ {0}, Close(m, n),
         escs' = escs \/ escs' = [escs EXCEPT ![m] = 0],
         UNCHANGED panelVars, unlocked' = (unlocked /\ opens' = opens)
  PROVE  IInv'
<1> USE DEF IInv, Typed, TypeOK
<1>1. m # Page /\ Page \notin Modals
  BY Places, ModalsAssumption
<1>2. /\ timers' \in Seq(TimerSet)
      /\ \A j, o : Pending(timers', j, o) <=> Pending(timers, j, o) \/ (j = "hide" /\ o = m)
  <2>1. timers' = timers \o HideTimers(m, n) /\ HideTimers(m, n) \in Seq(TimerSet)
    BY PendingOfClosings DEF Close
  <2>2. timers \o HideTimers(m, n) \in Seq(TimerSet)
    BY <2>1, PendingAfterSets
  <2>3. ASSUME NEW j, NEW o
        PROVE  Pending(timers', j, o) <=> Pending(timers, j, o) \/ (j = "hide" /\ o = m)
    <3>1. Pending(timers \o HideTimers(m, n), j, o)
            <=> Pending(timers, j, o) \/ Pending(HideTimers(m, n), j, o)
      BY <2>1, PendingAfterSets
    <3>2. Pending(HideTimers(m, n), j, o) <=> j = "hide" /\ o = m
      BY PendingOfClosings
    <3> QED BY <2>1, <3>1, <3>2
  <2> QED BY <2>1, <2>2, <2>3
<1>3. /\ classIn' = classIn \ {m} /\ opened' = opened \ {m} /\ shown' = shown /\ visible' = visible
      /\ zIndex' = zIndex /\ later' = later /\ opens' = opens
      /\ focus' = IF m \in opened /\ Home[m] \in visible \cup {Page} THEN Home[m] ELSE focus
      /\ rushed' = IF Pending(timers, "in", m) THEN rushed \cup {m} ELSE rushed
      /\ outdated' = {x \in Modals : zIndex[x] > 0}
      /\ scrollNo' = LockAfter(m, n)
      /\ miscounted' = (miscounted \/ n > 1 \/ m \notin opened \/ ~(opened \subseteq CountedIn))
      /\ counted' = counted
  BY DEF Close
<1>4. CountedIn \in SUBSET Modals /\ Cardinality(CountedIn) \in Nat
  <2>1. CountedIn \in SUBSET Modals
    BY DEF CountedIn
  <2> QED BY <2>1, Counting
<1>5. Typed'
  <2>1. focus' \in Modals \cup {Page}
    BY <1>3, Places
  <2>2. escs' \in [Modals -> 0 .. MaxOpens] /\ \A x \in Modals : escs'[x] <= opens'
    <3>1. CASE escs' = escs
      BY <1>3, <3>1
    <3>2. CASE escs' = [escs EXCEPT ![m] = 0]
      BY <1>3, <3>2, BoundsAssumption
    <3> QED BY <3>1, <3>2
  <2>3. outdated' \subseteq Modals /\ backIn' \subseteq Modals /\ classIn' \subseteq Modals
    BY <1>3 DEF Close
  <2>4. scrollNo' \in BOOLEAN /\ miscounted' \in BOOLEAN /\ wrapInert' \in BOOLEAN
        /\ unlocked' \in BOOLEAN
    BY <1>3 DEF LockAfter, Close
  <2> QED BY <1>2, <1>3, <2>1, <2>2, <2>3, <2>4 DEF panelVars
<1>6. ShownOrHiding'
  BY <1>2, <1>3 DEF Modality, ShownOrHiding
<1>7. AsOpened'
  <2> SUFFICES ASSUME NEW x \in Modals \ rushed'
               PROVE  /\ x \in opened' => /\ x \in shown' /\ ~Pending(timers', "hide", x)
                                          /\ x \in visible' => x \in classIn'
                                          /\ x \in visible' \/ Pending(timers', "in", x)
                      /\ x \notin opened' => x \notin classIn' /\ ~Pending(timers', "in", x)
    BY DEF AsOpened
  <2>1. x \notin rushed
    BY <1>3
  <2>2. CASE x = m
    BY <1>2, <1>3, <2>2
  <2>3. CASE x # m
    BY <1>2, <1>3, <2>1, <2>3 DEF Modality, AsOpened
  <2> QED BY <2>2, <2>3
<1>8. ASSUME NEW x \in Modals \ outdated' PROVE zIndex'[x] = 0
  BY <1>3, <1>8
<1>9. ZIndexCounts'
  <2>1. Cardinality(CountedIn') \in Nat
    <3>1. CountedIn' \in SUBSET Modals
      BY <1>3 DEF CountedIn
    <3> QED BY <3>1, Counting
  <2> QED BY <1>8, <2>1 DEF ZIndexCounts
<1>10. InnerNotBelow'
  <2> SUFFICES ASSUME NEW x \in opened', Home[x] \in opened', Home[x] \notin outdated'
               PROVE  zIndex'[Home[x]] <= zIndex'[x]
    BY DEF InnerNotBelow
  <2> QED BY <1>3, <1>8
<1>11. FocusInOpenModal'
  <2>1. ASSUME NEW x \in visible PROVE x \in opened' \/ Pending(timers', "hide", x)
    BY <1>2, <1>3 DEF Modality, ShownOrHiding
  <2> QED BY <1>1, <1>2, <1>3, <2>1 DEF Modality, FocusInOpenModal
<1>12. ScrollLocked'
  <2> SUFFICES ASSUME opened' # {}, ~miscounted', ~unlocked' PROVE scrollNo'
    BY DEF ScrollLocked
  <2>1. n = 1 /\ m \in opened /\ opened \subseteq CountedIn /\ scrollNo
    BY <1>3 DEF Locks, ScrollLocked
  <2>2. PICK x \in opened : x # m
    BY <1>3
  <2>3. Cardinality({m, x}) = 2 /\ {m, x} \subseteq CountedIn
    <3>1. IsFiniteSet({m}) /\ Cardinality({m}) = 1
      BY FS_Singleton
    <3>2. Cardinality({m} \cup {x}) = 2
      <4>1. Cardinality({m} \cup {x}) = Cardinality({m}) + 1
        BY <2>2, <3>1, FS_AddElement
      <4> QED BY <3>1, <4>1
    <3>3. {m} \cup {x} = {m, x}
      OBVIOUS
    <3> QED BY <2>1, <3>2, <3>3
  <2>4. Cardinality(CountedIn) >= 2
    <3>1. Cardinality({m, x}) <= Cardinality(CountedIn)
      BY <1>4, <2>3, Counting
    <3> QED BY <1>4, <2>3, <3>1
  <2> QED BY <1>3, <2>1, <2>4 DEF LockAfter
<1>13. LockOfPanel'
  <2> SUFFICES ASSUME opened' = {}, rushed' = {} PROVE ~scrollNo'
    BY DEF LockOfPanel
  <2>1. opened \subseteq {m} /\ rushed = {}
    BY <1>3
  <2>2. classIn \subseteq {m}
    BY <2>1 DEF Modality, AsOpened
  <2>3. Cardinality(CountedIn) <= 1
    <3>1. {m} \in SUBSET Modals /\ CountedIn \in SUBSET {m}
      BY <2>2 DEF CountedIn
    <3>2. Cardinality(CountedIn) <= Cardinality({m})
      BY <3>1, Counting
    <3> QED BY <3>2, FS_Singleton
  <2>4. ~(Cardinality(CountedIn) >= 2)
    BY <1>4, <2>3
  <2>5. ~LockAfter(m, n)
    BY <2>4 DEF LockAfter
  <2> QED BY <1>3, <2>5
<1>14. HelpAriaTrue'
  BY DEF Locks, HelpAriaTrue, panelVars
<1> QED BY <1>5, <1>6, <1>7, <1>9, <1>10, <1>11, <1>12, <1>13, <1>14 DEF Modality, Locks

\* The callback of a timer of a modal.
LEMMA RunTimerKeeps ==
  ASSUME IInv, NEW m \in Modals, NEW i \in DOMAIN timers, RunTimer(m, i),
         UNCHANGED panelVars, unlocked' = (unlocked /\ opens' = opens)
  PROVE  IInv'
<1> USE DEF IInv, Typed, TypeOK
<1> DEFINE k == timers[i].job
<1>1. m # Page /\ Page \notin Modals
  BY Places, ModalsAssumption
<1>2. k \in {"in", "focus", "hide"} /\ timers[i].of = m /\ timers' = Without(timers, i)
  BY DEF RunTimer
<1>3. /\ timers' \in Seq(TimerSet) /\ Pending(timers, k, m)
      /\ \A j, o : /\ Pending(timers', j, o) => Pending(timers, j, o)
                   /\ Pending(timers, j, o) => Pending(timers', j, o) \/ (j = k /\ o = m)
  <2>1. Without(timers, i) \in Seq(TimerSet) /\ Pending(timers, k, m)
    BY <1>2, PendingAfterRun
  <2>2. ASSUME NEW j, NEW o
        PROVE  /\ Pending(timers', j, o) => Pending(timers, j, o)
               /\ Pending(timers, j, o) => Pending(timers', j, o) \/ (j = k /\ o = m)
    BY <1>2, PendingAfterRun
  <2> QED BY <1>2, <2>1, <2>2
<1>4. /\ zIndex' = zIndex /\ opened' = opened /\ escs' = escs /\ opens' = opens
      /\ rushed' = rushed /\ miscounted' = miscounted /\ later' = later /\ outdated' = outdated
      /\ scrollNo' = scrollNo /\ wrapInert' = wrapInert /\ backIn' = backIn /\ counted' = counted
  BY DEF RunTimer, history
<1>5. \/ /\ k = "in" /\ classIn' = classIn \cup {m} /\ visible' = visible \cup (shown \cap {m})
         /\ shown' = shown /\ focus' = focus
      \/ /\ k = "focus" /\ focus' = (IF m \in visible THEN m ELSE focus)
         /\ classIn' = classIn /\ shown' = shown /\ visible' = visible
      \/ /\ k = "hide" /\ shown' = shown \ {m} /\ visible' = visible \ {m}
         /\ focus' = (IF focus = m THEN Page ELSE focus) /\ classIn' = classIn
  BY DEF RunTimer
<1> HIDE DEF k
<1>6. Typed'
  BY <1>3, <1>4, <1>5 DEF panelVars
<1>7. ShownOrHiding'
  BY <1>3, <1>4, <1>5 DEF Modality, ShownOrHiding
<1>8. AsOpened'
  <2> SUFFICES ASSUME NEW x \in Modals \ rushed
               PROVE  /\ x \in opened => /\ x \in shown' /\ ~Pending(timers', "hide", x)
                                         /\ x \in visible' => x \in classIn'
                                         /\ x \in visible' \/ Pending(timers', "in", x)
                      /\ x \notin opened => x \notin classIn' /\ ~Pending(timers', "in", x)
    BY <1>4 DEF AsOpened
  <2>1. /\ x \in opened => /\ x \in shown /\ ~Pending(timers, "hide", x)
                           /\ x \in visible => x \in classIn
                           /\ x \in visible \/ Pending(timers, "in", x)
        /\ x \notin opened => x \notin classIn /\ ~Pending(timers, "in", x)
    BY DEF Modality, AsOpened
  <2>2. CASE x = m
    BY <1>3, <1>5, <2>1, <2>2
  <2>3. CASE x # m
    BY <1>3, <1>5, <2>1, <2>3
  <2> QED BY <2>2, <2>3
<1>9. ZIndexCounts'
  <2>1. /\ Cardinality(CountedIn) \in Nat /\ Cardinality(CountedIn') \in Nat
        /\ Cardinality(CountedIn) <= Cardinality(CountedIn')
    <3>1. CountedIn' \in SUBSET Modals /\ CountedIn \in SUBSET CountedIn'
      BY <1>4, <1>5 DEF CountedIn
    <3> QED BY <3>1, Counting
  <2> QED BY <1>4, <2>1 DEF Modality, ZIndexCounts
<1>10. InnerNotBelow'
  BY <1>4 DEF Modality, InnerNotBelow
<1>11. FocusInOpenModal'
  <2>1. ASSUME m \in visible PROVE m \in opened \/ Pending(timers, "hide", m)
    BY <2>1 DEF Modality, ShownOrHiding
  <2> QED BY <1>1, <1>3, <1>4, <1>5, <2>1 DEF Modality, FocusInOpenModal
<1>12. Locks'
  BY <1>1, <1>3, <1>4 DEF Locks, ScrollLocked, LockOfPanel, HelpAriaTrue, panelVars
<1> QED BY <1>6, <1>7, <1>8, <1>9, <1>10, <1>11, <1>12 DEF Modality

\* A click or a key that moves the focus.
LEMMA FocusPlaceKeeps ==
  ASSUME IInv, NEW c \in Modals \cup {Page}, FocusPlace(c), UNCHANGED panelVars,
         unlocked' = (unlocked /\ opens' = opens)
  PROVE  IInv'
<1> USE DEF IInv, Typed, TypeOK
<1>1. /\ c = Page \/ c \in visible
      /\ focus' = c /\ scrollNo' = scrollNo /\ wrapInert' = wrapInert /\ timers' = timers
      /\ UNCHANGED <<counted, classIn, shown, backIn, visible, zIndex, opened, escs>>
      /\ UNCHANGED <<opens, rushed, miscounted, later, outdated>>
  BY DEF FocusPlace, Usable, modalVars, history
<1>2. Typed'
  BY <1>1 DEF panelVars
<1>3. ShownOrHiding' /\ AsOpened' /\ ZIndexCounts' /\ InnerNotBelow'
  BY <1>1 DEF Modality, ShownOrHiding, AsOpened, ZIndexCounts, CountedIn, InnerNotBelow
<1>4. FocusInOpenModal'
  BY <1>1, ModalsAssumption DEF Modality, ShownOrHiding, FocusInOpenModal
<1>5. Locks'
  BY <1>1 DEF Locks, ScrollLocked, LockOfPanel, HelpAriaTrue, panelVars
<1> QED BY <1>2, <1>3, <1>4, <1>5 DEF Modality

\* A key other than Escape in a modal.
LEMMA OtherKeyKeeps ==
  ASSUME IInv, NEW m \in Modals, OtherKey(m), UNCHANGED panelVars,
         unlocked' = (unlocked /\ opens' = opens)
  PROVE  IInv'
<1> USE DEF IInv, Typed, TypeOK
<1>1. /\ escs' = [escs EXCEPT ![m] = 0]
      /\ scrollNo' = scrollNo /\ wrapInert' = wrapInert /\ timers' = timers /\ focus' = focus
      /\ UNCHANGED <<counted, classIn, shown, backIn, visible, zIndex, opened>>
      /\ UNCHANGED <<opens, rushed, miscounted, later, outdated>>
  BY DEF OtherKey, sharedVars, history
<1>2. Typed'
  BY <1>1, BoundsAssumption DEF panelVars
<1>3. Modality' /\ Locks'
  BY <1>1 DEF Modality, ShownOrHiding, AsOpened, ZIndexCounts, CountedIn, InnerNotBelow,
              FocusInOpenModal, Locks, ScrollLocked, LockOfPanel, HelpAriaTrue, panelVars
<1> QED BY <1>2, <1>3

\* init of the help panel at a scroll or resize event.
LEMMA ReinitKeeps ==
  ASSUME IInv, Help!Reinit, winSize' \in {"pc", "mob"}, UNCHANGED modalVars,
         unlocked' = (unlocked \/ (scrollNo /\ ~scrollNo' /\ opened # {}))
  PROVE  IInv'
<1> USE DEF IInv, Typed, TypeOK
<1>1. /\ execAria' = FALSE /\ expanded' = expanded /\ scrollNo' = scrollNo
      /\ wrapInert' = wrapInert /\ focus' = focus
      /\ timers' = IF Pending(timers, "lock", Page) THEN timers
                   ELSE timers \o <<Timer("lock", Page, 0)>>
      /\ UNCHANGED <<counted, classIn, shown, backIn, visible, zIndex, opened, escs>>
      /\ UNCHANGED <<opens, rushed, miscounted, later, outdated>>
  BY DEF Help!Reinit, Help!Page, Page, Help!Pending, Pending, Help!Timer, Timer, modalVars, history
<1>2. /\ timers' \in Seq(TimerSet) /\ Pending(timers', "lock", Page)
      /\ \A j, o : j # "lock" => (Pending(timers', j, o) <=> Pending(timers, j, o))
  BY <1>1, HelpSets, "lock" \in {"lock", "help"}, 0 \in {0, 50}
<1>3. Typed'
  BY <1>1, <1>2
<1>4. Modality'
  BY <1>1, <1>2 DEF Modality, ShownOrHiding, AsOpened, ZIndexCounts, CountedIn, InnerNotBelow,
         FocusInOpenModal
<1>5. Locks'
  BY <1>1, <1>2 DEF Locks, ScrollLocked, LockOfPanel, HelpAriaTrue
<1> QED BY <1>3, <1>4, <1>5

\* A click on an opening button of the help panel, and on its folding button.
LEMMA PanelClickKeeps ==
  ASSUME IInv, Help!OpenHelp \/ Help!FoldHelp, UNCHANGED modalVars,
         unlocked' = (unlocked \/ (scrollNo /\ ~scrollNo' /\ opened # {}))
  PROVE  IInv'
<1> USE DEF IInv, Typed, TypeOK
<1>1. /\ wrapInert' = wrapInert /\ winSize' = winSize /\ focus' = Page /\ execAria' = expanded'
      /\ UNCHANGED <<counted, classIn, shown, backIn, visible, zIndex, opened, escs>>
      /\ UNCHANGED <<opens, rushed, miscounted, later, outdated>>
      /\ \/ /\ expanded' = TRUE /\ scrollNo' = (scrollNo \/ winSize = "mob")
            /\ timers' = timers \o <<Timer("help", Page, 50)>>
         \/ /\ expanded' = FALSE /\ scrollNo' = (scrollNo /\ winSize # "mob")
            /\ timers' = timers
  BY DEF Help!OpenHelp, Help!FoldHelp, Help!AriaAfter, Help!Page, Page, Help!Timer, Timer, modalVars,
         history
<1>2. /\ timers' \in Seq(TimerSet)
      /\ \A j, o : j # "help" => (Pending(timers', j, o) <=> Pending(timers, j, o))
  <2> DEFINE us == <<Timer("help", Page, 50)>>
  <2>1. /\ timers \o us \in Seq(TimerSet)
        /\ \A j, o : j # "help" => (Pending(timers \o us, j, o) <=> Pending(timers, j, o))
    BY HelpSets, "help" \in {"lock", "help"}, 50 \in {0, 50}
  <2>2. timers' = timers \/ timers' = timers \o us
    BY <1>1
  <2> HIDE DEF us
  <2> QED BY <2>1, <2>2
<1>3. Typed'
  BY <1>1, <1>2
<1>4. Modality'
  BY <1>1, <1>2, ModalsAssumption
     DEF Modality, ShownOrHiding, AsOpened, ZIndexCounts, CountedIn, InnerNotBelow,
         FocusInOpenModal
<1>5. Locks'
  BY <1>1, <1>2 DEF Locks, ScrollLocked, LockOfPanel, HelpAriaTrue
<1> QED BY <1>3, <1>4, <1>5

\* The callback of a timer of the help panel.
LEMMA PanelTimerKeeps ==
  ASSUME IInv, NEW i \in DOMAIN timers, Help!RunTimer(i), UNCHANGED modalVars,
         unlocked' = (unlocked \/ (scrollNo /\ ~scrollNo' /\ opened # {}))
  PROVE  IInv'
<1> USE DEF IInv, Typed, TypeOK
<1> DEFINE k == timers[i].job
<1>1. timers' = Without(timers, i)
  BY DEF Help!RunTimer, Help!Without, Help!RemoveAt, Without, RemoveAt
<1>2. /\ k \in {"lock", "help"}
      /\ wrapInert' = wrapInert /\ winSize' = winSize /\ expanded' = expanded
      /\ execAria' = execAria /\ focus' \in {focus, Page}
      /\ \/ k = "lock" /\ scrollNo' = (winSize = "mob" /\ expanded)
         \/ k # "lock" /\ scrollNo' = scrollNo
      /\ UNCHANGED <<counted, classIn, shown, backIn, visible, zIndex, opened, escs>>
      /\ UNCHANGED <<opens, rushed, miscounted, later, outdated>>
  BY DEF Help!RunTimer, Help!Page, Page, modalVars, history
<1>3. timers' \in Seq(TimerSet)
  BY <1>1, PendingAfterRun
<1>4. ASSUME NEW j, NEW x
      PROVE  /\ Pending(timers', j, x) => Pending(timers, j, x)
             /\ Pending(timers, j, x) => Pending(timers', j, x) \/ j = k
  BY <1>1, PendingAfterRun
<1> HIDE DEF k
<1>5. Typed'
  BY <1>2, <1>3
<1>6. Modality'
  BY <1>2, <1>4, ModalsAssumption
     DEF Modality, ShownOrHiding, AsOpened, ZIndexCounts, CountedIn, InnerNotBelow,
         FocusInOpenModal
<1>7. Locks'
  <2>1. ScrollLocked'
    BY <1>2 DEF Locks, ScrollLocked
  <2>2. LockOfPanel'
    BY <1>2, <1>4 DEF Locks, LockOfPanel
  <2> QED BY <1>2, <2>1, <2>2 DEF Locks, HelpAriaTrue
<1> QED BY <1>5, <1>6, <1>7

LEMMA InitIInv == PageInit => IInv
<1> SUFFICES ASSUME PageInit PROVE IInv
  OBVIOUS
<1>1. /\ timers \in Seq(TimerSet) /\ Pending(timers, "lock", Page)
      /\ \A j, o : Pending(timers, j, o) => j = "lock" /\ o = Page
  BY PendingOfPanel, "lock" \in {"lock", "help"}, 0 \in {0, 50} DEF PageInit
<1>2. Cardinality({}) = 0 /\ Cardinality(Modals) \in Nat
  BY Counting, FS_EmptySet
<1>3. Typed
  <2>1. /\ zIndex \in [Modals -> 0 .. Cardinality(Modals) + 1]
        /\ escs \in [Modals -> 0 .. MaxOpens] /\ opens \in 0 .. MaxOpens
        /\ \A m \in Modals : escs[m] <= opens
    BY <1>2, BoundsAssumption DEF PageInit, Init
  <2>2. /\ {scrollNo, wrapInert, miscounted, expanded, execAria, unlocked} \subseteq BOOLEAN
        /\ winSize \in {"pc", "mob"}
    BY DEF PageInit, Init, Help!Init
  <2> QED BY <1>1, <2>1, <2>2, MarkupAssumption DEF Typed, TypeOK, PageInit, Init
<1>4. Modality
  <2>1. ZIndexCounts
    <3>1. CountedIn = {} /\ Cardinality(CountedIn) = 0 /\ zIndex = [m \in Modals |-> 0]
      BY <1>2 DEF PageInit, Init, CountedIn
    <3> QED BY <3>1 DEF ZIndexCounts
  <2>2. ShownOrHiding /\ AsOpened /\ InnerNotBelow
    BY <1>1 DEF PageInit, Init, ShownOrHiding, AsOpened, InnerNotBelow
  <2>3. FocusInOpenModal
    BY ModalsAssumption DEF PageInit, FocusInOpenModal
  <2> QED BY <2>1, <2>2, <2>3 DEF Modality
<1>5. Locks
  BY <1>1 DEF PageInit, Init, Help!Init, Locks, ScrollLocked, LockOfPanel, HelpAriaTrue
<1> QED BY <1>3, <1>4, <1>5 DEF IInv

LEMMA NextIInv == IInv /\ [PageNext]_vars => IInv'
<1> SUFFICES ASSUME IInv, [PageNext]_vars PROVE IInv'
  OBVIOUS
<1>1. CASE ModalStep
  <2>1. UNCHANGED panelVars /\ unlocked' = (unlocked /\ opens' = opens)
    BY <1>1 DEF ModalStep
  <2>2. ASSUME NEW m \in Modals, OpenModal(m) PROVE IInv'
    BY <2>1, <2>2, OpenModalKeeps
  <2>3. ASSUME NEW m \in Modals, CloseModal(m) PROVE IInv'
    <3>1. Close(m, 1) /\ escs' = escs /\ 1 \in Nat \ {0}
      BY <2>3 DEF CloseModal
    <3> QED BY <2>1, <3>1, CloseKeeps
  <2>4. ASSUME NEW m \in Modals, Escape(m) PROVE IInv'
    <3>1. /\ Close(m, escs[m]) /\ escs' = [escs EXCEPT ![m] = 0]
          /\ escs[m] \in Nat \ {0}
      BY <2>4 DEF Escape, IInv, Typed, TypeOK
    <3> QED BY <2>1, <3>1, CloseKeeps
  <2>5. ASSUME NEW m \in Modals, OtherKey(m) PROVE IInv'
    BY <2>1, <2>5, OtherKeyKeeps
  <2>6. ASSUME NEW m \in Modals, NEW i \in DOMAIN timers, RunTimer(m, i) PROVE IInv'
    BY <2>1, <2>6, RunTimerKeeps
  <2>7. ASSUME NEW c \in Modals \cup {Page}, FocusPlace(c) PROVE IInv'
    BY <2>1, <2>7, FocusPlaceKeeps
  <2> QED BY <1>1, <2>2, <2>3, <2>4, <2>5, <2>6, <2>7 DEF ModalStep
<1>2. CASE HelpStep
  <2>1. /\ UNCHANGED modalVars
        /\ unlocked' = (unlocked \/ (scrollNo /\ ~scrollNo' /\ opened # {}))
    BY <1>2 DEF HelpStep
  <2>2. CASE Help!Scroll \/ Help!Resize
    <3>1. Help!Reinit /\ winSize' \in {"pc", "mob"}
      BY <2>2 DEF Help!Scroll, Help!Resize, IInv, Typed, TypeOK
    <3> QED BY <2>1, <3>1, ReinitKeeps
  <2>3. CASE Help!OpenHelp \/ Help!FoldHelp
    BY <2>1, <2>3, PanelClickKeeps
  <2>4. ASSUME NEW i \in DOMAIN timers, Help!RunTimer(i) PROVE IInv'
    BY <2>1, <2>4, PanelTimerKeeps
  <2> QED BY <1>2, <2>2, <2>3, <2>4 DEF HelpStep
<1>3. CASE UNCHANGED vars
  BY <1>3 DEF vars, modalVars, sharedVars, panelVars, history, IInv, Typed, TypeOK, Modality,
              ShownOrHiding, AsOpened, ZIndexCounts, CountedIn, InnerNotBelow, FocusInOpenModal, Locks,
              ScrollLocked, LockOfPanel, HelpAriaTrue
<1> QED BY <1>1, <1>2, <1>3 DEF PageNext

THEOREM Invariance == PageSpec => []IInv
  BY InitIInv, NextIInv, PTL DEF PageSpec

-----------------------------------------------------------------------------
(* The properties the run checks, for any number of modals *)

\* When its timers have run, a modal that was not rushed is shown exactly if it
\* is open; the focus is never left in a closed one; and a modal opened from
\* inside another lies above it, if that one's z-index is not outdated.
THEOREM ModalsOpened == PageSpec => []ModalsAsOpened
<1>1. IInv => ModalsAsOpened
  <2> SUFFICES ASSUME IInv PROVE ModalsAsOpened
    OBVIOUS
  <2> USE DEF IInv, Typed
  <2>1. SettledAsOpened
    <3> SUFFICES ASSUME timers = <<>>, NEW m \in Modals \ rushed
                 PROVE  (m \in opened <=> m \in visible) /\ (m \in opened <=> m \in classIn)
      BY DEF SettledAsOpened, TypeOK
    <3>1. \A j, o : ~Pending(timers, j, o)
      BY DEF Pending
    <3> QED BY <3>1 DEF Modality, AsOpened, ShownOrHiding, TypeOK
  <2>2. InnerModalOnTop
    <3> SUFFICES ASSUME NEW m \in opened \cap later, Home[m] # Page,
                        {Home[m], m} \subseteq (visible \cap opened) \ rushed,
                        Home[m] \notin outdated
                 PROVE  Above(m, Home[m])
      BY DEF InnerModalOnTop
    <3>1. m \in Modals /\ Home[m] \in Modals
      BY DEF TypeOK
    <3>2. zIndex[Home[m]] <= zIndex[m] /\ zIndex[m] \in Nat /\ zIndex[Home[m]] \in Nat
      <4>1. zIndex[Home[m]] <= zIndex[m]
        BY DEF Modality, InnerNotBelow
      <4>2. Cardinality(Modals) \in Nat
        BY Counting
      <4> QED BY <3>1, <4>1, <4>2 DEF TypeOK
    <3>3. Home[m] < m /\ m \in Nat /\ Home[m] \in Nat
      BY <3>1, Places
    <3> QED BY <3>2, <3>3 DEF Above
  <2> QED BY <2>1, <2>2 DEF ModalsAsOpened, Modality
<1> QED BY <1>1, Invariance, PTL

\* The page is locked while a modal is open, unless modals were counted wrongly
\* or the help panel unlocked it, and is unlocked with the last modal.
THEOREM ScrollLockHolds == PageSpec => []ScrollLockKept
<1>1. IInv => ScrollLockKept
  <2> SUFFICES ASSUME IInv PROVE ScrollLockKept
    OBVIOUS
  <2>1. timers = <<>> => ~Pending(timers, "lock", Page)
    BY DEF Pending
  <2> QED BY <2>1 DEF IInv, Typed, TypeOK, Locks, LockOfPanel, ScrollRestored, ScrollLockKept
<1> QED BY <1>1, Invariance, PTL
=============================================================================
