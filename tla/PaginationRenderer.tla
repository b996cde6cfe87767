------------------------- MODULE PaginationRenderer -------------------------
(***************************************************************************)
(* EgovKrdsPaginationRenderer: one object for all request threads.  Every  *)
(* rendering writes the previous and next labels, in its own locale, into  *)
(* fields of the object and then reads them back, without a lock.          *)
(***************************************************************************)
EXTENDS Naturals, Sequences

CONSTANTS
  Threads,
  Locales,       \* a label is known by the locale its text is in
  DefaultLocale  \* of the thread that creates the bean

ASSUME LocalesAssumption == DefaultLocale \in Locales

VARIABLES
  label,      \* the four label fields that updateLabels writes
  step,       \* what a thread does next: a write, a read, or nothing
  locale,     \* its locale
  page,       \* the labels on the page it renders
  disturbed   \* history: another thread wrote a label during its rendering

renderVars == <<label, step, locale, page, disturbed>>

Fields == {"prev", "prevDisabled", "next", "nextDisabled"}

\* The order of the writes of updateLabelsWithCurrentLocale.
Writes == <<"prev", "prevDisabled", "next", "nextDisabled">>
FirstWrite == 1
ReadPrev == Len(Writes) + 1
ReadNext == Len(Writes) + 2
Idle     == 0

Rendering(th) == step[th] # Idle

RenderTypeOK ==
  /\ label \in [Fields -> Locales]
  /\ step \in [Threads -> Idle .. ReadNext]
  /\ locale \in [Threads -> Locales]
  /\ page \in [Threads -> [prev : Locales, next : Locales]]
  /\ disturbed \in [Threads -> BOOLEAN]

\* initMessageLabels
RenderInit ==
  /\ label = [f \in Fields |-> DefaultLocale]
  /\ step = [th \in Threads |-> Idle]
  /\ locale = [th \in Threads |-> DefaultLocale]
  /\ page = [th \in Threads |-> [prev |-> DefaultLocale, next |-> DefaultLocale]]
  /\ disturbed = [th \in Threads |-> FALSE]

\* Mutant of Begin: the labels are left as initMessageLabels has set them.
BeginWithoutUpdate(th, l) ==
  /\ ~Rendering(th)
  /\ step' = [step EXCEPT ![th] = ReadPrev]
  /\ locale' = [locale EXCEPT ![th] = l]
  /\ disturbed' = [disturbed EXCEPT ![th] = FALSE]
  /\ UNCHANGED <<label, page>>

\* A request thread enters renderPagination with the locale of its session.
Begin(th, l) ==
  /\ ~Rendering(th)
  /\ step' = [step EXCEPT ![th] = FirstWrite]
  /\ locale' = [locale EXCEPT ![th] = l]
  /\ disturbed' = [disturbed EXCEPT ![th] = FALSE]
  /\ UNCHANGED <<label, page>>


\* updateLabelsWithCurrentLocale assigns one field.
Write(th) ==
  /\ step[th] \in DOMAIN Writes
  /\ label' = [label EXCEPT ![Writes[step[th]]] = locale[th]]
  /\ step' = [step EXCEPT ![th] = @ + 1]
  /\ disturbed' = [u \in Threads |-> disturbed[u] \/ (u # th /\ Rendering(u))]
  /\ UNCHANGED <<locale, page>>

\* super.renderPagination puts the previous label on the page, disabled on the
\* first page of the list, ...
PutPrev(th) ==
  /\ step[th] = ReadPrev
  /\ \E f \in {"prev", "prevDisabled"} : page' = [page EXCEPT ![th].prev = label[f]]
  /\ step' = [step EXCEPT ![th] = ReadNext]
  /\ UNCHANGED <<label, locale, disturbed>>

\* ... and then the next label, disabled on the last page.
PutNext(th) ==
  /\ step[th] = ReadNext
  /\ \E f \in {"next", "nextDisabled"} : page' = [page EXCEPT ![th].next = label[f]]
  /\ step' = [step EXCEPT ![th] = Idle]
  /\ UNCHANGED <<label, locale, disturbed>>

RenderNext == \E th \in Threads : \/ \E l \in Locales : Begin(th, l)
                            \/ Write(th) \/ PutPrev(th) \/ PutNext(th)

RenderSpec == RenderInit /\ [][RenderNext]_renderVars

-----------------------------------------------------------------------------
(* Properties *)

\* A page shows labels of a locale other than its request's only if another
\* thread was updating the labels while it was rendered.
ForeignLabelsOnlyByOverlap ==
  \A th \in Threads :
    ~Rendering(th) /\ page[th] # [prev |-> locale[th], next |-> locale[th]] => disturbed[th]
=============================================================================
