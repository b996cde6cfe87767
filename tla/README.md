# TLA+ verification of egov-boot-web

The repository is an eGovFrame / Spring Boot sample: a bulletin board behind an
OAuth2 login whose whole authentication state lives in three cookies. This
directory holds TLA+ models of its parts, the TLC configurations that check
them, and TLAPS proofs. Paths below are relative to the repository root `src/`;
`J/` stands for `src/main/java/egovframework/example/`.

## 1. Inventory

| Component | Where | State it keeps | Operations | Interacts with |
|---|---|---|---|---|
| Token refresh | `J/config/security/TokenRefreshService.java` | `inFlight`: refresh token -> future; tasks of the common fork-join pool | `refresh`, `doRefresh` | filter threads call it; it POSTs to the authorization server |
| Cookie filter | `J/config/security/JwtCookieAuthenticationFilter.java`, `CookieUtils`, `AuthCookieProperties` | none of its own: the browser's cookies, the thread's `SecurityContext` | `doFilterInternal`, `tryRefresh`, `clearAllAuthCookies` | decoder (JWKS), refresh service, browser |
| Login handshake | `SecurityConfig` (order 1), `OAuth2LoginSuccessHandler` | HTTP session (state, nonce, saved request), the authorized client store | redirect to the server, callback, `onAuthenticationSuccess` | browser, authorization server |
| Logout | `SecurityConfig` (order 2), `RpInitiatedLogoutHandler` | none | `onLogoutSuccess` | browser, authorization server |
| Bulletin board | `J/sample/**`, mapper XML, `db/sampledb.sql` | tables `SAMPLE` and `IDS`, the block of ids in memory | list, add, update, delete | browser pages, transaction manager |
| Pagination | `J/pagination/**`, `PaginationInfo` (library) | label fields of the singleton renderer | `updateMessages`, `renderPagination` | request threads, locale |
| Form validation | `static/js/egovframework/EgovValidation.js` | none | the rules, `getFieldValue`, `validateForm` | forms of the pages |
| Form scripts, Enter key | `egovSampleRegister.html`, `egovSampleList.html`, `static/js/egovframework/common.js` | the fields, the focus, a dialog, a planned request | the functions behind buttons and links, the `keydown` listener | validation, browser, board |
| Overlays | `static/js/component/ui-script.js`: `krds_modal`, `krds_helpPanel` | classes of modals and of `body`, `inert`, timers, one-time listeners | open, close, Escape, scroll, resize | each other, through scroll lock and timers |
| Mobile menu | `krds_mainMenuMobile` | classes, `inert`, timers, `transitionend` listeners | open, close, resize, panels, scrolling of its body | page under it |
| Popups | `krds_mainMenuPC`, `krds_dropEvent`, `krds_adjustContentScale`, `krds_contextualHelp`, `krds_calendar`, `krds_tooltip` | what is open, expanded, remembered as open; the focus | click, key, focus and document listeners | each other, through the document and the focus |
| Widgets of the content | `krds_sideNavigation`, `krds_tab`, `scrollManager`, `krds_inPageNavigation`, `krds_accordion`, `krds_disclosure`, `krds_chkBox`, range of `krds_calendar` | classes, `aria` attributes and texts, listeners | clicks, scrolling, transitions | scroll position, time |
| Configuration | `J/config/*.java`, `J/exception/**` | none at run time | bean definitions | all |

The hard behaviours: many threads of one browser present the same expired
cookies at once (a page and its style sheets all pass the filter of the main
chain); a caller of `refresh` may give up while its POST is still under way;
the server spends a refresh token when it rotates it; responses reach the
browser in any order; a login or a logout overlaps ordinary requests; the
pagination renderer is one object for all threads; the board reads its page and
its row count in two transactions.


What makes each component correct, in a sentence:

- **Token refresh**: an entry of the map is as old as some caller inside
  `refresh`, a POST is repeated only after somebody gave up on the first, every
  caller returns, and what it returns was granted for its own token.
- **Cookie filter and logout**: a live refresh token is not spent before its access
  token has expired, the cookies the browser ends up with belong together, and a
  logout is undone only by a response that was already under way.
- **Login**: the tokens end in the browser of their user, no session outlives the
  handshake, a callback fails only if another login, a logout or a timeout came between.
- **Board**: ids are drawn once, a form writes only the row it was loaded from, a
  failed save leaves nothing behind, lists number and link their rows correctly.
- **Renderer**: a page carries labels of its own language unless another thread
  rendered at the same time.
- **Forms**: what is saved is complete, confirmed and asked for; a rule says what its
  message says; a list asks for what the user chose.
- **Overlays, menus, popups**: when timers and transitions are over, the page is as the
  user last asked, the focus is on something visible, the page is locked only under
  something open, and at most one popup is.
- **Widgets of the content**: what is shown, what screen readers are told and what the
  script remembers are the same.

## 2. Hazards

`PROJECT.json` lists each at its line, with the properties that cover it. They
fall into groups: who removes the entry of `inFlight` and when (a waiter, a
late waiter, one that timed out); what the browser is left with when responses
and expiry come in any order; what a transaction that rolls back leaves in memory
(the id block) and what an old form may do afterwards; shared objects that
one request changes while another uses them (the renderer's labels, the store of
authorized clients, the HTTP session); timers, transitions and one-time listeners of a
widget that fire after the user has gone on (modals, mobile menu, side navigation);
widgets that react to one event without knowing of each other (popups, scroll lock);
state kept twice, in classes, attributes and variables; and requests submitted, asked
again or replaced while another is under way. Four have no property, with the reason
beside them: the code promises nothing about lost updates, it does clear the cookies when
keys cannot be fetched, a page link does submit a text that was not searched for, and the
page arithmetic is that of a library. Where the code itself goes wrong in part of a hazard,
the property leaves exactly that part out by a named history variable (`rushed`, `hasty`,
`hurried`, `torn`, ...), and the hazard's note says which: the property then tells that
nothing else goes wrong.

## 3. Modules

| Module | Models | Uses |
|---|---|---|
| `RefreshContract` | what `refresh` promises a request thread: the abstract specification | – |
| `TokenRefresh` | `TokenRefreshService`, its pool, and the token endpoint | `RefreshContract` (refinement) |
| `CookieAuth` | one browser, its cookies, the filters of the main chain | extends `TokenRefresh` (composition: its variables and actions) |
| `SessionProofs` | theorems about `TokenRefresh` and `CookieAuth` | extends `CookieAuth` |
| `LoginHandshake` | the handshake chain, sessions, client store, success handler | – |
| `PaginationRenderer` | the label fields of the renderer under several threads | – |
| `SampleTable` | what the board promises of table `SAMPLE`: the abstract specification | – |
| `SampleBoard` | forms, transactions, id generator, restart | `SampleTable` (refinement) |
| `SampleList` | the list request with its two queries | extends `SampleTable`, which supplies the writes of other requests |
| `SampleProofs` | theorems about `SampleBoard`, `SampleList` and `PaginationRenderer` | extends all three |
| `LoginHandshakeProofs` | theorems about `LoginHandshake` | extends it |
| `PageTimers` | `setTimeout`: pending timers in the order of setting | – |
| `Modal`, `HelpPanel`, `OverlayPage` | dialogs, the help panel, and a page with both | `PageTimers`; `OverlayPage` composes |
| `OverlayPageProofs` | theorems about `OverlayPage` | extends it |
| `MobileMenu`, `MobileMenuProofs` | the menu that slides over a narrow page; theorems | `PageTimers` |
| `MainMenuPC`, `Dropdowns`, `CalendarArea`, `Tooltip` | main menu, drop-downs and helps, date pickers, place of a tool tip: the functions their handlers apply | – |
| `PopupPage` | the document they share, its events and its focus | composes these four |
| `PopupPageProofs` | theorems about `PopupPage` and about the place of tool tips | extends it |
| `SideNavigation`, `InPageNavigation`, `Foldables`, `Choices`, `GnbScroll`, `CalendarRange` | one widget of the content each | – |
| `ContentPage` | a page with one of these in use | composes these six |
| `ContentPageProofs` | theorems about `ContentPage` | extends it |
| `EgovValidation` | the rules and `validateForm` | – |
| `ValidatedForm`, `BoardForms` | a field and a form under these rules; the forms of the board with dialogs, keys and requests | `EgovValidation` |
| `FormPage` | a page with one of these | composes both |
| `FormPageProofs` | theorems about rules, validation, saves and the list's requests | extends `FormPage` |
| `MC*` | the constants of the runs; those of `MobileMenu` and `PaginationRenderer` are in their `.cfg` | the module they are named after |

Each module that has properties also holds, next to the definition it varies,
one or more *mutants*: the definition with a plausible mistake in it, named after it
(`HideNever` beside `Hide`). A property
of a run counts for something because TLC finds it violated once the mutant takes
the place of the definition; `PROJECT.json` says which mutant breaks which property.
A property of a run may be the conjunction of named parts; each part is stated and
commented where its state is.

### TokenRefresh

| Code | Model |
|---|---|
| `inFlight` | `inFlight`, token to future; a future is named by the call that created it |
| `computeIfAbsent` with `supplyAsync` | `Refresh`, one atomic step, as the map guarantees |
| `future.get(15, SECONDS)` returns | `Get` |
| its `TimeoutException`, `InterruptedException` | `TimeOut` (only while the result is not there), `Interrupt` (at any moment) |
| `finally { inFlight.remove(token, future) }` | `Remove`, the step with which the call returns |
| a pool thread in `doRefresh` | `RunTask`, then `Respond` or `Fail`; `PoolSize` tasks run at a time |
| the token endpoint | `Grant`, `Refuse` (external): it spends a token when it grants it and always refuses a spent one |

Between `Leave` and `Remove` a call is `"leaving"`, so that a call which joins the
future after its result is known, but before the entry is gone, is a behaviour of
the model. A lost response is `Fail` after `Grant`: the token is spent and the
caller gets `Optional.empty()`. `ExecutionException` cannot occur, as `doRefresh`
catches every exception of its own.

`RefreshContract` knows calls, grants and, per token, the grants a call may still
return (`fresh`). The refinement mapping calls a grant fresh while it is on its way
to a future on which a call in service waits, or is in that future.

### CookieAuth

One browser, every request of which is also a call of `refresh` (a request makes
at most one). `Send` copies the cookies into the request: a request that another
site starts carries only the `Lax` access cookie, the other two are `Strict`. Each branch of
`doFilterInternal` and `tryRefresh` is an action (`Anonymous`, `Authenticated`,
`TryRefresh`, `Reject`, `Refreshed`, `RefreshFailed`); `Logout` stands before the
filter, as in the chain; `LoginSuccess` is what the handshake writes: one of `LoginCookies`,
as the handler writes the access cookie only with an authorized client and the refresh
cookie only if that has a refresh token. An older refresh cookie may so stay beside the
access cookie of such a login (`Bare`), which `OneGenerationInJar` and
`SpentAfterExpiry` name as the only mixture. `Deliver`
takes the responses in any order, or never: that is also what an abandoned request
looks like. A token is named by the grant or login that issued it.

The environment is a set of faults a run switches on: `slow` (a call gives up its
wait, by time-out or interrupt), `refuse` (the server refuses a token it could
accept), `drop` (a POST fails), `jwks` (signing keys cannot be fetched). The
cookies of `Lapsing` may reach their Max-Age. The decoder grants a leeway of 60 s that `isExpiredToken`
does not: a token is first `expired`, for the filter's question, then `overdue`, for the
decoder. In between it decodes, unless the keys cannot be fetched; then it is refreshed.
Both steps are told only of tokens that a request carries to the filter (`Carried`), as
nothing asks for the age of others.
The access cookie has the shortest Max-Age, and a cookie that every refresh
rewrites with it cannot lapse before it; hence the guard of `Lapse`. The id cookie
does not lapse in the run: only the logout reads it, as a hint for the server it redirects to.

### LoginHandshake

A tab runs one login: `Challenge` (main chain), `Authorize` (state into the
session), `Callback`, `Exchange` or `ExchangeFails`, `Success`. The framework's
parts, which the repository only configures, are external: the session's single
slot for the authorization request, the change of session id after authentication,
the store of authorized clients keyed by registration and user. Between `Exchange`
and `Success` another login of the same user may replace the stored client.
`Failure` is the handler that `failureUrl` configures: it keeps the exception in the session,
in a new one if there is none. A session that no request uses may time out
(`SessionTimesOut`). `ChangeLanguage` puts the language into the session, as
`SessionLocaleResolver` does; static resources take the parameter, too, so it may come at any time.

`disturbed` is the history of overlaps: a login that is redirected while another one of its
browser is under way disturbs it and is disturbed by it, a logout or a timeout disturbs the
logins at the server. `CallbackFailsOnlyByOverlap` excuses no login by one that had ended before.

### PaginationRenderer

The renderer bean has one set of label fields. `Begin` is the call, `Write` one
write of a label during `updateLabelsWithCurrentLocale`, `PutPrev` and `PutNext`
the reads by the template engine's rendering. Each field is assumed coherent on its
own, which Java guarantees for references; the order of the writes is that of the code.

### SampleTable, SampleBoard, SampleList

`SampleBoard` follows a tab from list to form to save. A row carries the number of
the insert that made it, so that two rows which have had the same id are told apart.
`DrawId` is the call of the id generator at the start of `insertSample`,
`InsertSample` its `INSERT` with commit or rollback. Whether the generator reserves a
block in a transaction of its own or in the caller's depends on a library that is not
in the repository; the model allows both. The forms accept 60 characters where the
columns hold fewer: `TooLong` texts pass the form and fail in the database.
`Restart` loses the in-memory database and the block, not the pages in the browsers.

`SampleList` makes a page of two queries with writes in between (`Save`, any step of
`SampleTable` but `Reset`). The template's row numbers use `pageSize`, the
query `pageUnit`; both come from the properties. `SampleList` has no restart.

### Modal, HelpPanel, OverlayPage

| Code | Model |
|---|---|
| classes `in`, `shown`, `modal-back`; what the style sheet shows | `classIn`, `shown`, `backIn`, `visible` |
| class `modal-opened` of the trigger | `opened`, the set of open modals |
| `scroll-no` of `body`, `inert` of `#wrap` | `scrollNo`, `wrapInert`, shared with the help panel |
| `keydown` listeners registered with `once` | `escs`: how many have not run; all of them run on one Escape, `Close(m, n)` |
| `setTimeout` of 150, 350 and 350 ms | `Timer("in" / "focus" / "hide", m, delay)` |
| `document.querySelectorAll(".modal.in:not(.sample)")` | `CountedIn`: of the modals with `in` those in `counted`, the ones with class `modal` |

`PageTimers` models time by the order it imposes: a timer may run once no timer set
before it for the same or a shorter delay is pending; events come between any two
callbacks. Four history variables name the ways in which the code loses count: `rushed`, a
modal was opened or closed again within its timers; `miscounted`, one was closed twice, or
while an open one was not counted; `outdated`, a modal's `z-index` counts a modal
closed since; `later` are the modals opened after the one that holds their trigger.
Which modals carry the class `modal` is up to the page: `Markups` are the sets it may give it to. No
page of the repository gives it to any, and everything else in scripts and styles goes by
`krds-modal`; there no modal is counted, the closing of an inner one releases the
lock under the outer one, and no inline `z-index` is set. The run has that markup and the one in which both are counted.
`inert`, which any closing lifts, is modelled but belongs to no property.
`ScrollLocked` says that `miscounted` is the only way, together with `unlocked`: every scroll event
re-initialises the help panel, which then sets the lock from its own state.

### MobileMenu

Opening is a click, a timer of 100 ms and a `transitionend` listener; closing the same
with 400 ms. `listeners` is the list of listeners that have not run: they remove
themselves when they run and not before, and all of them run at the next transition of
the menu or of anything in it (`InnerTransitionEnd`). `want` is what was asked last;
`rushed` that a closing came before the opening had ended, or an opening within the
400 ms. A resize of a wide window is a closing, as in the code.

### PopupPage and its widgets

`MainMenuPC`, `Dropdowns`, `CalendarArea` and `Tooltip` define what each handler makes
of its widget's record. `PopupPage` composes an event from them in the order in which the
scripts register: listeners of the element, then those of the document by order of
initialisation; moving the focus runs `focusout`, `blur` and `focus` listeners in between
(`MoveFocus`), and an element that disappears under the focus loses it without an event
(`FocusFixed`). `stolen` records that a help took the focus back while a drop-down
opened. A click is obeyed if, in every state, what it would make of the page is as meant
(`ClickOpens`, `OutsideClickCloses`).

Places of tool tips are integers in half pixels, so that halves are exact. `Position` is
`calculateTooltipPosition` with what `showTooltip` does to it: a window of at most 420
pixels centres the tool tip, whatever left edge was computed; the style sheet moves it by half its width.
`placed` is the window in which a shown one was placed; `Resize` changes `window`
and closes all of them. `TooltipsInWindow` is a fact about all windows, items and tool tips
of the constants: those that fit lie inside, save a tool tip beside an item at the upper or
lower edge, which the code does not keep from being cut off (`CutOff`).

### ContentPage and its widgets

The six widgets share nothing, so a behaviour uses one, `used`, in any of its initial
states. `SideNavigation` keeps `last`, the button clicked last, and the listeners of
earlier clicks, which also hear the transitions of elements inside a submenu; `InPageNavigation` and `GnbScroll` have a page of a few sections or lists,
whose heights are the constants, with gaps between sections (in a gap
`updateActiveSection` finds no section and leaves the link); `GnbScroll` registers one more scroll listener at every
scroll event, as the code does, and all of them hear the next one (`HandleTopScroll` says what
they do together, one timer for each that sees the way back to the top); `CalendarRange` is
the picking of days, months and today with every set-up of the calendar that a change of the
month adds. The click handlers of a date (`HandleAll`), the listeners of one transition
(`RunListeners`) and the ends of sections (`Bottoms`) are functions by recursion on a number.

`FollowedLinkActive` states when a followed link is the active one: it needs a page that can be
scrolled so far, and a section that ends below the fifth of the window at which
`updateActiveSection` looks. The last was found missing when its proof failed: the link of a
section lower than that is passed over. The run has such a layout.

### EgovValidation, ValidatedForm, BoardForms, FormPage

Every rule is an operator on a sequence of character codes, loops with a state
(`fnCheckPassword3`, `validateForm`) are recursive functions; the descriptions against which they are checked are quantified formulas. `ValidateForm`
follows the code's order: fields, rules, first message, focus. `BoardForms` is one page of
the form and one of the list. `asking` is the function that waits in `confirm()`;
`next` is what Enter still does after the `keydown` listener of `common.js`, which has
called the button's function already; `planned` is a submitted request that has not
left, which a later submission replaces; `Send` sends it.

## 4. Runs

All passing runs take at most about three minutes on two workers.

| Run | Instance | Properties | What it shows |
|---|---|---|---|
| `refresh` | 3 calls, 2 tokens, pool of 2, rotating server | `EntryHasWaiter`, `OneRequestUnlessGivenUp`, `SpentOnlyAfterReturn`, `AnswerIsForOwnToken`, `EveryCallReturns`, `ImplementsContract` | merging works, the map leaks nothing, calls return, the contract is kept |
| `cookie` | 3 requests of every kind, logins with three sets of cookies, all faults but `refuse`, the access and refresh cookies lapse, pool of 1 | `CookieTypeOK`, `SpentAfterExpiry`, `OneGenerationInJar`, `CookiesBackOnlyByOverlap` | cookies stay consistent whatever the order |
| `cookie_forced_logout` | 3 page requests, no fault | `NoForcedLogout` (violated) | a request filtered late presents the spent token |
| `login_safety` | 2 browsers, 3 tabs, 2 users | `TokensOfOwnUser`, `SessionEndsWithLogin`, `CallbackFailsOnlyByOverlap`, `LanguageKept` | overlapping logins |
| `renderer_labels` | 2 threads, 2 locales | `ForeignLabelsOnlyByOverlap` | foreign labels need an overlapping rendering |
| `board_saves` | 2 tabs, 5 ids, blocks of 2, 4 inserts, 1 restart | `FreshIds`, `ChangedByOwnForm`, `DeletedStaysDeleted`, `ImplementsTable` | saves, rollbacks and restarts |
| `board_lists` | 4 rows on pages of 2, 3 searches, 3 writes | `ListTypeOK`, `NumbersAreRanks`, `LinksLeadToRows` | lists under writes |
| `overlays` | 2 modals, one opened from the other, both or none of class `modal`, a help panel | `ModalsAsOpened`, `ScrollLockKept` | what is shown, focused and locked once the timers have run |
| `mobile_menu` | 3 openings, 3 closings, 2 panels | `SettlesAsAsked`, `InertUnderMenu`, `RequestsEnd` | where the menu comes to rest, and that it does |
| `popups` | a menu of three triggers, one of them with a sub trigger, two drop-downs, two helps, two pickers, two tool tips, two windows | `OneOpen`, `WidgetsAgree`, `PopupHoldsFocus`, `ClicksObeyed` | widgets on one document do not get in each other's way, or exactly where they do |
| `content` | each widget with two or three elements | `WidgetsTold`, `LinksOfPlace`, `RangeAsClicked`, `EventsTakeEffect` | shown, told and remembered state agree |
| `form` | texts of 5 characters out of 8, pasted ones up to 21; a form of 7 kinds of elements, 2 tables of rules; 3 gestures, 2 requests | `RulesAsDescribed`, `SavesAsAsked`, `ListRequests`, `ValidatedAsExpected`, `NotAskedAgain` | rules, validation, dialogs and requests |

*Conjunctions.* `ModalsAsOpened`: types, settled as opened, focus only in an open modal,
inner above outer. `ScrollLockKept`: locked while one is open, unlocked after the last,
help buttons truthful. `SettlesAsAsked`: types, menu and panel. `InertUnderMenu`: inert
only under an open menu, focus never under an inert page. `WidgetsAgree`: types, `aria`,
list of the open picker, backdrop, element of the tool tip, zoom, tool tips placed in the
window as it is. `ClicksObeyed`: buttons open, a click outside closes.
`WidgetsTold`: types, popups of the side navigation with their focus, tabs, folds, frames.
`LinksOfPlace`: link of the section, link of the list, tabs of the menu.
`EventsTakeEffect`: followed link, scroll direction, single accordion, confirmed dates.
`RulesAsDescribed`: types, runs of four, shape of an address, rules that imply others.
`SavesAsAsked`: complete, confirmed, asked once per click. `ListRequests`: no empty search,
first page, no id left over.

*Why these bounds.* Three calls are a creator, one that joins or follows, and one
that comes after the entry was removed; the second token is there so that answers
could be mixed up. Three requests give the rotation, one that overlaps it and one that
follows, or a logout, or a login. `refuse` would add nothing there: the filter sees no
difference to a lost answer. Two tabs of one browser in which two users log in, and a tab of
another browser for one of them, are the smallest overlaps of logins. Two tabs on
the board are two writers; two blocks of two ids let a block run out, be rolled back and
be reserved again; text `long` makes every save able to fail. Four rows on pages of
two give a first, a last and, after deletions, an empty page. Two modals, one inside the
other, give every order of stacking; a window of 360 pixels takes the branches
for small and for narrow windows, one of 1200 the others; three openings and closings of the menu let a
callback of the first meet the third. Every popup needs another of its kind and one of
each other kind to be closed by. Five typed characters hold a run of four with a break
before or after it; the pasted texts have the lengths at which the rules change.

*Deadlock.* Calls, requests and logins are each made once, and a user may stop clicking
with all timers run: those configurations
say `CHECK_DEADLOCK FALSE`. The renderer, the board and the list go on for ever and are
checked for deadlock.

*Symmetry* (requests, tabs of the board) is used in runs without liveness only.

*Bounds in guards*: `MaxInserts`, `MaxRestarts`, `MaxId`, `MaxWrites`; `MaxOpens`,
`MaxHides`, `MaxCloses`, `MaxPanels`, `MaxTimers`, `MaxListeners`; `MaxTyped`,
`MaxGestures`, `MaxRequests`; everything else is finite by itself.

*Fairness.* `FairSpec` of `TokenRefresh` has weak fairness of `Wait` and
`Remove` for each call. A request thread runs, the 15 s limit of
`future.get` ends its wait whatever the pool does, and the finally block needs
nobody else. Nothing is assumed of the pool, the server or the browser, so
`EveryCallReturns` holds although POSTs may hang for ever. `Spec` of `MobileMenu` has weak
fairness of `RunTimer` and `TransitionEnd`: browsers run timers and end transitions;
nobody has to click.

## 5. Proofs

Eight modules hold theorems, each for every value of the constants:

| Module | Theorems |
|---|---|
| `SessionProofs` | of `TokenRefresh`: `TypeCorrect`, `EntriesHaveWaiters`, `AbandonedRequests`, `OneRequest`, `SpentTokens`, `OwnAnswers`, `Refinement` (`ImplementsContract`); of `CookieAuth`: `CookieTypeCorrect`, `SpentTokensExpired` (`SpentAfterExpiry`), `JarOfOneGeneration` (`OneGenerationInJar`, if the server rotates), `CookiesBack` (`CookiesBackOnlyByOverlap`), `RunsService` (every behaviour is one of `TokenRefresh`), `ServiceKept` (what is proved of `TokenRefresh`, of the composition) |
| `LoginHandshakeProofs` | `TypeCorrect`, `OwnTokens` (`TokensOfOwnUser`), `CallbackFails`, `SessionEnds`, `LanguageIsKept` (`LanguageKept`, an action property) |
| `SampleProofs` | of `SampleBoard`: `TypeCorrect`, `IdsAreFresh` (`FreshIds`), `OwnForms` (`ChangedByOwnForm`), `DeletedRows`, `Refinement` (`ImplementsTable`); of `SampleList`: `ListTypeCorrect`, `NumbersRight` (`NumbersAreRanks`), `LinksRight` (`LinksLeadToRows`); of `PaginationRenderer`: `LabelTypeCorrect`, `ForeignLabels` (`ForeignLabelsOnlyByOverlap`) |
| `OverlayPageProofs` | `ModalsOpened` (`ModalsAsOpened`), `ScrollLockHolds` (`ScrollLockKept`) |
| `MobileMenuProofs` | `Settles` (`SettlesAsAsked`), `Inert` (`InertUnderMenu`) |
| `PopupPageProofs` | `OneOpenHolds`, `FocusHeld` (`PopupHoldsFocus`), `WidgetsAgreeHold`, `ClicksAreObeyed` (`ClicksObeyed`), `TooltipsInWindowHold` (a fact about all items, tool tips and windows) |
| `ContentPageProofs` | `WidgetsToldHold`, `LinksHold` (`LinksOfPlace`), `RangeHolds` (`RangeAsClicked`), `EventsHold` (`EventsTakeEffect`, an action property) |
| `FormPageProofs` | `RulesHold` (`RulesAsDescribed`), `SavesHold` (`SavesAsAsked`), `ListRequestsHold`, `NotAskedTwice` (`NotAskedAgain`) and `ValidationsTell`, action properties |

Few of the properties are inductive. Each module states its `IInv` as a conjunction of
named parts and proves that `Init` implies it and every action keeps it, one lemma or step
per action; the theorems follow.

- **TokenRefresh**: a call that has entered waits on a future whose creator entered with the same
  token (`CallsHaveFuture`); exactly the creators' futures have tasks
  (`TasksHaveCreator`); an entry was put by its creator under its own token and has a
  call in service (`EntriesInService`); what a call carries out of the wait is the
  value of its future, or nothing if it left early (`LeaversAnswer`); what a future
  holds was granted to it (`FuturesHold`). `OneRequest` then follows because the map holds
  one future per token: of two pending futures for a token one has no entry, and that one
  was given up. `SpentTokens` needs two more facts, proved on top of `IInv`: a spent token
  was granted to a task, and a task without an entry has a returned caller.
  `Refinement` maps `Refresh` to `Begin`, `Remove` to `Return`, `Grant` to `Grant`, a
  failure after a grant to `Lose`, and everything else to a stutter.
- **CookieAuth**: a request that has called `refresh` presented the refresh token it carries
  beside an access token that has expired (`RefreshesExpired`); the cookies of the browser,
  of a request and of a reply were issued together (`OneGeneration`), or the access cookie is
  that of a login without refresh token, so that a grant
  spends the companion of an expired token, but in that case; after a logout the browser, the requests sent since
  and the replies to them are without cookies, but for a login (`ClearedSince`). The proof
  needs of the service only that tasks have callers (`CallsStarted`): `RunsService` shows that
  the filters call it as `TokenRefresh` allows, and `ServiceKept` carries the theorems about
  `TokenRefresh` over to the composition.
- **LoginHandshake**: sessions are named by the login that made them and stay in its
  browser (`OwnSessions`); the stored client of a user was granted to that user (`Holding`);
  the session made for a redirect is gone once that login is authenticated, the one made
  by the callback lives only from there to the success handler (`CreatedSessions`,
  `ChangedSessions`); one live session holds the request of a login (`LiveStates`), and the
  login finds it again unless it was disturbed (`RequestsKept`).
- **SampleBoard**: ids are given away below the end of the last reservation, committed or
  pending (`Reserved`); the block in memory is the end of that reservation (`BlockAtEnd`)
  and begins above everything given away (`GivenOnce`); a form of this era holds the number of
  its row (`FormsOfRows`). All of it may fail once a reservation was rolled back with the
  insert that made it (`lostBlock`). `Refinement` maps a commit to `Insert`, update and
  delete to those of the form's row, a restart to `Reset`.
- **SampleList**: between its two queries, the number which a count made now would give to a row
  differs from the row's rank by the writes since at most (`RanksAsRead`): the place of an id in
  the sorted sequence of ids is its rank (a lemma about sorted sets), and a write moves the
  count by one at most. While nothing is written, a page reached by a link has rows if any are found, and
  the count is that of the rows found (`PagesHaveRows`), whence a link made from that count
  leads to rows. That numbers are ranks is proved, and true, for `PageSize = PageUnit` only:
  both are 10 in `EgovConfigProperties`.
- **PaginationRenderer**: what a thread has written or read since it began is of its
  locale, as long as no other one has written (`OwnLabels`).
- **MobileMenu**: unless it was rushed, the menu is as asked or its timer is pending, and
  no timer is pending that would undo it (`MenuAsAsked`); an opening listens only while an
  opening was asked for (`InertForOpen`); the panel likewise.
- **OverlayPage**: `Modality` says of every modal that was not rushed that it is as open as
  its classes or a timer is pending that makes it so, and of `z-index` that it counts the modals
  shown when it was set; `Locks` that the page is locked while a modal is open, but for the two named causes,
  and that with none open a lock is the help panel's or its timer is pending. Lemmas about `PageTimers` say which timers are pending after
  an opening, n closings or a callback (`PendingOfOpening`, `PendingOfClosings`). An early
  form of `InnerModalOnTop` was not inductive, and false for three nested modals (section 6).
- **PopupPage**: `Settled` says that each widget's record is consistent and that an open help or
  drop-down holds the focus, `Exclusive` that one widget at most has something open; parts of
  them hold within a handler, and the lemmas say which.
  One lemma says what moving the focus does for any page and target (`MovedFacts`),
  others what a listener of an element and those of the document add (`ElementClicked`,
  `DocumentClicked`); a click is their composition (`ClickedFacts`), so `ClicksObeyed` needs no
  case distinction over pairs of widgets.
- **ContentPage**: six invariants side by side, each kept by its widget's steps. Side
  navigation: unless a second submenu was opened over an open one, at most the submenu of the
  last button is open, and it has the focus or a listener that will move it there (`SideWaits`); that
  the listeners of one transition keep this is an induction over them (`Ran`). In-page
  navigation: the ends of sections rise (`BottomsRise`), so a place on the page is in one
  section at most (`InOneSection`) and the last link that fits is that of the section on
  screen (`ScreenFacts`). Menu body: every scroll listener but the newest has seen the last
  event (`LastsAtTop`), whence the tabs follow the place (`TabsFollow`). Calendar: all sets of
  handlers hold the start that the clicked range has (`AllStart`); after k of them have
  handled a click the first k agree on the next start and the cells are marked as by one
  (`Handled`, `HandledOnce`): a second handler marks nothing that the first has not.
- **FormPage**: the counters of `fnCheckPassword3` count the run that ends at the current
  character, so a counter of four is a run (`CountsTell`, `RunsAreFound`): an induction over the
  text, done about the set of positions up to which the counters are right
  (`Induction`), because the loop is a function defined by recursion (`Recursion` shows that it
  exists). `FormsAreJudged` does the same over the rows of a table of rules, for any form and
  table. The saves of a form, sent and planned, are no more than the confirmations, and with the
  question still open no more than the gestures (`Within`); every planned save is complete (`AllComplete`), and a refused form holds the focus
  with no question open (`Refusal`); of the list, the hidden page is the first unless a link was
  followed (`FirstPageUnlessPaged`).

The assumptions are the named ones of the modules: values that stand for "none" are not among
those they are told from, bounds and sizes are natural numbers, a block has at least one
id, the script's rows have the first ids and texts that fit. TLC evaluates them in
the runs.

Model-checked only, and why:

- `EveryCallReturns` and `RequestsEnd`: liveness under fairness is out of the provers' reach.
- `ValidatedAsExpected` is about the one form and the two tables of its run. In general it is
  false: a text of blanks is empty for `required` but not for the other rules. What holds of
  every form and table is `ValidationsTell`.
- `NoForcedLogout` is false (section 6).

The provers cannot use an induction theorem on an operator; where a loop had to be followed
step by step, the induction is about a set of numbers and rests on the least member of a
set of natural numbers (`LeastOf`).

## 6. Where code and documentation disagree

The first has a run; the others are visible in the code the model translates.
The last was found when a proof failed.

- *No forced logout* (`README.md:227`): merging ends with the first refresh; a request
  sent with the same cookies and filtered afterwards presents the spent token, and its
  response clears the session (`cookie_forced_logout`).
- *One POST per token* (`README.md:143`): after a time-out the entry is removed
  while its POST is running; the next call sends the token again.
- *Cookies are cleared on tampering or failed refresh* (comment in the filter): they are
  cleared, too, when the signing keys cannot be fetched.
- *Three tokens of the exchange become the cookies* (`README.md:116`): access and refresh
  token come from a store with one client per user.
- *The login ends at the saved request* (`README.md:122`): the stateless chain saves none.
- *Labels follow the locale of the request* (comment in the renderer): they are fields
  of a singleton.
- *Scrolling is restored when the last modal closes* (comment in `closeModal`,
  `ui-script.js:978`): the count is of elements with class `modal`, which the repository's
  modals do not have; closing an inner modal restores scrolling under the outer one. The run
  `overlays` has this markup, `miscounted` covers it.
- *A modal opened from another lies above it* (`updateZIndex`, `ui-script.js:989`): the inline
  `z-index` counts the modals open at that moment and stays when some of them close, while the
  next one counts those that are left. Of three nested modals an inner one may so get a lower
  `z-index` than the one it was opened from. Two modals cannot show it; hence `outdated` in
  `InnerModalOnTop`.

## 7. What is assumed of code outside the repository

*Server.* The stateless chain saves no request; the session id changes at login; authorized
clients are kept per registration and user; a logout invalidates the session; the id
generator may reserve in its own or the caller's transaction; HSQLDB locks a written
row until its transaction ends; `PaginationInfo` divides rounding up.

*Markup and styles.* The templates use few of the widgets; their markup is that which the
scripts query, stacking and visibility are those of the KRDS style sheet. Modals lie
outside `#wrap`; offsets of sections are counted from the top of the page; the help panel has its folding button; toggles of popups in the side
navigation and ordinary ones are separate elements; a second-level list is hidden while
inactive. `MaxHides = 2`: at most two hiding timers of modals are pending.

*Browser.* A click with the mouse focuses the button; an element that
disappears loses the focus without events; `focus()` called inside `focusout` ends the
outer move; a running transition that is cancelled has no `transitionend`. After the
`keydown` listener the default action of Enter goes to the element focused by then, and may
be dropped after a dialog (`KeyDropped`). A later submission replaces one that was not
sent; a form with a single text field is submitted by Enter; the way back shows a page as it was left.
`Blanks` are the white space characters of JavaScript among those typed, fewer than `\s` has.

A definition for such code is marked external in the map.

## 8. Not modelled, and what is left

- Redirect URLs and `id_token_hint`, authorities in the token, the
  `redirect` parameter of the success handler (none by default), log output, bean wiring,
  style sheets, jQuery.
- `krds_infoList`, `krds_fileUpload`, `nuriToggleEvent`, `krds_toggleSwitch` and
  `formChipFocus` copy one event to one class or attribute and keep nothing that a later
  event reads. Of modelled widgets: what only measures (`setupPadding`,
  `observeMastHead`, `adjustTooltipPosition`), `setActiveCurrentPage`, which marks a link at
  load, the zoom by steps (`scaleUp`, `scaleDown`), the wording of messages, the marks of
  chosen years and months (choosing one unmarks the options of all lists of all pickers,
  `ui-script.js:1416`; nothing reads them), and the horizontal position of the mobile menu's tabs: every
  scroll registers `scrollend` listeners (`ui-script.js:437`) that bring a tab into view, the last of them that of
  the active link.
- Page arithmetic on 32-bit integers: edited `pageIndex`, the page group of the
  renderer, order of ids as strings beyond five digits. It is that of `PaginationInfo`,
  a library.
