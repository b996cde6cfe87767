----------------------------- MODULE SampleBoard -----------------------------
(***************************************************************************)
(* EgovSampleController and EgovSampleServiceImpl: the forms that users    *)
(* hold open in their tabs, the transactions that save them, and the id    *)
(* generator, which draws ids in memory from blocks it reserves in table   *)
(* IDS.  Saves that fail validation change nothing and are not steps.      *)
(* What a tab lists is module SampleList's subject: here a list page, as   *)
(* old as it may be, offers any id that has had a row.                     *)
(***************************************************************************)
EXTENDS SampleTable, FiniteSets

CONSTANTS
  Tabs,
  TooLong,      \* texts the forms accept and the columns do not
  BlockSize,    \* ids reserved at a time
  MaxRestarts   \* bound on restarts of the server

ASSUME LengthAssumption == TooLong \subseteq Texts
ASSUME BlockAssumption  == BlockSize \in Nat \ {0}
ASSUME BoundsAssumption == MaxRestarts \in Nat

VARIABLES
  nextId,    \* table IDS, committed
  block,     \* the generator's block in memory: its next id and how many are left
  phase,     \* the page a tab shows, or "inserting"
  form,      \* the row its form was loaded from, and before which restart
  drawn,     \* the id its insert has drawn
  pending,   \* NEXT_ID as its transaction has written it, not committed
  \* history
  used,      \* ids that have had a row since the server started
  lostBlock, \* the reservation of a block in memory has been rolled back
  inserts, restarts

vars == <<row, nextId, block, phase, form, drawn, pending,
          used, lostBlock, inserts, restarts>>
idVars == <<nextId, block, drawn, pending, lostBlock, inserts>>

FirstFree == 1 + Cardinality(DOMAIN ScriptRows)
NoBlock == [next |-> Absent, left |-> 0]
NoForm  == [id |-> Absent, no |-> 0, era |-> 0]

ASSUME IdsAssumption == /\ FirstFree \in Ids
                        /\ ScriptRows \in [1 .. FirstFree - 1 -> Texts \ TooLong]

Rows    == [text : Texts \ TooLong, no : 0 .. MaxInserts]
Forms   == [id : Ids \cup {Absent}, no : 0 .. MaxInserts, era : 0 .. MaxRestarts]
Blocks  == [next : Ids \cup {MaxId + 1, Absent}, left : 0 .. BlockSize - 1]
NextIds == FirstFree .. MaxId + 1

\* Types of the tables, of the generator and of the tabs.
TypeOK ==
  /\ row \in [Ids -> Rows \cup {Absent}]
  /\ nextId \in NextIds
  /\ block \in Blocks
  /\ phase \in [Tabs -> {"list", "create", "edit", "inserting", "error"}]
  /\ form \in [Tabs -> Forms]
  /\ drawn \in [Tabs -> Ids \cup {Absent}]
  /\ pending \in [Tabs -> NextIds \cup {Absent}]
  /\ used \subseteq Ids /\ lostBlock \in BOOLEAN
  /\ inserts \in 0 .. MaxInserts /\ restarts \in 0 .. MaxRestarts

Init ==
  /\ TableInit
  /\ nextId = FirstFree
  /\ block = NoBlock
  /\ phase = [u \in Tabs |-> "list"]
  /\ form = [u \in Tabs |-> NoForm]
  /\ drawn = [u \in Tabs |-> Absent]
  /\ pending = [u \in Tabs |-> Absent]
  /\ used = DOMAIN ScriptRows
  /\ lostBlock = FALSE /\ inserts = 0 /\ restarts = 0

Goto(u, p) == /\ phase' = [phase EXCEPT ![u] = p]
              /\ form' = [form EXCEPT ![u] = NoForm]

-----------------------------------------------------------------------------
(* Pages and saves of an existing row *)

\* addSampleView
AddSampleView(u) ==
  /\ phase[u] = "list"
  /\ Goto(u, "create")
  /\ UNCHANGED <<row, idVars, used, restarts>>

\* updateSampleView: selectSample finds the row a list offers, or throws.
UpdateSampleView(u, i) ==
  /\ phase[u] = "list" /\ i \in used
  /\ IF row[i] # Absent
       THEN /\ phase' = [phase EXCEPT ![u] = "edit"]
            /\ form' = [form EXCEPT ![u] = [id |-> i, no |-> row[i].no, era |-> restarts]]
       ELSE Goto(u, "error")
  /\ UNCHANGED <<row, idVars, used, restarts>>

\* The list button of a form, or the way back from the error page.
BackToList(u) ==
  /\ phase[u] \in {"create", "edit", "error"}
  /\ Goto(u, "list")
  /\ UNCHANGED <<row, idVars, used, restarts>>

\* Mutant of UpdateSample: a row that is gone is inserted again.
UpdateOrInsert(u, x) ==
  LET i == form[u].id
  IN  /\ phase[u] = "edit" /\ x \notin TooLong
      /\ row' = [row EXCEPT ![i] = [text |-> x, no |-> form[u].no]]
      /\ Goto(u, "list")
      /\ UNCHANGED <<idVars, used, restarts>>

\* updateSample: one statement in a transaction of its own.  It writes the row
\* with the id of the form, whoever wrote it last; no row, no error.
UpdateSample(u, x) ==
  LET i == form[u].id
  IN  /\ phase[u] = "edit"
      /\ CASE row[i] = Absent ->
                Goto(u, "list") /\ UNCHANGED row
           [] row[i] # Absent /\ x \in TooLong ->
                Goto(u, "error") /\ UNCHANGED row
           [] OTHER ->
                Goto(u, "list") /\ row' = [row EXCEPT ![i].text = x]
      /\ UNCHANGED <<idVars, used, restarts>>

\* deleteSample
DeleteSample(u) ==
  /\ phase[u] = "edit"
  /\ row' = [row EXCEPT ![form[u].id] = Absent]
  /\ Goto(u, "list")
  /\ UNCHANGED <<idVars, used, restarts>>

-----------------------------------------------------------------------------
(* insertSample *)

\* Mutant of Reserve: the block is one id longer than what IDS is told.
ReserveOneTooMany(u) ==
  /\ \A v \in Tabs : pending[v] = Absent
  /\ nextId + BlockSize <= MaxId + 1
  /\ block' = [next |-> nextId + 1, left |-> BlockSize]
  /\ drawn' = [drawn EXCEPT ![u] = nextId]
  /\ \/ nextId' = nextId + BlockSize /\ UNCHANGED pending
     \/ pending' = [pending EXCEPT ![u] = nextId + BlockSize] /\ UNCHANGED nextId

\* The generator reserves a block: it reads NEXT_ID and writes it back, in a
\* transaction of its own or in the caller's.  A row of IDS that another
\* transaction has written is locked until that one ends.
Reserve(u) ==
  /\ \A v \in Tabs : pending[v] = Absent
  /\ nextId + BlockSize <= MaxId + 1
  /\ block' = [next |-> nextId + 1, left |-> BlockSize - 1]
  /\ drawn' = [drawn EXCEPT ![u] = nextId]
  /\ \/ nextId' = nextId + BlockSize /\ UNCHANGED pending
     \/ pending' = [pending EXCEPT ![u] = nextId + BlockSize] /\ UNCHANGED nextId

\* getNextStringId, the first call of insertSample.
DrawId(u) ==
  /\ phase[u] = "create" /\ inserts < MaxInserts
  /\ phase' = [phase EXCEPT ![u] = "inserting"]
  /\ inserts' = inserts + 1
  /\ IF block.left > 0
       THEN /\ drawn' = [drawn EXCEPT ![u] = block.next]
            /\ block' = [next |-> block.next + 1, left |-> block.left - 1]
            /\ UNCHANGED <<nextId, pending>>
       ELSE Reserve(u)
  /\ UNCHANGED <<row, form, used, lostBlock, restarts>>

Ends(u, p) ==
  /\ Goto(u, p)
  /\ drawn' = [drawn EXCEPT ![u] = Absent]
  /\ pending' = [pending EXCEPT ![u] = Absent]
  /\ UNCHANGED <<block, inserts, restarts>>

\* Mutant of Commit: the table has no primary key.
CommitOver(u, x) ==
  LET i == drawn[u]
  IN  /\ x \notin TooLong
      /\ row' = [row EXCEPT ![i] = [text |-> x, no |-> inserts]]
      /\ nextId' = IF pending[u] # Absent THEN pending[u] ELSE nextId
      /\ used' = used \cup {i}
      /\ Ends(u, "list") /\ UNCHANGED lostBlock

\* The INSERT succeeds and the transaction commits ...
Commit(u, x) ==
  LET i == drawn[u]
  IN  /\ row[i] = Absent /\ x \notin TooLong
      /\ row' = [row EXCEPT ![i] = [text |-> x, no |-> inserts]]
      /\ nextId' = IF pending[u] # Absent THEN pending[u] ELSE nextId
      /\ used' = used \cup {i}
      /\ Ends(u, "list") /\ UNCHANGED lostBlock

\* ... or it violates the primary key or a column's length, and the transaction
\* rolls back, with the reservation it made: the block stays in memory.
Rollback(u, x) ==
  /\ row[drawn[u]] # Absent \/ x \in TooLong
  /\ lostBlock' = (lostBlock \/ pending[u] # Absent)
  /\ Ends(u, "error") /\ UNCHANGED <<row, nextId, used>>

InsertSample(u, x) == phase[u] = "inserting" /\ (Commit(u, x) \/ Rollback(u, x))

\* The server restarts: its in-memory database is made from the script again,
\* the generator starts without a block; forms stay open in the browsers.
Restart ==
  /\ restarts < MaxRestarts
  /\ restarts' = restarts + 1
  /\ row' = Script /\ nextId' = FirstFree /\ block' = NoBlock
  /\ used' = DOMAIN ScriptRows /\ lostBlock' = FALSE
  /\ phase' = [u \in Tabs |-> IF phase[u] = "inserting" THEN "error" ELSE phase[u]]
  /\ drawn' = [u \in Tabs |-> Absent]
  /\ pending' = [u \in Tabs |-> Absent]
  /\ UNCHANGED <<form, inserts>>

TabStep(u) ==
  \/ AddSampleView(u) \/ BackToList(u) \/ DrawId(u) \/ DeleteSample(u)
  \/ \E i \in Ids : UpdateSampleView(u, i)
  \/ \E x \in Texts : UpdateSample(u, x) \/ InsertSample(u, x)

Next == Restart \/ \E u \in Tabs : TabStep(u)

Spec == Init /\ [][Next]_vars

-----------------------------------------------------------------------------
(* Properties *)

\* An id that an insert has drawn has not had a row and is not another's: only
\* the rolled back reservation of a block makes the generator repeat ids.
FreshIds ==
  \/ lostBlock
  \/ \A u \in Tabs : phase[u] = "inserting" =>
       /\ drawn[u] \notin used
       /\ \A v \in Tabs \ {u} : drawn[v] # drawn[u]

\* A row is changed or deleted only from a form that was loaded from that row
\* and not from an earlier one of its id, except after a lost block, or from a
\* form older than the restart.
ChangedByOwnForm ==
  [][\A i \in Ids : row[i] # Absent /\ row'[i] # row[i] /\ restarts' = restarts =>
       \/ lostBlock
       \/ \E u \in Tabs : form[u].id = i /\ phase[u] = "edit" /\ phase'[u] # "edit"
                          /\ (form[u].no = row[i].no \/ form[u].era < restarts)]_vars

\* A row that was deleted does not come back: no open form brings it back, and
\* its id is not drawn again unless a block was lost.
DeletedStaysDeleted ==
  [][\A i \in used : row[i] = Absent /\ row'[i] # Absent => lostBlock \/ restarts' # restarts]_vars

\* The board keeps the promises of SampleTable: no save touches two rows, none
\* makes a row another one, and ids that repeat replace no row.
ImplementsTable == TableSpec
=============================================================================
