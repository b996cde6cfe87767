---------------------------- MODULE SampleProofs ----------------------------
(* Theorems about the board, for any number of tabs, ids, inserts and      *)
(* restarts and any size of the generator's blocks, and about its list     *)
(* pages, for any table, any search, any page size and any number of       *)
(* writes, with the labels under them, for any number of request threads   *)
(* and locales.  They speak of Spec, ListSpec and RenderSpec in turn.      *)
EXTENDS SampleBoard, SampleList, PaginationRenderer, FiniteSetTheorems, SequenceTheorems, TLAPS

-----------------------------------------------------------------------------
(* The inductive invariant *)

\* An insert under way has drawn an id; at most one has written table IDS.
Transactions ==
  /\ \A u \in Tabs : (drawn[u] # Absent) = (phase[u] = "inserting")
  /\ \A u \in Tabs : phase[u] = "inserting" => inserts > 0
  /\ \A u \in Tabs : pending[u] # Absent => phase[u] = "inserting" /\ pending[u] > nextId
  /\ \A u, v \in Tabs : pending[u] # Absent /\ pending[v] # Absent => u = v

\* Ids below the end of the last reservation, committed or not.
Reserved(i) == i < nextId \/ \E v \in Tabs : pending[v] # Absent /\ i < pending[v]

\* The ids that have been given away: those of rows, and those drawn.
Given(i) == i \in used \/ \E u \in Tabs : drawn[u] = i

\* The block in memory is the end of the last reservation.
BlockAtEnd ==
  block.left > 0 =>
    /\ block.next \in Ids /\ block.next + block.left <= MaxId + 1
    /\ \/ lostBlock
       \/ (\A v \in Tabs : pending[v] = Absent) /\ block.next + block.left = nextId
       \/ \E v \in Tabs : pending[v] # Absent /\ block.next + block.left = pending[v]

\* What was given away was reserved, and is no longer in the block.
GivenOnce ==
  lostBlock \/ \A i \in Ids : Given(i) => Reserved(i) /\ (block.left > 0 => i < block.next)

\* Rows are of used ids, and a form of this era is that of its row.
FormsOfRows ==
  /\ \A i \in Ids : row[i] # Absent => i \in used
  /\ \A u \in Tabs : phase[u] = "edit" =>
       /\ form[u].id \in Ids /\ form[u].era <= restarts
       /\ lostBlock \/ form[u].era < restarts
          \/ /\ form[u].id \in used
             /\ row[form[u].id] # Absent => row[form[u].id].no = form[u].no

IInv == /\ TypeOK /\ Transactions /\ BlockAtEnd /\ GivenOnce /\ FormsOfRows /\ FreshIds

\* What is known of the constants.
LEMMA Constants ==
  /\ Absent \notin Texts /\ Absent \notin Nat /\ Absent \notin [text : Texts, no : Nat]
  /\ MaxId \in Nat /\ FirstFree \in Ids /\ Ids \subseteq Nat /\ DOMAIN ScriptRows = 1 .. FirstFree - 1
  /\ \A i \in DOMAIN ScriptRows : i \in Ids /\ ScriptRows[i] \in Texts \ TooLong
  /\ BlockSize \in Nat /\ BlockSize > 0 /\ MaxInserts \in Nat /\ MaxRestarts \in Nat
  /\ NextIds \subseteq Nat /\ FirstFree \in NextIds /\ MaxId + 1 \in NextIds
  /\ Absent \notin Rows /\ \A r \in Rows : r.text \in Texts \ TooLong /\ r.no \in 0 .. MaxInserts
  /\ \A x \in Texts \ TooLong, n \in 0 .. MaxInserts : [text |-> x, no |-> n] \in Rows
  /\ Script \in [Ids -> Rows \cup {Absent}]
  /\ NoForm \in Forms
  /\ \A f \in Forms : f.id \in Ids \cup {Absent} /\ f.no \in 0 .. MaxInserts /\ f.era \in 0 .. MaxRestarts
  /\ \A i \in Ids, n \in 0 .. MaxInserts, e \in 0 .. MaxRestarts : [id |-> i, no |-> n, era |-> e] \in Forms
  /\ NoBlock \in Blocks /\ NoBlock.left = 0
  /\ \A b \in Blocks : b.next \in Ids \cup {MaxId + 1, Absent} /\ b.left \in 0 .. BlockSize - 1
  /\ \A n \in 1 .. MaxId + 1, l \in 0 .. BlockSize - 1 : [next |-> n, left |-> l] \in Blocks
  BY AbsentAssumption, TableAssumption, IdsAssumption, BlockAssumption, BoundsAssumption DEF Ids, NextIds, Rows, Forms, Blocks, Script, NoForm, NoBlock

\* A new empty form changes no table and draws no id.
LEMMA KeepAddSampleView ==
  ASSUME IInv, NEW u \in Tabs, AddSampleView(u)
  PROVE  IInv'
<1> USE Constants DEF IInv, TypeOK, Goto, idVars, AddSampleView
<1>1. TypeOK'
  BY DEF TypeOK
<1>2. Transactions'
  BY <1>1 DEF Transactions
<1>3. BlockAtEnd'
  BY <1>1 DEF BlockAtEnd
<1>4. GivenOnce'
  BY <1>1 DEF GivenOnce, Given, Reserved
<1>5. FormsOfRows'
  BY <1>1 DEF FormsOfRows
<1>6. FreshIds'
  BY <1>1 DEF FreshIds
<1> QED BY <1>1, <1>2, <1>3, <1>4, <1>5, <1>6

\* The form that is opened is that of the row as it is.
LEMMA KeepUpdateSampleView ==
  ASSUME IInv, NEW u \in Tabs, NEW i \in Ids, UpdateSampleView(u, i)
  PROVE  IInv'
<1> USE Constants DEF IInv, TypeOK, Goto, idVars, UpdateSampleView
<1>c. PICK f \in Forms, p \in {"edit", "error"} :
        /\ phase' = [phase EXCEPT ![u] = p] /\ form' = [form EXCEPT ![u] = f]
        /\ p = "edit" => i \in used /\ row[i] # Absent /\ f = [id |-> i, no |-> row[i].no, era |-> restarts]
  <2>1. CASE row[i] # Absent
    <3>1. row[i] \in Rows
      BY <2>1
    <3>2. [id |-> i, no |-> row[i].no, era |-> restarts] \in Forms
      BY <3>1
    <3> QED BY <2>1, <3>2
  <2>2. CASE row[i] = Absent
    BY <2>2
  <2> QED BY <2>1, <2>2
<1>d. /\ phase[u] = "list"
      /\ UNCHANGED <<row, nextId, block, drawn, pending, lostBlock, inserts, used, restarts>>
  OBVIOUS
<1> HIDE DEF UpdateSampleView
<1>1. TypeOK'
  BY <1>c, <1>d DEF TypeOK
<1>2. Transactions'
  BY <1>c, <1>d DEF Transactions
<1>3. BlockAtEnd'
  BY <1>d DEF BlockAtEnd
<1>4. GivenOnce'
  BY <1>d DEF GivenOnce, Given, Reserved
<1>5. FormsOfRows'
  BY <1>c, <1>d DEF FormsOfRows
<1>6. FreshIds'
  BY <1>c, <1>d DEF FreshIds
<1> QED BY <1>1, <1>2, <1>3, <1>4, <1>5, <1>6

\* Leaving a page forgets its form.
LEMMA KeepBackToList ==
  ASSUME IInv, NEW u \in Tabs, BackToList(u)
  PROVE  IInv'
<1> USE Constants DEF IInv, TypeOK, Goto, idVars, BackToList
<1>1. TypeOK'
  BY DEF TypeOK
<1>2. Transactions'
  BY <1>1 DEF Transactions
<1>3. BlockAtEnd'
  BY <1>1 DEF BlockAtEnd
<1>4. GivenOnce'
  BY <1>1 DEF GivenOnce, Given, Reserved
<1>5. FormsOfRows'
  BY <1>1 DEF FormsOfRows
<1>6. FreshIds'
  BY <1>1 DEF FreshIds
<1> QED BY <1>1, <1>2, <1>3, <1>4, <1>5, <1>6

\* What an update makes of a row.
LEMMA EditedRow ==
  ASSUME NEW r \in Rows, NEW x
  PROVE  [r EXCEPT !.text = x] = [text |-> x, no |-> r.no]
<1>1. PICK t \in Texts \ TooLong, n \in 0 .. MaxInserts : r = [text |-> t, no |-> n]
  BY DEF Rows
<1>2. r.no = n
  BY <1>1
<1> QED BY <1>1, <1>2

\* An update keeps the row's number: forms of the row stay forms of it.
LEMMA KeepUpdateSample ==
  ASSUME IInv, NEW u \in Tabs, NEW x \in Texts, UpdateSample(u, x)
  PROVE  IInv'
<1> USE Constants DEF IInv, TypeOK, Goto, idVars, UpdateSample
<1>c. /\ row' \in [Ids -> Rows \cup {Absent}]
      /\ \A j \in Ids : \/ row'[j] = row[j]
                        \/ row[j] # Absent /\ row'[j] # Absent /\ row'[j].no = row[j].no
  <2>1. CASE row' = row
    BY <2>1
  <2>2. CASE row' # row
    <3> DEFINE i == form[u].id
    <3>1. row[i] # Absent /\ x \in Texts \ TooLong /\ row' = [row EXCEPT ![i].text = x] /\ i \in Ids
      BY <2>2 DEF FormsOfRows
    <3>2. row[i] \in Rows
      BY <3>1
    <3>3. [row[i] EXCEPT !.text = x] = [text |-> x, no |-> row[i].no]
      BY <3>2, EditedRow
    <3>4. [text |-> x, no |-> row[i].no] \in Rows
      BY <3>1, <3>2
    <3>5. row' = [row EXCEPT ![i] = [text |-> x, no |-> row[i].no]]
      BY <3>1, <3>3
    <3> QED BY <3>1, <3>4, <3>5
  <2> QED BY <2>1, <2>2
<1>d. PICK p \in {"list", "error"} : Goto(u, p)
  OBVIOUS
<1>e. /\ phase[u] = "edit"
      /\ UNCHANGED <<nextId, block, drawn, pending, lostBlock, inserts, used, restarts>>
  OBVIOUS
<1> HIDE DEF UpdateSample
<1>1. TypeOK'
  BY <1>c, <1>d, <1>e DEF TypeOK
<1>2. Transactions'
  BY <1>d, <1>e DEF Transactions
<1>3. BlockAtEnd'
  BY <1>e DEF BlockAtEnd
<1>4. GivenOnce'
  BY <1>e DEF GivenOnce, Given, Reserved
<1>5. FormsOfRows'
  BY <1>c, <1>d, <1>e DEF FormsOfRows
<1>6. FreshIds'
  BY <1>d, <1>e DEF FreshIds
<1> QED BY <1>1, <1>2, <1>3, <1>4, <1>5, <1>6

\* A deleted id stays used.
LEMMA KeepDeleteSample ==
  ASSUME IInv, NEW u \in Tabs, DeleteSample(u)
  PROVE  IInv'
<1> USE Constants DEF IInv, TypeOK, Goto, idVars, DeleteSample
<1>1. TypeOK'
  BY DEF TypeOK
<1>2. Transactions'
  BY <1>1 DEF Transactions
<1>3. BlockAtEnd'
  BY <1>1 DEF BlockAtEnd
<1>4. GivenOnce'
  BY <1>1 DEF GivenOnce, Given, Reserved
<1>5. FormsOfRows'
  BY <1>1 DEF FormsOfRows
<1>6. FreshIds'
  BY <1>1 DEF FreshIds
<1> QED BY <1>1, <1>2, <1>3, <1>4, <1>5, <1>6

\* Drawing an id from a block does not move the block's end.
LEMMA BlockEnd ==
  ASSUME NEW a \in Nat, NEW b \in Nat \ {0}
  PROVE  a + 1 + (b - 1) = a + b
OBVIOUS

\* An id from the block in memory: what is drawn is at the block's start, and
\* the block is the end of a reservation, so nobody has been given it.
LEMMA KeepDrawFromBlock ==
  ASSUME IInv, NEW u \in Tabs, block.left > 0, DrawId(u)
  PROVE  IInv'
<1> USE Constants DEF IInv, TypeOK, Goto, idVars, DrawId
<1> DEFINE n == block.next
<1>c. /\ n \in Ids /\ n + block.left <= MaxId + 1 /\ block.left \in 1 .. BlockSize - 1
      /\ drawn' = [drawn EXCEPT ![u] = n] /\ block' = [next |-> n + 1, left |-> block.left - 1]
  BY DEF BlockAtEnd
<1>d. block' \in Blocks /\ block'.next = n + 1 /\ block'.left = block.left - 1
  BY <1>c DEF Ids
<1>e. /\ phase[u] = "create" /\ phase' = [phase EXCEPT ![u] = "inserting"]
      /\ inserts' = inserts + 1 /\ inserts' \in 0 .. MaxInserts
      /\ UNCHANGED <<row, nextId, form, pending, used, lostBlock, restarts>>
  OBVIOUS
<1>n. lostBlock \/ (Reserved(n) /\ \A i \in Ids : Given(i) => i < n)
  BY <1>c DEF BlockAtEnd, GivenOnce, Reserved, Ids
<1> HIDE DEF DrawId, n
<1>1. TypeOK'
  BY <1>c, <1>d, <1>e DEF TypeOK
<1>2. Transactions'
  BY <1>c, <1>e DEF Transactions
<1>3. BlockAtEnd'
  <2>1. block.left - 1 > 0 => n + 1 \in Ids
    BY <1>c DEF Ids
  <2>a. n \in Nat /\ block.left \in Nat \ {0}
    BY <1>c DEF Ids
  <2>2. n + 1 + (block.left - 1) = n + block.left
    BY <2>a, BlockEnd
  <2>3. \/ lostBlock
        \/ (\A v \in Tabs : pending[v] = Absent) /\ n + block.left = nextId
        \/ \E v \in Tabs : pending[v] # Absent /\ n + block.left = pending[v]
    BY DEF BlockAtEnd, n
  <2>4. block'.next + block'.left = n + block.left
    BY <1>d, <2>2
  <2> QED BY <1>c, <1>d, <1>e, <2>1, <2>3, <2>4 DEF BlockAtEnd
<1>4. GivenOnce'
  <2>1. \A i \in Ids : Given(i)' => Given(i) \/ i = n
    BY <1>c, <1>e DEF Given
  <2>2. \A i \in Ids : Reserved(i) => Reserved(i)'
    BY <1>e DEF Reserved
  <2>3. \A i \in Ids : ~lostBlock /\ Given(i)' => Reserved(i) /\ i < n + 1
    BY <1>c, <1>n, <2>1 DEF GivenOnce, Ids
  <2> QED BY <1>d, <1>e, <2>2, <2>3 DEF GivenOnce
<1>5. FormsOfRows'
  BY <1>c, <1>e DEF FormsOfRows
<1>6. FreshIds'
  <2> SUFFICES ASSUME ~lostBlock, NEW v \in Tabs, phase'[v] = "inserting"
               PROVE  drawn'[v] \notin used /\ \A w \in Tabs \ {v} : drawn'[w] # drawn'[v]
    BY <1>e DEF FreshIds
  <2>1. n \notin used /\ \A w \in Tabs : drawn[w] # n
    BY <1>c, <1>n DEF Given, Ids
  <2>2. CASE v = u
    BY <1>c, <2>1, <2>2
  <2>3. CASE v # u
    BY <1>c, <1>e, <2>1, <2>3 DEF FreshIds
  <2> QED BY <2>2, <2>3
<1> QED BY <1>1, <1>2, <1>3, <1>4, <1>5, <1>6

\* The first id of a new reservation: no other reservation is open, and what
\* was given away lies below it.
LEMMA KeepDrawReserved ==
  ASSUME IInv, NEW u \in Tabs, ~(block.left > 0), DrawId(u)
  PROVE  IInv'
<1> USE Constants DEF IInv, TypeOK, Goto, idVars, DrawId, Reserve
<1> DEFINE n == nextId
<1>c. /\ \A v \in Tabs : pending[v] = Absent
      /\ n \in Ids /\ n + BlockSize <= MaxId + 1 /\ n + BlockSize \in NextIds
      /\ drawn' = [drawn EXCEPT ![u] = n] /\ block' = [next |-> n + 1, left |-> BlockSize - 1]
  BY DEF Ids, NextIds
<1>d. block' \in Blocks /\ block'.next = n + 1 /\ block'.left = BlockSize - 1
  <2>1. n + 1 \in Ids \cup {MaxId + 1, Absent} /\ BlockSize - 1 \in 0 .. BlockSize - 1
    BY <1>c DEF Ids
  <2>2. block' = [next |-> n + 1, left |-> BlockSize - 1]
    BY <1>c
  <2> QED BY <2>1, <2>2 DEF Blocks
<1>e. /\ phase[u] = "create" /\ phase' = [phase EXCEPT ![u] = "inserting"]
      /\ inserts' = inserts + 1 /\ inserts' \in 0 .. MaxInserts
      /\ UNCHANGED <<row, form, used, lostBlock, restarts>>
      /\ \/ nextId' = n + BlockSize /\ pending' = pending
         \/ pending' = [pending EXCEPT ![u] = n + BlockSize] /\ nextId' = nextId
  OBVIOUS
<1>n. lostBlock \/ \A i \in Ids : Given(i) => i < n
  BY <1>c DEF GivenOnce, Reserved
<1>r. \A i \in Ids : i <= n => Reserved(i)'
  BY <1>c, <1>e DEF Reserved, Ids, NextIds
<1> HIDE DEF DrawId, Reserve
<1>1. TypeOK'
  BY <1>c, <1>d, <1>e DEF TypeOK
<1>2. Transactions'
  BY <1>c, <1>e DEF Transactions
<1>3. BlockAtEnd'
  <2>1. block'.left > 0 => block'.next \in Ids /\ block'.next + block'.left = n + BlockSize
    BY <1>c, <1>d DEF Ids, NextIds
  <2>2. \/ (\A v \in Tabs : pending'[v] = Absent) /\ nextId' = n + BlockSize
        \/ \E v \in Tabs : pending'[v] # Absent /\ pending'[v] = n + BlockSize
    <3>1. CASE nextId' = n + BlockSize /\ pending' = pending
      BY <1>c, <3>1
    <3>2. CASE pending' = [pending EXCEPT ![u] = n + BlockSize]
      <4>1. pending'[u] = n + BlockSize /\ n + BlockSize # Absent
        BY <1>c, <3>2
      <4> QED BY <4>1
    <3> QED BY <1>e, <3>1, <3>2
  <2> QED BY <1>c, <2>1, <2>2 DEF BlockAtEnd
<1>4. GivenOnce'
  <2>1. \A i \in Ids : Given(i)' => Given(i) \/ i = n
    BY <1>c, <1>e DEF Given
  <2>2. \A i \in Ids : ~lostBlock /\ Given(i)' => Reserved(i)' /\ i < n + 1
    BY <1>c, <1>n, <1>r, <2>1 DEF Ids
  <2> QED BY <1>d, <1>e, <2>2 DEF GivenOnce
<1>5. FormsOfRows'
  BY <1>c, <1>e DEF FormsOfRows
<1>6. FreshIds'
  <2> SUFFICES ASSUME ~lostBlock, NEW v \in Tabs, phase'[v] = "inserting"
               PROVE  drawn'[v] \notin used /\ \A w \in Tabs \ {v} : drawn'[w] # drawn'[v]
    BY <1>e DEF FreshIds
  <2>1. n \notin used /\ \A w \in Tabs : drawn[w] # n
    BY <1>c, <1>n DEF Given, Ids
  <2>2. CASE v = u
    BY <1>c, <2>1, <2>2
  <2>3. CASE v # u
    BY <1>c, <1>e, <2>1, <2>3 DEF FreshIds
  <2> QED BY <2>2, <2>3
<1> QED BY <1>1, <1>2, <1>3, <1>4, <1>5, <1>6

\* A commit makes its reservation permanent and its id used.
LEMMA KeepCommit ==
  ASSUME IInv, NEW u \in Tabs, NEW x \in Texts, phase[u] = "inserting", Commit(u, x)
  PROVE  IInv'
<1> USE Constants DEF IInv, TypeOK, Goto, idVars, Commit, Ends
<1> DEFINE i == drawn[u]
           r == [text |-> x, no |-> inserts]
<1>c. /\ i \in Ids /\ row[i] = Absent /\ r \in Rows
      /\ row' = [row EXCEPT ![i] = r] /\ used' = used \cup {i} /\ lostBlock' = lostBlock
      /\ nextId' = IF pending[u] # Absent THEN pending[u] ELSE nextId
  BY DEF Transactions
<1>e. /\ phase' = [phase EXCEPT ![u] = "list"] /\ form' = [form EXCEPT ![u] = NoForm]
      /\ drawn' = [drawn EXCEPT ![u] = Absent] /\ pending' = [pending EXCEPT ![u] = Absent]
      /\ UNCHANGED <<block, inserts, restarts>>
  OBVIOUS
<1> HIDE DEF Commit, Ends, i, r
<1>r. \A j \in Ids : Reserved(j) => Reserved(j)'
  <2> SUFFICES ASSUME NEW j \in Ids, Reserved(j) PROVE Reserved(j)'
    OBVIOUS
  <2>1. CASE pending[u] # Absent
    <3>1. j < pending[u]
      BY <2>1 DEF Reserved, Transactions, NextIds, Ids
    <3> QED BY <1>c, <2>1, <3>1 DEF Reserved
  <2>2. CASE pending[u] = Absent
    BY <1>c, <1>e, <2>2 DEF Reserved
  <2> QED BY <2>1, <2>2
<1>1. TypeOK'
  <2>1. row' \in [Ids -> Rows \cup {Absent}] /\ used' \subseteq Ids
    BY <1>c
  <2>2. nextId' \in NextIds
    BY <1>c
  <2> QED BY <1>c, <1>e, <2>1, <2>2 DEF TypeOK
<1>2. Transactions'
  <2>1. \A v \in Tabs : v # u /\ pending[v] # Absent => nextId' = nextId
    BY <1>c DEF Transactions
  <2> QED BY <1>e, <2>1 DEF Transactions
<1>3. BlockAtEnd'
  <2> SUFFICES ASSUME block.left > 0, ~lostBlock
               PROVE  \/ (\A v \in Tabs : pending'[v] = Absent) /\ block.next + block.left = nextId'
                      \/ \E v \in Tabs : pending'[v] # Absent /\ block.next + block.left = pending'[v]
    BY <1>c, <1>e DEF BlockAtEnd
  <2>1. CASE pending[u] # Absent
    <3>1. \A v \in Tabs : pending'[v] = Absent
      BY <1>e, <2>1 DEF Transactions
    <3>2. block.next + block.left = pending[u]
      BY <2>1 DEF BlockAtEnd, Transactions
    <3> QED BY <1>c, <2>1, <3>1, <3>2
  <2>2. CASE pending[u] = Absent
    <3>1. nextId' = nextId /\ pending' = pending
      BY <1>c, <1>e, <2>2
    <3> QED BY <3>1 DEF BlockAtEnd
  <2> QED BY <2>1, <2>2
<1>4. GivenOnce'
  <2>1. \A j \in Ids : Given(j)' => Given(j)
    BY <1>c, <1>e DEF Given, i
  <2> QED BY <1>c, <1>e, <1>r, <2>1 DEF GivenOnce
<1>5. FormsOfRows'
  <2>1. \A j \in Ids : row'[j] # Absent => j \in used'
    BY <1>c DEF FormsOfRows
  <2>2. lostBlock \/ i \notin used
    BY DEF FreshIds, i
  <2> SUFFICES ASSUME NEW v \in Tabs, phase'[v] = "edit"
               PROVE  /\ form'[v].id \in Ids /\ form'[v].era <= restarts
                      /\ lostBlock \/ form'[v].era < restarts
                         \/ /\ form'[v].id \in used'
                            /\ row'[form'[v].id] # Absent => row'[form'[v].id].no = form'[v].no
    BY <1>c, <1>e, <2>1 DEF FormsOfRows
  <2>3. v # u /\ phase[v] = "edit" /\ form'[v] = form[v]
    BY <1>e
  <2> QED BY <1>c, <2>2, <2>3 DEF FormsOfRows
<1>6. FreshIds'
  <2> SUFFICES ASSUME ~lostBlock, NEW v \in Tabs, phase'[v] = "inserting"
               PROVE  drawn'[v] \notin used' /\ \A w \in Tabs \ {v} : drawn'[w] # drawn'[v]
    BY <1>c DEF FreshIds
  <2>1. v # u /\ phase[v] = "inserting" /\ drawn'[v] = drawn[v] /\ drawn[v] # Absent
    BY <1>e DEF Transactions
  <2>2. drawn[v] \notin used /\ drawn[v] # i /\ \A w \in Tabs \ {v} : drawn[w] # drawn[v]
    BY <2>1 DEF FreshIds, i
  <2> QED BY <1>c, <1>e, <2>1, <2>2
<1> QED BY <1>1, <1>2, <1>3, <1>4, <1>5, <1>6

\* A rollback of the reservation is recorded in lostBlock; any other one gives
\* back the row only.
LEMMA KeepRollback ==
  ASSUME IInv, NEW u \in Tabs, NEW x \in Texts, phase[u] = "inserting", Rollback(u, x)
  PROVE  IInv'
<1> USE Constants DEF IInv, TypeOK, Goto, idVars, Rollback, Ends
<1>c. /\ lostBlock' = (lostBlock \/ pending[u] # Absent)
      /\ UNCHANGED <<row, nextId, used>>
  OBVIOUS
<1>e. /\ phase' = [phase EXCEPT ![u] = "error"] /\ form' = [form EXCEPT ![u] = NoForm]
      /\ drawn' = [drawn EXCEPT ![u] = Absent] /\ pending' = [pending EXCEPT ![u] = Absent]
      /\ UNCHANGED <<block, inserts, restarts>>
  OBVIOUS
<1> HIDE DEF Rollback, Ends
<1>1. TypeOK'
  BY <1>c, <1>e DEF TypeOK
<1>2. Transactions'
  BY <1>c, <1>e DEF Transactions
<1>3. BlockAtEnd'
  <2>1. pending[u] = Absent => pending' = pending
    BY <1>e
  <2> QED BY <1>c, <1>e, <2>1 DEF BlockAtEnd
<1>4. GivenOnce'
  <2>1. pending[u] = Absent => pending' = pending
    BY <1>e
  <2>2. \A j \in Ids : Given(j)' => Given(j)
    BY <1>c, <1>e DEF Given
  <2>3. ~lostBlock' => \A j \in Ids : Reserved(j) => Reserved(j)'
    BY <1>c, <2>1 DEF Reserved
  <2> QED BY <1>c, <1>e, <2>2, <2>3 DEF GivenOnce
<1>5. FormsOfRows'
  BY <1>c, <1>e DEF FormsOfRows
<1>6. FreshIds'
  <2> SUFFICES ASSUME ~lostBlock, NEW v \in Tabs, phase'[v] = "inserting"
               PROVE  drawn'[v] \notin used /\ \A w \in Tabs \ {v} : drawn'[w] # drawn'[v]
    BY <1>c DEF FreshIds
  <2>1. v # u /\ phase[v] = "inserting" /\ drawn'[v] = drawn[v] /\ drawn[v] # Absent
    BY <1>e DEF Transactions
  <2>2. drawn[v] \notin used /\ \A w \in Tabs \ {v} : drawn[w] # drawn[v]
    BY <2>1 DEF FreshIds
  <2> QED BY <1>e, <2>1, <2>2
<1> QED BY <1>1, <1>2, <1>3, <1>4, <1>5, <1>6

\* A restart starts from the script, and makes every open form one of an
\* earlier era.
LEMMA KeepRestart ==
  ASSUME IInv, Restart
  PROVE  IInv'
<1> USE Constants DEF IInv, TypeOK, Goto, idVars, Restart
<1>c. /\ restarts' = restarts + 1 /\ restarts' \in 0 .. MaxRestarts
      /\ row' = Script /\ nextId' = FirstFree /\ block' = NoBlock /\ used' = DOMAIN ScriptRows
      /\ lostBlock' = FALSE /\ UNCHANGED <<form, inserts>>
      /\ phase' = [u \in Tabs |-> IF phase[u] = "inserting" THEN "error" ELSE phase[u]]
      /\ drawn' = [u \in Tabs |-> Absent] /\ pending' = [u \in Tabs |-> Absent]
  OBVIOUS
<1>d. \A i \in Ids : Script[i] # Absent => i \in DOMAIN ScriptRows
  BY DEF Script
<1> HIDE DEF Restart
<1>1. TypeOK'
  BY <1>c DEF TypeOK
<1>2. Transactions'
  BY <1>c DEF Transactions
<1>3. BlockAtEnd'
  BY <1>c DEF BlockAtEnd
<1>4. GivenOnce'
  <2>1. \A i \in Ids : Given(i)' => i < FirstFree
    BY <1>c DEF Given
  <2> QED BY <1>c, <2>1 DEF GivenOnce, Reserved
<1>5. FormsOfRows'
  <2>1. \A u \in Tabs : phase'[u] = "edit" => phase[u] = "edit" /\ form'[u].era < restarts'
    BY <1>c DEF FormsOfRows
  <2> QED BY <1>c, <1>d, <2>1 DEF FormsOfRows
<1>6. FreshIds'
  BY <1>c DEF FreshIds
<1> QED BY <1>1, <1>2, <1>3, <1>4, <1>5, <1>6

\* A step of none of the variables.
LEMMA KeepStutter ==
  ASSUME IInv, UNCHANGED vars
  PROVE  IInv'
<1> USE Constants DEF IInv, TypeOK, Goto, idVars, vars
<1>1. TypeOK'
  BY DEF TypeOK
<1>2. Transactions'
  BY <1>1 DEF Transactions
<1>3. BlockAtEnd'
  BY <1>1 DEF BlockAtEnd
<1>4. GivenOnce'
  BY <1>1 DEF GivenOnce, Given, Reserved
<1>5. FormsOfRows'
  BY <1>1 DEF FormsOfRows
<1>6. FreshIds'
  BY <1>1 DEF FreshIds
<1> QED BY <1>1, <1>2, <1>3, <1>4, <1>5, <1>6

-----------------------------------------------------------------------------
(* The invariant holds *)

\* The server starts with the rows of the script, no block and no open form.
LEMMA InitIInv == Init => IInv
<1> SUFFICES ASSUME Init PROVE IInv
  OBVIOUS
<1> USE Constants DEF Init, TableInit
<1>1. TypeOK
  <2>1. row \in [Ids -> Rows \cup {Absent}] /\ nextId \in NextIds /\ block \in Blocks
    OBVIOUS
  <2>2. used \subseteq Ids /\ lostBlock \in BOOLEAN
    OBVIOUS
  <2>3. /\ phase \in [Tabs -> {"list", "create", "edit", "inserting", "error"}]
        /\ form \in [Tabs -> Forms] /\ drawn \in [Tabs -> Ids \cup {Absent}]
        /\ pending \in [Tabs -> NextIds \cup {Absent}]
    OBVIOUS
  <2>4. inserts \in 0 .. MaxInserts /\ restarts \in 0 .. MaxRestarts
    OBVIOUS
  <2> QED BY <2>1, <2>2, <2>3, <2>4 DEF TypeOK
<1>2. Transactions
  BY DEF Transactions
<1>3. BlockAtEnd
  BY DEF BlockAtEnd
<1>4. GivenOnce
  BY DEF GivenOnce, Given, Reserved
<1>5. FormsOfRows
  BY DEF FormsOfRows, Script
<1>6. FreshIds
  BY DEF FreshIds
<1> QED BY <1>1, <1>2, <1>3, <1>4, <1>5, <1>6 DEF IInv

\* Every step keeps the invariant.
LEMMA NextIInv == IInv /\ [Next]_vars => IInv'
<1> SUFFICES ASSUME IInv, [Next]_vars PROVE IInv'
  OBVIOUS
<1>1. CASE Restart
  BY <1>1, KeepRestart
<1>2. ASSUME NEW u \in Tabs, TabStep(u) PROVE IInv'
  <2>1. CASE AddSampleView(u)
    BY <2>1, KeepAddSampleView
  <2>2. CASE BackToList(u)
    BY <2>2, KeepBackToList
  <2>3. CASE DrawId(u)
    BY <2>3, KeepDrawFromBlock, KeepDrawReserved
  <2>4. CASE DeleteSample(u)
    BY <2>4, KeepDeleteSample
  <2>5. ASSUME NEW i \in Ids, UpdateSampleView(u, i) PROVE IInv'
    BY <2>5, KeepUpdateSampleView
  <2>6. ASSUME NEW x \in Texts, UpdateSample(u, x) PROVE IInv'
    BY <2>6, KeepUpdateSample
  <2>7. ASSUME NEW x \in Texts, InsertSample(u, x) PROVE IInv'
    BY <2>7, KeepCommit, KeepRollback DEF InsertSample
  <2> QED BY <1>2, <2>1, <2>2, <2>3, <2>4, <2>5, <2>6, <2>7 DEF TabStep
<1>3. CASE UNCHANGED vars
  BY <1>3, KeepStutter
<1> QED BY <1>1, <1>2, <1>3 DEF Next

\* The inductive invariant holds throughout.
LEMMA Invariance == Spec => []IInv
BY InitIInv, NextIInv, PTL DEF Spec

-----------------------------------------------------------------------------
(* Theorems *)

\* The tables, the generator and the tabs keep their types.
THEOREM TypeCorrect == Spec => []TypeOK
<1>1. IInv => TypeOK
  BY DEF IInv
<1> QED BY Invariance, <1>1, PTL

\* The generator gives away an id once, unless a reservation was rolled back.
THEOREM IdsAreFresh == Spec => []FreshIds
<1>1. IInv => FreshIds
  BY DEF IInv
<1> QED BY Invariance, <1>1, PTL

\* A row is changed or deleted only from a form that was loaded from that row,
\* if the form is not older than the last restart and no block of ids was lost.
THEOREM OwnForms == Spec => ChangedByOwnForm
<1>1. IInv /\ [Next]_vars =>
        [\A i \in Ids : row[i] # Absent /\ row'[i] # row[i] /\ restarts' = restarts =>
           \/ lostBlock
           \/ \E u \in Tabs : form[u].id = i /\ phase[u] = "edit" /\ phase'[u] # "edit"
                            /\ (form[u].no = row[i].no \/ form[u].era < restarts)]_vars
  <2> SUFFICES ASSUME IInv, Next, NEW i \in Ids, row[i] # Absent, row'[i] # row[i],
                      restarts' = restarts, ~lostBlock
               PROVE  \E u \in Tabs : form[u].id = i /\ phase[u] = "edit" /\ phase'[u] # "edit"
                                     /\ (form[u].no = row[i].no \/ form[u].era < restarts)
    OBVIOUS
  <2> USE Constants DEF IInv, TypeOK, Goto
  <2>1. ASSUME NEW u \in Tabs, DeleteSample(u) \/ \E x \in Texts : UpdateSample(u, x)
        PROVE  form[u].id = i /\ phase[u] = "edit" /\ phase'[u] # "edit"
    BY <2>1 DEF UpdateSample, DeleteSample
  <2>2. ASSUME NEW u \in Tabs, form[u].id = i, phase[u] = "edit"
        PROVE  form[u].no = row[i].no \/ form[u].era < restarts
    BY <2>2 DEF FormsOfRows
  <2>3. ~Restart
    BY DEF Restart
  <2>4. ASSUME NEW u \in Tabs, NEW x \in Texts, InsertSample(u, x) PROVE FALSE
    BY <2>4 DEF InsertSample, Commit, Rollback, Transactions
  <2>5. ASSUME NEW u \in Tabs, TabStep(u)
        PROVE  DeleteSample(u) \/ \E x \in Texts : UpdateSample(u, x)
    BY <2>4, <2>5 DEF TabStep, AddSampleView, BackToList, DrawId, UpdateSampleView
  <2> QED BY <2>1, <2>2, <2>3, <2>5 DEF Next
<1> QED BY Invariance, <1>1, PTL DEF Spec, ChangedByOwnForm

\* A deleted row does not come back while the server runs.
THEOREM DeletedRows == Spec => DeletedStaysDeleted
<1>1. IInv /\ [Next]_vars =>
        [\A i \in used : row[i] = Absent /\ row'[i] # Absent =>
           lostBlock \/ restarts' # restarts]_vars
  <2> SUFFICES ASSUME IInv, Next, NEW i \in used, row[i] = Absent, row'[i] # Absent,
                      ~lostBlock, restarts' = restarts
               PROVE  FALSE
    OBVIOUS
  <2> USE Constants DEF IInv, TypeOK, Goto
  <2>1. ~Restart
    BY DEF Restart
  <2>2. ASSUME NEW u \in Tabs, NEW x \in Texts, InsertSample(u, x) PROVE FALSE
    BY <2>2 DEF InsertSample, Commit, Rollback, Transactions, FreshIds
  <2>3. ASSUME NEW u \in Tabs, NEW x \in Texts, UpdateSample(u, x) PROVE FALSE
    BY <2>3 DEF UpdateSample
  <2>4. ASSUME NEW u \in Tabs, TabStep(u) PROVE FALSE
    BY <2>2, <2>3, <2>4 DEF TabStep, AddSampleView, BackToList, DrawId, UpdateSampleView, DeleteSample
  <2> QED BY <2>1, <2>4 DEF Next
<1> QED BY Invariance, <1>1, PTL DEF Spec, DeletedStaysDeleted

\* The board implements the table of SampleTable: an insert is a commit, an
\* update and a delete are those of the form's row, a restart is a reset, and
\* every other step leaves the table alone.
THEOREM Refinement == Spec => ImplementsTable
<1>1. Init => TableInit
  BY DEF Init
<1>2. IInv /\ [Next]_vars => [TableNext]_row
  <2> SUFFICES ASSUME IInv, Next, row' # row PROVE TableNext
    BY DEF vars
  <2> USE Constants DEF IInv, TypeOK, Goto
  <2>1. CASE Restart
    BY <2>1 DEF Restart, TableNext, Reset
  <2>2. ASSUME NEW u \in Tabs, NEW x \in Texts, InsertSample(u, x) PROVE TableNext
    <3>1. Commit(u, x)
      BY <2>2 DEF InsertSample, Rollback
    <3>2. drawn[u] \in Ids /\ inserts \in 1 .. MaxInserts
      BY <2>2 DEF InsertSample, Transactions
    <3>3. Insert(drawn[u], x, inserts)
      BY <3>1 DEF Commit, Insert
    <3> QED BY <3>2, <3>3 DEF TableNext
  <2>3. ASSUME NEW u \in Tabs, NEW x \in Texts, UpdateSample(u, x) PROVE TableNext
    <3>1. form[u].id \in Ids /\ Update(form[u].id, x)
      BY <2>3 DEF UpdateSample, FormsOfRows, Update
    <3> QED BY <3>1 DEF TableNext
  <2>4. ASSUME NEW u \in Tabs, DeleteSample(u) PROVE TableNext
    <3>1. form[u].id \in Ids /\ Delete(form[u].id)
      BY <2>4 DEF DeleteSample, FormsOfRows, Delete
    <3> QED BY <3>1 DEF TableNext
  <2>5. ASSUME NEW u \in Tabs, TabStep(u) PROVE TableNext
    BY <2>2, <2>3, <2>4, <2>5 DEF TabStep, AddSampleView, BackToList, DrawId, UpdateSampleView
  <2> QED BY <2>1, <2>5 DEF Next
<1> QED BY Invariance, <1>1, <1>2, PTL DEF Spec, ImplementsTable, TableSpec

-----------------------------------------------------------------------------
(* Places and ranks in a finite set of numbers *)

\* The members of a set from one of them on, and up to it.
From(S, i) == {j \in S : j >= i}
UpTo(S, i) == {j \in S : j <= i}

\* Every place is taken by a member of the set.
LEMMA Places ==
  ASSUME NEW S \in SUBSET Nat, IsFiniteSet(S), NEW n \in 1 .. Cardinality(S)
  PROVE  \E i \in S : Cardinality(From(S, i)) = n
<1> DEFINE size == Cardinality(S)
           place == [i \in S |-> Cardinality(From(S, i))]
<1>1. size \in Nat
  BY FS_CardinalityType
<1>2. ASSUME NEW i \in S
      PROVE  IsFiniteSet(From(S, i)) /\ Cardinality(From(S, i)) \in 1 .. size
  <2>1. From(S, i) \in SUBSET S /\ i \in From(S, i)
    BY DEF From
  <2>2. IsFiniteSet(From(S, i)) /\ Cardinality(From(S, i)) <= size
    BY <2>1, FS_Subset
  <2>3. Cardinality(From(S, i)) \in Nat /\ Cardinality(From(S, i)) # 0
    BY <2>1, <2>2, FS_CardinalityType, FS_EmptySet
  <2> QED BY <1>1, <2>2, <2>3
<1>3. ASSUME NEW i \in S, NEW j \in S, i < j
      PROVE  Cardinality(From(S, j)) < Cardinality(From(S, i))
  <2>1. i >= i /\ ~(i >= j) /\ \A k \in S : k >= j => k >= i
    BY <1>3
  <2>2. From(S, j) \in SUBSET From(S, i) /\ i \in From(S, i) /\ i \notin From(S, j)
    BY <2>1 DEF From
  <2>3. /\ Cardinality(From(S, j)) <= Cardinality(From(S, i))
        /\ Cardinality(From(S, j)) # Cardinality(From(S, i))
    BY <1>2, <2>2, FS_Subset
  <2> QED BY <1>1, <1>2, <2>3
<1>4. place \in Injection(S, 1 .. size)
  <2>1. place \in [S -> 1 .. size]
    BY <1>2
  <2>2. \A i, j \in S : place[i] = place[j] => i = j
    <3> SUFFICES ASSUME NEW i \in S, NEW j \in S, place[i] = place[j], i # j PROVE FALSE
      OBVIOUS
    <3>1. i < j \/ j < i
      OBVIOUS
    <3> QED BY <1>1, <1>2, <1>3, <3>1
  <2> HIDE DEF place
  <2> QED BY <2>1, <2>2 DEF Injection, IsInjective
<1>5. place \in Surjection(S, 1 .. size)
  <2>1. IsFiniteSet(1 .. size) /\ Cardinality(1 .. size) = size
    BY <1>1, FS_Interval
  <2> HIDE DEF place
  <2> QED BY <1>4, <2>1, FS_Injection
<1> QED BY <1>5 DEF Surjection

\* The place of a member from above and its rank from below add up.
LEMMA PlaceAndRank ==
  ASSUME NEW S \in SUBSET Nat, IsFiniteSet(S), NEW i \in S
  PROVE  /\ Cardinality(From(S, i)) \in Nat /\ Cardinality(UpTo(S, i)) \in 1 .. Cardinality(S)
         /\ Cardinality(From(S, i)) + Cardinality(UpTo(S, i)) = Cardinality(S) + 1
<1>1. /\ From(S, i) \in SUBSET S /\ UpTo(S, i) \in SUBSET S
      /\ From(S, i) \cup UpTo(S, i) = S /\ From(S, i) \cap UpTo(S, i) = {i}
  <2>1. \A j \in S : (j >= i \/ j <= i) /\ (j >= i /\ j <= i <=> j = i)
    OBVIOUS
  <2> QED BY <2>1 DEF From, UpTo
<1>2. /\ IsFiniteSet(From(S, i)) /\ IsFiniteSet(UpTo(S, i))
      /\ Cardinality(UpTo(S, i)) <= Cardinality(S)
  BY <1>1, FS_Subset
<1>3. /\ Cardinality(S) \in Nat /\ Cardinality(From(S, i)) \in Nat
      /\ Cardinality(UpTo(S, i)) \in Nat /\ Cardinality({i}) = 1
  BY <1>2, FS_CardinalityType, FS_Singleton
<1>4. Cardinality(UpTo(S, i)) # 0
  BY <1>1, <1>2, FS_EmptySet
<1>5. Cardinality(S) = Cardinality(From(S, i)) + Cardinality(UpTo(S, i)) - 1
  BY <1>1, <1>2, <1>3, FS_Union
<1> QED BY <1>2, <1>3, <1>4, <1>5

-----------------------------------------------------------------------------
(* What a page and a count are *)

\* Rows found are some of a finite set of ids.
LEMMA FoundFinite ==
  ASSUME NEW q
  PROVE  /\ Found(q) \in SUBSET Ids /\ Ids \in SUBSET Nat
         /\ IsFiniteSet(Found(q)) /\ Cardinality(Found(q)) \in 0 .. MaxId
<1>1. Found(q) \in SUBSET Ids /\ Ids \in SUBSET Nat
  BY TableAssumption DEF Found, Ids
<1>2. IsFiniteSet(Ids) /\ Cardinality(Ids) = MaxId
  BY TableAssumption, FS_Interval DEF Ids
<1> QED BY <1>1, <1>2, FS_Subset, FS_CardinalityType, TableAssumption

\* The rows of a page are found, and each is as many places from the oldest as
\* its place on the page and the pages before leave.
LEMMA PageOfRows ==
  ASSUME NEW q, NEW p \in Nat \ {0}
  PROVE  LET slice == Slice(q, p)
             size == Cardinality(Found(q))
             skipped == (p - 1) * PageUnit
         IN  /\ DOMAIN slice = 1 .. Least(PageUnit, size - skipped)
             /\ Least(PageUnit, size - skipped) <= PageUnit
             /\ skipped \in Nat
             /\ \A k \in DOMAIN slice :
                  /\ slice[k] \in Found(q)
                  /\ Cardinality(UpTo(Found(q), slice[k])) = size + 1 - (skipped + k)
                  /\ size + 1 - (skipped + k) \in 1 .. MaxId
<1> DEFINE slice == Slice(q, p)
           F == Found(q)
           size == Cardinality(F)
           skipped == (p - 1) * PageUnit
           length == Least(PageUnit, size - skipped)
<1>1. PageUnit \in Nat /\ size \in 0 .. MaxId /\ F \in SUBSET Nat /\ IsFiniteSet(F)
  BY FoundFinite, PagesAssumption
<1>2. skipped \in Nat
  BY <1>1
<1>3. length \in Int /\ length <= PageUnit /\ length <= size - skipped
  BY <1>1, <1>2 DEF Least
<1>4. slice = [k \in 1 .. length |-> CHOOSE i \in F : Cardinality(From(F, i)) = skipped + k]
  BY DEF Slice, RowsAfter, Place, From
<1> HIDE DEF slice
<1>5. ASSUME NEW k \in 1 .. length
      PROVE  /\ slice[k] \in F
             /\ Cardinality(UpTo(F, slice[k])) = size + 1 - (skipped + k)
             /\ size + 1 - (skipped + k) \in 1 .. MaxId
  <2>1. skipped + k \in 1 .. size
    BY <1>1, <1>2, <1>3
  <2>2. slice[k] \in F /\ Cardinality(From(F, slice[k])) = skipped + k
    <3>1. \E i \in F : Cardinality(From(F, i)) = skipped + k
      BY <1>1, <2>1, Places
    <3> QED BY <1>4, <3>1
  <2>3. /\ Cardinality(From(F, slice[k])) \in Nat /\ Cardinality(UpTo(F, slice[k])) \in Nat
        /\ Cardinality(From(F, slice[k])) + Cardinality(UpTo(F, slice[k])) = size + 1
    BY <1>1, <2>2, PlaceAndRank
  <2> HIDE DEF skipped, size, F
  <2> QED BY <1>1, <1>2, <2>1, <2>2, <2>3, TableAssumption
<1> QED BY <1>2, <1>3, <1>4, <1>5 DEF slice

\* A save changes what a search finds by one row at most.
LEMMA SaveChangesOne ==
  ASSUME NEW q, NEW i \in Ids,
         \A j \in Ids \ {i} : row'[j] = row[j]
  PROVE  \/ Cardinality(Found(q))' = Cardinality(Found(q))
         \/ Cardinality(Found(q))' = Cardinality(Found(q)) + 1
         \/ Cardinality(Found(q))' = Cardinality(Found(q)) - 1
<1>1. IsFiniteSet(Found(q))
  BY FoundFinite
<1>2. \A j \in Ids \ {i} : j \in Found(q)' <=> j \in Found(q)
  BY DEF Found, Finds
<1>3. Found(q)' \subseteq Ids /\ Found(q) \subseteq Ids
  BY DEF Found, Ids
<1>4. Found(q)' = Found(q) \cup {i} \/ Found(q)' = Found(q) \ {i}
  BY <1>2, <1>3
<1>5. Cardinality(Found(q)') = Cardinality(Found(q))'
  OBVIOUS
<1> QED BY <1>1, <1>4, <1>5, FS_AddElement, FS_RemoveElement, FoundFinite

\* A page that follows others, by a link of a list that says so, has rows.
LEMMA LinkToRows ==
  ASSUME NEW n \in Nat, NEW p \in Nat, p >= 2, p <= TotalPages(n)
  PROVE  (p - 1) * PageUnit < n
<1>1. PageUnit \in Nat /\ PageUnit > 0
  BY PagesAssumption
<1>2. n # 0 /\ p - 1 <= (n - 1) \div PageUnit
  BY <1>1 DEF TotalPages
<1>3. PageUnit * ((n - 1) \div PageUnit) <= n - 1
  BY <1>1, <1>2
<1>4. PageUnit * (p - 1) <= PageUnit * ((n - 1) \div PageUnit)
  BY <1>1, <1>2
<1> QED BY <1>1, <1>3, <1>4, <1>2

-----------------------------------------------------------------------------
(* The inductive invariant of lists *)

\* A place on a page, numbered as the template would number it from a count.
NumberFrom(u, count, k) == count + 1 - ((pageIndex[u] - 1) * PageSize + k)

\* Between the queries, the number that a count would give a row now is off by
\* the writes since the rows were read.
RanksAsRead ==
  \A u \in ListTabs : at[u] = "counting" =>
    \A k \in DOMAIN rows[u] :
      Gap(NumberFrom(u, Cardinality(Found(query[u])), k), rank[u][k]) <= since[u]

\* As long as nothing is written, a page that a link led to has rows if there
\* are any, and a count is that of the rows there are.
PagesHaveRows ==
  \A u \in ListTabs :
    /\ at[u] = "counting" /\ followed[u] /\ since[u] = 0 =>
         (rows[u] = <<>> <=> Found(query[u]) = {})
    /\ at[u] = "shown" /\ since[u] = 0 => total[u] = Cardinality(Found(query[u]))

ListIInv == /\ ListTypeOK /\ PagesHaveRows /\ LinksLeadToRows
            /\ \A u \in ListTabs : since[u] <= writes
            /\ PageSize = PageUnit => RanksAsRead /\ NumbersAreRanks

\* Rows and constants.
ListRows == [text : Texts, no : 0 .. MaxInserts] \cup {Absent}
LEMMA ListConstants ==
  /\ PageUnit \in Nat /\ PageUnit > 0 /\ PageSize \in Nat
  /\ MaxId \in Nat /\ MaxInserts \in Nat /\ MaxWrites \in Nat /\ MaxWrites <= MaxInserts
  /\ Ids \subseteq Nat
  BY PagesAssumption, TableAssumption, WritesAssumption DEF Ids

\* No list is asked for yet.
LEMMA ListInitIInv == ListInit => ListIInv
<1> SUFFICES ASSUME ListInit PROVE ListIInv
  OBVIOUS
<1> USE ListConstants DEF ListInit
<1>1. row \in [Ids -> ListRows]
  BY TableAssumption DEF TableInit, Script, ListRows
<1>2. /\ <<>> \in BoundedSeq(Ids, PageUnit) /\ <<>> \in BoundedSeq(1 .. MaxId, PageUnit)
      /\ Len(<<>>) = 0
  <2>1. <<>> \in [1 .. 0 -> Ids] /\ <<>> \in [1 .. 0 -> 1 .. MaxId] /\ 0 \in 0 .. PageUnit
    OBVIOUS
  <2> QED BY <2>1 DEF BoundedSeq, SeqOf
<1>3. 1 \in 1 .. TotalPages(MaxId)
  <2>1. MaxId # 0 => (MaxId - 1) \div PageUnit >= 0
    OBVIOUS
  <2> QED BY <2>1 DEF TotalPages
<1>4. ListTypeOK
  BY <1>1, <1>2, <1>3 DEF ListTypeOK, Queries, ListRows
<1>5. PagesHaveRows /\ LinksLeadToRows /\ RanksAsRead /\ NumbersAreRanks
  BY DEF PagesHaveRows, LinksLeadToRows, RanksAsRead, NumbersAreRanks
<1> QED BY <1>4, <1>5 DEF ListIInv

\* A page has rows if as many are found as the pages before it take, and one.
LEMMA EmptyPage ==
  ASSUME NEW q, NEW p \in Nat \ {0}
  PROVE  Slice(q, p) = <<>> <=> Cardinality(Found(q)) <= (p - 1) * PageUnit
<1> DEFINE skipped == (p - 1) * PageUnit
           size == Cardinality(Found(q))
           m == Least(PageUnit, size - skipped)
<1>1. DOMAIN Slice(q, p) = 1 .. m /\ skipped \in Nat
  BY PageOfRows
<1>2. size \in Nat /\ PageUnit \in Nat /\ PageUnit > 0
  BY FoundFinite, ListConstants
<1>3. m \in Int /\ (m <= 0 <=> size <= skipped)
  <2> HIDE DEF skipped, size
  <2> QED BY <1>1, <1>2 DEF Least
<1>4. Slice(q, p) = [k \in 1 .. m |-> Slice(q, p)[k]]
  BY <1>1 DEF Slice, RowsAfter
<1>5. 1 .. m = {} <=> m <= 0
  BY <1>3
<1>6. Slice(q, p) = <<>> <=> 1 .. m = {}
  <2> HIDE DEF m
  <2> QED BY <1>1, <1>4
<1> QED BY <1>3, <1>5, <1>6

\* An interval from 1 tells its length.
LEMMA SameLength ==
  ASSUME NEW a \in Nat, NEW b \in Nat, 1 .. a = 1 .. b
  PROVE  a = b
<1>1. CASE a < b
  <2>1. b \in 1 .. b /\ b \notin 1 .. a
    BY <1>1
  <2> QED BY <2>1
<1>2. CASE b < a
  <2>1. a \in 1 .. a /\ a \notin 1 .. b
    BY <1>2
  <2> QED BY <2>1
<1> QED BY <1>1, <1>2

\* What is at most a page long.
LEMMA BoundedPages ==
  ASSUME NEW S, NEW m \in Int, m <= PageUnit, NEW s, s = [k \in 1 .. m |-> s[k]],
         \A k \in 1 .. m : s[k] \in S
  PROVE  s \in BoundedSeq(S, PageUnit) /\ Len(s) = (IF m < 0 THEN 0 ELSE m)
<1> DEFINE n == IF m < 0 THEN 0 ELSE m
<1>1. n \in Nat /\ 1 .. m = 1 .. n /\ n \in 0 .. PageUnit
  BY ListConstants
<1>2. s \in [1 .. n -> S]
  BY <1>1
<1> HIDE DEF n
<1>3. s \in Seq(S) /\ DOMAIN s = 1 .. n
  BY <1>1, <1>2, SeqDef
<1>4. Len(s) = n
  <2>1. Len(s) \in Nat /\ 1 .. Len(s) = 1 .. n
    BY <1>3, LenProperties
  <2> QED BY <1>1, <2>1, SameLength
<1> QED BY <1>1, <1>2, <1>4 DEF BoundedSeq, SeqOf, n

\* ... has that many elements.
LEMMA OfBoundedSeq ==
  ASSUME NEW S, NEW n \in Nat, NEW s \in BoundedSeq(S, n)
  PROVE  /\ Len(s) \in Nat /\ DOMAIN s = 1 .. Len(s)
         /\ \A k \in DOMAIN s : s[k] \in S
<1>1. s \in Seq(S)
  BY SeqDef DEF BoundedSeq, SeqOf
<1> QED BY <1>1, LenProperties

\* The first query: rows and ranks are those of now.
LEMMA SelectListStep ==
  ASSUME ListIInv, NEW u \in ListTabs, NEW q \in Queries,
         NEW p \in 1 .. TotalPages(MaxId), SelectList(u, q, p)
  PROVE  ListIInv'
<1> DEFINE slice == Slice(q, p)
           size == Cardinality(Found(q))
           skipped == (p - 1) * PageUnit
           length == Least(PageUnit, size - skipped)
           ranks == [k \in DOMAIN slice |-> Cardinality({i \in Found(q) : i <= slice[k]})]
<1> USE ListConstants
<1>a. /\ at[u] # "counting" /\ at' = [at EXCEPT ![u] = "counting"]
      /\ query' = [query EXCEPT ![u] = q] /\ pageIndex' = [pageIndex EXCEPT ![u] = p]
      /\ followed' = [followed EXCEPT ![u] = p = 1 \/ (q = query[u] /\ since[u] = 0)]
      /\ since' = [since EXCEPT ![u] = 0]
      /\ rows' = [rows EXCEPT ![u] = slice] /\ rank' = [rank EXCEPT ![u] = ranks]
      /\ row' = row /\ total' = total /\ late' = late /\ writes' = writes
  BY DEF SelectList, Read
<1>b. p # 1 => at[u] = "shown" /\ p <= TotalPages(total[u])
  BY DEF SelectList
<1>c. p \in Nat \ {0}
  OBVIOUS
<1>d. /\ length \in Int /\ length <= PageUnit /\ skipped \in Nat
      /\ DOMAIN slice = 1 .. length /\ DOMAIN ranks = 1 .. length
      /\ \A k \in 1 .. length : /\ slice[k] \in Found(q)
                                /\ ranks[k] = size + 1 - (skipped + k)
                                /\ ranks[k] \in 1 .. MaxId
  <2>1. size \in Nat /\ skipped \in Nat /\ length \in Int
    BY FoundFinite, PageOfRows, <1>c DEF Least
  <2>2. \A k \in DOMAIN slice : ranks[k] = Cardinality(UpTo(Found(q), slice[k]))
    BY DEF UpTo
  <2>3. DOMAIN ranks = DOMAIN slice
    OBVIOUS
  <2>4. /\ DOMAIN slice = 1 .. length /\ length <= PageUnit
        /\ \A k \in DOMAIN slice :
             /\ slice[k] \in Found(q)
             /\ Cardinality(UpTo(Found(q), slice[k])) = size + 1 - (skipped + k)
             /\ size + 1 - (skipped + k) \in 1 .. MaxId
    BY <1>c, PageOfRows
  <2> HIDE DEF ranks, slice, size, length, skipped
  <2> QED BY <2>1, <2>2, <2>3, <2>4
<1>e. slice = <<>> <=> size <= skipped
  BY <1>c, EmptyPage
<1>f. Found(q) \in SUBSET Ids /\ size \in Nat /\ (size = 0 <=> Found(q) = {})
  BY FoundFinite, FS_EmptySet
<1>g. \A x : Found(x)' = Found(x)
  BY <1>a DEF Found, Finds
<1>1. ListTypeOK'
  <2>1. slice = [k \in 1 .. length |-> slice[k]] /\ ranks = [k \in 1 .. length |-> ranks[k]]
    BY <1>d DEF Slice, RowsAfter
  <2> HIDE DEF slice, ranks, length
  <2>2. slice \in BoundedSeq(Ids, PageUnit) /\ Len(slice) = (IF length < 0 THEN 0 ELSE length)
    <3>1. \A k \in 1 .. length : slice[k] \in Ids
      BY <1>d, <1>f
    <3> QED BY <1>d, <2>1, <3>1, BoundedPages
  <2>3. /\ ranks \in BoundedSeq(1 .. MaxId, PageUnit)
        /\ Len(ranks) = (IF length < 0 THEN 0 ELSE length)
    BY <1>d, <2>1, BoundedPages
  <2> QED BY <1>a, <2>2, <2>3 DEF ListIInv, ListTypeOK
<1> HIDE DEF slice, ranks, size, length
<1>2. PagesHaveRows'
  <2>1. p = 1 => skipped = 0
    OBVIOUS
  <2>2. ASSUME p # 1, q = query[u], since[u] = 0
        PROVE  skipped < size
    <3>1. size = total[u] /\ total[u] \in Nat /\ p >= 2
      BY <1>b, <1>c, <2>2 DEF ListIInv, PagesHaveRows, ListTypeOK, size
    <3> QED BY <1>b, <2>2, <3>1, LinkToRows
  <2>3. followed'[u] => (slice = <<>> <=> Found(q) = {})
    <3>1. followed'[u] => p = 1 \/ (q = query[u] /\ since[u] = 0)
      BY <1>a DEF ListIInv, ListTypeOK
    <3>2. CASE p = 1
      BY <1>e, <1>f, <2>1, <3>2
    <3>3. CASE p # 1 /\ followed'[u]
      <4>1. skipped < size
        BY <2>2, <3>1, <3>3
      <4> HIDE DEF skipped
      <4> QED BY <1>d, <1>e, <1>f, <4>1
    <3> QED BY <3>2, <3>3
  <2>4. UNCHANGED row
    BY <1>a
  <2> QED BY <1>a, <1>g, <2>3 DEF ListIInv, PagesHaveRows, ListTypeOK
<1>3. LinksLeadToRows'
  BY <1>a DEF ListIInv, LinksLeadToRows, ListTypeOK
<1>4. ASSUME PageSize = PageUnit PROVE RanksAsRead' /\ NumbersAreRanks'
  <2>1. NumbersAreRanks'
    BY <1>4, <1>a DEF ListIInv, NumbersAreRanks, ListTypeOK, Number
  <2>2. RanksAsRead'
    <3>1. \A k \in 1 .. length : Gap(size + 1 - (skipped + k), ranks[k]) <= 0
      BY <1>d, <1>f DEF Gap
    <3>2. skipped = (p - 1) * PageSize
      BY <1>4
    <3> HIDE DEF skipped
    <3> QED BY <1>4, <1>a, <1>d, <1>g, <3>1, <3>2
            DEF ListIInv, RanksAsRead, NumberFrom, ListTypeOK, size
  <2> QED BY <2>1, <2>2
<1>5. \A v \in ListTabs : since'[v] <= writes'
  BY <1>a DEF ListIInv, ListTypeOK
<1> QED BY <1>1, <1>2, <1>3, <1>4, <1>5 DEF ListIInv

\* The second query: the count is that of the rows found now.
LEMMA SelectListTotCntStep ==
  ASSUME ListIInv, NEW u \in ListTabs, SelectListTotCnt(u)
  PROVE  ListIInv'
<1> DEFINE count == Cardinality(Found(query[u]))
<1> USE ListConstants
<1>a. /\ at[u] = "counting" /\ at' = [at EXCEPT ![u] = "shown"]
      /\ total' = [total EXCEPT ![u] = count] /\ late' = [late EXCEPT ![u] = since[u]]
      /\ UNCHANGED <<row, query, pageIndex, rows, rank, since, followed, writes>>
  BY DEF SelectListTotCnt
<1>b. \A x : Found(x)' = Found(x)
  BY <1>a DEF Found, Finds
<1>c. count \in 0 .. MaxId /\ (count = 0 <=> Found(query[u]) = {})
  BY FoundFinite, FS_EmptySet
<1>1. ListTypeOK'
  <2> HIDE DEF count
  <2> QED BY <1>a, <1>c DEF ListIInv, ListTypeOK
<1>2. PagesHaveRows'
  BY <1>a, <1>b DEF ListIInv, PagesHaveRows, ListTypeOK
<1>3. LinksLeadToRows'
  <2>1. followed[u] /\ since[u] = 0 => (rows[u] = <<>> <=> count = 0)
    BY <1>a, <1>c DEF ListIInv, PagesHaveRows
  <2> HIDE DEF count
  <2> QED BY <1>a, <2>1 DEF ListIInv, LinksLeadToRows, ListTypeOK
<1>4. ASSUME PageSize = PageUnit PROVE RanksAsRead' /\ NumbersAreRanks'
  <2>1. RanksAsRead'
    BY <1>4, <1>a, <1>b DEF ListIInv, RanksAsRead, NumberFrom, ListTypeOK
  <2>2. \A k \in DOMAIN rows[u] : Gap(NumberFrom(u, count, k), rank[u][k]) <= since[u]
    BY <1>4, <1>a DEF ListIInv, RanksAsRead
  <2>3. NumbersAreRanks'
    <3> HIDE DEF count
    <3> QED BY <1>4, <1>a, <2>2 DEF ListIInv, NumbersAreRanks, ListTypeOK, Number, NumberFrom
  <2> QED BY <2>1, <2>3
<1>5. \A v \in ListTabs : since'[v] <= writes'
  BY <1>a DEF ListIInv, ListTypeOK
<1> QED BY <1>1, <1>2, <1>3, <1>4, <1>5 DEF ListIInv

\* A save moves every number between the queries by one at most.
LEMMA SaveStep ==
  ASSUME ListIInv, Save
  PROVE  ListIInv'
<1> USE ListConstants
<1>a. /\ writes < MaxWrites /\ writes' = writes + 1
      /\ since' = [u \in ListTabs |-> IF at[u] = "away" THEN 0 ELSE since[u] + 1]
      /\ UNCHANGED <<at, query, pageIndex, rows, total, rank, late, followed>>
  BY DEF Save
<1>b. PICK i \in Ids : \/ Delete(i)
                       \/ \E x \in Texts : Update(i, x) \/ Insert(i, x, writes + 1)
  BY DEF Save
<1>c. row' \in [Ids -> ListRows] /\ \A j \in Ids \ {i} : row'[j] = row[j]
  <2>1. row \in [Ids -> ListRows] /\ writes + 1 \in 0 .. MaxInserts
    BY <1>a DEF ListIInv, ListTypeOK, ListRows
  <2>2. ASSUME NEW x \in Texts, Update(i, x)
        PROVE  row' \in [Ids -> ListRows] /\ \A j \in Ids \ {i} : row'[j] = row[j]
    <3>1. row[i] \in [text : Texts, no : 0 .. MaxInserts] /\ row' = [row EXCEPT ![i].text = x]
      BY <2>1, <2>2 DEF Update, ListRows
    <3>2. [row[i] EXCEPT !.text = x] \in [text : Texts, no : 0 .. MaxInserts]
      BY <3>1
    <3>3. [row[i] EXCEPT !.text = x] \in ListRows
      BY <3>2 DEF ListRows
    <3>4. row' = [row EXCEPT ![i] = [row[i] EXCEPT !.text = x]]
      BY <3>1
    <3> QED BY <2>1, <3>3, <3>4
  <2>3. ASSUME NEW x \in Texts, Insert(i, x, writes + 1)
        PROVE  row' \in [Ids -> ListRows] /\ \A j \in Ids \ {i} : row'[j] = row[j]
    <3>1. [text |-> x, no |-> writes + 1] \in ListRows
      BY <2>1 DEF ListRows
    <3> QED BY <2>1, <2>3, <3>1 DEF Insert
  <2>4. Absent \in ListRows
    BY DEF ListRows
  <2> QED BY <1>b, <2>1, <2>2, <2>3, <2>4 DEF Delete
<1>1. ListTypeOK'
  <2>1. /\ writes \in 0 .. MaxWrites
        /\ \A u \in ListTabs : since[u] \in 0 .. MaxWrites /\ since[u] <= writes
    BY DEF ListIInv, ListTypeOK
  <2>2. since' \in [ListTabs -> 0 .. MaxWrites] /\ writes' \in 0 .. MaxWrites
    <3>1. \A u \in ListTabs : since[u] + 1 \in 0 .. MaxWrites
      BY <1>a, <2>1
    <3>2. writes' \in 0 .. MaxWrites
      BY <1>a DEF ListIInv, ListTypeOK
    <3> QED BY <1>a, <3>1, <3>2
  <2> QED BY <1>a, <1>c, <2>2 DEF ListIInv, ListTypeOK, ListRows
<1>2. PagesHaveRows'
  BY <1>a DEF ListIInv, PagesHaveRows, ListTypeOK
<1>3. LinksLeadToRows'
  BY <1>a DEF ListIInv, LinksLeadToRows
<1>4. ASSUME PageSize = PageUnit PROVE RanksAsRead' /\ NumbersAreRanks'
  <2>1. NumbersAreRanks'
    BY <1>4, <1>a DEF ListIInv, NumbersAreRanks, Number
  <2>2. RanksAsRead'
    <3> SUFFICES ASSUME NEW u \in ListTabs, at[u] = "counting", NEW k \in DOMAIN rows[u]
                 PROVE  Gap(NumberFrom(u, Cardinality(Found(query[u]))', k), rank[u][k])
                          <= since[u] + 1
      BY <1>a DEF RanksAsRead, NumberFrom
    <3> DEFINE before == Cardinality(Found(query[u]))
               after == Cardinality(Found(query[u]))'
               place == (pageIndex[u] - 1) * PageSize + k
    <3>1. Gap(before + 1 - place, rank[u][k]) <= since[u]
      BY <1>4 DEF ListIInv, RanksAsRead, NumberFrom
    <3>2. before \in Nat /\ (after = before \/ after = before + 1 \/ after = before - 1)
      <4>1. PICK q : q = query[u]
        OBVIOUS
      <4>2. Found(query[u]) = Found(q) /\ Found(query[u])' = Found(q)'
        BY <1>a, <4>1 DEF Found, Finds
      <4>3. before = Cardinality(Found(q)) /\ after = Cardinality(Found(q))'
        BY <4>2
      <4> HIDE DEF before, after
      <4> QED BY <1>c, <4>3, SaveChangesOne, FoundFinite
    <3>3. place \in Int /\ rank[u][k] \in Int /\ since[u] \in Int
      <4>1. rank[u] \in BoundedSeq(1 .. MaxId, PageUnit) /\ rows[u] \in BoundedSeq(Ids, PageUnit)
            /\ Len(rank[u]) = Len(rows[u])
        BY DEF ListIInv, ListTypeOK
      <4>2. k \in DOMAIN rank[u] /\ DOMAIN rows[u] = 1 .. Len(rows[u]) /\ Len(rows[u]) \in Nat
        BY <4>1, OfBoundedSeq
      <4>3. rank[u][k] \in 1 .. MaxId
        BY <4>1, <4>2, OfBoundedSeq
      <4>4. pageIndex[u] \in Int /\ since[u] \in Int
        BY DEF ListIInv, ListTypeOK
      <4> QED BY <4>2, <4>3, <4>4
    <3> HIDE DEF before, after, place
    <3>4. Gap(after + 1 - place, rank[u][k]) <= since[u] + 1
      BY <3>1, <3>2, <3>3 DEF Gap
    <3> QED BY <3>4 DEF NumberFrom, after, place
  <2> QED BY <2>1, <2>2
<1>5. \A v \in ListTabs : since'[v] <= writes'
  BY <1>a DEF ListIInv, ListTypeOK
<1> QED BY <1>1, <1>2, <1>3, <1>4, <1>5 DEF ListIInv

\* Every step keeps the invariant.
LEMMA ListNextIInv == ListIInv /\ [ListNext]_listVars => ListIInv'
<1> SUFFICES ASSUME ListIInv, [ListNext]_listVars PROVE ListIInv'
  OBVIOUS
<1>1. CASE Save
  BY <1>1, SaveStep
<1>2. ASSUME NEW u \in ListTabs, NEW q \in Queries, NEW p \in 1 .. TotalPages(MaxId),
             SelectList(u, q, p)
      PROVE  ListIInv'
  BY <1>2, SelectListStep
<1>3. ASSUME NEW u \in ListTabs, SelectListTotCnt(u) PROVE ListIInv'
  BY <1>3, SelectListTotCntStep
<1>4. CASE UNCHANGED listVars
  <2>1. \A x : Found(x)' = Found(x)
    BY <1>4 DEF listVars, Found, Finds
  <2> QED
    BY <1>4, <2>1
    DEF listVars, ListIInv, ListTypeOK, PagesHaveRows, LinksLeadToRows, RanksAsRead,
        NumbersAreRanks, NumberFrom, Number
<1> QED BY <1>1, <1>2, <1>3, <1>4 DEF ListNext

\* What a list page holds, in every reachable state.
THEOREM ListInvariance == ListSpec => []ListIInv
  BY ListInitIInv, ListNextIInv, PTL DEF ListSpec

\* The table and the pages of lists keep their types.
THEOREM ListTypeCorrect == ListSpec => []ListTypeOK
<1>1. ListIInv => ListTypeOK
  BY DEF ListIInv
<1> QED BY <1>1, ListInvariance, PTL

\* If the two page sizes of the properties agree, as they do, the template
\* numbers a row by its place from the oldest, but for the writes between the
\* two queries.
THEOREM NumbersRight == ListSpec => [](PageSize = PageUnit => NumbersAreRanks)
<1>1. ListIInv => (PageSize = PageUnit => NumbersAreRanks)
  BY DEF ListIInv
<1> QED BY <1>1, ListInvariance, PTL

\* A link that is up to date leads to rows, if the search finds any.
THEOREM LinksRight == ListSpec => []LinksLeadToRows
<1>1. ListIInv => LinksLeadToRows
  BY DEF ListIInv
<1> QED BY <1>1, ListInvariance, PTL

-----------------------------------------------------------------------------
(* The labels of the page links *)

\* What a thread has written or read since it began is of its locale, as long
\* as no other one has written.
OwnLabels ==
  \A th \in Threads : Rendering(th) /\ ~disturbed[th] =>
    /\ \A i \in 1 .. 4 : i < step[th] => label[Writes[i]] = locale[th]
    /\ step[th] = ReadNext => page[th].prev = locale[th]

RenderIInv == RenderTypeOK /\ OwnLabels /\ ForeignLabelsOnlyByOverlap

\* The four writes.
LEMMA WritesAre == /\ Len(Writes) = 4 /\ DOMAIN Writes = 1 .. 4
                   /\ \A i \in 1 .. 4 : Writes[i] \in Fields
                   /\ Fields = {Writes[i] : i \in 1 .. 4}
                   /\ \A i, j \in 1 .. 4 : Writes[i] = Writes[j] => i = j
                   /\ ReadPrev = 5 /\ ReadNext = 6
  BY DEF Writes, Fields, ReadPrev, ReadNext

\* The invariant holds before any rendering.
LEMMA InitRenderIInv == RenderInit => RenderIInv
  BY LocalesAssumption, WritesAre
  DEF RenderInit, RenderIInv, RenderTypeOK, OwnLabels, ForeignLabelsOnlyByOverlap, Rendering, Idle

\* Every step keeps it.
LEMMA NextRenderIInv == RenderIInv /\ [RenderNext]_renderVars => RenderIInv'
<1> SUFFICES ASSUME RenderIInv, [RenderNext]_renderVars PROVE RenderIInv'
  OBVIOUS
<1> USE WritesAre DEF RenderIInv, RenderTypeOK, Rendering, Idle, FirstWrite
<1>1. ASSUME NEW th \in Threads, NEW l \in Locales, Begin(th, l) PROVE RenderIInv'
  BY <1>1 DEF Begin, OwnLabels, ForeignLabelsOnlyByOverlap
<1>2. ASSUME NEW th \in Threads, Write(th) PROVE RenderIInv'
  <2>1. RenderTypeOK'
    <3>1. step[th] \in 1 .. 4 /\ label' \in [Fields -> Locales]
      BY <1>2 DEF Write
    <3>2. step' \in [Threads -> Idle .. ReadNext] /\ disturbed' \in [Threads -> BOOLEAN]
      BY <1>2, <3>1 DEF Write
    <3> QED BY <1>2, <3>1, <3>2 DEF Write
  <2>2. OwnLabels'
    <3> SUFFICES ASSUME NEW u \in Threads, step'[u] # 0, ~disturbed'[u]
                 PROVE  /\ \A i \in 1 .. 4 : i < step'[u] => label'[Writes[i]] = locale[u]
                        /\ step'[u] = ReadNext => page[u].prev = locale[u]
      BY <1>2 DEF Write, OwnLabels
    <3>1. u = th /\ ~disturbed[u] /\ step[u] \in 1 .. 4 /\ step'[u] = step[u] + 1
      BY <1>2 DEF Write
    <3> QED BY <1>2, <3>1 DEF Write, OwnLabels
  <2>3. ForeignLabelsOnlyByOverlap'
    BY <1>2, <2>1 DEF Write, ForeignLabelsOnlyByOverlap
  <2> QED BY <2>1, <2>2, <2>3
<1>3. ASSUME NEW th \in Threads, PutPrev(th) PROVE RenderIInv'
  <2>1. RenderTypeOK'
    BY <1>3 DEF PutPrev, Fields
  <2>2. disturbed[th] \/ page'[th].prev = locale[th]
    BY <1>3 DEF PutPrev, OwnLabels, Writes
  <2>3. OwnLabels'
    BY <1>3, <2>1, <2>2 DEF PutPrev, OwnLabels
  <2>4. ForeignLabelsOnlyByOverlap'
    BY <1>3 DEF PutPrev, ForeignLabelsOnlyByOverlap
  <2> QED BY <2>1, <2>3, <2>4
<1>4. ASSUME NEW th \in Threads, PutNext(th) PROVE RenderIInv'
  <2>1. RenderTypeOK'
    BY <1>4 DEF PutNext, Fields
  <2>2. disturbed[th] \/ page'[th] = [prev |-> locale[th], next |-> locale[th]]
    BY <1>4 DEF PutNext, OwnLabels, Writes
  <2>3. OwnLabels'
    BY <1>4, <2>1 DEF PutNext, OwnLabels
  <2>4. ForeignLabelsOnlyByOverlap'
    BY <1>4, <2>1, <2>2 DEF PutNext, ForeignLabelsOnlyByOverlap
  <2> QED BY <2>1, <2>3, <2>4
<1>5. ASSUME UNCHANGED renderVars PROVE RenderIInv'
  BY <1>5 DEF renderVars, OwnLabels, ForeignLabelsOnlyByOverlap
<1> QED BY <1>1, <1>2, <1>3, <1>4, <1>5 DEF RenderNext

\* Labels are texts of some locale, whatever the threads do.
THEOREM LabelTypeCorrect == RenderSpec => []RenderTypeOK
<1>1. RenderIInv => RenderTypeOK
  BY DEF RenderIInv
<1> QED BY InitRenderIInv, NextRenderIInv, <1>1, PTL DEF RenderSpec

\* A page has labels of a foreign locale only if another thread wrote labels
\* while it was rendered.
THEOREM ForeignLabels == RenderSpec => []ForeignLabelsOnlyByOverlap
<1>1. RenderIInv => ForeignLabelsOnlyByOverlap
  BY DEF RenderIInv
<1> QED BY InitRenderIInv, NextRenderIInv, <1>1, PTL DEF RenderSpec
=============================================================================
