----------------------------- MODULE SampleTable -----------------------------
(***************************************************************************)
(* What the sample board promises of its table SAMPLE: a row appears under *)
(* an id that is free, stays the same row when it is changed, changes or   *)
(* goes alone, and a restart brings back the rows of the script.           *)
(***************************************************************************)
EXTENDS Naturals

CONSTANTS
  MaxId,        \* bound on ids: the number in SAMPLE-00001
  Texts,        \* what a row may hold
  ScriptRows,   \* rows that sampledb.sql inserts: id |-> text
  MaxInserts,   \* bound on inserts, which number the rows they make
  Absent        \* no row

ASSUME AbsentAssumption == Absent \notin Texts \cup Nat \cup [text : Texts, no : Nat]
ASSUME TableAssumption == /\ MaxId \in Nat /\ MaxInserts \in Nat
                          /\ \A i \in DOMAIN ScriptRows : ScriptRows[i] \in Texts

VARIABLE row    \* id |-> its row: what it holds and which insert made it

Ids == 1 .. MaxId
Script == [i \in Ids |-> IF i \in DOMAIN ScriptRows
                         THEN [text |-> ScriptRows[i], no |-> 0] ELSE Absent]

TableInit == row = Script

Insert(i, x, n) == row[i] = Absent /\ row' = [row EXCEPT ![i] = [text |-> x, no |-> n]]
Update(i, x)    == row[i] # Absent /\ row' = [row EXCEPT ![i].text = x]
Delete(i)       == row[i] # Absent /\ row' = [row EXCEPT ![i] = Absent]
Reset           == row' = Script

TableNext ==
  \/ \E i \in Ids : \/ Delete(i)
                    \/ \E x \in Texts : \/ Update(i, x)
                                        \/ \E n \in 1 .. MaxInserts : Insert(i, x, n)
  \/ Reset

TableSpec == TableInit /\ [][TableNext]_row
=============================================================================
