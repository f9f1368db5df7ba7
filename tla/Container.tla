------------------------------ MODULE Container ------------------------------
(***************************************************************************)
(* The start of the service container: the entry tree is put together, its *)
(* rows are flattened to jobs and these activated.                         *)
(***************************************************************************)
EXTENDS EntryTree, Activation

bootVars == <<treeVars, activationVars>>

\* flatten: the rows to activate, without the disabled ones and what is in them.
RECURSIVE Flattened(_)
Flattened(rows) ==
  FlattenSeq([n \in DOMAIN rows |->
    CASE row[rows[n]].disabled -> <<>>
      [] row[rows[n]].group /\ ~row[rows[n]].disabled -> Flattened(childEntries(row[rows[n]].kids))
      [] OTHER -> <<[entry |-> rows[n], id |-> row[rows[n]].id, name |-> row[rows[n]].name]>>])

BootInit == TreeInit /\ ActivationInit

Composes == stage = "compose" /\ Compose /\ UNCHANGED activationVars

\* Activate begins.
Activate == root # <<>> /\ Queue(Flattened(root)) /\ UNCHANGED treeVars

BootNext == Composes \/ Activate \/ (TryAll /\ UNCHANGED treeVars)

=============================================================================
