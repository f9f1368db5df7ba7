------------------------------ MODULE EntryTree ------------------------------
(***************************************************************************)
(* How the configuration is put together (internal/config/patch.go,        *)
(* entry.go): batches of patches on one tree of rows.  A batch is one call *)
(* of ApplyEntryPatches: the rows a bundle brings, or the patches of a     *)
(* layer.  It works on a copy of the tree and on an index from ids to rows *)
(* that it builds once and then keeps up by itself.                        *)
(*                                                                         *)
(* A row is named by the text it was written in, and a text is inserted    *)
(* once.  What its config says matters only for a group: the rows in it.   *)
(***************************************************************************)
EXTENDS Integers, FiniteSets, SequencesExt

CONSTANTS
  RowOf,       (* the rows of all layers: [id, name, group, disabled, kids]     *)
  Patches,     (* their patches: [id, name, insert, set], one of the last two   *)
  MaxPatches,  (* bound on the patches applied                                  *)
  Malformed,   (* a row, or the value of a field, that does not decode          *)
  None         (* no id, no name                                                *)

VARIABLES
  row,       (* the rows as they are now                                        *)
  root,      (* the rows of the tree that are in no group                       *)
  index,     (* entryMap                                                        *)
  applied,   (* the patches so far                                              *)
  reshaped   (* history: this batch replaced the rows of a group by others      *)

treeVars == <<row, root, index, applied, reshaped>>

\* The rows of a group, up to the first that is none: it and what follows are
\* left out without a word.
childEntries(kids) ==
  SubSeq(kids, 1, Min({n \in DOMAIN kids : kids[n] = Malformed} \cup {Len(kids) + 1}) - 1)

\* The rows of the tree below "rows", each before the rows in it.
RECURSIVE Preorder(_, _)
Preorder(r, rows) ==
  FlattenSeq([n \in DOMAIN rows |->
    <<rows[n]>> \o IF r[rows[n]].group THEN Preorder(r, childEntries(r[rows[n]].kids)) ELSE <<>>])

\* entryMap.build: of rows with the same id the last one is found.
build(r, rows) ==
  LET all == Preorder(r, rows)
      At(id) == {n \in DOMAIN all : r[all[n]].id = id}
  IN  [id \in {r[all[n]].id : n \in DOMAIN all} \ {None} |-> all[Max(At(id))]]

-----------------------------------------------------------------------------
TreeInit ==
  /\ row = RowOf
  /\ root = <<>> /\ index = <<>>
  /\ applied = {} /\ reshaped = FALSE

\* ApplyEntryPatches begins: a copy of the tree, and its index.
NextBatch ==
  /\ index' = build(row, root)
  /\ reshaped' = FALSE
  /\ UNCHANGED <<row, root, applied>>

Found(p) == p.id \in DOMAIN index

\* Mutant: the rows inserted are not entered into the index.
InsertUnindexed(p) ==
  /\ p.insert # <<>>
  /\ \/ p.id = None /\ root' = root \o p.insert /\ UNCHANGED row
     \/ Found(p) /\ row[index[p.id]].group
        /\ row' = [row EXCEPT ![index[p.id]].kids = childEntries(@) \o p.insert]
        /\ UNCHANGED root
  /\ UNCHANGED <<index, reshaped>>

\* appendChildren, or the end of the root.  What was inserted is indexed, so
\* that the next patch of the same batch can name it.
Insert(p) ==
  /\ p.insert # <<>>
  /\ \/ p.id = None /\ root' = root \o p.insert /\ UNCHANGED row
     \/ Found(p) /\ row[index[p.id]].group
        /\ row' = [row EXCEPT ![index[p.id]].kids = childEntries(@) \o p.insert]
        /\ UNCHANGED root
  /\ index' = build(row', p.insert) @@ index
  /\ UNCHANGED reshaped

\* Name and group have a type; a value of another one is a warning, and the
\* field stays as it was.
setField(set) ==
  Restrict(set, {f \in DOMAIN set : f \in {"name", "group"} => set[f] # Malformed})

\* setField for every field of the patch: a new config takes the place of the
\* old one and of the rows that were in it.  The index is left as it is.
SetFields(p) ==
  /\ p.insert = <<>> /\ Found(p)
  /\ LET target == index[p.id] IN
       /\ p.name \in {None, row[target].name}
       /\ row' = [row EXCEPT ![target] = setField(p.set) @@ @]
       /\ reshaped' = (\/ reshaped
                       \/ Preorder(row', <<target>>) # Preorder(row, <<target>>))
  /\ UNCHANGED <<root, index>>

\* An insert into no row or no group, a patch of no row or of a row with
\* another name: a warning, and on with the next patch.
Skip(p) ==
  /\ IF p.insert # <<>> THEN p.id # None /\ ~(Found(p) /\ row[index[p.id]].group)
     ELSE ~(Found(p) /\ p.name \in {None, row[index[p.id]].name})
  /\ UNCHANGED <<row, root, index, reshaped>>

ApplyPatch ==
  /\ Cardinality(applied) < MaxPatches
  /\ \E p \in Patches \ applied :
       /\ applied' = applied \cup {p}
       /\ Insert(p) \/ SetFields(p) \/ Skip(p)

Compose == NextBatch \/ ApplyPatch

-----------------------------------------------------------------------------
(* Properties.                                                             *)

Tree == ToSet(Preorder(row, root))

\* A patch reaches every row of the tree by its id, the ones the same batch
\* has just inserted included, and changes no row that is in no tree; unless
\* the batch has replaced the rows of a group (patch.go:79-80, 126-128).
PatchesReachTheTree ==
  ~reshaped => /\ Range(index) \subseteq Tree
               /\ DOMAIN index = {row[r].id : r \in Tree} \ {None}

=============================================================================
