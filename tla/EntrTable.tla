----------------------------- MODULE EntrTable -----------------------------
(***************************************************************************)
(* The database table "entr" as the edit machinery sees it, and what one   *)
(* call of submission() (jmdictdb/submit.py) makes of it.                  *)
(*                                                                         *)
(* A table T is a function from the ids of its rows to rows.  The edits of *)
(* an entry are rows linked by "dfrm" to the row they were made from, so   *)
(* the rows form trees: the root is what was edited first, the leaves are  *)
(* the edits nobody has edited yet.  Everything here is an operator on     *)
(* tables: EditTree applies them to the one table of the database,         *)
(* EditTxn to the snapshots of its transactions.                           *)
(***************************************************************************)
EXTENDS Naturals, Sequences, FiniteSets

CONSTANTS EntrIds,    \* ids that entr_id_seq can give out
          NoEntr,     \* SQL NULL in "dfrm"
          Keys        \* corpus and sequence number: the pairs (src, seq)

ASSUME NoEntrIsNoId == NoEntr \notin EntrIds

Stats == {"A", "D", "R"}        \* active, deleted, rejected

Rows == [key : Keys, stat : Stats, dfrm : EntrIds \cup {NoEntr},
         unap : BOOLEAN, hist : Seq(EntrIds)]

IsTable(T) == DOMAIN T \subseteq EntrIds /\ T \in [DOMAIN T -> Rows]

(***************************************************************************)
(* What submission() is called with: the disposition, the entry that was   *)
(* edited (NoEntr for a new entry), the status asked for, the corpus and   *)
(* sequence number of the form, and whether a fork is allowed.             *)
(***************************************************************************)
Calls == [disp : {"", "a", "r"}, dfrm : EntrIds \cup {NoEntr}, stat : Stats,
          key : Keys, forks : BOOLEAN]

-----------------------------------------------------------------------------
(* Edit trees: the views edbase, edpath and edpaths, and the functions of  *)
(* submit.py that take them apart.                                         *)

HasEdits(T, e) == \E c \in DOMAIN T : T[c].dfrm = e

\* Entry e and the edits made from it, directly or not.
Descendants(T, e) ==
  LET edits  == {c \in DOMAIN T : T[c].dfrm # NoEntr}
      closed == {S \in SUBSET edits :
                   \A c \in edits : T[c].dfrm \in S \cup {e} => c \in S}
  IN  {e} \cup {c \in edits : \A S \in closed : c \in S}

Root(T, e) ==
  CHOOSE r \in DOMAIN T : T[r].dfrm = NoEntr /\ e \in Descendants(T, r)

\* Every row has one root.
IsForest(T) ==
  \A e \in DOMAIN T :
    \E r \in DOMAIN T :
      /\ T[r].dfrm = NoEntr
      /\ e \in Descendants(T, r)
      /\ \A q \in DOMAIN T :
           T[q].dfrm = NoEntr /\ e \in Descendants(T, q) => q = r

\* The leaves made from e: get_leafs().
Leaves(T, e) == {l \in Descendants(T, e) : ~HasEdits(T, l)}

\* A mutant of Segment: the whole path of l, whoever else is on it.
SegmentToRoot(T, l) == {a \in DOMAIN T : l \in Descendants(T, a)}

\* The part of the path to leaf l that leads to no other leaf: get_segment().
Segment(T, l) == {a \in DOMAIN T : Leaves(T, a) = {l}}

\* A mutant of RejectSet: the approved root is not spared.
WholeSegment(T, l) == Segment(T, l)

\* What reject() removes: the segment, but never an approved root.
RejectSet(T, l) == {a \in Segment(T, l) : T[a].dfrm # NoEntr \/ T[a].unap}

\* The first element of such a list of ids, root side first.
First(T, S) == CHOOSE a \in S : T[a].dfrm \notin S

-----------------------------------------------------------------------------
(* Changes of the table. *)

\* INSERT with id n.  The last history record is marked with the id of its
\* entry (setkeys); it stands for the record here.
InsertRow(T, n, row) ==
  [i \in DOMAIN T \cup {n} |->
     IF i = n THEN [row EXCEPT !.hist = Append(@, n)] ELSE T[i]]

\* A mutant of DeleteRow: ON DELETE CASCADE forgotten.
DeleteOnlyRow(T, e) == [i \in DOMAIN T \ {e} |-> T[i]]

\* DELETE FROM entr WHERE id=e; the foreign key of dfrm cascades.
DeleteRow(T, e) == [i \in DOMAIN T \ Descendants(T, e) |-> T[i]]

\* A mutant of KeyIsFree: no such index.
NoIndex(T, k) == TRUE

\* The partial unique index on (src, seq).
KeyIsFree(T, k) ==
  \A i \in DOMAIN T : T[i].key = k /\ T[i].stat = "A" => T[i].unap

\* A mutant of History: the parent's history is not carried over.
HistoryOfFormOnly(T, d) == <<>>

\* The history that add_hist() carries over to an edit of d.
History(T, d) == IF d = NoEntr THEN <<>> ELSE T[d].hist

\* A deletion keeps the parent's data, whatever the form says.
KeyOf(T, c) ==
  IF c.dfrm # NoEntr /\ c.stat = "D" THEN T[c.dfrm].key ELSE c.key

\* The row that a call writes, but for its own history record.
RowFor(T, c, stat, dfrm, unap) ==
  [key |-> KeyOf(T, c), stat |-> stat, dfrm |-> dfrm, unap |-> unap,
   hist |-> History(T, c.dfrm)]

StatFor(c) == IF c.dfrm = NoEntr THEN "A" ELSE c.stat

-----------------------------------------------------------------------------
(* The early returns of submission(), and its three dispositions. *)

\* A mutant of MayEdit: without the check for rejected entries.
MayEditRejected(T, c) ==
  \/ c.dfrm = NoEntr
  \/ c.dfrm \in DOMAIN T /\ (HasEdits(T, c.dfrm) => c.forks)

MayEdit(T, c) ==
  \/ c.dfrm = NoEntr
  \/ /\ c.dfrm \in DOMAIN T
     /\ HasEdits(T, c.dfrm) => c.forks
     /\ T[c.dfrm].stat # "R"

SubmitOK(T, c) == MayEdit(T, c) /\ StatFor(c) # "R"

SubmittedRow(T, c) == RowFor(T, c, StatFor(c), c.dfrm, TRUE)

Submitted(T, c, n) == InsertRow(T, n, SubmittedRow(T, c))

\* A mutant of IsOnlyLeaf: approve_ok() without the test for branches.
IsALeaf(T, e) == e \in Leaves(T, Root(T, e))

\* approve_ok(): e is a leaf and its tree has no other one.
IsOnlyLeaf(T, e) == Leaves(T, Root(T, e)) = {e}

\* Approval is also refused while the entry has cross-references that nobody
\* has resolved; the model leaves them out.
ApproveOK(T, c) ==
  /\ MayEdit(T, c)
  /\ StatFor(c) # "R"
  /\ c.dfrm # NoEntr => IsOnlyLeaf(T, c.dfrm)

\* The table once the tree that an approval supersedes is gone.
WithoutTree(T, d) == IF d = NoEntr THEN T ELSE DeleteRow(T, Root(T, d))

ApprovedRow(T, c) == RowFor(T, c, StatFor(c), NoEntr, FALSE)

Approved(T, c, n) ==
  InsertRow(WithoutTree(T, c.dfrm), n, ApprovedRow(T, c))

\* A row fits in the table if the index has room for it.
Fits(T, row) == row.stat = "A" /\ ~row.unap => KeyIsFree(T, row.key)

RejectOK(T, c) ==
  /\ c.dfrm # NoEntr
  /\ MayEdit(T, c)
  /\ ~HasEdits(T, c.dfrm)
  /\ ~ (T[c.dfrm].dfrm = NoEntr /\ ~T[c.dfrm].unap)

RejectedRow(T, c) == RowFor(T, c, "R", NoEntr, FALSE)

Rejected(T, c, n) ==
  InsertRow(DeleteRow(T, First(T, RejectSet(T, c.dfrm))), n, RejectedRow(T, c))
=============================================================================
