--------------------------- MODULE EditTxn_proofs ---------------------------
(***************************************************************************)
(* What the transactions of EditTxn keep true, for any number of them.     *)
(*                                                                         *)
(* The table is changed in the two ways of EditTree_proofs, whose lemmas   *)
(* are taken from there: Proved!L is the lemma L about this table.         *)
(***************************************************************************)
EXTENDS EditTxn, TLAPS

Proved == INSTANCE EditTree_proofs

\* What EditTree assumes of its constants.
LEMMA ConstantsOK ==
  /\ NoEntr \notin EntrIds
  /\ AllowForks \in BOOLEAN
  /\ Corpus \subseteq EntrIds /\ Proved!IsFiniteSet(Corpus)
BY NoEntrIsNoId, AllowForksIsBoolean, CorpusIsLoaded
  DEF IsFiniteSet, Proved!IsFiniteSet

\* S has, with a row, the edits made from it.
ClosedIn(T, S) ==
  \A c \in DOMAIN T : T[c].dfrm # NoEntr /\ T[c].dfrm \in S => c \in S

\* The table without the rows of X.
Without(T, X) == [i \in DOMAIN T \ X |-> T[i]]

-----------------------------------------------------------------------------
(* What EditTree_proofs shows of edit trees. *)

\* An entry is one of its descendants, and the others are rows of the table.
LEMMA DescendantsOf ==
  ASSUME NEW T, NEW e
  PROVE  /\ e \in Descendants(T, e)
         /\ Descendants(T, e) \subseteq {e} \cup DOMAIN T
BY ConstantsOK, Proved!DescendantsOf
  DEF Descendants, Proved!Descendants

\* The descendants of an entry have all the edits made from them.
LEMMA DescendantsClosed ==
  ASSUME NEW T, NEW e
  PROVE  ClosedIn(T, Descendants(T, e))
BY ConstantsOK, Proved!DescendantsClosed
  DEF Descendants, ClosedIn, Proved!Descendants, Proved!ClosedIn

\* No smaller set has the entry and is closed under edits.
LEMMA DescendantsLeast ==
  ASSUME NEW T, NEW e, NEW X, e \in X, ClosedIn(T, X)
  PROVE  Descendants(T, e) \subseteq X
BY ConstantsOK, Proved!DescendantsLeast
  DEF Descendants, ClosedIn, Proved!Descendants, Proved!ClosedIn

\* Descendants of a descendant are descendants.
LEMMA DescendantsTrans ==
  ASSUME NEW T, NEW e, NEW d \in Descendants(T, e)
  PROVE  Descendants(T, d) \subseteq Descendants(T, e)
BY ConstantsOK, Proved!DescendantsTrans
  DEF Descendants, Proved!Descendants

\* The parent of a descendant is a descendant too.
LEMMA DescendantsParent ==
  ASSUME NEW T, NEW e, NEW c \in Descendants(T, e), c # e
  PROVE  c \in DOMAIN T /\ T[c].dfrm # NoEntr /\ T[c].dfrm \in Descendants(T, e)
BY ConstantsOK, Proved!DescendantsParent
  DEF Descendants, Proved!Descendants

\* The operators on trees of EditTree_proofs are those of this module.
LEMMA SameOperators ==
  ASSUME NEW T, NEW e
  PROVE  /\ Root(T, e) = Proved!Root(T, e)
         /\ IsForest(T) <=> Proved!IsForest(T)
         /\ Descendants(T, e) = Proved!Descendants(T, e)
         /\ RejectSet(T, e) = Proved!RejectSet(T, e)
<1>1. \A a : Descendants(T, a) = Proved!Descendants(T, a)
  BY DEF Descendants, Proved!Descendants
<1>2. \A a : HasEdits(T, a) <=> Proved!HasEdits(T, a)
  BY DEF HasEdits, Proved!HasEdits
<1>3. \A a : Leaves(T, a) = Proved!Leaves(T, a)
  BY <1>1, <1>2 DEF Leaves, Proved!Leaves
<1>4. Segment(T, e) = Proved!Segment(T, e)
  BY <1>3 DEF Segment, Proved!Segment
<1>5. RejectSet(T, e) = Proved!RejectSet(T, e)
  BY <1>4 DEF RejectSet, Proved!RejectSet
<1>6. Root(T, e) = Proved!Root(T, e)
  BY <1>1 DEF Root, Proved!Root
<1>7. IsForest(T) <=> Proved!IsForest(T)
  BY <1>1 DEF IsForest, Proved!IsForest
<1> QED
  BY <1>1, <1>5, <1>6, <1>7

\* In a forest Root finds the root, the only one.
LEMMA RootOf ==
  ASSUME NEW T, IsForest(T), NEW e \in DOMAIN T
  PROVE  /\ Root(T, e) \in DOMAIN T
         /\ T[Root(T, e)].dfrm = NoEntr
         /\ e \in Descendants(T, Root(T, e))
         /\ \A q \in DOMAIN T :
              T[q].dfrm = NoEntr /\ e \in Descendants(T, q) => q = Root(T, e)
BY ConstantsOK, SameOperators, Proved!RootOf

\* What reject() is to remove has one first entry at most.
LEMMA FirstIsOnly ==
  ASSUME NEW T, NEW l,
         NEW a \in RejectSet(T, l), T[a].dfrm \notin RejectSet(T, l),
         NEW b \in RejectSet(T, l), T[b].dfrm \notin RejectSet(T, l)
  PROVE  a = b
<1>1. RejectSet(T, l) = Proved!RejectSet(T, l)
  BY SameOperators
<1> QED
  BY <1>1, ConstantsOK, Proved!FirstIsOnly

\* Removing nothing changes nothing.
LEMMA WithoutNothing ==
  ASSUME NEW T, IsTable(T)
  PROVE  Without(T, {}) = T /\ ClosedIn(T, {})
BY ConstantsOK, Proved!WithoutNothing
  DEF Without, ClosedIn, IsTable, Rows, Stats, Proved!Without,
      Proved!ClosedIn, Proved!IsTable, Proved!Rows, Proved!Stats

\* What a call writes is a row.
LEMMA RowForIsRow ==
  ASSUME NEW T, IsTable(T), NEW c \in Calls,
         c.dfrm = NoEntr \/ c.dfrm \in DOMAIN T,
         NEW stat \in Stats, NEW d \in EntrIds \cup {NoEntr}, NEW u \in BOOLEAN
  PROVE  RowFor(T, c, stat, d, u) \in Rows
<1>1. Stats = Proved!Stats /\ Rows = Proved!Rows /\ Calls = Proved!Calls
  BY DEF Stats, Rows, Calls, Proved!Stats, Proved!Rows, Proved!Calls
<1>2. Proved!IsTable(T)
  BY <1>1 DEF IsTable, Proved!IsTable
<1>3. RowFor(T, c, stat, d, u) = Proved!RowFor(T, c, stat, d, u)
  BY DEF RowFor, KeyOf, History, Proved!RowFor, Proved!KeyOf, Proved!History
<1> QED
  BY <1>1, <1>2, <1>3, ConstantsOK, Proved!RowForIsRow

\* What a call asks for is a status.
LEMMA StatForIsStat ==
  ASSUME NEW c \in Calls
  PROVE  StatFor(c) \in Stats
BY ConstantsOK, Proved!StatForIsStat
  DEF StatFor, Calls, Stats, Proved!StatFor, Proved!Calls, Proved!Stats

-----------------------------------------------------------------------------
(* One edit tree in two tables.  What submission() reads of a tree is the  *)
(* same in both, whatever else they hold.                                  *)

\* D has, with a row, its parent and the edits made from it.
IsTreeIn(T, D) ==
  /\ D \subseteq DOMAIN T
  /\ ClosedIn(T, D)
  /\ \A i \in D : T[i].dfrm \in D \cup {NoEntr}

SameTree(T, U, D) ==
  /\ IsTreeIn(T, D) /\ IsTreeIn(U, D)
  /\ NoEntr \notin D
  /\ \A i \in D : T[i] = U[i]

\* A root and its descendants are such a tree.
LEMMA RootsTree ==
  ASSUME NEW T, NEW r \in DOMAIN T, T[r].dfrm = NoEntr
  PROVE  IsTreeIn(T, Descendants(T, r))
BY DescendantsOf, DescendantsClosed, DescendantsParent DEF IsTreeIn

\* Who has a descendant in the tree is in it.
LEMMA AncestorsInTree ==
  ASSUME NEW T, NEW D, IsTreeIn(T, D), NoEntr \notin D,
         NEW a, NEW d \in D, d \in Descendants(T, a)
  PROVE  a \in D
<1> SUFFICES ASSUME a \notin D PROVE FALSE
  OBVIOUS
<1>1. ClosedIn(T, Descendants(T, a) \ D)
  BY DescendantsClosed DEF ClosedIn, IsTreeIn
<1> QED
  BY <1>1, DescendantsOf, DescendantsLeast

\* The same rows have the same descendants.
LEMMA SameDescendants ==
  ASSUME NEW T, NEW U, NEW D, SameTree(T, U, D), NEW e \in D
  PROVE  Descendants(T, e) = Descendants(U, e) /\ Descendants(T, e) \subseteq D
<1>1. Descendants(T, e) \subseteq D /\ Descendants(U, e) \subseteq D
  BY DescendantsLeast DEF SameTree, IsTreeIn
<1>2. ClosedIn(U, Descendants(T, e)) /\ ClosedIn(T, Descendants(U, e))
  BY <1>1, DescendantsClosed DEF SameTree, IsTreeIn, ClosedIn
<1> QED
  BY <1>1, <1>2, DescendantsOf, DescendantsLeast

\* The same rows have been edited, and have the same leaves below them.
LEMMA SameLeaves ==
  ASSUME NEW T, NEW U, NEW D, SameTree(T, U, D), NEW e \in D
  PROVE  /\ HasEdits(T, e) <=> HasEdits(U, e)
         /\ Leaves(T, e) = Leaves(U, e)
<1>1. \A f \in D : HasEdits(T, f) <=> HasEdits(U, f)
  BY DEF SameTree, IsTreeIn, ClosedIn, HasEdits
<1>2. Descendants(T, e) = Descendants(U, e) /\ Descendants(T, e) \subseteq D
  BY SameDescendants
<1> QED
  BY <1>1, <1>2 DEF Leaves

\* The root is the same.
LEMMA SameRoot ==
  ASSUME NEW T, NEW U, NEW D, SameTree(T, U, D), NEW e \in D,
         IsForest(T), IsForest(U)
  PROVE  Root(T, e) = Root(U, e) /\ Root(T, e) \in D
<1>1. e \in DOMAIN T /\ e \in DOMAIN U
  BY DEF SameTree, IsTreeIn
<1>2. /\ Root(T, e) \in DOMAIN T /\ T[Root(T, e)].dfrm = NoEntr
      /\ e \in Descendants(T, Root(T, e))
  BY <1>1, RootOf
<1>3. Root(T, e) \in D
  BY <1>2, AncestorsInTree DEF SameTree
<1>4. /\ Root(T, e) \in DOMAIN U /\ U[Root(T, e)].dfrm = NoEntr
      /\ e \in Descendants(U, Root(T, e))
  BY <1>2, <1>3, SameDescendants DEF SameTree, IsTreeIn
<1> QED
  BY <1>1, <1>3, <1>4, RootOf

\* reject() would remove the same entries.
LEMMA SameRejectSet ==
  ASSUME NEW T, NEW U, NEW D, SameTree(T, U, D), NEW e \in D
  PROVE  RejectSet(T, e) = RejectSet(U, e) /\ RejectSet(T, e) \subseteq D
<1>1. \A a \in DOMAIN T : Leaves(T, a) = {e} => a \in D
  BY AncestorsInTree DEF SameTree, Leaves
<1>2. \A a \in DOMAIN U : Leaves(U, a) = {e} => a \in D
  BY AncestorsInTree DEF SameTree, Leaves
<1>3. \A a \in D : /\ a \in DOMAIN T /\ a \in DOMAIN U
                   /\ T[a] = U[a] /\ Leaves(T, a) = Leaves(U, a)
  BY SameLeaves DEF SameTree, IsTreeIn
<1> QED
  BY <1>1, <1>2, <1>3 DEF RejectSet, Segment

\* It would begin with the same one.
LEMMA SameFirst ==
  ASSUME NEW T, NEW U, NEW D, SameTree(T, U, D), NEW e \in D,
         NEW f \in RejectSet(T, e), T[f].dfrm \notin RejectSet(T, e)
  PROVE  /\ First(T, RejectSet(T, e)) = f
         /\ First(U, RejectSet(U, e)) = f
<1>1. RejectSet(T, e) = RejectSet(U, e) /\ RejectSet(T, e) \subseteq D
  BY SameRejectSet
<1>2. \A a \in RejectSet(T, e) : T[a] = U[a]
  BY <1>1 DEF SameTree
<1>3. /\ First(T, RejectSet(T, e)) \in RejectSet(T, e)
      /\ T[First(T, RejectSet(T, e))].dfrm \notin RejectSet(T, e)
  BY DEF First
<1>4. /\ First(U, RejectSet(U, e)) \in RejectSet(U, e)
      /\ U[First(U, RejectSet(U, e))].dfrm \notin RejectSet(U, e)
  BY <1>1, <1>2 DEF First
<1> QED
  BY <1>1, <1>2, <1>3, <1>4, FirstIsOnly

-----------------------------------------------------------------------------
(* The invariants. *)

\* A transaction that has made its checks, whatever they were.
IsCheck(x) ==
  x = [open |-> TRUE, doomed |-> x.doomed, tree |-> x.tree, del |-> x.del,
       gone |-> x.gone, row |-> x.row]

IsFind(x) == x = [open |-> TRUE, del |-> x.del]

\* What a request or a job is about to insert hangs from a row that was there
\* when it made its checks, was not rejected then, and is not removed by it.
RowReady(T, ids, row, del) ==
  /\ row \in Rows
  /\ row.stat = "R" => ~row.unap
  /\ row.dfrm # NoEntr =>
       /\ row.dfrm \in ids /\ row.unap /\ del = {}
       /\ row.dfrm \in DOMAIN T => T[row.dfrm].stat # "R"

TxnsOK ==
  /\ DOMAIN txn = Txns
  /\ \A t \in Txns : txn[t].open = FALSE \/ txn[t].open = TRUE
  /\ \A t \in Requests \cup Jobs :
       txn[t].open =>
         IsCheck(txn[t]) /\ RowReady(entr, used, txn[t].row, txn[t].del)
  /\ \A t \in Reapers : txn[t].open => IsFind(txn[t])

\* The invariant that the shape of the table needs.
SInv == /\ Proved!TypeOK /\ Proved!LinksOK /\ Proved!Rooted /\ Proved!OneActive
        /\ TxnsOK

-----------------------------------------------------------------------------
(* The table. *)

\* A cascade takes all the edits of what it takes.
LEMMA CascadeClosed ==
  ASSUME NEW T, NEW S
  PROVE  ClosedIn(T, Cascade(T, S))
BY DescendantsClosed DEF Cascade, ClosedIn

\* Nothing comes from nothing.
LEMMA CascadeOfNothing ==
  ASSUME NEW T
  PROVE  Cascade(T, {}) = {}
BY DEF Cascade

\* What a transaction with checks writes is a change of the table.
LEMMA WriteIsChange ==
  ASSUME SInv, NEW t \in Requests \cup Jobs, txn[t].open,
         NEW n \in EntrIds, Write(t, n)
  PROVE  Proved!Change(Cascade(entr, txn[t].del), n, txn[t].row)
<1> DEFINE X == Cascade(entr, txn[t].del)
           row == txn[t].row
<1>1. ClosedIn(entr, X)
  BY CascadeClosed
<1>2. RowReady(entr, used, row, txn[t].del)
  BY DEF SInv, TxnsOK
<1>3. Remaining(t) = Without(entr, X)
  BY DEF Remaining, Without
<1>4. row.dfrm # NoEntr => row.dfrm \in DOMAIN entr /\ X = {}
  BY <1>2, CascadeOfNothing DEF RowReady, Write, ConstraintsOK
<1>5. /\ Fits(Without(entr, X), row)
      /\ entr' = InsertRow(Without(entr, X), n, row)
      /\ n \in EntrIds \ used /\ used' = used \cup {n}
  BY <1>3 DEF Write, ConstraintsOK, Take
<1> HIDE DEF X, row
<1>6. row.dfrm # NoEntr => row.dfrm \in DOMAIN Without(entr, X)
  BY <1>4 DEF Without
<1>7. Proved!ClosedIn(entr, X)
  BY <1>1 DEF ClosedIn, Proved!ClosedIn
<1>8. Proved!RowOK(X, row)
  <2>1. Proved!Fits(Proved!Without(entr, X), row)
    BY <1>5 DEF Fits, Proved!Fits, KeyIsFree, Proved!KeyIsFree, Without,
                Proved!Without
  <2>2. row \in Proved!Rows
    BY <1>2 DEF RowReady, Rows, Proved!Rows, Stats, Proved!Stats
  <2> QED
    BY <1>2, <1>4, <1>6, <2>1, <2>2
      DEF RowReady, Without, Proved!RowOK, Proved!Without
<1>9. entr' = Proved!InsertRow(Proved!Without(entr, X), n, row)
  BY <1>5 DEF InsertRow, Proved!InsertRow, Without, Proved!Without
<1> QED
  BY <1>5, <1>7, <1>8, <1>9 DEF Proved!Change, X, row

\* What the reaper deletes is a removal.
LEMMA ExpungeIsRemoval ==
  ASSUME NEW t, Expunge(t)
  PROVE  Proved!Removal(Cascade(entr, txn[t].del))
<1> DEFINE X == Cascade(entr, txn[t].del)
<1>1. ClosedIn(entr, X)
  BY CascadeClosed
<1>2. entr' = Without(entr, X) /\ used' = used
  BY DEF Expunge, Remaining, Without
<1> HIDE DEF X
<1> QED
  BY <1>1, <1>2 DEF Proved!Removal, Proved!ClosedIn, ClosedIn, Without,
                    Proved!Without, X

\* Ids are never given out again, and rows do not change.
RowsStay ==
  /\ used \subseteq used'
  /\ \A i \in used : i \in DOMAIN entr' => i \in DOMAIN entr /\ entr'[i] = entr[i]

\* A change keeps the rest of the table.
LEMMA WriteKeepsTable ==
  ASSUME SInv, NEW t \in Requests \cup Jobs, txn[t].open,
         NEW n \in EntrIds, Write(t, n)
  PROVE  /\ (Proved!TypeOK /\ Proved!LinksOK /\ Proved!Rooted /\ Proved!OneActive)'
         /\ RowsStay
<1>1. PICK X : Proved!Change(X, n, txn[t].row)
  BY WriteIsChange
<1>2. (Proved!TypeOK /\ Proved!LinksOK /\ Proved!Rooted /\ Proved!OneActive)'
  BY <1>1, ConstantsOK, Proved!ChangeTypeOK, Proved!ChangeLinksOK,
     Proved!ChangeRooted, Proved!ChangeOneActive DEF SInv
<1>3. RowsStay
  <2>1. /\ n \notin used
        /\ DOMAIN entr' = (DOMAIN entr \ X) \cup {n}
        /\ \A i \in DOMAIN entr \ X : entr'[i] = entr[i]
    BY <1>1, ConstantsOK, Proved!ChangeRows DEF SInv
  <2> QED
    BY <2>1 DEF RowsStay, Write, Take
<1> QED
  BY <1>2, <1>3

\* So does a removal.
LEMMA ExpungeKeepsTable ==
  ASSUME SInv, NEW t, Expunge(t)
  PROVE  /\ (Proved!TypeOK /\ Proved!LinksOK /\ Proved!Rooted /\ Proved!OneActive)'
         /\ RowsStay
<1>1. PICK X : Proved!Removal(X)
  BY ExpungeIsRemoval
<1>2. (Proved!TypeOK /\ Proved!LinksOK /\ Proved!Rooted /\ Proved!OneActive)'
  BY <1>1, ConstantsOK, Proved!RemovalTypeOK, Proved!RemovalLinksOK,
     Proved!RemovalRooted, Proved!RemovalOneActive DEF SInv
<1>3. RowsStay
  BY <1>1, ConstantsOK, Proved!RemovalRows DEF SInv, RowsStay, Proved!Removal
<1> QED
  BY <1>2, <1>3

-----------------------------------------------------------------------------
(* The transactions. *)

\* A commit ends one transaction; of the others it dooms some requests, and
\* changes nothing else about them.
LEMMA OthersStay ==
  ASSUME TxnsOK, NEW t \in Txns, txn' = AfterCommit(t)
  PROVE  /\ DOMAIN txn' = Txns
         /\ \A u \in Txns : txn'[u].open = FALSE \/ txn'[u].open = TRUE
         /\ \A u \in Requests \cup Jobs : txn'[u].open =>
              /\ u # t /\ txn[u].open
              /\ IsCheck(txn'[u])
              /\ txn'[u].row = txn[u].row /\ txn'[u].del = txn[u].del
              /\ txn'[u].gone = txn[u].gone /\ txn'[u].tree = txn[u].tree
         /\ \A u \in Reapers : txn'[u].open => txn[u].open /\ txn'[u] = txn[u]
<1>1. DOMAIN txn' = Txns
  BY DEF AfterCommit
<1>2. txn'[t] = Idle /\ Idle.open = FALSE
  BY DEF AfterCommit, Idle
<1>3. ASSUME NEW u \in Txns, u # t
      PROVE  \/ txn'[u] = txn[u]
             \/ /\ u \in Requests /\ txn[u].open
                /\ txn'[u] = [txn[u] EXCEPT !.doomed = TRUE]
  BY <1>3 DEF AfterCommit
<1>4. ASSUME NEW u \in Requests, txn[u].open,
             txn'[u] = [txn[u] EXCEPT !.doomed = TRUE]
      PROVE  /\ txn'[u].open = TRUE /\ IsCheck(txn'[u])
             /\ txn'[u].row = txn[u].row /\ txn'[u].del = txn[u].del
             /\ txn'[u].gone = txn[u].gone /\ txn'[u].tree = txn[u].tree
  <2> DEFINE x == txn[u]
             y == [open |-> TRUE, doomed |-> TRUE, tree |-> x.tree,
                   del |-> x.del, gone |-> x.gone, row |-> x.row]
  <2>1. x = [open |-> TRUE, doomed |-> x.doomed, tree |-> x.tree,
             del |-> x.del, gone |-> x.gone, row |-> x.row]
    BY <1>4 DEF TxnsOK, IsCheck
  <2>2. txn'[u] = y
    BY <2>1, <1>4
  <2> QED
    BY <2>2 DEF IsCheck
<1>5. Reapers \cap Requests = {}
  BY ReapersDiffer
<1> QED
  BY <1>1, <1>2, <1>3, <1>4, <1>5 DEF TxnsOK, Txns

\* A row that was ready stays so, as rows do not change.
LEMMA RowStaysReady ==
  ASSUME RowsStay, NEW row, NEW del, RowReady(entr, used, row, del)
  PROVE  RowReady(entr', used', row, del)
BY DEF RowsStay, RowReady

\* What a call that passed its checks is to write is ready.
LEMMA CheckedIsReady ==
  ASSUME SInv, NEW c \in Calls, OK(entr, c)
  PROVE  /\ IsCheck(Checked(c)) /\ Checked(c).open = TRUE
         /\ RowReady(entr, used, Checked(c).row, Checked(c).del)
<1>1. /\ IsCheck(Checked(c)) /\ Checked(c).open = TRUE
      /\ Checked(c).row = NewRow(entr, c)
      /\ Checked(c).del = Superseded(entr, c)
  BY DEF IsCheck, Checked
<1>2. IsTable(entr) /\ DOMAIN entr \subseteq used
  BY DEF SInv, Proved!TypeOK, IsTable, Proved!IsTable, Rows, Proved!Rows,
         Stats, Proved!Stats
<1>3. c.disp \in {"", "a", "r"} /\ c.dfrm \in EntrIds \cup {NoEntr}
  BY DEF Calls
<1>4. MayEdit(entr, c)
  BY <1>3 DEF OK, SubmitOK, ApproveOK, RejectOK
<1>5. c.dfrm = NoEntr \/ (c.dfrm \in DOMAIN entr /\ entr[c.dfrm].stat # "R")
  BY <1>4 DEF MayEdit
<1>6. CASE c.disp = ""
  <2>1. StatFor(c) \in Stats /\ StatFor(c) # "R"
    BY <1>6, StatForIsStat DEF OK, SubmitOK
  <2>2. NewRow(entr, c) = RowFor(entr, c, StatFor(c), c.dfrm, TRUE)
    BY <1>6 DEF NewRow, SubmittedRow
  <2>3. NewRow(entr, c) \in Rows
    BY <1>2, <1>3, <1>5, <2>1, <2>2, RowForIsRow
  <2>4. /\ NewRow(entr, c).stat # "R" /\ NewRow(entr, c).unap = TRUE
        /\ NewRow(entr, c).dfrm = c.dfrm
    BY <2>1, <2>2 DEF RowFor
  <2>5. Superseded(entr, c) = {}
    BY <1>6 DEF Superseded
  <2> QED
    BY <1>1, <1>2, <1>5, <2>3, <2>4, <2>5 DEF RowReady
<1>7. CASE c.disp = "a"
  <2>1. StatFor(c) \in Stats /\ StatFor(c) # "R"
    BY <1>7, StatForIsStat DEF OK, ApproveOK
  <2>2. NewRow(entr, c) = RowFor(entr, c, StatFor(c), NoEntr, FALSE)
    BY <1>7 DEF NewRow, ApprovedRow
  <2>3. NewRow(entr, c) \in Rows
    BY <1>2, <1>5, <2>1, <2>2, RowForIsRow
  <2> QED
    BY <1>1, <2>2, <2>3 DEF RowReady, RowFor
<1>8. CASE c.disp = "r"
  <2>2. NewRow(entr, c) = RowFor(entr, c, "R", NoEntr, FALSE)
    BY <1>8 DEF NewRow, RejectedRow
  <2>3. NewRow(entr, c) \in Rows
    BY <1>2, <1>5, <2>2, RowForIsRow DEF Stats
  <2> QED
    BY <1>1, <2>2, <2>3 DEF RowReady, RowFor
<1> QED
  BY <1>3, <1>6, <1>7, <1>8

-----------------------------------------------------------------------------
(* The shape of the table. *)

\* Nothing is open at first.
LEMMA InitSInv == Init => SInv
<1> SUFFICES ASSUME Init PROVE SInv
  OBVIOUS
<1>1. Proved!Init
  BY DEF Init, Atomic!Init, Proved!Init
<1>2. Proved!TypeOK /\ Proved!LinksOK /\ Proved!Rooted /\ Proved!OneActive
  BY <1>1, ConstantsOK, Proved!InitTypeOK, Proved!InitLinksOK,
     Proved!InitRooted, Proved!InitOneActive
<1>3. TxnsOK
  BY DEF Init, Idle, TxnsOK, Txns
<1> QED
  BY <1>2, <1>3 DEF SInv

\* A transaction that begins has made its checks.
LEMMA BeginSInv ==
  ASSUME SInv, NEW t \in Requests \cup Jobs, NEW c \in Calls, Begin(t, c)
  PROVE  SInv'
<1>1. IsCheck(Checked(c)) /\ RowReady(entr, used, Checked(c).row, Checked(c).del)
      /\ Checked(c).open = TRUE
  BY CheckedIsReady DEF Begin
<1>2. TxnsOK'
  <2>1. t \notin Reapers /\ t \in Txns
    BY ReapersDiffer DEF Txns
  <2>2. txn' = [txn EXCEPT ![t] = Checked(c)] /\ entr' = entr /\ used' = used
    BY DEF Begin
  <2> QED
    BY <1>1, <2>1, <2>2 DEF SInv, TxnsOK, Txns
<1> QED
  BY <1>2 DEF SInv, Begin, Proved!TypeOK, Proved!LinksOK, Proved!Rooted,
              Proved!OneActive, Proved!IsTable

\* Nor does a transaction that ends without a trace change the table, or one
\* of the reaper that looks for entries.
LEMMA QuietSInv ==
  ASSUME SInv, NEW t \in Txns, UNCHANGED <<entr, used>>,
         \/ txn' = [txn EXCEPT ![t] = Idle]
         \/ /\ t \in Reapers
            /\ \E S : txn' = [txn EXCEPT ![t] = [open |-> TRUE, del |-> S]]
  PROVE  SInv'
<1>1. TxnsOK'
  <2>1. Idle.open = FALSE
    BY DEF Idle
  <2>2. CASE txn' = [txn EXCEPT ![t] = Idle]
    BY <2>1, <2>2 DEF SInv, TxnsOK, Txns
  <2>3. ASSUME t \in Reapers, NEW S,
               txn' = [txn EXCEPT ![t] = [open |-> TRUE, del |-> S]]
        PROVE  TxnsOK'
    <3>1. t \notin Requests \cup Jobs
      BY <2>3, ReapersDiffer
    <3> QED
      BY <2>3, <3>1 DEF SInv, TxnsOK, Txns, IsFind
  <2> QED
    BY <2>2, <2>3
<1> QED
  BY <1>1 DEF SInv, Proved!TypeOK, Proved!LinksOK, Proved!Rooted,
              Proved!OneActive, Proved!IsTable

\* A commit leaves the other transactions ready.
LEMMA CommitSInv ==
  ASSUME SInv, NEW t \in Txns, txn' = AfterCommit(t), RowsStay,
         (Proved!TypeOK /\ Proved!LinksOK /\ Proved!Rooted /\ Proved!OneActive)'
  PROVE  SInv'
<1>1. TxnsOK'
  BY OthersStay, RowStaysReady DEF SInv, TxnsOK, IsFind, Txns
<1> QED
  BY <1>1 DEF SInv

\* The invariant is inductive.
LEMMA StepSInv == SInv /\ [Next]_vars => SInv'
<1> SUFFICES ASSUME SInv, [Next]_vars PROVE SInv'
  OBVIOUS
<1>1. ASSUME NEW t \in Requests \cup Jobs, NEW c \in Calls, Begin(t, c)
      PROVE  SInv'
  BY <1>1, BeginSInv
<1>2. ASSUME NEW t \in Txns, Rollback(t)
      PROVE  SInv'
  BY <1>2, QuietSInv DEF Rollback
<1>3. ASSUME NEW t \in Requests \cup Jobs, txn[t].open, NEW n \in EntrIds, Write(t, n)
      PROVE  SInv'
  BY <1>3, WriteKeepsTable, CommitSInv DEF Write, Txns
<1>4. ASSUME NEW t \in Reapers, NEW S, Find(t, S)
      PROVE  SInv'
  BY <1>4, QuietSInv DEF Find, Txns
<1>5. ASSUME NEW t \in Reapers, Expunge(t)
      PROVE  SInv'
  BY <1>5, ExpungeKeepsTable, CommitSInv DEF Expunge, Txns
<1>6. CASE UNCHANGED vars
  BY <1>6 DEF vars, SInv, TxnsOK, Proved!TypeOK, Proved!LinksOK, Proved!Rooted,
              Proved!OneActive, Proved!IsTable
<1> QED
  BY <1>1, <1>2, <1>3, <1>4, <1>5, <1>6 DEF Next, CommitRequest, CommitJob

\* The shape of the edit trees survives any mix of requests, of jobs and of
\* reapers that work on what they read in an earlier statement.
THEOREM ShapeSurvives == Spec => []ShapeKept
<1>1. SInv => ShapeKept
  BY DEF SInv, ShapeKept, Proved!LinksOK, Atomic!LinksOK, Proved!OneActive,
         Atomic!OneActive, Proved!Rooted, Atomic!Rooted, Proved!IsForest,
         Atomic!IsForest, Proved!Descendants, Atomic!Descendants
<1> QED
  BY <1>1, InitSInv, StepSInv, PTL DEF Spec

-----------------------------------------------------------------------------
(* Requests alone.  What an open request has read and is about to do is    *)
(* what a call would do now, unless it is doomed: another request that has *)
(* since been committed either worked on another edit tree, so that this   *)
(* one is as it was, or has doomed it.  So a commit is a call.             *)

IsCurrent(T, x) ==
  \E c \in Calls :
    /\ c.forks => AllowForks
    /\ OK(T, c)
    /\ x.tree = Tree(T, c)
    /\ x.del = Superseded(T, c)
    /\ x.row = NewRow(T, c)

\* The invariant that the refinement needs.
RInv ==
  /\ SInv /\ Proved!HistoryChain /\ Proved!Bounded
  /\ \A t \in Requests : txn[t].open /\ ~txn[t].doomed => IsCurrent(entr, txn[t])

\* A call has something to remove if it is a rejection.
LEMMA RejectHasFirst ==
  ASSUME RInv, NEW c \in Calls, RejectOK(entr, c)
  PROVE  LET f == First(entr, RejectSet(entr, c.dfrm)) IN
         /\ c.dfrm \in DOMAIN entr /\ f \in DOMAIN entr
         /\ f \in RejectSet(entr, c.dfrm)
         /\ entr[f].dfrm \notin RejectSet(entr, c.dfrm)
<1>1. Proved!RejectOK(entr, c)
  BY DEF RejectOK, Proved!RejectOK, MayEdit, Proved!MayEdit, HasEdits,
         Proved!HasEdits
<1>2. Proved!IInv
  BY DEF RInv, SInv, Proved!IInv
<1>3. c \in Proved!Calls
  BY DEF Calls, Proved!Calls, Stats, Proved!Stats
<1>4. Proved!RejectSet(entr, c.dfrm) = RejectSet(entr, c.dfrm)
  BY DEF RejectSet, Proved!RejectSet, Segment, Proved!Segment, Leaves,
         Proved!Leaves, HasEdits, Proved!HasEdits, Descendants,
         Proved!Descendants
<1>5. Proved!First(entr, RejectSet(entr, c.dfrm)) = First(entr, RejectSet(entr, c.dfrm))
  BY DEF First, Proved!First
<1> QED
  BY <1>1, <1>2, <1>3, <1>4, <1>5, ConstantsOK, Proved!FirstIsOnBranch

\* A forest is a forest, whichever module says so.
LEMMA SameForest ==
  ASSUME NEW T
  PROVE  Proved!IsForest(T) <=> IsForest(T)
BY DEF Proved!IsForest, IsForest, Proved!Descendants, Descendants

\* A call does the same in two tables that have its edit tree in common.
LEMMA SameCall ==
  ASSUME NEW T, NEW U, NEW D, SameTree(T, U, D), IsForest(T), IsForest(U),
         NEW c \in Calls, c.dfrm \in D, OK(T, c),
         RejectOK(T, c) =>
           \E f \in RejectSet(T, c.dfrm) : T[f].dfrm \notin RejectSet(T, c.dfrm)
  PROVE  /\ OK(U, c)
         /\ Tree(U, c) = Tree(T, c)
         /\ Superseded(U, c) = Superseded(T, c)
         /\ NewRow(U, c) = NewRow(T, c)
<1> DEFINE d == c.dfrm
<1>1. d \in DOMAIN T /\ d \in DOMAIN U /\ T[d] = U[d] /\ d # NoEntr
  BY DEF SameTree, IsTreeIn
<1>2. /\ HasEdits(T, d) <=> HasEdits(U, d)
      /\ Root(T, d) = Root(U, d) /\ Root(T, d) \in D
  BY SameLeaves, SameRoot
<1>3. Leaves(T, Root(T, d)) = Leaves(U, Root(U, d))
  BY <1>2, SameLeaves
<1>4. c.disp \in {"", "a", "r"}
  BY DEF Calls
<1>5. Tree(U, c) = Tree(T, c)
  BY <1>2 DEF Tree
<1>6. \A stat, p, u : RowFor(U, c, stat, p, u) = RowFor(T, c, stat, p, u)
  BY <1>1 DEF RowFor, KeyOf, History
<1>7. NewRow(U, c) = NewRow(T, c)
  BY <1>4, <1>6 DEF NewRow, SubmittedRow, ApprovedRow, RejectedRow
<1>8. MayEdit(T, c) => MayEdit(U, c)
  BY <1>1, <1>2 DEF MayEdit
<1>9. CASE c.disp = ""
  <2>1. OK(U, c)
    BY <1>8, <1>9 DEF OK, SubmitOK
  <2>2. Superseded(U, c) = Superseded(T, c)
    BY <1>9 DEF Superseded
  <2> QED
    BY <1>5, <1>7, <2>1, <2>2
<1>10. CASE c.disp = "a"
  <2>1. OK(U, c)
    BY <1>3, <1>8, <1>10 DEF OK, ApproveOK, IsOnlyLeaf
  <2>2. Superseded(U, c) = Superseded(T, c)
    BY <1>2, <1>10 DEF Superseded
  <2> QED
    BY <1>5, <1>7, <2>1, <2>2
<1>11. CASE c.disp = "r"
  <2>1. OK(U, c)
    BY <1>1, <1>2, <1>8, <1>11 DEF OK, RejectOK
  <2>2. RejectOK(T, c)
    BY <1>11 DEF OK
  <2>3. First(T, RejectSet(T, d)) = First(U, RejectSet(U, d))
    BY <2>2, SameFirst
  <2>4. Superseded(U, c) = Superseded(T, c)
    BY <1>11, <2>3 DEF Superseded
  <2> QED
    BY <1>5, <1>7, <2>1, <2>4
<1> QED
  BY <1>4, <1>9, <1>10, <1>11

\* A call for a new entry does the same in all tables.
LEMMA SameNewCall ==
  ASSUME NEW T, NEW U, NEW c \in Calls, c.dfrm = NoEntr, OK(T, c)
  PROVE  /\ OK(U, c)
         /\ Tree(U, c) = Tree(T, c)
         /\ Superseded(U, c) = Superseded(T, c)
         /\ NewRow(U, c) = NewRow(T, c)
<1>1. c.disp \in {"", "a"}
  BY DEF OK, RejectOK, Calls
<1>2. \A stat, p, u : RowFor(U, c, stat, p, u) = RowFor(T, c, stat, p, u)
  BY DEF RowFor, KeyOf, History
<1>3. NewRow(U, c) = NewRow(T, c)
  BY <1>1, <1>2 DEF NewRow, SubmittedRow, ApprovedRow
<1>4. Superseded(U, c) = Superseded(T, c)
  BY <1>1 DEF Superseded
<1>5. OK(U, c)
  BY <1>1 DEF OK, SubmitOK, ApproveOK, MayEdit
<1> QED
  BY <1>3, <1>4, <1>5 DEF Tree

\* What a call removes and what it hangs its row from are of its edit tree.
LEMMA CallStaysInTree ==
  ASSUME RInv, NEW c \in Calls, OK(entr, c),
         NEW X, X = Cascade(entr, Superseded(entr, c))
  PROVE  IF c.dfrm = NoEntr
         THEN X = {} /\ NewRow(entr, c).dfrm = NoEntr
         ELSE /\ c.dfrm \in DOMAIN entr
              /\ X \subseteq Descendants(entr, Root(entr, c.dfrm))
              /\ NewRow(entr, c).dfrm \in {NoEntr, c.dfrm}
<1> DEFINE d == c.dfrm
<1>1. c.disp \in {"", "a", "r"}
  BY DEF Calls
<1>2. NewRow(entr, c).dfrm \in {NoEntr, d}
  BY <1>1 DEF NewRow, SubmittedRow, ApprovedRow, RejectedRow, RowFor
<1>3. CASE d = NoEntr
  <2>1. c.disp # "r"
    BY <1>3 DEF OK, RejectOK
  <2>2. Superseded(entr, c) = {}
    BY <1>3, <2>1 DEF Superseded
  <2> QED
    BY <1>2, <1>3, <2>2, CascadeOfNothing
<1>4. CASE d # NoEntr
  <2>1. d \in DOMAIN entr
    BY <1>1, <1>4 DEF OK, SubmitOK, ApproveOK, RejectOK, MayEdit
  <2> DEFINE r == Root(entr, d)
             D == Descendants(entr, r)
  <2>2. /\ IsForest(entr) /\ NoEntr \notin DOMAIN entr
    BY SameForest, NoEntrIsNoId
      DEF RInv, SInv, Proved!Rooted, Proved!TypeOK, Proved!IsTable
  <2>3. /\ r \in DOMAIN entr /\ entr[r].dfrm = NoEntr /\ d \in D
    BY <2>1, <2>2, RootOf
  <2>4. \A a \in Superseded(entr, c) : a \in D
    <3>1. CASE c.disp = ""
      BY <3>1 DEF Superseded
    <3>2. CASE c.disp = "a"
      <4>1. Superseded(entr, c) = {r}
        BY <1>4, <3>2 DEF Superseded
      <4> QED
        BY <4>1, DescendantsOf
    <3>3. CASE c.disp = "r"
      <4> DEFINE f == First(entr, RejectSet(entr, d))
      <4>1. Superseded(entr, c) = {f} /\ RejectOK(entr, c)
        BY <3>3 DEF Superseded, OK
      <4>2. f \in RejectSet(entr, d)
        BY <4>1, RejectHasFirst
      <4>3. d \in Descendants(entr, f)
        BY <4>2 DEF RejectSet, Segment, Leaves
      <4>4. IsTreeIn(entr, D) /\ NoEntr \notin D
        BY <2>2, <2>3, RootsTree DEF IsTreeIn
      <4>5. f \in D
        BY <2>3, <4>3, <4>4, AncestorsInTree
      <4> QED
        BY <4>1, <4>5
    <3> QED
      BY <1>1, <3>1, <3>2, <3>3
  <2>5. X \subseteq D
    BY <2>4, DescendantsTrans DEF Cascade
  <2> QED
    BY <1>2, <1>4, <2>1, <2>5
<1> QED
  BY <1>3, <1>4

\* A request that is not doomed by a commit works on another edit tree.
LEMMA NotDoomed ==
  ASSUME TxnsOK, NEW t \in Requests, txn' = AfterCommit(t),
         NEW u \in Requests, txn'[u].open, ~txn'[u].doomed
  PROVE  /\ u # t /\ txn[u].open /\ txn'[u] = txn[u]
         /\ txn[t].tree = NoEntr \/ txn[t].tree # txn[u].tree
<1>1. u \in Txns /\ t \in Txns
  BY DEF Txns
<1>2. u # t /\ txn[u].open
  BY <1>1, OthersStay
<1>3. ASSUME Conflicts(t, u)
      PROVE  FALSE
  <2> DEFINE x == txn[u]
             y == [open |-> TRUE, doomed |-> TRUE, tree |-> x.tree,
                   del |-> x.del, gone |-> x.gone, row |-> x.row]
  <2>1. x = [open |-> TRUE, doomed |-> x.doomed, tree |-> x.tree,
             del |-> x.del, gone |-> x.gone, row |-> x.row]
    BY <1>2 DEF TxnsOK, IsCheck
  <2>2. txn'[u] = [x EXCEPT !.doomed = TRUE]
    BY <1>1, <1>2, <1>3 DEF AfterCommit
  <2>3. txn'[u] = y
    BY <2>1, <2>2
  <2> QED
    BY <2>3
<1>4. txn'[u] = txn[u]
  BY <1>1, <1>2, <1>3 DEF AfterCommit
<1> QED
  BY <1>2, <1>3, <1>4 DEF Conflicts

\* The commit of one call leaves the tree of another as it was.
LEMMA OtherTreeStays ==
  ASSUME RInv, IsForest(entr'),
         NEW b \in Calls, OK(entr, b),
         NEW n \in EntrIds, n \notin used,
         entr' = InsertRow(Without(entr, Cascade(entr, Superseded(entr, b))), n,
                           NewRow(entr, b)),
         entr'[n].dfrm = NewRow(entr, b).dfrm,
         NEW d \in DOMAIN entr, b.dfrm = NoEntr \/ Root(entr, b.dfrm) # Root(entr, d)
  PROVE  SameTree(entr, entr', Descendants(entr, Root(entr, d)))
<1> DEFINE r == Root(entr, d)
           D == Descendants(entr, r)
           X == Cascade(entr, Superseded(entr, b))
           row == NewRow(entr, b)
<1>1. IsForest(entr) /\ NoEntr \notin DOMAIN entr /\ n \notin DOMAIN entr
  BY SameForest, NoEntrIsNoId
      DEF RInv, SInv, Proved!Rooted, Proved!TypeOK, Proved!IsTable
<1>2. r \in DOMAIN entr /\ entr[r].dfrm = NoEntr
  BY <1>1, RootOf
<1>3. IsTreeIn(entr, D) /\ D \subseteq DOMAIN entr
  BY <1>2, RootsTree DEF IsTreeIn
<1>4. X \cap D = {} /\ row.dfrm \notin D
  <2>1. CASE b.dfrm = NoEntr
    BY <2>1, <1>1, <1>3, CallStaysInTree
  <2>2. CASE b.dfrm # NoEntr
    <3> DEFINE q == Root(entr, b.dfrm)
    <3>1. /\ b.dfrm \in DOMAIN entr
          /\ X \subseteq Descendants(entr, q)
          /\ row.dfrm \in {NoEntr, b.dfrm}
      BY <2>2, CallStaysInTree
    <3>2. /\ q \in DOMAIN entr /\ entr[q].dfrm = NoEntr
          /\ b.dfrm \in Descendants(entr, q)
      BY <1>1, <3>1, RootOf
    <3>3. ASSUME NEW x \in D, x \in Descendants(entr, q)
          PROVE  FALSE
      <4>1. x \in DOMAIN entr
        BY <1>3
      <4>2. q = Root(entr, x) /\ r = Root(entr, x)
        BY <1>1, <1>2, <3>2, <3>3, <4>1, RootOf
      <4> QED
        BY <2>2, <4>2
    <3> QED
      BY <1>1, <1>3, <3>1, <3>2, <3>3
  <2> QED
    BY <2>1, <2>2
<1>5. /\ DOMAIN entr' = (DOMAIN entr \ X) \cup {n}
      /\ \A i \in DOMAIN entr \ X : entr'[i] = entr[i]
  BY <1>1 DEF InsertRow, Without
<1> HIDE DEF X, row
<1>6. IsTreeIn(entr', D)
  <2>1. D \subseteq DOMAIN entr' /\ \A i \in D : entr'[i] = entr[i]
    BY <1>3, <1>4, <1>5
  <2>2. ClosedIn(entr', D)
    <3> SUFFICES ASSUME NEW c \in DOMAIN entr', entr'[c].dfrm # NoEntr,
                        entr'[c].dfrm \in D
                 PROVE  c \in D
      BY DEF ClosedIn
    <3>1. c # n
      BY <1>4 DEF row
    <3>2. c \in DOMAIN entr /\ entr'[c] = entr[c]
      BY <1>5, <3>1
    <3> QED
      BY <1>3, <3>2 DEF IsTreeIn, ClosedIn
  <2> QED
    BY <1>3, <2>1, <2>2 DEF IsTreeIn
<1> QED
  BY <1>1, <1>3, <1>4, <1>5, <1>6 DEF SameTree

\* What a commit makes of the table.
LEMMA CommitWrites ==
  ASSUME RInv, NEW t \in Requests, NEW n \in EntrIds, CommitRequest(t, n)
  PROVE  \E b \in Calls :
           /\ b.forks => AllowForks
           /\ OK(entr, b)
           /\ txn[t].tree = Tree(entr, b)
           /\ n \notin used /\ used' = used \cup {n}
           /\ entr' = InsertRow(Without(entr, Cascade(entr, Superseded(entr, b))),
                                n, NewRow(entr, b))
           /\ Fits(Without(entr, Cascade(entr, Superseded(entr, b))),
                   NewRow(entr, b))
           /\ entr'[n].dfrm = NewRow(entr, b).dfrm
<1>1. PICK b \in Calls :
        /\ b.forks => AllowForks
        /\ OK(entr, b)
        /\ txn[t].tree = Tree(entr, b)
        /\ txn[t].del = Superseded(entr, b)
        /\ txn[t].row = NewRow(entr, b)
  BY DEF RInv, CommitRequest, IsCurrent
<1>2. Remaining(t) = Without(entr, Cascade(entr, Superseded(entr, b)))
  BY <1>1 DEF Remaining, Without
<1>3. /\ n \notin used /\ used' = used \cup {n}
      /\ entr' = InsertRow(Remaining(t), n, NewRow(entr, b))
      /\ Fits(Remaining(t), NewRow(entr, b))
  BY <1>1 DEF CommitRequest, Write, Take, ConstraintsOK
<1>4. NewRow(entr, b) \in Rows
  BY <1>1 DEF RInv, SInv, TxnsOK, CommitRequest, RowReady
<1>5. entr'[n].dfrm = NewRow(entr, b).dfrm
  BY <1>3, <1>4 DEF InsertRow, Rows
<1> QED
  BY <1>1, <1>2, <1>3, <1>5

\* A commit leaves what it does not doom as it would be checked now.
LEMMA CommitKeepsCurrent ==
  ASSUME RInv, SInv', NEW t \in Requests, NEW n \in EntrIds, CommitRequest(t, n),
         NEW u \in Requests, txn'[u].open, ~txn'[u].doomed
  PROVE  IsCurrent(entr', txn'[u])
<1>1. /\ txn[u].open /\ ~txn[u].doomed /\ txn'[u] = txn[u]
      /\ txn[t].tree = NoEntr \/ txn[t].tree # txn[u].tree
  BY NotDoomed DEF RInv, SInv, CommitRequest, Write
<1>2. PICK b \in Calls :
        /\ OK(entr, b)
        /\ txn[t].tree = Tree(entr, b)
        /\ n \notin used
        /\ entr' = InsertRow(Without(entr, Cascade(entr, Superseded(entr, b))),
                             n, NewRow(entr, b))
        /\ entr'[n].dfrm = NewRow(entr, b).dfrm
  BY CommitWrites
<1>3. PICK c \in Calls :
        /\ c.forks => AllowForks
        /\ OK(entr, c)
        /\ txn[u].tree = Tree(entr, c)
        /\ txn[u].del = Superseded(entr, c)
        /\ txn[u].row = NewRow(entr, c)
  BY <1>1 DEF RInv, IsCurrent
<1>4. IsForest(entr) /\ IsForest(entr') /\ NoEntr \notin DOMAIN entr
  BY SameForest, NoEntrIsNoId
      DEF RInv, SInv, Proved!Rooted, Proved!TypeOK, Proved!IsTable
<1>5. CASE c.dfrm = NoEntr
  BY <1>1, <1>3, <1>5, SameNewCall DEF IsCurrent
<1>6. CASE c.dfrm # NoEntr
  <2> DEFINE D == Descendants(entr, Root(entr, c.dfrm))
  <2>1. c.dfrm \in DOMAIN entr
    BY <1>3, <1>6, CallStaysInTree
  <2>2. c.dfrm \in D
    BY <1>4, <2>1, RootOf
  <2>3. b.dfrm = NoEntr \/ Root(entr, b.dfrm) # Root(entr, c.dfrm)
    <3>1. b.dfrm # NoEntr => b.dfrm \in DOMAIN entr
      BY <1>2, CallStaysInTree
    <3>2. b.dfrm # NoEntr => Root(entr, b.dfrm) # NoEntr
      BY <1>4, <3>1, RootOf
    <3> QED
      BY <1>1, <1>2, <1>3, <1>6, <3>2 DEF Tree
  <2>4. SameTree(entr, entr', D)
    BY <1>2, <1>4, <2>1, <2>3, OtherTreeStays
  <2>5. RejectOK(entr, c) =>
          \E f \in RejectSet(entr, c.dfrm) :
            entr[f].dfrm \notin RejectSet(entr, c.dfrm)
    BY RejectHasFirst
  <2>6. /\ OK(entr', c) /\ Tree(entr', c) = Tree(entr, c)
        /\ Superseded(entr', c) = Superseded(entr, c)
        /\ NewRow(entr', c) = NewRow(entr, c)
    <3> HIDE DEF D
    <3> QED
      BY <1>3, <1>4, <2>2, <2>4, <2>5, SameCall
  <2> QED
    BY <1>1, <1>3, <2>6 DEF IsCurrent
<1> QED
  BY <1>5, <1>6

-----------------------------------------------------------------------------
(* A commit is a call. *)

\* Deleting nothing, and deleting one entry with its edits.
LEMMA CascadeOfOne ==
  ASSUME NEW T, IsTable(T)
  PROVE  /\ Without(T, Cascade(T, {})) = T
         /\ \A e \in DOMAIN T : Without(T, Cascade(T, {e})) = DeleteRow(T, e)
<1>1. Without(T, Cascade(T, {})) = T
  BY WithoutNothing, CascadeOfNothing
<1>2. \A e \in DOMAIN T : Cascade(T, {e}) = Descendants(T, e)
  BY DEF Cascade
<1> QED
  BY <1>1, <1>2 DEF DeleteRow, Without

\* The table that a commit leaves is the one that the call leaves.
LEMMA CommitIsCall ==
  ASSUME RInv, NEW t \in Requests, NEW n \in EntrIds, CommitRequest(t, n)
  PROVE  \E c \in Calls :
           /\ c.forks => AllowForks
           /\ n \notin used /\ used' = used \cup {n}
           /\ \/ /\ c.disp = "" /\ SubmitOK(entr, c)
                 /\ entr' = Submitted(entr, c, n)
              \/ /\ c.disp = "a" /\ ApproveOK(entr, c)
                 /\ Fits(WithoutTree(entr, c.dfrm), ApprovedRow(entr, c))
                 /\ entr' = Approved(entr, c, n)
              \/ /\ c.disp = "r" /\ RejectOK(entr, c)
                 /\ entr' = Rejected(entr, c, n)
<1>1. PICK c \in Calls :
        /\ c.forks => AllowForks
        /\ OK(entr, c)
        /\ n \notin used /\ used' = used \cup {n}
        /\ entr' = InsertRow(Without(entr, Cascade(entr, Superseded(entr, c))),
                             n, NewRow(entr, c))
        /\ Fits(Without(entr, Cascade(entr, Superseded(entr, c))),
                NewRow(entr, c))
  BY CommitWrites
<1> DEFINE d == c.dfrm
           T == Without(entr, Cascade(entr, Superseded(entr, c)))
<1>2. IsTable(entr) /\ IsForest(entr)
  BY SameForest DEF RInv, SInv, Proved!Rooted, Proved!TypeOK, IsTable,
     Proved!IsTable, Rows, Proved!Rows, Stats, Proved!Stats
<1>3. c.disp \in {"", "a", "r"}
  BY DEF Calls
<1>4. CASE c.disp = ""
  <2>1. Superseded(entr, c) = {} /\ NewRow(entr, c) = SubmittedRow(entr, c)
    BY <1>4 DEF Superseded, NewRow
  <2>2. T = entr
    BY <1>2, <2>1, CascadeOfOne
  <2>3. SubmitOK(entr, c)
    BY <1>1, <1>4 DEF OK
  <2> QED
    BY <1>1, <1>4, <2>1, <2>2, <2>3 DEF Submitted
<1>5. CASE c.disp = "a"
  <2>1. NewRow(entr, c) = ApprovedRow(entr, c)
    BY <1>5 DEF NewRow
  <2>2. ApproveOK(entr, c)
    BY <1>1, <1>5 DEF OK
  <2>3. T = WithoutTree(entr, d)
    <3>1. CASE d = NoEntr
      <4>1. Superseded(entr, c) = {}
        BY <1>5, <3>1 DEF Superseded
      <4> QED
        BY <1>2, <3>1, <4>1, CascadeOfOne DEF WithoutTree
    <3>2. CASE d # NoEntr
      <4>1. Superseded(entr, c) = {Root(entr, d)}
        BY <1>5, <3>2 DEF Superseded
      <4>2. d \in DOMAIN entr
        BY <2>2, <3>2 DEF ApproveOK, MayEdit
      <4>3. Root(entr, d) \in DOMAIN entr
        BY <1>2, <4>2, RootOf
      <4> QED
        BY <1>2, <3>2, <4>1, <4>3, CascadeOfOne DEF WithoutTree
    <3> QED
      BY <3>1, <3>2
  <2> HIDE DEF T
  <2>4. /\ entr' = Approved(entr, c, n)
        /\ Fits(WithoutTree(entr, d), ApprovedRow(entr, c))
    BY <1>1, <2>1, <2>3 DEF Approved, T
  <2> QED
    BY <1>1, <1>5, <2>2, <2>4
<1>6. CASE c.disp = "r"
  <2> DEFINE f == First(entr, RejectSet(entr, d))
  <2>1. Superseded(entr, c) = {f} /\ NewRow(entr, c) = RejectedRow(entr, c)
    BY <1>6 DEF Superseded, NewRow
  <2>2. RejectOK(entr, c)
    BY <1>1, <1>6 DEF OK
  <2>3. f \in DOMAIN entr
    BY <2>2, RejectHasFirst
  <2> HIDE DEF f
  <2>4. T = DeleteRow(entr, f)
    BY <1>2, <2>1, <2>3, CascadeOfOne
  <2> HIDE DEF T
  <2>5. entr' = Rejected(entr, c, n)
    BY <1>1, <2>1, <2>4 DEF Rejected, T, f
  <2> QED
    BY <1>1, <1>6, <2>2, <2>5
<1> QED
  BY <1>3, <1>4, <1>5, <1>6

\* In the terms of the lemmas about EditTree.
LEMMA CommitIsStep ==
  ASSUME RInv, NEW t \in Requests, NEW n \in EntrIds, CommitRequest(t, n)
  PROVE  Proved!Next
<1>1. PICK c \in Calls :
        /\ c.forks => AllowForks
        /\ n \notin used /\ used' = used \cup {n}
        /\ \/ /\ c.disp = "" /\ SubmitOK(entr, c)
              /\ entr' = Submitted(entr, c, n)
           \/ /\ c.disp = "a" /\ ApproveOK(entr, c)
              /\ Fits(WithoutTree(entr, c.dfrm), ApprovedRow(entr, c))
              /\ entr' = Approved(entr, c, n)
           \/ /\ c.disp = "r" /\ RejectOK(entr, c)
              /\ entr' = Rejected(entr, c, n)
  BY CommitIsCall
<1>2. Proved!Take(n) /\ c \in Proved!Calls
  BY <1>1 DEF Proved!Take, Calls, Proved!Calls, Stats, Proved!Stats
<1>3. CASE c.disp = "" /\ SubmitOK(entr, c) /\ entr' = Submitted(entr, c, n)
  <2>1. Proved!Submit(c, n)
    BY <1>2, <1>3
      DEF Proved!Submit, SubmitOK, Proved!SubmitOK, MayEdit, Proved!MayEdit,
          HasEdits, Proved!HasEdits, StatFor, Proved!StatFor, Submitted,
          Proved!Submitted, InsertRow, Proved!InsertRow, SubmittedRow,
          Proved!SubmittedRow, RowFor, Proved!RowFor, KeyOf, Proved!KeyOf,
          History, Proved!History
  <2> QED
    BY <1>1, <1>2, <2>1 DEF Proved!Next
<1>4. CASE /\ c.disp = "a" /\ ApproveOK(entr, c)
           /\ Fits(WithoutTree(entr, c.dfrm), ApprovedRow(entr, c))
           /\ entr' = Approved(entr, c, n)
  <2>1. Proved!Approve(c, n)
    BY <1>2, <1>4
      DEF Proved!Approve, ApproveOK, Proved!ApproveOK, MayEdit,
          Proved!MayEdit, HasEdits, Proved!HasEdits, StatFor, Proved!StatFor,
          Approved, Proved!Approved, InsertRow, Proved!InsertRow, ApprovedRow,
          Proved!ApprovedRow, RowFor, Proved!RowFor, KeyOf, Proved!KeyOf,
          History, Proved!History, WithoutTree, Proved!WithoutTree,
          DeleteRow, Proved!DeleteRow, Root, Proved!Root, Descendants,
          Proved!Descendants, Leaves, Proved!Leaves, IsOnlyLeaf,
          Proved!IsOnlyLeaf, Fits, Proved!Fits, KeyIsFree, Proved!KeyIsFree
  <2> QED
    BY <1>1, <1>2, <2>1 DEF Proved!Next
<1>5. CASE c.disp = "r" /\ RejectOK(entr, c) /\ entr' = Rejected(entr, c, n)
  <2>1. Proved!Reject(c, n)
    BY <1>2, <1>5
      DEF Proved!Reject, RejectOK, Proved!RejectOK, MayEdit, Proved!MayEdit,
          HasEdits, Proved!HasEdits, Rejected, Proved!Rejected, InsertRow,
          Proved!InsertRow, RejectedRow, Proved!RejectedRow, RowFor,
          Proved!RowFor, KeyOf, Proved!KeyOf, History, Proved!History,
          DeleteRow, Proved!DeleteRow, Descendants, Proved!Descendants,
          Leaves, Proved!Leaves, First, Proved!First, RejectSet,
          Proved!RejectSet, Segment, Proved!Segment
  <2> QED
    BY <1>1, <1>2, <2>1 DEF Proved!Next
<1> QED
  BY <1>1, <1>3, <1>4, <1>5

\* A request that begins has read what is there.
LEMMA BeginIsCurrent ==
  ASSUME NEW c \in Calls, c.forks => AllowForks, OK(entr, c)
  PROVE  IsCurrent(entr, Checked(c))
BY DEF IsCurrent, Checked

\* A step of EditTxn without jobs and reapers is a commit, or the table stays
\* and each request is as it was, has ended, or has just made its checks.
LEMMA RequestsOnly ==
  ASSUME Jobs = {}, Reapers = {}, Next
  PROVE  \/ \E t \in Requests, n \in EntrIds : CommitRequest(t, n)
         \/ /\ UNCHANGED <<entr, used>>
            /\ \E t \in Requests :
                 \/ txn' = [txn EXCEPT ![t] = Idle]
                 \/ \E c \in Calls : /\ c.forks => AllowForks
                                     /\ OK(entr, c)
                                     /\ txn' = [txn EXCEPT ![t] = Checked(c)]
BY DEF Next, CommitJob, Begin, Rollback, Find, Expunge, Txns

\* What the requests do to the table is what EditTree does.
LEMMA StepIsStep ==
  ASSUME Jobs = {}, Reapers = {}, RInv, [Next]_vars
  PROVE  [Proved!Next]_(Proved!vars)
<1>1. CASE UNCHANGED vars
  BY <1>1 DEF vars, Proved!vars
<1>2. CASE Next
  BY <1>2, RequestsOnly, CommitIsStep DEF Proved!vars
<1> QED
  BY <1>1, <1>2

\* The invariant is inductive.
LEMMA StepRInv ==
  ASSUME Jobs = {}, Reapers = {}, RInv, [Next]_vars
  PROVE  RInv'
<1>1. SInv'
  BY StepSInv DEF RInv
<1>2. (Proved!HistoryChain /\ Proved!Bounded)'
  <2>1. [Proved!Next]_(Proved!vars)
    BY StepIsStep
  <2> QED
    BY <2>1, ConstantsOK, Proved!StepHistoryChain, Proved!StepBounded
      DEF RInv, SInv
<1>3. ASSUME NEW u \in Requests, txn'[u].open, ~txn'[u].doomed
      PROVE  IsCurrent(entr', txn'[u])
  <2>1. \A v \in Requests : txn[v].open /\ ~txn[v].doomed => IsCurrent(entr, txn[v])
    BY DEF RInv
  <2>2. ASSUME NEW t \in Requests, NEW n \in EntrIds, CommitRequest(t, n)
        PROVE  IsCurrent(entr', txn'[u])
    BY <1>1, <1>3, <2>2, CommitKeepsCurrent
  <2>3. ASSUME entr' = entr, NEW t \in Requests, txn' = [txn EXCEPT ![t] = Idle]
        PROVE  IsCurrent(entr', txn'[u])
    <3>1. u # t /\ txn'[u] = txn[u]
      BY <1>3, <2>3 DEF Idle, RInv, SInv, TxnsOK, Txns
    <3> QED
      BY <1>3, <2>1, <2>3, <3>1
  <2>4. ASSUME entr' = entr, NEW t \in Requests, NEW c \in Calls,
               c.forks => AllowForks, OK(entr, c),
               txn' = [txn EXCEPT ![t] = Checked(c)]
        PROVE  IsCurrent(entr', txn'[u])
    <3>1. txn'[u] = Checked(c) \/ txn'[u] = txn[u]
      BY <2>4 DEF RInv, SInv, TxnsOK, Txns
    <3> QED
      BY <1>3, <2>1, <2>4, <3>1, BeginIsCurrent
  <2>5. CASE UNCHANGED vars
    BY <1>3, <2>1, <2>5 DEF vars
  <2>6. CASE Next
    BY <2>2, <2>3, <2>4, <2>6, RequestsOnly
  <2> QED
    BY <2>5, <2>6
<1> QED
  BY <1>1, <1>2, <1>3 DEF RInv

\* At first there is a corpus, and nothing is open.
LEMMA InitRInv == Init => RInv
<1> SUFFICES ASSUME Init PROVE RInv
  OBVIOUS
<1>1. Proved!Init
  BY DEF Init, Atomic!Init, Proved!Init
<1>2. Proved!HistoryChain /\ Proved!Bounded
  BY <1>1, ConstantsOK, Proved!InitHistoryChain, Proved!InitBounded
<1>3. \A t \in Requests : ~txn[t].open
  BY DEF Init, Idle, Txns
<1> QED
  BY <1>2, <1>3, InitSInv DEF RInv

\* A step is a step of the abstract specification.
LEMMA IsAtomicStep ==
  [Proved!Next]_(Proved!vars) => [Atomic!Next]_(Atomic!vars)
<1>1. Proved!Calls = Atomic!Calls
  BY DEF Proved!Calls, Atomic!Calls, Proved!Stats, Atomic!Stats
<1>2. ASSUME NEW c, NEW n, Proved!Submit(c, n)
      PROVE  Atomic!Submit(c, n)
  BY <1>2
    DEF Proved!Submit, Atomic!Submit, Proved!SubmitOK, Atomic!SubmitOK,
        Proved!Take, Atomic!Take, Proved!MayEdit, Atomic!MayEdit,
        Proved!HasEdits, Atomic!HasEdits, Proved!StatFor, Atomic!StatFor,
        Proved!Submitted, Atomic!Submitted, Proved!InsertRow,
        Atomic!InsertRow, Proved!SubmittedRow, Atomic!SubmittedRow,
        Proved!RowFor, Atomic!RowFor, Proved!KeyOf, Atomic!KeyOf,
        Proved!History, Atomic!History
<1>3. ASSUME NEW c, NEW n, Proved!Approve(c, n)
      PROVE  Atomic!Approve(c, n)
  BY <1>3
    DEF Proved!Approve, Atomic!Approve, Proved!ApproveOK, Atomic!ApproveOK,
        Proved!Take, Atomic!Take, Proved!MayEdit, Atomic!MayEdit,
        Proved!HasEdits, Atomic!HasEdits, Proved!StatFor, Atomic!StatFor,
        Proved!Approved, Atomic!Approved, Proved!InsertRow, Atomic!InsertRow,
        Proved!ApprovedRow, Atomic!ApprovedRow, Proved!RowFor, Atomic!RowFor,
        Proved!KeyOf, Atomic!KeyOf, Proved!History, Atomic!History,
        Proved!WithoutTree, Atomic!WithoutTree, Proved!DeleteRow,
        Atomic!DeleteRow, Proved!Root, Atomic!Root, Proved!Descendants,
        Atomic!Descendants, Proved!Leaves, Atomic!Leaves, Proved!IsOnlyLeaf,
        Atomic!IsOnlyLeaf, Proved!Fits, Atomic!Fits, Proved!KeyIsFree,
        Atomic!KeyIsFree
<1>4. ASSUME NEW c, NEW n, Proved!Reject(c, n)
      PROVE  Atomic!Reject(c, n)
  BY <1>4
    DEF Proved!Reject, Atomic!Reject, Proved!RejectOK, Atomic!RejectOK,
        Proved!Take, Atomic!Take, Proved!MayEdit, Atomic!MayEdit,
        Proved!HasEdits, Atomic!HasEdits, Proved!Rejected, Atomic!Rejected,
        Proved!InsertRow, Atomic!InsertRow, Proved!RejectedRow,
        Atomic!RejectedRow, Proved!RowFor, Atomic!RowFor, Proved!KeyOf,
        Atomic!KeyOf, Proved!History, Atomic!History, Proved!DeleteRow,
        Atomic!DeleteRow, Proved!Descendants, Atomic!Descendants,
        Proved!Leaves, Atomic!Leaves, Proved!First, Atomic!First,
        Proved!RejectSet, Atomic!RejectSet, Proved!Segment, Atomic!Segment
<1>5. ASSUME NEW S \in SUBSET Proved!Reapable(entr), Proved!Reap(S)
      PROVE  S \in SUBSET Atomic!Reapable(entr) /\ Atomic!Reap(S)
  BY <1>5 DEF Proved!Reapable, Atomic!Reapable, Proved!Reap, Atomic!Reap,
              Proved!HasEdits, Atomic!HasEdits
<1> QED
  BY <1>1, <1>2, <1>3, <1>4, <1>5
    DEF Proved!Next, Atomic!Next, Proved!vars, Atomic!vars

\* Web requests have the effect of calls of submission() made one after the
\* other, however their checks and their writes are interleaved.
THEOREM Serializable ==
  ASSUME Jobs = {}, Reapers = {}
  PROVE  Spec => ImplementsEditTree
<1>1. Init => Atomic!Init
  BY DEF Init
<1>2. RInv /\ [Next]_vars => [Atomic!Next]_(Atomic!vars)
  BY StepIsStep, IsAtomicStep
<1>3. RInv /\ [Next]_vars => RInv'
  BY StepRInv
<1> QED
  BY <1>1, <1>2, <1>3, InitRInv, PTL DEF Spec, ImplementsEditTree, Atomic!Spec

-----------------------------------------------------------------------------
(* No edit is lost. *)

Tells(h, m) == \E i \in 1 .. Len(h) : h[i] = m

\* What a history tells of an edit, the history that carries it on tells too.
LEMMA PrefixTells ==
  ASSUME NEW g \in Seq(EntrIds), NEW h \in Seq(EntrIds), NEW m,
         Proved!IsHistoryPrefix(g, h), Tells(g, m)
  PROVE  Tells(h, m)
BY DEF Proved!IsHistoryPrefix, Tells

\* A commit writes its own record and removes no other one.
LEMMA CommitKeepsEdits ==
  ASSUME RInv, EditsKept, NEW t \in Requests, NEW n \in EntrIds,
         CommitRequest(t, n), RInv'
  PROVE  EditsKept'
<1> DEFINE Told(T, m) == \E e \in DOMAIN T : Tells(T[e].hist, m)
<1>1. /\ \A e \in DOMAIN entr : entr[e].hist \in Seq(EntrIds)
      /\ \A e \in DOMAIN entr' : entr'[e].hist \in Seq(EntrIds)
  BY DEF RInv, SInv, Proved!TypeOK, Proved!IsTable, Proved!Rows
<1>2. n \notin used /\ used' = used \cup {n}
  BY CommitWrites
<1>3. Told(entr', n)
  <2>1. PICK X : Proved!Change(X, n, txn[t].row)
    BY WriteIsChange DEF CommitRequest, RInv
  <2>2. Proved!TypeOK
    BY DEF RInv, SInv
  <2>3. n \in DOMAIN entr'
    BY DEF CommitRequest, Write, InsertRow
  <2>4. entr'[n].hist = Append(txn[t].row.hist, n)
    BY <2>1, <2>2, ConstantsOK, Proved!ChangeFields
  <2>5. txn[t].row.hist \in Seq(EntrIds)
    BY DEF RInv, SInv, TxnsOK, CommitRequest, RowReady, Rows
  <2> DEFINE g == txn[t].row.hist
  <2> HIDE DEF g
  <2>6. Tells(Append(g, n), n)
    <3>1. /\ Len(Append(g, n)) \in 1 .. Len(Append(g, n))
          /\ Append(g, n)[Len(Append(g, n))] = n
      BY <2>5 DEF g
    <3> QED
      BY <3>1 DEF Tells
  <2> QED
    BY <2>3, <2>4, <2>6 DEF g
<1>4. ASSUME NEW m \in used \ Corpus
      PROVE  Told(entr', m)
  <2>1. PICK e \in DOMAIN entr : Tells(entr[e].hist, m)
    BY <1>4 DEF EditsKept, Tells
  <2>2. CASE e \in DOMAIN entr'
    <3>1. entr'[e] = entr[e]
      BY <2>2, WriteKeepsTable
        DEF RInv, SInv, CommitRequest, RowsStay, Proved!TypeOK
    <3> QED
      BY <2>1, <2>2, <3>1
  <2>3. CASE e \notin DOMAIN entr'
    <3>1. Proved!Kept(e)
      BY <2>3, ConstantsOK, CommitIsStep, Proved!NextKeeps
        DEF RInv, SInv, Proved!IInv
    <3>2. PICK f \in DOMAIN entr' : Proved!IsHistoryPrefix(entr[e].hist, entr'[f].hist)
      BY <1>2, <3>1 DEF Proved!Kept
    <3> QED
      BY <1>1, <2>1, <3>2, PrefixTells
  <2> QED
    BY <2>2, <2>3
<1> QED
  BY <1>2, <1>3, <1>4 DEF EditsKept, Tells

\* No edit that a request has committed is lost.
THEOREM NoEditLost ==
  ASSUME Jobs = {}, Reapers = {}
  PROVE  Spec => []EditsKept
<1>1. Init => RInv /\ EditsKept
  BY InitRInv DEF Init, Atomic!Init, EditsKept
<1>2. RInv /\ EditsKept /\ [Next]_vars => (RInv /\ EditsKept)'
  <2> SUFFICES ASSUME RInv, EditsKept, [Next]_vars
               PROVE  RInv' /\ EditsKept'
    OBVIOUS
  <2>1. RInv'
    BY StepRInv
  <2>2. ASSUME UNCHANGED <<entr, used>>
        PROVE  EditsKept'
    BY <2>2 DEF EditsKept
  <2>3. ASSUME NEW t \in Requests, NEW n \in EntrIds, CommitRequest(t, n)
        PROVE  EditsKept'
    BY <2>1, <2>3, CommitKeepsEdits
  <2>4. CASE UNCHANGED vars
    BY <2>1, <2>2, <2>4 DEF vars
  <2>5. CASE Next
    BY <2>1, <2>2, <2>3, <2>5, RequestsOnly
  <2> QED
    BY <2>4, <2>5
<1> QED
  BY <1>1, <1>2, PTL DEF Spec
=============================================================================
