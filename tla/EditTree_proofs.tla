--------------------------- MODULE EditTree_proofs ---------------------------
(***************************************************************************)
(* What EditTree keeps true, for any number of entries and keys.           *)
(*                                                                         *)
(* All actions change the table in one of two ways: they remove rows       *)
(* together with all their edits, and they may then add one row under a new*)
(* id.  The first lemmas show this action by action; each part of the      *)
(* invariant is then shown to survive a removal and a change.  The lemmas  *)
(* about changes and removals are stated apart from those about actions, as*)
(* other specifications change the table in the same two ways.             *)
(*                                                                         *)
(* They rest on lemmas about edit trees (EntrTable).  The descendants of an*)
(* entry are the smallest set that contains it and is closed under edits;  *)
(* from that follows what adding a row and removing a closed set of rows   *)
(* do to them.                                                             *)
(***************************************************************************)
EXTENDS EditTree, FiniteSetTheorems, WellFoundedInduction, TLAPS

\* S has, with a row, the edits made from it.
ClosedIn(T, S) ==
  \A c \in DOMAIN T : T[c].dfrm # NoEntr /\ T[c].dfrm \in S => c \in S

\* The table without the rows of X.
Without(T, X) == [i \in DOMAIN T \ X |-> T[i]]

-----------------------------------------------------------------------------
(* Descendants. *)

\* An entry is one of its descendants, and the others are rows of the table.
LEMMA DescendantsOf ==
  ASSUME NEW T, NEW e
  PROVE  /\ e \in Descendants(T, e)
         /\ Descendants(T, e) \subseteq {e} \cup DOMAIN T
BY DEF Descendants

\* The descendants of an entry have all the edits made from them.
LEMMA DescendantsClosed ==
  ASSUME NEW T, NEW e
  PROVE  ClosedIn(T, Descendants(T, e))
<1> SUFFICES ASSUME NEW c \in DOMAIN T, T[c].dfrm # NoEntr,
                    T[c].dfrm \in Descendants(T, e)
             PROVE  c \in Descendants(T, e)
  BY DEF ClosedIn
<1> QED
  BY DEF Descendants

\* No smaller set has the entry and is closed under edits.
LEMMA DescendantsLeast ==
  ASSUME NEW T, NEW e, NEW X, e \in X, ClosedIn(T, X)
  PROVE  Descendants(T, e) \subseteq X
<1> DEFINE edits == {c \in DOMAIN T : T[c].dfrm # NoEntr}
<1>1. X \cap edits \in SUBSET edits
  OBVIOUS
<1>2. \A c \in edits : T[c].dfrm \in (X \cap edits) \cup {e} => c \in X \cap edits
  BY DEF ClosedIn
<1> QED
  BY <1>1, <1>2 DEF Descendants

\* Descendants of a descendant are descendants.
LEMMA DescendantsTrans ==
  ASSUME NEW T, NEW e, NEW d \in Descendants(T, e)
  PROVE  Descendants(T, d) \subseteq Descendants(T, e)
BY DescendantsClosed, DescendantsLeast

\* The parent of a descendant is a descendant too.
LEMMA DescendantsParent ==
  ASSUME NEW T, NEW e, NEW c \in Descendants(T, e), c # e
  PROVE  c \in DOMAIN T /\ T[c].dfrm # NoEntr /\ T[c].dfrm \in Descendants(T, e)
<1>1. c \in DOMAIN T /\ T[c].dfrm # NoEntr
  BY DEF Descendants
<1>2. T[c].dfrm \in Descendants(T, e)
  <2> SUFFICES ASSUME T[c].dfrm \notin Descendants(T, e)
               PROVE  FALSE
    OBVIOUS
  <2>1. ClosedIn(T, Descendants(T, e) \ {c})
    BY DescendantsClosed DEF ClosedIn
  <2> QED
    BY <2>1, DescendantsOf, DescendantsLeast
<1> QED
  BY <1>1, <1>2

\* Of two entries on the path to a third, one is on the path to the other.
LEMMA DescendantsChain ==
  ASSUME NEW T, NEW a, NEW f, NEW e \in Descendants(T, a) \cap Descendants(T, f)
  PROVE  a \in Descendants(T, f) \/ f \in Descendants(T, a)
<1> SUFFICES ASSUME a \notin Descendants(T, f), f \notin Descendants(T, a)
             PROVE  FALSE
  OBVIOUS
<1>1. ClosedIn(T, Descendants(T, f) \ Descendants(T, a))
  BY DescendantsClosed, DescendantsParent DEF ClosedIn
<1> QED
  BY <1>1, DescendantsOf, DescendantsLeast

\* Removing rows together with their edits takes them from every tree, and
\* changes nothing else.
LEMMA DescendantsWithout ==
  ASSUME NEW T, NEW X, ClosedIn(T, X), NEW e \in DOMAIN T \ X
  PROVE  Descendants(Without(T, X), e) = Descendants(T, e) \ X
<1> DEFINE U == Without(T, X)
<1>1. DOMAIN U = DOMAIN T \ X /\ \A i \in DOMAIN U : U[i] = T[i]
  BY DEF Without
<1>2. Descendants(U, e) \subseteq Descendants(T, e) \ X
  <2>1. ClosedIn(U, Descendants(T, e) \ X)
    BY <1>1, DescendantsClosed DEF ClosedIn
  <2> QED
    BY <2>1, DescendantsLeast, DescendantsOf
<1>3. Descendants(T, e) \subseteq Descendants(U, e) \cup X
  <2>1. ClosedIn(T, Descendants(U, e) \cup X)
    BY <1>1, DescendantsClosed DEF ClosedIn
  <2> QED
    BY <2>1, DescendantsLeast, DescendantsOf
<1> QED
  BY <1>2, <1>3

\* A new row joins the trees of its parent's ancestors, and starts its own.
LEMMA DescendantsInsert ==
  ASSUME NEW T, NEW n, n \notin DOMAIN T, n # NoEntr,
         \A i \in DOMAIN T : T[i].dfrm # n,
         NEW row \in Rows, row.dfrm # n
  PROVE  LET U == InsertRow(T, n, row) IN
         /\ Descendants(U, n) = {n}
         /\ \A e \in DOMAIN T :
              Descendants(U, e) =
                IF row.dfrm # NoEntr /\ row.dfrm \in Descendants(T, e)
                THEN Descendants(T, e) \cup {n} ELSE Descendants(T, e)
<1> DEFINE U == InsertRow(T, n, row)
<1>1. /\ DOMAIN U = DOMAIN T \cup {n}
      /\ \A i \in DOMAIN T : U[i] = T[i]
      /\ U[n].dfrm = row.dfrm
  BY DEF InsertRow, Rows
<1> HIDE DEF U
<1>2. Descendants(U, n) = {n}
  <2>1. ClosedIn(U, {n})
    BY <1>1 DEF ClosedIn
  <2> QED
    BY <2>1, DescendantsLeast, DescendantsOf
<1>3. ASSUME NEW e \in DOMAIN T
      PROVE  Descendants(U, e) =
               IF row.dfrm # NoEntr /\ row.dfrm \in Descendants(T, e)
               THEN Descendants(T, e) \cup {n} ELSE Descendants(T, e)
  <2>1. Descendants(T, e) \subseteq Descendants(U, e)
    <3>1. ClosedIn(T, Descendants(U, e))
      BY <1>1, DescendantsClosed DEF ClosedIn
    <3> QED
      BY <3>1, DescendantsLeast, DescendantsOf
  <2>2. n \notin Descendants(T, e)
    BY DescendantsOf
  <2>3. CASE row.dfrm # NoEntr /\ row.dfrm \in Descendants(T, e)
    <3>1. ClosedIn(U, Descendants(T, e) \cup {n})
      BY <1>1, DescendantsClosed DEF ClosedIn
    <3>2. Descendants(U, e) \subseteq Descendants(T, e) \cup {n}
      BY <3>1, DescendantsLeast, DescendantsOf
    <3>3. n \in Descendants(U, e)
      BY <1>1, <2>1, <2>3, DescendantsClosed DEF ClosedIn
    <3> QED
      BY <2>1, <2>3, <3>2, <3>3
  <2>4. CASE ~ (row.dfrm # NoEntr /\ row.dfrm \in Descendants(T, e))
    <3>1. ClosedIn(U, Descendants(T, e))
      BY <1>1, <2>4, DescendantsClosed DEF ClosedIn
    <3>2. Descendants(U, e) \subseteq Descendants(T, e)
      BY <3>1, DescendantsLeast, DescendantsOf
    <3> QED
      BY <2>1, <2>4, <3>2
  <2> QED
    BY <2>3, <2>4
<1> QED
  BY <1>2, <1>3 DEF U

-----------------------------------------------------------------------------
(* Forests stay forests. *)

\* A forest without a closed set of rows is a forest.
LEMMA ForestWithout ==
  ASSUME NEW T, IsForest(T), NEW X, ClosedIn(T, X)
  PROVE  IsForest(Without(T, X))
<1> DEFINE U == Without(T, X)
<1>1. DOMAIN U = DOMAIN T \ X /\ \A i \in DOMAIN U : U[i] = T[i]
  BY DEF Without
<1>2. \A i \in DOMAIN U : Descendants(U, i) = Descendants(T, i) \ X
  BY <1>1, DescendantsWithout
<1> HIDE DEF U
<1>3. ASSUME NEW e \in DOMAIN U
      PROVE  \E r \in DOMAIN U :
               /\ U[r].dfrm = NoEntr
               /\ e \in Descendants(U, r)
               /\ \A q \in DOMAIN U :
                    U[q].dfrm = NoEntr /\ e \in Descendants(U, q) => q = r
  <2>1. PICK r \in DOMAIN T :
               /\ T[r].dfrm = NoEntr
               /\ e \in Descendants(T, r)
               /\ \A q \in DOMAIN T :
                    T[q].dfrm = NoEntr /\ e \in Descendants(T, q) => q = r
    BY <1>1 DEF IsForest
  <2>2. r \notin X
    BY <1>1, <2>1, DescendantsLeast
  <2> QED
    BY <1>1, <1>2, <2>1, <2>2
<1> QED
  BY <1>3 DEF IsForest, U

\* A forest with one more row, below a row that is there or alone, is a forest.
LEMMA ForestInsert ==
  ASSUME NEW T, IsForest(T),
         NEW n, n \notin DOMAIN T, n # NoEntr, NoEntr \notin DOMAIN T,
         \A i \in DOMAIN T : T[i].dfrm # n,
         NEW row \in Rows, row.dfrm \in DOMAIN T \cup {NoEntr}
  PROVE  IsForest(InsertRow(T, n, row))
<1> DEFINE U == InsertRow(T, n, row)
<1>1. /\ DOMAIN U = DOMAIN T \cup {n}
      /\ \A i \in DOMAIN T : U[i] = T[i]
      /\ U[n].dfrm = row.dfrm
  BY DEF InsertRow, Rows
<1>2. /\ Descendants(U, n) = {n}
      /\ \A e \in DOMAIN T :
           Descendants(U, e) =
             IF row.dfrm # NoEntr /\ row.dfrm \in Descendants(T, e)
             THEN Descendants(T, e) \cup {n} ELSE Descendants(T, e)
  BY DescendantsInsert
<1> HIDE DEF U
<1> DEFINE IsRootOf(r, e) ==
             /\ U[r].dfrm = NoEntr
             /\ e \in Descendants(U, r)
             /\ \A q \in DOMAIN U :
                  U[q].dfrm = NoEntr /\ e \in Descendants(U, q) => q = r
<1>3. ASSUME NEW e \in DOMAIN T
      PROVE  \E r \in DOMAIN U : IsRootOf(r, e)
  <2>1. PICK r \in DOMAIN T :
               /\ T[r].dfrm = NoEntr
               /\ e \in Descendants(T, r)
               /\ \A q \in DOMAIN T :
                    T[q].dfrm = NoEntr /\ e \in Descendants(T, q) => q = r
    BY DEF IsForest
  <2>2. \A q \in DOMAIN U : e \in Descendants(U, q) =>
          q \in DOMAIN T /\ e \in Descendants(T, q)
    BY <1>1, <1>2
  <2> QED
    BY <1>1, <1>2, <2>1, <2>2
<1>4. \E r \in DOMAIN U : IsRootOf(r, n)
  <2>1. \A q \in DOMAIN T : n \notin Descendants(T, q)
    BY DescendantsOf
  <2>2. CASE row.dfrm = NoEntr
    BY <1>1, <1>2, <2>1, <2>2
  <2>3. CASE row.dfrm \in DOMAIN T
    <3>1. PICK r \in DOMAIN T :
                 /\ T[r].dfrm = NoEntr
                 /\ row.dfrm \in Descendants(T, r)
                 /\ \A q \in DOMAIN T :
                      T[q].dfrm = NoEntr /\ row.dfrm \in Descendants(T, q) => q = r
      BY <2>3 DEF IsForest
    <3> QED
      BY <1>1, <1>2, <2>1, <2>3, <3>1
  <2> QED
    BY <2>2, <2>3
<1> QED
  BY <1>1, <1>3, <1>4 DEF IsForest, U

-----------------------------------------------------------------------------
(* Roots, and the first entry of a branch. *)

\* In a forest Root finds the root, the only one.
LEMMA RootOf ==
  ASSUME NEW T, IsForest(T), NEW e \in DOMAIN T
  PROVE  /\ Root(T, e) \in DOMAIN T
         /\ T[Root(T, e)].dfrm = NoEntr
         /\ e \in Descendants(T, Root(T, e))
         /\ \A q \in DOMAIN T :
              T[q].dfrm = NoEntr /\ e \in Descendants(T, q) => q = Root(T, e)
<1>1. PICK r \in DOMAIN T :
             /\ T[r].dfrm = NoEntr
             /\ e \in Descendants(T, r)
             /\ \A q \in DOMAIN T :
                  T[q].dfrm = NoEntr /\ e \in Descendants(T, q) => q = r
  BY DEF IsForest
<1>2. /\ Root(T, e) \in DOMAIN T
      /\ T[Root(T, e)].dfrm = NoEntr
      /\ e \in Descendants(T, Root(T, e))
  BY <1>1 DEF Root
<1> QED
  BY <1>1, <1>2

\* What reject() is to remove has one first entry at most.
LEMMA FirstIsOnly ==
  ASSUME NEW T, NEW l,
         NEW a \in RejectSet(T, l), T[a].dfrm \notin RejectSet(T, l),
         NEW b \in RejectSet(T, l), T[b].dfrm \notin RejectSet(T, l)
  PROVE  a = b
<1>1. /\ a \in DOMAIN T /\ Leaves(T, a) = {l} /\ l \in Descendants(T, a)
      /\ b \in DOMAIN T /\ Leaves(T, b) = {l} /\ l \in Descendants(T, b)
  BY DEF RejectSet, Segment, Leaves
<1>2. ASSUME NEW x \in RejectSet(T, l), NEW y \in RejectSet(T, l),
             y \in Descendants(T, x), x # y
      PROVE  T[y].dfrm \in RejectSet(T, l)
  <2> DEFINE p == T[y].dfrm
  <2>1. y \in DOMAIN T /\ T[y].dfrm # NoEntr /\ p \in Descendants(T, x)
    BY <1>2, DescendantsParent
  <2>2. /\ x \in DOMAIN T /\ Leaves(T, x) = {l}
        /\ l \in Leaves(T, y)
        /\ T[x].dfrm # NoEntr \/ T[x].unap
    BY DEF RejectSet, Segment
  <2>3. p = x \/ (p \in DOMAIN T /\ T[p].dfrm # NoEntr)
    BY <2>1, DescendantsParent
  <2>4. Leaves(T, p) \subseteq {l}
    BY <2>1, <2>2, DescendantsTrans DEF Leaves
  <2>5. l \in Leaves(T, p)
    <3>1. p \in Descendants(T, p)
      BY DescendantsOf
    <3>2. y \in Descendants(T, p)
      BY <2>1, <3>1, DescendantsClosed DEF ClosedIn
    <3> QED
      BY <2>2, <3>2, DescendantsTrans DEF Leaves
  <2> QED
    BY <2>2, <2>3, <2>4, <2>5 DEF RejectSet, Segment
<1> QED
  BY <1>1, <1>2, DescendantsChain

-----------------------------------------------------------------------------
(* Rows that calls write. *)

\* Removing nothing changes nothing.
LEMMA WithoutNothing ==
  ASSUME NEW T, IsTable(T)
  PROVE  Without(T, {}) = T /\ ClosedIn(T, {})
BY DEF IsTable, Without, ClosedIn

\* What a call writes is a row.
LEMMA RowForIsRow ==
  ASSUME NEW T, IsTable(T), NEW c \in Calls,
         c.dfrm = NoEntr \/ c.dfrm \in DOMAIN T,
         NEW stat \in Stats, NEW d \in EntrIds \cup {NoEntr}, NEW u \in BOOLEAN
  PROVE  RowFor(T, c, stat, d, u) \in Rows
<1>1. KeyOf(T, c) \in Keys
  BY DEF KeyOf, IsTable, Rows, Calls
<1>2. History(T, c.dfrm) \in Seq(EntrIds)
  BY DEF History, IsTable, Rows
<1> QED
  BY <1>1, <1>2 DEF RowFor, Rows

\* What a call asks for is a status.
LEMMA StatForIsStat ==
  ASSUME NEW c \in Calls
  PROVE  StatFor(c) \in Stats
BY DEF StatFor, Calls, Stats

-----------------------------------------------------------------------------
(* The invariant. *)

\* The invariant that the proofs carry.
IInv == TypeOK /\ LinksOK /\ Rooted /\ OneActive /\ HistoryChain

Removal(X) ==
  ClosedIn(entr, X) /\ entr' = Without(entr, X) /\ used' = used

\* The new row hangs from a row that stays, if from any, and fits in.
RowOK(X, row) ==
  /\ row \in Rows
  /\ row.stat = "R" => ~row.unap
  /\ row.dfrm # NoEntr => /\ row.dfrm \in DOMAIN Without(entr, X)
                          /\ entr[row.dfrm].stat # "R"
                          /\ row.unap
  /\ Fits(Without(entr, X), row)

\* The new row carries on the history of a row that is there.
Carries(row) ==
  /\ row.hist = <<>> \/ \E d \in DOMAIN entr : row.hist = entr[d].hist
  /\ row.dfrm # NoEntr => row.hist = entr[row.dfrm].hist

Change(X, n, row) ==
  /\ ClosedIn(entr, X)
  /\ n \in EntrIds \ used /\ used' = used \cup {n}
  /\ RowOK(X, row)
  /\ entr' = InsertRow(Without(entr, X), n, row)

-----------------------------------------------------------------------------
(* The actions. *)

\* A submitted edit adds a row below its parent and removes none.
LEMMA SubmitIsChange ==
  ASSUME TypeOK, NEW c \in Calls, NEW n \in EntrIds, Submit(c, n)
  PROVE  Change({}, n, SubmittedRow(entr, c)) /\ Carries(SubmittedRow(entr, c))
<1>1. IsTable(entr) /\ MayEdit(entr, c)
  BY DEF TypeOK, Submit, SubmitOK
<1>2. c.dfrm = NoEntr \/ (c.dfrm \in DOMAIN entr /\ entr[c.dfrm].stat # "R")
  BY <1>1 DEF MayEdit
<1>3. c.dfrm \in EntrIds \cup {NoEntr}
  BY DEF Calls
<1> DEFINE row == SubmittedRow(entr, c)
<1>4. /\ row \in Rows /\ row.stat # "R" /\ row.dfrm = c.dfrm /\ row.unap = TRUE
      /\ row.hist = History(entr, c.dfrm)
  <2>1. StatFor(c) \in Stats /\ StatFor(c) # "R"
    BY StatForIsStat DEF Submit, SubmitOK
  <2>2. row \in Rows
    BY <1>1, <1>2, <1>3, <2>1, RowForIsRow DEF SubmittedRow
  <2> QED
    BY <2>1, <2>2 DEF SubmittedRow, RowFor
<1>5. Without(entr, {}) = entr /\ ClosedIn(entr, {})
  BY <1>1, WithoutNothing
<1>6. RowOK({}, row)
  <2> HIDE DEF row
  <2> QED
    BY <1>2, <1>4, <1>5 DEF RowOK, Fits
<1>7. Carries(row)
  <2> HIDE DEF row
  <2> QED
    BY <1>2, <1>4 DEF Carries, History
<1> QED
  BY <1>5, <1>6, <1>7 DEF Change, Submit, Submitted, Take

\* An approval removes the tree of its parent and adds a row.
LEMMA ApproveIsChange ==
  ASSUME TypeOK, NEW c \in Calls, NEW n \in EntrIds, Approve(c, n)
  PROVE  /\ \E X : Change(X, n, ApprovedRow(entr, c))
         /\ Carries(ApprovedRow(entr, c))
<1>1. IsTable(entr) /\ MayEdit(entr, c)
  BY DEF TypeOK, Approve, ApproveOK
<1>2. c.dfrm = NoEntr \/ c.dfrm \in DOMAIN entr
  BY <1>1 DEF MayEdit
<1> DEFINE row == ApprovedRow(entr, c)
           X   == IF c.dfrm = NoEntr THEN {}
                  ELSE Descendants(entr, Root(entr, c.dfrm))
<1>3. /\ row \in Rows /\ row.stat # "R" /\ row.dfrm = NoEntr /\ row.unap = FALSE
      /\ row.hist = History(entr, c.dfrm)
  <2>1. StatFor(c) \in Stats /\ StatFor(c) # "R"
    BY StatForIsStat DEF Approve, ApproveOK
  <2>2. row \in Rows
    BY <1>1, <1>2, <2>1, RowForIsRow DEF ApprovedRow
  <2> QED
    BY <2>1, <2>2 DEF ApprovedRow, RowFor
<1>4. WithoutTree(entr, c.dfrm) = Without(entr, X) /\ ClosedIn(entr, X)
  BY <1>1, WithoutNothing, DescendantsClosed DEF WithoutTree, DeleteRow, Without
<1>5. RowOK(X, row)
  <2>1. Fits(Without(entr, X), row)
    BY <1>4 DEF Approve
  <2> HIDE DEF row, X
  <2> QED
    BY <2>1, <1>2, <1>3 DEF RowOK
<1>6. Change(X, n, row)
  BY <1>4, <1>5 DEF Change, Approve, Approved, Take
<1>7. Carries(row)
  <2> HIDE DEF row
  <2> QED
    BY <1>2, <1>3 DEF Carries, History
<1> QED
  BY <1>6, <1>7

\* A rejection removes a branch and adds a row.
LEMMA RejectIsChange ==
  ASSUME TypeOK, NEW c \in Calls, NEW n \in EntrIds, Reject(c, n)
  PROVE  /\ Change(Descendants(entr, First(entr, RejectSet(entr, c.dfrm))),
                   n, RejectedRow(entr, c))
         /\ Carries(RejectedRow(entr, c))
<1>1. IsTable(entr) /\ MayEdit(entr, c) /\ c.dfrm # NoEntr
  BY DEF TypeOK, Reject, RejectOK
<1>2. c.dfrm \in DOMAIN entr
  BY <1>1 DEF MayEdit
<1> DEFINE row == RejectedRow(entr, c)
           X   == Descendants(entr, First(entr, RejectSet(entr, c.dfrm)))
<1>3. /\ row \in Rows /\ row.stat = "R" /\ row.dfrm = NoEntr /\ row.unap = FALSE
      /\ row.hist = History(entr, c.dfrm)
  <2>1. row \in Rows
    BY <1>1, <1>2, RowForIsRow DEF RejectedRow, Stats
  <2> QED
    BY <2>1 DEF RejectedRow, RowFor
<1>4. ClosedIn(entr, X)
  BY DescendantsClosed
<1>5. RowOK(X, row)
  <2> HIDE DEF row, X
  <2> QED
    BY <1>1, <1>2, <1>3 DEF RowOK, Fits
<1>6. Carries(row)
  <2> HIDE DEF row
  <2> QED
    BY <1>1, <1>2, <1>3 DEF Carries, History
<1> QED
  BY <1>4, <1>5, <1>6 DEF Change, Reject, Rejected, Take, DeleteRow, Without

\* What the reaper finds has no edits, so it removes a closed set.
LEMMA ReapIsRemoval ==
  ASSUME NEW S \in SUBSET Reapable(entr), Reap(S)
  PROVE  Removal(S)
BY DEF Reap, Reapable, Removal, ClosedIn, Without, HasEdits

\* Every step of the table removes rows, or adds one as well.
LEMMA NextIsChangeOrRemoval ==
  ASSUME TypeOK, Next
  PROVE  \/ \E X, n, row : Change(X, n, row) /\ Carries(row)
         \/ \E X : Removal(X)
<1>1. ASSUME NEW c \in Calls, NEW n \in EntrIds, Submit(c, n)
      PROVE  \E X, row : Change(X, n, row) /\ Carries(row)
  BY <1>1, SubmitIsChange
<1>2. ASSUME NEW c \in Calls, NEW n \in EntrIds, Approve(c, n)
      PROVE  \E X, row : Change(X, n, row) /\ Carries(row)
  BY <1>2, ApproveIsChange
<1>3. ASSUME NEW c \in Calls, NEW n \in EntrIds, Reject(c, n)
      PROVE  \E X, row : Change(X, n, row) /\ Carries(row)
  BY <1>3, RejectIsChange
<1>4. ASSUME NEW S \in SUBSET Reapable(entr), Reap(S)
      PROVE  Removal(S)
  BY <1>4, ReapIsRemoval
<1> QED
  BY <1>1, <1>2, <1>3, <1>4 DEF Next

-----------------------------------------------------------------------------
(* Typing. *)

\* What a change makes of the rows.
LEMMA ChangeRows ==
  ASSUME TypeOK, NEW X, NEW n, NEW row, Change(X, n, row)
  PROVE  /\ n \in EntrIds /\ n \notin used /\ n \notin DOMAIN entr /\ n # NoEntr
         /\ DOMAIN entr' = (DOMAIN entr \ X) \cup {n}
         /\ \A i \in DOMAIN entr \ X : entr'[i] = entr[i]
         /\ entr'[n] = [row EXCEPT !.hist = Append(@, n)]
         /\ IsTable(entr')
<1> DEFINE U == Without(entr, X)
           new == [row EXCEPT !.hist = Append(@, n)]
<1>1. n \in EntrIds /\ n \notin used /\ n \notin DOMAIN entr /\ n # NoEntr
  BY NoEntrIsNoId DEF Change, TypeOK
<1>2. DOMAIN U = DOMAIN entr \ X /\ \A i \in DOMAIN U : U[i] = entr[i]
  BY DEF Without
<1>3. new \in Rows
  <2>1. row \in Rows
    BY Zenon DEF Change, RowOK
  <2>2. /\ row = [key |-> row.key, stat |-> row.stat, dfrm |-> row.dfrm,
                  unap |-> row.unap, hist |-> row.hist]
        /\ row.key \in Keys /\ row.stat \in Stats /\ row.dfrm \in EntrIds \cup {NoEntr}
        /\ row.unap \in BOOLEAN /\ row.hist \in Seq(EntrIds)
    BY <2>1 DEF Rows
  <2> DEFINE hist == Append(row.hist, n)
  <2>3. hist \in Seq(EntrIds)
    BY <1>1, <2>2
  <2> HIDE DEF hist
  <2>4. new = [key |-> row.key, stat |-> row.stat, dfrm |-> row.dfrm,
               unap |-> row.unap, hist |-> hist]
    BY <2>2 DEF hist
  <2> HIDE DEF new
  <2> QED
    BY <2>2, <2>3, <2>4 DEF Rows
<1>4. entr' = [i \in DOMAIN U \cup {n} |-> IF i = n THEN new ELSE U[i]]
  <2>1. entr' = InsertRow(U, n, row)
    BY Zenon DEF Change
  <2> QED
    BY <2>1, Zenon DEF InsertRow
<1> HIDE DEF U, new
<1>5. /\ DOMAIN entr' = (DOMAIN entr \ X) \cup {n}
      /\ \A i \in DOMAIN entr \ X : entr'[i] = entr[i]
      /\ entr'[n] = new
  BY <1>1, <1>2, <1>4
<1>6. IsTable(entr')
  BY <1>1, <1>2, <1>3, <1>4, <1>5 DEF IsTable, TypeOK
<1> QED
  BY <1>1, <1>5, <1>6 DEF new

\* The fields of the row that a change adds.
LEMMA ChangeFields ==
  ASSUME TypeOK, NEW X, NEW n, NEW row, Change(X, n, row)
  PROVE  /\ entr'[n].key = row.key /\ entr'[n].stat = row.stat
         /\ entr'[n].dfrm = row.dfrm /\ (entr'[n].unap <=> row.unap)
         /\ entr'[n].hist = Append(row.hist, n)
<1>1. row \in Rows /\ entr'[n] = [row EXCEPT !.hist = Append(@, n)]
  BY ChangeRows DEF Change, RowOK
<1>2. entr'[n].unap <=> row.unap
  BY <1>1 DEF Rows
<1>3. entr'[n].key = row.key /\ entr'[n].stat = row.stat
  BY <1>1 DEF Rows
<1>4. entr'[n].dfrm = row.dfrm /\ entr'[n].hist = Append(row.hist, n)
  BY <1>1 DEF Rows
<1> QED
  BY <1>2, <1>3, <1>4

\* What a removal leaves of the rows.
LEMMA RemovalRows ==
  ASSUME TypeOK, NEW X, Removal(X)
  PROVE  /\ DOMAIN entr' = DOMAIN entr \ X
         /\ \A i \in DOMAIN entr' : entr'[i] = entr[i]
         /\ IsTable(entr')
BY DEF Removal, Without, TypeOK, IsTable

\* A loaded corpus is a table.
LEMMA InitTypeOK == Init => TypeOK
<1> SUFFICES ASSUME Init PROVE TypeOK
  OBVIOUS
<1>1. PICK k \in [Corpus -> Keys] :
        entr = [i \in Corpus |-> [key |-> k[i], stat |-> "A", dfrm |-> NoEntr,
                                 unap |-> FALSE, hist |-> <<>>]]
  BY DEF Init
<1>2. \A i \in Corpus : [key |-> k[i], stat |-> "A", dfrm |-> NoEntr,
                         unap |-> FALSE, hist |-> <<>>] \in Rows
  BY DEF Rows, Stats
<1> QED
  BY <1>1, <1>2, CorpusIsLoaded DEF TypeOK, IsTable, Init

\* A change makes a table of a table.
LEMMA ChangeTypeOK ==
  ASSUME TypeOK, NEW X, NEW n, NEW row, Change(X, n, row)
  PROVE  TypeOK'
BY ChangeRows DEF TypeOK, Change

\* So does a removal.
LEMMA RemovalTypeOK ==
  ASSUME TypeOK, NEW X, Removal(X)
  PROVE  TypeOK'
BY RemovalRows DEF TypeOK, Removal

\* So does every step.
LEMMA StepTypeOK ==
  ASSUME TypeOK, [Next]_vars
  PROVE  TypeOK'
<1>1. CASE UNCHANGED vars
  BY <1>1 DEF vars, TypeOK, IsTable
<1> QED
  BY <1>1, ChangeTypeOK, RemovalTypeOK, NextIsChangeOrRemoval

\* The table stays a table, and the ids of its rows are ids that were taken.
THEOREM Typing == Spec => []TypeOK
BY InitTypeOK, StepTypeOK, PTL DEF Spec

-----------------------------------------------------------------------------
(* Links, roots and keys. *)

\* The rows of a loaded corpus.
LEMMA InitRows ==
  ASSUME Init
  PROVE  /\ DOMAIN entr = Corpus
         /\ \A i \in Corpus :
              /\ entr[i].stat = "A" /\ entr[i].dfrm = NoEntr
              /\ ~entr[i].unap /\ entr[i].hist = <<>>
         /\ \A i, j \in Corpus : entr[i].key = entr[j].key => i = j
BY DEF Init

\* The parent of a new row stays, and no row stays whose parent goes.
LEMMA ChangeLinksOK ==
  ASSUME TypeOK, LinksOK, NEW X, NEW n, NEW row, Change(X, n, row)
  PROVE  LinksOK'
<1>1. /\ DOMAIN entr' = (DOMAIN entr \ X) \cup {n}
      /\ n \notin DOMAIN entr
      /\ \A i \in DOMAIN entr \ X : entr'[i] = entr[i]
  BY ChangeRows
<1>2. /\ entr'[n].stat = row.stat /\ entr'[n].dfrm = row.dfrm
      /\ (entr'[n].unap <=> row.unap)
  BY ChangeFields
<1>3. ASSUME NEW e \in DOMAIN entr \ X
      PROVE  /\ entr'[e].dfrm # NoEntr => /\ entr'[e].dfrm \in DOMAIN entr'
                                          /\ entr'[entr'[e].dfrm].stat # "R"
                                          /\ entr'[e].unap
             /\ entr'[e].stat = "R" => ~entr'[e].unap
  BY <1>1 DEF Change, ClosedIn, LinksOK
<1>4. /\ entr'[n].dfrm # NoEntr => /\ entr'[n].dfrm \in DOMAIN entr'
                                   /\ entr'[entr'[n].dfrm].stat # "R"
                                   /\ entr'[n].unap
      /\ entr'[n].stat = "R" => ~entr'[n].unap
  BY <1>1, <1>2 DEF Change, RowOK, Without
<1> QED
  BY <1>1, <1>3, <1>4 DEF LinksOK

\* No row stays whose parent goes.
LEMMA RemovalLinksOK ==
  ASSUME TypeOK, LinksOK, NEW X, Removal(X)
  PROVE  LinksOK'
<1>1. /\ DOMAIN entr' = DOMAIN entr \ X
      /\ \A i \in DOMAIN entr' : entr'[i] = entr[i]
  BY RemovalRows
<1>2. ClosedIn(entr, X)
  BY DEF Removal
<1> QED
  BY <1>1, <1>2 DEF LinksOK, ClosedIn

\* Every step keeps the links right.
LEMMA StepLinksOK ==
  ASSUME TypeOK, LinksOK, [Next]_vars
  PROVE  LinksOK'
<1>1. CASE UNCHANGED vars
  BY <1>1 DEF vars, LinksOK
<1> QED
  BY <1>1, ChangeLinksOK, RemovalLinksOK, NextIsChangeOrRemoval

\* A loaded corpus has no edits.
LEMMA InitLinksOK == Init => LinksOK
BY InitRows DEF LinksOK

\* The rows of a loaded corpus are roots.
LEMMA InitRooted == Init => Rooted
<1> SUFFICES ASSUME Init PROVE IsForest(entr)
  BY DEF Rooted
<1>1. \A e \in DOMAIN entr : Descendants(entr, e) = {e}
  <2> SUFFICES ASSUME NEW e \in DOMAIN entr
               PROVE  Descendants(entr, e) = {e}
    OBVIOUS
  <2>1. ClosedIn(entr, {e})
    BY InitRows DEF ClosedIn
  <2> QED
    BY <2>1, DescendantsLeast, DescendantsOf
<1>2. DOMAIN entr = Corpus /\ \A i \in DOMAIN entr : entr[i].dfrm = NoEntr
  BY InitRows
<1> QED
  BY <1>1, <1>2 DEF IsForest

\* Removing closed sets and adding a row keep a forest a forest.
LEMMA ChangeRooted ==
  ASSUME TypeOK, LinksOK, Rooted, NEW X, NEW n, NEW row, Change(X, n, row)
  PROVE  Rooted'
<1> DEFINE U == Without(entr, X)
<1>1. IsForest(U)
  BY ForestWithout DEF Change, Rooted
<1>2. n \notin DOMAIN U /\ n # NoEntr /\ NoEntr \notin DOMAIN U
  BY ChangeRows, NoEntrIsNoId DEF Without, TypeOK, IsTable
<1>3. \A i \in DOMAIN U : U[i].dfrm # n
  <2>1. n # NoEntr /\ n \notin DOMAIN entr
    BY ChangeRows
  <2>2. \A i \in DOMAIN entr : entr[i].dfrm # n
    BY <2>1 DEF LinksOK
  <2> QED
    BY <2>2 DEF Without
<1>4. row \in Rows /\ row.dfrm \in DOMAIN U \cup {NoEntr}
  BY DEF Change, RowOK
<1>5. entr' = InsertRow(U, n, row)
  BY DEF Change
<1> HIDE DEF U
<1> QED
  BY <1>1, <1>2, <1>3, <1>4, <1>5, ForestInsert DEF Rooted

\* Removing closed sets keeps a forest a forest.
LEMMA RemovalRooted ==
  ASSUME Rooted, NEW X, Removal(X)
  PROVE  Rooted'
BY ForestWithout DEF Removal, Rooted

\* Every step keeps the forest.
LEMMA StepRooted ==
  ASSUME TypeOK, LinksOK, Rooted, [Next]_vars
  PROVE  Rooted'
<1>1. CASE UNCHANGED vars
  BY <1>1 DEF vars, Rooted
<1> QED
  BY <1>1, ChangeRooted, RemovalRooted, NextIsChangeOrRemoval

\* A new published row finds the index free.
LEMMA ChangeOneActive ==
  ASSUME TypeOK, OneActive, NEW X, NEW n, NEW row, Change(X, n, row)
  PROVE  OneActive'
<1>1. /\ DOMAIN entr' = (DOMAIN entr \ X) \cup {n}
      /\ \A i \in DOMAIN entr \ X : entr'[i] = entr[i]
  BY ChangeRows
<1>2. /\ entr'[n].stat = row.stat /\ entr'[n].key = row.key
      /\ (entr'[n].unap <=> row.unap)
  BY ChangeFields
<1>3. row.stat = "A" /\ ~row.unap =>
        \A i \in DOMAIN entr \ X :
          entr[i].key = row.key /\ entr[i].stat = "A" => entr[i].unap
  BY DEF Change, RowOK, Fits, KeyIsFree, Without
<1> QED
  BY <1>1, <1>2, <1>3 DEF OneActive

\* Removing rows frees keys only.
LEMMA RemovalOneActive ==
  ASSUME TypeOK, OneActive, NEW X, Removal(X)
  PROVE  OneActive'
<1>1. /\ DOMAIN entr' = DOMAIN entr \ X
      /\ \A i \in DOMAIN entr' : entr'[i] = entr[i]
  BY RemovalRows
<1> QED
  BY <1>1 DEF OneActive

\* Every step keeps one published version.
LEMMA StepOneActive ==
  ASSUME TypeOK, OneActive, [Next]_vars
  PROVE  OneActive'
<1>1. CASE UNCHANGED vars
  BY <1>1 DEF vars, OneActive
<1> QED
  BY <1>1, ChangeOneActive, RemovalOneActive, NextIsChangeOrRemoval

\* The keys of a loaded corpus differ.
LEMMA InitOneActive == Init => OneActive
BY InitRows DEF OneActive

-----------------------------------------------------------------------------
(* Histories. *)

\* HistoryChain for one row, in pieces.
Taken(h) == \A i \in 1 .. Len(h) : h[i] \in used

Distinct(h) == \A i, j \in 1 .. Len(h) : h[i] = h[j] => i = j

EndsRight(e) ==
  LET h == entr[e].hist IN
  IF entr[e].dfrm # NoEntr THEN h = Append(entr[entr[e].dfrm].hist, e)
  ELSE IF h = <<>> THEN e \in Corpus ELSE h[Len(h)] = e

\* HistoryChain in its three pieces.
LEMMA HistoryChainParts ==
  HistoryChain <=>
    \A e \in DOMAIN entr :
      Taken(entr[e].hist) /\ Distinct(entr[e].hist) /\ EndsRight(e)
BY DEF HistoryChain, Taken, Distinct, EndsRight

\* A history is extended by an id that it does not have yet.
LEMMA AppendFresh ==
  ASSUME NEW g \in Seq(EntrIds), Taken(g), Distinct(g),
         NEW n \in EntrIds, n \notin used
  PROVE  LET h == Append(g, n) IN
         /\ \A i \in 1 .. Len(h) : h[i] \in used \cup {n}
         /\ Distinct(h)
         /\ h # <<>> /\ h[Len(h)] = n
<1> DEFINE h == Append(g, n)
<1>1. /\ Len(h) = Len(g) + 1 /\ Len(g) \in Nat
      /\ \A i \in 1 .. Len(g) : h[i] = g[i]
      /\ h[Len(g) + 1] = n
  OBVIOUS
<1> HIDE DEF h
<1>2. \A i \in 1 .. Len(h) : i \in 1 .. Len(g) \/ i = Len(g) + 1
  BY <1>1
<1>3. \A i \in 1 .. Len(h) : h[i] \in used \cup {n}
  BY <1>1, <1>2 DEF Taken
<1>4. Distinct(h)
  BY <1>1, <1>2 DEF Taken, Distinct
<1>5. h # <<>> /\ h[Len(h)] = n
  BY <1>1
<1> QED
  BY <1>3, <1>4, <1>5 DEF h

\* A loaded corpus has no history.
LEMMA InitHistoryChain == Init => HistoryChain
BY InitRows DEF HistoryChain

\* The new row extends its parent's history; no other row changes.
LEMMA ChangeHistoryChain ==
  ASSUME TypeOK, LinksOK, HistoryChain,
         NEW X, NEW n, NEW row, Change(X, n, row), Carries(row)
  PROVE  HistoryChain'
<1>1. /\ n \in EntrIds /\ n \notin used
      /\ DOMAIN entr' = (DOMAIN entr \ X) \cup {n}
      /\ \A i \in DOMAIN entr \ X : entr'[i] = entr[i]
  BY ChangeRows
<1>2. entr'[n].dfrm = row.dfrm /\ entr'[n].hist = Append(row.hist, n)
  BY ChangeFields
<1>3. used' = used \cup {n}
  BY DEF Change
<1>4. ASSUME NEW e \in DOMAIN entr \ X
      PROVE  (Taken(entr[e].hist) /\ Distinct(entr[e].hist) /\ EndsRight(e))'
  <2>1. Taken(entr[e].hist) /\ Distinct(entr[e].hist) /\ EndsRight(e)
    BY HistoryChainParts
  <2>2. entr[e].dfrm # NoEntr => entr'[entr[e].dfrm] = entr[entr[e].dfrm]
    BY <1>1 DEF Change, ClosedIn, LinksOK
  <2> QED
    BY <1>1, <1>3, <2>1, <2>2 DEF Taken, Distinct, EndsRight
<1>5. (Taken(entr[n].hist) /\ Distinct(entr[n].hist) /\ EndsRight(n))'
  <2>1. row.hist \in Seq(EntrIds)
    BY DEF Change, RowOK, Rows
  <2>2. Taken(row.hist) /\ Distinct(row.hist)
    <3>1. CASE row.hist = <<>>
      BY <3>1 DEF Taken, Distinct
    <3>2. CASE \E d \in DOMAIN entr : row.hist = entr[d].hist
      BY <3>2, HistoryChainParts
    <3> QED
      BY <3>1, <3>2 DEF Carries
  <2>3. /\ \A i \in 1 .. Len(entr'[n].hist) : entr'[n].hist[i] \in used'
        /\ Distinct(entr[n].hist)'
        /\ entr'[n].hist # <<>> /\ entr'[n].hist[Len(entr'[n].hist)] = n
    BY <1>1, <1>2, <1>3, <2>1, <2>2, AppendFresh DEF Distinct
  <2>4. row.dfrm # NoEntr => row.dfrm \in DOMAIN entr \ X
                             /\ row.hist = entr[row.dfrm].hist
    BY DEF Change, RowOK, Carries, Without
  <2>5. EndsRight(n)'
    BY <1>1, <1>2, <2>3, <2>4 DEF EndsRight
  <2> QED
    BY <2>3, <2>5 DEF Taken
<1> QED
  BY <1>1, <1>4, <1>5 DEF HistoryChain, Taken, Distinct, EndsRight

\* The rows that stay keep their histories.
LEMMA RemovalHistoryChain ==
  ASSUME TypeOK, LinksOK, HistoryChain, NEW X, Removal(X)
  PROVE  HistoryChain'
<1>1. /\ DOMAIN entr' = DOMAIN entr \ X
      /\ \A i \in DOMAIN entr' : entr'[i] = entr[i]
  BY RemovalRows
<1>2. ClosedIn(entr, X) /\ used' = used
  BY DEF Removal
<1>3. \A e \in DOMAIN entr' :
        entr[e].dfrm # NoEntr => entr'[entr[e].dfrm] = entr[entr[e].dfrm]
  BY <1>1, <1>2 DEF ClosedIn, LinksOK
<1>4. ASSUME NEW e \in DOMAIN entr'
      PROVE  (Taken(entr[e].hist) /\ Distinct(entr[e].hist) /\ EndsRight(e))'
  <2>1. Taken(entr[e].hist) /\ Distinct(entr[e].hist) /\ EndsRight(e)
    BY <1>1, HistoryChainParts
  <2> QED
    BY <1>1, <1>2, <1>3, <2>1 DEF Taken, Distinct, EndsRight
<1> QED
  BY <1>4 DEF HistoryChain, Taken, Distinct, EndsRight

\* Every step keeps the histories right.
LEMMA StepHistoryChain ==
  ASSUME TypeOK, LinksOK, HistoryChain, [Next]_vars
  PROVE  HistoryChain'
<1>1. CASE UNCHANGED vars
  BY <1>1 DEF vars, HistoryChain
<1> QED
  BY <1>1, ChangeHistoryChain, RemovalHistoryChain, NextIsChangeOrRemoval

-----------------------------------------------------------------------------
(* The invariant. *)

\* The invariant holds at first.
LEMMA InitIInv == Init => IInv
BY InitTypeOK, InitLinksOK, InitRooted, InitOneActive, InitHistoryChain DEF IInv

\* The invariant is inductive.
LEMMA StepIInv == IInv /\ [Next]_vars => IInv'
BY StepTypeOK, StepLinksOK, StepRooted, StepOneActive, StepHistoryChain DEF IInv

\* The invariant always holds.
THEOREM Invariance == Spec => []IInv
BY InitIInv, StepIInv, PTL DEF Spec

\* No edit dangles, hangs from a rejected entry or is approved where it hangs.
THEOREM Links == Spec => []LinksOK
BY Invariance, PTL DEF IInv

\* Every row is in exactly one edit tree.
THEOREM Roots == Spec => []Rooted
BY Invariance, PTL DEF IInv

\* An entry has one published version at most.
THEOREM Published == Spec => []OneActive
BY Invariance, PTL DEF IInv

\* Each edit has its parent's history and one record more.
THEOREM Histories == Spec => []HistoryChain
BY Invariance, PTL DEF IInv

-----------------------------------------------------------------------------
(* No history is lost.  A row is followed by one that tells all it told,   *)
(* because below every row there is a leaf (histories get longer along the *)
(* edits, but not longer than there are ids in use), because a row's       *)
(* history begins that of its descendants, and because what an approval or *)
(* a rejection removes has one leaf only, the one whose history the new row*)
(* carries on.                                                             *)

\* Histories cannot grow without bound.
Bounded ==
  /\ IsFiniteSet(used)
  /\ \A e \in DOMAIN entr : Len(entr[e].hist) <= Cardinality(used)

\* No history is longer than the ids in use at first.
LEMMA InitBounded == Init => Bounded
<1> SUFFICES ASSUME Init PROVE Bounded
  OBVIOUS
<1>1. used = Corpus /\ IsFiniteSet(used)
  BY CorpusIsLoaded DEF Init
<1>2. Cardinality(used) \in Nat
  BY <1>1, FS_CardinalityType
<1> QED
  BY <1>1, <1>2, InitRows DEF Bounded

\* A history grows by one record when an id is taken.
LEMMA ChangeBounded ==
  ASSUME TypeOK, Bounded, NEW X, NEW n, NEW row, Change(X, n, row),
         Carries(row)
  PROVE  Bounded'
<1>0. Cardinality(used) \in Nat
  BY FS_CardinalityType DEF Bounded
<1>1. /\ n \notin used
      /\ DOMAIN entr' = (DOMAIN entr \ X) \cup {n}
      /\ \A i \in DOMAIN entr \ X : entr'[i] = entr[i]
  BY ChangeRows
<1>2. used' = used \cup {n}
  BY DEF Change
<1>3. IsFiniteSet(used') /\ Cardinality(used') = Cardinality(used) + 1
  BY <1>1, <1>2, FS_AddElement DEF Bounded
<1>4. \A e \in DOMAIN entr : entr[e].hist \in Seq(EntrIds)
  BY DEF TypeOK, IsTable, Rows
<1>5. row.hist \in Seq(EntrIds) /\ Len(row.hist) <= Cardinality(used)
  BY <1>0, <1>4 DEF Change, RowOK, Carries, Rows, Bounded
<1>6. entr'[n].hist = Append(row.hist, n) /\ n \in EntrIds
  <2>1. entr'[n].hist = Append(row.hist, n)
    BY ChangeFields
  <2> QED
    BY <2>1 DEF Change
<1>7. Len(entr'[n].hist) <= Cardinality(used')
  BY <1>0, <1>3, <1>5, <1>6
<1>8. \A e \in DOMAIN entr \ X : Len(entr'[e].hist) <= Cardinality(used')
  BY <1>0, <1>1, <1>3, <1>4 DEF Bounded
<1> QED
  BY <1>1, <1>3, <1>7, <1>8 DEF Bounded

\* No history grows when rows go.
LEMMA RemovalBounded ==
  ASSUME TypeOK, Bounded, NEW X, Removal(X)
  PROVE  Bounded'
<1>1. /\ DOMAIN entr' = DOMAIN entr \ X
      /\ \A i \in DOMAIN entr' : entr'[i] = entr[i]
  BY RemovalRows
<1>2. used' = used
  BY DEF Removal
<1> QED
  BY <1>1, <1>2 DEF Bounded

\* Every step keeps the bound.
LEMMA StepBounded ==
  ASSUME TypeOK, Bounded, [Next]_vars
  PROVE  Bounded'
<1>1. CASE UNCHANGED vars
  BY <1>1 DEF vars, Bounded
<1> QED
  BY <1>1, ChangeBounded, RemovalBounded, NextIsChangeOrRemoval

\* A set of numbers that is not empty has a least one.
LEMMA LeastNumber ==
  ASSUME NEW S \in SUBSET Nat, S # {}
  PROVE  \E m \in S : \A k \in S : m <= k
<1>1. PICK m \in S : \A k \in S : <<k, m>> \notin OpToRel(<, Nat)
  BY NatLessThanWellFounded, WFMin
<1>2. \A k \in S : ~ (k < m)
  BY <1>1 DEF OpToRel
<1> QED
  BY <1>2

\* Below every row there is a leaf.
LEMMA LeafBelow ==
  ASSUME IInv, Bounded, NEW e \in DOMAIN entr
  PROVE  \E l : l \in Leaves(entr, e)
<1> DEFINE room(d) == Cardinality(used) - Len(entr[d].hist)
           D == Descendants(entr, e)
<1>1. /\ e \in D /\ D \subseteq DOMAIN entr
      /\ \A c \in DOMAIN entr : entr[c].dfrm # NoEntr /\ entr[c].dfrm \in D => c \in D
  BY DescendantsOf, DescendantsClosed DEF ClosedIn
<1>2. \A d \in DOMAIN entr : entr[d].hist \in Seq(EntrIds)
  BY DEF IInv, TypeOK, IsTable, Rows
<1>3. \A d \in DOMAIN entr : room(d) \in Nat
  BY <1>2, FS_CardinalityType DEF Bounded
<1>4. \A c \in DOMAIN entr : entr[c].dfrm # NoEntr =>
        /\ entr[c].dfrm \in DOMAIN entr
        /\ Len(entr[c].hist) = Len(entr[entr[c].dfrm].hist) + 1
  BY <1>2 DEF IInv, LinksOK, HistoryChain, TypeOK, IsTable
<1> HIDE DEF D
<1>5. PICK l \in D : \A d \in D : room(l) <= room(d)
  <2>1. {room(d) : d \in D} \in SUBSET Nat /\ {room(d) : d \in D} # {}
    BY <1>1, <1>3
  <2>2. PICK m \in {room(d) : d \in D} : \A k \in {room(d) : d \in D} : m <= k
    BY <2>1, LeastNumber
  <2> QED
    BY <2>2
<1>6. ~HasEdits(entr, l)
  <2> SUFFICES ASSUME NEW c \in DOMAIN entr, entr[c].dfrm = l
               PROVE  FALSE
    BY DEF HasEdits
  <2>1. l # NoEntr
    BY <1>1, NoEntrIsNoId DEF IInv, TypeOK, IsTable
  <2>2. c \in D /\ Len(entr[c].hist) = Len(entr[l].hist) + 1
    BY <1>1, <1>4, <2>1
  <2>3. room(l) <= room(c)
    BY <1>5, <2>2
  <2>4. Cardinality(used) \in Nat /\ Len(entr[l].hist) \in Nat
    BY <1>1, <1>2, FS_CardinalityType DEF Bounded
  <2> QED
    BY <2>2, <2>3, <2>4
<1> QED
  BY <1>5, <1>6 DEF Leaves, D

\* A history that is carried on still begins with what it began with.
LEMMA CarriesOn ==
  ASSUME NEW g \in Seq(EntrIds), NEW h \in Seq(EntrIds), NEW n \in EntrIds,
         IsHistoryPrefix(g, h)
  PROVE  IsHistoryPrefix(g, Append(h, n))
BY DEF IsHistoryPrefix

\* The history of a row begins those of its descendants.
LEMMA HistoryBegins ==
  ASSUME IInv, NEW e \in DOMAIN entr, NEW d \in Descendants(entr, e)
  PROVE  d \in DOMAIN entr /\ IsHistoryPrefix(entr[e].hist, entr[d].hist)
<1> DEFINE X == {c \in DOMAIN entr : IsHistoryPrefix(entr[e].hist, entr[c].hist)}
<1>1. \A c \in DOMAIN entr : entr[c].hist \in Seq(EntrIds) /\ c \in EntrIds
  BY DEF IInv, TypeOK, IsTable, Rows
<1>2. e \in X
  BY <1>1 DEF IsHistoryPrefix
<1>3. ClosedIn(entr, X)
  <2> SUFFICES ASSUME NEW c \in DOMAIN entr, entr[c].dfrm # NoEntr,
                      entr[c].dfrm \in X
               PROVE  c \in X
    BY DEF ClosedIn
  <2>1. entr[c].hist = Append(entr[entr[c].dfrm].hist, c)
    BY DEF IInv, HistoryChain
  <2>2. /\ entr[c].dfrm \in DOMAIN entr
        /\ IsHistoryPrefix(entr[e].hist, entr[entr[c].dfrm].hist)
    OBVIOUS
  <2>3. IsHistoryPrefix(entr[e].hist, entr[c].hist)
    BY <1>1, <2>1, <2>2, CarriesOn
  <2> QED
    BY <2>3
<1> QED
  BY <1>2, <1>3, DescendantsLeast

\* If d is the only leaf below r then the history of d tells that of all rows
\* from r to d.
LEMMA OnlyLeafTellsAll ==
  ASSUME IInv, Bounded, NEW r \in DOMAIN entr, NEW d, Leaves(entr, r) = {d},
         NEW e \in Descendants(entr, r)
  PROVE  e \in DOMAIN entr /\ IsHistoryPrefix(entr[e].hist, entr[d].hist)
<1>1. e \in DOMAIN entr
  BY DescendantsOf
<1>2. PICK l : l \in Leaves(entr, e)
  BY <1>1, LeafBelow
<1>3. l = d
  BY <1>2, DescendantsTrans DEF Leaves
<1> QED
  BY <1>1, <1>2, <1>3, HistoryBegins DEF Leaves

\* What an approval removes is told by the row it adds.
LEMMA ApproveKeeps ==
  ASSUME IInv, Bounded, NEW c \in Calls, NEW n \in EntrIds, Approve(c, n),
         NEW e \in DOMAIN entr \ DOMAIN entr'
  PROVE  /\ n \in DOMAIN entr' \ DOMAIN entr
         /\ IsHistoryPrefix(entr[e].hist, entr'[n].hist)
         /\ entr'[n].stat # "R" /\ ~entr'[n].unap
<1> DEFINE row == ApprovedRow(entr, c)
           d   == c.dfrm
           r   == Root(entr, d)
<1>1. TypeOK /\ IsTable(entr)
  BY DEF IInv, TypeOK
<1>2. ApproveOK(entr, c)
  BY DEF Approve
<1>3. d # NoEntr
  <2>1. ASSUME d = NoEntr PROVE FALSE
    <3>1. entr' = InsertRow(entr, n, row)
      BY <2>1 DEF Approve, Approved, WithoutTree
    <3> QED
      BY <3>1 DEF InsertRow
  <2> QED
    BY <2>1
<1>4. d \in DOMAIN entr /\ Leaves(entr, r) = {d}
  BY <1>2, <1>3 DEF ApproveOK, MayEdit, IsOnlyLeaf
<1>5. r \in DOMAIN entr
  <2>1. \E q \in DOMAIN entr : entr[q].dfrm = NoEntr /\ d \in Descendants(entr, q)
    BY <1>4 DEF IInv, Rooted, IsForest
  <2> QED
    BY <2>1 DEF Root
<1>6. entr' = InsertRow(Without(entr, Descendants(entr, r)), n, row)
  BY <1>3 DEF Approve, Approved, WithoutTree, DeleteRow, Without
<1>7. n \notin DOMAIN entr
  BY <1>1 DEF Approve, Take, TypeOK
<1>8. /\ DOMAIN entr' = (DOMAIN entr \ Descendants(entr, r)) \cup {n}
      /\ entr'[n] = [row EXCEPT !.hist = Append(@, n)]
  BY <1>6 DEF InsertRow, Without
<1>9. IsHistoryPrefix(entr[e].hist, entr[d].hist)
  BY <1>4, <1>5, <1>8, OnlyLeafTellsAll
<1>10. /\ row.hist = entr[d].hist /\ row.stat = StatFor(c)
       /\ entr'[n].hist = Append(row.hist, n) /\ entr'[n].stat = row.stat
  BY <1>3, <1>8 DEF ApprovedRow, RowFor, History
<1>11. ~entr'[n].unap
  BY <1>8 DEF ApprovedRow, RowFor
<1>12. entr[e].hist \in Seq(EntrIds) /\ entr[d].hist \in Seq(EntrIds)
  BY <1>1, <1>4 DEF IsTable, Rows
<1>13. IsHistoryPrefix(entr[e].hist, entr'[n].hist)
  BY <1>9, <1>10, <1>12, CarriesOn
<1> QED
  BY <1>2, <1>7, <1>8, <1>10, <1>11, <1>13 DEF ApproveOK

\* reject() finds a first entry to delete: one whose parent is to stay, and
\* below which the rejected entry is the only leaf.
LEMMA FirstIsOnBranch ==
  ASSUME IInv, NEW c \in Calls, RejectOK(entr, c)
  PROVE  LET f == First(entr, RejectSet(entr, c.dfrm)) IN
         /\ c.dfrm \in DOMAIN entr
         /\ f \in RejectSet(entr, c.dfrm) /\ f \in DOMAIN entr
         /\ entr[f].dfrm \notin RejectSet(entr, c.dfrm)
         /\ Leaves(entr, f) = {c.dfrm}
<1> DEFINE d == c.dfrm
           S == RejectSet(entr, d)
<1>1. /\ d \in DOMAIN entr /\ ~HasEdits(entr, d)
      /\ entr[d].dfrm # NoEntr \/ entr[d].unap
  BY DEF RejectOK, MayEdit
<1>2. S \subseteq DOMAIN entr /\ \A a \in S : Leaves(entr, a) = {d}
  BY DEF RejectSet, Segment
<1>3. d \in S
  <2>1. ClosedIn(entr, {d})
    BY <1>1 DEF ClosedIn, HasEdits
  <2>2. Descendants(entr, d) = {d}
    BY <2>1, DescendantsLeast, DescendantsOf
  <2>3. Leaves(entr, d) = {d}
    BY <1>1, <2>2 DEF Leaves
  <2> QED
    BY <1>1, <2>3 DEF RejectSet, Segment
<1>4. \A a \in DOMAIN entr :
        /\ entr[a].hist \in Seq(EntrIds) /\ a \in EntrIds
        /\ entr[a].dfrm # NoEntr =>
             entr[a].hist = Append(entr[entr[a].dfrm].hist, a)
  BY DEF IInv, TypeOK, IsTable, Rows, HistoryChain
<1> HIDE DEF S, d
<1>5. PICK f \in S : \A a \in S : Len(entr[f].hist) <= Len(entr[a].hist)
  <2>1. {Len(entr[a].hist) : a \in S} \in SUBSET Nat
        /\ {Len(entr[a].hist) : a \in S} # {}
    <3>1. \A a \in S : Len(entr[a].hist) \in Nat
      BY <1>2, <1>4
    <3> QED
      BY <1>3, <3>1
  <2>2. PICK m \in {Len(entr[a].hist) : a \in S} :
          \A k \in {Len(entr[a].hist) : a \in S} : m <= k
    BY <2>1, LeastNumber
  <2> QED
    BY <2>2
<1>6. entr[f].dfrm \notin S
  <2> SUFFICES ASSUME entr[f].dfrm \in S
               PROVE  FALSE
    OBVIOUS
  <2>1. entr[f].dfrm # NoEntr
    BY <1>2, NoEntrIsNoId DEF IInv, TypeOK, IsTable
  <2>2. Len(entr[f].hist) = Len(entr[entr[f].dfrm].hist) + 1
    BY <1>2, <1>4, <2>1
  <2>3. Len(entr[f].hist) <= Len(entr[entr[f].dfrm].hist)
    BY <1>5
  <2> QED
    BY <1>2, <1>4, <2>2, <2>3
<1>7. First(entr, S) \in S /\ entr[First(entr, S)].dfrm \notin S
  BY <1>5, <1>6 DEF First
<1> QED
  BY <1>1, <1>2, <1>7 DEF S, d

\* What a rejection removes is told by the row it adds, and is no approved root.
LEMMA RejectKeeps ==
  ASSUME IInv, Bounded, NEW c \in Calls, NEW n \in EntrIds, Reject(c, n),
         NEW e \in DOMAIN entr \ DOMAIN entr'
  PROVE  /\ n \in DOMAIN entr' \ DOMAIN entr
         /\ IsHistoryPrefix(entr[e].hist, entr'[n].hist)
         /\ entr[e].unap
<1> DEFINE row == RejectedRow(entr, c)
           d   == c.dfrm
           f   == First(entr, RejectSet(entr, d))
<1>1. TypeOK /\ IsTable(entr)
  BY DEF IInv, TypeOK
<1>2. RejectOK(entr, c) /\ d # NoEntr
  BY DEF Reject, RejectOK
<1>3. /\ d \in DOMAIN entr /\ f \in DOMAIN entr /\ f \in RejectSet(entr, d)
      /\ Leaves(entr, f) = {d}
  BY <1>2, FirstIsOnBranch
<1>4. entr' = InsertRow(Without(entr, Descendants(entr, f)), n, row)
  BY DEF Reject, Rejected, DeleteRow, Without
<1> HIDE DEF f
<1>5. n \notin DOMAIN entr
  BY <1>1 DEF Reject, Take, TypeOK
<1>6. /\ DOMAIN entr' = (DOMAIN entr \ Descendants(entr, f)) \cup {n}
      /\ entr'[n] = [row EXCEPT !.hist = Append(@, n)]
  BY <1>4 DEF InsertRow, Without
<1>7. e \in Descendants(entr, f)
  BY <1>6
<1>8. IsHistoryPrefix(entr[e].hist, entr[d].hist)
  BY <1>3, <1>7, OnlyLeafTellsAll
<1>9. row.hist = entr[d].hist /\ entr'[n].hist = Append(row.hist, n)
  BY <1>2, <1>6 DEF RejectedRow, RowFor, History
<1>10. entr[e].hist \in Seq(EntrIds) /\ entr[d].hist \in Seq(EntrIds)
  BY <1>1, <1>3 DEF IsTable, Rows
<1>11. IsHistoryPrefix(entr[e].hist, entr'[n].hist)
  BY <1>8, <1>9, <1>10, CarriesOn
<1>12. entr[e].unap
  <2>1. e = f \/ entr[e].dfrm # NoEntr
    BY <1>7 DEF Descendants
  <2>2. entr[f].dfrm # NoEntr \/ entr[f].unap
    BY <1>3 DEF RejectSet
  <2> QED
    BY <1>3, <2>1, <2>2 DEF IInv, LinksOK
<1> QED
  BY <1>5, <1>6, <1>11, <1>12

\* Submitting an edit removes nothing.
LEMMA SubmitKeeps ==
  ASSUME NEW c, NEW n, Submit(c, n)
  PROVE  DOMAIN entr \ DOMAIN entr' = {}
BY DEF Submit, Submitted, InsertRow

\* What the reaper takes is no published entry.
LEMMA ReapTakes ==
  ASSUME NEW S \in SUBSET Reapable(entr), Reap(S),
         NEW e \in DOMAIN entr \ DOMAIN entr'
  PROVE  e \in Reapable(entr) /\ entr[e].stat # "A" /\ used' = used
BY DEF Reap, Reapable

Kept(e) ==
  \/ e \in Reapable(entr) /\ used' = used
  \/ \E n \in DOMAIN entr' \ DOMAIN entr :
       IsHistoryPrefix(entr[e].hist, entr'[n].hist)

SupersededBy(e) ==
  entr[e].stat = "A" /\ ~entr[e].unap =>
    \E n \in DOMAIN entr' \ DOMAIN entr :
      /\ entr'[n].stat # "R" /\ ~entr'[n].unap
      /\ IsHistoryPrefix(entr[e].hist, entr'[n].hist)

\* What a step removes is told by a row it adds, or was reaped; a published
\* entry is replaced by an approved one.
LEMMA NextKeeps ==
  ASSUME IInv, Bounded, Next, NEW e \in DOMAIN entr \ DOMAIN entr'
  PROVE  Kept(e) /\ SupersededBy(e)
<1>1. ASSUME NEW c \in Calls, NEW n \in EntrIds, Submit(c, n)
      PROVE  Kept(e) /\ SupersededBy(e)
  BY <1>1, SubmitKeeps
<1>2. ASSUME NEW c \in Calls, NEW n \in EntrIds, Approve(c, n)
      PROVE  Kept(e) /\ SupersededBy(e)
  BY <1>2, ApproveKeeps DEF Kept, SupersededBy
<1>3. ASSUME NEW c \in Calls, NEW n \in EntrIds, Reject(c, n)
      PROVE  Kept(e) /\ SupersededBy(e)
  BY <1>3, RejectKeeps DEF Kept, SupersededBy
<1>4. ASSUME NEW S \in SUBSET Reapable(entr), Reap(S)
      PROVE  Kept(e) /\ SupersededBy(e)
  BY <1>4, ReapTakes DEF Kept, SupersededBy
<1> QED
  BY <1>1, <1>2, <1>3, <1>4 DEF Next

\* The invariant holds together with the bound on histories.
LEMMA BoundedAlways == Spec => [](IInv /\ Bounded)
<1>1. Init => IInv /\ Bounded
  BY InitIInv, InitBounded
<1>2. IInv /\ Bounded /\ [Next]_vars => (IInv /\ Bounded)'
  BY StepIInv, StepBounded DEF IInv
<1> QED
  BY <1>1, <1>2, PTL DEF Spec

\* approve() and reject() lose no history: whatever goes is told by a row that
\* comes.
THEOREM NoHistoryLost == Spec => HistoryKept
<1>1. IInv /\ Bounded /\ [Next]_vars =>
        [\A e \in DOMAIN entr \ DOMAIN entr' :
           \/ e \in Reapable(entr) /\ used' = used
           \/ \E n \in DOMAIN entr' \ DOMAIN entr :
                IsHistoryPrefix(entr[e].hist, entr'[n].hist)]_vars
  BY NextKeeps DEF Kept
<1> QED
  BY <1>1, BoundedAlways, PTL DEF Spec, HistoryKept

\* A published entry goes only when an approved one takes its place.
THEOREM PublishedStays == Spec => PublishedSuperseded
<1>1. IInv /\ Bounded /\ [Next]_vars =>
        [\A e \in DOMAIN entr \ DOMAIN entr' :
           entr[e].stat = "A" /\ ~entr[e].unap =>
             \E n \in DOMAIN entr' \ DOMAIN entr :
               /\ entr'[n].stat # "R" /\ ~entr'[n].unap
               /\ IsHistoryPrefix(entr[e].hist, entr'[n].hist)]_vars
  BY NextKeeps DEF SupersededBy
<1> QED
  BY <1>1, BoundedAlways, PTL DEF Spec, PublishedSuperseded

-----------------------------------------------------------------------------
(* Pending edits.  A row below the first entry that reject() deletes has no*)
(* leaf but the rejected one, so the delete takes nothing else; and there  *)
(* is no entry to reject above the first one, since the entries on the path*)
(* to a leaf are ordered and the parent of the first is to stay.           *)

\* Entries below one that has a single leaf have that leaf only.
LEMMA OnlyLeafBelow ==
  ASSUME IInv, Bounded, NEW r \in DOMAIN entr, NEW l, Leaves(entr, r) = {l},
         NEW d \in Descendants(entr, r)
  PROVE  d \in DOMAIN entr /\ Leaves(entr, d) = {l}
<1>1. d \in DOMAIN entr
  BY DescendantsOf
<1>2. Leaves(entr, d) \subseteq {l}
  BY DescendantsTrans DEF Leaves
<1> QED
  BY <1>1, <1>2, LeafBelow

\* What reject() deletes is the set of entries that it means to delete.
LEMMA RejectSetIsBranch ==
  ASSUME IInv, Bounded, NEW e, NEW f \in RejectSet(entr, e),
         entr[f].dfrm \notin RejectSet(entr, e)
  PROVE  Descendants(entr, f) = RejectSet(entr, e)
<1>1. \A a \in RejectSet(entr, e) :
        /\ a \in DOMAIN entr /\ Leaves(entr, a) = {e}
        /\ e \in Descendants(entr, a)
        /\ entr[a].dfrm # NoEntr \/ entr[a].unap
  BY DEF RejectSet, Segment, Leaves
<1>2. ASSUME NEW a \in RejectSet(entr, e), NEW d \in Descendants(entr, a)
      PROVE  d \in RejectSet(entr, e)
  <2>1. d \in DOMAIN entr /\ Leaves(entr, d) = {e}
    BY <1>1, OnlyLeafBelow
  <2>2. d = a \/ entr[d].dfrm # NoEntr
    BY DescendantsParent
  <2> QED
    BY <1>1, <2>1, <2>2 DEF RejectSet, Segment
<1>3. ASSUME NEW a \in RejectSet(entr, e)
      PROVE  a \in Descendants(entr, f)
  <2> SUFFICES ASSUME a \notin Descendants(entr, f)
               PROVE  FALSE
    OBVIOUS
  <2>1. f \in Descendants(entr, a) /\ f # a
    BY <1>1, DescendantsChain, DescendantsOf
  <2>2. entr[f].dfrm \in Descendants(entr, a)
    BY <2>1, DescendantsParent
  <2> QED
    BY <1>2, <2>2
<1> QED
  BY <1>2, <1>3

\* A leaf that is not approved can be rejected, and goes with its branch only.
LEMMA LeafCanBeRejected ==
  ASSUME IInv, Bounded, NEW e \in DOMAIN entr, ~HasEdits(entr, e), entr[e].unap
  PROVE  LET gone == Descendants(entr, First(entr, RejectSet(entr, e)))
         IN  /\ RejectOK(entr, [disp |-> "r", dfrm |-> e, stat |-> "A",
                                key |-> entr[e].key, forks |-> FALSE])
             /\ RejectSet(entr, e) # {}
             /\ gone = RejectSet(entr, e)
             /\ {l \in gone : ~HasEdits(entr, l)} = {e}
<1> DEFINE c == [disp |-> "r", dfrm |-> e, stat |-> "A",
                 key |-> entr[e].key, forks |-> FALSE]
           f == First(entr, RejectSet(entr, e))
<1>1. e \in EntrIds /\ e # NoEntr /\ entr[e].key \in Keys
  BY NoEntrIsNoId DEF IInv, TypeOK, IsTable, Rows
<1>2. c \in Calls /\ c.dfrm = e
  BY <1>1 DEF Calls, Stats
<1>3. RejectOK(entr, c)
  <2>1. entr[e].stat # "R"
    BY DEF IInv, LinksOK
  <2> QED
    BY <1>1, <2>1 DEF RejectOK, MayEdit
<1> HIDE DEF c
<1>4. /\ f \in RejectSet(entr, e) /\ entr[f].dfrm \notin RejectSet(entr, e)
      /\ Leaves(entr, f) = {e}
  BY <1>2, <1>3, FirstIsOnBranch
<1>5. Descendants(entr, f) = RejectSet(entr, e)
  BY <1>4, RejectSetIsBranch
<1>6. {l \in Descendants(entr, f) : ~HasEdits(entr, l)} = {e}
  BY <1>4 DEF Leaves
<1> QED
  BY <1>3, <1>4, <1>5, <1>6 DEF c

\* An editor can always bring a pending edit to an end.
THEOREM PendingEnds == Spec => []PendingCanBeRejected
<1>1. IInv /\ Bounded => PendingCanBeRejected
  BY LeafCanBeRejected DEF PendingCanBeRejected
<1> QED
  BY <1>1, BoundedAlways, PTL
=============================================================================
