--------------------------- MODULE WebEdit_proofs ---------------------------
(***************************************************************************)
(* What the pages of WebEdit promise, for any number of users, entries and *)
(* numbers.                                                                *)
(*                                                                         *)
(* Rows do not change and their ids are not given out again, so that a page*)
(* goes on telling the truth about the rows it was made from; what it does *)
(* not know are the rows that have come and gone since.                    *)
(***************************************************************************)
EXTENDS WebEdit, FiniteSetTheorems, TLAPS

Proved == INSTANCE EditTree_proofs

\* What EditTree assumes of its constants.
LEMMA ConstantsOK ==
  /\ NoEntr \notin EntrIds
  /\ AllowForks \in BOOLEAN
  /\ Corpus \subseteq EntrIds /\ Proved!IsFiniteSet(Corpus)
BY NoEntrIsNoId, AllowForksIsBoolean, CorpusIsLoaded
  DEF IsFiniteSet, Proved!IsFiniteSet

\* S has, with a row, the edits made from it.
ClosedIn(T, S) ==
  \A c \in DOMAIN T : T[c].dfrm # NoEntr /\ T[c].dfrm \in S => c \in S

-----------------------------------------------------------------------------
(* What EditTree_proofs shows of edit trees. *)

\* An entry is one of its descendants, and the others are rows of the table.
LEMMA DescendantsOf ==
  ASSUME NEW T, NEW e
  PROVE  /\ e \in Descendants(T, e)
         /\ Descendants(T, e) \subseteq {e} \cup DOMAIN T
BY ConstantsOK, Proved!DescendantsOf
  DEF Descendants, Proved!Descendants

\* The descendants of an entry have all the edits made from them.
LEMMA DescendantsClosed ==
  ASSUME NEW T, NEW e
  PROVE  ClosedIn(T, Descendants(T, e))
BY ConstantsOK, Proved!DescendantsClosed
  DEF Descendants, ClosedIn, Proved!Descendants, Proved!ClosedIn

\* No smaller set has the entry and is closed under edits.
LEMMA DescendantsLeast ==
  ASSUME NEW T, NEW e, NEW X, e \in X, ClosedIn(T, X)
  PROVE  Descendants(T, e) \subseteq X
BY ConstantsOK, Proved!DescendantsLeast
  DEF Descendants, ClosedIn, Proved!Descendants, Proved!ClosedIn

\* The operators on trees of EditTree_proofs are those of this module.
LEMMA SameOperators ==
  ASSUME NEW T, NEW e
  PROVE  /\ Root(T, e) = Proved!Root(T, e)
         /\ IsForest(T) <=> Proved!IsForest(T)
         /\ Descendants(T, e) = Proved!Descendants(T, e)
<1>1. \A a : Descendants(T, a) = Proved!Descendants(T, a)
  BY DEF Descendants, Proved!Descendants
<1>2. Root(T, e) = Proved!Root(T, e)
  BY <1>1 DEF Root, Proved!Root
<1>3. IsForest(T) <=> Proved!IsForest(T)
  BY <1>1 DEF IsForest, Proved!IsForest
<1> QED
  BY <1>1, <1>2, <1>3

\* In a forest Root finds the root, the only one.
LEMMA RootOf ==
  ASSUME NEW T, IsForest(T), NEW e \in DOMAIN T
  PROVE  /\ Root(T, e) \in DOMAIN T
         /\ T[Root(T, e)].dfrm = NoEntr
         /\ e \in Descendants(T, Root(T, e))
         /\ \A q \in DOMAIN T :
              T[q].dfrm = NoEntr /\ e \in Descendants(T, q) => q = Root(T, e)
BY ConstantsOK, SameOperators, Proved!RootOf

-----------------------------------------------------------------------------

\* The page that [Next] makes.
ConfirmPage(u, c, R, flagged) ==
  [at |-> "confirm", eid |-> page[u].eid, hist |-> page[u].hist,
   call |-> c, flagged |-> flagged, table |-> entr, refs |-> R,
   from |-> Targets(R), open |-> {k \in R : Targets({k}) = {}},
   to |-> IF c.dfrm = NoEntr THEN {} ELSE To(c.dfrm)]

FormPage(e, h) == [at |-> "form", eid |-> e, hist |-> h]

-----------------------------------------------------------------------------
(* What [Next] foresees. *)

Foreseen(p) ==
  p.at = "confirm" /\ p.call.dfrm # NoEntr =>
    LET c == p.call
        T == p.table
    IN  /\ HasEdits(T, c.dfrm) => c.forks
        /\ c.disp = "a" => IsOnlyLeaf(T, c.dfrm)
        /\ c.disp = "r" => ~HasEdits(T, c.dfrm)

\* A step changes the page of one user: it is closed, shows the form, or
\* [Next] makes a confirmation page of it.
LEMMA PageSteps ==
  ASSUME Next
  PROVE  \E u \in Users :
           \/ page' = [page EXCEPT ![u] = NoPage]
           \/ \E e, h : page' = [page EXCEPT ![u] = FormPage(e, h)]
           \/ \E c \in PageCalls, R \in SUBSET Refs :
                /\ NextNew(u, c, R)
                /\ page' = [page EXCEPT ![u] = ConfirmPage(u, c, R, {})]
           \/ \E c \in PageCalls, R \in SUBSET Refs :
                /\ NextEdit(u, c, R)
                /\ page' = [page EXCEPT ![u] =
                     ConfirmPage(u, c, R, Flagged(page[u].eid, c.dfrm))]
<1>1. \A u, c, R, flagged : Confirm(u, c, R, flagged) =>
        page' = [page EXCEPT ![u] = ConfirmPage(u, c, R, flagged)]
  BY Zenon DEF Confirm, ConfirmPage
<1>2. PICK u \in Users :
        \/ \E e \in EntrIds \cup {NoEntr} : OpenForm(u, e)
        \/ \E c \in PageCalls, R \in SUBSET Refs : c.key \notin R /\ NextNew(u, c, R)
        \/ \E c \in PageCalls, R \in SUBSET Refs : c.key \notin R /\ NextEdit(u, c, R)
        \/ \E n \in EntrIds : Submit(u, n)
        \/ Leave(u)
        \/ Back(u)
  BY Zenon DEF Next
<1>3. CASE \E e \in EntrIds \cup {NoEntr} : OpenForm(u, e)
  <2>1. \E e, h : page' = [page EXCEPT ![u] = FormPage(e, h)]
    BY <1>3, Zenon DEF OpenForm, FormPage
  <2> QED
    BY <2>1, Zenon
<1>4. CASE \E c \in PageCalls, R \in SUBSET Refs : c.key \notin R /\ NextNew(u, c, R)
  <2>1. PICK c \in PageCalls, R \in SUBSET Refs : NextNew(u, c, R)
    BY <1>4, Zenon
  <2>2. page' = [page EXCEPT ![u] = ConfirmPage(u, c, R, {})]
    BY <1>1, <2>1, Zenon DEF NextNew
  <2> QED
    BY <2>1, <2>2, Zenon
<1>5. CASE \E c \in PageCalls, R \in SUBSET Refs : c.key \notin R /\ NextEdit(u, c, R)
  <2>1. PICK c \in PageCalls, R \in SUBSET Refs : NextEdit(u, c, R)
    BY <1>5, Zenon
  <2>2. page' = [page EXCEPT ![u] = ConfirmPage(u, c, R, Flagged(page[u].eid, c.dfrm))]
    BY <1>1, <2>1, Zenon DEF NextEdit
  <2> QED
    BY <2>1, <2>2, Zenon
<1>6. CASE (\E n \in EntrIds : Submit(u, n)) \/ Leave(u)
  <2>1. page' = [page EXCEPT ![u] = NoPage]
    BY <1>6, Zenon DEF Submit, Leave
  <2> QED
    BY <2>1, Zenon
<1>7. CASE Back(u)
  <2>1. \E e, h : page' = [page EXCEPT ![u] = FormPage(e, h)]
    BY <1>7, Zenon DEF Back, FormPage
  <2> QED
    BY <2>1, Zenon
<1> QED
  BY <1>2, <1>3, <1>4, <1>5, <1>6, <1>7, Zenon

\* A page is confirmed for a leaf, or for a fork.
LEMMA ConfirmForesees ==
  ASSUME NEW u, NEW c \in PageCalls, NEW R, NextEdit(u, c, R)
  PROVE  /\ HasEdits(entr, c.dfrm) => c.forks
         /\ c.disp = "a" => IsOnlyLeaf(entr, c.dfrm)
         /\ c.disp = "r" => ~HasEdits(entr, c.dfrm)
<1>1. /\ c.dfrm \in AllLeaves(c.dfrm) \/ (c.disp = "" /\ c.forks)
      /\ c.disp = "a" => AllLeaves(c.dfrm) = {c.dfrm}
  BY DEF NextEdit, MayConfirm
<1>2. c.dfrm \in AllLeaves(c.dfrm) => ~HasEdits(entr, c.dfrm)
  BY DEF AllLeaves, Leaves
<1> QED
  BY <1>1, <1>2 DEF AllLeaves, IsOnlyLeaf

\* Other pages stay as they are.
LEMMA StepForeseen ==
  ASSUME DOMAIN page = Users, \A u \in Users : Foreseen(page[u]), Next
  PROVE  DOMAIN page' = Users /\ \A u \in Users : Foreseen(page'[u])
<1>1. ASSUME NEW u \in Users, NEW p, page' = [page EXCEPT ![u] = p], Foreseen(p)
      PROVE  DOMAIN page' = Users /\ \A v \in Users : Foreseen(page'[v])
  BY <1>1
<1>2. Foreseen(NoPage) /\ \A e, h : Foreseen(FormPage(e, h))
  BY DEF Foreseen, NoPage, FormPage
<1>3. ASSUME NEW u, NEW c, NEW R, c.dfrm = NoEntr
      PROVE  Foreseen(ConfirmPage(u, c, R, {}))
  BY <1>3 DEF ConfirmPage, Foreseen
<1>4. ASSUME NEW u, NEW c \in PageCalls, NEW R, NEW fl, NextEdit(u, c, R)
      PROVE  Foreseen(ConfirmPage(u, c, R, fl))
  <2> DEFINE p == ConfirmPage(u, c, R, fl)
  <2>1. p.call = c /\ p.table = entr
    BY DEF ConfirmPage
  <2> HIDE DEF p
  <2> QED
    BY <1>4, <2>1, ConfirmForesees DEF Foreseen, p
<1> QED
  BY <1>1, <1>2, <1>3, <1>4, PageSteps DEF NextNew

\* In the table that [Next] saw, the checks of the submission succeed.
THEOREM ChecksForeseen == Spec => []NextForesees
<1> DEFINE Inv == DOMAIN page = Users /\ \A u \in Users : Foreseen(page[u])
<1>1. Init => Inv
  BY DEF Init, NoPage, Foreseen
<1>2. Inv /\ [Next]_vars => Inv'
  BY StepForeseen DEF vars
<1>3. Inv => NextForesees
  BY DEF Foreseen, NextForesees
<1> QED
  BY <1>1, <1>2, <1>3, PTL DEF Spec

-----------------------------------------------------------------------------
(* What [Submit] writes. *)

RecordsIn(h) == {h[i] : i \in 1 .. Len(h)}

\* A submission is a call of EditTree, in the terms of the lemmas about it.
LEMMA SubmitIsCall ==
  ASSUME NEW u, NEW n, Submit(u, n)
  PROVE  LET c == page[u].call
         IN  Proved!Submit(c, n) \/ Proved!Approve(c, n) \/ Proved!Reject(c, n)
<1> DEFINE c == page[u].call
<1>1. Trees!Submit(c, n) \/ Trees!Approve(c, n) \/ Trees!Reject(c, n)
  BY DEF Submit
<1> HIDE DEF c
<1>2. CASE Trees!Submit(c, n)
  <2>1. Proved!Submit(c, n)
    BY <1>2
      DEF Proved!Submit, Trees!Submit, Proved!SubmitOK, Trees!SubmitOK,
          Proved!Take, Trees!Take, Proved!MayEdit, Trees!MayEdit,
          Proved!HasEdits, Trees!HasEdits, Proved!StatFor, Trees!StatFor,
          Proved!Submitted, Trees!Submitted, Proved!InsertRow,
          Trees!InsertRow, Proved!SubmittedRow, Trees!SubmittedRow,
          Proved!RowFor, Trees!RowFor, Proved!KeyOf, Trees!KeyOf,
          Proved!History, Trees!History
  <2> QED
    BY <2>1 DEF c
<1>3. CASE Trees!Approve(c, n)
  <2>1. Proved!Approve(c, n)
    BY <1>3
      DEF Proved!Approve, Trees!Approve, Proved!ApproveOK, Trees!ApproveOK,
          Proved!Take, Trees!Take, Proved!MayEdit, Trees!MayEdit,
          Proved!HasEdits, Trees!HasEdits, Proved!StatFor, Trees!StatFor,
          Proved!Approved, Trees!Approved, Proved!InsertRow, Trees!InsertRow,
          Proved!ApprovedRow, Trees!ApprovedRow, Proved!RowFor, Trees!RowFor,
          Proved!KeyOf, Trees!KeyOf, Proved!History, Trees!History,
          Proved!WithoutTree, Trees!WithoutTree, Proved!DeleteRow,
          Trees!DeleteRow, Proved!Root, Trees!Root, Proved!Descendants,
          Trees!Descendants, Proved!Leaves, Trees!Leaves, Proved!IsOnlyLeaf,
          Trees!IsOnlyLeaf, Proved!Fits, Trees!Fits, Proved!KeyIsFree,
          Trees!KeyIsFree
  <2> QED
    BY <2>1 DEF c
<1>4. CASE Trees!Reject(c, n)
  <2>1. Proved!Reject(c, n)
    BY <1>4
      DEF Proved!Reject, Trees!Reject, Proved!RejectOK, Trees!RejectOK,
          Proved!Take, Trees!Take, Proved!MayEdit, Trees!MayEdit,
          Proved!HasEdits, Trees!HasEdits, Proved!Rejected, Trees!Rejected,
          Proved!InsertRow, Trees!InsertRow, Proved!RejectedRow,
          Trees!RejectedRow, Proved!RowFor, Trees!RowFor, Proved!KeyOf,
          Trees!KeyOf, Proved!History, Trees!History, Proved!DeleteRow,
          Trees!DeleteRow, Proved!Descendants, Trees!Descendants,
          Proved!Leaves, Trees!Leaves, Proved!First, Trees!First,
          Proved!RejectSet, Trees!RejectSet, Proved!Segment, Trees!Segment
  <2> QED
    BY <2>1 DEF c
<1> QED
  BY <1>1, <1>2, <1>3, <1>4

\* The rows that a call may write have the history of its parent.
LEMMA SubmitIsChange ==
  ASSUME Proved!TypeOK, NEW u, page[u].call \in Calls, NEW n \in EntrIds,
         Submit(u, n)
  PROVE  LET c == page[u].call
         IN  /\ c.dfrm = NoEntr \/ c.dfrm \in DOMAIN entr
             /\ \E X, row : /\ Proved!Change(X, n, row) /\ Proved!Carries(row)
                           /\ row.hist = History(entr, c.dfrm)
<1> DEFINE c == page[u].call
<1>1. c \in Proved!Calls
  BY DEF Calls, Proved!Calls, Stats, Proved!Stats
<1>2. Proved!Submit(c, n) \/ Proved!Approve(c, n) \/ Proved!Reject(c, n)
  BY SubmitIsCall
<1> HIDE DEF c
<1>3. Proved!MayEdit(entr, c)
  BY <1>2 DEF Proved!Submit, Proved!SubmitOK, Proved!Approve, Proved!ApproveOK,
              Proved!Reject, Proved!RejectOK
<1>4. /\ Proved!SubmittedRow(entr, c).hist = History(entr, c.dfrm)
      /\ Proved!ApprovedRow(entr, c).hist = History(entr, c.dfrm)
      /\ Proved!RejectedRow(entr, c).hist = History(entr, c.dfrm)
  BY DEF Proved!SubmittedRow, Proved!ApprovedRow, Proved!RejectedRow,
         Proved!RowFor, Proved!History, History
<1>5. CASE Proved!Submit(c, n)
  <2>1. /\ Proved!Change({}, n, Proved!SubmittedRow(entr, c))
        /\ Proved!Carries(Proved!SubmittedRow(entr, c))
    BY <1>1, <1>5, ConstantsOK, Proved!SubmitIsChange
  <2> QED
    BY <1>3, <1>4, <2>1 DEF Proved!MayEdit, c
<1>6. CASE Proved!Approve(c, n)
  <2>1. /\ \E X : Proved!Change(X, n, Proved!ApprovedRow(entr, c))
        /\ Proved!Carries(Proved!ApprovedRow(entr, c))
    BY <1>1, <1>6, ConstantsOK, Proved!ApproveIsChange
  <2> QED
    BY <1>3, <1>4, <2>1 DEF Proved!MayEdit, c
<1>7. CASE Proved!Reject(c, n)
  <2>1. /\ \E X : Proved!Change(X, n, Proved!RejectedRow(entr, c))
        /\ Proved!Carries(Proved!RejectedRow(entr, c))
    BY <1>1, <1>7, ConstantsOK, Proved!RejectIsChange
  <2> QED
    BY <1>3, <1>4, <2>1 DEF Proved!MayEdit, c
<1> QED
  BY <1>2, <1>5, <1>6, <1>7

\* The part of the invariant that is about the table.
TableOK == Proved!TypeOK /\ Proved!LinksOK /\ Proved!HistoryChain

\* Ids are never given out again, and rows do not change.
RowsStay ==
  /\ used \subseteq used'
  /\ \A i \in used : i \in DOMAIN entr' => i \in DOMAIN entr /\ entr'[i] = entr[i]

\* A submission adds one row, with the history of its parent and a record.
LEMMA SubmitWrites ==
  ASSUME TableOK, NEW u, page[u].call \in Calls, NEW n \in EntrIds, Submit(u, n)
  PROVE  LET c == page[u].call
         IN  /\ TableOK' /\ RowsStay
             /\ c.dfrm = NoEntr \/ c.dfrm \in DOMAIN entr
             /\ DOMAIN entr' \subseteq DOMAIN entr \cup {n}
             /\ entr'[n].hist = Append(History(entr, c.dfrm), n)
<1> DEFINE c == page[u].call
<1>1. PICK X, row : /\ Proved!Change(X, n, row) /\ Proved!Carries(row)
                    /\ row.hist = History(entr, c.dfrm)
  BY SubmitIsChange DEF TableOK
<1>2. /\ n \notin used
      /\ DOMAIN entr' = (DOMAIN entr \ X) \cup {n}
      /\ \A i \in DOMAIN entr \ X : entr'[i] = entr[i]
  BY <1>1, ConstantsOK, Proved!ChangeRows DEF TableOK
<1>3. entr'[n].hist = Append(History(entr, c.dfrm), n)
  BY <1>1, ConstantsOK, Proved!ChangeFields DEF TableOK
<1>4. TableOK'
  BY <1>1, ConstantsOK, Proved!ChangeTypeOK, Proved!ChangeLinksOK,
     Proved!ChangeHistoryChain DEF TableOK
<1>5. used' = used \cup {n}
  BY <1>1 DEF Proved!Change
<1>6. RowsStay
  BY <1>2, <1>5 DEF RowsStay
<1>7. c.dfrm = NoEntr \/ c.dfrm \in DOMAIN entr
  BY SubmitIsChange DEF TableOK
<1> QED
  BY <1>2, <1>3, <1>4, <1>6, <1>7

-----------------------------------------------------------------------------
(* What a submission overwrites. *)

\* What a page says of the rows it was made from, as long as they are there.
PageOK(T, ids, p) ==
  /\ p.at \in {"form", "confirm"} =>
       /\ p.eid \in ids \cup {NoEntr}
       /\ p.eid \in DOMAIN T => p.hist = T[p.eid].hist
  /\ p.at = "confirm" =>
       /\ p.call \in Calls /\ p.call.dfrm \in ids \cup {NoEntr}
       /\ p.call.dfrm \in DOMAIN T =>
            RecordsIn(T[p.call.dfrm].hist) \subseteq p.flagged \cup RecordsIn(p.hist)

\* The invariant that OverwritesFlagged needs.
PInv == /\ TableOK
        /\ DOMAIN page = Users
        /\ \A u \in Users : PageOK(entr, used, page[u])

\* A history with one record more.
LEMMA RecordsInAppend ==
  ASSUME NEW g \in Seq(EntrIds), NEW n
  PROVE  RecordsIn(Append(g, n)) = RecordsIn(g) \cup {n}
<1> DEFINE h == Append(g, n)
<1>1. Len(g) \in Nat
  OBVIOUS
<1>2. /\ Len(h) = Len(g) + 1
      /\ \A i \in 1 .. Len(g) : h[i] = g[i]
      /\ h[Len(g) + 1] = n
  OBVIOUS
<1> HIDE DEF h
<1>3. 1 .. Len(h) = (1 .. Len(g)) \cup {Len(g) + 1}
  BY <1>1, <1>2
<1> QED
  BY <1>2, <1>3 DEF RecordsIn, h

\* What an edit's history tells more than that of an entry it was made from,
\* directly or not, are edits made from that entry.
LEMMA HistoryBetween ==
  ASSUME TableOK, NEW e \in DOMAIN entr, NEW d \in Descendants(entr, e)
  PROVE  RecordsIn(entr[d].hist) \subseteq
           RecordsIn(entr[e].hist) \cup (Descendants(entr, e) \ {e})
<1> DEFINE D == Descendants(entr, e)
           all == RecordsIn(entr[e].hist) \cup (D \ {e})
           X == {c \in D : RecordsIn(entr[c].hist) \subseteq all}
<1>1. e \in X
  BY DescendantsOf
<1>2. ClosedIn(entr, X)
  <2> SUFFICES ASSUME NEW c \in DOMAIN entr, entr[c].dfrm # NoEntr,
                      entr[c].dfrm \in X
               PROVE  c \in X
    BY DEF ClosedIn
  <2>1. c \in D
    BY DescendantsClosed DEF ClosedIn
  <2>2. CASE c = e
    BY <1>1, <2>2
  <2>3. CASE c # e
    <3>1. entr[c].hist = Append(entr[entr[c].dfrm].hist, c)
      BY DEF TableOK, Proved!HistoryChain
    <3>2. entr[entr[c].dfrm].hist \in Seq(EntrIds)
      BY DEF TableOK, Proved!LinksOK, Proved!TypeOK, Proved!IsTable, Proved!Rows
    <3>3. RecordsIn(entr[c].hist) = RecordsIn(entr[entr[c].dfrm].hist) \cup {c}
      BY <3>1, <3>2, RecordsInAppend
    <3> QED
      BY <2>1, <2>3, <3>3
  <2> QED
    BY <2>2, <2>3
<1>3. D \subseteq X
  <2> HIDE DEF X
  <2> QED
    BY <1>1, <1>2, DescendantsLeast
<1> QED
  BY <1>3

\* The confirmation page flags what the form has not told.
LEMMA ConfirmFlags ==
  ASSUME TableOK, NEW u, NEW c \in PageCalls, NEW R, NextEdit(u, c, R)
  PROVE  LET e == page[u].eid
         IN  /\ e \in DOMAIN entr /\ c.dfrm \in DOMAIN entr
             /\ RecordsIn(entr[c.dfrm].hist) \subseteq
                  Flagged(e, c.dfrm) \cup RecordsIn(entr[e].hist)
<1> DEFINE e == page[u].eid
           d == c.dfrm
<1>1. e \in DOMAIN entr /\ d \in DOMAIN entr /\ d = Parent(e, c.disp, c.forks)
  BY DEF NextEdit
<1>2. CASE d = e
  BY <1>1, <1>2
<1>3. CASE d # e
  <2>1. TailOf(e) # {} /\ d = (CHOOSE l \in Leaves(entr, e) : TRUE)
    BY <1>1, <1>3 DEF Parent
  <2>2. /\ TailOf(e) = Descendants(entr, e) \ {e}
        /\ Cardinality(Leaves(entr, e)) = 1
    BY <2>1 DEF TailOf
  <2>3. Leaves(entr, e) # {}
    BY <2>2, FS_EmptySet
  <2>4. d \in Descendants(entr, e)
    BY <2>1, <2>3 DEF Leaves
  <2>5. RecordsIn(entr[d].hist) \subseteq
          RecordsIn(entr[e].hist) \cup (Descendants(entr, e) \ {e})
    BY <1>1, <2>4, HistoryBetween
  <2> QED
    BY <1>1, <2>2, <2>5 DEF Flagged, RecordsIn
<1> QED
  BY <1>2, <1>3

\* What a page says stays true, as rows do not change.
LEMMA PageStaysOK ==
  ASSUME RowsStay, NEW p, PageOK(entr, used, p), NoEntr \notin DOMAIN entr'
  PROVE  PageOK(entr', used', p)
<1>1. \A e \in used \cup {NoEntr} :
        /\ e \in used' \cup {NoEntr}
        /\ e \in DOMAIN entr' => e \in DOMAIN entr /\ entr'[e] = entr[e]
  BY DEF RowsStay
<1> QED
  BY <1>1 DEF PageOK

\* A page that is made tells the truth.
LEMMA NewPageOK ==
  ASSUME PInv, NEW u \in Users
  PROVE  /\ PageOK(entr, used, NoPage)
         /\ \A e \in DOMAIN entr \cup {NoEntr} :
              PageOK(entr, used, FormPage(e, History(entr, e)))
         /\ page[u].at = "confirm" =>
              PageOK(entr, used, FormPage(page[u].eid, page[u].hist))
         /\ \A c \in PageCalls : \A R : NextNew(u, c, R) =>
              PageOK(entr, used, ConfirmPage(u, c, R, {}))
         /\ \A c \in PageCalls : \A R : NextEdit(u, c, R) =>
              PageOK(entr, used,
                     ConfirmPage(u, c, R, Flagged(page[u].eid, c.dfrm)))
<1>1. DOMAIN entr \subseteq used /\ NoEntr \notin DOMAIN entr
  BY NoEntrIsNoId DEF PInv, TableOK, Proved!TypeOK, Proved!IsTable
<1>2. PageOK(entr, used, page[u])
  BY DEF PInv
<1>3. PageOK(entr, used, NoPage)
  BY DEF PageOK, NoPage
<1>4. ASSUME NEW e \in DOMAIN entr \cup {NoEntr}
      PROVE  PageOK(entr, used, FormPage(e, History(entr, e)))
  BY <1>1 DEF PageOK, FormPage, History
<1>5. ASSUME page[u].at = "confirm"
      PROVE  PageOK(entr, used, FormPage(page[u].eid, page[u].hist))
  BY <1>2, <1>5 DEF PageOK, FormPage
<1>6. ASSUME NEW c \in PageCalls, NEW R, NextNew(u, c, R)
      PROVE  PageOK(entr, used, ConfirmPage(u, c, R, {}))
  <2> DEFINE p == ConfirmPage(u, c, R, {})
  <2>1. p.at = "confirm" /\ p.call = c /\ p.eid = page[u].eid
    BY DEF ConfirmPage
  <2>2. page[u].eid = NoEntr /\ c.dfrm = NoEntr /\ c \in Calls
    BY <1>6 DEF NextNew, PageCalls
  <2> HIDE DEF p
  <2> QED
    BY <1>1, <2>1, <2>2 DEF PageOK, p
<1>7. ASSUME NEW c \in PageCalls, NEW R, NextEdit(u, c, R)
      PROVE  PageOK(entr, used,
                    ConfirmPage(u, c, R, Flagged(page[u].eid, c.dfrm)))
  <2> DEFINE p == ConfirmPage(u, c, R, Flagged(page[u].eid, c.dfrm))
             e == page[u].eid
  <2>1. /\ p.at = "confirm" /\ p.call = c /\ p.eid = e
        /\ p.hist = page[u].hist /\ p.flagged = Flagged(e, c.dfrm)
    BY DEF ConfirmPage
  <2>2. /\ e \in DOMAIN entr /\ c.dfrm \in DOMAIN entr
        /\ RecordsIn(entr[c.dfrm].hist) \subseteq
             Flagged(e, c.dfrm) \cup RecordsIn(entr[e].hist)
    BY <1>7, ConfirmFlags DEF PInv
  <2>3. page[u].hist = entr[e].hist
    BY <1>2, <1>7, <2>2 DEF NextEdit, PageOK
  <2>4. c \in Calls
    BY DEF PageCalls
  <2> HIDE DEF p, e
  <2> QED
    BY <1>1, <2>1, <2>2, <2>3, <2>4 DEF PageOK, p, e
<1> QED
  BY <1>3, <1>4, <1>5, <1>6, <1>7

\* One user's page changes, and the others' stay as they are.
LEMMA OnePage ==
  ASSUME PInv, NEW u \in Users, NEW p, page' = [page EXCEPT ![u] = p],
         NEW T, NEW ids, PageOK(T, ids, p),
         \A v \in Users : PageOK(T, ids, page[v])
  PROVE  DOMAIN page' = Users /\ \A v \in Users : PageOK(T, ids, page'[v])
BY DEF PInv

\* Pages that do not submit leave the table alone.
LEMMA QuietPInv ==
  ASSUME PInv, NEW u \in Users, UNCHANGED <<entr, used>>,
         NEW p, page' = [page EXCEPT ![u] = p], PageOK(entr, used, p)
  PROVE  PInv'
<1>1. DOMAIN page' = Users /\ \A v \in Users : PageOK(entr, used, page'[v])
  BY OnePage DEF PInv
<1>2. TableOK'
  BY DEF PInv, TableOK, Proved!TypeOK, Proved!IsTable, Proved!LinksOK,
         Proved!HistoryChain
<1> QED
  BY <1>1, <1>2 DEF PInv

\* The invariant is inductive.
LEMMA StepPInv == PInv /\ [Next]_vars => PInv'
<1> SUFFICES ASSUME PInv, [Next]_vars PROVE PInv'
  OBVIOUS
<1>1. ASSUME NEW u \in Users, NEW n \in EntrIds, Submit(u, n)
      PROVE  PInv'
  <2>1. page[u].call \in Calls /\ page' = [page EXCEPT ![u] = NoPage]
    BY <1>1 DEF PInv, PageOK, Submit
  <2>2. TableOK' /\ RowsStay
    BY <1>1, <2>1, SubmitWrites DEF PInv
  <2>3. NoEntr \notin DOMAIN entr'
    BY <2>2, NoEntrIsNoId DEF TableOK, Proved!TypeOK, Proved!IsTable
  <2>4. \A v \in Users : PageOK(entr', used', page[v])
    BY <2>2, <2>3, PageStaysOK DEF PInv
  <2>5. PageOK(entr', used', NoPage)
    BY DEF PageOK, NoPage
  <2>6. DOMAIN page' = Users /\ \A v \in Users : PageOK(entr', used', page'[v])
    BY <2>1, <2>4, <2>5, OnePage
  <2> QED
    BY <2>2, <2>6 DEF PInv
<1>2. ASSUME NEW u \in Users, NEW e \in EntrIds \cup {NoEntr}, OpenForm(u, e)
      PROVE  PInv'
  <2>1. /\ e \in DOMAIN entr \cup {NoEntr}
        /\ page' = [page EXCEPT ![u] = FormPage(e, History(entr, e))]
    BY <1>2 DEF OpenForm, FormPage
  <2>2. PageOK(entr, used, FormPage(e, History(entr, e)))
    BY <2>1, NewPageOK
  <2> QED
    BY <1>2, <2>1, <2>2, QuietPInv DEF OpenForm
<1>3. ASSUME NEW u \in Users, Leave(u)
      PROVE  PInv'
  BY <1>3, NewPageOK, QuietPInv DEF Leave
<1>4. ASSUME NEW u \in Users, Back(u)
      PROVE  PInv'
  BY <1>4, NewPageOK, QuietPInv DEF Back, FormPage
<1>5. ASSUME NEW u \in Users, NEW c \in PageCalls, NEW R, NextNew(u, c, R)
      PROVE  PInv'
  <2>1. page' = [page EXCEPT ![u] = ConfirmPage(u, c, R, {})]
    BY <1>5 DEF NextNew, Confirm, ConfirmPage
  <2>2. PageOK(entr, used, ConfirmPage(u, c, R, {}))
    BY <1>5, NewPageOK
  <2> QED
    BY <1>5, <2>1, <2>2, QuietPInv DEF NextNew
<1>6. ASSUME NEW u \in Users, NEW c \in PageCalls, NEW R, NextEdit(u, c, R)
      PROVE  PInv'
  <2> DEFINE p == ConfirmPage(u, c, R, Flagged(page[u].eid, c.dfrm))
  <2>1. page' = [page EXCEPT ![u] = p]
    BY <1>6 DEF NextEdit, Confirm, ConfirmPage
  <2>2. PageOK(entr, used, p)
    BY <1>6, NewPageOK
  <2> HIDE DEF p
  <2> QED
    BY <1>6, <2>1, <2>2, QuietPInv DEF NextEdit
<1>7. CASE UNCHANGED vars
  BY <1>7 DEF vars, PInv, TableOK, Proved!TypeOK, Proved!IsTable,
              Proved!LinksOK, Proved!HistoryChain
<1> QED
  BY <1>1, <1>2, <1>3, <1>4, <1>5, <1>6, <1>7 DEF Next

\* At first there is a corpus, and no page.
LEMMA InitPInv == Init => PInv
<1> SUFFICES ASSUME Init PROVE PInv
  OBVIOUS
<1>1. Proved!Init
  BY DEF Init, Trees!Init, Proved!Init
<1>2. TableOK
  BY <1>1, ConstantsOK, Proved!InitTypeOK, Proved!InitLinksOK,
     Proved!InitHistoryChain DEF TableOK
<1> QED
  BY <1>2 DEF Init, PInv, PageOK, NoPage

\* What a user submits overwrites what the pages told of, and nothing else.
LEMMA SubmitOverwrites ==
  ASSUME PInv, Next, NEW u \in Users, page[u].at = "confirm", page'[u] # page[u],
         NEW n \in DOMAIN entr' \ DOMAIN entr
  PROVE  InHist(n) \ {n} \subseteq page[u].flagged \cup RecordsIn(page[u].hist)
<1>1. PICK v \in Users, m \in EntrIds : Submit(v, m)
  BY DEF Next, OpenForm, Leave, Back, NextNew, NextEdit
<1>2. v = u
  BY <1>1 DEF Submit, PInv
<1> DEFINE c == page[u].call
<1>3. PageOK(entr, used, page[u]) /\ c \in Calls
  BY DEF PInv, PageOK
<1>4. /\ c.dfrm = NoEntr \/ c.dfrm \in DOMAIN entr
      /\ n = m /\ entr'[n].hist = Append(History(entr, c.dfrm), n)
  BY <1>1, <1>2, <1>3, SubmitWrites DEF PInv
<1>5. History(entr, c.dfrm) \in Seq(EntrIds)
  BY <1>4 DEF History, PInv, TableOK, Proved!TypeOK, Proved!IsTable, Proved!Rows
<1>6. InHist(n) = RecordsIn(History(entr, c.dfrm)) \cup {n}
  <2>1. InHist(n) = RecordsIn(entr'[n].hist)
    BY DEF InHist, RecordsIn
  <2> QED
    BY <1>4, <1>5, <2>1, RecordsInAppend
<1>7. CASE c.dfrm = NoEntr
  BY <1>6, <1>7 DEF History, RecordsIn
<1>8. CASE c.dfrm # NoEntr
  BY <1>3, <1>4, <1>6, <1>8 DEF History, PageOK
<1> QED
  BY <1>7, <1>8

\* No submission overwrites edits that its user was not told of.
THEOREM OverwritesAreFlagged == Spec => OverwritesFlagged
<1>1. PInv /\ [Next]_vars =>
        [\A u \in Users : page[u].at = "confirm" /\ page'[u] # page[u] =>
           \A n \in DOMAIN entr' \ DOMAIN entr :
             InHist(n) \ {n} \subseteq
               page[u].flagged
                 \cup {page[u].hist[i] : i \in 1 .. Len(page[u].hist)}]_vars
  BY SubmitOverwrites DEF RecordsIn
<1> QED
  BY <1>1, InitPInv, StepPInv, PTL DEF Spec, OverwritesFlagged
=============================================================================
