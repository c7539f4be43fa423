--------------------------- MODULE Xresolv_proofs ---------------------------
(***************************************************************************)
(* What the bulk resolution of references keeps true, for any entries,     *)
(* words and lists of references.                                          *)
(*                                                                         *)
(* The program writes what it chose from a table that has changed since.   *)
(* What saves it is that rows do not change: those it read are still there *)
(* as they were, or the foreign keys refuse the batch.                     *)
(***************************************************************************)
EXTENDS Xresolv, FiniteSetTheorems, TLAPS

Proved == INSTANCE EditTree_proofs

\* What EditTree assumes of its constants.
LEMMA ConstantsOK ==
  /\ NoEntr \notin EntrIds
  /\ AllowForks \in BOOLEAN
  /\ Corpus \subseteq EntrIds /\ Proved!IsFiniteSet(Corpus)
BY NoEntrIsNoId, AllowForksIsBoolean, CorpusIsLoaded
  DEF IsFiniteSet, Proved!IsFiniteSet

-----------------------------------------------------------------------------
(* The invariants. *)

\* The entries are a table of EditTree, and each has a word.
TableOK ==
  /\ Proved!TypeOK /\ IsFiniteSet(used)
  /\ \A e \in DOMAIN entr : word[e] \in Words

\* Every reference that waits is of an entry that is there, and the only one
\* of it with its number.
WaitingOK ==
  /\ \A z \in xresolv : z.entr \in DOMAIN entr
  /\ \A z, y \in xresolv : z.entr = y.entr /\ z.ord = y.ord => z = y

XrefRow(e, k, t, f, s) ==
  [entr |-> e, typ |-> t, xref |-> k, xentr |-> f, xsens |-> s]

IsXref(x) == \E e, k, t, f, s : x = XrefRow(e, k, t, f, s)

\* As long as both its rows are there, a row to be written is right.
JobRowOK(x) ==
  /\ IsXref(x)
  /\ x.entr \in used /\ x.xentr \in used /\ x.entr # x.xentr
  /\ {x.entr, x.xentr} \subseteq DOMAIN entr =>
       /\ entr[x.xentr].stat = "A" /\ x.xsens <= word[x.xentr].ns
       /\ \E z \in xresolv : /\ z.entr = x.entr /\ z.ord = x.xref
                            /\ z.typ = x.typ /\ Matches(x.xentr, z)

JobOK == job.on => \A x \in job.new : JobRowOK(x)

\* The invariant of what the program chooses and writes.
JInv == TableOK /\ WaitingOK /\ JobOK

\* No reference of a published entry has the number of one that waits.
NumbersFree ==
  /\ \A x \in xref : IsXref(x)
  /\ \A z \in xresolv, x \in xref :
       InScope(z.entr) /\ x.entr = z.entr => x.xref # z.ord

\* The invariant of UnresolvedKept.
UInv == JInv /\ NumbersFree

-----------------------------------------------------------------------------
(* Entering. *)

\* A step of a user is one of EditTree, in the terms of the lemmas about it.
LEMMA EnterIsCall ==
  ASSUME NEW c, NEW n, Trees!Submit(c, n) \/ Trees!Approve(c, n)
  PROVE  \/ Trees!Submit(c, n) /\ Proved!Submit(c, n)
         \/ Trees!Approve(c, n) /\ Proved!Approve(c, n)
<1>2. CASE Trees!Submit(c, n)
  <2>1. Proved!Submit(c, n)
    BY <1>2
      DEF Proved!Submit, Trees!Submit, Proved!SubmitOK, Trees!SubmitOK,
          Proved!Take, Trees!Take, Proved!MayEdit, Trees!MayEdit,
          Proved!HasEdits, Trees!HasEdits, Proved!StatFor, Trees!StatFor,
          Proved!Submitted, Trees!Submitted, Proved!InsertRow,
          Trees!InsertRow, Proved!SubmittedRow, Trees!SubmittedRow,
          Proved!RowFor, Trees!RowFor, Proved!KeyOf, Trees!KeyOf,
          Proved!History, Trees!History
  <2> QED
    BY <1>2, <2>1
<1>3. CASE Trees!Approve(c, n)
  <2>1. Proved!Approve(c, n)
    BY <1>3
      DEF Proved!Approve, Trees!Approve, Proved!ApproveOK, Trees!ApproveOK,
          Proved!Take, Trees!Take, Proved!MayEdit, Trees!MayEdit,
          Proved!HasEdits, Trees!HasEdits, Proved!StatFor, Trees!StatFor,
          Proved!Approved, Trees!Approved, Proved!InsertRow, Trees!InsertRow,
          Proved!ApprovedRow, Trees!ApprovedRow, Proved!RowFor, Trees!RowFor,
          Proved!KeyOf, Trees!KeyOf, Proved!History, Trees!History,
          Proved!WithoutTree, Trees!WithoutTree, Proved!DeleteRow,
          Trees!DeleteRow, Proved!Root, Trees!Root, Proved!Descendants,
          Trees!Descendants, Proved!Leaves, Trees!Leaves, Proved!IsOnlyLeaf,
          Trees!IsOnlyLeaf, Proved!Fits, Trees!Fits, Proved!KeyIsFree,
          Trees!KeyIsFree
  <2> QED
    BY <1>3, <2>1
<1> QED
  BY <1>2, <1>3

\* Calls of users are calls of EditTree.
LEMMA PageCallsAreCalls ==
  ASSUME NEW c \in PageCalls
  PROVE  c \in Proved!Calls /\ c.stat = "A"
BY DEF PageCalls, Calls, Proved!Calls, Stats, Proved!Stats

\* The next id is one that has not been given out.
LEMMA NextIdIsFree ==
  ASSUME TableOK, EntrIds # used
  PROVE  NextId \in EntrIds \ used
<1> DEFINE S == EntrIds \ used
<1>1. S \in SUBSET Nat /\ S # {}
  BY IdsAreNumbers DEF TableOK, Proved!TypeOK
<1>2. PICK m \in S : \A k \in S : m <= k
  BY <1>1, ConstantsOK, Proved!LeastNumber
<1> QED
  BY <1>2 DEF NextId, Min

\* A user adds one row, which waits for approval or has no references that
\* wait; other rows stay as they are or go.
LEMMA EnterRows ==
  ASSUME TableOK, NEW c \in PageCalls, NEW n \in EntrIds, NEW w \in Words,
         NEW list, Enter(c, n, w, list)
  PROVE  /\ n \notin used /\ n \notin DOMAIN entr /\ used' = used \cup {n}
         /\ n \in DOMAIN entr'
         /\ \A i \in DOMAIN entr' : i # n => i \in DOMAIN entr /\ entr'[i] = entr[i]
         /\ entr'[n].unap \/ Remainder(list) = <<>>
         /\ TableOK'
         /\ \A i \in DOMAIN entr' : i # n => word'[i] = word[i]
<1>1. c \in Proved!Calls /\ c.stat = "A"
  BY PageCallsAreCalls
<1>2. Proved!TypeOK
  BY DEF TableOK
<1>3. PICK X, row : /\ Proved!Change(X, n, row)
                    /\ row.unap = TRUE \/ Remainder(list) = <<>>
  <2>1. CASE Trees!Submit(c, n) /\ Proved!Submit(c, n)
    <3>1. Proved!Change({}, n, Proved!SubmittedRow(entr, c))
      BY <1>1, <1>2, <2>1, ConstantsOK, Proved!SubmitIsChange
    <3>2. Proved!SubmittedRow(entr, c).unap = TRUE
      BY DEF Proved!SubmittedRow, Proved!RowFor
    <3> QED
      BY <3>1, <3>2
  <2>2. CASE Trees!Approve(c, n) /\ Proved!Approve(c, n)
    <3>1. \E X : Proved!Change(X, n, Proved!ApprovedRow(entr, c))
      BY <1>1, <1>2, <2>2, ConstantsOK, Proved!ApproveIsChange
    <3>2. ~Trees!Submit(c, n)
      BY <2>2 DEF Trees!Submit, Trees!Approve
    <3>3. Remainder(list) = <<>>
      BY <1>1, <3>2 DEF Enter, MayApprove
    <3> QED
      BY <3>1, <3>3
  <2> QED
    BY <2>1, <2>2, EnterIsCall DEF Enter
<1>4. /\ n \notin used /\ n \notin DOMAIN entr
      /\ DOMAIN entr' = (DOMAIN entr \ X) \cup {n}
      /\ \A i \in DOMAIN entr \ X : entr'[i] = entr[i]
  BY <1>2, <1>3, ConstantsOK, Proved!ChangeRows
<1>5. entr'[n].unap <=> row.unap
  BY <1>2, <1>3, ConstantsOK, Proved!ChangeFields
<1>6. used' = used \cup {n}
  BY <1>3 DEF Proved!Change
<1>7. Proved!TypeOK'
  BY <1>2, <1>3, ConstantsOK, Proved!ChangeTypeOK
<1>8. \A i \in DOMAIN entr' : word'[i] = IF i = n THEN w ELSE word[i]
  BY DEF Enter
<1>9. IsFiniteSet(used')
  BY <1>6, FS_AddElement DEF TableOK
<1>10. TableOK'
  BY <1>4, <1>7, <1>8, <1>9 DEF TableOK
<1> QED
  BY <1>3, <1>4, <1>5, <1>6, <1>8, <1>10

-----------------------------------------------------------------------------
(* Choosing. *)

\* The entries a reference may lead to, what tells them apart, and those that
\* nothing tells apart.
Able(z) == {e \in DOMAIN entr \ {z.entr} : Joined(e, z) /\ entr[e].stat = "A"}

SortOf(z, e) ==
  [unap |-> entr[e].unap, place |-> Place(e, z),
   nokanji |-> z.ktxt = NoTxt /\ NoKanji(e, Place(e, z)[1])]

GroupOf(z, s) == {e \in Able(z) : SortOf(z, e) = s}

CandOf(z, s) ==
  [targ |-> Min(GroupOf(z, s)), nentr |-> Cardinality(GroupOf(z, s)),
   place |-> s.place, nokanji |-> s.nokanji]

\* The candidates are the groups.
LEMMA CandidatesAre ==
  ASSUME NEW z
  PROVE  Candidates(z) = {CandOf(z, s) : s \in {SortOf(z, e) : e \in Able(z)}}
BY DEF Candidates, CandOf, GroupOf, SortOf, Able

\* A set of ids has a least one.
LEMMA MinIsIn ==
  ASSUME TableOK, NEW S \in SUBSET (DOMAIN entr), S # {}
  PROVE  Min(S) \in S
<1>1. S \in SUBSET Nat
  BY IdsAreNumbers DEF TableOK, Proved!TypeOK
<1>2. PICK m \in S : \A k \in S : m <= k
  BY <1>1, ConstantsOK, Proved!LeastNumber
<1> QED
  BY <1>2 DEF Min

\* A candidate that stands for one entry alone is that entry.
LEMMA ClearCandidate ==
  ASSUME TableOK, NEW z, NEW c \in Candidates(z), c.nentr = 1
  PROVE  /\ c.targ \in Able(z)
         /\ \A e \in Able(z) : SortOf(z, e) = SortOf(z, c.targ) => e = c.targ
<1>1. PICK e \in Able(z) : c = CandOf(z, SortOf(z, e))
  BY CandidatesAre
<1> DEFINE G == GroupOf(z, SortOf(z, e))
<1>2. c.targ = Min(G) /\ c.nentr = Cardinality(G)
  BY <1>1 DEF CandOf
<1>3. /\ e \in G /\ G \subseteq Able(z) /\ G \subseteq DOMAIN entr
      /\ \A f \in G : SortOf(z, f) = SortOf(z, e)
  BY DEF GroupOf, Able
<1>4. IsFiniteSet(G)
  BY <1>3, FS_Subset DEF TableOK, Proved!TypeOK
<1>5. PICK g : G = {g}
  BY <1>2, <1>4, FS_Singleton
<1>6. Min(G) \in G
  BY <1>3, MinIsIn
<1>7. c.targ \in G /\ \A f \in Able(z) : SortOf(z, f) = SortOf(z, e) => f \in G
  BY <1>2, <1>6 DEF GroupOf
<1> HIDE DEF G
<1> QED
  BY <1>3, <1>5, <1>7

\* What the program makes of a reference.
LEMMA MadeRow ==
  ASSUME TableOK, NEW z, NEW x \in Made(z)
  PROVE  /\ IsXref(x) /\ InScope(z.entr)
         /\ x.entr = z.entr /\ x.xref = z.ord /\ x.typ = z.typ
         /\ x.xsens <= word[x.xentr].ns
         /\ x.xentr \in Able(z)
         /\ \A e \in Able(z) : SortOf(z, e) = SortOf(z, x.xentr) => e = x.xentr
<1>1. PICK c \in Chosen(z) : /\ x = MkXref(z, c.targ) /\ InScope(z.entr)
                             /\ TargetSense(z) <= word[c.targ].ns
  BY DEF Made
<1>2. c \in Candidates(z) /\ c.nentr = 1
  BY <1>1 DEF Chosen, Best
<1>3. x = XrefRow(z.entr, z.ord, z.typ, c.targ, TargetSense(z))
  BY <1>1 DEF MkXref, XrefRow
<1>4. /\ x.entr = z.entr /\ x.xref = z.ord /\ x.typ = z.typ
      /\ x.xentr = c.targ /\ x.xsens = TargetSense(z)
  BY <1>3 DEF XrefRow
<1> QED
  BY <1>1, <1>2, <1>3, <1>4, ClearCandidate DEF IsXref

\* A reference that a single entry matches is resolved to it.
LEMMA SingleIsMade ==
  ASSUME TableOK, NEW z, InScope(z.entr), NEW e, Able(z) = {e},
         z.tsens <= word[e].ns
  PROVE  \E x \in Made(z) : x.entr = z.entr /\ x.xref = z.ord /\ x.xentr = e
<1> DEFINE s == SortOf(z, e)
           c == CandOf(z, s)
<1>1. GroupOf(z, s) = {e}
  BY DEF GroupOf
<1>2. e \in DOMAIN entr /\ e \in Nat
  BY IdsAreNumbers DEF Able, TableOK, Proved!TypeOK
<1>3. c.targ = e /\ c.nentr = 1
  <2>1. Min({e}) = e
    BY <1>2, MinIsIn
  <2>2. Cardinality({e}) = 1
    BY FS_Singleton
  <2> QED
    BY <1>1, <2>1, <2>2 DEF CandOf
<1>4. Candidates(z) = {c}
  BY CandidatesAre
<1> HIDE DEF c
<1>5. Chosen(z) = {c}
  <2>1. {d \in Candidates(z) : d.nentr = 1} = {c}
    BY <1>3, <1>4
  <2>2. Best(z) = {c}
    BY <2>1 DEF Best
  <2> QED
    BY <1>2, <1>3, <2>2 DEF Chosen
<1>6. TargetSense(z) <= word[e].ns
  BY <1>2, WordsHaveSenses DEF TargetSense, TableOK
<1>7. MkXref(z, e) \in Made(z)
  BY <1>3, <1>5, <1>6 DEF Made
<1>8. /\ MkXref(z, e).entr = z.entr /\ MkXref(z, e).xref = z.ord
      /\ MkXref(z, e).xentr = e
  BY DEF MkXref
<1> QED
  BY <1>7, <1>8

-----------------------------------------------------------------------------
(* The steps. *)

\* The rows of a list are of one entry and numbered apart.
LEMMA UnresolvedRows ==
  ASSUME NEW n, NEW list
  PROVE  /\ \A z \in Unresolved(n, list) : z.entr = n
         /\ \A z, y \in Unresolved(n, list) : z.ord = y.ord => z = y
         /\ list = <<>> => Unresolved(n, list) = {}
BY DEF Unresolved

\* The step of a user takes a new id, so it disturbs nothing that waits and
\* nothing that the program has chosen but what goes with its entry.
LEMMA EnterKeeps ==
  ASSUME JInv, NEW c \in PageCalls, NEW n \in EntrIds, NEW w \in Words,
         NEW list, Enter(c, n, w, list)
  PROVE  JInv'
<1> DEFINE new == Unresolved(n, Remainder(list))
<1>1. /\ n \notin used /\ n \notin DOMAIN entr /\ used' = used \cup {n}
      /\ n \in DOMAIN entr'
      /\ \A i \in DOMAIN entr' : i # n => i \in DOMAIN entr /\ entr'[i] = entr[i]
      /\ TableOK'
      /\ \A i \in DOMAIN entr' : i # n => word'[i] = word[i]
  BY EnterRows DEF JInv
<1>2. /\ \A z \in new : z.entr = n
      /\ \A z, y \in new : z.ord = y.ord => z = y
  BY UnresolvedRows
<1>3. xresolv' = {z \in xresolv : z.entr \in DOMAIN entr'} \cup new /\ job' = job
  BY DEF Enter
<1> HIDE DEF new
<1>4. WaitingOK'
  BY <1>1, <1>2, <1>3 DEF JInv, WaitingOK
<1>5. ASSUME job.on, NEW x \in job.new
      PROVE  JobRowOK(x)'
  <2>1. JobRowOK(x)
    BY <1>5 DEF JInv, JobOK
  <2>2. x.entr \in used' /\ x.xentr \in used'
    BY <1>1, <2>1 DEF JobRowOK
  <2>3. ASSUME {x.entr, x.xentr} \subseteq DOMAIN entr'
        PROVE  /\ entr'[x.xentr].stat = "A" /\ x.xsens <= word'[x.xentr].ns
               /\ \E z \in xresolv' : /\ z.entr = x.entr /\ z.ord = x.xref
                                     /\ z.typ = x.typ /\ Matches(x.xentr, z)'
    <3>1. x.entr # n /\ x.xentr # n
      BY <1>1, <2>1 DEF JobRowOK
    <3>2. /\ x.entr \in DOMAIN entr /\ x.xentr \in DOMAIN entr
          /\ entr'[x.xentr] = entr[x.xentr] /\ word'[x.xentr] = word[x.xentr]
      BY <1>1, <2>3, <3>1
    <3>3. /\ entr[x.xentr].stat = "A" /\ x.xsens <= word[x.xentr].ns
          /\ \E z \in xresolv : /\ z.entr = x.entr /\ z.ord = x.xref
                               /\ z.typ = x.typ /\ Matches(x.xentr, z)
      BY <2>1, <3>2 DEF JobRowOK
    <3>4. PICK z \in xresolv : /\ z.entr = x.entr /\ z.ord = x.xref
                              /\ z.typ = x.typ /\ Matches(x.xentr, z)
      BY <3>3
    <3>5. z \in xresolv' /\ Matches(x.xentr, z)'
      BY <1>3, <2>3, <3>2, <3>4 DEF Matches
    <3> QED
      BY <3>2, <3>3, <3>4, <3>5
  <2> QED
    BY <2>1, <2>2, <2>3 DEF JobRowOK
<1>6. JobOK'
  BY <1>3, <1>5 DEF JobOK
<1> QED
  BY <1>1, <1>4, <1>6 DEF JInv

\* What the program chooses is right when it chooses it.
LEMMA ReadKeeps ==
  ASSUME JInv, Read
  PROVE  JInv'
<1>1. /\ job' = [on |-> TRUE, new |-> UNION {Made(z) : z \in xresolv}]
      /\ UNCHANGED <<entr, used, word, xref, xresolv>>
  BY DEF Read
<1>2. ASSUME NEW z \in xresolv, NEW x \in Made(z)
      PROVE  JobRowOK(x)
  <2>1. /\ IsXref(x)
        /\ x.entr = z.entr /\ x.xref = z.ord /\ x.typ = z.typ
        /\ x.xsens <= word[x.xentr].ns /\ x.xentr \in Able(z)
    BY MadeRow DEF JInv
  <2>2. z.entr \in DOMAIN entr /\ DOMAIN entr \subseteq used
    BY DEF JInv, WaitingOK, TableOK, Proved!TypeOK
  <2> QED
    BY <2>1, <2>2 DEF JobRowOK, Able, Joined
<1>3. \A x \in job'.new : JobRowOK(x)
  BY <1>1, <1>2
<1>4. \A x : JobRowOK(x) => JobRowOK(x)'
  BY <1>1 DEF JobRowOK, Matches, Places
<1>5. JobOK'
  BY <1>3, <1>4 DEF JobOK
<1> QED
  BY <1>1, <1>5 DEF JInv, TableOK, WaitingOK, Proved!TypeOK, Proved!IsTable

\* A batch that is written or refused is done with.
LEMMA DoneKeeps ==
  ASSUME JInv, Write \/ Fail
  PROVE  JInv'
<1>1. job' = Idle /\ xresolv' \subseteq xresolv /\ UNCHANGED <<entr, used, word>>
  BY DEF Write, Fail
<1>2. JobOK'
  BY <1>1 DEF JobOK, Idle
<1> QED
  BY <1>1, <1>2 DEF JInv, TableOK, WaitingOK, Proved!TypeOK, Proved!IsTable

\* Every step keeps the invariant.
LEMMA StepKeeps ==
  ASSUME JInv, [Next]_vars
  PROVE  JInv'
<1>1. CASE UNCHANGED vars
  BY <1>1 DEF vars, JInv, TableOK, WaitingOK, JobOK, JobRowOK, Matches, Places,
              Proved!TypeOK, Proved!IsTable
<1>2. ASSUME EntrIds # used, NEW c \in PageCalls, NEW w \in Words,
             NEW list \in Lists, Enter(c, NextId, w, list)
      PROVE  JInv'
  <2>1. NextId \in EntrIds
    BY <1>2, NextIdIsFree DEF JInv
  <2> QED
    BY <1>2, <2>1, EnterKeeps
<1> QED
  BY <1>1, <1>2, ReadKeeps, DoneKeeps DEF Next

\* A loaded corpus, with its references.
LEMMA InitKeeps ==
  ASSUME Init
  PROVE  UInv
<1>1. Proved!TypeOK
  BY ConstantsOK, Proved!InitTypeOK DEF Init, Trees!Init, Proved!Init
<1>2. used = Corpus /\ DOMAIN entr = Corpus
  BY DEF Init, Trees!Init
<1>3. PICK l \in [Corpus -> Lists] :
        xresolv = UNION {Unresolved(e, l[e]) : e \in Corpus}
  BY DEF Init
<1>4. TableOK
  BY <1>1, <1>2, CorpusIsLoaded DEF Init, TableOK
<1>5. WaitingOK
  BY <1>2, <1>3, UnresolvedRows DEF WaitingOK
<1> QED
  BY <1>4, <1>5 DEF Init, UInv, JInv, NumbersFree, JobOK, Idle

-----------------------------------------------------------------------------
(* What is written. *)

\* A batch that fits is written as it was chosen.
LEMMA WriteIsRight ==
  ASSUME JInv, Write, NEW x \in xref' \ xref
  PROVE  /\ x.xentr \in DOMAIN entr \ {x.entr}
         /\ entr[x.xentr].stat = "A" /\ x.xsens <= word[x.xentr].ns
         /\ \E z \in xresolv : /\ z.entr = x.entr /\ z.ord = x.xref
                              /\ z.typ = x.typ /\ Matches(x.xentr, z)
<1>1. x \in job.new /\ job.on /\ {x.entr, x.xentr} \subseteq DOMAIN entr
  BY DEF Write, CopyFits
<1>2. JobRowOK(x)
  BY <1>1 DEF JInv, JobOK
<1> QED
  BY <1>1, <1>2 DEF JobRowOK

\* What the program writes still leads from one row to another that is active
\* and has the sense, for a reference that was waiting for it, although the
\* table has changed since the program read it (xresolv.py).
THEOREM WrittenAsChosen == Spec => WrittenRight
<1>1. Init => JInv
  BY InitKeeps DEF UInv
<1>2. JInv /\ [Next]_vars => JInv'
  BY StepKeeps
<1>3. JInv /\ [Next]_vars =>
        [Write =>
           \A x \in xref' \ xref :
             /\ x.xentr \in DOMAIN entr \ {x.entr}
             /\ entr[x.xentr].stat = "A" /\ x.xsens <= word[x.xentr].ns
             /\ \E z \in xresolv : /\ z.entr = x.entr /\ z.ord = x.xref
                                  /\ z.typ = x.typ /\ Matches(x.xentr, z)]_vars
  BY WriteIsRight
<1> QED
  BY <1>1, <1>2, <1>3, PTL DEF Spec, WrittenRight

\* What is chosen for a reference is the one entry that matches it in its way,
\* and a reference that one entry matches is given to that entry.
LEMMA ReadIsClear ==
  ASSUME JInv, Read, NEW z \in xresolv, InScope(z.entr)
  PROVE  LET es   == {e \in DOMAIN entr \ {z.entr} :
                        entr[e].stat = "A" /\ Joined(e, z)}
             mine == {x \in job'.new : x.entr = z.entr /\ x.xref = z.ord}
         IN  /\ \A e \in es : es = {e} /\ z.tsens <= word[e].ns
                               => \E x \in mine : x.xentr = e
             /\ \A x \in mine, e \in es :
                  word[e] = word[x.xentr] /\ entr[e].unap = entr[x.xentr].unap
                    => e = x.xentr
<1> DEFINE es == {e \in DOMAIN entr \ {z.entr} :
                    entr[e].stat = "A" /\ Joined(e, z)}
           mine == {x \in job'.new : x.entr = z.entr /\ x.xref = z.ord}
<1>1. TableOK /\ es = Able(z)
  BY DEF JInv, Able
<1>2. job'.new = UNION {Made(y) : y \in xresolv}
  BY DEF Read
<1>3. ASSUME NEW e \in es, es = {e}, z.tsens <= word[e].ns
      PROVE  \E x \in mine : x.xentr = e
  <2>1. PICK x \in Made(z) : x.entr = z.entr /\ x.xref = z.ord /\ x.xentr = e
    BY <1>1, <1>3, SingleIsMade
  <2> QED
    BY <1>2, <2>1
<1>4. ASSUME NEW x \in mine, NEW e \in es,
             word[e] = word[x.xentr], entr[e].unap = entr[x.xentr].unap
      PROVE  e = x.xentr
  <2>1. PICK y \in xresolv : x \in Made(y)
    BY <1>2
  <2>2. x.entr = y.entr /\ x.xref = y.ord
    BY <1>1, <2>1, MadeRow
  <2>3. y = z
    BY <2>2 DEF JInv, WaitingOK
  <2>4. \A f \in Able(z) : SortOf(z, f) = SortOf(z, x.xentr) => f = x.xentr
    BY <1>1, <2>1, <2>3, MadeRow
  <2>5. SortOf(z, e) = SortOf(z, x.xentr)
    BY <1>4 DEF SortOf, Place, NoKanji
  <2> QED
    BY <1>1, <2>4, <2>5
<1> QED
  BY <1>3, <1>4

\* "We will never choose a candidates row that has .nentr>1" (xresolv.py): no
\* reference is resolved to one of several entries that match it in the same
\* way, and none is left that one entry matches.
THEOREM ChosenClearly == Spec => ClearChosen
<1>1. Init => JInv
  BY InitKeeps DEF UInv
<1>2. JInv /\ [Next]_vars => JInv'
  BY StepKeeps
<1>3. JInv /\ [Next]_vars =>
        [Read =>
           \A z \in xresolv : InScope(z.entr) =>
             LET es   == {e \in DOMAIN entr \ {z.entr} :
                            entr[e].stat = "A" /\ Joined(e, z)}
                 mine == {x \in job'.new : x.entr = z.entr /\ x.xref = z.ord}
             IN  /\ \A e \in es : es = {e} /\ z.tsens <= word[e].ns
                                   => \E x \in mine : x.xentr = e
                 /\ \A x \in mine, e \in es :
                      word[e] = word[x.xentr] /\ entr[e].unap = entr[x.xentr].unap
                        => e = x.xentr]_vars
  BY ReadIsClear
<1> QED
  BY <1>1, <1>2, <1>3, PTL DEF Spec, ClearChosen

-----------------------------------------------------------------------------
(* What is deleted. *)

\* A published entry that a user writes has no reference that waits, so that
\* no number is taken twice.
LEMMA EnterNumbersFree ==
  ASSUME ~NonActive, UInv, NEW c \in PageCalls, NEW n \in EntrIds,
         NEW w \in Words, NEW list, Enter(c, n, w, list)
  PROVE  NumbersFree'
<1> DEFINE new == Unresolved(n, Remainder(list))
<1>1. /\ n \notin DOMAIN entr
      /\ \A i \in DOMAIN entr' : i # n => i \in DOMAIN entr /\ entr'[i] = entr[i]
      /\ entr'[n].unap \/ Remainder(list) = <<>>
  BY EnterRows DEF UInv, JInv
<1>2. /\ \A z \in new : z.entr = n
      /\ Remainder(list) = <<>> => new = {}
  BY UnresolvedRows
<1>3. /\ xresolv' = {z \in xresolv : z.entr \in DOMAIN entr'} \cup new
      /\ xref' \subseteq xref \cup Resolved(n, list) \cup ReverseRefs(n, c.dfrm)
  BY DEF Enter
<1>4. \A x \in Resolved(n, list) : IsXref(x) /\ x.entr = n
  <2> SUFFICES ASSUME NEW x \in Resolved(n, list)
               PROVE  IsXref(x) /\ x.entr = n
    OBVIOUS
  <2>1. PICK k, t, f, s : x = XrefRow(n, k, t, f, s)
    BY DEF Resolved, XrefRow
  <2> QED
    BY <2>1 DEF IsXref, XrefRow
<1>5. \A x \in ReverseRefs(n, c.dfrm) :
        /\ IsXref(x)
        /\ \E y \in xref : x.entr = y.entr /\ x.xref = y.xref
  <2> SUFFICES ASSUME NEW x \in ReverseRefs(n, c.dfrm)
               PROVE  /\ IsXref(x)
                      /\ \E y \in xref : x.entr = y.entr /\ x.xref = y.xref
    OBVIOUS
  <2>1. PICK y \in xref : x = [y EXCEPT !.xentr = n]
    BY DEF ReverseRefs
  <2>2. PICK e, k, t, f, s : y = XrefRow(e, k, t, f, s)
    BY DEF UInv, NumbersFree, IsXref
  <2>3. x = XrefRow(e, k, t, n, s)
    BY <2>1, <2>2 DEF XrefRow
  <2>4. x.entr = y.entr /\ x.xref = y.xref
    BY <2>2, <2>3 DEF XrefRow
  <2> QED
    BY <2>3, <2>4 DEF IsXref
<1> HIDE DEF new
<1>6. \A x \in xref' : IsXref(x)
  BY <1>3, <1>4, <1>5 DEF UInv, NumbersFree
<1>7. ASSUME NEW z \in xresolv', NEW x \in xref', InScope(z.entr)', x.entr = z.entr
      PROVE  x.xref # z.ord
  <2>1. ~entr'[z.entr].unap
    BY <1>7 DEF InScope
  <2>2. z \notin new
    BY <1>1, <1>2, <2>1
  <2>3. z \in xresolv /\ z.entr \in DOMAIN entr' /\ z.entr \in DOMAIN entr
    BY <1>3, <2>2 DEF UInv, JInv, WaitingOK
  <2>4. entr'[z.entr] = entr[z.entr] /\ z.entr # n
    BY <1>1, <2>3
  <2>5. InScope(z.entr)
    BY <1>7, <2>4 DEF InScope
  <2>6. x \notin Resolved(n, list)
    BY <1>4, <1>7, <2>4
  <2> QED
    BY <1>3, <1>5, <1>7, <2>3, <2>5, <2>6 DEF UInv, NumbersFree
<1> QED
  BY <1>6, <1>7 DEF NumbersFree

\* What has been written takes the number of no other reference.
LEMMA WriteNumbersFree ==
  ASSUME UInv, Write
  PROVE  /\ NumbersFree'
         /\ \A z \in xresolv \ xresolv' :
              \E x \in xref' \ xref :
                x.entr = z.entr /\ x.typ = z.typ /\ Matches(x.xentr, z)
<1>1. /\ job.on /\ CopyFits
      /\ xref' = xref \cup job.new
      /\ xresolv' = {z \in xresolv : ~Replaced(z, xref')}
      /\ UNCHANGED <<entr, used, word>>
  BY DEF Write
<1>2. ASSUME NEW z \in xresolv, NEW x \in job.new,
             x.entr = z.entr, x.xref = z.ord
      PROVE  /\ x.typ = z.typ /\ Matches(x.xentr, z)
             /\ entr[x.xentr].stat = "A"
  <2>1. JobRowOK(x) /\ {x.entr, x.xentr} \subseteq DOMAIN entr
    BY <1>1 DEF UInv, JInv, JobOK, CopyFits
  <2>2. PICK y \in xresolv : /\ y.entr = x.entr /\ y.ord = x.xref
                            /\ y.typ = x.typ /\ Matches(x.xentr, y)
    BY <2>1 DEF JobRowOK
  <2>3. y = z
    BY <1>2, <2>2 DEF UInv, JInv, WaitingOK
  <2> QED
    BY <2>1, <2>2, <2>3 DEF JobRowOK
<1>3. \A x \in xref' : IsXref(x)
  BY <1>1 DEF UInv, NumbersFree, JInv, JobOK, JobRowOK
<1>4. ASSUME NEW z \in xresolv', NEW x \in xref', InScope(z.entr), x.entr = z.entr,
             x.xref = z.ord
      PROVE  FALSE
  <2>1. z \in xresolv /\ ~Replaced(z, xref')
    BY <1>1
  <2>2. x \notin xref
    BY <1>4, <2>1 DEF UInv, NumbersFree
  <2>3. x \in job.new
    BY <1>1, <2>2
  <2> QED
    BY <1>2, <1>4, <2>1, <2>3 DEF Replaced
<1>5. ASSUME NEW z \in xresolv \ xresolv'
      PROVE  \E x \in xref' \ xref :
               x.entr = z.entr /\ x.typ = z.typ /\ Matches(x.xentr, z)
  <2>1. Replaced(z, xref')
    BY <1>1
  <2>2. PICK x \in xref' : x.entr = z.entr /\ x.typ = z.typ /\ x.xref = z.ord
    BY <2>1 DEF Replaced
  <2>3. x \notin xref
    BY <2>1, <2>2 DEF Replaced, UInv, NumbersFree
  <2>4. x \in job.new
    BY <1>1, <2>3
  <2> QED
    BY <1>2, <2>2, <2>3, <2>4
<1>6. NumbersFree'
  BY <1>1, <1>3, <1>4 DEF NumbersFree, InScope
<1> QED
  BY <1>5, <1>6

\* Every step keeps the numbers apart, and no reference disappears but with
\* its entry or for what was written in its place.
LEMMA StepNumbersFree ==
  ASSUME ~NonActive, UInv, [Next]_vars
  PROVE  /\ UInv'
         /\ \A z \in xresolv \ xresolv' :
              z.entr \in DOMAIN entr' =>
                \E x \in xref' \ xref :
                  x.entr = z.entr /\ x.typ = z.typ /\ Matches(x.xentr, z)
<1>1. JInv'
  BY StepKeeps DEF UInv
<1>2. ASSUME EntrIds # used, NEW c \in PageCalls, NEW w \in Words,
             NEW list \in Lists, Enter(c, NextId, w, list)
      PROVE  /\ NumbersFree'
             /\ \A z \in xresolv \ xresolv' : z.entr \notin DOMAIN entr'
  <2>1. NextId \in EntrIds
    BY <1>2, NextIdIsFree DEF UInv, JInv
  <2>2. NumbersFree'
    BY <1>2, <2>1, EnterNumbersFree
  <2> QED
    BY <1>2, <2>2 DEF Enter
<1>3. CASE UNCHANGED <<entr, xref, xresolv>>
  BY <1>1, <1>3 DEF UInv, NumbersFree, InScope
<1>4. CASE Write
  BY <1>1, <1>4, WriteNumbersFree DEF UInv
<1> QED
  BY <1>1, <1>2, <1>3, <1>4 DEF Next, Read, Fail, vars, UInv

\* "It is the job of this program [...] to convert the textual 'xresolv' table
\* xrefs into the id form" (xresolv.py): while it is not given the option -i,
\* a reference disappears only with its entry, or as one is written in its
\* place that leads to an entry with its text.
THEOREM NoneIsLost ==
  ASSUME ~NonActive
  PROVE  Spec => UnresolvedKept
<1>1. Init => UInv
  BY InitKeeps
<1>2. UInv /\ [Next]_vars => UInv'
  BY StepNumbersFree
<1>3. UInv /\ [Next]_vars =>
        [\A z \in xresolv \ xresolv' :
           z.entr \in DOMAIN entr' =>
             \E x \in xref' \ xref :
               x.entr = z.entr /\ x.typ = z.typ /\ Matches(x.xentr, z)]_vars
  BY StepNumbersFree
<1> QED
  BY <1>1, <1>2, <1>3, PTL DEF Spec, UnresolvedKept
=============================================================================
