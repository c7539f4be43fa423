---------------------------- MODULE Lists_proofs ----------------------------
(***************************************************************************)
(* What is read in pieces.  Searches, for any corpus, forms and page       *)
(* sizes: ORDER BY makes a row of the entries found, so that pages of it,  *)
(* each read anew, show all of them once; and what is found is what the    *)
(* form asks for, criterion by criterion, since conditions on different    *)
(* tables and aliases do not touch each other.                             *)
(*                                                                         *)
(* Exports, whatever users do between two statements: by blocks of a       *)
(* corpus, where each block is the first of what has not been read; and by *)
(* a list of numbers, where a block may hold no entry too many because a   *)
(* published entry is the only one of its number (EditTree_proofs, whose   *)
(* theorems are taken for the tree of each entry).                         *)
(*                                                                         *)
(* Pages of entries: an edit has a later record than what it was made      *)
(* from, so that the order by histories keeps each number's versions in    *)
(* the order of their making; and a reference that is seen from both ends  *)
(* is found from both.  The database checks find nothing in them, since    *)
(* each number has one tree and each text was loaded or checked.           *)
(***************************************************************************)
EXTENDS Search, Pages, FiniteSetTheorems, SequenceTheorems, WellFoundedInduction,
        TLAPS

-----------------------------------------------------------------------------
(* ORDER BY. *)

\* Of two different elements one comes before the other.
IsOrder(S, order) ==
  /\ \A a \in S : <<a, a>> \notin order
  /\ \A a, b, c \in S : <<a, b>> \in order /\ <<b, c>> \in order => <<a, c>> \in order
  /\ \A a, b \in S : a = b \/ <<a, b>> \in order \/ <<b, a>> \in order

\* There is the least number of a set.
LEMMA LeastNumber ==
  ASSUME NEW S \in SUBSET Nat, S # {}
  PROVE  \E m \in S : \A k \in S : m <= k
<1>1. PICK m \in S : \A k \in S : <<k, m>> \notin OpToRel(<, Nat)
  BY NatLessThanWellFounded, WFMin
<1>2. \A k \in S : ~ (k < m)
  BY <1>1 DEF OpToRel
<1> QED
  BY <1>2

\* An element has fewer elements before it than there are.
LEMMA RankRange ==
  ASSUME NEW S, IsFiniteSet(S), NEW order, IsOrder(S, order), NEW e \in S
  PROVE  Rank(e, S, order) \in 0 .. Cardinality(S) - 1
<1> DEFINE D == {d \in S : <<d, e>> \in order}
<1>1. D \in SUBSET S /\ e \notin D
  BY DEF IsOrder
<1> HIDE DEF D
<1>2. IsFiniteSet(D) /\ Cardinality(D) \in Nat /\ Cardinality(S) \in Nat
      /\ Cardinality(D) <= Cardinality(S) /\ Cardinality(D) # Cardinality(S)
  BY <1>1, FS_Subset, FS_CardinalityType
<1> QED
  BY <1>2 DEF Rank, D

\* What comes later has a higher rank.
LEMMA RankGrows ==
  ASSUME NEW S, IsFiniteSet(S), NEW order, IsOrder(S, order),
         NEW a \in S, NEW b \in S, <<a, b>> \in order
  PROVE  Rank(a, S, order) < Rank(b, S, order)
<1> DEFINE A == {d \in S : <<d, a>> \in order}
           B == {d \in S : <<d, b>> \in order}
<1>1. A \in SUBSET B /\ a \in B /\ a \notin A /\ B \in SUBSET S
  BY DEF IsOrder
<1> HIDE DEF A, B
<1>2. IsFiniteSet(B) /\ IsFiniteSet(A)
  BY <1>1, FS_Subset
<1>3. /\ Cardinality(A) \in Nat /\ Cardinality(B) \in Nat
      /\ Cardinality(A) <= Cardinality(B) /\ Cardinality(A) # Cardinality(B)
  BY <1>1, <1>2, FS_Subset, FS_CardinalityType
<1> QED
  BY <1>3 DEF Rank, A, B

\* Every place is taken, by one element.
LEMMA RankOnto ==
  ASSUME NEW S, IsFiniteSet(S), NEW order, IsOrder(S, order),
         NEW i \in 0 .. Cardinality(S) - 1
  PROVE  \E e \in S : Rank(e, S, order) = i
<1> DEFINE f == [e \in S |-> Rank(e, S, order)]
           T == 0 .. Cardinality(S) - 1
<1>1. Cardinality(S) \in Nat
  BY FS_CardinalityType
<1>2. f \in [S -> T]
  BY RankRange
<1>3. \A a, b \in S : f[a] = f[b] => a = b
  <2> SUFFICES ASSUME NEW a \in S, NEW b \in S, a # b
               PROVE  f[a] # f[b]
    OBVIOUS
  <2>1. Rank(a, S, order) \in Nat /\ Rank(b, S, order) \in Nat
    BY <1>1, RankRange
  <2>2. Rank(a, S, order) < Rank(b, S, order) \/ Rank(b, S, order) < Rank(a, S, order)
    BY RankGrows DEF IsOrder
  <2> QED
    BY <2>1, <2>2
<1>4. IsFiniteSet(T) /\ Cardinality(T) = Cardinality(S)
  BY <1>1, FS_Interval
<1> HIDE DEF f, T
<1>5. f \in Injection(S, T)
  BY <1>2, <1>3 DEF Injection, IsInjective
<1>6. f \in Surjection(S, T)
  BY <1>4, <1>5, FS_Injection
<1>7. \A t \in T : \E e \in S : f[e] = t
  BY <1>6 DEF Surjection
<1> QED
  BY <1>7 DEF f, T

\* The list has each element once, at its rank.
LEMMA InOrderIs ==
  ASSUME NEW S, IsFiniteSet(S), NEW order, IsOrder(S, order)
  PROVE  /\ InOrder(S, order) \in Seq(S)
         /\ Len(InOrder(S, order)) = Cardinality(S)
         /\ Cardinality(S) \in Nat
         /\ \A i \in 1 .. Cardinality(S) :
              /\ InOrder(S, order)[i] \in S
              /\ Rank(InOrder(S, order)[i], S, order) = i - 1
<1> DEFINE n == Cardinality(S)
           L == InOrder(S, order)
<1>1. n \in Nat
  BY FS_CardinalityType
<1>2. L = [i \in 1 .. n |-> CHOOSE e \in S : Rank(e, S, order) = i - 1]
  BY DEF InOrder
<1> HIDE DEF n, L
<1>3. \A i \in 1 .. n : L[i] \in S /\ Rank(L[i], S, order) = i - 1
  <2> SUFFICES ASSUME NEW i \in 1 .. n
               PROVE  L[i] \in S /\ Rank(L[i], S, order) = i - 1
    OBVIOUS
  <2>1. \E e \in S : Rank(e, S, order) = i - 1
    BY <1>1, RankOnto DEF n
  <2>2. L[i] = CHOOSE e \in S : Rank(e, S, order) = i - 1
    BY <1>2
  <2> QED
    BY <2>1, <2>2
<1>4. L \in [1 .. n -> S]
  BY <1>2, <1>3
<1>5. L \in Seq(S) /\ Len(L) = n
  <2>1. L \in Seq(S)
    BY <1>1, <1>4
  <2>2. DOMAIN L = 1 .. n /\ DOMAIN L = 1 .. Len(L) /\ Len(L) \in Nat
    BY <1>4, <2>1, LenProperties
  <2> QED
    BY <1>1, <2>1, <2>2
<1> QED
  BY <1>1, <1>3, <1>5 DEF n, L

-----------------------------------------------------------------------------
(* The order of the lines. *)

\* What a line says where there is a text, and everything that it may say.
SaidTexts == Seq(Nat) \ {NoTxt}
Said == SaidTexts \cup {NoTxt}

\* s is before t at i, where they differ first.
DifferAt(s, t, i) ==
  /\ i \in 1 .. Len(t) /\ i <= Len(s) + 1
  /\ \A j \in 1 .. i - 1 : s[j] = t[j]
  /\ Len(s) = i - 1 \/ s[i] < t[i]

\* The order of texts, place by place.
LEMMA TxtBeforeIs ==
  ASSUME NEW s \in SaidTexts, NEW t \in SaidTexts
  PROVE  TxtBefore(s, t) <=> \E i \in 1 .. Len(t) : DifferAt(s, t, i)
<1>1. s \in Seq(Nat) /\ t \in Seq(Nat) /\ s # NoTxt /\ t # NoTxt
  BY DEF SaidTexts
<1>2. ASSUME NEW i \in 1 .. Len(t), Len(s) >= i - 1
      PROVE  SubSeq(s, 1, i - 1) = SubSeq(t, 1, i - 1)
               <=> \A j \in 1 .. i - 1 : s[j] = t[j]
  <2>1. /\ Len(s) \in Nat /\ Len(t) \in Nat
        /\ \A j \in 1 .. i - 1 : s[j] \in Nat /\ t[j] \in Nat
    BY <1>1, <1>2
  <2>2. /\ SubSeq(s, 1, i - 1) \in Seq(Nat)
        /\ Len(SubSeq(s, 1, i - 1)) = i - 1
        /\ \A j \in 1 .. i - 1 : SubSeq(s, 1, i - 1)[j] = s[j]
    BY <2>1, SubSeqProperties, Z3
  <2>3. /\ SubSeq(t, 1, i - 1) \in Seq(Nat)
        /\ Len(SubSeq(t, 1, i - 1)) = i - 1
        /\ \A j \in 1 .. i - 1 : SubSeq(t, 1, i - 1)[j] = t[j]
    BY <2>1, SubSeqProperties, Z3
  <2>4. (\A j \in 1 .. i - 1 : s[j] = t[j])
          => SubSeq(s, 1, i - 1) = SubSeq(t, 1, i - 1)
    BY <2>2, <2>3, SeqEqual
  <2> QED
    BY <2>2, <2>3, <2>4
<1>3. Len(s) \in Nat /\ Len(t) \in Nat
  BY <1>1
<1> QED
  BY <1>1, <1>2, <1>3 DEF TxtBefore, DifferAt

\* Texts are ordered.
LEMMA TextsOrdered ==
  /\ \A s \in SaidTexts : ~TxtBefore(s, s)
  /\ \A s, t, u \in SaidTexts : TxtBefore(s, t) /\ TxtBefore(t, u) => TxtBefore(s, u)
  /\ \A s, t \in SaidTexts : s = t \/ TxtBefore(s, t) \/ TxtBefore(t, s)
<1>1. \A s \in SaidTexts : s \in Seq(Nat) /\ Len(s) \in Nat
                       /\ \A i \in 1 .. Len(s) : s[i] \in Nat
  BY DEF SaidTexts
<1>2. ASSUME NEW s \in SaidTexts PROVE ~TxtBefore(s, s)
  <2> SUFFICES ASSUME NEW i \in 1 .. Len(s), DifferAt(s, s, i) PROVE FALSE
    BY TxtBeforeIs
  <2> QED
    BY <1>1 DEF DifferAt
<1>3. ASSUME NEW s \in SaidTexts, NEW t \in SaidTexts, NEW u \in SaidTexts,
             TxtBefore(s, t), TxtBefore(t, u)
      PROVE  TxtBefore(s, u)
  <2>1. PICK i \in 1 .. Len(t) : DifferAt(s, t, i)
    BY <1>3, TxtBeforeIs
  <2>2. PICK k \in 1 .. Len(u) : DifferAt(t, u, k)
    BY <1>3, TxtBeforeIs
  <2>3. /\ Len(s) \in Nat /\ Len(t) \in Nat /\ Len(u) \in Nat
        /\ \A j \in 1 .. Len(s) : s[j] \in Nat
        /\ \A j \in 1 .. Len(t) : t[j] \in Nat
        /\ \A j \in 1 .. Len(u) : u[j] \in Nat
    BY <1>1
  <2>4. CASE i <= k
    <3>1. i \in 1 .. Len(u) /\ i <= Len(s) + 1
      BY <2>1, <2>2, <2>3, <2>4 DEF DifferAt
    <3>2. \A j \in 1 .. i - 1 : s[j] = u[j]
      BY <2>1, <2>2, <2>3, <2>4 DEF DifferAt
    <3>3. CASE i < k
      BY <2>1, <2>2, <2>3, <3>1, <3>2, <3>3, TxtBeforeIs DEF DifferAt
    <3>4. CASE i = k
      <4>1. t[i] < u[i]
        BY <2>1, <2>2, <2>3, <3>4 DEF DifferAt
      <4>2. Len(s) = i - 1 \/ s[i] < u[i]
        BY <2>1, <2>3, <3>1, <4>1 DEF DifferAt
      <4> QED
        BY <3>1, <3>2, <4>2, TxtBeforeIs DEF DifferAt
    <3> QED
      BY <2>3, <2>4, <3>3, <3>4
  <2>5. CASE k < i
    <3>1. k \in 1 .. Len(t) /\ k \in 1 .. Len(s)
      BY <2>1, <2>2, <2>3, <2>5 DEF DifferAt
    <3>2. t[k] < u[k] /\ s[k] = t[k]
      BY <2>1, <2>2, <2>3, <2>5, <3>1 DEF DifferAt
    <3>3. \A j \in 1 .. k - 1 : s[j] = u[j]
      BY <2>1, <2>2, <2>3, <2>5 DEF DifferAt
    <3> QED
      BY <2>3, <3>1, <3>2, <3>3, TxtBeforeIs DEF DifferAt
  <2> QED
    BY <2>3, <2>4, <2>5
<1>4. ASSUME NEW s \in SaidTexts, NEW t \in SaidTexts, s # t,
             Len(s) <= Len(t)
      PROVE  TxtBefore(s, t) \/ TxtBefore(t, s)
  <2> DEFINE D == {j \in 1 .. Len(s) : s[j] # t[j]}
  <2>1. /\ Len(s) \in Nat /\ Len(t) \in Nat
        /\ \A j \in 1 .. Len(s) : s[j] \in Nat
        /\ \A j \in 1 .. Len(t) : t[j] \in Nat
    BY <1>1
  <2>2. CASE D = {}
    <3>1. \A j \in 1 .. Len(s) : s[j] = t[j]
      BY <2>2
    <3>2. Len(s) # Len(t)
      BY <1>1, <1>4, <3>1, SeqEqual
    <3>3. DifferAt(s, t, Len(s) + 1) /\ Len(s) + 1 \in 1 .. Len(t)
      BY <1>4, <2>1, <3>1, <3>2 DEF DifferAt
    <3> QED
      BY <3>3, TxtBeforeIs
  <2>3. CASE D # {}
    <3>1. PICK m \in D : \A j \in D : m <= j
      <4>1. D \in SUBSET Nat
        BY <2>1
      <4> HIDE DEF D
      <4> QED
        BY <2>3, <4>1, LeastNumber
    <3>2. /\ m \in 1 .. Len(s) /\ m \in 1 .. Len(t)
          /\ s[m] # t[m] /\ s[m] \in Nat /\ t[m] \in Nat
      BY <1>4, <2>1, <3>1
    <3>3. \A j \in 1 .. m - 1 : s[j] = t[j]
      BY <2>1, <3>1, <3>2
    <3>4. DifferAt(s, t, m) \/ DifferAt(t, s, m)
      BY <2>1, <3>2, <3>3 DEF DifferAt
    <3> QED
      BY <3>2, <3>4, TxtBeforeIs
  <2> QED
    BY <2>2, <2>3
<1>5. ASSUME NEW s \in SaidTexts, NEW t \in SaidTexts
      PROVE  s = t \/ TxtBefore(s, t) \/ TxtBefore(t, s)
  <2>1. Len(s) \in Nat /\ Len(t) \in Nat
    BY <1>1
  <2> QED
    BY <1>4, <2>1
<1> QED
  BY <1>2, <1>3, <1>5

\* And NULL comes after all of them.
LEMMA SaidOrdered ==
  /\ \A s \in Said : ~TxtBefore(s, s)
  /\ \A s, t, u \in Said : TxtBefore(s, t) /\ TxtBefore(t, u) => TxtBefore(s, u)
  /\ \A s, t \in Said : s = t \/ TxtBefore(s, t) \/ TxtBefore(t, s)
<1>1. \A t : ~TxtBefore(NoTxt, t)
  BY DEF TxtBefore
<1>2. \A s \in SaidTexts : TxtBefore(s, NoTxt)
  BY DEF TxtBefore, SaidTexts
<1> QED
  BY <1>1, <1>2, TextsOrdered DEF Said

\* The lines that there may be.
Lines == [ktxt : Said, rtxt : Said, seq : Nat, id : Nat]

\* Lines of different entries are in order.
LEMMA LinesOrdered ==
  /\ \A h \in Lines : ~LineBefore(h, h)
  /\ \A h, k, l \in Lines : LineBefore(h, k) /\ LineBefore(k, l) => LineBefore(h, l)
  /\ \A h, k \in Lines : h.id = k.id \/ LineBefore(h, k) \/ LineBefore(k, h)
<1>1. \A h \in Lines : h.ktxt \in Said /\ h.rtxt \in Said /\ h.seq \in Nat /\ h.id \in Nat
  BY DEF Lines
<1>2. ASSUME NEW h \in Lines PROVE ~LineBefore(h, h)
  BY <1>1, SaidOrdered DEF LineBefore
<1>3. ASSUME NEW h \in Lines, NEW k \in Lines, NEW l \in Lines,
             LineBefore(h, k), LineBefore(k, l)
      PROVE  LineBefore(h, l)
  <2>1. CASE h.ktxt # k.ktxt \/ k.ktxt # l.ktxt
    <3>1. TxtBefore(h.ktxt, l.ktxt)
      BY <1>1, <1>3, <2>1, SaidOrdered DEF LineBefore
    <3> QED
      BY <3>1 DEF LineBefore
  <2>2. CASE h.ktxt = k.ktxt /\ k.ktxt = l.ktxt
    <3>1. ~TxtBefore(h.ktxt, k.ktxt) /\ ~TxtBefore(k.ktxt, l.ktxt)
      BY <1>1, <2>2, SaidOrdered
    <3>2. CASE h.rtxt # k.rtxt \/ k.rtxt # l.rtxt
      <4>1. TxtBefore(h.rtxt, l.rtxt)
        BY <1>1, <1>3, <3>1, <3>2, SaidOrdered DEF LineBefore
      <4> QED
        BY <2>2, <4>1 DEF LineBefore
    <3>3. CASE h.rtxt = k.rtxt /\ k.rtxt = l.rtxt
      <4>1. ~TxtBefore(h.rtxt, k.rtxt) /\ ~TxtBefore(k.rtxt, l.rtxt)
        BY <1>1, <3>3, SaidOrdered
      <4> QED
        BY <1>1, <1>3, <2>2, <3>1, <3>3, <4>1 DEF LineBefore
    <3> QED
      BY <3>2, <3>3
  <2> QED
    BY <2>1, <2>2
<1>4. ASSUME NEW h \in Lines, NEW k \in Lines
      PROVE  h.id = k.id \/ LineBefore(h, k) \/ LineBefore(k, h)
  BY <1>1, SaidOrdered DEF LineBefore
<1> QED
  BY <1>2, <1>3, <1>4

\* The entries of the corpus: ids that were given out, with what entries say.
CorpusOK ==
  /\ given \subseteq Ids
  /\ DOMAIN db \subseteq given
  /\ \A e \in DOMAIN db : db[e] \in Docs

\* Each entry has a line.
LEMMA LineIs ==
  ASSUME CorpusOK, NEW e \in DOMAIN db
  PROVE  LineOf(e) \in Lines /\ LineOf(e).id = e
<1>1. /\ db[e].kanj \in Seq(Seq(Nat)) /\ NoTxt \notin Range(db[e].kanj)
      /\ db[e].rdng \in Seq(Seq(Nat)) /\ NoTxt \notin Range(db[e].rdng)
      /\ db[e].seq \in Nat /\ e \in Nat
  BY DocsHaveTexts, IdsAreNumbers DEF CorpusOK
<1>2. ASSUME NEW list \in Seq(Seq(Nat)), NoTxt \notin Range(list)
      PROVE  HeadOf(list) \in Said
  <2>1. CASE list = <<>>
    BY <2>1 DEF HeadOf, Said
  <2>2. CASE list # <<>>
    <3>1. Len(list) \in Nat \ {0} /\ DOMAIN list = 1 .. Len(list)
      BY <2>2, EmptySeq, LenProperties
    <3>2. list[1] \in Seq(Nat) /\ 1 \in DOMAIN list
      BY <3>1, ElementOfSeq
    <3>3. list[1] # NoTxt
      BY <1>2, <3>2 DEF Range
    <3> QED
      BY <2>2, <3>2, <3>3 DEF HeadOf, Said, SaidTexts
  <2> QED
    BY <2>1, <2>2
<1> QED
  BY <1>1, <1>2 DEF LineOf, Lines

\* The rows of the statement are in order, whichever they are.
LEMMA SortedIsOrder ==
  ASSUME CorpusOK, NEW S \in SUBSET DOMAIN db
  PROVE  IsOrder(S, Sorted)
<1>1. \A a, b \in S : <<a, b>> \in Sorted <=> LineBefore(LineOf(a), LineOf(b))
  BY DEF Sorted
<1>2. \A a \in S : LineOf(a) \in Lines /\ LineOf(a).id = a
  BY LineIs
<1> QED
  BY <1>1, <1>2, LinesOrdered DEF IsOrder

\* There are finitely many rows.
LEMMA FoundFinite ==
  ASSUME CorpusOK, NEW C
  PROVE  /\ FoundBy(C) \in SUBSET DOMAIN db
         /\ IsFiniteSet(FoundBy(C)) /\ Cardinality(FoundBy(C)) \in Nat
         /\ IsOrder(FoundBy(C), Sorted)
<1>1. FoundBy(C) \in SUBSET DOMAIN db /\ FoundBy(C) \in SUBSET Ids
  BY DEF FoundBy, CorpusOK
<1>2. IsFiniteSet(FoundBy(C))
  BY <1>1, IdsAreNumbers, FS_Subset
<1> QED
  BY <1>1, <1>2, SortedIsOrder, FS_CardinalityType

-----------------------------------------------------------------------------
(* The invariant. *)

\* What a search of form f finds now.
Rest(f) == FoundBy(So2Conds(f))

\* A search and the pages of it seen so far.
Reading == [form : Forms, ps : PageSizes, p0 : Nat, pt : Int, rs : Seq(Ids),
            seen : Seq(Ids), phase : {"read", "count", "page"},
            matches : SUBSET Ids, used : SUBSET given]

\* The statement finds what it found, without the entries deleted since ...
RestOK(a) == Rest(a.form) = a.matches \cap DOMAIN db

\* ... those that were shown have only others before them that were shown ...
SeenOK(a) ==
  /\ IsInjective(a.seen)
  /\ Range(a.seen) \subseteq a.matches
  /\ \A e \in Range(a.seen) \cap Rest(a.form) :
       Rank(e, Rest(a.form), Sorted) < Len(a.seen)

\* ... nothing is left after a page that is not full ...
FullOK(a) == Len(a.rs) < a.ps => Cardinality(Rest(a.form)) <= Len(a.seen)

\* ... and as many matches were counted as there are, or more.
CountOK(a) == a.pt >= 0 => Cardinality(Rest(a.form)) <= a.pt

\* All this while no entry is entered.
PagesOK(a) ==
  /\ a \in Reading
  /\ a.phase # "read" /\ (a.pt < 0 <=> a.phase = "count")
  /\ Len(a.seen) = a.p0 + Len(a.rs)
  /\ a.used = given => RestOK(a) /\ SeenOK(a) /\ FullOK(a) /\ CountOK(a)

\* The invariant of the pages.
IInv == CorpusOK /\ (at = NoSearch \/ PagesOK(at))

-----------------------------------------------------------------------------
(* A page. *)

\* A page has the next rows of the statement, and is not full only if there
\* are no more.
LEMMA PageIs ==
  ASSUME CorpusOK, NEW a \in Reading
  PROVE  LET all  == Ordered(a.form)
             size == Cardinality(Rest(a.form))
             end  == IF a.p0 + a.ps < Len(all) THEN a.p0 + a.ps ELSE Len(all)
             rs   == SubSeq(all, a.p0 + 1, end)
         IN  /\ rs \in Seq(Rest(a.form)) /\ rs \in Seq(Ids)
             /\ \A i \in 1 .. Len(rs) :
                  Rank(rs[i], Rest(a.form), Sorted) = a.p0 + i - 1
             /\ Len(rs) < a.ps => size <= a.p0 + Len(rs)
<1> DEFINE R == Rest(a.form)
           all == Ordered(a.form)
           size == Cardinality(R)
           end == IF a.p0 + a.ps < Len(all) THEN a.p0 + a.ps ELSE Len(all)
           rs == SubSeq(all, a.p0 + 1, end)
<1>1. /\ IsFiniteSet(R) /\ size \in Nat /\ IsOrder(R, Sorted)
      /\ R \subseteq Ids
  BY FoundFinite DEF Rest, CorpusOK
<1>2. all = InOrder(R, Sorted)
  BY DEF Ordered, Rest
<1> HIDE DEF R, all
<1>3. /\ all \in Seq(R) /\ Len(all) = size
      /\ \A i \in 1 .. size : all[i] \in R /\ Rank(all[i], R, Sorted) = i - 1
  BY <1>1, <1>2, InOrderIs
<1>4. a.p0 \in Nat /\ a.ps \in Nat \ {0}
  BY PagesHaveRows DEF Reading
<1>5. /\ end \in Nat /\ end <= size
      /\ end < a.p0 + a.ps => end = size
  BY <1>1, <1>3, <1>4
<1> HIDE DEF end, size
<1>6. \A i \in a.p0 + 1 .. end : all[i] \in R
  BY <1>1, <1>3, <1>4, <1>5 DEF size
<1>7. /\ rs \in Seq(R)
      /\ Len(rs) = IF a.p0 + 1 <= end THEN end - (a.p0 + 1) + 1 ELSE 0
      /\ \A i \in 1 .. end - (a.p0 + 1) + 1 : rs[i] = all[(a.p0 + 1) + i - 1]
  <2> DEFINE m == a.p0 + 1
  <2>1. m \in Int /\ end \in Int
    BY <1>4, <1>5
  <2>2. \A i \in m .. end : all[i] \in R
    BY <1>6
  <2> HIDE DEF m
  <2>3. /\ SubSeq(all, m, end) \in Seq(R)
        /\ Len(SubSeq(all, m, end)) = IF m <= end THEN end - m + 1 ELSE 0
        /\ \A i \in 1 .. end - m + 1 : SubSeq(all, m, end)[i] = all[m + i - 1]
    BY <2>1, <2>2, SubSeqProperties
  <2> QED
    BY <2>3 DEF m
<1> HIDE DEF rs
<1>8. rs \in Seq(Ids)
  BY <1>1, <1>7, SeqMonotonic
<1>9. \A i \in 1 .. Len(rs) : Rank(rs[i], R, Sorted) = a.p0 + i - 1
  <2> SUFFICES ASSUME NEW i \in 1 .. Len(rs)
               PROVE  Rank(rs[i], R, Sorted) = a.p0 + i - 1
    OBVIOUS
  <2>1. i \in 1 .. end - (a.p0 + 1) + 1 /\ a.p0 + i \in 1 .. size
    <3>1. Len(rs) = IF a.p0 + 1 <= end THEN end - (a.p0 + 1) + 1 ELSE 0
      BY <1>7
    <3>2. end \in Nat /\ size \in Nat /\ end <= size
      BY <1>1, <1>5 DEF size
    <3> QED
      BY <1>4, <3>1, <3>2
  <2>2. rs[i] = all[a.p0 + i]
    BY <1>4, <1>7, <2>1
  <2> QED
    BY <1>3, <1>4, <2>1, <2>2
<1>10. Len(rs) < a.ps => size <= a.p0 + Len(rs)
  BY <1>1, <1>4, <1>5, <1>7 DEF size
<1> QED
  BY <1>7, <1>8, <1>9, <1>10 DEF R, all, end, rs, size

\* A search before its next page is fetched.
ReadyOK(a) ==
  /\ a \in Reading
  /\ a.p0 = Len(a.seen)
  /\ a.pt < 0 => a.p0 = 0
  /\ a.used = given => RestOK(a) /\ SeenOK(a) /\ CountOK(a)

\* Rows that follow those that were shown are others.
LEMMA SeenAndPage ==
  ASSUME CorpusOK, NEW a \in Reading, RestOK(a), SeenOK(a),
         NEW rs \in Seq(Rest(a.form)),
         \A i \in 1 .. Len(rs) :
           Rank(rs[i], Rest(a.form), Sorted) = Len(a.seen) + i - 1
  PROVE  /\ IsInjective(a.seen \o rs)
         /\ Range(a.seen \o rs) \subseteq a.matches
         /\ \A e \in Range(a.seen \o rs) \cap Rest(a.form) :
              Rank(e, Rest(a.form), Sorted) < Len(a.seen \o rs)
<1> DEFINE R == Rest(a.form)
           n == Len(a.seen)
           m == Len(rs)
           all == a.seen \o rs
<1>1. /\ a.seen \in Seq(Ids) /\ rs \in Seq(Ids)
      /\ n \in Nat /\ m \in Nat /\ R \subseteq a.matches
  <2>1. a.seen \in Seq(Ids)
    BY DEF Reading
  <2>2. R \subseteq Ids /\ R \subseteq a.matches
    BY FoundFinite DEF Rest, CorpusOK, RestOK
  <2> QED
    BY <2>1, <2>2, SeqMonotonic
<1>2. /\ all \in Seq(Ids) /\ Len(all) = n + m
      /\ \A i \in 1 .. n + m : all[i] = IF i <= n THEN a.seen[i] ELSE rs[i - n]
  BY <1>1, ConcatProperties
<1>3. DOMAIN all = 1 .. n + m /\ DOMAIN a.seen = 1 .. n
  BY <1>1, <1>2, LenProperties
<1>4. \A i \in 1 .. m : rs[i] \in R /\ Rank(rs[i], R, Sorted) = n + i - 1
  BY ElementOfSeq
<1>5. \A i \in 1 .. n : a.seen[i] \in Range(a.seen)
  BY <1>3 DEF Range
<1>6. \A i \in 1 .. n : a.seen[i] \in R => Rank(a.seen[i], R, Sorted) < n
  BY <1>5 DEF SeenOK
<1> HIDE DEF R, n, m, all
<1>7. IsInjective(all)
  <2> SUFFICES ASSUME NEW i \in 1 .. n + m, NEW j \in 1 .. n + m,
                      all[i] = all[j], i <= j
               PROVE  i = j
    BY <1>1, <1>3 DEF IsInjective
  <2>1. CASE j <= n
    <3>1. i \in 1 .. n /\ j \in 1 .. n
      BY <1>1, <2>1
    <3>2. a.seen[i] = a.seen[j]
      BY <1>2, <3>1
    <3> QED
      BY <1>3, <3>1, <3>2 DEF SeenOK, IsInjective
  <2>2. CASE i <= n /\ n < j
    <3>1. i \in 1 .. n /\ j - n \in 1 .. m
      BY <1>1, <2>2
    <3>2. a.seen[i] = rs[j - n]
      BY <1>1, <1>2, <2>2
    <3>3. rs[j - n] \in R /\ Rank(rs[j - n], R, Sorted) = n + (j - n) - 1
      BY <1>4, <3>1
    <3>4. Rank(rs[j - n], R, Sorted) < n
      BY <1>6, <3>1, <3>2, <3>3
    <3> QED
      BY <1>1, <2>2, <3>3, <3>4
  <2>3. CASE n < i
    <3>1. i - n \in 1 .. m /\ j - n \in 1 .. m
      BY <1>1, <2>3
    <3>2. rs[i - n] = rs[j - n]
      BY <1>1, <1>2, <2>3
    <3>3. n + (i - n) - 1 = n + (j - n) - 1
      BY <1>4, <3>1, <3>2
    <3> QED
      BY <1>1, <3>3
  <2> QED
    BY <1>1, <2>1, <2>2, <2>3
<1>8. ASSUME NEW e \in Range(all)
      PROVE  e \in Range(a.seen) \/ \E i \in 1 .. m : e = rs[i]
  <2>1. PICK i \in 1 .. n + m : e = all[i]
    BY <1>3 DEF Range
  <2>2. CASE i <= n
    BY <1>1, <1>2, <1>5, <2>1, <2>2
  <2>3. CASE n < i
    <3>1. i - n \in 1 .. m /\ e = rs[i - n]
      BY <1>1, <1>2, <2>1, <2>3
    <3> QED
      BY <3>1
  <2> QED
    BY <1>1, <2>2, <2>3
<1>9. Range(all) \subseteq a.matches
  BY <1>1, <1>4, <1>8 DEF SeenOK
<1>10. ASSUME NEW e \in Range(all) \cap R
       PROVE  Rank(e, R, Sorted) < n + m
  <2>1. CASE e \in Range(a.seen)
    <3>1. Rank(e, R, Sorted) < n
      BY <1>10, <2>1 DEF SeenOK, R, n
    <3>2. Rank(e, R, Sorted) \in Nat
      <4>1. IsFiniteSet(R) /\ IsOrder(R, Sorted) /\ Cardinality(R) \in Nat
        BY FoundFinite DEF R, Rest
      <4> QED
        BY <1>10, <4>1, RankRange
    <3> QED
      BY <1>1, <3>1, <3>2
  <2>2. CASE \E i \in 1 .. m : e = rs[i]
    BY <1>1, <1>4, <2>2
  <2> QED
    BY <1>8, <1>10, <2>1, <2>2
<1> QED
  BY <1>2, <1>7, <1>9, <1>10 DEF R, n, m, all

\* Fetching a page keeps the invariant.
LEMMA PageKeeps ==
  ASSUME CorpusOK, NEW a, ReadyOK(a)
  PROVE  PagesOK(Page(a))
<1> DEFINE all == Ordered(a.form)
           end == IF a.p0 + a.ps < Len(all) THEN a.p0 + a.ps ELSE Len(all)
           rs == SubSeq(all, a.p0 + 1, end)
           counts == a.pt < 0 /\ MayHaveMore(Len(rs), a.ps)
           pt == IF a.pt < 0 /\ ~counts THEN Len(rs) ELSE a.pt
           phase == IF counts THEN "count" ELSE "page"
           b == [a EXCEPT !.rs = rs, !.seen = @ \o rs, !.pt = pt, !.phase = phase]
<1>1. Page(a) = b
  BY DEF Page
<1>2. /\ a \in Reading /\ a.p0 = Len(a.seen) /\ a.pt \in Int /\ a.p0 \in Nat
      /\ a.ps \in Nat /\ a.seen \in Seq(Ids)
  BY PagesHaveRows DEF ReadyOK, Reading
<1>3. /\ rs \in Seq(Rest(a.form)) /\ rs \in Seq(Ids)
      /\ \A i \in 1 .. Len(rs) :
           Rank(rs[i], Rest(a.form), Sorted) = a.p0 + i - 1
      /\ Len(rs) < a.ps => Cardinality(Rest(a.form)) <= a.p0 + Len(rs)
  BY <1>2, PageIs
<1> HIDE DEF rs
<1>4. Len(rs) \in Nat
  BY <1>3, LenProperties
<1>5. /\ b.form = a.form /\ b.ps = a.ps /\ b.p0 = a.p0 /\ b.rs = rs
      /\ b.seen = a.seen \o rs /\ b.matches = a.matches /\ b.used = a.used
      /\ b.pt = pt /\ b.phase = phase
  BY <1>2 DEF Reading
<1>6. a.seen \o rs \in Seq(Ids) /\ Len(a.seen \o rs) = a.p0 + Len(rs)
  BY <1>2, <1>3, ConcatProperties
<1>7. b \in Reading
  <2>1. pt \in Int /\ phase \in {"read", "count", "page"}
    BY <1>2, <1>4
  <2> HIDE DEF pt, phase
  <2> QED
    BY <1>2, <1>3, <1>6, <2>1 DEF Reading
<1> HIDE DEF b
<1>8. /\ b.phase # "read" /\ (b.pt < 0 <=> b.phase = "count")
      /\ Len(b.seen) = b.p0 + Len(b.rs)
  BY <1>2, <1>4, <1>5, <1>6
<1>9. ASSUME b.used = given
      PROVE  RestOK(b) /\ SeenOK(b) /\ FullOK(b) /\ CountOK(b)
  <2>1. RestOK(a) /\ SeenOK(a) /\ CountOK(a)
    BY <1>5, <1>9 DEF ReadyOK
  <2>2. RestOK(b)
    BY <1>5, <2>1 DEF RestOK
  <2>3. SeenOK(b)
    BY <1>2, <1>3, <1>5, <2>1, SeenAndPage DEF SeenOK
  <2>4. FullOK(b)
    BY <1>3, <1>5, <1>6 DEF FullOK
  <2>5. CountOK(b)
    <3>1. CASE a.pt < 0 /\ ~counts
      <4>1. Len(rs) < a.ps /\ a.p0 = 0
        BY <1>2, <1>4, <3>1 DEF ReadyOK, MayHaveMore
      <4> QED
        BY <1>3, <1>4, <1>5, <3>1, <4>1 DEF CountOK
    <3>2. CASE ~(a.pt < 0 /\ ~counts)
      BY <1>5, <2>1, <3>2 DEF CountOK
    <3> QED
      BY <3>1, <3>2
  <2> QED
    BY <2>2, <2>3, <2>4, <2>5
<1> QED
  BY <1>1, <1>7, <1>8, <1>9 DEF PagesOK

-----------------------------------------------------------------------------
(* The steps. *)

\* Nothing that the corpus keeps of what was found is lost to it.
LEMMA DeleteKeeps ==
  ASSUME CorpusOK, NEW e \in DOMAIN db, Delete(e), NEW a, PagesOK(a)
  PROVE  PagesOK(a)'
<1>1. /\ DOMAIN db' = DOMAIN db \ {e} /\ given' = given
      /\ \A d \in DOMAIN db' : db'[d] = db[d]
  BY DEF Delete
<1>2. \A d \in DOMAIN db' : LineOf(d)' = LineOf(d)
  BY <1>1 DEF LineOf
<1>3. Rest(a.form)' = Rest(a.form) \ {e}
  BY <1>1 DEF Rest, FoundBy
<1> DEFINE R == Rest(a.form)
           Q == Rest(a.form)'
<1>4. /\ IsFiniteSet(R) /\ Cardinality(R) \in Nat
      /\ Q \in SUBSET R /\ Q \in SUBSET DOMAIN db'
  BY <1>1, <1>3, FoundFinite DEF Rest, FoundBy
<1>5. /\ IsFiniteSet(Q) /\ Cardinality(Q) \in Nat
      /\ Cardinality(Q) <= Cardinality(R)
  <2> HIDE DEF R, Q
  <2> QED
    BY <1>4, FS_Subset, FS_CardinalityType
<1>6. ASSUME NEW d \in Q
      PROVE  /\ Rank(d, Q, Sorted') <= Rank(d, R, Sorted)
             /\ Rank(d, Q, Sorted') \in Nat /\ Rank(d, R, Sorted) \in Nat
  <2> DEFINE B == {c \in R : <<c, d>> \in Sorted}
             A == {c \in Q : <<c, d>> \in Sorted'}
  <2>1. A \in SUBSET B
    <3> SUFFICES ASSUME NEW c \in Q, <<c, d>> \in Sorted' PROVE <<c, d>> \in Sorted
      BY <1>4
    <3>1. LineBefore(LineOf(c)', LineOf(d)')
      BY DEF Sorted, LineBefore, TxtBefore
    <3>2. c \in DOMAIN db /\ d \in DOMAIN db /\ c \in DOMAIN db' /\ d \in DOMAIN db'
      BY <1>1, <1>4
    <3> QED
      BY <1>2, <3>1, <3>2 DEF Sorted
  <2>2. B \in SUBSET R
    OBVIOUS
  <2> HIDE DEF A, B, R, Q
  <2>3. /\ IsFiniteSet(B) /\ IsFiniteSet(A)
    BY <1>4, <2>1, <2>2, FS_Subset
  <2>4. /\ Cardinality(A) \in Nat /\ Cardinality(B) \in Nat
        /\ Cardinality(A) <= Cardinality(B)
    BY <2>1, <2>3, FS_Subset, FS_CardinalityType
  <2> QED
    BY <2>4 DEF Rank, A, B
<1>7. a \in Reading' /\ a.seen \in Seq(Ids)
  BY <1>1 DEF PagesOK, Reading
<1>8. ASSUME a.used = given'
      PROVE  (RestOK(a) /\ SeenOK(a) /\ FullOK(a) /\ CountOK(a))'
  <2>1. RestOK(a) /\ SeenOK(a) /\ FullOK(a) /\ CountOK(a)
    BY <1>1, <1>8 DEF PagesOK
  <2>2. Q = a.matches \cap DOMAIN db'
    BY <1>1, <1>3, <2>1 DEF RestOK
  <2>3. \A d \in Range(a.seen) \cap Q : Rank(d, Q, Sorted') < Len(a.seen)
    <3> SUFFICES ASSUME NEW d \in Range(a.seen) \cap Q
                 PROVE  Rank(d, Q, Sorted') < Len(a.seen)
      OBVIOUS
    <3>1. Rank(d, R, Sorted) < Len(a.seen)
      BY <1>4, <2>1 DEF SeenOK
    <3>2. Len(a.seen) \in Nat
      BY <1>7, LenProperties
    <3> HIDE DEF R, Q
    <3> QED
      BY <1>6, <3>1, <3>2
  <2>4. Len(a.rs) < a.ps => Cardinality(Q) <= Len(a.seen)
    <3>1. Len(a.rs) < a.ps => Cardinality(R) <= Len(a.seen)
      BY <2>1 DEF FullOK
    <3>2. Len(a.seen) \in Nat
      BY <1>7, LenProperties
    <3> HIDE DEF R, Q
    <3> QED
      BY <1>4, <1>5, <3>1, <3>2
  <2>5. a.pt >= 0 => Cardinality(Q) <= a.pt
    <3>1. a.pt >= 0 => Cardinality(R) <= a.pt
      BY <2>1 DEF CountOK
    <3>2. a.pt \in Int
      BY DEF PagesOK, Reading
    <3> HIDE DEF R, Q
    <3> QED
      BY <1>4, <1>5, <3>1, <3>2
  <2> QED
    BY <2>1, <2>2, <2>3, <2>4, <2>5 DEF RestOK, SeenOK, FullOK, CountOK
<1> QED
  BY <1>7, <1>8 DEF PagesOK

\* When an entry is entered the number of ids in use changes.
LEMMA EnterKeeps ==
  ASSUME CorpusOK, NEW d \in Docs, Enter(d), NEW a, PagesOK(a)
  PROVE  PagesOK(a)'
<1> DEFINE e == CHOOSE i \in Ids \ given : \A j \in Ids \ given : i <= j
<1>1. given' = given \cup {e} /\ Ids # given
  BY DEF Enter
<1>2. e \in Ids \ given
  <2>1. Ids \ given \in SUBSET Nat /\ Ids \ given # {}
    BY <1>1, IdsAreNumbers DEF CorpusOK
  <2>2. \E i \in Ids \ given : \A j \in Ids \ given : i <= j
    <3> DEFINE S == Ids \ given
    <3> HIDE DEF S
    <3>1. \E m \in S : \A k \in S : m <= k
      BY <2>1, LeastNumber DEF S
    <3> QED
      BY <3>1 DEF S
  <2> QED
    BY <2>2
<1> HIDE DEF e
<1>3. a \in Reading' /\ a.used # given'
  BY <1>1, <1>2 DEF PagesOK, Reading
<1> QED
  BY <1>3 DEF PagesOK

\* The corpus stays one.
LEMMA CorpusKeeps ==
  ASSUME CorpusOK, [SearchNext]_searchVars
  PROVE  CorpusOK'
<1>1. ASSUME NEW d \in Docs, Enter(d) PROVE CorpusOK'
  <2> DEFINE e == CHOOSE i \in Ids \ given : \A j \in Ids \ given : i <= j
  <2>1. /\ given' = given \cup {e} /\ Ids # given
        /\ db' = [i \in DOMAIN db \cup {e} |-> IF i = e THEN d ELSE db[i]]
    BY <1>1 DEF Enter
  <2>2. e \in Ids
    <3> DEFINE S == Ids \ given
    <3>1. S \in SUBSET Nat /\ S # {}
      BY <2>1, IdsAreNumbers DEF CorpusOK
    <3> HIDE DEF S
    <3>2. \E m \in S : \A k \in S : m <= k
      BY <3>1, LeastNumber
    <3> QED
      BY <3>2 DEF S
  <2> HIDE DEF e
  <2> QED
    BY <2>1, <2>2 DEF CorpusOK
<1>2. ASSUME NEW e \in DOMAIN db, Delete(e) PROVE CorpusOK'
  BY <1>2 DEF CorpusOK, Delete
<1>3. ASSUME UNCHANGED <<db, given>> PROVE CorpusOK'
  BY <1>3 DEF CorpusOK
<1> QED
  BY <1>1, <1>2, <1>3 DEF SearchNext, Send, Count, NextPage, Leave, searchVars

\* The initial states satisfy the invariant.
LEMMA InitIInv == SearchInit => IInv
BY DEF SearchInit, IInv, CorpusOK

\* A search is no other than Idle.
LEMMA ReadingIsNotIdle ==
  ASSUME NEW a, PagesOK(a)
  PROVE  a # NoSearch
BY DEF PagesOK, Reading, NoSearch

\* While the corpus stays as it is, so does what is known of a search.
LEMMA SameCorpus ==
  ASSUME UNCHANGED <<db, given>>, NEW a, PagesOK(a)
  PROVE  PagesOK(a)'
<1>1. db' = db /\ given' = given
  OBVIOUS
<1>2. Rest(a.form)' = Rest(a.form)
  BY <1>1 DEF Rest, FoundBy
<1>3. Sorted' = Sorted
  BY <1>1 DEF Sorted, LineOf
<1> QED
  BY <1>1, <1>2, <1>3
    DEF PagesOK, Reading, RestOK, SeenOK, FullOK, CountOK

\* Every step keeps the invariant.
LEMMA NextKeeps ==
  ASSUME IInv, [SearchNext]_searchVars
  PROVE  IInv'
<1>1. CorpusOK /\ CorpusOK' /\ (at = NoSearch \/ PagesOK(at))
  BY CorpusKeeps DEF IInv
<1>2. ASSUME at' = at, PagesOK(at) => PagesOK(at)' PROVE IInv'
  BY <1>1, <1>2 DEF IInv
<1>3. ASSUME NEW d \in Docs, Enter(d) PROVE IInv'
  <2>1. at' = at
    BY <1>3 DEF Enter
  <2>2. PagesOK(at) => PagesOK(at)'
    BY <1>1, <1>3, <2>1, EnterKeeps
      DEF PagesOK, Reading, RestOK, SeenOK, FullOK, CountOK
  <2> QED
    BY <1>2, <2>1, <2>2
<1>4. ASSUME NEW e \in DOMAIN db, Delete(e) PROVE IInv'
  <2>1. at' = at
    BY <1>4 DEF Delete
  <2>2. PagesOK(at) => PagesOK(at)'
    BY <1>1, <1>4, <2>1, DeleteKeeps
      DEF PagesOK, Reading, RestOK, SeenOK, FullOK, CountOK
  <2> QED
    BY <1>2, <2>1, <2>2
<1>5. ASSUME UNCHANGED <<db, given>>, NEW a, PagesOK(a), at' = a PROVE IInv'
  BY <1>1, <1>5, SameCorpus
    DEF IInv, PagesOK, Reading, RestOK, SeenOK, FullOK, CountOK
<1>6. ASSUME NEW f \in Forms, NEW ps \in PageSizes, Send(f, ps) PROVE IInv'
  <2> DEFINE a == [form |-> f, ps |-> ps, p0 |-> 0, pt |-> -1, rs |-> <<>>,
                   seen |-> <<>>, phase |-> "read",
                   matches |-> FoundBy(So2Conds(f)), used |-> given]
  <2>1. a \in Reading
    <3>1. <<>> \in Seq(Ids) /\ FoundBy(So2Conds(f)) \in SUBSET Ids
      BY <1>1, FoundFinite DEF CorpusOK
    <3> QED
      BY <3>1 DEF Reading
  <2>2. RestOK(a) /\ SeenOK(a) /\ CountOK(a)
    <3>1. FoundBy(So2Conds(f)) \subseteq DOMAIN db
      BY DEF FoundBy
    <3>2. DOMAIN a.seen = {}
      BY LenProperties
    <3> QED
      BY <3>1, <3>2 DEF RestOK, Rest, SeenOK, CountOK, IsInjective, Range
  <2>3. ReadyOK(a)
    <3>1. Len(a.seen) = 0
      OBVIOUS
    <3> QED
      BY <2>1, <2>2, <3>1 DEF ReadyOK
  <2> HIDE DEF a
  <2>4. PagesOK(Page(a))
    BY <1>1, <2>3, PageKeeps
  <2>5. at' = Page(a) /\ UNCHANGED <<db, given>>
    BY <1>6 DEF Send, a
  <2> QED
    BY <1>5, <2>4, <2>5
<1>7. ASSUME Count PROVE IInv'
  <2> DEFINE n == Cardinality(FoundBy(So2Conds(at.form)))
             a == [at EXCEPT !.pt = n, !.phase = "page"]
  <2>1. at.phase = "count" /\ at' = a /\ UNCHANGED <<db, given>>
    BY <1>7 DEF Count
  <2>2. PagesOK(at)
    BY <1>1, <2>1 DEF NoSearch
  <2>3. n \in Nat /\ n = Cardinality(Rest(at.form))
    BY <1>1, FoundFinite DEF Rest
  <2> HIDE DEF n
  <2>4. /\ a \in Reading
        /\ a.form = at.form /\ a.ps = at.ps /\ a.p0 = at.p0 /\ a.rs = at.rs
        /\ a.seen = at.seen /\ a.matches = at.matches /\ a.used = at.used
        /\ a.pt = n /\ a.phase = "page"
    <3>1. at \in Reading /\ n \in Int
      BY <2>2, <2>3 DEF PagesOK
    <3>2. a \in Reading
      BY <3>1 DEF Reading
    <3> QED
      BY <3>1, <3>2 DEF Reading
  <2> HIDE DEF a
  <2>5. PagesOK(a)
    BY <2>2, <2>3, <2>4 DEF PagesOK, RestOK, SeenOK, FullOK, CountOK
  <2> QED
    BY <1>5, <2>1, <2>5
<1>8. ASSUME NextPage PROVE IInv'
  <2> DEFINE a == [at EXCEPT !.p0 = @ + Len(at.rs)]
  <2>1. at.phase = "page" /\ at' = Page(a) /\ UNCHANGED <<db, given>>
    BY <1>8 DEF NextPage, HasNext
  <2>2. PagesOK(at)
    BY <1>1, <2>1 DEF NoSearch
  <2>3. Len(at.rs) \in Nat /\ at.p0 \in Nat /\ at.pt \in Int /\ ~(at.pt < 0)
    BY <2>1, <2>2, LenProperties DEF PagesOK, Reading
  <2>4. /\ a \in Reading
        /\ a.form = at.form /\ a.ps = at.ps /\ a.p0 = at.p0 + Len(at.rs)
        /\ a.seen = at.seen /\ a.matches = at.matches /\ a.used = at.used
        /\ a.pt = at.pt
    <3>1. at \in Reading /\ at.p0 + Len(at.rs) \in Nat
      BY <2>2, <2>3 DEF PagesOK
    <3>2. a \in Reading
      BY <3>1 DEF Reading
    <3> QED
      BY <3>1, <3>2 DEF Reading
  <2> HIDE DEF a
  <2>5. ReadyOK(a)
    BY <2>2, <2>3, <2>4 DEF ReadyOK, PagesOK, RestOK, SeenOK, CountOK
  <2> QED
    BY <1>1, <1>5, <2>1, <2>5, PageKeeps
<1>9. ASSUME Leave PROVE IInv'
  BY <1>1, <1>9 DEF Leave, IInv
<1>10. ASSUME UNCHANGED searchVars PROVE IInv'
  <2>1. UNCHANGED <<db, given>> /\ at' = at
    BY <1>10 DEF searchVars
  <2>2. PagesOK(at) => IInv'
    BY <1>5, <2>1
  <2> QED
    BY <1>1, <2>1, <2>2 DEF IInv
<1> QED
  BY <1>3, <1>4, <1>6, <1>7, <1>8, <1>9, <1>10 DEF SearchNext

-----------------------------------------------------------------------------
(* Texts. *)

\* The last part of a text, and all such parts.
LEMMA SuffixesAre ==
  ASSUME NEW s \in Seq(Nat)
  PROVE  Suffixes(s) = {SubSeq(s, l, Len(s)) : l \in 1 .. Len(s) + 1}
<1>1. Len(s) \in Nat /\ SubSeq(s, Len(s) + 1, Len(s)) = <<>>
  BY SubSeqEmpty
<1>2. 1 .. Len(s) + 1 = (1 .. Len(s)) \cup {Len(s) + 1}
  BY <1>1
<1>3. ASSUME NEW x
      PROVE  x \in Suffixes(s) <=> \E l \in 1 .. Len(s) + 1 : x = SubSeq(s, l, Len(s))
  <2>1. x \in Suffixes(s)
          <=> (\E l \in 1 .. Len(s) : x = SubSeq(s, l, Len(s))) \/ x = <<>>
    BY DEF Suffixes
  <2> QED
    BY <1>1, <1>2, <2>1
<1> QED
  BY <1>3

\* A part of a text is a text.
LEMMA PartIs ==
  ASSUME NEW s \in Seq(Nat), NEW m \in 1 .. Len(s) + 1, NEW n \in 0 .. Len(s)
  PROVE  /\ SubSeq(s, m, n) \in Seq(Nat)
         /\ Len(SubSeq(s, m, n)) = IF m <= n THEN n - m + 1 ELSE 0
         /\ \A i \in 1 .. n - m + 1 : SubSeq(s, m, n)[i] = s[m + i - 1]
<1>1. m \in Int /\ n \in Int /\ Len(s) \in Nat
  OBVIOUS
<1>2. \A i \in m .. n : s[i] \in Nat
  BY <1>1, ElementOfSeq
<1> QED
  BY <1>1, <1>2, SubSeqProperties

\* What is in a text is between two parts of it.
LEMMA PartBetween ==
  ASSUME NEW s \in Seq(Nat), NEW t \in Seq(Nat), NEW i \in 0 .. Len(s) - Len(t),
         SubSeq(s, i + 1, i + Len(t)) = t
  PROVE  s = SubSeq(s, 1, i) \o t \o SubSeq(s, i + Len(t) + 1, Len(s))
<1> DEFINE n == Len(s)
           k == Len(t)
<1>1. n \in Nat /\ k \in Nat /\ i \in Nat /\ i + k <= n /\ i + k \in Nat
  OBVIOUS
<1>2. SubSeq(s, 1, i) \o SubSeq(s, i + 1, i + k) = SubSeq(s, 1, i + k)
  <2>1. 1 \in 1 .. Len(s) + 1 /\ i \in 1 - 1 .. Len(s) /\ i + k \in i .. Len(s)
    BY <1>1
  <2> HIDE DEF k, n
  <2> QED
    BY <2>1, ConcatAdjacentSubSeq
<1>3. SubSeq(s, 1, i + k) \o SubSeq(s, i + k + 1, n) = SubSeq(s, 1, n)
  <2>1. 1 \in 1 .. Len(s) + 1 /\ i + k \in 1 - 1 .. Len(s) /\ n \in i + k .. Len(s)
    BY <1>1
  <2> HIDE DEF k, n
  <2> QED
    BY <2>1, ConcatAdjacentSubSeq
<1>4. SubSeq(s, 1, n) = s
  BY SubSeqFull
<1> QED
  BY <1>2, <1>3, <1>4

\* And what is between two parts of it is in a text.
LEMMA BetweenIsPart ==
  ASSUME NEW x \in Seq(Nat), NEW t \in Seq(Nat), NEW y \in Seq(Nat),
         NEW s, s = x \o t \o y
  PROVE  /\ Len(x) \in 0 .. Len(s) - Len(t)
         /\ Len(s) = Len(x) + Len(t) + Len(y)
         /\ SubSeq(s, Len(x) + 1, Len(x) + Len(t)) = t
<1> DEFINE i == Len(x)
           k == Len(t)
           u == SubSeq(s, i + 1, i + k)
<1>1. i \in Nat /\ k \in Nat /\ Len(y) \in Nat
  OBVIOUS
<1>2. /\ x \o t \in Seq(Nat) /\ Len(x \o t) = i + k
      /\ \A j \in 1 .. i + k : (x \o t)[j] = IF j <= i THEN x[j] ELSE t[j - i]
  BY ConcatProperties
<1>3. /\ s \in Seq(Nat) /\ Len(s) = i + k + Len(y)
      /\ \A j \in 1 .. i + k + Len(y) :
           s[j] = IF j <= i + k THEN (x \o t)[j] ELSE y[j - (i + k)]
  <2>1. /\ (x \o t) \o y \in Seq(Nat) /\ Len((x \o t) \o y) = Len(x \o t) + Len(y)
        /\ \A j \in 1 .. Len(x \o t) + Len(y) :
             ((x \o t) \o y)[j] = IF j <= Len(x \o t) THEN (x \o t)[j] ELSE y[j - Len(x \o t)]
    BY <1>2, ConcatProperties
  <2> QED
    BY <1>2, <2>1
<1>4. \A j \in 1 .. k : s[i + j] = t[j]
  <2> SUFFICES ASSUME NEW j \in 1 .. k, NEW p, p = i + j PROVE s[p] = t[j]
    OBVIOUS
  <2>1. p \in 1 .. i + k + Len(y) /\ p \in 1 .. i + k /\ ~(p <= i)
        /\ p <= i + k /\ p - i = j
    BY <1>1
  <2> HIDE DEF i, k
  <2>2. s[p] = (x \o t)[p]
    BY <1>3, <2>1
  <2>3. (x \o t)[p] = t[p - i]
    BY <1>2, <2>1
  <2> QED
    BY <2>1, <2>2, <2>3
<1>5. /\ u \in Seq(Nat) /\ Len(u) = k
      /\ \A j \in 1 .. k : u[j] = s[i + j]
  <2> DEFINE m == i + 1
             n == i + k
  <2>1. s \in Seq(Nat) /\ m \in 1 .. Len(s) + 1 /\ n \in 0 .. Len(s)
    BY <1>1, <1>3
  <2>2. u = SubSeq(s, m, n)
    OBVIOUS
  <2> HIDE DEF u, i, k, m, n
  <2>3. /\ u \in Seq(Nat)
        /\ Len(u) = IF m <= n THEN n - m + 1 ELSE 0
        /\ \A j \in 1 .. n - m + 1 : u[j] = s[m + j - 1]
    BY <2>1, <2>2, PartIs, Zenon
  <2>4. /\ n - m + 1 = k /\ (m <= n <=> k # 0)
        /\ \A j \in 1 .. k : m + j - 1 = i + j
    BY <1>1 DEF m, n
  <2>5. Len(u) = k
    BY <1>1, <2>3, <2>4
  <2>6. ASSUME NEW j \in 1 .. k PROVE u[j] = s[i + j]
    <3>1. u[j] = s[m + j - 1]
      BY <2>3, <2>4
    <3> QED
      BY <2>4, <3>1
  <2> QED
    BY <2>3, <2>5, <2>6
<1>6. u = t
  <2> HIDE DEF u
  <2> QED
    BY <1>4, <1>5, SeqEqual
<1> QED
  BY <1>1, <1>3, <1>6

\* Parts at the start, at the end, anywhere.
LEMMA StartsIs ==
  ASSUME NEW s \in Seq(Nat), NEW t \in Seq(Nat)
  PROVE  IsPrefix(t, s) <=> \E y \in Suffixes(s) : s = t \o y
<1>1. Len(s) \in Nat /\ Len(t) \in Nat /\ SubSeq(t, 1, Len(t)) = t
  BY SubSeqFull
<1>2. <<>> \in Seq(Nat) /\ Len(<<>>) = 0 /\ <<>> \o t = t
  BY ConcatEmptySeq
<1>3. ASSUME IsPrefix(t, s) PROVE \E y \in Suffixes(s) : s = t \o y
  <2>1. Len(t) <= Len(s) /\ SubSeq(s, 1, Len(t)) = t
    BY <1>1, <1>3 DEF IsPrefix
  <2>2. s = SubSeq(s, 1, 0) \o t \o SubSeq(s, 0 + Len(t) + 1, Len(s))
    <3>1. 0 \in 0 .. Len(s) - Len(t) /\ SubSeq(s, 0 + 1, 0 + Len(t)) = t
      BY <1>1, <2>1
    <3> QED
      BY <3>1, PartBetween
  <2>3. SubSeq(s, 1, 0) = <<>>
    BY SubSeqEmpty
  <2>4. 0 + Len(t) + 1 \in 1 .. Len(s) + 1
    BY <1>1, <2>1
  <2>5. SubSeq(s, 0 + Len(t) + 1, Len(s)) \in Suffixes(s)
    BY <2>4, SuffixesAre
  <2> QED
    BY <1>2, <2>2, <2>3, <2>5
<1>4. ASSUME NEW y \in Suffixes(s), s = t \o y PROVE IsPrefix(t, s)
  <2>1. y \in Seq(Nat)
    <3>1. PICK l \in 1 .. Len(s) + 1 : y = SubSeq(s, l, Len(s))
      BY <1>4, SuffixesAre
    <3> QED
      BY <1>1, <3>1, PartIs
  <2>2. s = <<>> \o t \o y
    BY <1>2, <1>4
  <2>3. /\ Len(<<>>) \in 0 .. Len(s) - Len(t)
        /\ SubSeq(s, Len(<<>>) + 1, Len(<<>>) + Len(t)) = t
    BY <1>2, <2>1, <2>2, BetweenIsPart
  <2>4. Len(t) <= Len(s) /\ SubSeq(s, 1, Len(t)) = t
    BY <1>1, <1>2, <2>3
  <2> QED
    BY <1>1, <2>4 DEF IsPrefix
<1> QED
  BY <1>3, <1>4

LEMMA ContainsIs ==
  ASSUME NEW s \in Seq(Nat), NEW t \in Seq(Nat)
  PROVE  Within(s, t) <=> \E x \in Prefixes(s), y \in Suffixes(s) : s = x \o t \o y
<1>1. Len(s) \in Nat /\ Len(t) \in Nat
  OBVIOUS
<1>2. ASSUME Within(s, t)
      PROVE  \E x \in Prefixes(s), y \in Suffixes(s) : s = x \o t \o y
  <2>1. PICK i \in 0 .. Len(s) - Len(t) : SubSeq(s, i + 1, i + Len(t)) = t
    BY <1>2 DEF Within
  <2>2. s = SubSeq(s, 1, i) \o t \o SubSeq(s, i + Len(t) + 1, Len(s))
    BY <2>1, PartBetween
  <2>3. i \in 0 .. Len(s) /\ i + Len(t) + 1 \in 1 .. Len(s) + 1
    BY <1>1
  <2>4. SubSeq(s, 1, i) \in Prefixes(s)
    BY <2>3 DEF Prefixes
  <2>5. SubSeq(s, i + Len(t) + 1, Len(s)) \in Suffixes(s)
    BY <2>3, SuffixesAre
  <2> QED
    BY <2>2, <2>4, <2>5
<1>3. ASSUME NEW x \in Prefixes(s), NEW y \in Suffixes(s), s = x \o t \o y
      PROVE  Within(s, t)
  <2>1. y \in Seq(Nat)
    <3>1. PICK l \in 1 .. Len(s) + 1 : y = SubSeq(s, l, Len(s))
      BY SuffixesAre
    <3> QED
      BY <1>1, <3>1, PartIs
  <2>2. x \in Seq(Nat)
    <3>1. PICK l \in 0 .. Len(s) : x = SubSeq(s, 1, l)
      BY DEF Prefixes
    <3>2. 1 \in 1 .. Len(s) + 1
      BY <1>1
    <3> QED
      BY <3>1, <3>2, PartIs
  <2>3. /\ Len(x) \in 0 .. Len(s) - Len(t)
        /\ SubSeq(s, Len(x) + 1, Len(x) + Len(t)) = t
    BY <1>3, <2>1, <2>2, BetweenIsPart
  <2> QED
    BY <2>3 DEF Within
<1> QED
  BY <1>2, <1>3

LEMMA SuffixIs ==
  ASSUME NEW s \in Seq(Nat), NEW t \in Seq(Nat)
  PROVE  IsSuffix(t, s)
           <=> Len(t) <= Len(s) /\ SubSeq(s, Len(s) - Len(t) + 1, Len(s)) = t
<1> DEFINE n == Len(s)
           k == Len(t)
<1>1. n \in Nat /\ k \in Nat /\ DOMAIN s = 1 .. n /\ DOMAIN t = 1 .. k
  BY LenProperties
<1>2. ASSUME NEW u \in Seq(Nat)
      PROVE  /\ Reverse(u) \in Seq(Nat) /\ Len(Reverse(u)) = Len(u)
             /\ \A i \in 1 .. Len(u) : Reverse(u)[i] = u[Len(u) - i + 1]
  <2>1. Len(u) \in Nat
    OBVIOUS
  <2>2. \A i \in 1 .. Len(u) : Len(u) - i + 1 \in 1 .. Len(u)
    BY <2>1
  <2>3. \A i \in 1 .. Len(u) : u[Len(u) - i + 1] \in Nat
    BY <2>2, ElementOfSeq
  <2>4. Reverse(u) = [i \in 1 .. Len(u) |-> u[Len(u) - i + 1]]
    BY DEF Reverse
  <2> QED
    BY <2>1, <2>3, <2>4
<1>3. IsSuffix(t, s)
        <=> k <= n /\ \A i \in 1 .. k : t[k - i + 1] = s[n - i + 1]
  <2>1. /\ Reverse(t) \in Seq(Nat) /\ Len(Reverse(t)) = k
        /\ Reverse(s) \in Seq(Nat) /\ Len(Reverse(s)) = n
        /\ \A i \in 1 .. k : Reverse(t)[i] = t[k - i + 1]
        /\ \A i \in 1 .. n : Reverse(s)[i] = s[n - i + 1]
    BY <1>2
  <2>2. SubSeq(Reverse(t), 1, k) = Reverse(t)
    BY <2>1, SubSeqFull
  <2>3. ASSUME k <= n
        PROVE  SubSeq(Reverse(s), 1, k) = Reverse(t)
                 <=> \A i \in 1 .. k : t[k - i + 1] = s[n - i + 1]
    <3> DEFINE u == SubSeq(Reverse(s), 1, k)
    <3>1. /\ u \in Seq(Nat) /\ Len(u) = k
          /\ \A i \in 1 .. k : u[i] = Reverse(s)[i]
      <4>1. 1 \in 1 .. Len(Reverse(s)) + 1 /\ k \in 0 .. Len(Reverse(s))
        BY <1>1, <2>1, <2>3
      <4>2. /\ u \in Seq(Nat) /\ Len(u) = IF 1 <= k THEN k - 1 + 1 ELSE 0
            /\ \A i \in 1 .. k - 1 + 1 : u[i] = Reverse(s)[1 + i - 1]
        BY <2>1, <4>1, PartIs
      <4> HIDE DEF u, k
      <4> QED
        BY <1>1, <4>2
    <3> HIDE DEF u
    <3>2. u = Reverse(t) <=> \A i \in 1 .. k : u[i] = Reverse(t)[i]
      BY <2>1, <3>1, SeqEqual
    <3>3. \A i \in 1 .. k : i \in 1 .. n
      BY <1>1, <2>3
    <3> HIDE DEF k, n
    <3>4. \A i \in 1 .. k : u[i] = s[n - i + 1] /\ Reverse(t)[i] = t[k - i + 1]
      BY <2>1, <3>1, <3>3
    <3>5. u = Reverse(t) <=> \A i \in 1 .. k : t[k - i + 1] = s[n - i + 1]
      <4>1. \A i \in 1 .. k : (u[i] = Reverse(t)[i]) <=> (t[k - i + 1] = s[n - i + 1])
        BY <3>4
      <4> QED
        BY <3>2, <4>1
    <3> QED
      BY <3>5 DEF u
  <2> QED
    BY <2>1, <2>2, <2>3 DEF IsSuffix, IsPrefix
<1>4. (\A i \in 1 .. k : t[k - i + 1] = s[n - i + 1])
        <=> \A j \in 1 .. k : t[j] = s[n - k + j]
  <2> HIDE DEF k, n
  <2>1. \A i \in 1 .. k : k - i + 1 \in 1 .. k /\ n - k + (k - i + 1) = n - i + 1
                          /\ k - (k - i + 1) + 1 = i /\ n - (k - i + 1) + 1 = n - k + i
    BY <1>1
  <2> QED
    BY <2>1
<1>5. ASSUME k <= n
      PROVE  (\A j \in 1 .. k : t[j] = s[n - k + j]) <=> SubSeq(s, n - k + 1, n) = t
  <2> DEFINE u == SubSeq(s, n - k + 1, n)
  <2>1. /\ u \in Seq(Nat) /\ Len(u) = k
        /\ \A j \in 1 .. k : u[j] = s[n - k + j]
    <3>1. n - k + 1 \in 1 .. Len(s) + 1 /\ n \in 0 .. Len(s)
      BY <1>1, <1>5
    <3>2. /\ u \in Seq(Nat)
          /\ Len(u) = IF n - k + 1 <= n THEN n - (n - k + 1) + 1 ELSE 0
          /\ \A j \in 1 .. n - (n - k + 1) + 1 : u[j] = s[n - k + 1 + j - 1]
      BY <3>1, PartIs
    <3> HIDE DEF u, n, k
    <3>3. \A j \in 1 .. k : j \in 1 .. n - (n - k + 1) + 1 /\ n - k + 1 + j - 1 = n - k + j
      BY <1>1
    <3> QED
      BY <1>1, <3>2, <3>3
  <2> HIDE DEF u
  <2>2. u = t <=> \A j \in 1 .. k : u[j] = t[j]
    BY <2>1, SeqEqual
  <2> QED
    BY <2>1, <2>2 DEF u
<1> QED
  BY <1>3, <1>4, <1>5

LEMMA EndsIs ==
  ASSUME NEW s \in Seq(Nat), NEW t \in Seq(Nat)
  PROVE  IsSuffix(t, s) <=> \E x \in Prefixes(s) : s = x \o t
<1> DEFINE n == Len(s)
           k == Len(t)
<1>1. n \in Nat /\ k \in Nat /\ DOMAIN s = 1 .. n /\ DOMAIN t = 1 .. k
  BY LenProperties
<1>2. IsSuffix(t, s) <=> k <= n /\ SubSeq(s, n - k + 1, n) = t
  BY SuffixIs
<1>6. ASSUME k <= n, SubSeq(s, n - k + 1, n) = t
      PROVE  \E x \in Prefixes(s) : s = x \o t
  <2>1. n - k \in 0 .. n - k /\ n - k \in 0 .. n /\ n - k + k = n
    BY <1>1, <1>6
  <2>2. s = SubSeq(s, 1, n - k) \o t \o SubSeq(s, n + 1, n)
    <3>1. SubSeq(s, n - k + 1, n - k + k) = t
      BY <1>6, <2>1
    <3> HIDE DEF n, k
    <3>2. s = SubSeq(s, 1, n - k) \o t \o SubSeq(s, n - k + k + 1, n)
      BY <2>1, <3>1, PartBetween DEF n, k
    <3> QED
      BY <2>1, <3>2
  <2>3. SubSeq(s, n + 1, n) = <<>>
    BY <1>1, SubSeqEmpty
  <2>4. SubSeq(s, 1, n - k) \in Prefixes(s)
    BY <2>1 DEF Prefixes
  <2>5. SubSeq(s, 1, n - k) \o t \in Seq(Nat)
    <3>1. SubSeq(s, 1, n - k) \in Seq(Nat)
      <4>1. 1 \in 1 .. Len(s) + 1
        BY <1>1
      <4> QED
        BY <2>1, <4>1, PartIs
    <3> QED
      BY <3>1, ConcatProperties
  <2>6. (SubSeq(s, 1, n - k) \o t) \o <<>> = SubSeq(s, 1, n - k) \o t
    BY <2>5, ConcatEmptySeq
  <2> QED
    BY <2>2, <2>3, <2>4, <2>6
<1>7. ASSUME NEW x \in Prefixes(s), s = x \o t
      PROVE  k <= n /\ SubSeq(s, n - k + 1, n) = t
  <2>1. x \in Seq(Nat)
    <3>1. PICK l \in 0 .. Len(s) : x = SubSeq(s, 1, l)
      BY DEF Prefixes
    <3>2. 1 \in 1 .. Len(s) + 1
      BY <1>1
    <3> QED
      BY <3>1, <3>2, PartIs
  <2>2. <<>> \in Seq(Nat) /\ Len(<<>>) = 0
    OBVIOUS
  <2>3. s = x \o t \o <<>>
    <3>1. x \o t \in Seq(Nat)
      BY <2>1, ConcatProperties
    <3> QED
      BY <1>7, <3>1, ConcatEmptySeq
  <2>4. /\ Len(x) \in 0 .. n - k /\ n = Len(x) + k + 0
        /\ SubSeq(s, Len(x) + 1, Len(x) + k) = t
    BY <2>1, <2>2, <2>3, BetweenIsPart
  <2>5. Len(x) \in Nat /\ Len(x) = n - k /\ n - k + k = n
    BY <1>1, <2>4
  <2> QED
    BY <1>1, <2>4, <2>5
<1> QED
  BY <1>2, <1>6, <1>7

-----------------------------------------------------------------------------
(* Conditions. *)

\* Conditions on other rows do not matter to each other.
LEMMA MatchApart ==
  ASSUME NEW G, NEW H, NEW e, NEW body,
         \A g \in G, h \in H : ~(g.tbl = h.tbl /\ g.alias = h.alias)
  PROVE  Matches(G \cup H, e, body) <=> Matches(G, e, body) /\ Matches(H, e, body)
<1>1. ASSUME Matches(G \cup H, e, body), NEW c \in G
      PROVE  \E r \in RowsOf(c.tbl, body) :
               \A d \in G : d.tbl = c.tbl /\ d.alias = c.alias => Holds(d, r, e, body)
  BY <1>1 DEF Matches
<1>2. ASSUME Matches(G \cup H, e, body), NEW c \in H
      PROVE  \E r \in RowsOf(c.tbl, body) :
               \A d \in H : d.tbl = c.tbl /\ d.alias = c.alias => Holds(d, r, e, body)
  BY <1>2 DEF Matches
<1>3. ASSUME Matches(G, e, body), Matches(H, e, body), NEW c \in G \cup H
      PROVE  \E r \in RowsOf(c.tbl, body) :
               \A d \in G \cup H : d.tbl = c.tbl /\ d.alias = c.alias => Holds(d, r, e, body)
  <2>1. CASE c \in G
    <3>1. PICK r \in RowsOf(c.tbl, body) :
            \A d \in G : d.tbl = c.tbl /\ d.alias = c.alias => Holds(d, r, e, body)
      BY <1>3, <2>1 DEF Matches
    <3> QED
      BY <2>1, <3>1
  <2>2. CASE c \in H
    <3>1. PICK r \in RowsOf(c.tbl, body) :
            \A d \in H : d.tbl = c.tbl /\ d.alias = c.alias => Holds(d, r, e, body)
      BY <1>3, <2>2 DEF Matches
    <3> QED
      BY <2>2, <3>1
  <2> QED
    BY <1>3, <2>1, <2>2
<1> QED
  BY <1>1, <1>2, <1>3 DEF Matches

\* Conditions that are for the same row of a table ...
OfTable(C, tbl) == \A c \in C : c.tbl = tbl /\ c.alias = 0

\* ... hold for some row of it, if there are any.
LEMMA MatchTogether ==
  ASSUME NEW C, NEW tbl, OfTable(C, tbl), NEW e, NEW body
  PROVE  Matches(C, e, body)
           <=> C = {} \/ \E r \in RowsOf(tbl, body) : \A c \in C : Holds(c, r, e, body)
BY DEF Matches, OfTable

\* The rows of the tables.
LEMMA RowsAre ==
  ASSUME NEW body
  PROVE  /\ RowsOf("entr", body) = {RowOf("entr", 0, body)}
         /\ RowsOf("kanj", body) = {RowOf("kanj", i, body.kanj[i]) : i \in DOMAIN body.kanj}
         /\ RowsOf("rdng", body) = {RowOf("rdng", i, body.rdng[i]) : i \in DOMAIN body.rdng}
         /\ RowsOf("hist", body) = {RowOf("hist", i, body.hist[i]) : i \in DOMAIN body.hist}
         /\ RowsOf("gloss", body) = UNION {{RowOf("gloss", 0, g) : g \in s.gloss} : s \in body.sens}
         /\ RowsOf("sens", body) = {RowOf("sens", 0, s.notes) : s \in body.sens}
         /\ RowsOf("pos", body) = UNION {{RowOf("pos", 0, t) : t \in s.pos} : s \in body.sens}
         /\ RowsOf("misc", body) = UNION {{RowOf("misc", 0, t) : t \in s.misc} : s \in body.sens}
         /\ RowsOf("kinf", body) = {RowOf("kinf", 0, t) : t \in body.kinf}
         /\ RowsOf("freq", body) = {RowOf("freq", 0, t) : t \in body.freq}
<1>1. RowsOf("entr", body) = {RowOf("entr", 0, body)}
  BY DEF RowsOf
<1>2. RowsOf("kanj", body) = {RowOf("kanj", i, body.kanj[i]) : i \in DOMAIN body.kanj}
  BY DEF RowsOf
<1>3. RowsOf("rdng", body) = {RowOf("rdng", i, body.rdng[i]) : i \in DOMAIN body.rdng}
  BY DEF RowsOf
<1>4. RowsOf("hist", body) = {RowOf("hist", i, body.hist[i]) : i \in DOMAIN body.hist}
  BY DEF RowsOf
<1>5. RowsOf("gloss", body) = UNION {{RowOf("gloss", 0, g) : g \in s.gloss} : s \in body.sens}
  BY DEF RowsOf
<1>6. RowsOf("sens", body) = {RowOf("sens", 0, s.notes) : s \in body.sens}
  BY DEF RowsOf
<1>7. RowsOf("pos", body) = UNION {{RowOf("pos", 0, t) : t \in s.pos} : s \in body.sens}
  BY DEF RowsOf
<1>8. RowsOf("misc", body) = UNION {{RowOf("misc", 0, t) : t \in s.misc} : s \in body.sens}
  BY DEF RowsOf
<1>9. RowsOf("kinf", body) = {RowOf("kinf", 0, t) : t \in body.kinf}
  BY DEF RowsOf
<1>10. RowsOf("freq", body) = {RowOf("freq", 0, t) : t \in body.freq}
  BY DEF RowsOf
<1> QED
  BY <1>1, <1>2, <1>3, <1>4, <1>5, <1>6, <1>7, <1>8, <1>9, <1>10

\* Keywords and all but the others are the same.
LEMMA KwCondIs ==
  ASSUME NEW kwtyp \in {"pos", "misc", "kinf", "src", "stat"},
         NEW kws \in SUBSET Keywords[kwtyp], NEW tbl
  PROVE  /\ OfTable(KwCond(kws, kwtyp, tbl), tbl)
         /\ (KwCond(kws, kwtyp, tbl) = {}) <=> (kws = {} \/ kws = Keywords[kwtyp])
         /\ \A r, e, body : \A kw \in Keywords[kwtyp] :
              kw = (IF tbl # "entr" THEN r.val ELSE r.val[kwtyp])
              => ((\A c \in KwCond(kws, kwtyp, tbl) : Holds(c, r, e, body))
                    <=> KwCond(kws, kwtyp, tbl) = {} \/ kw \in kws)
<1> DEFINE K == Keywords[kwtyp]
           n == Cardinality(kws)
           m == Cardinality(K)
           norm == KwNorm(kwtyp, kws)
<1>1. /\ IsFiniteSet(K) /\ m \in Nat /\ IsFiniteSet(kws) /\ n \in Nat
      /\ (m = 0 <=> K = {}) /\ (n = 0 <=> kws = {}) /\ (kws = K => n = m)
  <2>1. IsFiniteSet(K)
    BY KeywordsAreFinite
  <2> HIDE DEF K
  <2> QED
    BY <2>1, FS_Subset, FS_EmptySet, FS_CardinalityType DEF K
<1>2. norm = IF 2 * n > m THEN [kws |-> K \ kws, inv |-> TRUE] ELSE [kws |-> kws, inv |-> FALSE]
  BY DEF KwNorm
<1>3. KwCond(kws, kwtyp, tbl) =
        IF kws = {} \/ norm.kws = {} THEN {}
        ELSE {Cond(tbl, 0, IF norm.inv THEN "not in" ELSE "in",
                   [col |-> kwtyp, set |-> norm.kws])}
  BY DEF KwCond
<1> DEFINE one == Cond(tbl, 0, IF norm.inv THEN "not in" ELSE "in",
                       [col |-> kwtyp, set |-> norm.kws])
<1>4. KwCond(kws, kwtyp, tbl) = {} <=> kws = {} \/ kws = K
  <2> HIDE DEF n, m, norm, K, one
  <2>1. KwCond(kws, kwtyp, tbl) = {} <=> kws = {} \/ norm.kws = {}
    BY <1>3 DEF one
  <2>2. norm.kws = IF 2 * n > m THEN K \ kws ELSE kws
    BY <1>2
  <2>3. CASE 2 * n > m
    BY <1>1, <2>1, <2>2, <2>3 DEF K
  <2>4. CASE ~(2 * n > m)
    BY <1>1, <2>1, <2>2, <2>4
  <2> QED
    BY <2>3, <2>4
<1>5. OfTable(KwCond(kws, kwtyp, tbl), tbl)
  <2>1. one.tbl = tbl /\ one.alias = 0
    BY DEF Cond
  <2> HIDE DEF one
  <2> QED
    BY <1>3, <2>1 DEF OfTable, one
<1> HIDE DEF n, m, norm
<1>6. ASSUME NEW r, NEW e, NEW body, NEW kw \in K,
             kw = (IF tbl # "entr" THEN r.val ELSE r.val[kwtyp]),
             KwCond(kws, kwtyp, tbl) # {}
      PROVE  (\A c \in KwCond(kws, kwtyp, tbl) : Holds(c, r, e, body)) <=> kw \in kws
  <2>1. kwtyp # "id"
    OBVIOUS
  <2>2. CASE norm.inv
    <3>1. KwCond(kws, kwtyp, tbl)
            = {Cond(tbl, 0, "not in", [col |-> kwtyp, set |-> K \ kws])}
      BY <1>2, <1>3, <1>6, <2>2
    <3>2. Holds(Cond(tbl, 0, "not in", [col |-> kwtyp, set |-> K \ kws]), r, e, body)
            <=> kw \notin K \ kws
      BY <1>6, <2>1 DEF Holds, Cond
    <3> QED
      BY <3>1, <3>2
  <2>3. CASE ~norm.inv
    <3>1. KwCond(kws, kwtyp, tbl)
            = {Cond(tbl, 0, "in", [col |-> kwtyp, set |-> kws])}
      BY <1>2, <1>3, <1>6, <2>3
    <3>2. Holds(Cond(tbl, 0, "in", [col |-> kwtyp, set |-> kws]), r, e, body)
            <=> kw \in kws
      BY <1>6, <2>1 DEF Holds, Cond
    <3> QED
      BY <3>1, <3>2
  <2> QED
    BY <2>2, <2>3
<1> QED
  BY <1>4, <1>5, <1>6

\* The keywords of senses and kanji.
LEMMA KwMatch ==
  ASSUME NEW tbl \in {"pos", "misc", "kinf"}, NEW kws \in SUBSET Keywords[tbl],
         NEW e, NEW body, NEW has \in SUBSET Keywords[tbl],
         RowsOf(tbl, body) = {RowOf(tbl, 0, t) : t \in has}
  PROVE  /\ OfTable(KwCond(kws, tbl, tbl), tbl)
         /\ Matches(KwCond(kws, tbl, tbl), e, body) <=> HasKw(kws, tbl, has)
<1> DEFINE C == KwCond(kws, tbl, tbl)
<1>1. /\ OfTable(C, tbl)
      /\ (C = {}) <=> (kws = {} \/ kws = Keywords[tbl])
      /\ \A r, u, d : \A kw \in Keywords[tbl] :
           kw = (IF tbl # "entr" THEN r.val ELSE r.val[tbl])
           => ((\A c \in C : Holds(c, r, u, d)) <=> C = {} \/ kw \in kws)
  <2>1. tbl \in {"pos", "misc", "kinf", "src", "stat"}
    OBVIOUS
  <2> QED
    BY <2>1, KwCondIs, Zenon
<1> HIDE DEF C
<1>2. \A t \in has : (\A c \in C : Holds(c, RowOf(tbl, 0, t), e, body)) <=> C = {} \/ t \in kws
  <2> SUFFICES ASSUME NEW t \in has
               PROVE  (\A c \in C : Holds(c, RowOf(tbl, 0, t), e, body)) <=> C = {} \/ t \in kws
    OBVIOUS
  <2>1. t \in Keywords[tbl] /\ RowOf(tbl, 0, t).val = t /\ tbl # "entr"
    BY DEF RowOf
  <2> QED
    BY <1>1, <2>1
<1>3. Matches(C, e, body) <=> C = {} \/ \E r \in RowsOf(tbl, body) : \A c \in C : Holds(c, r, e, body)
  BY <1>1, MatchTogether
<1>4. Matches(C, e, body) <=> C = {} \/ \E t \in has : t \in kws
  BY <1>2, <1>3
<1> QED
  BY <1>1, <1>4 DEF HasKw, C

-----------------------------------------------------------------------------
(* The criteria, one after the other. *)

\* In small letters a text is a text.
LEMMA LowerIsText ==
  ASSUME NEW txt \in Seq(Nat)
  PROVE  Lower(txt) \in Seq(Nat)
<1>1. DOMAIN txt = 1 .. Len(txt) /\ Len(txt) \in Nat
  BY LenProperties
<1>2. \A i \in 1 .. Len(txt) :
        txt[i] \in Nat /\ (IF txt[i] \in 65 .. 90 THEN txt[i] + 32 ELSE txt[i]) \in Nat
  BY ElementOfSeq
<1> QED
  BY <1>1, <1>2 DEF Lower

\* Conditions on the row of the entry itself.
LEMMA EntrMatch ==
  ASSUME NEW C, OfTable(C, "entr"), NEW e, NEW body
  PROVE  Matches(C, e, body) <=> \A c \in C : Holds(c, RowOf("entr", 0, body), e, body)
<1>1. RowsOf("entr", body) = {RowOf("entr", 0, body)}
  BY RowsAre
<1> QED
  BY <1>1, MatchTogether

\* Its keywords.
LEMMA EntrKw ==
  ASSUME NEW kwtyp \in {"src", "stat"}, NEW kws \in SUBSET Keywords[kwtyp],
         NEW e, NEW body, body[kwtyp] \in Keywords[kwtyp]
  PROVE  /\ OfTable(KwCond(kws, kwtyp, "entr"), "entr")
         /\ (\A c \in KwCond(kws, kwtyp, "entr") : Holds(c, RowOf("entr", 0, body), e, body))
              <=> HasKw(kws, kwtyp, {body[kwtyp]})
<1> DEFINE C == KwCond(kws, kwtyp, "entr")
<1>1. /\ OfTable(C, "entr")
      /\ (C = {}) <=> (kws = {} \/ kws = Keywords[kwtyp])
      /\ \A r, u, d : \A kw \in Keywords[kwtyp] :
           kw = r.val[kwtyp]
           => ((\A c \in C : Holds(c, r, u, d)) <=> C = {} \/ kw \in kws)
  <2>1. kwtyp \in {"pos", "misc", "kinf", "src", "stat"}
    OBVIOUS
  <2>2. \A t :
          /\ OfTable(KwCond(kws, kwtyp, t), t)
          /\ (KwCond(kws, kwtyp, t) = {}) <=> (kws = {} \/ kws = Keywords[kwtyp])
          /\ \A r, u, d : \A kw \in Keywords[kwtyp] :
               kw = (IF t # "entr" THEN r.val ELSE r.val[kwtyp])
               => ((\A c \in KwCond(kws, kwtyp, t) : Holds(c, r, u, d))
                     <=> KwCond(kws, kwtyp, t) = {} \/ kw \in kws)
    BY <2>1, KwCondIs, Zenon
  <2> QED
    BY <2>2
<1> HIDE DEF C
<1>2. RowOf("entr", 0, body).val = body
  BY DEF RowOf
<1>3. (\A c \in C : Holds(c, RowOf("entr", 0, body), e, body)) <=> C = {} \/ body[kwtyp] \in kws
  BY <1>1, <1>2
<1> QED
  BY <1>1, <1>3 DEF HasKw, C

\* Whether it is approved.
LEMMA BoolMatch ==
  ASSUME NEW vals \in SUBSET {"appr", "unappr"}, NEW e, NEW body, body.unap \in BOOLEAN
  PROVE  /\ OfTable(BoolCond(vals), "entr")
         /\ (\A c \in BoolCond(vals) : Holds(c, RowOf("entr", 0, body), e, body))
              <=> vals = {} \/ (IF body.unap THEN "unappr" ELSE "appr") \in vals
<1> DEFINE one == Cond("entr", 0, "in", [col |-> "unap", set |-> {vals = {"unappr"}}])
<1>1. one.tbl = "entr" /\ one.alias = 0
  BY DEF Cond
<1>2. Holds(one, RowOf("entr", 0, body), e, body) <=> body.unap = (vals = {"unappr"})
  BY DEF Holds, Cond, RowOf
<1> HIDE DEF one
<1>3. BoolCond(vals) = IF Cardinality(vals) # 1 THEN {} ELSE {one}
  BY DEF BoolCond, one
<1>4. Cardinality(vals) = 1 <=> \E x : vals = {x}
  <2>1. IsFiniteSet({"appr", "unappr"})
    <3>1. IsFiniteSet({"appr"} \cup {"unappr"})
      BY FS_Singleton, FS_AddElement
    <3>2. {"appr"} \cup {"unappr"} = {"appr", "unappr"}
      OBVIOUS
    <3> QED
      BY <3>1, <3>2
  <2>2. IsFiniteSet(vals)
    BY <2>1, FS_Subset
  <2> QED
    BY <2>2, FS_Singleton
<1>5. OfTable(BoolCond(vals), "entr")
  BY <1>1, <1>3 DEF OfTable
<1>6. (\A c \in BoolCond(vals) : Holds(c, RowOf("entr", 0, body), e, body))
        <=> Cardinality(vals) # 1 \/ body.unap = (vals = {"unappr"})
  BY <1>2, <1>3
<1>7. CASE "appr" \in vals /\ "unappr" \in vals
  BY <1>4, <1>5, <1>6, <1>7
<1>8. CASE "appr" \in vals /\ "unappr" \notin vals
  <2>1. vals = {"appr"}
    BY <1>8
  <2> QED
    BY <1>4, <1>5, <1>6, <2>1
<1>9. CASE "appr" \notin vals /\ "unappr" \in vals
  <2>1. vals = {"unappr"}
    BY <1>9
  <2> QED
    BY <1>4, <1>5, <1>6, <2>1
<1>10. CASE "appr" \notin vals /\ "unappr" \notin vals
  <2>1. vals = {}
    BY <1>10
  <2> QED
    BY <1>4, <1>5, <1>6, <2>1
<1> QED
  BY <1>7, <1>8, <1>9, <1>10

\* A number supersedes the rest.
LEMMA NumberMatch ==
  ASSUME NEW f \in Forms, f.idnum > 0, NEW e, NEW body \in Docs
  PROVE  Matches(So2Conds(f), e, body)
           <=> \/ f.idtyp = "id" /\ e = f.idnum
               \/ f.idtyp = "seq" /\ body.seq = f.idnum /\ HasKw(f.src, "src", {body.src})
<1> DEFINE one == Cond("entr", 0, "in", [col |-> f.idtyp, set |-> {f.idnum}])
           S == IF f.idtyp = "seq" THEN KwCond(f.src, "src", "entr") ELSE {}
           row == RowOf("entr", 0, body)
<1>1. /\ f.idtyp \in {"seq", "id"} /\ f.src \in SUBSET Keywords["src"]
      /\ body.src \in Keywords["src"]
  BY FormsAreFilled, DocsHaveTags
<1>2. So2Conds(f) = {one} \cup S
  BY DEF So2Conds
<1>3. one.tbl = "entr" /\ one.alias = 0
  BY DEF Cond
<1>4. /\ f.idtyp = "id" => (Holds(one, row, e, body) <=> e = f.idnum)
      /\ f.idtyp = "seq" => (Holds(one, row, e, body) <=> body.seq = f.idnum)
  BY DEF Holds, Cond, RowOf
<1>5. /\ OfTable(KwCond(f.src, "src", "entr"), "entr")
      /\ (\A c \in KwCond(f.src, "src", "entr") : Holds(c, row, e, body))
           <=> HasKw(f.src, "src", {body["src"]})
  BY <1>1, EntrKw
<1> HIDE DEF one, row
<1>6. OfTable({one} \cup S, "entr")
  BY <1>3, <1>5 DEF OfTable
<1>7. Matches(So2Conds(f), e, body) <=> \A c \in {one} \cup S : Holds(c, row, e, body)
  BY <1>2, <1>6, EntrMatch DEF row
<1> QED
  BY <1>1, <1>4, <1>5, <1>7

\* Notes on senses.
LEMMA SNoteMatch ==
  ASSUME NEW pat, NEW e, NEW body
  PROVE  /\ OfTable(SNoteCond(pat), "sens")
         /\ Matches(SNoteCond(pat), e, body)
              <=> (pat # <<>> => \E s \in body.sens : Within(Lower(s.notes), Lower(pat)))
<1> DEFINE one == Cond("sens", 0, "contains", [txt |-> Lower(pat)])
<1>1. one.tbl = "sens" /\ one.alias = 0
  BY DEF Cond
<1>2. ASSUME NEW s
      PROVE  Holds(one, RowOf("sens", 0, s.notes), e, body) <=> Within(Lower(s.notes), Lower(pat))
  BY DEF Holds, Cond, RowOf
<1>3. SNoteCond(pat) = IF pat = <<>> THEN {} ELSE {one}
  BY DEF SNoteCond
<1> HIDE DEF one
<1>4. OfTable(SNoteCond(pat), "sens")
  BY <1>1, <1>3 DEF OfTable
<1>5. Matches(SNoteCond(pat), e, body)
        <=> pat = <<>> \/ \E r \in RowsOf("sens", body) : Holds(one, r, e, body)
  <2>1. Matches(SNoteCond(pat), e, body)
          <=> \/ SNoteCond(pat) = {}
              \/ \E r \in RowsOf("sens", body) : \A c \in SNoteCond(pat) : Holds(c, r, e, body)
    BY <1>4, MatchTogether
  <2> QED
    BY <1>3, <2>1
<1>6. RowsOf("sens", body) = {RowOf("sens", 0, s.notes) : s \in body.sens}
  BY RowsAre
<1> QED
  BY <1>2, <1>4, <1>5, <1>6

\* A record of the history.
LEMMA HistMatch ==
  ASSUME NEW f \in Forms, NEW e, NEW body \in Docs
  PROVE  /\ OfTable(HistConds(f), "hist")
         /\ Matches(HistConds(f), e, body) <=> HasRecord(body, f)
<1> DEFINE name == Cond("hist", 0, "name", [txt |-> Lower(f.smtr)])
           notes == Cond("hist", 0, "notes", [txt |-> Lower(f.cmts)])
           place == Cond("hist", 0, f.mt, [txt |-> <<>>])
           C == HistConds(f)
<1>1. /\ f.mt \in {"any", "oldest", "newest"}
      /\ body.hist \in Seq([name : Seq(Nat), notes : Seq(Nat)])
  BY FormsAreFilled, DocsHaveTags
<1>2. /\ name.tbl = "hist" /\ name.alias = 0
      /\ notes.tbl = "hist" /\ notes.alias = 0
      /\ place.tbl = "hist" /\ place.alias = 0
  BY DEF Cond
<1>3. C = (IF f.smtr = <<>> THEN {} ELSE {name})
            \cup (IF f.cmts = <<>> THEN {} ELSE {notes})
            \cup (IF f.mt = "any" THEN {} ELSE {place})
  BY DEF HistConds
<1>4. ASSUME NEW i
      PROVE  LET r == RowOf("hist", i, body.hist[i])
             IN  /\ Holds(name, r, e, body) <=> Lower(body.hist[i].name) = Lower(f.smtr)
                 /\ Holds(notes, r, e, body) <=> Within(Lower(body.hist[i].notes), Lower(f.cmts))
                 /\ f.mt = "oldest" => (Holds(place, r, e, body) <=> i = 1)
                 /\ f.mt = "newest" => (Holds(place, r, e, body) <=> i = Len(body.hist))
  <2> DEFINE r == RowOf("hist", i, body.hist[i])
  <2>1. Holds(name, r, e, body) <=> Lower(body.hist[i].name) = Lower(f.smtr)
    BY DEF Holds, Cond, RowOf
  <2>2. Holds(notes, r, e, body) <=> Within(Lower(body.hist[i].notes), Lower(f.cmts))
    BY DEF Holds, Cond, RowOf
  <2>3. f.mt = "oldest" => (Holds(place, r, e, body) <=> i = 1)
    BY DEF Holds, Cond, RowOf
  <2>4. f.mt = "newest" => (Holds(place, r, e, body) <=> i = Len(body.hist))
    BY DEF Holds, Cond, RowOf
  <2> QED
    BY <2>1, <2>2, <2>3, <2>4
<1> HIDE DEF name, notes, place, C
<1>5. OfTable(C, "hist")
  BY <1>2, <1>3 DEF OfTable
<1>6. RowsOf("hist", body) = {RowOf("hist", i, body.hist[i]) : i \in DOMAIN body.hist}
  BY RowsAre
<1>7. Matches(C, e, body)
        <=> C = {} \/ \E i \in DOMAIN body.hist :
                        \A c \in C : Holds(c, RowOf("hist", i, body.hist[i]), e, body)
  <2>1. Matches(C, e, body)
          <=> C = {} \/ \E r \in RowsOf("hist", body) : \A c \in C : Holds(c, r, e, body)
    BY <1>5, MatchTogether
  <2> QED
    BY <1>6, <2>1
<1>8. (C = {}) <=> (f.smtr = <<>> /\ f.cmts = <<>> /\ f.mt = "any")
  BY <1>3
<1>9. ASSUME NEW i \in DOMAIN body.hist
      PROVE  (\A c \in C : Holds(c, RowOf("hist", i, body.hist[i]), e, body))
               <=> /\ f.smtr # <<>> => Lower(body.hist[i].name) = Lower(f.smtr)
                   /\ f.cmts # <<>> => Within(Lower(body.hist[i].notes), Lower(f.cmts))
                   /\ f.mt = "oldest" => i = 1
                   /\ f.mt = "newest" => i = Len(body.hist)
  <2> DEFINE H(c) == Holds(c, RowOf("hist", i, body.hist[i]), e, body)
  <2>1. /\ H(name) <=> Lower(body.hist[i].name) = Lower(f.smtr)
        /\ H(notes) <=> Within(Lower(body.hist[i].notes), Lower(f.cmts))
        /\ f.mt = "oldest" => (H(place) <=> i = 1)
        /\ f.mt = "newest" => (H(place) <=> i = Len(body.hist))
    BY <1>4
  <2> HIDE DEF H
  <2>2. (\A c \in C : H(c))
          <=> /\ f.smtr # <<>> => H(name)
              /\ f.cmts # <<>> => H(notes)
              /\ f.mt # "any" => H(place)
    BY <1>3
  <2>3. (\A c \in C : H(c))
          <=> /\ f.smtr # <<>> => Lower(body.hist[i].name) = Lower(f.smtr)
              /\ f.cmts # <<>> => Within(Lower(body.hist[i].notes), Lower(f.cmts))
              /\ f.mt = "oldest" => i = 1
              /\ f.mt = "newest" => i = Len(body.hist)
    BY <1>1, <2>1, <2>2
  <2> QED
    BY <2>3 DEF H
<1>10. ASSUME NEW i \in DOMAIN body.hist, f.cmts = <<>>
       PROVE  Within(Lower(body.hist[i].notes), Lower(f.cmts))
  <2> DEFINE s == Lower(body.hist[i].notes)
  <2>1. s \in Seq(Nat) /\ Len(s) \in Nat
    <3>1. body.hist[i].notes \in Seq(Nat)
      <4>1. body.hist[i] \in [name : Seq(Nat), notes : Seq(Nat)]
        BY <1>1, ElementOfSeq, LenProperties
      <4> QED
        BY <4>1
    <3> QED
      BY <3>1, LowerIsText
  <2>2. Lower(f.cmts) = <<>> /\ Len(<<>>) = 0
    BY <1>10 DEF Lower
  <2> HIDE DEF s
  <2>3. SubSeq(s, 0 + 1, 0 + 0) = <<>>
    BY SubSeqEmpty
  <2>4. 0 \in 0 .. Len(s) - Len(<<>>) /\ 0 + Len(<<>>) = 0 + 0
    BY <2>1, <2>2
  <2>5. Within(s, <<>>)
    BY <2>3, <2>4 DEF Within
  <2> QED
    BY <2>2, <2>5 DEF s
<1>11. Matches(C, e, body) <=> HasRecord(body, f)
  BY <1>7, <1>8, <1>9, <1>10 DEF HasRecord
<1> QED
  BY <1>5, <1>11 DEF C

\* What is checked on the form for the scale s, and the condition on it.
Checked(freq, s) == {x[2] : x \in {y \in freq : y[1] = s}}
Scale(freq, s) ==
  [kw |-> s, cmp |-> IF Cardinality(Checked(freq, s)) = 2 THEN "any" ELSE "=",
   value |-> CHOOSE v \in Checked(freq, s) : TRUE]

\* The condition on a scale is for the values that were checked of it.
LEMMA ScaleHolds ==
  ASSUME NEW S, NEW freq \in SUBSET (S \X {1, 2}), NEW y \in freq,
         NEW x \in S \X Nat, x[1] = y[1] => x[2] \in {1, 2}
  PROVE  FreqHolds(x, Scale(freq, y[1])) <=> x[1] = y[1] /\ x \in freq
<1> DEFINE s == y[1]
           V == Checked(freq, s)
           w == Scale(freq, s)
<1>1. /\ V \in SUBSET {1, 2} /\ V # {}
      /\ \A z \in freq : z[1] = s => z[2] \in V
      /\ \A v \in V : <<s, v>> \in freq
  BY DEF Checked
<1>2. /\ w.kw = s /\ w.value = (CHOOSE v \in V : TRUE)
      /\ w.cmp = IF Cardinality(V) = 2 THEN "any" ELSE "="
  BY DEF Scale
<1> HIDE DEF s, V, w
<1>3. x = <<x[1], x[2]>>
  OBVIOUS
<1>4. FreqHolds(x, w) <=> x[1] = s /\ (Cardinality(V) = 2 \/ x[2] = w.value)
  BY <1>2 DEF FreqHolds
<1>5. w.value \in V
  BY <1>1, <1>2
<1>6. CASE V = {1, 2}
  <2>1. Cardinality(V) = 2
    <3>1. IsFiniteSet({1}) /\ Cardinality({1}) = 1
      BY FS_Singleton
    <3>2. Cardinality({1} \cup {2}) = 1 + 1
      <4>1. 2 \notin {1}
        OBVIOUS
      <4> QED
        BY <3>1, <4>1, FS_AddElement
    <3>3. {1} \cup {2} = {1, 2}
      OBVIOUS
    <3> QED
      BY <1>6, <3>2, <3>3
  <2>2. x[1] = s => x \in freq
    BY <1>1, <1>3, <1>6 DEF s
  <2> QED
    BY <1>4, <2>1, <2>2 DEF s, w
<1>7. CASE V # {1, 2}
  <2>1. PICK v \in {1, 2} : V = {v}
    BY <1>1, <1>7
  <2>2. Cardinality(V) # 2
    BY <2>1, FS_Singleton
  <2>3. FreqHolds(x, w) <=> x[1] = s /\ x[2] \in V
    BY <1>4, <1>5, <2>1, <2>2
  <2>4. x[1] = s => (x[2] \in V <=> x \in freq)
    BY <1>1, <1>3
  <2> QED
    BY <2>3, <2>4 DEF s, w
<1> QED
  BY <1>6, <1>7

\* Frequencies.
LEMMA FreqMatch ==
  ASSUME NEW f \in Forms, NEW e, NEW body \in Docs
  PROVE  /\ OfTable(FreqCond(f.freq, f.nf), "freq")
         /\ Matches(FreqCond(f.freq, f.nf), e, body) <=> HasFreq(body, f)
<1> DEFINE F == f.freq
           S == {x[1] : x \in F}
           nf == [kw |-> "nf", cmp |-> f.nf.cmp, value |-> f.nf.val]
           N == IF f.nf.cmp = "none" THEN {} ELSE {nf}
           whr == {Scale(F, s) : s \in S} \cup N
           one == Cond("freq", 0, "freq", [whr |-> whr])
           C == FreqCond(F, f.nf)
<1>1. /\ F \in SUBSET ((Keywords["freq"] \ {"nf"}) \X {1, 2})
      /\ f.nf.cmp \in {"none", "<=", "=", ">="} /\ f.nf.val \in Nat
  BY FormsAreFilled
<1>2. /\ body.freq \in SUBSET (Keywords["freq"] \X Nat)
      /\ \A x \in body.freq : x[1] # "nf" => x[2] \in {1, 2}
  BY DocsHaveTags, ScalesAreShort
<1>3. C = IF whr = {} THEN {} ELSE {one}
  BY DEF FreqCond, Scale, Checked
<1>4. one.tbl = "freq" /\ one.alias = 0
  BY DEF Cond
<1>5. \A t : Holds(one, RowOf("freq", 0, t), e, body) <=> \E w \in whr : FreqHolds(t, w)
  BY DEF Holds, Cond, RowOf
<1>6. (whr = {}) <=> (F = {} /\ f.nf.cmp = "none")
  OBVIOUS
<1>7. ASSUME NEW x \in body.freq
      PROVE  (\E w \in whr : FreqHolds(x, w))
               <=> x \in F \/ (f.nf.cmp # "none" /\ FreqHolds(x, nf))
  <2>1. x \in Keywords["freq"] \X Nat /\ \A y \in F : x[1] = y[1] => x[2] \in {1, 2}
    BY <1>1, <1>2
  <2>2. \A y \in F : FreqHolds(x, Scale(F, y[1])) <=> x[1] = y[1] /\ x \in F
    <3> SUFFICES ASSUME NEW y \in F
                 PROVE  FreqHolds(x, Scale(F, y[1])) <=> x[1] = y[1] /\ x \in F
      OBVIOUS
    <3>1. F \in SUBSET (Keywords["freq"] \X {1, 2})
      BY <1>1
    <3> HIDE DEF F
    <3> QED
      BY <2>1, <3>1, ScaleHolds
  <2>3. (\E s \in S : FreqHolds(x, Scale(F, s))) <=> x \in F
    BY <2>2
  <2> QED
    BY <2>3
<1>8. ASSUME NEW x \in body.freq, f.nf.cmp # "none"
      PROVE  FreqHolds(x, nf)
               <=> x[1] = "nf" /\ (\/ f.nf.cmp = "<=" /\ x[2] <= f.nf.val
                                   \/ f.nf.cmp = "=" /\ x[2] = f.nf.val
                                   \/ f.nf.cmp = ">=" /\ x[2] >= f.nf.val)
  BY <1>1, <1>8 DEF FreqHolds
<1> HIDE DEF C, whr, one, nf, F
<1>9. OfTable(C, "freq")
  BY <1>3, <1>4 DEF OfTable
<1>10. RowsOf("freq", body) = {RowOf("freq", 0, t) : t \in body.freq}
  BY RowsAre
<1>11. Matches(C, e, body)
         <=> whr = {} \/ \E x \in body.freq : \E w \in whr : FreqHolds(x, w)
  <2>1. Matches(C, e, body)
          <=> C = {} \/ \E r \in RowsOf("freq", body) : \A c \in C : Holds(c, r, e, body)
    BY <1>9, MatchTogether
  <2>2. Matches(C, e, body)
          <=> whr = {} \/ \E r \in RowsOf("freq", body) : Holds(one, r, e, body)
    BY <1>3, <2>1
  <2> QED
    BY <1>5, <1>10, <2>2
<1>12. HasFreq(body, f)
         <=> \/ F = {} /\ f.nf.cmp = "none"
             \/ \E x \in body.freq : x \in F
             \/ \E x \in body.freq :
                  x[1] = "nf" /\ (\/ f.nf.cmp = "<=" /\ x[2] <= f.nf.val
                                  \/ f.nf.cmp = "=" /\ x[2] = f.nf.val
                                  \/ f.nf.cmp = ">=" /\ x[2] >= f.nf.val)
  BY DEF HasFreq, F
<1>13. Matches(C, e, body) <=> HasFreq(body, f)
  BY <1>6, <1>7, <1>8, <1>11, <1>12
<1> QED
  BY <1>9, <1>13 DEF C, F

\* A text that is looked for.
Looked == [srchin : 1 .. 4, srchtyp : {"is", "starts", "contains", "ends"},
           srchtxt : Seq(Nat)]

LEMMA TextsAreLooked ==
  ASSUME NEW f \in Forms
  PROVE  f.txts \in Seq(Looked)
<1> DEFINE T == [srchin : 1 .. 4, srchtyp : {"is", "starts", "contains", "ends"},
                 srchtxt : Seq(Nat) \ {<<>>}]
<1>1. f.txts \in Seq(T)
  BY FormsAreFilled
<1>2. T \subseteq Looked
  BY DEF Looked
<1> HIDE DEF T
<1>3. \A i \in 1 .. Len(f.txts) : f.txts[i] \in Looked
  BY <1>1, <1>2, ElementOfSeq
<1>4. f.txts = [i \in 1 .. Len(f.txts) |-> f.txts[i]] /\ Len(f.txts) \in Nat
  BY <1>1, LenProperties
<1> QED
  BY <1>3, <1>4, IsASeq

\* A condition on a text is what was asked for.
LEMMA LikeHolds ==
  ASSUME NEW c, NEW r, NEW e, NEW body, NEW t \in Looked, NEW txt \in Seq(Nat),
         c.op = t.srchtyp, c.val.txt = t.srchtxt,
         txt = IF c.tbl \in {"gloss", "sens"} THEN Lower(r.val) ELSE r.val
  PROVE  Holds(c, r, e, body) <=> Like(txt, t)
<1>1. t.srchtyp \in {"is", "starts", "contains", "ends"} /\ t.srchtxt \in Seq(Nat)
  BY DEF Looked
<1>2. CASE t.srchtyp = "is"
  BY <1>2 DEF Holds, Like
<1>3. CASE t.srchtyp = "starts"
  <2>1. Holds(c, r, e, body) <=> IsPrefix(t.srchtxt, txt)
    BY <1>3 DEF Holds
  <2>2. Like(txt, t) <=> \E s \in Suffixes(txt) : txt = t.srchtxt \o s
    BY <1>3 DEF Like
  <2> QED
    BY <1>1, <2>1, <2>2, StartsIs
<1>4. CASE t.srchtyp = "ends"
  <2>1. Holds(c, r, e, body) <=> IsSuffix(t.srchtxt, txt)
    BY <1>4 DEF Holds
  <2>2. Like(txt, t) <=> \E s \in Prefixes(txt) : txt = s \o t.srchtxt
    BY <1>4 DEF Like
  <2> QED
    BY <1>1, <2>1, <2>2, EndsIs
<1>5. CASE t.srchtyp = "contains"
  <2>1. Holds(c, r, e, body) <=> Within(txt, t.srchtxt)
    BY <1>5 DEF Holds
  <2>2. Like(txt, t)
          <=> \E s \in Prefixes(txt), y \in Suffixes(txt) : txt = s \o t.srchtxt \o y
    BY <1>5 DEF Like
  <2> QED
    BY <1>1, <2>1, <2>2, ContainsIs
<1> QED
  BY <1>1, <1>2, <1>3, <1>4, <1>5

\* No character of a Latin text is a kana.
LEMMA LatinIsNotKana == \A n \in 0 .. 767 : ~IsKana(n)
<1> SUFFICES ASSUME NEW n \in 0 .. 767 PROVE ~IsKana(n)
  OBVIOUS
<1>1. n \in Nat /\ n <= 767
  OBVIOUS
<1>2. n # 12316 /\ ~(n >= 12352)
  BY <1>1
<1>3. n \notin 12352 .. 12543
  BY <1>1, <1>2
<1> QED
  BY <1>2, <1>3 DEF IsKana

\* What is found for a text.
FoundText(d, t) ==
  LET kana  == JstrReb(t.srchtxt)
      latin == JstrGloss(t.srchtxt)
  IN  \/ (t.srchin = 2 \/ (t.srchin = 1 /\ ~kana /\ ~latin))
           /\ \E k \in Range(d.kanj) : Like(k, t)
      \/ (t.srchin = 3 \/ (t.srchin = 1 /\ kana))
           /\ \E r \in Range(d.rdng) : Like(r, t)
      \/ (t.srchin = 4 \/ (t.srchin = 1 /\ latin))
           /\ \E s \in d.sens : \E g \in s.gloss :
                Like(Lower(g), [t EXCEPT !.srchtxt = Lower(@)])

\* One of the texts.
LEMMA TextMatch ==
  ASSUME NEW t \in Looked, NEW n, NEW e, NEW body \in Docs
  PROVE  (\E r \in RowsOf(TableFor(t), body) : Holds(AutoCond(t, n), r, e, body))
           <=> FoundText(body, t)
<1> DEFINE kana == JstrReb(t.srchtxt)
           latin == JstrGloss(t.srchtxt)
           c == AutoCond(t, n)
           low == [t EXCEPT !.srchtxt = Lower(@)]
<1>1. /\ t.srchin \in 1 .. 4 /\ t.srchtxt \in Seq(Nat) /\ low \in Looked
      /\ low.srchtyp = t.srchtyp /\ low.srchtxt = Lower(t.srchtxt)
  BY LowerIsText DEF Looked
<1>2. \A i \in DOMAIN t.srchtxt : t.srchtxt[i] \in Nat
  BY <1>1, ElementOfSeq, LenProperties
<1>3. ~(kana /\ latin)
  <2> SUFFICES ASSUME kana, latin PROVE FALSE
    OBVIOUS
  <2>1. \A n1 \in 0 .. 767 : ~IsKana(n1)
    BY LatinIsNotKana, Zenon
  <2>2. PICK i \in DOMAIN t.srchtxt : IsKana(t.srchtxt[i])
    BY Zenon DEF JstrReb
  <2>3. t.srchtxt[i] \in 0 .. 767
    BY <2>2, ZenonT(30) DEF JstrGloss
  <2> QED
    BY <2>1, <2>2, <2>3, ZenonT(30)
<1>5. FoundText(body, t)
        <=> \/ (t.srchin = 2 \/ (t.srchin = 1 /\ ~kana /\ ~latin))
                 /\ \E k \in Range(body.kanj) : Like(k, t)
            \/ (t.srchin = 3 \/ (t.srchin = 1 /\ kana))
                 /\ \E r \in Range(body.rdng) : Like(r, t)
            \/ (t.srchin = 4 \/ (t.srchin = 1 /\ latin))
                 /\ \E s \in body.sens : \E g \in s.gloss : Like(Lower(g), low)
  BY Zenon DEF FoundText
<1>6. TableFor(t) = IF t.srchin = 3 \/ (t.srchin = 1 /\ kana) THEN "rdng"
                    ELSE IF t.srchin = 4 \/ (t.srchin = 1 /\ latin) THEN "gloss"
                    ELSE "kanj"
  BY <1>1, <1>3 DEF TableFor
<1>7. /\ c.tbl = TableFor(t) /\ c.op = t.srchtyp
      /\ c.val.txt = IF TableFor(t) = "gloss" THEN Lower(t.srchtxt) ELSE t.srchtxt
  BY DEF AutoCond, Cond
<1>8. /\ \A i \in DOMAIN body.kanj : body.kanj[i] \in Seq(Nat)
      /\ \A i \in DOMAIN body.rdng : body.rdng[i] \in Seq(Nat)
      /\ \A s \in body.sens : \A g \in s.gloss : g \in Seq(Nat)
  <2>1. body.kanj \in Seq(Seq(Nat)) /\ body.rdng \in Seq(Seq(Nat))
    BY DocsHaveTexts
  <2> QED
    BY <2>1, DocsHaveTags, ElementOfSeq, LenProperties
<1> HIDE DEF kana, latin, c, low
<1>9. CASE TableFor(t) = "kanj"
  <2>1. \A i \in DOMAIN body.kanj :
          Holds(c, RowOf("kanj", i, body.kanj[i]), e, body) <=> Like(body.kanj[i], t)
    <3> SUFFICES ASSUME NEW i \in DOMAIN body.kanj
                 PROVE  Holds(c, RowOf("kanj", i, body.kanj[i]), e, body)
                          <=> Like(body.kanj[i], t)
      OBVIOUS
    <3>1. RowOf("kanj", i, body.kanj[i]).val = body.kanj[i] /\ c.tbl \notin {"gloss", "sens"}
      BY <1>7, <1>9 DEF RowOf
    <3> QED
      BY <1>7, <1>8, <1>9, <3>1, LikeHolds
  <2>2. (\E r \in RowsOf("kanj", body) : Holds(c, r, e, body))
          <=> \E k \in Range(body.kanj) : Like(k, t)
    BY <2>1, RowsAre DEF Range
  <2> QED
    BY <1>1, <1>5, <1>6, <1>9, <2>2 DEF c
<1>10. CASE TableFor(t) = "rdng"
  <2>1. \A i \in DOMAIN body.rdng :
          Holds(c, RowOf("rdng", i, body.rdng[i]), e, body) <=> Like(body.rdng[i], t)
    <3> SUFFICES ASSUME NEW i \in DOMAIN body.rdng
                 PROVE  Holds(c, RowOf("rdng", i, body.rdng[i]), e, body)
                          <=> Like(body.rdng[i], t)
      OBVIOUS
    <3>1. RowOf("rdng", i, body.rdng[i]).val = body.rdng[i] /\ c.tbl \notin {"gloss", "sens"}
      BY <1>7, <1>10 DEF RowOf
    <3> QED
      BY <1>7, <1>8, <1>10, <3>1, LikeHolds
  <2>2. (\E r \in RowsOf("rdng", body) : Holds(c, r, e, body))
          <=> \E k \in Range(body.rdng) : Like(k, t)
    BY <2>1, RowsAre DEF Range
  <2> QED
    BY <1>1, <1>3, <1>5, <1>6, <1>10, <2>2 DEF c
<1>11. CASE TableFor(t) = "gloss"
  <2>1. \A s \in body.sens : \A g \in s.gloss :
          Holds(c, RowOf("gloss", 0, g), e, body) <=> Like(Lower(g), low)
    <3> SUFFICES ASSUME NEW s \in body.sens, NEW g \in s.gloss
                 PROVE  Holds(c, RowOf("gloss", 0, g), e, body) <=> Like(Lower(g), low)
      OBVIOUS
    <3>1. RowOf("gloss", 0, g).val = g /\ c.tbl \in {"gloss", "sens"}
      BY <1>7, <1>11 DEF RowOf
    <3>2. Lower(g) \in Seq(Nat)
      BY <1>8, LowerIsText
    <3> QED
      BY <1>1, <1>7, <1>11, <3>1, <3>2, LikeHolds
  <2>2. (\E r \in RowsOf("gloss", body) : Holds(c, r, e, body))
          <=> \E s \in body.sens : \E g \in s.gloss : Like(Lower(g), low)
    BY <2>1, RowsAre
  <2> QED
    BY <1>1, <1>3, <1>5, <1>6, <1>11, <2>2 DEF c
<1> QED
  BY <1>6, <1>9, <1>10, <1>11

\* All of them.
LEMMA TextsMatch ==
  ASSUME NEW txts \in Seq(Looked), NEW e, NEW body \in Docs
  PROVE  Matches(TxConds(txts), e, body) <=> \A i \in DOMAIN txts : FoundText(body, txts[i])
<1>1. \A i \in DOMAIN txts :
        /\ txts[i] \in Looked
        /\ AutoCond(txts[i], i).tbl = TableFor(txts[i])
        /\ AutoCond(txts[i], i).alias = i
  BY ElementOfSeq, LenProperties DEF AutoCond, Cond
<1>2. TxConds(txts) = {AutoCond(txts[i], i) : i \in DOMAIN txts}
  BY DEF TxConds
<1>3. Matches(TxConds(txts), e, body)
        <=> \A i \in DOMAIN txts : \E r \in RowsOf(TableFor(txts[i]), body) :
              Holds(AutoCond(txts[i], i), r, e, body)
  <2>1. Matches(TxConds(txts), e, body)
          <=> \A i \in DOMAIN txts : \E r \in RowsOf(TableFor(txts[i]), body) :
                \A j \in DOMAIN txts :
                  TableFor(txts[j]) = TableFor(txts[i]) /\ j = i
                    => Holds(AutoCond(txts[j], j), r, e, body)
    BY <1>1, <1>2 DEF Matches
  <2> QED
    BY <2>1
<1> QED
  BY <1>1, <1>3, TextMatch

-----------------------------------------------------------------------------
(* All criteria together. *)

\* The table of some conditions, and the numbers that aliases have.
LEMMA TablesApart ==
  ASSUME NEW G, NEW H, NEW tbl, OfTable(H, tbl),
         \A g \in G : g.tbl # tbl \/ g.alias # 0,
         NEW e, NEW body
  PROVE  Matches(G \cup H, e, body) <=> Matches(G, e, body) /\ Matches(H, e, body)
<1>1. \A g \in G, h \in H : ~(g.tbl = h.tbl /\ g.alias = h.alias)
  BY DEF OfTable
<1> QED
  BY <1>1, MatchApart

\* The tags of the senses, or of the kanji.
LEMMA TagsMatch ==
  ASSUME NEW f \in Forms, NEW e, NEW body \in Docs
  PROVE  /\ OfTable(KwCond(f.pos, "pos", "pos"), "pos")
         /\ OfTable(KwCond(f.misc, "misc", "misc"), "misc")
         /\ OfTable(KwCond(f.kinf, "kinf", "kinf"), "kinf")
         /\ Matches(KwCond(f.pos, "pos", "pos"), e, body)
              <=> HasKw(f.pos, "pos", UNION {s.pos : s \in body.sens})
         /\ Matches(KwCond(f.misc, "misc", "misc"), e, body)
              <=> HasKw(f.misc, "misc", UNION {s.misc : s \in body.sens})
         /\ Matches(KwCond(f.kinf, "kinf", "kinf"), e, body)
              <=> HasKw(f.kinf, "kinf", body.kinf)
<1>1. /\ f.pos \in SUBSET Keywords["pos"] /\ f.misc \in SUBSET Keywords["misc"]
      /\ f.kinf \in SUBSET Keywords["kinf"]
  BY FormsAreFilled
<1> DEFINE pos == UNION {s.pos : s \in body.sens}
           misc == UNION {s.misc : s \in body.sens}
<1>2. /\ pos \in SUBSET Keywords["pos"] /\ misc \in SUBSET Keywords["misc"]
      /\ body.kinf \in SUBSET Keywords["kinf"]
  BY DocsHaveTags
<1>3. RowsOf("pos", body) = {RowOf("pos", 0, t) : t \in pos}
  BY RowsAre
<1>4. RowsOf("misc", body) = {RowOf("misc", 0, t) : t \in misc}
  BY RowsAre
<1>5. RowsOf("kinf", body) = {RowOf("kinf", 0, t) : t \in body.kinf}
  BY RowsAre
<1> HIDE DEF pos, misc
<1>6. /\ OfTable(KwCond(f.pos, "pos", "pos"), "pos")
      /\ Matches(KwCond(f.pos, "pos", "pos"), e, body) <=> HasKw(f.pos, "pos", pos)
  BY <1>1, <1>2, <1>3, KwMatch
<1>7. /\ OfTable(KwCond(f.misc, "misc", "misc"), "misc")
      /\ Matches(KwCond(f.misc, "misc", "misc"), e, body) <=> HasKw(f.misc, "misc", misc)
  BY <1>1, <1>2, <1>4, KwMatch
<1>8. /\ OfTable(KwCond(f.kinf, "kinf", "kinf"), "kinf")
      /\ Matches(KwCond(f.kinf, "kinf", "kinf"), e, body) <=> HasKw(f.kinf, "kinf", body.kinf)
  BY <1>1, <1>2, <1>5, KwMatch
<1> QED
  BY <1>6, <1>7, <1>8 DEF pos, misc

\* The corpus, the status and the approval.
LEMMA EntrTagsMatch ==
  ASSUME NEW f \in Forms, NEW e, NEW body \in Docs
  PROVE  LET C == KwCond(f.src, "src", "entr") \cup KwCond(f.stat, "stat", "entr")
                    \cup BoolCond(f.unap)
         IN  /\ OfTable(C, "entr")
             /\ Matches(C, e, body)
                  <=> /\ HasKw(f.src, "src", {body.src}) /\ HasKw(f.stat, "stat", {body.stat})
                      /\ f.unap = {} \/ (IF body.unap THEN "unappr" ELSE "appr") \in f.unap
<1> DEFINE A == KwCond(f.src, "src", "entr")
           B == KwCond(f.stat, "stat", "entr")
           D == BoolCond(f.unap)
           H(c) == Holds(c, RowOf("entr", 0, body), e, body)
<1>1. /\ f.src \in SUBSET Keywords["src"] /\ f.stat \in SUBSET Keywords["stat"]
      /\ f.unap \in SUBSET {"appr", "unappr"} /\ body.unap \in BOOLEAN
      /\ body["src"] \in Keywords["src"] /\ body["stat"] \in Keywords["stat"]
  BY FormsAreFilled, DocsHaveTags
<1>2. /\ OfTable(A, "entr")
      /\ (\A c \in A : H(c)) <=> HasKw(f.src, "src", {body["src"]})
  BY <1>1, EntrKw
<1>3. /\ OfTable(B, "entr")
      /\ (\A c \in B : H(c)) <=> HasKw(f.stat, "stat", {body["stat"]})
  BY <1>1, EntrKw
<1>4. /\ OfTable(D, "entr")
      /\ (\A c \in D : H(c))
           <=> f.unap = {} \/ (IF body.unap THEN "unappr" ELSE "appr") \in f.unap
  <2>1. /\ OfTable(BoolCond(f.unap), "entr")
        /\ (\A c \in BoolCond(f.unap) : Holds(c, RowOf("entr", 0, body), e, body))
             <=> f.unap = {} \/ (IF body.unap THEN "unappr" ELSE "appr") \in f.unap
    <3>1. f.unap \in SUBSET {"appr", "unappr"} /\ body.unap \in BOOLEAN
      BY <1>1
    <3> HIDE DEF A, B, D, H
    <3>2. OfTable(BoolCond(f.unap), "entr")
      BY <3>1, BoolMatch
    <3>3. (\A c \in BoolCond(f.unap) : Holds(c, RowOf("entr", 0, body), e, body))
            <=> (f.unap = {} \/ (IF body.unap THEN "unappr" ELSE "appr") \in f.unap)
      BY <3>1, BoolMatch
    <3> QED
      BY <3>2, <3>3, Zenon
  <2> QED
    BY <2>1, Zenon
<1> HIDE DEF A, B, D
<1>5. OfTable(A \cup B \cup D, "entr")
  BY <1>2, <1>3, <1>4 DEF OfTable
<1>6. Matches(A \cup B \cup D, e, body) <=> \A c \in A \cup B \cup D : H(c)
  BY <1>5, EntrMatch
<1> HIDE DEF H
<1>7. Matches(A \cup B \cup D, e, body)
        <=> /\ HasKw(f.src, "src", {body.src}) /\ HasKw(f.stat, "stat", {body.stat})
            /\ f.unap = {} \/ (IF body.unap THEN "unappr" ELSE "appr") \in f.unap
  <2>1. (\A c \in A \cup B \cup D : H(c))
          <=> (\A c \in A : H(c)) /\ (\A c \in B : H(c)) /\ (\A c \in D : H(c))
    OBVIOUS
  <2> QED
    BY <1>2, <1>3, <1>4, <1>6, <2>1
<1> QED
  BY <1>5, <1>7 DEF A, B, D

\* Everything that a form without a number asks for.
LEMMA CriteriaMatch ==
  ASSUME NEW f \in Forms, ~(f.idnum > 0), NEW e, NEW body \in Docs
  PROVE  Matches(So2Conds(f), e, body)
           <=> /\ \A i \in DOMAIN f.txts : FoundText(body, f.txts[i])
               /\ HasKw(f.pos, "pos", UNION {s.pos : s \in body.sens})
               /\ HasKw(f.misc, "misc", UNION {s.misc : s \in body.sens})
               /\ HasKw(f.kinf, "kinf", body.kinf)
               /\ HasKw(f.src, "src", {body.src}) /\ HasKw(f.stat, "stat", {body.stat})
               /\ f.unap = {} \/ (IF body.unap THEN "unappr" ELSE "appr") \in f.unap
               /\ HasFreq(body, f) /\ HasRecord(body, f)
               /\ f.snote # <<>> => \E s \in body.sens : Within(Lower(s.notes), Lower(f.snote))
<1> DEFINE T == TxConds(f.txts)
           W == KwCond(f.pos, "pos", "pos")
           M == KwCond(f.misc, "misc", "misc")
           K == KwCond(f.kinf, "kinf", "kinf")
           A == KwCond(f.src, "src", "entr")
           B == KwCond(f.stat, "stat", "entr")
           D == BoolCond(f.unap)
           E == A \cup B \cup D
           F == FreqCond(f.freq, f.nf)
           N == SNoteCond(f.snote)
           H == HistConds(f)
<1>1. So2Conds(f) = T \cup W \cup M \cup K \cup E \cup F \cup N \cup H
  <2> DEFINE U == UNION {KwCond(f[tbl], tbl, tbl) : tbl \in {"pos", "misc", "kinf"}}
             V == UNION {KwCond(f[col], col, "entr") : col \in {"src", "stat"}}
  <2>1. U = W \cup M \cup K
    OBVIOUS
  <2>2. V = A \cup B
    OBVIOUS
  <2>3. So2Conds(f) = T \cup U \cup V \cup D \cup F \cup N \cup H
    BY Zenon DEF So2Conds
  <2>4. E = A \cup B \cup D
    OBVIOUS
  <2> HIDE DEF T, W, M, K, A, B, D, E, F, N, H, U, V
  <2>5. So2Conds(f) = T \cup (W \cup M \cup K) \cup (A \cup B) \cup D \cup F \cup N \cup H
    BY <2>1, <2>2, <2>3, Zenon
  <2>6. So2Conds(f) = T \cup W \cup M \cup K \cup (A \cup B \cup D) \cup F \cup N \cup H
    BY <2>5
  <2> QED
    BY <2>4, <2>6, Zenon
<1>2. \A c \in T : c.alias # 0
  <2>1. \A i \in DOMAIN f.txts : i # 0 /\ AutoCond(f.txts[i], i).alias = i
    <3>1. f.txts \in Seq(Looked)
      BY TextsAreLooked
    <3> QED
      BY <3>1, LenProperties DEF AutoCond, Cond
  <2> QED
    BY <2>1 DEF TxConds
<1>3. /\ OfTable(W, "pos") /\ OfTable(M, "misc") /\ OfTable(K, "kinf")
      /\ OfTable(E, "entr") /\ OfTable(F, "freq") /\ OfTable(N, "sens")
      /\ OfTable(H, "hist")
  BY TagsMatch, EntrTagsMatch, FreqMatch, SNoteMatch, HistMatch
<1>4. /\ Matches(T, e, body) <=> \A i \in DOMAIN f.txts : FoundText(body, f.txts[i])
      /\ Matches(F, e, body) <=> HasFreq(body, f)
      /\ Matches(H, e, body) <=> HasRecord(body, f)
      /\ Matches(N, e, body)
           <=> (f.snote # <<>> => \E s \in body.sens : Within(Lower(s.notes), Lower(f.snote)))
  <2>1. f.txts \in Seq(Looked)
    BY TextsAreLooked
  <2> QED
    BY <2>1, TextsMatch, FreqMatch, SNoteMatch, HistMatch
<1>5. /\ Matches(W, e, body) <=> HasKw(f.pos, "pos", UNION {s.pos : s \in body.sens})
      /\ Matches(M, e, body) <=> HasKw(f.misc, "misc", UNION {s.misc : s \in body.sens})
      /\ Matches(K, e, body) <=> HasKw(f.kinf, "kinf", body.kinf)
  BY TagsMatch
<1>6. Matches(E, e, body)
        <=> /\ HasKw(f.src, "src", {body.src}) /\ HasKw(f.stat, "stat", {body.stat})
            /\ f.unap = {} \/ (IF body.unap THEN "unappr" ELSE "appr") \in f.unap
  BY EntrTagsMatch
<1> HIDE DEF T, W, M, K, E, F, N, H
<1>7. Matches(T \cup W, e, body) <=> Matches(T, e, body) /\ Matches(W, e, body)
  BY <1>2, <1>3, TablesApart
<1>8. Matches(T \cup W \cup M, e, body) <=> Matches(T \cup W, e, body) /\ Matches(M, e, body)
  <2>1. \A g \in T \cup W : g.tbl # "misc" \/ g.alias # 0
    BY <1>2, <1>3 DEF OfTable
  <2> QED
    BY <1>3, <2>1, TablesApart
<1>9. Matches(T \cup W \cup M \cup K, e, body)
        <=> Matches(T \cup W \cup M, e, body) /\ Matches(K, e, body)
  <2>1. \A g \in T \cup W \cup M : g.tbl # "kinf" \/ g.alias # 0
    BY <1>2, <1>3 DEF OfTable
  <2> QED
    BY <1>3, <2>1, TablesApart
<1>10. Matches(T \cup W \cup M \cup K \cup E, e, body)
         <=> Matches(T \cup W \cup M \cup K, e, body) /\ Matches(E, e, body)
  <2>1. \A g \in T \cup W \cup M \cup K : g.tbl # "entr" \/ g.alias # 0
    BY <1>2, <1>3 DEF OfTable
  <2> QED
    BY <1>3, <2>1, TablesApart
<1>11. Matches(T \cup W \cup M \cup K \cup E \cup F, e, body)
         <=> Matches(T \cup W \cup M \cup K \cup E, e, body) /\ Matches(F, e, body)
  <2>1. \A g \in T \cup W \cup M \cup K \cup E : g.tbl # "freq" \/ g.alias # 0
    BY <1>2, <1>3 DEF OfTable
  <2> QED
    BY <1>3, <2>1, TablesApart
<1>12. Matches(T \cup W \cup M \cup K \cup E \cup F \cup N, e, body)
         <=> Matches(T \cup W \cup M \cup K \cup E \cup F, e, body) /\ Matches(N, e, body)
  <2>1. \A g \in T \cup W \cup M \cup K \cup E \cup F : g.tbl # "sens" \/ g.alias # 0
    BY <1>2, <1>3 DEF OfTable
  <2> QED
    BY <1>3, <2>1, TablesApart
<1>13. Matches(T \cup W \cup M \cup K \cup E \cup F \cup N \cup H, e, body)
         <=> Matches(T \cup W \cup M \cup K \cup E \cup F \cup N, e, body) /\ Matches(H, e, body)
  <2>1. \A g \in T \cup W \cup M \cup K \cup E \cup F \cup N : g.tbl # "hist" \/ g.alias # 0
    BY <1>2, <1>3 DEF OfTable
  <2> QED
    BY <1>3, <2>1, TablesApart
<1> QED
  BY <1>1, <1>4, <1>5, <1>6, <1>7, <1>8, <1>9, <1>10, <1>11, <1>12, <1>13

\* Where no letters are looked for, case does not matter.
LEMMA LowerIs ==
  ASSUME NEW s \in Seq(Nat)
  PROVE  /\ Lower(s) \in Seq(Nat) /\ Len(Lower(s)) = Len(s) /\ Len(s) \in Nat
         /\ \A i \in 1 .. Len(s) :
              Lower(s)[i] = IF s[i] \in 65 .. 90 THEN s[i] + 32 ELSE s[i]
<1> DEFINE l == Lower(s)
<1>1. DOMAIN s = 1 .. Len(s) /\ Len(s) \in Nat
  BY LenProperties
<1>2. l \in Seq(Nat)
  BY LowerIsText
<1>3. DOMAIN l = 1 .. Len(s)
  BY <1>1 DEF Lower
<1>4. \A i \in 1 .. Len(s) : l[i] = IF s[i] \in 65 .. 90 THEN s[i] + 32 ELSE s[i]
  BY <1>1 DEF Lower
<1> HIDE DEF l
<1>5. Len(l) = Len(s)
  BY <1>1, <1>2, <1>3, LenProperties
<1> QED
  BY <1>1, <1>2, <1>4, <1>5 DEF l

LEMMA LowerOfOthers ==
  ASSUME NEW s \in Seq(Nat), \A i \in DOMAIN s : ~IsLetter(s[i])
  PROVE  Lower(s) = s
<1>1. DOMAIN s = 1 .. Len(s) /\ Len(s) \in Nat
  BY LenProperties
<1>2. \A i \in 1 .. Len(s) : s[i] \notin 65 .. 90
  BY <1>1 DEF IsLetter
<1>3. \A i \in 1 .. Len(s) : Lower(s)[i] = s[i]
  BY <1>2, LowerIs
<1> QED
  BY <1>3, LowerIs, SeqEqual

LEMMA LowerOfPart ==
  ASSUME NEW s \in Seq(Nat), NEW t \in Seq(Nat), \A i \in DOMAIN t : ~IsLetter(t[i]),
         NEW m \in 1 .. Len(s) + 1, NEW n \in 0 .. Len(s)
  PROVE  SubSeq(Lower(s), m, n) = t <=> SubSeq(s, m, n) = t
<1> DEFINE u == SubSeq(s, m, n)
           v == SubSeq(Lower(s), m, n)
           l == IF m <= n THEN n - m + 1 ELSE 0
<1>1. /\ Lower(s) \in Seq(Nat) /\ Len(Lower(s)) = Len(s) /\ Len(s) \in Nat
      /\ \A i \in 1 .. Len(s) :
           Lower(s)[i] = IF s[i] \in 65 .. 90 THEN s[i] + 32 ELSE s[i]
  BY LowerIs
<1>2. /\ u \in Seq(Nat) /\ Len(u) = l /\ \A i \in 1 .. n - m + 1 : u[i] = s[m + i - 1]
  BY PartIs
<1>3. /\ v \in Seq(Nat) /\ Len(v) = l
      /\ \A i \in 1 .. n - m + 1 : v[i] = Lower(s)[m + i - 1]
  <2>1. m \in 1 .. Len(Lower(s)) + 1 /\ n \in 0 .. Len(Lower(s))
    BY <1>1
  <2> QED
    BY <1>1, <2>1, PartIs
<1>4. \A i \in 1 .. l : /\ i \in 1 .. n - m + 1 /\ m + i - 1 \in 1 .. Len(s)
  BY <1>1
<1>5. l \in Nat
  BY <1>1
<1> HIDE DEF u, v, l
<1>6. v = t <=> l = Len(t) /\ \A i \in 1 .. l : v[i] = t[i]
  BY <1>3, SeqEqual
<1>7. u = t <=> l = Len(t) /\ \A i \in 1 .. l : u[i] = t[i]
  BY <1>2, SeqEqual
<1>8. ASSUME l = Len(t), NEW i \in 1 .. l
      PROVE  v[i] = t[i] <=> u[i] = t[i]
  <2>1. DOMAIN t = 1 .. Len(t)
    BY LenProperties
  <2>2. t[i] \in Nat /\ ~(t[i] \in 65 .. 90) /\ ~(t[i] \in 97 .. 122)
    BY <1>8, <2>1, ElementOfSeq DEF IsLetter
  <2>3. u[i] \in Nat
    BY <1>2, <1>5, ElementOfSeq
  <2>4. v[i] = Lower(s)[m + i - 1] /\ u[i] = s[m + i - 1] /\ m + i - 1 \in 1 .. Len(s)
    BY <1>2, <1>3, <1>4
  <2>5. v[i] = IF u[i] \in 65 .. 90 THEN u[i] + 32 ELSE u[i]
    <3> DEFINE j == m + i - 1
    <3>1. j \in 1 .. Len(s) /\ v[i] = Lower(s)[j] /\ u[i] = s[j]
      BY <2>4
    <3> HIDE DEF j
    <3> QED
      BY <1>1, <3>1
  <2> DEFINE a == u[i]
             b == v[i]
             c == t[i]
  <2> HIDE DEF a, b, c
  <2>6. a \in Nat /\ b = (IF a \in 65 .. 90 THEN a + 32 ELSE a)
    BY <2>3, <2>5 DEF a, b
  <2>7. c \in Nat /\ ~(c \in 65 .. 90) /\ ~(c \in 97 .. 122)
    BY <2>2 DEF c
  <2>8. b = c <=> a = c
    BY <2>6, <2>7
  <2> QED
    BY <2>8 DEF a, b, c
<1>9. v = t <=> u = t
  BY <1>6, <1>7, <1>8
<1> QED
  BY <1>9 DEF u, v

LEMMA LowerOfLike ==
  ASSUME NEW s \in Seq(Nat), NEW t \in Looked, \A i \in DOMAIN t.srchtxt : ~IsLetter(t.srchtxt[i])
  PROVE  Like(Lower(s), [t EXCEPT !.srchtxt = Lower(@)]) <=> Like(s, t)
<1> DEFINE x == t.srchtxt
           n == Len(s)
           k == Len(x)
<1>1. /\ x \in Seq(Nat) /\ k \in Nat /\ n \in Nat /\ DOMAIN x = 1 .. k
      /\ t.srchtyp \in {"is", "starts", "contains", "ends"}
  BY LenProperties DEF Looked
<1>2. Lower(x) = x
  BY <1>1, LowerOfOthers
<1>3. [t EXCEPT !.srchtxt = Lower(@)] = t
  BY <1>2 DEF Looked
<1>4. Lower(s) \in Seq(Nat) /\ Len(Lower(s)) = n
  BY LowerIs
<1>5. \A i \in 1 .. n + 1, j \in 0 .. n : SubSeq(Lower(s), i, j) = x <=> SubSeq(s, i, j) = x
  BY <1>1, LowerOfPart
<1> HIDE DEF x, n, k
<1>6. CASE t.srchtyp = "is"
  <2>1. 1 \in 1 .. n + 1 /\ n \in 0 .. n
    BY <1>1
  <2>2. SubSeq(Lower(s), 1, n) = Lower(s) /\ SubSeq(s, 1, n) = s
    BY <1>4, SubSeqFull DEF n
  <2>3. Lower(s) = x <=> s = x
    BY <1>5, <2>1, <2>2
  <2> QED
    BY <1>3, <1>6, <2>3 DEF Like, x
<1>7. CASE t.srchtyp = "starts"
  <2>1. SubSeq(x, 1, k) = x
    BY <1>1, SubSeqFull DEF k
  <2>2. k <= n => 1 \in 1 .. n + 1 /\ k \in 0 .. n
    BY <1>1
  <2>3. IsPrefix(x, Lower(s)) <=> IsPrefix(x, s)
    BY <1>4, <1>5, <2>1, <2>2 DEF IsPrefix, n, k
  <2>4. /\ Like(Lower(s), t) <=> IsPrefix(x, Lower(s))
        /\ Like(s, t) <=> IsPrefix(x, s)
    BY <1>1, <1>4, <1>7, StartsIs DEF Like, x
  <2> QED
    BY <1>3, <2>3, <2>4
<1>8. CASE t.srchtyp = "ends"
  <2>1. k <= n => n - k + 1 \in 1 .. n + 1 /\ n \in 0 .. n
    BY <1>1
  <2>2. /\ IsSuffix(x, Lower(s)) <=> k <= n /\ SubSeq(Lower(s), n - k + 1, n) = x
        /\ IsSuffix(x, s) <=> k <= n /\ SubSeq(s, n - k + 1, n) = x
    BY <1>1, <1>4, SuffixIs DEF n, k
  <2>3. IsSuffix(x, Lower(s)) <=> IsSuffix(x, s)
    BY <1>5, <2>1, <2>2
  <2>4. /\ Like(Lower(s), t) <=> IsSuffix(x, Lower(s))
        /\ Like(s, t) <=> IsSuffix(x, s)
    BY <1>1, <1>4, <1>8, EndsIs DEF Like, x
  <2> QED
    BY <1>3, <2>3, <2>4
<1>9. CASE t.srchtyp = "contains"
  <2>1. \A i \in 0 .. n - k : i + 1 \in 1 .. n + 1 /\ i + k \in 0 .. n
    BY <1>1
  <2>2. Within(Lower(s), x) <=> Within(s, x)
    <3>1. \A i \in 0 .. n - k :
            SubSeq(Lower(s), i + 1, i + k) = x <=> SubSeq(s, i + 1, i + k) = x
      BY <1>5, <2>1
    <3> QED
      BY <1>4, <3>1 DEF Within, n, k
  <2>3. /\ Like(Lower(s), t) <=> Within(Lower(s), x)
        /\ Like(s, t) <=> Within(s, x)
    BY <1>1, <1>4, <1>9, ContainsIs DEF Like, x
  <2> QED
    BY <1>3, <2>2, <2>3
<1> QED
  BY <1>1, <1>6, <1>7, <1>8, <1>9

\* A kanji is neither kana nor Latin.
LEMMA KanjiAreOther == \A n \in Nat : IsKanji(n) => ~IsKana(n) /\ ~IsKsym(n) /\ n \notin 0 .. 767
<1> SUFFICES ASSUME NEW n \in Nat, IsKanji(n)
             PROVE  ~IsKana(n) /\ ~IsKsym(n) /\ n \notin 0 .. 767
  OBVIOUS
<1>1. n = 12294 \/ n >= 19968
  BY DEF IsKanji
<1>2. n > 767 /\ n # 12316 /\ n # 12539 /\ ~(n >= 12352 /\ n <= 12543)
      /\ ~(n >= 12288 /\ n <= 12351 /\ n # 12294)
  BY <1>1
<1>3. n \notin 0 .. 767 /\ n \notin 12352 .. 12543 /\ ~(n \in 12288 .. 12351 /\ n # 12294)
  BY <1>2
<1>4. ~IsKana(n)
  BY <1>2 DEF IsKana
<1>5. ~IsKsym(n)
  BY <1>2 DEF IsKsym
<1> QED
  BY <1>3, <1>4, <1>5

\* The code looks where the help says.
LEMMA TableIsHelped ==
  ASSUME NEW t \in Looked, t.srchin = 1, ~IsMixed(t)
  PROVE  /\ JstrReb(t.srchtxt) <=> HelpTable(t) = "rdng"
         /\ JstrGloss(t.srchtxt) <=> HelpTable(t) = "gloss"
         /\ HelpTable(t) \in {"kanj", "rdng", "gloss"}
<1> DEFINE x == t.srchtxt
           D == DOMAIN x
           HasKanji == \E i \in D : IsKanji(x[i])
           HasKana == \E i \in D : IsKana(x[i])
<1>1. \A i \in D : x[i] \in Nat
  BY ElementOfSeq, LenProperties DEF Looked
<1>2. HelpTable(t) = IF HasKanji THEN "kanj" ELSE IF HasKana THEN "rdng" ELSE "gloss"
  BY DEF HelpTable
<1>3. \A i \in D :
        /\ IsKanji(x[i]) => (~IsKana(x[i]) /\ ~IsKsym(x[i]) /\ x[i] \notin 0 .. 767)
        /\ x[i] \in 0 .. 767 => ~IsKana(x[i])
  BY <1>1, KanjiAreOther, LatinIsNotKana, ZenonT(30)
<1>4. /\ HelpTable(t) = "rdng" => \A i \in D : IsKana(x[i]) \/ IsKsym(x[i])
      /\ HelpTable(t) = "gloss" => \A i \in D : x[i] \in 0 .. 767
  BY Zenon DEF IsMixed
<1>5. /\ JstrReb(x) <=> HasKana /\ \A i \in D : IsKana(x[i]) \/ IsKsym(x[i])
      /\ JstrGloss(x) <=> \A i \in D : x[i] \in 0 .. 767
  BY Zenon DEF JstrReb, JstrGloss
<1> DEFINE help == HelpTable(t)
<1>6. CASE HasKanji
  <2>1. help = "kanj"
    BY <1>2, <1>6
  <2>2. PICK i \in D : IsKanji(x[i])
    BY <1>6
  <2>3. ~(IsKana(x[i]) \/ IsKsym(x[i])) /\ x[i] \notin 0 .. 767
    BY <1>3, <2>2
  <2>4. ~JstrReb(x) /\ ~JstrGloss(x)
    BY <1>5, <2>3
  <2> HIDE DEF help
  <2>5. help # "rdng" /\ help # "gloss" /\ help \in {"kanj", "rdng", "gloss"}
    BY <2>1
  <2> QED
    BY <2>4, <2>5 DEF help
<1>7. CASE ~HasKanji /\ HasKana
  <2>1. help = "rdng"
    BY <1>2, <1>7
  <2>2. JstrReb(x) /\ ~JstrGloss(x)
    BY <1>3, <1>4, <1>5, <1>7, <2>1, Zenon
  <2> HIDE DEF help
  <2>3. help # "gloss" /\ help \in {"kanj", "rdng", "gloss"}
    BY <2>1
  <2> QED
    BY <2>1, <2>2, <2>3 DEF help
<1>8. CASE ~HasKanji /\ ~HasKana
  <2>1. help = "gloss"
    BY <1>2, <1>8
  <2>2. ~JstrReb(x) /\ JstrGloss(x)
    BY <1>4, <1>5, <1>8, <2>1, Zenon
  <2> HIDE DEF help
  <2>3. help # "rdng" /\ help \in {"kanj", "rdng", "gloss"}
    BY <2>1
  <2> QED
    BY <2>1, <2>2, <2>3 DEF help
<1> QED
  BY <1>6, <1>7, <1>8

LEMMA FoundAsHelped ==
  ASSUME NEW t \in Looked, NEW body \in Docs, ~IsMixed(t), ~IsCased(t)
  PROVE  FoundText(body, t) <=> HasText(body, t)
<1> DEFINE help == HelpTable(t)
           low == [t EXCEPT !.srchtxt = Lower(@)]
           K == \E k \in Range(body.kanj) : Like(k, t)
           R == \E r \in Range(body.rdng) : Like(r, t)
           G == \E s \in body.sens : \E g \in s.gloss : Like(Lower(g), low)
<1>1. t.srchin \in {1, 2, 3, 4}
  BY DEF Looked
<1>2. /\ t.srchin = 2 => help = "kanj"
      /\ t.srchin = 3 => help = "rdng"
      /\ t.srchin = 4 => help = "gloss"
  BY DEF HelpTable
<1>3. t.srchin = 1 => /\ JstrReb(t.srchtxt) <=> help = "rdng"
                      /\ JstrGloss(t.srchtxt) <=> help = "gloss"
                      /\ help \in {"kanj", "rdng", "gloss"}
  BY TableIsHelped
<1>4. /\ \A k \in Range(body.kanj) : k \in Seq(Nat)
      /\ \A r \in Range(body.rdng) : r \in Seq(Nat)
  <2>1. body.kanj \in Seq(Seq(Nat)) /\ body.rdng \in Seq(Seq(Nat))
    BY DocsHaveTexts
  <2> QED
    BY <2>1, ElementOfSeq, LenProperties DEF Range
<1>5. help # "gloss"
        => /\ K <=> \E k \in Range(body.kanj) : Like(Lower(k), low)
           /\ R <=> \E r \in Range(body.rdng) : Like(Lower(r), low)
  BY <1>4, LowerOfLike DEF IsCased
<1>6. HasText(body, t)
        <=> CASE help = "kanj" -> \E k \in Range(body.kanj) : Like(Lower(k), low)
              [] help = "rdng" -> \E r \in Range(body.rdng) : Like(Lower(r), low)
              [] OTHER -> G
  <2>1. CASE help = "kanj"
    BY <2>1 DEF HasText
  <2>2. CASE help = "rdng"
    BY <2>2 DEF HasText
  <2>3. CASE help # "kanj" /\ help # "rdng"
    <3>1. HasText(body, t)
            <=> \E g \in UNION {s.gloss : s \in body.sens} : Like(Lower(g), low)
      BY <2>3 DEF HasText
    <3> QED
      BY <2>3, <3>1
  <2> QED
    BY <2>1, <2>2, <2>3
<1>7. FoundText(body, t)
        <=> \/ (t.srchin = 2 \/ (t.srchin = 1 /\ ~JstrReb(t.srchtxt) /\ ~JstrGloss(t.srchtxt))) /\ K
            \/ (t.srchin = 3 \/ (t.srchin = 1 /\ JstrReb(t.srchtxt))) /\ R
            \/ (t.srchin = 4 \/ (t.srchin = 1 /\ JstrGloss(t.srchtxt))) /\ G
  BY Zenon DEF FoundText
<1> HIDE DEF help, low, K, R, G
<1>8. FoundText(body, t)
        <=> (help = "kanj" /\ K) \/ (help = "rdng" /\ R) \/ (help = "gloss" /\ G)
  <2> DEFINE reb == JstrReb(t.srchtxt)
             gls == JstrGloss(t.srchtxt)
             in == t.srchin
  <2> HIDE DEF reb, gls, in
  <2>1. /\ in \in {1, 2, 3, 4}
        /\ in = 2 => help = "kanj"
        /\ in = 3 => help = "rdng"
        /\ in = 4 => help = "gloss"
        /\ in = 1 => (reb <=> help = "rdng") /\ (gls <=> help = "gloss")
        /\ in = 1 => help \in {"kanj", "rdng", "gloss"}
    BY <1>1, <1>2, <1>3 DEF reb, gls, in
  <2>2. FoundText(body, t)
          <=> \/ (in = 2 \/ (in = 1 /\ ~reb /\ ~gls)) /\ K
              \/ (in = 3 \/ (in = 1 /\ reb)) /\ R
              \/ (in = 4 \/ (in = 1 /\ gls)) /\ G
    BY <1>7, Zenon DEF reb, gls, in
  <2>3. /\ (in = 2 \/ (in = 1 /\ ~reb /\ ~gls)) <=> help = "kanj"
        /\ (in = 3 \/ (in = 1 /\ reb)) <=> help = "rdng"
        /\ (in = 4 \/ (in = 1 /\ gls)) <=> help = "gloss"
    BY <2>1
  <2> QED
    BY <2>2, <2>3, Zenon
<1>9. help \in {"kanj", "rdng", "gloss"}
  BY <1>1, <1>2, <1>3
<1> QED
  BY <1>5, <1>6, <1>8, <1>9

\* The conditions of a form find what the form asks for.
LEMMA ConditionsAreRight ==
  ASSUME CorpusOK, NEW f \in Forms, \A t \in Range(f.txts) : ~IsMixed(t) /\ ~IsCased(t)
  PROVE  FoundBy(So2Conds(f)) = {e \in DOMAIN db : WantedBy(f, e)}
<1> SUFFICES ASSUME NEW e \in DOMAIN db
             PROVE  Matches(So2Conds(f), e, db[e]) <=> WantedBy(f, e)
  BY DEF FoundBy
<1>1. db[e] \in Docs
  BY DEF CorpusOK
<1>2. CASE f.idnum > 0
  BY <1>1, <1>2, NumberMatch DEF WantedBy
<1>3. CASE ~(f.idnum > 0)
  <2>1. \A i \in DOMAIN f.txts : FoundText(db[e], f.txts[i]) <=> HasText(db[e], f.txts[i])
    <3>1. f.txts \in Seq(Looked)
      BY TextsAreLooked
    <3>2. \A i \in DOMAIN f.txts : f.txts[i] \in Looked /\ f.txts[i] \in Range(f.txts)
      BY <3>1, ElementOfSeq, LenProperties DEF Range
    <3> QED
      BY <1>1, <3>2, FoundAsHelped
  <2>2. (\A i \in DOMAIN f.txts : FoundText(db[e], f.txts[i]))
          <=> \A i \in DOMAIN f.txts : HasText(db[e], f.txts[i])
    BY <2>1
  <2> QED
    BY <1>1, <1>3, <2>2, CriteriaMatch DEF WantedBy
<1> QED
  BY <1>2, <1>3

-----------------------------------------------------------------------------
(* What follows. *)

\* If pages have more than one row the pages show nothing twice and leave
\* nothing out.
LEMMA IInvPagesOnce ==
  ASSUME IInv, 1 \notin PageSizes
  PROVE  PagesOnce
<1> SUFFICES ASSUME at # NoSearch, given = at.used
             PROVE  /\ IsInjective(at.seen)
                    /\ /\ at.phase = "page" /\ ~HasNext
                       /\ Range(at.seen) \subseteq DOMAIN db
                       => at.matches \cap DOMAIN db \subseteq Range(at.seen)
  BY DEF PagesOnce
<1>1. /\ PagesOK(at) /\ CorpusOK
      /\ RestOK(at) /\ SeenOK(at) /\ FullOK(at) /\ CountOK(at)
  BY DEF IInv, PagesOK
<1>2. IsInjective(at.seen)
  BY <1>1 DEF SeenOK
<1>3. ASSUME at.phase = "page", ~HasNext, Range(at.seen) \subseteq DOMAIN db
      PROVE  at.matches \cap DOMAIN db \subseteq Range(at.seen)
  <2> DEFINE R == Rest(at.form)
             S == Range(at.seen)
             n == Len(at.seen)
             m == Len(at.rs)
  <2>1. /\ at.seen \in Seq(Ids) /\ at.rs \in Seq(Ids) /\ at.p0 \in Nat
        /\ at.pt \in Int /\ at.ps \in Nat \ {0, 1} /\ n = at.p0 + m
    BY <1>1, PagesHaveRows DEF PagesOK, Reading
  <2>2. n \in Nat /\ m \in Nat /\ DOMAIN at.seen = 1 .. n
    BY <2>1, LenProperties
  <2>3. IsFiniteSet(R) /\ Cardinality(R) \in Nat
    BY <1>1, FoundFinite DEF Rest
  <2>4. /\ m < at.ps => Cardinality(R) <= n
        /\ Cardinality(R) <= at.pt
    BY <1>1, <1>3, <2>1 DEF FullOK, CountOK, PagesOK
  <2>5. at.rs = <<>> => m = 0
    OBVIOUS
  <2>6. \/ at.p0 = 0 /\ m = 1
        \/ ~(at.p0 + m < at.pt)
        \/ at.rs = <<>>
    BY <1>3 DEF HasNext, ShowsEntry
  <2>7. Cardinality(R) <= n
    <3> HIDE DEF R, n, m
    <3> QED
      BY <2>1, <2>2, <2>3, <2>4, <2>5, <2>6
  <2>8. S \in SUBSET R
    BY <1>1, <1>3 DEF RestOK, SeenOK
  <2>9. IsFiniteSet(S) /\ Cardinality(S) \in Nat /\ Cardinality(S) = n
    <3>1. at.seen \in Bijection(1 .. n, S)
      <4>1. at.seen \in [1 .. n -> S]
        BY <2>1, <2>2, LenProperties DEF Range
      <4>2. \A s \in S : \E i \in 1 .. n : at.seen[i] = s
        BY <2>2 DEF Range
      <4> HIDE DEF n, S
      <4> QED
        BY <1>2, <4>1, <4>2 DEF Bijection, Injection, Surjection
    <3> HIDE DEF n, S
    <3>2. IsFiniteSet(1 .. n) /\ Cardinality(1 .. n) = n
      BY <2>2, FS_Interval
    <3>3. ExistsBijection(1 .. n, S)
      BY <3>1 DEF ExistsBijection
    <3> QED
      BY <2>2, <3>2, <3>3, FS_Bijection
  <2>10. R = S
    <3> HIDE DEF R, S, n
    <3>1. Cardinality(S) <= Cardinality(R) /\ (Cardinality(R) = Cardinality(S) => R = S)
      BY <2>3, <2>8, FS_Subset
    <3> QED
      BY <2>2, <2>3, <2>7, <2>9, <3>1
  <2> QED
    BY <1>1, <2>10 DEF RestOK
<1> QED
  BY <1>2, <1>3

\* The invariant holds.
THEOREM Pages == SearchSpec => []IInv
<1>1. SearchInit => IInv
  BY InitIInv
<1>2. IInv /\ [SearchNext]_searchVars => IInv'
  BY NextKeeps
<1> QED
  BY <1>1, <1>2, PTL DEF SearchSpec

\* Through all pages of a search no entry is shown twice, and none is left out
\* that matched, as long as no entry is entered meanwhile (run_search()).
THEOREM PagesShowAllOnce ==
  ASSUME 1 \notin PageSizes
  PROVE  SearchSpec => []PagesOnce
<1>1. IInv => PagesOnce
  BY IInvPagesOnce
<1> QED
  BY <1>1, Pages, PTL

\* A search finds the entries that meet the criteria of the form, all of them
\* and no others, in any corpus, for any form whose texts LIKE takes as they are
\* and which is none of those that the help is wrong about (so2conds(),
\* autocond(), build_search_sql()).
THEOREM SearchFindsWhatIsAsked == SearchSpec => []FoundRight
<1>1. IInv => FoundRight
  <2> SUFFICES ASSUME IInv, at # NoSearch,
                      \A t \in Range(at.form.txts) : ~IsMixed(t) /\ ~IsCased(t)
               PROVE  FindsWanted
    BY DEF FoundRight
  <2>1. CorpusOK /\ at.form \in Forms
    BY DEF IInv, PagesOK, Reading
  <2> QED
    BY <2>1, ConditionsAreRight DEF FindsWanted
<1> QED
  BY <1>1, Pages, PTL
-----------------------------------------------------------------------------
(* A table in the order of its numbers. *)

\* A list has all elements of a set, each once, in an order.
IsListOf(list, S, order) ==
  /\ list \in Seq(S) /\ Len(list) \in Nat
  /\ \A i, j \in 1 .. Len(list) :
       i < j => list[i] # list[j] /\ <<list[i], list[j]>> \in order
  /\ \A e \in S : \E i \in 1 .. Len(list) : list[i] = e

\* ORDER BY makes such a list.
LEMMA InOrderIsList ==
  ASSUME NEW S, IsFiniteSet(S), NEW order, IsOrder(S, order)
  PROVE  IsListOf(InOrder(S, order), S, order)
<1> DEFINE n == Cardinality(S)
           L == InOrder(S, order)
<1>1. /\ L \in Seq(S) /\ Len(L) = n /\ n \in Nat
      /\ \A i \in 1 .. n : L[i] \in S /\ Rank(L[i], S, order) = i - 1
  BY InOrderIs
<1> HIDE DEF n, L
<1>2. ASSUME NEW i \in 1 .. n, NEW j \in 1 .. n, i < j
      PROVE  L[i] # L[j] /\ <<L[i], L[j]>> \in order
  <2>1. /\ L[i] \in S /\ L[j] \in S
        /\ Rank(L[i], S, order) = i - 1 /\ Rank(L[j], S, order) = j - 1
    BY <1>1
  <2>2. L[i] # L[j]
    BY <1>1, <1>2, <2>1
  <2>3. ~(Rank(L[j], S, order) < Rank(L[i], S, order))
    BY <1>1, <1>2, <2>1
  <2>4. <<L[j], L[i]>> \notin order
    BY <2>1, <2>3, RankGrows
  <2> QED
    BY <2>1, <2>2, <2>4 DEF IsOrder
<1>3. ASSUME NEW e \in S
      PROVE  \E i \in 1 .. n : L[i] = e
  <2> DEFINE r == Rank(e, S, order)
  <2>1. r \in 0 .. n - 1
    BY RankRange DEF n
  <2>2. r + 1 \in 1 .. n /\ (r + 1) - 1 = r
    BY <1>1, <2>1
  <2>3. L[r + 1] \in S /\ Rank(L[r + 1], S, order) = r
    BY <1>1, <2>2
  <2>4. n \in Nat /\ r \in Nat
    BY <1>1, <2>1
  <2>5. L[r + 1] = e
    <3> SUFFICES ASSUME L[r + 1] # e PROVE FALSE
      OBVIOUS
    <3>1. CASE <<L[r + 1], e>> \in order
      <4>1. Rank(L[r + 1], S, order) < Rank(e, S, order)
        BY <2>3, <3>1, RankGrows
      <4> QED
        BY <2>3, <2>4, <4>1
    <3>2. CASE <<e, L[r + 1]>> \in order
      <4>1. Rank(e, S, order) < Rank(L[r + 1], S, order)
        BY <2>3, <3>2, RankGrows
      <4> QED
        BY <2>3, <2>4, <4>1
    <3> QED
      BY <2>3, <3>1, <3>2 DEF IsOrder
  <2> QED
    BY <2>2, <2>5
<1> QED
  BY <1>1, <1>2, <1>3 DEF IsListOf, n, L

\* LIMIT takes the first of a list.
LEMMA FirstOfIs ==
  ASSUME NEW S, NEW list \in Seq(S), NEW n \in Nat
  PROVE  /\ FirstOf(n, list) \in Seq(S)
         /\ Len(FirstOf(n, list)) = IF n < Len(list) THEN n ELSE Len(list)
         /\ \A i \in 1 .. Len(FirstOf(n, list)) :
              i \in 1 .. Len(list) /\ FirstOf(n, list)[i] = list[i]
<1> DEFINE k == IF n < Len(list) THEN n ELSE Len(list)
<1>1. Len(list) \in Nat /\ k \in Nat /\ k <= Len(list)
  OBVIOUS
<1>2. \A i \in 1 .. k : i \in 1 .. Len(list) /\ list[i] \in S
  BY <1>1, ElementOfSeq
<1>3. FirstOf(n, list) = SubSeq(list, 1, k)
  BY DEF FirstOf
<1> HIDE DEF k
<1>4. 1 \in Int /\ k \in Int
  BY <1>1
<1>5. /\ SubSeq(list, 1, k) \in Seq(S)
      /\ Len(SubSeq(list, 1, k)) = IF 1 <= k THEN k - 1 + 1 ELSE 0
      /\ \A i \in 1 .. k - 1 + 1 : SubSeq(list, 1, k)[i] = list[1 + i - 1]
  BY <1>2, <1>4, SubSeqProperties
<1>6. Len(FirstOf(n, list)) = k
  BY <1>1, <1>3, <1>5
<1>7. ASSUME NEW i \in 1 .. k
      PROVE  i \in 1 .. Len(list) /\ FirstOf(n, list)[i] = list[i]
  <2>1. i \in 1 .. k - 1 + 1 /\ 1 + i - 1 = i
    BY <1>1
  <2> QED
    BY <1>2, <1>3, <1>5, <2>1
<1> QED
  BY <1>3, <1>5, <1>6, <1>7 DEF k

\* Pairs of a number and an id: which one is first.
Comes(k, i, l, j) == k < l \/ (k = l /\ i < j)

\* The entries have numbers, and ids that were given out.
TableOK ==
  /\ used \subseteq EntrIds /\ IsFiniteSet(used) /\ DOMAIN entr \subseteq used
  /\ \A e \in DOMAIN entr : entr[e].key \in Keys

\* Any entries have an order.
LEMMA ByNumberIsOrder ==
  ASSUME TableOK, NEW S \in SUBSET DOMAIN entr
  PROVE  IsFiniteSet(S) /\ IsOrder(S, ByNumber)
<1>1. IsFiniteSet(S)
  BY FS_Subset DEF TableOK
<1>2. \A e \in S : e \in DOMAIN entr /\ e \in Nat /\ entr[e].key \in Nat
  BY IdsInOrder DEF TableOK
<1>3. \A a, b \in S : <<a, b>> \in ByNumber <=> Comes(entr[a].key, a, entr[b].key, b)
  <2> SUFFICES ASSUME NEW a \in S, NEW b \in S
               PROVE  <<a, b>> \in ByNumber <=> Before(a, b)
    BY DEF Before, Comes
  <2>1. <<a, b>> \in (DOMAIN entr) \X (DOMAIN entr)
    BY <1>2
  <2> QED
    BY <2>1 DEF ByNumber
<1>4. IsOrder(S, ByNumber)
  <2>1. \A a \in S : <<a, a>> \notin ByNumber
    BY <1>2, <1>3 DEF Comes
  <2>2. ASSUME NEW a \in S, NEW b \in S
        PROVE  a = b \/ <<a, b>> \in ByNumber \/ <<b, a>> \in ByNumber
    <3>1. \/ a = b \/ Comes(entr[a].key, a, entr[b].key, b)
          \/ Comes(entr[b].key, b, entr[a].key, a)
      BY <1>2 DEF Comes
    <3> QED
      BY <1>3, <3>1
  <2>3. ASSUME NEW a \in S, NEW b \in S, NEW c \in S,
               <<a, b>> \in ByNumber, <<b, c>> \in ByNumber
        PROVE  <<a, c>> \in ByNumber
    <3>1. Comes(entr[a].key, a, entr[b].key, b) /\ Comes(entr[b].key, b, entr[c].key, c)
      BY <1>3, <2>3
    <3>2. Comes(entr[a].key, a, entr[c].key, c)
      BY <1>2, <3>1 DEF Comes
    <3> QED
      BY <1>3, <3>2
  <2> QED
    BY <2>1, <2>2, <2>3 DEF IsOrder
<1> QED
  BY <1>1, <1>4

-----------------------------------------------------------------------------
(* The users. *)

\* Table T has some of the rows of table U, as they are.
IsPart(T, U) == /\ DOMAIN T \subseteq DOMAIN U
                /\ \A i \in DOMAIN T : T[i] = U[i]

\* A row of number k is added; rows stay as they are.
AddsRow(n, k) ==
  /\ entr'[n].key = k
  /\ \A i \in DOMAIN entr' : i # n => i \in DOMAIN entr /\ entr'[i] = entr[i]

\* A new row is added to what is left of the table.
LEMMA InsertRows ==
  ASSUME NEW T, IsPart(T, entr), NEW n, NEW row, "key" \in DOMAIN row,
         entr' = Trees!InsertRow(T, n, row)
  PROVE  AddsRow(n, row.key)
<1>1. entr' = [i \in DOMAIN T \cup {n} |->
                 IF i = n THEN [row EXCEPT !.hist = Append(@, n)] ELSE T[i]]
  BY DEF Trees!InsertRow
<1>2. DOMAIN entr' = DOMAIN T \cup {n}
  BY <1>1
<1>3. \A i \in DOMAIN entr' : i # n => entr'[i] = T[i]
  BY <1>1
<1>4. entr'[n] = [row EXCEPT !.hist = Append(@, n)]
  BY <1>1
<1>5. entr'[n].key = row.key
  BY <1>4
<1> QED
  BY <1>2, <1>3, <1>5 DEF IsPart, AddsRow

LEMMA DeleteIsPart ==
  ASSUME NEW e
  PROVE  IsPart(Trees!DeleteRow(entr, e), entr)
BY DEF IsPart, Trees!DeleteRow

\* What a user does: one row is added, others go or stay as they are.
UserRows(n) ==
  /\ n \notin used /\ used' = used \cup {n}
  /\ entr'[n].key \in Keys
  /\ \A i \in DOMAIN entr' : i # n => i \in DOMAIN entr /\ entr'[i] = entr[i]

LEMMA CallRows ==
  ASSUME TableOK, NEW c \in PageCalls, NEW n,
         Trees!Submit(c, n) \/ Trees!Approve(c, n) \/ Trees!Reject(c, n)
  PROVE  UserRows(n)
<1>1. c.dfrm \in DOMAIN entr /\ c.key = entr[c.dfrm].key /\ c.key \in Keys
  BY DEF PageCalls, TableOK
<1>2. Trees!KeyOf(entr, c) \in Keys
  BY <1>1 DEF Trees!KeyOf
<1>3. n \notin used /\ used' = used \cup {n}
  BY DEF Trees!Submit, Trees!Approve, Trees!Reject, Trees!Take
<1>4. PICK T, row : /\ IsPart(T, entr)
                    /\ "key" \in DOMAIN row /\ row.key = Trees!KeyOf(entr, c)
                    /\ entr' = Trees!InsertRow(T, n, row)
  <2>1. CASE Trees!Submit(c, n)
    <3>1. entr' = Trees!InsertRow(entr, n, Trees!SubmittedRow(entr, c))
      BY <2>1 DEF Trees!Submit, Trees!Submitted
    <3>2. /\ "key" \in DOMAIN Trees!SubmittedRow(entr, c)
          /\ Trees!SubmittedRow(entr, c).key = Trees!KeyOf(entr, c)
      BY DEF Trees!SubmittedRow, Trees!RowFor
    <3>3. IsPart(entr, entr)
      BY DEF IsPart
    <3> QED
      BY <3>1, <3>2, <3>3
  <2>2. CASE Trees!Approve(c, n)
    <3>1. entr' = Trees!InsertRow(Trees!WithoutTree(entr, c.dfrm), n,
                                  Trees!ApprovedRow(entr, c))
      BY <2>2 DEF Trees!Approve, Trees!Approved
    <3>2. /\ "key" \in DOMAIN Trees!ApprovedRow(entr, c)
          /\ Trees!ApprovedRow(entr, c).key = Trees!KeyOf(entr, c)
      BY DEF Trees!ApprovedRow, Trees!RowFor
    <3>3. IsPart(Trees!WithoutTree(entr, c.dfrm), entr)
      <4>1. IsPart(entr, entr)
        BY DEF IsPart
      <4> QED
        BY <4>1, DeleteIsPart DEF Trees!WithoutTree
    <3> QED
      BY <3>1, <3>2, <3>3
  <2>3. CASE Trees!Reject(c, n)
    <3> DEFINE e == Trees!First(entr, Trees!RejectSet(entr, c.dfrm))
    <3>1. entr' = Trees!InsertRow(Trees!DeleteRow(entr, e), n, Trees!RejectedRow(entr, c))
      BY <2>3 DEF Trees!Reject, Trees!Rejected
    <3>2. /\ "key" \in DOMAIN Trees!RejectedRow(entr, c)
          /\ Trees!RejectedRow(entr, c).key = Trees!KeyOf(entr, c)
      BY DEF Trees!RejectedRow, Trees!RowFor
    <3>3. IsPart(Trees!DeleteRow(entr, e), entr)
      BY DeleteIsPart
    <3> QED
      BY <3>1, <3>2, <3>3
  <2> QED
    BY <2>1, <2>2, <2>3
<1>5. AddsRow(n, row.key)
  BY <1>4, InsertRows
<1> QED
  BY <1>2, <1>3, <1>4, <1>5 DEF UserRows, AddsRow

\* A user's step, as the program sees it.
UserStep ==
  /\ \E n \in EntrIds : /\ UserRows(n)
                        /\ \A i \in DOMAIN entr' : i # n => doc'[i] = doc[i]
  /\ exp' = exp /\ file' = file

LEMMA ChangeIsUserStep ==
  ASSUME TableOK, NEW c \in PageCalls, NEW n \in EntrIds, NEW text, NEW t,
         Change(c, n, text, t)
  PROVE  UserStep
<1>1. Trees!Submit(c, n) \/ Trees!Approve(c, n) \/ Trees!Reject(c, n)
  BY DEF Change
<1>2. UserRows(n)
  BY <1>1, CallRows
<1>3. /\ exp' = exp /\ file' = file
      /\ \E d : doc' = [i \in DOMAIN entr' |-> IF i = n THEN d ELSE doc[i]]
  BY DEF Change
<1>4. \A i \in DOMAIN entr' : i # n => doc'[i] = doc[i]
  BY <1>3
<1> QED
  BY <1>2, <1>3, <1>4 DEF UserStep

LEMMA UserKeepsTable ==
  ASSUME TableOK, UserStep
  PROVE  TableOK'
<1>1. PICK n \in EntrIds : UserRows(n)
  BY DEF UserStep
<1>2. IsFiniteSet(used')
  BY <1>1, FS_AddElement DEF UserRows, TableOK
<1> QED
  BY <1>1, <1>2 DEF UserRows, TableOK

\* The rows that are there stay as they are, with what belongs to them; no id
\* is given out again.
LEMMA UserLeaves ==
  ASSUME TableOK, UserStep
  PROVE  /\ exp' = exp /\ file' = file /\ used \subseteq used'
         /\ \A i \in used \cap DOMAIN entr' :
              i \in DOMAIN entr /\ entr'[i] = entr[i] /\ doc'[i] = doc[i]
BY DEF UserStep, UserRows

-----------------------------------------------------------------------------
(* The invariant of an export without a list of numbers.  The program has  *)
(* passed a place in the order of numbers and ids: what was written is     *)
(* before it, and what is due before it was written.  The rows of a block  *)
(* come after that place, and nothing that is due lies between them.       *)

Fields == {"at", "opt", "left", "seqs", "last", "tmp", "rows", "parts", "refs", "since"}

Passed(k, i) == Comes(k, i, exp.last.key, exp.last.id)

\* The program, once it runs.
JobOK ==
  /\ DOMAIN exp = Fields
  /\ exp.opt.block \in Nat \ {0} /\ exp.opt.count \in Nat
  /\ exp.since \subseteq used

\* What was written was passed, once each, with the number that it has.
WrittenOK(w) ==
  /\ w.id \in used /\ w.row.key \in Nat /\ Passed(w.row.key, w.id)
  /\ w.id \in DOMAIN entr => entr[w.id].key = w.row.key

FileOK ==
  /\ exp.last.key \in Nat /\ exp.last.id \in Nat
  /\ \E S : file \in Seq(S)
  /\ \A i \in DOMAIN file : WrittenOK(file[i])
  /\ \A i, j \in DOMAIN file : file[i].id = file[j].id => i = j

AtBlock == exp.at \in {"entr", "parts", "xref", "write"}

\* The rows of the block, as they would be read now or were read.
BlockRows == IF exp.at = "entr" THEN [f \in Found |-> entr[f]] ELSE exp.rows

RowOK(f) ==
  /\ BlockRows[f].key \in Nat /\ ~Passed(BlockRows[f].key, f)
  /\ f \in DOMAIN entr => entr[f] = BlockRows[f]
  /\ \A i \in DOMAIN file : file[i].id = f => file[i].row.key = BlockRows[f].key

\* Row f of the block comes before number k and id i.
RowComes(f, k, i) == Comes(BlockRows[f].key, f, k, i)

\* The ids in the temporary table.
TmpOK ==
  /\ exp.tmp \in Seq(used)
  /\ \A i, j \in 1 .. Len(exp.tmp) : i < j => exp.tmp[i] # exp.tmp[j]
  /\ DOMAIN BlockRows \subseteq Range(exp.tmp)

BlockOK ==
  /\ TmpOK
  /\ \A f \in DOMAIN BlockRows : RowOK(f)
  /\ \A i, j \in 1 .. Len(exp.tmp) :
       i < j /\ exp.tmp[i] \in DOMAIN BlockRows /\ exp.tmp[j] \in DOMAIN BlockRows
         => RowComes(exp.tmp[i], BlockRows[exp.tmp[j]].key, exp.tmp[j])
  /\ exp.at = "write" => DOMAIN exp.rows # {}

\* What was read of e besides its row.
PartsRead(e) ==
  exp.at \in {"xref", "write"} /\ e \in DOMAIN BlockRows =>
    e \in DOMAIN exp.parts /\ exp.parts[e] = doc[e]

\* What is due was passed and written, or is in the block, or comes after it.
DueOK(e) ==
  /\ Passed(entr[e].key, e) => Stands(e)
  /\ AtBlock =>
       \/ Passed(entr[e].key, e) \/ e \in DOMAIN BlockRows
       \/ \A f \in DOMAIN BlockRows : RowComes(f, entr[e].key, e)
  /\ PartsRead(e)
  /\ exp.at = "done" => Stands(e)

\* The invariant.
EInv ==
  /\ TableOK
  /\ IF exp.at = "idle" THEN exp = Idle /\ file = <<>>
     ELSE /\ JobOK
          /\ exp.opt.seqs = <<>> =>
               /\ FileOK
               /\ AtBlock => BlockOK
               /\ exp.opt.count = 0 => \A e \in Due : DueOK(e)

-----------------------------------------------------------------------------
(* It is kept by the steps of users. *)

LEMMA InitEInv == Init => EInv
<1> SUFFICES ASSUME Init PROVE EInv
  OBVIOUS
<1>1. exp = Idle /\ file = <<>> /\ exp.at = "idle"
  BY DEF Init, Idle
<1>2. TableOK
  <2>1. PICK k \in [Corpus -> Keys] :
          entr = [i \in Corpus |-> [key |-> k[i], stat |-> "A", dfrm |-> NoEntr,
                                    unap |-> FALSE, hist |-> <<>>]]
    BY DEF Init, Trees!Init
  <2>2. used = Corpus
    BY DEF Init, Trees!Init
  <2>3. DOMAIN entr = Corpus /\ \A e \in Corpus : entr[e].key \in Keys
    BY <2>1
  <2> QED
    BY <2>2, <2>3, CorpusIsLoaded DEF TableOK
<1> QED
  BY <1>1, <1>2 DEF EInv

\* The rows of the block are as they were, unless they are gone before they
\* are read.
LEMMA UserBlockRows ==
  ASSUME TableOK, UserStep, exp.tmp \in Seq(used)
  PROVE  /\ IsPart(BlockRows', BlockRows)
         /\ exp.at # "entr" => BlockRows' = BlockRows
         /\ \A e \in DOMAIN entr' : e \in DOMAIN BlockRows => e \in DOMAIN BlockRows'
<1>1. CASE exp.at = "entr"
  <2>1. exp' = exp
    BY UserLeaves
  <2>2. BlockRows = [f \in Found |-> entr[f]] /\ BlockRows' = [f \in Found' |-> entr'[f]]
    BY <1>1, <2>1 DEF BlockRows
  <2>3. /\ Found = ToSet(exp.tmp) \cap DOMAIN entr
        /\ Found' = ToSet(exp.tmp) \cap DOMAIN entr'
    BY <2>1 DEF Found
  <2>4. ToSet(exp.tmp) \subseteq used
    BY DEF ToSet
  <2>5. \A f \in Found' : f \in Found /\ entr'[f] = entr[f]
    BY <2>3, <2>4, UserLeaves
  <2> QED
    BY <1>1, <2>2, <2>3, <2>5 DEF IsPart
<1>2. CASE exp.at # "entr"
  <2>1. exp' = exp
    BY UserLeaves
  <2>2. BlockRows' = BlockRows
    BY <1>2, <2>1 DEF BlockRows
  <2> QED
    BY <2>2 DEF IsPart
<1> QED
  BY <1>1, <1>2

LEMMA UserFileOK ==
  ASSUME TableOK, UserStep, FileOK
  PROVE  FileOK'
<1>1. exp' = exp /\ file' = file /\ used \subseteq used'
  BY UserLeaves
<1>2. ASSUME NEW i \in DOMAIN file PROVE WrittenOK(file[i])'
  <2>1. WrittenOK(file[i])
    BY DEF FileOK
  <2>2. file[i].id \in DOMAIN entr' =>
          file[i].id \in DOMAIN entr /\ entr'[file[i].id] = entr[file[i].id]
    BY <2>1, UserLeaves DEF WrittenOK
  <2> QED
    BY <1>1, <2>1, <2>2 DEF WrittenOK, Passed
<1> QED
  BY <1>1, <1>2 DEF FileOK

\* Rows of the block that stay in table entr stay in it.
LEMMA UserTmpOK ==
  ASSUME TableOK, UserStep, TmpOK
  PROVE  TmpOK'
<1>1. exp' = exp /\ used \subseteq used'
  BY UserLeaves
<1>2. IsPart(BlockRows', BlockRows)
  BY UserBlockRows DEF TmpOK
<1>3. exp.tmp \in Seq(used')
  BY <1>1, SeqMonotonic DEF TmpOK
<1> QED
  BY <1>1, <1>2, <1>3 DEF TmpOK, IsPart

LEMMA UserBlockOK ==
  ASSUME TableOK, UserStep, BlockOK
  PROVE  BlockOK'
<1>1. exp' = exp /\ file' = file /\ used \subseteq used'
  BY UserLeaves
<1>2. /\ IsPart(BlockRows', BlockRows)
      /\ exp.at # "entr" => BlockRows' = BlockRows
  BY UserBlockRows DEF BlockOK, TmpOK
<1>3. TmpOK'
  BY UserTmpOK DEF BlockOK
<1>4. ASSUME NEW f \in DOMAIN BlockRows'
      PROVE  f \in DOMAIN BlockRows /\ BlockRows'[f] = BlockRows[f] /\ RowOK(f)'
  <2>1. f \in DOMAIN BlockRows /\ BlockRows'[f] = BlockRows[f]
    BY <1>2, <1>4 DEF IsPart
  <2>2. RowOK(f) /\ f \in used
    BY <2>1 DEF BlockOK, TmpOK, Range
  <2>3. f \in DOMAIN entr' => f \in DOMAIN entr /\ entr'[f] = entr[f]
    BY <2>2, UserLeaves
  <2> QED
    BY <1>1, <2>1, <2>2, <2>3 DEF RowOK, Passed
<1>5. ASSUME NEW i \in 1 .. Len(exp.tmp), NEW j \in 1 .. Len(exp.tmp), i < j,
             exp.tmp[i] \in DOMAIN BlockRows', exp.tmp[j] \in DOMAIN BlockRows'
      PROVE  RowComes(exp.tmp[i], BlockRows[exp.tmp[j]].key, exp.tmp[j])'
  <2>1. RowComes(exp.tmp[i], BlockRows[exp.tmp[j]].key, exp.tmp[j])
    BY <1>4, <1>5 DEF BlockOK, TmpOK
  <2> QED
    BY <1>1, <1>4, <1>5, <2>1 DEF RowComes
<1> QED
  BY <1>1, <1>3, <1>4, <1>5 DEF BlockOK

\* An entry that is due and stays was due; what was written and read of it is
\* as it was.
LEMMA UserLeavesDue ==
  ASSUME TableOK, UserStep, JobOK, AtBlock => TmpOK, NEW e \in Due'
  PROVE  /\ e \in Due /\ e \in DOMAIN entr' /\ entr'[e] = entr[e]
         /\ Stands(e) => Stands(e)'
         /\ AtBlock => (e \in DOMAIN BlockRows <=> e \in DOMAIN BlockRows')
         /\ PartsRead(e) => PartsRead(e)'
<1>1. exp' = exp /\ file' = file
  BY UserLeaves
<1>2. e \in DOMAIN entr' /\ e \in used
  BY <1>1 DEF Due, JobOK
<1>3. e \in DOMAIN entr /\ entr'[e] = entr[e] /\ doc'[e] = doc[e]
  BY <1>2, UserLeaves
<1>4. e \in Due
  BY <1>1, <1>2, <1>3 DEF Due, Selected, Published
<1>5. ASSUME AtBlock PROVE e \in DOMAIN BlockRows <=> e \in DOMAIN BlockRows'
  <2>1. exp.tmp \in Seq(used)
    BY <1>5 DEF TmpOK
  <2>2. IsPart(BlockRows', BlockRows)
    BY <2>1, UserBlockRows
  <2>3. e \in DOMAIN BlockRows => e \in DOMAIN BlockRows'
    BY <1>2, <2>1, UserBlockRows
  <2> QED
    BY <2>2, <2>3 DEF IsPart
<1> QED
  BY <1>1, <1>2, <1>3, <1>4, <1>5 DEF Stands, PartsRead, AtBlock

LEMMA UserDueOK ==
  ASSUME TableOK, UserStep, JobOK, AtBlock => BlockOK, NEW e \in Due', e \in Due => DueOK(e)
  PROVE  DueOK(e)'
<1>1. exp' = exp /\ (AtBlock' <=> AtBlock)
  BY UserLeaves DEF AtBlock
<1>2. AtBlock => TmpOK
  BY DEF BlockOK
<1>3. /\ e \in Due /\ entr'[e] = entr[e]
      /\ Stands(e) => Stands(e)'
      /\ AtBlock => (e \in DOMAIN BlockRows <=> e \in DOMAIN BlockRows')
      /\ PartsRead(e) => PartsRead(e)'
  BY <1>2, UserLeavesDue
<1>4. DueOK(e) /\ (Passed(entr[e].key, e)' <=> Passed(entr[e].key, e))
  BY <1>1, <1>3 DEF Passed
<1>5. AtBlock' =>
        \/ Passed(entr[e].key, e)' \/ e \in DOMAIN BlockRows'
        \/ \A f \in DOMAIN BlockRows' : RowComes(f, entr[e].key, e)'
  <2> SUFFICES ASSUME AtBlock, ~Passed(entr[e].key, e), e \notin DOMAIN BlockRows
               PROVE  \A f \in DOMAIN BlockRows' : RowComes(f, entr[e].key, e)'
    BY <1>1, <1>3, <1>4
  <2>1. \A f \in DOMAIN BlockRows : RowComes(f, entr[e].key, e)
    BY <1>4 DEF DueOK
  <2>2. IsPart(BlockRows', BlockRows)
    BY <1>2, UserBlockRows DEF TmpOK
  <2> QED
    BY <1>3, <2>1, <2>2 DEF IsPart, RowComes
<1> QED
  BY <1>1, <1>3, <1>4, <1>5 DEF DueOK

LEMMA UserKeeps ==
  ASSUME EInv, UserStep
  PROVE  EInv'
<1>1. TableOK /\ TableOK'
  BY UserKeepsTable DEF EInv
<1>2. exp' = exp /\ file' = file /\ used \subseteq used'
  BY <1>1, UserLeaves
<1>3. CASE exp.at = "idle"
  BY <1>1, <1>2, <1>3 DEF EInv, Idle
<1>4. CASE exp.at # "idle"
  <2>1. JobOK /\ JobOK'
    BY <1>2, <1>4 DEF EInv, JobOK
  <2>2. ASSUME exp.opt.seqs = <<>>
        PROVE  FileOK' /\ (AtBlock => BlockOK /\ BlockOK')
    BY <1>1, <1>4, <2>2, UserFileOK, UserBlockOK DEF EInv
  <2>3. ASSUME exp.opt.seqs = <<>>, exp.opt.count = 0, NEW e \in Due'
        PROVE  DueOK(e)'
    <3>1. e \in Due => DueOK(e)
      BY <1>4, <2>3 DEF EInv
    <3> QED
      BY <1>1, <2>1, <2>2, <2>3, <3>1, UserDueOK
  <2>4. AtBlock' <=> AtBlock
    BY <1>2 DEF AtBlock
  <2> QED
    BY <1>1, <1>2, <1>4, <2>1, <2>2, <2>3, <2>4 DEF EInv
<1> QED
  BY <1>3, <1>4

-----------------------------------------------------------------------------
(* It is kept by the steps of the program. *)

LEMMA BeginKeeps ==
  ASSUME EInv, NEW o \in Options, Begin(o)
  PROVE  EInv'
<1>1. TableOK /\ file = <<>> /\ exp.at = "idle"
  BY DEF EInv, Begin
<1>2. /\ exp' = [at |-> "find", opt |-> Job(o), left |-> o.count,
                 seqs |-> NumbersOf(o.seqfile),
                 last |-> [key |-> 0, id |-> 0], tmp |-> <<>>, rows |-> <<>>,
                 parts |-> <<>>, refs |-> <<>>, since |-> DOMAIN entr]
      /\ UNCHANGED <<entr, used, doc, file>>
  BY DEF Begin
<1>3. Job(o).block = o.block /\ Job(o).count = o.count
  BY DEF Job
<1>4. JobOK'
  <2>1. DOMAIN exp' = Fields
    BY <1>2 DEF Fields
  <2>2. exp'.opt.block \in Nat \ {0} /\ exp'.opt.count \in Nat
    BY <1>2, <1>3, CountsAreCounts
  <2>3. exp'.since \subseteq used'
    BY <1>1, <1>2 DEF TableOK
  <2> QED
    BY <2>1, <2>2, <2>3 DEF JobOK
<1>5. TableOK' /\ exp'.at = "find" /\ file' = <<>>
  BY <1>1, <1>2 DEF TableOK
<1>6. FileOK'
  BY <1>2, <1>5 DEF FileOK
<1>7. ASSUME NEW e \in Due' PROVE DueOK(e)'
  <2>1. e \in Nat /\ entr'[e].key \in Nat
    BY <1>5, IdsInOrder DEF Due, TableOK
  <2>2. exp'.last.key = 0 /\ exp'.last.id = 0
    BY <1>2
  <2>3. ~Passed(entr[e].key, e)'
    BY <2>1, <2>2 DEF Passed, Comes
  <2> QED
    BY <1>5, <2>3 DEF DueOK, PartsRead, AtBlock
<1> QED
  BY <1>4, <1>5, <1>6, <1>7 DEF EInv, AtBlock

\* Steps that leave the rows of the block alone.
QuietStep ==
  /\ UNCHANGED <<entr, used, doc, file>>
  /\ exp.at # "idle" /\ exp'.at \notin {"idle", "find"} /\ DOMAIN exp' = Fields
  /\ exp'.opt = exp.opt /\ exp'.last = exp.last /\ exp'.since = exp.since
  /\ exp'.seqs = exp.seqs /\ exp'.tmp = exp.tmp
  /\ AtBlock' => AtBlock /\ BlockRows' = BlockRows
  /\ exp'.at = "write" => DOMAIN exp'.rows # {}
  /\ exp'.at = "done" =>
       exp.at = "find" /\ (exp.opt.count # 0 \/ (exp.opt.seqs # <<>> /\ exp.seqs = <<>>))

\* What else they read is there, of entries that are there.
PartsStay ==
  AtBlock' /\ TmpOK => \A e \in DOMAIN entr : PartsRead(e) => PartsRead(e)'

LEMMA QuietKeeps ==
  ASSUME EInv, QuietStep, PartsStay
  PROVE  EInv'
<1>1. TableOK' /\ JobOK'
  BY DEF EInv, QuietStep, TableOK, JobOK
<1>2. ASSUME exp.opt.seqs = <<>> PROVE FileOK'
  <2>1. FileOK
    BY <1>2 DEF EInv, QuietStep
  <2>2. ASSUME NEW i \in DOMAIN file PROVE WrittenOK(file[i])'
    <3>1. WrittenOK(file[i])
      BY <2>1 DEF FileOK
    <3> QED
      BY <3>1 DEF WrittenOK, Passed, QuietStep
  <2> QED
    BY <2>1, <2>2 DEF FileOK, QuietStep
<1>3. ASSUME exp.opt.seqs = <<>>, AtBlock' PROVE BlockOK'
  <2>1. BlockOK /\ BlockRows' = BlockRows
    BY <1>3 DEF EInv, QuietStep
  <2>2. \A f \in DOMAIN BlockRows : RowOK(f)'
    <3> SUFFICES ASSUME NEW f \in DOMAIN BlockRows PROVE RowOK(f)'
      OBVIOUS
    <3>1. RowOK(f)
      BY <2>1 DEF BlockOK, TmpOK
    <3> QED
      BY <2>1, <3>1 DEF RowOK, Passed, QuietStep
  <2>3. \A i, j \in 1 .. Len(exp.tmp) :
          i < j /\ exp.tmp[i] \in DOMAIN BlockRows /\ exp.tmp[j] \in DOMAIN BlockRows
            => RowComes(exp.tmp[i], BlockRows[exp.tmp[j]].key, exp.tmp[j])'
    BY <2>1 DEF BlockOK, TmpOK, RowComes, QuietStep
  <2> QED
    BY <2>1, <2>2, <2>3 DEF BlockOK, TmpOK, QuietStep
<1>4. ASSUME exp.opt.seqs = <<>>, exp.opt.count = 0, NEW e \in Due'
      PROVE  DueOK(e)'
  <2>1. e \in Due
    BY DEF Due, Selected, Published, QuietStep
  <2>2. DueOK(e)
    BY <1>4, <2>1 DEF EInv, QuietStep
  <2>3. /\ Passed(entr[e].key, e)' <=> Passed(entr[e].key, e)
        /\ Stands(e)' <=> Stands(e)
    BY DEF Passed, Stands, QuietStep
  <2>4. AtBlock' =>
          \/ Passed(entr[e].key, e)' \/ e \in DOMAIN BlockRows'
          \/ \A f \in DOMAIN BlockRows' : RowComes(f, entr[e].key, e)'
    BY <2>2, <2>3 DEF DueOK, PartsRead, RowComes, QuietStep
  <2>5. PartsRead(e)'
    <3>1. CASE ~AtBlock'
      BY <3>1 DEF PartsRead, AtBlock
    <3>2. CASE AtBlock'
      <4>1. TmpOK /\ e \in DOMAIN entr
        BY <1>4, <2>1, <3>2 DEF EInv, QuietStep, BlockOK, Due
      <4> QED
        BY <2>2, <3>2, <4>1 DEF PartsStay, DueOK
    <3> QED
      BY <3>1, <3>2
  <2>6. exp'.at # "done"
    BY <1>4 DEF QuietStep
  <2> QED
    BY <2>2, <2>3, <2>4, <2>5, <2>6 DEF DueOK
<1>5. exp'.at # "idle" /\ exp'.opt = exp.opt
  BY DEF QuietStep
<1> QED
  BY <1>1, <1>2, <1>3, <1>4, <1>5 DEF EInv

LEMMA FinishIsQuiet ==
  ASSUME JobOK, Finish
  PROVE  QuietStep /\ PartsStay
<1>1. DOMAIN exp = Fields /\ exp.at = "find" /\ exp' = [exp EXCEPT !.at = "done"]
  BY DEF Finish, JobOK
<1>2. exp'.at = "done" /\ (exp.opt.count # 0 \/ (exp.opt.seqs # <<>> /\ exp.seqs = <<>>))
  BY <1>1 DEF Finish, Fields
<1>3. QuietStep
  BY <1>1, <1>2 DEF QuietStep, Fields, AtBlock, Finish
<1> QED
  BY <1>2, <1>3 DEF PartsStay, AtBlock

LEMMA FailIsQuiet ==
  ASSUME JobOK, Fail
  PROVE  QuietStep /\ PartsStay
<1>1. DOMAIN exp = Fields /\ exp.at = "write" /\ exp' = [exp EXCEPT !.at = "failed"]
  BY DEF Fail, JobOK
<1>2. exp'.at = "failed"
  BY <1>1 DEF Fields
<1>3. QuietStep
  BY <1>1 DEF QuietStep, Fields, AtBlock, Fail
<1> QED
  BY <1>2, <1>3 DEF PartsStay, AtBlock

LEMMA ReadEntrIsQuiet ==
  ASSUME JobOK, ReadEntr
  PROVE  QuietStep /\ PartsStay
<1>1. /\ DOMAIN exp = Fields /\ exp.at = "entr"
      /\ exp' = [exp EXCEPT !.at = "parts", !.rows = [e \in Found |-> entr[e]]]
  BY DEF ReadEntr, JobOK
<1>2. exp'.at = "parts" /\ exp'.rows = [e \in Found |-> entr[e]]
  BY <1>1 DEF Fields
<1>3. BlockRows' = BlockRows
  BY <1>1, <1>2 DEF BlockRows
<1>4. QuietStep
  <2>1. /\ DOMAIN exp' = Fields /\ exp'.opt = exp.opt /\ exp'.last = exp.last
        /\ exp'.since = exp.since /\ exp'.tmp = exp.tmp /\ exp'.seqs = exp.seqs
    BY <1>1 DEF Fields
  <2> QED
    BY <1>1, <1>2, <1>3, <2>1 DEF QuietStep, AtBlock, ReadEntr
<1> QED
  BY <1>2, <1>4 DEF PartsStay, PartsRead

LEMMA ReadPartsIsQuiet ==
  ASSUME JobOK, ReadParts
  PROVE  QuietStep /\ PartsStay
<1>1. /\ DOMAIN exp = Fields /\ exp.at = "parts"
      /\ exp' = [exp EXCEPT !.at = "xref", !.parts = [e \in Found |-> doc[e]]]
  BY DEF ReadParts, JobOK
<1>2. exp'.at = "xref" /\ exp'.rows = exp.rows /\ exp'.parts = [e \in Found |-> doc[e]]
  BY <1>1 DEF Fields
<1>3. BlockRows' = BlockRows
  BY <1>1, <1>2 DEF BlockRows
<1>4. QuietStep
  <2>1. /\ DOMAIN exp' = Fields /\ exp'.opt = exp.opt /\ exp'.last = exp.last
        /\ exp'.since = exp.since /\ exp'.tmp = exp.tmp /\ exp'.seqs = exp.seqs
    BY <1>1 DEF Fields
  <2> QED
    BY <1>1, <1>2, <1>3, <2>1 DEF QuietStep, AtBlock, ReadParts
<1>5. ASSUME TmpOK, NEW e \in DOMAIN entr, e \in DOMAIN BlockRows
      PROVE  e \in DOMAIN exp'.parts /\ exp'.parts[e] = doc[e]
  <2>1. e \in Range(exp.tmp)
    BY <1>5 DEF TmpOK
  <2>2. e \in Found
    BY <1>5, <2>1 DEF Found, ToSet, Range
  <2> QED
    BY <1>2, <2>2
<1> QED
  BY <1>3, <1>4, <1>5 DEF PartsStay, PartsRead, QuietStep

LEMMA ReadXrefsIsQuiet ==
  ASSUME JobOK, ReadXrefs
  PROVE  QuietStep /\ PartsStay
<1> DEFINE refs == [e \in DOMAIN exp.rows |-> IF e \in Found THEN xref[e] ELSE <<>>]
<1>1. /\ DOMAIN exp = Fields /\ exp.at = "xref"
      /\ exp' = [exp EXCEPT !.at = IF DOMAIN exp.rows = {} THEN "vanished" ELSE "write",
                            !.refs = refs]
  BY DEF ReadXrefs, JobOK
<1> HIDE DEF refs
<1>2. /\ exp'.at = IF DOMAIN exp.rows = {} THEN "vanished" ELSE "write"
      /\ exp'.rows = exp.rows /\ exp'.parts = exp.parts
  BY <1>1 DEF Fields
<1>3. BlockRows' = BlockRows
  BY <1>1, <1>2 DEF BlockRows
<1>4. QuietStep
  <2>1. /\ DOMAIN exp' = Fields /\ exp'.opt = exp.opt /\ exp'.last = exp.last
        /\ exp'.since = exp.since /\ exp'.tmp = exp.tmp /\ exp'.seqs = exp.seqs
    BY <1>1 DEF Fields
  <2> QED
    BY <1>1, <1>2, <1>3, <2>1 DEF QuietStep, AtBlock, ReadXrefs
<1> QED
  BY <1>1, <1>2, <1>3, <1>4 DEF PartsStay, PartsRead, QuietStep

-----------------------------------------------------------------------------
(* Finding and writing a block. *)

\* What may be in the next block.
ToCome == {e \in Base(exp.opt) : InBlock(e)}

\* The base is in the table; without a count it has all that is selected.
LEMMA BaseIs ==
  ASSUME TableOK, JobOK
  PROVE  /\ Base(exp.opt) \subseteq DOMAIN entr
         /\ exp.opt.count = 0 => Base(exp.opt) = {e \in DOMAIN entr : Selected(e, exp.opt)}
<1> DEFINE all == {e \in DOMAIN entr : Selected(e, exp.opt)}
           L == InOrder(all, ByNumber)
<1>1. all \in SUBSET DOMAIN entr
  OBVIOUS
<1>2. Base(exp.opt) = IF exp.opt.count = 0 THEN all ELSE ToSet(FirstOf(exp.opt.count, L))
  BY DEF Base
<1> HIDE DEF all
<1>3. L \in Seq(all)
  BY <1>1, ByNumberIsOrder, InOrderIsList DEF IsListOf
<1> HIDE DEF L
<1>4. FirstOf(exp.opt.count, L) \in Seq(all)
  BY <1>3, FirstOfIs DEF JobOK
<1>5. ToSet(FirstOf(exp.opt.count, L)) \subseteq all
  BY <1>4 DEF ToSet
<1> QED
  BY <1>1, <1>2, <1>5 DEF all

\* A block has the next entries, in order.
LEMMA BlockIs ==
  ASSUME TableOK, JobOK
  PROVE  /\ ToCome \subseteq DOMAIN entr /\ Block \in Seq(ToCome) /\ Len(Block) \in Nat
         /\ \A i, j \in 1 .. Len(Block) :
              i < j => Block[i] # Block[j] /\ <<Block[i], Block[j]>> \in ByNumber
         /\ \A e \in ToCome : \/ e \in Range(Block)
                            \/ \A i \in 1 .. Len(Block) : <<Block[i], e>> \in ByNumber
         /\ Block = <<>> => ToCome = {}
         /\ Cardinality(ToCome) <= exp.opt.block => ToCome \subseteq Range(Block)
<1> DEFINE L == InOrder(ToCome, ByNumber)
           n == exp.opt.block
<1>1. ToCome \in SUBSET DOMAIN entr
  BY BaseIs DEF ToCome
<1>2. Block = FirstOf(n, L)
  BY DEF Block, ToCome
<1>3. IsListOf(L, ToCome, ByNumber)
  BY <1>1, ByNumberIsOrder, InOrderIsList
<1>T. Len(L) = Cardinality(ToCome)
  BY <1>1, ByNumberIsOrder, InOrderIs
<1>4. n \in Nat /\ n > 0
  BY DEF JobOK
<1> HIDE DEF L, n
<1>5. L \in Seq(ToCome) /\ Len(L) \in Nat
  BY <1>3 DEF IsListOf
<1>6. /\ Block \in Seq(ToCome)
      /\ Len(Block) = IF n < Len(L) THEN n ELSE Len(L)
      /\ \A i \in 1 .. Len(Block) : i \in 1 .. Len(L) /\ Block[i] = L[i]
  BY <1>2, <1>4, <1>5, FirstOfIs
<1>7. Len(Block) \in Nat /\ DOMAIN Block = 1 .. Len(Block)
  BY <1>6, LenProperties
<1>8. ASSUME NEW i \in 1 .. Len(Block), NEW j \in 1 .. Len(Block), i < j
      PROVE  Block[i] # Block[j] /\ <<Block[i], Block[j]>> \in ByNumber
  BY <1>3, <1>6, <1>8 DEF IsListOf
<1>9. ASSUME NEW e \in ToCome, e \notin Range(Block), NEW i \in 1 .. Len(Block)
      PROVE  <<Block[i], e>> \in ByNumber
  <2>1. PICK k \in 1 .. Len(L) : L[k] = e
    BY <1>3 DEF IsListOf
  <2>2. k \notin 1 .. Len(Block)
    BY <1>6, <1>7, <1>9, <2>1 DEF Range
  <2>3. i \in 1 .. Len(L) /\ i < k
    BY <1>5, <1>6, <1>7, <2>2
  <2> QED
    BY <1>3, <1>6, <2>1, <2>3 DEF IsListOf
<1>10. ASSUME Block = <<>> PROVE ToCome = {}
  <2>1. Len(Block) = 0
    BY <1>10
  <2>2. Len(L) = 0
    BY <1>4, <1>5, <1>6, <2>1
  <2> QED
    BY <1>3, <2>2 DEF IsListOf
<1>12. ASSUME Cardinality(ToCome) <= n PROVE ToCome \subseteq Range(Block)
  <2>1. Len(Block) = Len(L)
    BY <1>4, <1>5, <1>6, <1>T, <1>12
  <2> SUFFICES ASSUME NEW e \in ToCome PROVE e \in Range(Block)
    OBVIOUS
  <2>2. PICK k \in 1 .. Len(L) : L[k] = e
    BY <1>3 DEF IsListOf
  <2> QED
    BY <1>6, <1>7, <2>1, <2>2 DEF Range
<1> QED
  BY <1>1, <1>6, <1>7, <1>8, <1>9, <1>10, <1>12 DEF n

\* The rest is what was not passed.
LEMMA AfterIs ==
  ASSUME TableOK, FileOK, NEW e \in DOMAIN entr
  PROVE  After(e) <=> ~Passed(entr[e].key, e)
<1>1. /\ e \in Nat /\ entr[e].key \in Nat
      /\ exp.last.key \in Nat /\ exp.last.id \in Nat
  BY IdsInOrder DEF TableOK, FileOK
<1> QED
  BY <1>1 DEF After, Passed, Comes

\* What has been found is in the temporary table, to be read.
LEMMA FindFills ==
  ASSUME TableOK, JobOK, Find
  PROVE  /\ UNCHANGED <<entr, used, doc, file>> /\ exp.at = "find"
         /\ DOMAIN exp' = Fields /\ exp'.opt = exp.opt /\ exp'.last = exp.last
         /\ exp'.since = exp.since /\ exp'.tmp = Block
         /\ exp'.seqs = SubSeq(exp.seqs, exp.opt.block + 1, Len(exp.seqs))
         /\ exp'.at = (IF Block = <<>> THEN "done" ELSE "entr")
         /\ Block # <<>> => /\ TmpOK' /\ DOMAIN BlockRows' = Range(Block)
                            /\ \A f \in Range(Block) : BlockRows'[f] = entr[f]
<1> DEFINE next == IF Block = <<>> THEN "done" ELSE "entr"
           rest == SubSeq(exp.seqs, exp.opt.block + 1, Len(exp.seqs))
<1>1. /\ DOMAIN exp = Fields /\ exp.at = "find"
      /\ exp' = [exp EXCEPT !.tmp = Block, !.seqs = rest, !.at = next]
      /\ UNCHANGED <<entr, used, doc, file>>
  BY DEF Find, JobOK
<1> HIDE DEF next, rest
<1>2. /\ DOMAIN exp' = Fields /\ exp'.opt = exp.opt /\ exp'.last = exp.last
      /\ exp'.since = exp.since /\ exp'.tmp = Block /\ exp'.at = next
      /\ exp'.seqs = rest
  BY <1>1 DEF Fields
<1>3. ASSUME Block # <<>>
      PROVE  /\ TmpOK' /\ DOMAIN BlockRows' = Range(Block)
             /\ \A f \in Range(Block) : BlockRows'[f] = entr[f]
  <2>1. /\ ToCome \subseteq DOMAIN entr /\ Block \in Seq(ToCome) /\ Len(Block) \in Nat
        /\ \A i, j \in 1 .. Len(Block) : i < j => Block[i] # Block[j]
    BY BlockIs
  <2>2. DOMAIN Block = 1 .. Len(Block) /\ Range(Block) \subseteq ToCome
    BY <2>1, LenProperties, ElementOfSeq DEF Range
  <2>3. Found' = Range(Block)
    <3>1. Found' = ToSet(Block) \cap DOMAIN entr
      BY <1>1, <1>2 DEF Found
    <3> QED
      BY <2>1, <2>2, <3>1 DEF ToSet, Range
  <2>4. BlockRows' = [f \in Range(Block) |-> entr[f]]
    <3>1. exp'.at = "entr"
      BY <1>2, <1>3 DEF next
    <3>2. BlockRows' = [f \in Found' |-> entr'[f]]
      BY <3>1 DEF BlockRows
    <3> QED
      BY <1>1, <2>3, <3>2
  <2>5. Block \in Seq(used)
    <3>1. ToCome \subseteq used
      BY <2>1 DEF TableOK
    <3> QED
      BY <2>1, <3>1, SeqMonotonic
  <2>6. TmpOK'
    BY <1>1, <1>2, <2>1, <2>4, <2>5 DEF TmpOK
  <2> QED
    BY <2>4, <2>6
<1> QED
  BY <1>1, <1>2, <1>3 DEF next, rest

LEMMA FindKeeps ==
  ASSUME EInv, Find
  PROVE  EInv'
<1>1. TableOK /\ JobOK
  BY DEF EInv, Find
<1>2. /\ UNCHANGED <<entr, used, doc, file>> /\ exp.at = "find"
      /\ DOMAIN exp' = Fields /\ exp'.opt = exp.opt /\ exp'.last = exp.last
      /\ exp'.since = exp.since /\ exp'.tmp = Block
      /\ exp'.at = (IF Block = <<>> THEN "done" ELSE "entr")
  BY <1>1, FindFills
<1>3. ASSUME Block # <<>>
      PROVE  /\ TmpOK' /\ DOMAIN BlockRows' = Range(Block)
             /\ \A f \in Range(Block) : BlockRows'[f] = entr[f]
  BY <1>1, <1>3, FindFills
<1>4. TableOK' /\ JobOK'
  BY <1>1, <1>2 DEF TableOK, JobOK
<1>5. CASE exp.opt.seqs # <<>>
  BY <1>2, <1>4, <1>5 DEF EInv
<1>6. CASE exp.opt.seqs = <<>>
  <2>1. FileOK
    BY <1>2, <1>6 DEF EInv
  <2>2. \A k, i : Passed(k, i)' <=> Passed(k, i)
    BY <1>2 DEF Passed
  <2>3. FileOK'
    <3>1. ASSUME NEW i \in DOMAIN file PROVE WrittenOK(file[i])'
      <4>1. WrittenOK(file[i])
        BY <2>1 DEF FileOK
      <4> QED
        BY <1>2, <4>1 DEF WrittenOK, Passed
    <3> QED
      BY <1>2, <2>1, <3>1 DEF FileOK
  <2>4. /\ ToCome \subseteq DOMAIN entr /\ Block \in Seq(ToCome) /\ Len(Block) \in Nat
        /\ \A i, j \in 1 .. Len(Block) :
             i < j => Block[i] # Block[j] /\ <<Block[i], Block[j]>> \in ByNumber
        /\ \A e \in ToCome : \/ e \in Range(Block)
                           \/ \A i \in 1 .. Len(Block) : <<Block[i], e>> \in ByNumber
        /\ Block = <<>> => ToCome = {}
    BY <1>1, BlockIs
  <2>5. \A a, b : <<a, b>> \in ByNumber => Comes(entr[a].key, a, entr[b].key, b)
    BY DEF ByNumber, Before, Comes
  <2>6. DOMAIN Block = 1 .. Len(Block) /\ Range(Block) \subseteq ToCome
    BY <2>4, LenProperties, ElementOfSeq DEF Range
  <2>7. \A e \in DOMAIN entr :
          e \in ToCome <=> e \in Base(exp.opt) /\ ~Passed(entr[e].key, e)
    BY <1>1, <1>6, <2>1, AfterIs DEF ToCome, InBlock
  <2>8. ASSUME AtBlock' PROVE BlockOK'
    <3>1. Block # <<>>
      BY <1>2, <2>8 DEF AtBlock
    <3>2. ASSUME NEW f \in DOMAIN BlockRows' PROVE RowOK(f)'
      <4>1. f \in ToCome /\ f \in DOMAIN entr /\ BlockRows'[f] = entr[f]
        BY <1>3, <2>4, <2>6, <3>1, <3>2
      <4>2. ~Passed(entr[f].key, f)
        BY <2>7, <4>1
      <4>3. entr[f].key \in Nat
        BY <1>1, <4>1, IdsInOrder DEF TableOK
      <4>4. \A i \in DOMAIN file : file[i].id = f => file[i].row.key = entr[f].key
        BY <2>1, <4>1 DEF FileOK, WrittenOK
      <4> QED
        BY <1>2, <2>2, <4>1, <4>2, <4>3, <4>4 DEF RowOK
    <3>3. ASSUME NEW i \in 1 .. Len(Block), NEW j \in 1 .. Len(Block), i < j
          PROVE  RowComes(exp.tmp[i], BlockRows[exp.tmp[j]].key, exp.tmp[j])'
      <4>1. Comes(entr[Block[i]].key, Block[i], entr[Block[j]].key, Block[j])
        BY <2>4, <2>5, <3>3
      <4>2. Block[i] \in Range(Block) /\ Block[j] \in Range(Block)
        BY <2>6 DEF Range
      <4>3. /\ BlockRows'[Block[i]] = entr[Block[i]]
            /\ BlockRows'[Block[j]] = entr[Block[j]]
        BY <1>3, <3>1, <4>2
      <4> QED
        BY <1>2, <4>1, <4>3 DEF RowComes
    <3> QED
      BY <1>2, <1>3, <3>1, <3>2, <3>3 DEF BlockOK
  <2>9. ASSUME exp.opt.count = 0, NEW e \in Due' PROVE DueOK(e)'
    <3>1. e \in Due /\ e \in DOMAIN entr /\ Selected(e, exp.opt)
      BY <1>2 DEF Due, Selected, Published
    <3>2. Passed(entr[e].key, e) => Stands(e)
      BY <1>2, <1>6, <2>9, <3>1 DEF EInv, DueOK
    <3>3. Stands(e)' <=> Stands(e)
      BY <1>2 DEF Stands
    <3>4. ASSUME ~Passed(entr[e].key, e) PROVE e \in ToCome
      BY <1>1, <2>7, <2>9, <3>1, <3>4, BaseIs
    <3>5. ASSUME AtBlock', ~Passed(entr[e].key, e), e \notin DOMAIN BlockRows',
                 NEW f \in DOMAIN BlockRows'
          PROVE  RowComes(f, entr[e].key, e)'
      <4>1. Block # <<>>
        BY <1>2, <3>5 DEF AtBlock
      <4>2. DOMAIN BlockRows' = Range(Block) /\ BlockRows'[f] = entr[f]
        BY <1>3, <3>5, <4>1
      <4>3. PICK i \in 1 .. Len(Block) : f = Block[i]
        BY <2>6, <3>5, <4>2 DEF Range
      <4>4. Comes(entr[f].key, f, entr[e].key, e)
        BY <2>4, <2>5, <3>4, <3>5, <4>2, <4>3
      <4> QED
        BY <1>2, <4>2, <4>4 DEF RowComes
    <3>6. exp'.at = "done" => Stands(e)
      BY <1>2, <2>4, <3>2, <3>4
    <3>7. (Passed(entr[e].key, e)' <=> Passed(entr[e].key, e)) /\ PartsRead(e)'
      BY <1>2, <2>2 DEF PartsRead
    <3> QED
      BY <1>2, <3>2, <3>3, <3>5, <3>6, <3>7 DEF DueOK
  <2> QED
    BY <1>2, <1>4, <1>6, <2>3, <2>8, <2>9 DEF EInv
<1> QED
  BY <1>5, <1>6

\* The rows that were read have the order of the block.
LEMMA ByOrdIsOrder ==
  ASSUME TableOK, TmpOK, exp.at = "write"
  PROVE  IsFiniteSet(DOMAIN exp.rows) /\ IsOrder(DOMAIN exp.rows, ByOrd)
<1> DEFINE S == DOMAIN exp.rows
           n == Len(exp.tmp)
<1>1. BlockRows = exp.rows
  BY DEF BlockRows
<1>2. exp.tmp \in Seq(used) /\ n \in Nat /\ DOMAIN exp.tmp = 1 .. n
  BY LenProperties DEF TmpOK
<1>3. ASSUME NEW a \in S PROVE a \in used /\ \E i \in 1 .. n : a = exp.tmp[i]
  BY <1>1, <1>2, ElementOfSeq DEF TmpOK, Range
<1>4. IsFiniteSet(S)
  BY <1>3, FS_Subset DEF TableOK
<1>5. \A i, j \in 1 .. n : exp.tmp[i] = exp.tmp[j] => i = j
  BY <1>2 DEF TmpOK
<1>6. ASSUME NEW a, NEW b, <<a, b>> \in ByOrd
      PROVE  \E i, j \in 1 .. n : i < j /\ a = exp.tmp[i] /\ b = exp.tmp[j]
  <2>1. PICK p \in (DOMAIN exp.tmp) \X (DOMAIN exp.tmp) :
          p[1] < p[2] /\ <<a, b>> = <<exp.tmp[p[1]], exp.tmp[p[2]]>>
    BY <1>6 DEF ByOrd
  <2> QED
    BY <1>2, <2>1
<1>7. ASSUME NEW i \in 1 .. n, NEW j \in 1 .. n, i < j
      PROVE  <<exp.tmp[i], exp.tmp[j]>> \in ByOrd
  <2>1. <<i, j>> \in (DOMAIN exp.tmp) \X (DOMAIN exp.tmp)
    BY <1>2
  <2>2. <<i, j>>[1] = i /\ <<i, j>>[2] = j
    OBVIOUS
  <2> QED
    BY <1>7, <2>1, <2>2 DEF ByOrd
<1> HIDE DEF S, n
<1>8. \A a \in S : <<a, a>> \notin ByOrd
  BY <1>2, <1>5, <1>6
<1>9. ASSUME NEW a \in S, NEW b \in S
      PROVE  a = b \/ <<a, b>> \in ByOrd \/ <<b, a>> \in ByOrd
  <2>1. PICK i \in 1 .. n, j \in 1 .. n : a = exp.tmp[i] /\ b = exp.tmp[j]
    BY <1>3
  <2>2. i = j \/ i < j \/ j < i
    BY <1>2
  <2> QED
    BY <1>7, <2>1, <2>2
<1>10. ASSUME NEW a \in S, NEW b \in S, NEW c \in S,
              <<a, b>> \in ByOrd, <<b, c>> \in ByOrd
       PROVE  <<a, c>> \in ByOrd
  <2>1. PICK i \in 1 .. n, j \in 1 .. n : i < j /\ a = exp.tmp[i] /\ b = exp.tmp[j]
    BY <1>6, <1>10
  <2>2. PICK k \in 1 .. n, l \in 1 .. n : k < l /\ b = exp.tmp[k] /\ c = exp.tmp[l]
    BY <1>6, <1>10
  <2>3. j = k
    BY <1>5, <2>1, <2>2
  <2>4. i < l
    BY <1>2, <2>1, <2>2, <2>3
  <2> QED
    BY <1>7, <2>1, <2>2, <2>4
<1> QED
  BY <1>4, <1>8, <1>9, <1>10 DEF IsOrder, S

\* The rows that were read, each once.
LEMMA EntriesList ==
  ASSUME TableOK, TmpOK, exp.at = "write"
  PROVE  LET m == Len(Entries) IN
         /\ m \in Nat /\ DOMAIN Entries = 1 .. m
         /\ \A i \in 1 .. m : Entries[i] \in DOMAIN exp.rows
         /\ \A i, j \in 1 .. m :
              i < j => Entries[i] # Entries[j] /\ <<Entries[i], Entries[j]>> \in ByOrd
         /\ \A e \in DOMAIN exp.rows : \E i \in 1 .. m : Entries[i] = e
<1> DEFINE S == DOMAIN exp.rows
           m == Len(Entries)
<1>1. IsFiniteSet(S) /\ IsOrder(S, ByOrd)
  BY ByOrdIsOrder
<1> HIDE DEF S
<1>2. IsListOf(Entries, S, ByOrd)
  BY <1>1, InOrderIsList DEF Entries, S
<1>3. Entries \in Seq(S) /\ m \in Nat /\ DOMAIN Entries = 1 .. m
  BY <1>2, LenProperties DEF IsListOf
<1>4. /\ \A i, j \in 1 .. m :
           i < j => Entries[i] # Entries[j] /\ <<Entries[i], Entries[j]>> \in ByOrd
      /\ \A e \in S : \E i \in 1 .. m : Entries[i] = e
  BY <1>2 DEF IsListOf
<1>5. \A i \in 1 .. m : Entries[i] \in S
  BY <1>3, ElementOfSeq
<1> QED
  BY <1>3, <1>4, <1>5 DEF S, m

\* Without a list of numbers, they have the order of numbers and ids.
LEMMA ByOrdComes ==
  ASSUME BlockOK, exp.at = "write",
         NEW a \in DOMAIN exp.rows, NEW b \in DOMAIN exp.rows, <<a, b>> \in ByOrd
  PROVE  Comes(exp.rows[a].key, a, exp.rows[b].key, b)
<1>1. BlockRows = exp.rows
  BY DEF BlockRows
<1>2. DOMAIN exp.tmp = 1 .. Len(exp.tmp)
  BY LenProperties DEF BlockOK, TmpOK
<1>3. PICK p \in (DOMAIN exp.tmp) \X (DOMAIN exp.tmp) :
        p[1] < p[2] /\ <<a, b>> = <<exp.tmp[p[1]], exp.tmp[p[2]]>>
  BY DEF ByOrd
<1>4. PICK i \in 1 .. Len(exp.tmp), j \in 1 .. Len(exp.tmp) :
        i < j /\ a = exp.tmp[i] /\ b = exp.tmp[j]
  BY <1>2, <1>3
<1>5. RowComes(a, exp.rows[b].key, b)
  BY <1>1, <1>4 DEF BlockOK
<1> QED
  BY <1>1, <1>5 DEF RowComes

\* The last of them is behind the others.
LEMMA EntriesAre ==
  ASSUME TableOK, BlockOK, exp.at = "write"
  PROVE  LET m == Len(Entries) IN
         /\ m \in Nat \ {0}
         /\ \A i \in 1 .. m : Entries[i] \in DOMAIN exp.rows
         /\ \A i, j \in 1 .. m : Entries[i] = Entries[j] => i = j
         /\ \A e \in DOMAIN exp.rows : \E i \in 1 .. m : Entries[i] = e
         /\ \A e \in DOMAIN exp.rows :
              e = Entries[m] \/ Comes(exp.rows[e].key, e,
                                      exp.rows[Entries[m]].key, Entries[m])
<1> DEFINE S == DOMAIN exp.rows
           m == Len(Entries)
<1>1. S # {}
  BY DEF BlockOK
<1>2. /\ m \in Nat
      /\ \A i \in 1 .. m : Entries[i] \in S
      /\ \A i, j \in 1 .. m :
           i < j => Entries[i] # Entries[j] /\ <<Entries[i], Entries[j]>> \in ByOrd
      /\ \A e \in S : \E i \in 1 .. m : Entries[i] = e
  BY EntriesList DEF BlockOK
<1>3. \A a, b \in S : <<a, b>> \in ByOrd => Comes(exp.rows[a].key, a, exp.rows[b].key, b)
  BY ByOrdComes
<1> HIDE DEF S, m
<1>4. m # 0
  BY <1>1, <1>2
<1>5. ASSUME NEW i \in 1 .. m, NEW j \in 1 .. m, Entries[i] = Entries[j] PROVE i = j
  <2>1. ~(i < j) /\ ~(j < i)
    BY <1>2, <1>5
  <2> QED
    BY <1>2, <2>1
<1>6. ASSUME NEW e \in S
      PROVE  e = Entries[m] \/ Comes(exp.rows[e].key, e, exp.rows[Entries[m]].key, Entries[m])
  <2>1. PICK i \in 1 .. m : Entries[i] = e
    BY <1>2
  <2>2. m \in 1 .. m /\ (i = m \/ i < m)
    BY <1>2, <1>4
  <2>3. i < m => <<e, Entries[m]>> \in ByOrd
    BY <1>2, <2>1, <2>2
  <2> QED
    BY <1>2, <1>3, <2>1, <2>2, <2>3
<1> QED
  BY <1>2, <1>4, <1>5, <1>6 DEF S, m

\* What is appended to the file.
LEMMA WrittenBlockIs ==
  ASSUME TableOK, TmpOK, exp.at = "write"
  PROVE  LET B == WrittenBlock IN
         /\ \E S : B \in Seq(S)
         /\ Len(B) = Len(Entries)
         /\ \A i \in 1 .. Len(Entries) :
              /\ B[i].id = Entries[i] /\ B[i].row = exp.rows[Entries[i]]
              /\ B[i].doc = Parts(Entries[i])
<1> DEFINE m == Len(Entries)
           Before1(i) == Defined \cup UNION {Parts(Entries[j]).grp : j \in 1 .. i - 1}
           W(i) == Written(Entries[i], Before1(i))
<1>1. m \in Nat /\ DOMAIN Entries = 1 .. m
  BY EntriesList
<1>2. WrittenBlock = [i \in DOMAIN Entries |-> W(i)]
  BY DEF WrittenBlock
<1>3. \A i : /\ W(i).id = Entries[i] /\ W(i).row = exp.rows[Entries[i]]
             /\ W(i).doc = Parts(Entries[i])
  BY DEF Written
<1> HIDE DEF W, m
<1>4. WrittenBlock = [i \in 1 .. m |-> W(i)]
  BY <1>1, <1>2
<1> DEFINE S == {W(i) : i \in 1 .. m}
<1>5. WrittenBlock \in [1 .. m -> S]
  BY <1>4
<1> HIDE DEF S
<1>6. WrittenBlock \in Seq(S)
  BY <1>1, <1>5
<1>7. DOMAIN WrittenBlock = 1 .. m /\ DOMAIN WrittenBlock = 1 .. Len(WrittenBlock)
      /\ Len(WrittenBlock) \in Nat
  BY <1>5, <1>6, LenProperties
<1>8. Len(WrittenBlock) = m
  BY <1>1, <1>7
<1>9. \A i \in 1 .. m : WrittenBlock[i] = W(i)
  BY <1>4
<1> QED
  BY <1>3, <1>6, <1>8, <1>9 DEF m

\* The file is added to.
LEMMA FileGrows ==
  ASSUME TableOK, TmpOK, Write, \E S : file \in Seq(S)
  PROVE  LET n == Len(file) m == Len(Entries) IN
         /\ n \in Nat /\ m \in Nat
         /\ DOMAIN file = 1 .. n /\ DOMAIN file' = 1 .. n + m
         /\ \E S : file' \in Seq(S)
         /\ \A i \in 1 .. n + m :
              file'[i] = IF i <= n THEN file[i] ELSE WrittenBlock[i - n]
<1> DEFINE n == Len(file)
           m == Len(Entries)
<1>1. exp.at = "write" /\ file' = file \o WrittenBlock
  BY DEF Write
<1>2. PICK S1 : file \in Seq(S1)
  OBVIOUS
<1>3. PICK S2 : WrittenBlock \in Seq(S2)
  BY <1>1, WrittenBlockIs
<1>4. Len(WrittenBlock) = m /\ m \in Nat
  BY <1>1, WrittenBlockIs, EntriesList
<1> DEFINE S == S1 \cup S2
<1>5. S1 \subseteq S /\ S2 \subseteq S
  OBVIOUS
<1> HIDE DEF S, m
<1>6. file \in Seq(S) /\ WrittenBlock \in Seq(S)
  BY <1>2, <1>3, <1>5, SeqMonotonic
<1>7. /\ file \o WrittenBlock \in Seq(S)
      /\ Len(file \o WrittenBlock) = n + Len(WrittenBlock)
      /\ \A i \in 1 .. n + Len(WrittenBlock) :
           (file \o WrittenBlock)[i] = IF i <= n THEN file[i] ELSE WrittenBlock[i - n]
  BY <1>6, ConcatProperties
<1>8. n \in Nat /\ DOMAIN file = 1 .. n
  BY <1>6, LenProperties
<1>9. DOMAIN file' = 1 .. n + m
  BY <1>1, <1>4, <1>7, LenProperties
<1> QED
  BY <1>1, <1>4, <1>7, <1>8, <1>9 DEF m

\* What stands in it stays, and each entry of the block comes to stand in it.
LEMMA WriteStands ==
  ASSUME TableOK, TmpOK, Write, \E S : file \in Seq(S), NEW e,
         Stands(e) \/ (e \in DOMAIN exp.rows /\ PartsRead(e))
  PROVE  Stands(e)'
<1> DEFINE n == Len(file)
           m == Len(Entries)
<1>1. exp.at = "write" /\ doc' = doc
  BY DEF Write
<1>2. /\ n \in Nat /\ m \in Nat
      /\ DOMAIN file = 1 .. n /\ DOMAIN file' = 1 .. n + m
      /\ \A i \in 1 .. n + m :
           file'[i] = IF i <= n THEN file[i] ELSE WrittenBlock[i - n]
  BY FileGrows
<1>3. CASE Stands(e)
  <2>1. PICK i \in DOMAIN file : file[i].id = e /\ file[i].doc = doc[e]
    BY <1>3 DEF Stands
  <2>2. i \in DOMAIN file' /\ file'[i] = file[i]
    BY <1>2
  <2> QED
    BY <1>1, <2>1, <2>2 DEF Stands
<1>4. CASE e \in DOMAIN exp.rows /\ PartsRead(e)
  <2>1. PICK k \in 1 .. m : Entries[k] = e
    BY <1>1, <1>4, EntriesList
  <2>2. WrittenBlock[k].id = e /\ WrittenBlock[k].doc = Parts(e)
    BY <1>1, <2>1, WrittenBlockIs
  <2> HIDE DEF n, m
  <2>3. n + k \in DOMAIN file' /\ file'[n + k] = WrittenBlock[k]
    <3>1. n + k \in 1 .. n + m /\ ~(n + k <= n) /\ (n + k) - n = k
      BY <1>2
    <3> QED
      BY <1>2, <3>1
  <2>4. Parts(e) = doc[e]
    BY <1>1, <1>4 DEF PartsRead, BlockRows, Parts
  <2> QED
    BY <1>1, <2>2, <2>3, <2>4 DEF Stands
<1> QED
  BY <1>3, <1>4

LEMMA WriteKeeps ==
  ASSUME EInv, Write
  PROVE  EInv'
<1> DEFINE m == Len(Entries)
           l == Entries[m]
<1>1. /\ DOMAIN exp = Fields /\ exp.at = "write" /\ file' = file \o WrittenBlock
      /\ exp' = [exp EXCEPT !.at = "find", !.last = LastRead, !.left = @ - exp.opt.block,
                            !.tmp = <<>>, !.rows = <<>>, !.parts = <<>>, !.refs = <<>>]
      /\ UNCHANGED <<entr, used, doc>>
  BY DEF EInv, Write, JobOK
<1>2. /\ DOMAIN exp' = Fields /\ exp'.opt = exp.opt /\ exp'.last = LastRead
      /\ exp'.since = exp.since /\ exp'.at = "find"
  BY <1>1 DEF Fields
<1>3. TableOK /\ TableOK' /\ JobOK
  BY <1>1 DEF EInv, TableOK
<1>4. CASE exp.opt.seqs # <<>>
  <2>1. JobOK'
    BY <1>1, <1>2, <1>3 DEF JobOK
  <2> QED
    BY <1>2, <1>3, <1>4, <2>1 DEF EInv
<1>5. CASE exp.opt.seqs = <<>>
  <2>1. FileOK /\ BlockOK
    BY <1>1, <1>5 DEF EInv, AtBlock
  <2>2. BlockRows = exp.rows
    BY <1>1 DEF BlockRows
  <2>3. ASSUME NEW f \in DOMAIN exp.rows
        PROVE  /\ f \in used /\ f \in Nat /\ exp.rows[f].key \in Nat
               /\ ~Passed(exp.rows[f].key, f) /\ (f \in DOMAIN entr => entr[f] = exp.rows[f])
               /\ \A i \in DOMAIN file : file[i].id = f => file[i].row.key = exp.rows[f].key
    <3>1. f \in Range(exp.tmp) /\ RowOK(f)
      BY <2>1, <2>2, <2>3 DEF BlockOK, TmpOK
    <3>2. f \in used
      BY <2>1, <3>1, LenProperties, ElementOfSeq DEF BlockOK, TmpOK, Range
    <3>3. f \in Nat
      BY <1>3, <3>2, IdsInOrder DEF TableOK
    <3> QED
      BY <2>2, <3>1, <3>2, <3>3 DEF RowOK
  <2>4. /\ m \in Nat \ {0} /\ l \in DOMAIN exp.rows
        /\ \A i \in 1 .. m : Entries[i] \in DOMAIN exp.rows
        /\ \A i, j \in 1 .. m : Entries[i] = Entries[j] => i = j
        /\ \A e \in DOMAIN exp.rows : \E i \in 1 .. m : Entries[i] = e
        /\ \A e \in DOMAIN exp.rows :
             e = l \/ Comes(exp.rows[e].key, e, exp.rows[l].key, l)
    <3>1. /\ m \in Nat \ {0}
          /\ \A i \in 1 .. m : Entries[i] \in DOMAIN exp.rows
          /\ \A i, j \in 1 .. m : Entries[i] = Entries[j] => i = j
          /\ \A e \in DOMAIN exp.rows : \E i \in 1 .. m : Entries[i] = e
          /\ \A e \in DOMAIN exp.rows :
               e = l \/ Comes(exp.rows[e].key, e, exp.rows[l].key, l)
      BY <1>1, <1>3, <2>1, EntriesAre
    <3>2. m \in 1 .. m
      BY <3>1
    <3> QED
      BY <3>1, <3>2
  <2>5. exp'.last.key = exp.rows[l].key /\ exp'.last.id = l + 1
    BY <1>2 DEF LastRead, Last
  <2>6. TmpOK
    BY <2>1 DEF BlockOK
  <2>7. \A i \in 1 .. m : /\ WrittenBlock[i].id = Entries[i]
                          /\ WrittenBlock[i].row = exp.rows[Entries[i]]
    BY <1>1, <1>3, <2>6, WrittenBlockIs
  <2> DEFINE n == Len(file)
  <2>8. /\ n \in Nat /\ DOMAIN file = 1 .. n /\ DOMAIN file' = 1 .. n + m
        /\ \E S : file' \in Seq(S)
        /\ \A i \in 1 .. n + m :
             file'[i] = IF i <= n THEN file[i] ELSE WrittenBlock[i - n]
    BY <1>3, <2>1, <2>6, FileGrows DEF FileOK
  <2> HIDE DEF m, l, n
  <2>9. ASSUME NEW k \in Nat, NEW i \in Nat, Passed(k, i) PROVE Passed(k, i)'
    <3>1. /\ exp.last.key \in Nat /\ exp.last.id \in Nat
          /\ exp.rows[l].key \in Nat /\ l \in Nat /\ ~Passed(exp.rows[l].key, l)
      BY <2>1, <2>3, <2>4 DEF FileOK
    <3> QED
      BY <2>5, <2>9, <3>1 DEF Passed, Comes
  <2>10. ASSUME NEW f \in DOMAIN exp.rows, NEW k, k = exp.rows[f].key
         PROVE  Passed(k, f)'
    <3>1. /\ exp.rows[l].key \in Nat /\ l \in Nat
          /\ exp.rows[f].key \in Nat /\ f \in Nat
          /\ f = l \/ Comes(exp.rows[f].key, f, exp.rows[l].key, l)
      BY <2>3, <2>4
    <3>2. Comes(exp.rows[f].key, f, exp.rows[l].key, l + 1)
      BY <3>1 DEF Comes
    <3> QED
      BY <2>5, <2>10, <3>2 DEF Passed
  <2>11. ASSUME NEW i \in DOMAIN file'
         PROVE  \/ /\ i \in DOMAIN file /\ file'[i] = file[i]
                \/ /\ i - n \in 1 .. m /\ file'[i].id = Entries[i - n]
                   /\ file'[i].row = exp.rows[Entries[i - n]]
    <3>1. i \in 1 .. n + m /\ n \in Nat /\ m \in Nat
      BY <2>4, <2>8
    <3>2. CASE i <= n
      BY <2>8, <3>1, <3>2
    <3>3. CASE ~(i <= n)
      <4>1. i - n \in 1 .. m /\ file'[i] = WrittenBlock[i - n]
        BY <2>8, <3>1, <3>3
      <4> QED
        BY <2>7, <4>1
    <3> QED
      BY <3>2, <3>3
  <2>12. ASSUME NEW i \in DOMAIN file', NEW w, w = file'[i] PROVE WrittenOK(w)'
    <3>1. CASE i \in DOMAIN file /\ w = file[i]
      <4>1. WrittenOK(w)
        BY <2>1, <3>1 DEF FileOK
      <4>2. w.id \in Nat /\ w.row.key \in Nat
        BY <1>3, <4>1, IdsInOrder DEF WrittenOK, TableOK
      <4>3. Passed(w.row.key, w.id)'
        BY <2>9, <3>1, <4>1, <4>2 DEF WrittenOK
      <4> QED
        BY <1>1, <3>1, <4>1, <4>3 DEF WrittenOK
    <3>2. CASE /\ i - n \in 1 .. m /\ w.id = Entries[i - n]
               /\ w.row = exp.rows[Entries[i - n]]
      <4> DEFINE f == Entries[i - n]
      <4>1. f \in DOMAIN exp.rows
        BY <2>4, <3>2
      <4> HIDE DEF f
      <4>2. w.id = f /\ w.row = exp.rows[f]
        BY <3>2 DEF f
      <4>3. /\ f \in used /\ exp.rows[f].key \in Nat
            /\ f \in DOMAIN entr => entr[f] = exp.rows[f]
        BY <2>3, <4>1
      <4>4. Passed(w.row.key, w.id)'
        BY <2>10, <4>1, <4>2
      <4> QED
        BY <1>1, <4>2, <4>3, <4>4 DEF WrittenOK
    <3> QED
      BY <2>11, <2>12, <3>1, <3>2
  <2>13. ASSUME NEW i \in DOMAIN file, NEW f \in DOMAIN exp.rows
         PROVE  file[i].id # f
    <3>1. WrittenOK(file[i])
      BY <2>1 DEF FileOK
    <3> QED
      BY <2>3, <3>1 DEF WrittenOK
  <2>14. ASSUME NEW i \in DOMAIN file', NEW j \in DOMAIN file', file'[i].id = file'[j].id
         PROVE  i = j
    <3>1. CASE /\ i \in DOMAIN file /\ file'[i] = file[i]
               /\ j \in DOMAIN file /\ file'[j] = file[j]
      BY <2>1, <2>14, <3>1 DEF FileOK
    <3>2. CASE /\ i - n \in 1 .. m /\ file'[i].id = Entries[i - n]
               /\ j \in DOMAIN file /\ file'[j] = file[j]
      BY <2>4, <2>13, <2>14, <3>2
    <3>3. CASE /\ i \in DOMAIN file /\ file'[i] = file[i]
               /\ j - n \in 1 .. m /\ file'[j].id = Entries[j - n]
      BY <2>4, <2>13, <2>14, <3>3
    <3>4. CASE /\ i - n \in 1 .. m /\ file'[i].id = Entries[i - n]
               /\ j - n \in 1 .. m /\ file'[j].id = Entries[j - n]
      <4>1. i - n = j - n
        BY <2>4, <2>14, <3>4
      <4>2. i \in Int /\ j \in Int /\ n \in Int
        BY <2>8, <2>4
      <4> QED
        BY <4>1, <4>2
    <3> QED
      BY <2>11, <3>1, <3>2, <3>3, <3>4
  <2>15. JobOK' /\ FileOK'
    <3>1. exp'.last.key \in Nat /\ exp'.last.id \in Nat
      BY <2>3, <2>4, <2>5
    <3>2. JobOK'
      BY <1>1, <1>2, <1>3 DEF JobOK
    <3> QED
      BY <2>8, <2>12, <2>14, <3>1, <3>2 DEF FileOK
  <2>16. ASSUME exp.opt.count = 0, NEW e \in Due' PROVE DueOK(e)'
    <3>1. e \in Due /\ e \in DOMAIN entr
      BY <1>1, <1>2 DEF Due, Selected, Published
    <3>2. DueOK(e) /\ AtBlock
      BY <1>1, <1>5, <2>16, <3>1 DEF EInv, AtBlock
    <3>3. ASSUME Stands(e) \/ e \in DOMAIN exp.rows PROVE DueOK(e)'
      <4>1. Stands(e)'
        BY <1>3, <2>1, <2>6, <3>2, <3>3, WriteStands DEF FileOK, DueOK
      <4> QED
        BY <1>2, <4>1 DEF DueOK, AtBlock, PartsRead
    <3>5. CASE \A f \in DOMAIN exp.rows : RowComes(f, entr[e].key, e)
      <4>1. Comes(exp.rows[l].key, l, entr[e].key, e)
        BY <2>2, <2>4, <3>5 DEF RowComes
      <4>2. /\ exp.rows[l].key \in Nat /\ l \in Nat
            /\ entr[e].key \in Nat /\ e \in Nat
        BY <1>3, <2>3, <2>4, <3>1, IdsInOrder DEF TableOK
      <4>3. ~Comes(entr[e].key, e, exp.rows[l].key, l + 1)
        BY <4>1, <4>2 DEF Comes
      <4>4. ~Passed(entr[e].key, e)'
        BY <1>1, <2>5, <4>3 DEF Passed
      <4> QED
        BY <1>2, <4>4 DEF DueOK, AtBlock, PartsRead
    <3> QED
      BY <2>2, <3>2, <3>3, <3>5 DEF DueOK
  <2> QED
    BY <1>2, <1>3, <1>5, <2>15, <2>16 DEF EInv, AtBlock
<1> QED
  BY <1>4, <1>5

\* Every step keeps the invariant.
LEMMA StepEInv == EInv /\ [Next]_vars => EInv'
<1> SUFFICES ASSUME EInv, [Next]_vars PROVE EInv'
  OBVIOUS
<1>1. ASSUME NEW n \in EntrIds \ used, NEW c \in PageCalls, NEW t \in EntrIds,
             NEW text, Change(c, n, text, t)
      PROVE  EInv'
  <2>1. UserStep
    BY <1>1, ChangeIsUserStep DEF EInv
  <2> QED
    BY <2>1, UserKeeps
<1>2. ASSUME NEW o \in Options, Begin(o) PROVE EInv'
  BY <1>2, BeginKeeps
<1>3. ASSUME ExportNext PROVE EInv'
  <2>1. CASE Finish \/ Fail \/ ReadEntr \/ ReadParts \/ ReadXrefs
    <3>1. JobOK
      BY <2>1 DEF EInv, Finish, Fail, ReadEntr, ReadParts, ReadXrefs
    <3>2. QuietStep /\ PartsStay
      BY <2>1, <3>1, FinishIsQuiet, FailIsQuiet, ReadEntrIsQuiet, ReadPartsIsQuiet,
         ReadXrefsIsQuiet
    <3> QED
      BY <3>2, QuietKeeps
  <2> QED
    BY <1>2, <1>3, <2>1, FindKeeps, WriteKeeps DEF ExportNext
<1>4. ASSUME UNCHANGED vars PROVE EInv'
  <2>1. UNCHANGED <<entr, used, doc, exp, file>>
    BY <1>4 DEF vars
  <2>2. TableOK' /\ (JobOK => JobOK')
    BY <2>1 DEF EInv, TableOK, JobOK
  <2>3. FileOK => FileOK'
    BY <2>1 DEF FileOK, WrittenOK, Passed
  <2>4. BlockRows' = BlockRows
    BY <2>1 DEF BlockRows, Found
  <2>5. BlockOK => BlockOK'
    BY <2>1, <2>4 DEF BlockOK, TmpOK, RowOK, RowComes, Passed
  <2>6. \A e : (e \in Due' => e \in Due) /\ (DueOK(e) => DueOK(e)')
    BY <2>1, <2>4 DEF Due, Selected, Published, DueOK, PartsRead, Stands, Passed, RowComes, AtBlock
  <2> QED
    BY <2>1, <2>2, <2>3, <2>5, <2>6 DEF EInv, AtBlock, Idle
<1> QED
  BY <1>1, <1>3, <1>4 DEF Next

-----------------------------------------------------------------------------
(* An export of a list of numbers.  What is due stands in the file, or is  *)
(* in the block, or waits for its number to come.  A block leaves none out,*)
(* since no two published entries have one number: so EditTree is needed.  *)

Proved == INSTANCE EditTree_proofs

\* What EditTree assumes of its constants.
LEMMA ConstantsOK ==
  /\ NoEntr \notin EntrIds
  /\ AllowForks \in BOOLEAN
  /\ Corpus \subseteq EntrIds /\ Proved!IsFiniteSet(Corpus)
BY NoEntrIsNoId, AllowForksIsBoolean, CorpusIsLoaded
  DEF IsFiniteSet, Proved!IsFiniteSet

\* A step of a user is one of EditTree.
LEMMA ChangeIsNext ==
  ASSUME NEW c \in PageCalls, NEW n \in EntrIds, NEW text, NEW t, Change(c, n, text, t)
  PROVE  Proved!Next
<1>1. c \in Proved!Calls /\ ~c.forks
  BY DEF PageCalls, Calls, Proved!Calls, Stats, Proved!Stats
<1>2. CASE Trees!Submit(c, n)
  <2>1. Proved!Submit(c, n)
    BY <1>2
      DEF Proved!Submit, Trees!Submit, Proved!SubmitOK, Trees!SubmitOK,
          Proved!Take, Trees!Take, Proved!MayEdit, Trees!MayEdit,
          Proved!HasEdits, Trees!HasEdits, Proved!StatFor, Trees!StatFor,
          Proved!Submitted, Trees!Submitted, Proved!InsertRow,
          Trees!InsertRow, Proved!SubmittedRow, Trees!SubmittedRow,
          Proved!RowFor, Trees!RowFor, Proved!KeyOf, Trees!KeyOf,
          Proved!History, Trees!History
  <2> QED
    BY <1>1, <2>1 DEF Proved!Next
<1>3. CASE Trees!Approve(c, n)
  <2>1. Proved!Approve(c, n)
    BY <1>3
      DEF Proved!Approve, Trees!Approve, Proved!ApproveOK, Trees!ApproveOK,
          Proved!Take, Trees!Take, Proved!MayEdit, Trees!MayEdit,
          Proved!HasEdits, Trees!HasEdits, Proved!StatFor, Trees!StatFor,
          Proved!Approved, Trees!Approved, Proved!InsertRow, Trees!InsertRow,
          Proved!ApprovedRow, Trees!ApprovedRow, Proved!RowFor, Trees!RowFor,
          Proved!KeyOf, Trees!KeyOf, Proved!History, Trees!History,
          Proved!WithoutTree, Trees!WithoutTree, Proved!DeleteRow,
          Trees!DeleteRow, Proved!Root, Trees!Root, Proved!Descendants,
          Trees!Descendants, Proved!Leaves, Trees!Leaves, Proved!IsOnlyLeaf,
          Trees!IsOnlyLeaf, Proved!Fits, Trees!Fits, Proved!KeyIsFree,
          Trees!KeyIsFree
  <2> QED
    BY <1>1, <2>1 DEF Proved!Next
<1>4. CASE Trees!Reject(c, n)
  <2>1. Proved!Reject(c, n)
    BY <1>4
      DEF Proved!Reject, Trees!Reject, Proved!RejectOK, Trees!RejectOK,
          Proved!Take, Trees!Take, Proved!MayEdit, Trees!MayEdit,
          Proved!HasEdits, Trees!HasEdits, Proved!Rejected, Trees!Rejected,
          Proved!InsertRow, Trees!InsertRow, Proved!RejectedRow,
          Trees!RejectedRow, Proved!RowFor, Trees!RowFor, Proved!KeyOf,
          Trees!KeyOf, Proved!History, Trees!History, Proved!DeleteRow,
          Trees!DeleteRow, Proved!Descendants, Trees!Descendants,
          Proved!Leaves, Trees!Leaves, Proved!First, Trees!First,
          Proved!RejectSet, Trees!RejectSet, Proved!Segment, Trees!Segment
  <2> QED
    BY <1>1, <2>1 DEF Proved!Next
<1> QED
  BY <1>2, <1>3, <1>4 DEF Change

\* The table is one of EditTree.
LEMMA InitTree == Init => Proved!IInv
<1>1. Init => Proved!Init
  BY DEF Init, Trees!Init, Proved!Init
<1> QED
  BY <1>1, ConstantsOK, Proved!InitIInv

LEMMA StepTree == Proved!IInv /\ [Next]_vars => Proved!IInv'
<1>1. [Next]_vars => [Proved!Next]_(Proved!vars)
  <2>1. ExportNext => UNCHANGED <<entr, used>>
    BY DEF ExportNext, Begin, Find, Finish, ReadEntr, ReadParts, ReadXrefs, Write, Fail
  <2>2. Next => Proved!Next \/ UNCHANGED <<entr, used>>
    BY <2>1, ChangeIsNext DEF Next
  <2>3. UNCHANGED vars => UNCHANGED <<entr, used>>
    BY DEF vars
  <2> QED
    BY <2>2, <2>3 DEF Proved!vars
<1> QED
  BY <1>1, ConstantsOK, Proved!StepIInv

\* An export that can write all of a list.
ListJob ==
  /\ exp.at # "idle" /\ exp.opt.seqs # <<>> /\ exp.opt.count = 0
  /\ Format[exp.opt.dtd].approved /\ Apart

\* The number of e is still to come.
Waits(e) == SeqNo[entr[e].key] \in ToSet(exp.seqs)

ListedOK(e) ==
  /\ exp.at = "find" \/ AtBlock =>
       Waits(e) \/ Stands(e) \/ (AtBlock /\ e \in DOMAIN BlockRows)
  /\ PartsRead(e)

ListOK ==
  /\ exp.seqs \in Seq(Nat) /\ exp.opt.seqs \in Seq(Nat)
  /\ ToSet(exp.seqs) \subseteq ToSet(exp.opt.seqs)
  /\ \E S : file \in Seq(S)
  /\ AtBlock => TmpOK
  /\ \A e \in Due : ListedOK(e)
  /\ exp.at = "done" /\ Listed => \A e \in Due : Stands(e)

\* The invariant with lists.
LInv == EInv /\ Proved!IInv /\ (ListJob => ListOK)

-----------------------------------------------------------------------------
(* A block of a list. *)

\* No two entries of a block have one number, so there are no more of them
\* than numbers.
LEMMA FewToCome ==
  ASSUME TableOK, JobOK, Proved!OneActive, ListJob, exp.seqs \in Seq(Nat)
  PROVE  Cardinality(ToCome) <= exp.opt.block
<1> DEFINE F == FirstOf(exp.opt.block, exp.seqs)
           m == Len(F)
           No(e) == SeqNo[entr[e].key]
<1>1. F \in Seq(Nat) /\ m = IF exp.opt.block < Len(exp.seqs) THEN exp.opt.block
                                                             ELSE Len(exp.seqs)
  BY FirstOfIs DEF JobOK
<1>2. m \in Nat /\ m <= exp.opt.block
  BY <1>1 DEF JobOK
<1>3. Numbers = ToSet(F)
  BY DEF Numbers
<1> HIDE DEF F, m
<1>4. DOMAIN F = 1 .. m
  BY <1>1, LenProperties DEF m
<1>5. ASSUME NEW e \in ToCome
      PROVE  e \in DOMAIN entr /\ Selected(e, exp.opt) /\ \E i \in 1 .. m : F[i] = No(e)
  <2>1. e \in Base(exp.opt) /\ No(e) \in Numbers
    BY <1>5 DEF ToCome, InBlock, ListJob
  <2>2. e \in DOMAIN entr /\ Selected(e, exp.opt)
    BY <2>1, BaseIs DEF ListJob
  <2> QED
    BY <1>3, <1>4, <2>1, <2>2 DEF ToSet
<1> DEFINE g == [e \in ToCome |-> CHOOSE i \in 1 .. m : F[i] = No(e)]
<1>6. \A e \in ToCome : g[e] \in 1 .. m /\ F[g[e]] = No(e)
  BY <1>5
<1>7. g \in [ToCome -> 1 .. m]
  BY <1>6
<1> HIDE DEF g
<1>8. ASSUME NEW a \in ToCome, NEW b \in ToCome, g[a] = g[b] PROVE a = b
  <2>1. No(a) = No(b)
    BY <1>6, <1>8
  <2>2. /\ a \in DOMAIN entr /\ Selected(a, exp.opt)
        /\ b \in DOMAIN entr /\ Selected(b, exp.opt)
    BY <1>5
  <2>3. entr[a].key = entr[b].key
    BY <2>1, <2>2 DEF Selected, ListJob, Apart
  <2>4. Published(a) /\ Published(b)
    BY <2>2 DEF Selected, ListJob
  <2> QED
    BY <2>2, <2>3, <2>4 DEF Published, Proved!OneActive
<1>9. g \in Injection(ToCome, 1 .. m)
  BY <1>7, <1>8 DEF Injection, IsInjective
<1>10. IsFiniteSet(1 .. m) /\ Cardinality(1 .. m) = m
  BY <1>2, FS_Interval
<1>11. Cardinality(ToCome) <= m /\ IsFiniteSet(ToCome)
  BY <1>9, <1>10, FS_Injection
<1>12. Cardinality(ToCome) \in Nat
  BY <1>11, FS_CardinalityType
<1> QED
  BY <1>2, <1>11, <1>12 DEF JobOK

\* A place behind the first n, counted from there.
LEMMA PlaceBehind ==
  ASSUME NEW n \in Nat, NEW k \in Nat, NEW i \in Nat, n + 1 <= i, i <= k
  PROVE  /\ i - n \in Int /\ 1 <= i - n /\ i - n <= k - n
         /\ i - n \in 1 .. k - (n + 1) + 1 /\ n + 1 + (i - n) - 1 = i
OBVIOUS

\* A place of what is behind the first n, counted from the beginning.
LEMMA PlaceOfRest ==
  ASSUME NEW n \in Nat, NEW k \in Nat, NEW i \in Nat, 1 <= i, i <= k - n
  PROVE  i \in 1 .. k - (n + 1) + 1 /\ n + 1 + i - 1 \in 1 .. k
OBVIOUS

\* A list is the numbers of the block and the rest.
LEMMA ListParts ==
  ASSUME NEW s \in Seq(Nat), NEW n \in Nat \ {0}
  PROVE  LET r == SubSeq(s, n + 1, Len(s)) IN
         /\ r \in Seq(Nat) /\ ToSet(r) \subseteq ToSet(s)
         /\ ToSet(s) \subseteq ToSet(FirstOf(n, s)) \cup ToSet(r)
         /\ s # <<>> => s[1] \in ToSet(s) /\ s[1] \in ToSet(FirstOf(n, s))
<1> DEFINE r == SubSeq(s, n + 1, Len(s))
           f == FirstOf(n, s)
           k == Len(s)
<1>1. k \in Nat /\ n \in Nat /\ n # 0 /\ DOMAIN s = 1 .. k
  BY LenProperties
<1>2. n + 1 \in Int /\ k \in Int /\ \A i \in n + 1 .. k : s[i] \in Nat
  BY <1>1, ElementOfSeq
<1>3. /\ r \in Seq(Nat)
      /\ Len(r) = IF n + 1 <= k THEN k - (n + 1) + 1 ELSE 0
      /\ \A i \in 1 .. k - (n + 1) + 1 : r[i] = s[n + 1 + i - 1]
  BY <1>2, SubSeqProperties
<1>4. /\ f \in Seq(Nat) /\ Len(f) = IF n < k THEN n ELSE k
      /\ \A i \in 1 .. Len(f) : f[i] = s[i]
  BY FirstOfIs
<1>5. s # <<>> => k # 0
  BY EmptySeq
<1>6. DOMAIN r = 1 .. Len(r) /\ DOMAIN f = 1 .. Len(f)
  BY <1>3, <1>4, LenProperties
<1> HIDE DEF r, f, k
<1>7. DOMAIN r = IF n + 1 <= k THEN 1 .. k - n ELSE 1 .. 0
  BY <1>1, <1>3, <1>6
<1>8. DOMAIN f = 1 .. IF n < k THEN n ELSE k
  BY <1>4, <1>6
<1>9. ASSUME NEW i \in DOMAIN r PROVE r[i] \in ToSet(s)
  <2>1. i \in Nat /\ 1 <= i /\ i <= k - n
    BY <1>1, <1>7
  <2>2. i \in 1 .. k - (n + 1) + 1 /\ n + 1 + i - 1 \in 1 .. k
    BY <1>1, <2>1, PlaceOfRest
  <2> QED
    BY <1>1, <1>3, <2>2 DEF ToSet
<1>10. ASSUME NEW i \in DOMAIN s PROVE s[i] \in ToSet(f) \cup ToSet(r)
  <2>1. CASE i <= n
    <3>1. i \in DOMAIN f
      BY <1>1, <1>8, <2>1
    <3> QED
      BY <1>4, <1>6, <3>1 DEF ToSet
  <2>2. CASE ~(i <= n)
    <3>1. i \in Nat /\ n + 1 <= i /\ i <= k
      BY <1>1, <2>2
    <3> DEFINE j == i - n
    <3>2. /\ j \in Int /\ 1 <= j /\ j <= k - n
          /\ j \in 1 .. k - (n + 1) + 1 /\ n + 1 + j - 1 = i
      BY <1>1, <3>1, PlaceBehind
    <3> HIDE DEF j
    <3>3. j \in DOMAIN r
      BY <1>1, <1>7, <3>2
    <3> QED
      BY <1>3, <3>2, <3>3 DEF ToSet
  <2> QED
    BY <2>1, <2>2
<1>11. ASSUME s # <<>> PROVE s[1] \in ToSet(s) /\ s[1] \in ToSet(f)
  <2>1. 1 \in DOMAIN s /\ 1 \in DOMAIN f
    BY <1>1, <1>5, <1>8, <1>11
  <2> QED
    BY <1>4, <1>6, <2>1 DEF ToSet
<1> QED
  BY <1>3, <1>9, <1>10, <1>11 DEF ToSet, r, f, k

-----------------------------------------------------------------------------
(* The steps keep the invariant. *)

LEMMA ListBegin ==
  ASSUME EInv, NEW o \in Options, Begin(o), ListJob'
  PROVE  ListOK'
<1>1. /\ exp' = [at |-> "find", opt |-> Job(o), left |-> o.count,
                 seqs |-> NumbersOf(o.seqfile),
                 last |-> [key |-> 0, id |-> 0], tmp |-> <<>>, rows |-> <<>>,
                 parts |-> <<>>, refs |-> <<>>, since |-> DOMAIN entr]
      /\ UNCHANGED <<entr, used, doc, file>> /\ file = <<>>
  BY DEF EInv, Begin
<1>2. exp'.at = "find" /\ exp'.seqs = NumbersOf(o.seqfile) /\ exp'.opt.seqs = exp'.seqs
  BY <1>1 DEF Job
<1>3. exp'.seqs \in Seq(Nat)
  BY <1>2, CountsAreCounts
<1>4. ASSUME NEW e \in Due' PROVE ListedOK(e)'
  <2>1. SeqNo[entr'[e].key] \in ToSet(exp'.opt.seqs)
    BY DEF Due, ListJob
  <2> QED
    BY <1>2, <2>1 DEF ListedOK, Waits, PartsRead
<1>5. <<>> \in Seq(Nat)
  BY EmptySeq
<1> QED
  BY <1>1, <1>2, <1>3, <1>4, <1>5 DEF ListOK, AtBlock

\* What is due stays what it is when users do nothing.
LEMMA DueSame ==
  ASSUME UNCHANGED <<entr, doc>>, exp'.opt = exp.opt, exp'.since = exp.since
  PROVE  Due' = Due /\ (Listed' <=> Listed)
<1>1. Due' = Due
  BY DEF Due, Selected, Published
<1> QED
  BY <1>1 DEF Listed

LEMMA ListQuiet ==
  ASSUME EInv, ListJob, ListOK, QuietStep, PartsStay
  PROVE  ListOK'
<1>1. Due' = Due /\ (Listed' <=> Listed)
  BY DueSame DEF QuietStep
<1>2. AtBlock' => TmpOK'
  BY DEF ListOK, QuietStep, TmpOK
<1>3. ASSUME NEW e \in Due PROVE ListedOK(e)'
  <2>1. ListedOK(e) /\ e \in DOMAIN entr
    BY DEF ListOK, Due
  <2>2. (Waits(e)' <=> Waits(e)) /\ (Stands(e)' <=> Stands(e))
    BY DEF QuietStep, Waits, Stands
  <2>3. PartsRead(e)'
    <3>1. CASE ~AtBlock'
      BY <3>1 DEF PartsRead, AtBlock
    <3>2. CASE AtBlock'
      <4>1. TmpOK
        BY <3>2 DEF ListOK, QuietStep
      <4> QED
        BY <2>1, <3>2, <4>1 DEF PartsStay, ListedOK
    <3> QED
      BY <3>1, <3>2
  <2> QED
    BY <2>1, <2>2, <2>3 DEF ListedOK, QuietStep
<1>4. ASSUME exp'.at = "done", NEW e \in Due PROVE Stands(e)'
  <2>1. exp.at = "find" /\ exp.seqs = <<>> /\ ~AtBlock
    BY <1>4 DEF QuietStep, ListJob, AtBlock
  <2>2. ~Waits(e)
    BY <2>1 DEF Waits, ToSet
  <2>3. Stands(e)
    BY <2>1, <2>2 DEF ListOK, ListedOK
  <2> QED
    BY <2>3 DEF QuietStep, Stands
<1> QED
  BY <1>1, <1>2, <1>3, <1>4 DEF ListOK, QuietStep

LEMMA ListFind ==
  ASSUME EInv, Proved!OneActive, ListJob, ListOK, Find
  PROVE  ListOK'
<1> DEFINE rest == SubSeq(exp.seqs, exp.opt.block + 1, Len(exp.seqs))
<1>1. TableOK /\ JobOK /\ exp.seqs \in Seq(Nat) /\ exp.opt.block \in Nat \ {0}
  BY DEF EInv, ListJob, ListOK, JobOK
<1>2. /\ UNCHANGED <<entr, used, doc, file>> /\ exp.at = "find"
      /\ exp'.opt = exp.opt /\ exp'.since = exp.since /\ exp'.seqs = rest
      /\ exp'.at = (IF Block = <<>> THEN "done" ELSE "entr")
      /\ Block # <<>> => TmpOK' /\ DOMAIN BlockRows' = Range(Block)
  BY <1>1, FindFills
<1>3. /\ rest \in Seq(Nat) /\ ToSet(rest) \subseteq ToSet(exp.seqs)
      /\ ToSet(exp.seqs) \subseteq Numbers \cup ToSet(rest)
      /\ exp.seqs # <<>> => exp.seqs[1] \in ToSet(exp.seqs) /\ exp.seqs[1] \in Numbers
  BY <1>1, ListParts DEF Numbers
<1> HIDE DEF rest
<1>4. Due' = Due /\ (Listed' <=> Listed)
  BY <1>2, DueSame
<1>5. ASSUME NEW e \in Due, SeqNo[entr[e].key] \in Numbers PROVE e \in ToCome
  <2>1. e \in Base(exp.opt)
    BY <1>1, BaseIs DEF Due, ListJob
  <2> QED
    BY <1>5, <2>1 DEF ToCome, InBlock, ListJob
<1>6. Cardinality(ToCome) <= exp.opt.block
  BY <1>1, FewToCome
<1>7. (Block = <<>> => ToCome = {}) /\ ToCome \subseteq Range(Block)
  BY <1>1, <1>6, BlockIs
<1>8. ASSUME NEW e \in Due PROVE ListedOK(e)'
  <2>1. Waits(e) \/ Stands(e)
    BY <1>2, <1>8 DEF ListOK, ListedOK, AtBlock
  <2>2. Stands(e)' <=> Stands(e)
    BY <1>2 DEF Stands
  <2>3. Waits(e) => Waits(e)' \/ e \in Range(Block)
    BY <1>2, <1>3, <1>5, <1>7 DEF Waits
  <2>4. PartsRead(e)'
    BY <1>2 DEF PartsRead
  <2> QED
    BY <1>2, <2>1, <2>2, <2>3, <2>4 DEF ListedOK, AtBlock
<1>9. Block = <<>> => ~Listed
  <2> SUFFICES ASSUME Block = <<>>, Listed PROVE FALSE
    OBVIOUS
  <2>1. exp.seqs # <<>>
    BY DEF Find, ListJob
  <2>2. exp.seqs[1] \in ToSet(exp.opt.seqs) /\ exp.seqs[1] \in Numbers
    BY <1>3, <2>1 DEF ListOK
  <2>3. PICK i \in DOMAIN exp.opt.seqs : exp.opt.seqs[i] = exp.seqs[1]
    BY <2>2 DEF ToSet
  <2>4. PICK e \in Due : SeqNo[entr[e].key] = exp.opt.seqs[i]
    BY DEF Listed
  <2> QED
    BY <1>5, <1>7, <2>2, <2>3, <2>4
<1> QED
  BY <1>2, <1>3, <1>4, <1>8, <1>9 DEF ListOK, AtBlock

LEMMA ListWrite ==
  ASSUME EInv, ListJob, ListOK, Write
  PROVE  ListOK'
<1>1. TableOK /\ JobOK /\ exp.at = "write"
  BY DEF EInv, ListJob, Write
<1>2. TmpOK /\ BlockRows = exp.rows
  BY <1>1 DEF ListOK, AtBlock, BlockRows
<1>3. /\ UNCHANGED <<entr, doc>> /\ exp'.at = "find"
      /\ exp'.opt = exp.opt /\ exp'.since = exp.since /\ exp'.seqs = exp.seqs
  <2>1. exp' = [exp EXCEPT !.at = "find", !.last = LastRead, !.left = @ - exp.opt.block,
                           !.tmp = <<>>, !.rows = <<>>, !.parts = <<>>, !.refs = <<>>]
    BY DEF Write
  <2> QED
    BY <1>1, <2>1 DEF Write, JobOK, Fields
<1>4. Due' = Due
  BY <1>3, DueSame
<1>5. ASSUME NEW e \in Due PROVE ListedOK(e)'
  <2>1. ListedOK(e)
    BY DEF ListOK
  <2>2. Stands(e) \/ (e \in DOMAIN exp.rows /\ PartsRead(e)) => Stands(e)'
    BY <1>1, <1>2, WriteStands DEF ListOK
  <2>3. Waits(e)' <=> Waits(e)
    BY <1>3 DEF Waits
  <2> QED
    BY <1>1, <1>2, <1>3, <2>1, <2>2, <2>3 DEF ListedOK, AtBlock, PartsRead
<1>6. \E S : file' \in Seq(S)
  BY <1>1, <1>2, FileGrows DEF ListOK
<1> QED
  BY <1>3, <1>4, <1>5, <1>6 DEF ListOK, AtBlock

LEMMA ListUser ==
  ASSUME EInv, ListJob, ListOK, UserStep
  PROVE  ListOK'
<1>1. TableOK /\ JobOK
  BY DEF EInv, ListJob
<1>2. exp' = exp /\ file' = file /\ (AtBlock' <=> AtBlock)
  BY <1>1, UserLeaves DEF AtBlock
<1>3. AtBlock' => TmpOK'
  BY <1>1, <1>2, UserTmpOK DEF ListOK
<1>4. ASSUME NEW e \in Due'
      PROVE  /\ e \in Due /\ entr'[e] = entr[e]
             /\ Stands(e) => Stands(e)'
             /\ AtBlock => (e \in DOMAIN BlockRows <=> e \in DOMAIN BlockRows')
             /\ PartsRead(e) => PartsRead(e)'
  BY <1>1, UserLeavesDue DEF ListOK
<1>5. ASSUME NEW e \in Due' PROVE ListedOK(e)'
  <2>1. ListedOK(e)
    BY <1>4 DEF ListOK
  <2>2. Waits(e)' <=> Waits(e)
    BY <1>2, <1>4 DEF Waits
  <2> QED
    BY <1>2, <1>4, <2>1, <2>2 DEF ListedOK
<1>6. Listed' => Listed
  BY <1>2, <1>4 DEF Listed
<1>7. ASSUME exp.at = "done", Listed', NEW e \in Due' PROVE Stands(e)'
  BY <1>4, <1>6, <1>7 DEF ListOK
<1> QED
  BY <1>2, <1>3, <1>5, <1>7 DEF ListOK

LEMMA InitLInv == Init => LInv
<1>1. Init => exp.at = "idle"
  BY DEF Init, Idle
<1> QED
  BY <1>1, InitEInv, InitTree DEF LInv, ListJob

\* The program goes on with the job that it has.
LEMMA SameJob ==
  ASSUME EInv, [Next]_vars, exp.at # "idle"
  PROVE  exp'.opt = exp.opt
<1>1. JobOK /\ TableOK
  BY DEF EInv
<1>2. ASSUME NEW n \in EntrIds \ used, NEW c \in PageCalls, NEW t \in EntrIds,
             NEW text, Change(c, n, text, t)
      PROVE  exp' = exp
  BY <1>2 DEF Change
<1>3. ASSUME NEW o \in Options, Begin(o) PROVE FALSE
  BY <1>3 DEF Begin
<1>4. CASE Finish \/ Fail \/ ReadEntr \/ ReadParts \/ ReadXrefs
  BY <1>1, <1>4, FinishIsQuiet, FailIsQuiet, ReadEntrIsQuiet, ReadPartsIsQuiet,
     ReadXrefsIsQuiet DEF QuietStep
<1>5. CASE Find
  BY <1>1, <1>5, FindFills
<1>6. CASE Write
  <2>1. exp' = [exp EXCEPT !.at = "find", !.last = LastRead, !.left = @ - exp.opt.block,
                           !.tmp = <<>>, !.rows = <<>>, !.parts = <<>>, !.refs = <<>>]
    BY <1>6 DEF Write
  <2> QED
    BY <1>1, <2>1 DEF JobOK, Fields
<1> QED
  BY <1>2, <1>3, <1>4, <1>5, <1>6 DEF Next, ExportNext, vars

LEMMA StepLInv == LInv /\ [Next]_vars => LInv'
<1> SUFFICES ASSUME LInv, [Next]_vars PROVE LInv'
  OBVIOUS
<1>1. EInv /\ EInv' /\ Proved!IInv /\ Proved!IInv' /\ (ListJob => ListOK)
  BY StepEInv, StepTree DEF LInv
<1>2. TableOK /\ (exp.at # "idle" => JobOK) /\ Proved!OneActive
  BY <1>1 DEF EInv, Proved!IInv
<1>3. ASSUME ListJob' PROVE ListOK'
  <2>1. ASSUME NEW o \in Options, Begin(o) PROVE ListOK'
    BY <1>1, <1>3, <2>1, ListBegin
  <2>2. CASE ListJob
    <3>1. ListOK
      BY <1>1, <2>2
    <3>2. ASSUME NEW n \in EntrIds \ used, NEW c \in PageCalls, NEW t \in EntrIds,
                 NEW text, Change(c, n, text, t)
          PROVE  ListOK'
      <4>1. UserStep
        BY <1>2, <3>2, ChangeIsUserStep
      <4> QED
        BY <1>1, <2>2, <3>1, <4>1, ListUser
    <3>3. CASE Finish \/ Fail \/ ReadEntr \/ ReadParts \/ ReadXrefs
      <4>1. QuietStep /\ PartsStay
        BY <1>2, <2>2, <3>3, FinishIsQuiet, FailIsQuiet, ReadEntrIsQuiet,
           ReadPartsIsQuiet, ReadXrefsIsQuiet DEF ListJob
      <4> QED
        BY <1>1, <2>2, <3>1, <4>1, ListQuiet
    <3>4. CASE UNCHANGED vars
      <4>1. UNCHANGED <<entr, used, doc, exp, file>>
        BY <3>4 DEF vars
      <4>2. Due' = Due /\ (Listed' <=> Listed)
        BY <4>1, DueSame
      <4>3. BlockRows' = BlockRows /\ (AtBlock' <=> AtBlock)
        BY <4>1 DEF BlockRows, Found, AtBlock
      <4>4. (TmpOK => TmpOK') /\ \A e : ListedOK(e) => ListedOK(e)'
        BY <4>1, <4>3 DEF TmpOK, ListedOK, Waits, Stands, PartsRead
      <4>5. \A e : Stands(e) => Stands(e)'
        BY <4>1 DEF Stands
      <4> QED
        BY <3>1, <4>1, <4>2, <4>3, <4>4, <4>5 DEF ListOK
    <3> QED
      BY <1>1, <1>2, <2>1, <2>2, <3>1, <3>2, <3>3, <3>4, ListFind, ListWrite
        DEF Next, ExportNext
  <2>3. CASE ~ListJob
    <3>1. exp.at = "idle"
      BY <1>1, <1>3, <2>3, SameJob DEF ListJob, Apart
    <3>2. ASSUME NEW n \in EntrIds \ used, NEW c \in PageCalls, NEW t \in EntrIds,
                 NEW text, Change(c, n, text, t)
          PROVE  exp' = exp
      BY <1>2, <3>2, ChangeIsUserStep DEF UserStep
    <3>3. ~Find /\ ~Finish /\ ~ReadEntr /\ ~ReadParts /\ ~ReadXrefs /\ ~Write /\ ~Fail
      BY <3>1 DEF Find, Finish, ReadEntr, ReadParts, ReadXrefs, Write, Fail
    <3>4. ASSUME UNCHANGED vars PROVE exp' = exp
      BY <3>4 DEF vars
    <3>5. ASSUME exp' # exp PROVE \E o \in Options : Begin(o)
      <4>1. ExportNext
        BY <3>2, <3>4, <3>5 DEF Next
      <4> QED
        BY <3>3, <4>1 DEF ExportNext
    <3> QED
      BY <1>3, <2>1, <3>1, <3>5 DEF ListJob, Apart
  <2> QED
    BY <2>2, <2>3
<1> QED
  BY <1>1, <1>3 DEF LInv

\* An export, however its blocks fall and whatever users do between the
\* statements of entrs2xml.py, leaves no entry out that is there from the
\* beginning to the end, of a corpus or of a list of numbers, and writes each as
\* it is; and it writes no entry of a corpus twice.
THEOREM ExportIsComplete == Spec => []Complete
<1>1. LInv => Complete
  <2> SUFFICES ASSUME LInv PROVE Complete
    OBVIOUS
  <2>1. EInv /\ (ListJob => ListOK)
    BY DEF LInv
  <2>2. exp.at # "idle" /\ exp.opt.seqs = <<>> => WrittenOnce
    BY <2>1 DEF EInv, FileOK, WrittenOnce
  <2>3. ASSUME exp.at = "done", exp.opt.count = 0, exp.opt.seqs # <<>> => Listable,
               NEW e \in Due
        PROVE  Stands(e)
    <3>1. CASE exp.opt.seqs = <<>>
      BY <2>1, <2>3, <3>1 DEF EInv, DueOK
    <3>2. CASE exp.opt.seqs # <<>>
      BY <2>1, <2>3, <3>2 DEF ListJob, ListOK, Listable
    <3> QED
      BY <3>1, <3>2
  <2> QED
    BY <2>2, <2>3 DEF Complete
<1> QED
  BY <1>1, InitLInv, StepLInv, PTL DEF Spec

-----------------------------------------------------------------------------
(* The order of strings. *)

\* The first place where two texts differ decides.
LEMMA TextLessOrders ==
  ASSUME NEW s \in Seq(DOMAIN Code), NEW t \in Seq(DOMAIN Code), NEW u \in Seq(DOMAIN Code)
  PROVE  /\ ~TextLess(s, s)
         /\ TextLess(s, t) /\ TextLess(t, u) => TextLess(s, u)
         /\ s = t \/ TextLess(s, t) \/ TextLess(t, s)
<1>1. /\ Len(s) \in Nat /\ Len(t) \in Nat /\ Len(u) \in Nat
      /\ \A i \in 1 .. Len(s) : s[i] \in DOMAIN Code /\ Code[s[i]] \in Int
      /\ \A i \in 1 .. Len(t) : t[i] \in DOMAIN Code /\ Code[t[i]] \in Int
      /\ \A i \in 1 .. Len(u) : u[i] \in DOMAIN Code /\ Code[u[i]] \in Int
  BY CodesAreApart
<1>2. ~TextLess(s, s)
  BY <1>1 DEF TextLess
<1>3. ASSUME TextLess(s, t), TextLess(t, u) PROVE TextLess(s, u)
  <2>1. PICK i \in 1 .. Len(t) : /\ i <= Len(s) + 1 /\ \A j \in 1 .. i - 1 : s[j] = t[j]
                                 /\ i <= Len(s) => Code[s[i]] < Code[t[i]]
    BY <1>3 DEF TextLess
  <2>2. PICK k \in 1 .. Len(u) : /\ k <= Len(t) + 1 /\ \A j \in 1 .. k - 1 : t[j] = u[j]
                                 /\ k <= Len(t) => Code[t[k]] < Code[u[k]]
    BY <1>3 DEF TextLess
  <2>3. CASE i <= k
    <3>1. i \in 1 .. Len(u) /\ \A j \in 1 .. i - 1 : s[j] = u[j]
      BY <1>1, <2>1, <2>2, <2>3
    <3>2. i <= Len(s) => Code[s[i]] < Code[u[i]]
      <4>1. CASE i = k
        BY <1>1, <2>1, <2>2, <4>1
      <4>2. CASE i < k
        BY <1>1, <2>1, <2>2, <4>2
      <4> QED
        BY <1>1, <2>3, <4>1, <4>2
    <3> QED
      BY <2>1, <3>1, <3>2 DEF TextLess
  <2>4. CASE k < i
    <3>1. k <= Len(s) + 1 /\ \A j \in 1 .. k - 1 : s[j] = u[j]
      BY <1>1, <2>1, <2>2, <2>4
    <3>2. k <= Len(s) => Code[s[k]] < Code[u[k]]
      BY <1>1, <2>1, <2>2, <2>4
    <3> QED
      BY <2>2, <3>1, <3>2 DEF TextLess
  <2> QED
    BY <1>1, <2>3, <2>4
<1>4. ASSUME ~TextLess(s, t), ~TextLess(t, s) PROVE s = t
  <2> DEFINE a == Len(s)
             b == Len(t)
             Diff == {i \in Nat : i \in 1 .. a /\ i \in 1 .. b /\ s[i] # t[i]}
  <2>1. Diff = {}
    <3> SUFFICES ASSUME Diff # {} PROVE FALSE
      OBVIOUS
    <3>1. Diff \in SUBSET Nat
      OBVIOUS
    <3>2. PICK i \in Diff : \A j \in Diff : i <= j
      <4> HIDE DEF Diff
      <4> QED BY <3>1, LeastNumber
    <3>3. i \in 1 .. a /\ i \in 1 .. b /\ s[i] # t[i]
      BY <3>2
    <3>4. a \in Nat /\ b \in Nat
      BY <1>1
    <3>5. ASSUME NEW j \in 1 .. i - 1 PROVE s[j] = t[j]
      <4> HIDE DEF a, b
      <4>1. j \in Nat /\ j \in 1 .. a /\ j \in 1 .. b /\ ~(i <= j)
        BY <3>3, <3>4
      <4> QED
        BY <3>2, <4>1
    <3>6. /\ Code[s[i]] \in Int /\ Code[t[i]] \in Int /\ Code[s[i]] # Code[t[i]]
      BY <1>1, <3>3, CodesAreApart
    <3>7. Code[s[i]] < Code[t[i]] \/ Code[t[i]] < Code[s[i]]
      BY <3>6
    <3>8. i <= a + 1 /\ i <= b + 1
      BY <3>3, <3>4
    <3> QED
      BY <1>4, <3>3, <3>5, <3>7, <3>8 DEF TextLess
  <2>2. ASSUME NEW i \in 1 .. Len(s), i <= Len(t) PROVE s[i] = t[i]
    <3>1. i \in Nat /\ i \in 1 .. a /\ i \in 1 .. b
      BY <1>1, <2>2
    <3> QED
      BY <2>1, <3>1
  <2>3. ~(Len(s) < Len(t))
    <3> SUFFICES ASSUME Len(s) < Len(t) PROVE FALSE
      OBVIOUS
    <3>1. /\ Len(s) + 1 \in 1 .. Len(t) /\ ~(Len(s) + 1 <= Len(s))
          /\ \A j \in 1 .. Len(s) + 1 - 1 : s[j] = t[j]
      BY <1>1, <2>2
    <3> QED
      BY <1>4, <3>1 DEF TextLess
  <2>4. ~(Len(t) < Len(s))
    <3> SUFFICES ASSUME Len(t) < Len(s) PROVE FALSE
      OBVIOUS
    <3>1. /\ Len(t) + 1 \in 1 .. Len(s) /\ ~(Len(t) + 1 <= Len(t))
          /\ \A j \in 1 .. Len(t) + 1 - 1 : t[j] = s[j]
      BY <1>1, <2>2
    <3> QED
      BY <1>4, <3>1 DEF TextLess
  <2>5. Len(s) = Len(t)
    BY <1>1, <2>3, <2>4
  <2> QED
    BY <1>1, <2>2, <2>5, SeqEqual
<1> QED
  BY <1>2, <1>3, <1>4

-----------------------------------------------------------------------------
(* Numbers that are given out, and lists. *)

\* The greatest number of a set.
LEMMA MaxIs ==
  ASSUME NEW S \in SUBSET Nat, IsFiniteSet(S), S # {}
  PROVE  Max(S) \in S /\ \A x \in S : x <= Max(S)
<1> DEFINE less == {p \in S \X S : p[1] < p[2]}
<1>1. IsOrder(S, less)
  BY DEF IsOrder
<1>2. PICK list : IsListOf(list, S, less)
  <2> HIDE DEF less
  <2> QED BY <1>1, InOrderIsList
<1>3. Len(list) \in Nat /\ Len(list) # 0
  <2>1. PICK x : x \in S
    OBVIOUS
  <2>2. PICK i \in 1 .. Len(list) : list[i] = x
    BY <1>2, <2>1 DEF IsListOf
  <2> QED
    BY <1>2, <2>2 DEF IsListOf
<1>4. list[Len(list)] \in S
  BY <1>2, <1>3, ElementOfSeq DEF IsListOf
<1>5. \A x \in S : list[Len(list)] >= x
  <2> SUFFICES ASSUME NEW x \in S PROVE list[Len(list)] >= x
    OBVIOUS
  <2>1. PICK i \in 1 .. Len(list) : list[i] = x
    BY <1>2 DEF IsListOf
  <2>2. CASE i = Len(list)
    <3>1. x \in Nat /\ list[Len(list)] = x
      BY <2>1, <2>2
    <3> QED
      BY <3>1
  <2>3. CASE i # Len(list)
    <3>1. i < Len(list) /\ Len(list) \in 1 .. Len(list)
      BY <1>3, <2>1, <2>3
    <3>2. <<x, list[Len(list)]>> \in less
      BY <1>2, <2>1, <3>1 DEF IsListOf
    <3>3. x \in Nat /\ list[Len(list)] \in Nat /\ x < list[Len(list)]
      BY <1>4, <3>2
    <3> QED
      BY <3>3
  <2> QED
    BY <2>2, <2>3
<1>6. \E x \in S : \A y \in S : x >= y
  BY <1>4, <1>5
<1>7. Max(S) = CHOOSE x \in S : \A y \in S : x >= y
  BY DEF Max
<1>8. Max(S) \in S /\ \A y \in S : Max(S) >= y
  BY <1>6, <1>7, Zenon
<1> QED
  BY <1>8

IsList(l) == \E S : l \in Seq(S)

\* Parts of a list are lists.
LEMMA PickedIsList ==
  ASSUME NEW l, IsList(l), NEW places \in SUBSET DOMAIN l
  PROVE  /\ IsList(Picked(l, places))
         /\ \A i \in DOMAIN Picked(l, places) : \E j \in places : Picked(l, places)[i] = l[j]
<1> DEFINE less == {p \in places \X places : p[1] < p[2]}
           kept == InOrder(places, less)
<1>1. PICK S : l \in Seq(S)
  BY DEF IsList
<1>2. Len(l) \in Nat /\ DOMAIN l = 1 .. Len(l) /\ \A i \in 1 .. Len(l) : l[i] \in S
  BY <1>1, LenProperties, ElementOfSeq
<1>3. IsFiniteSet(places) /\ IsOrder(places, less)
  <2>1. IsFiniteSet(1 .. Len(l))
    BY <1>2, FS_Interval
  <2>2. IsFiniteSet(places)
    BY <1>2, <2>1, FS_Subset
  <2> QED
    BY <1>2, <2>2 DEF IsOrder
<1>4. kept \in Seq(places) /\ Len(kept) \in Nat
  <2> HIDE DEF less
  <2> QED BY <1>3, InOrderIs
<1> HIDE DEF less
<1>5. Picked(l, places) = [i \in DOMAIN kept |-> l[kept[i]]]
  BY DEF Picked, less
<1> HIDE DEF kept
<1>6. DOMAIN kept = 1 .. Len(kept) /\ \A i \in DOMAIN kept : kept[i] \in places
  BY <1>4, LenProperties, ElementOfSeq
<1>7. Picked(l, places) \in [1 .. Len(kept) -> S]
  BY <1>2, <1>5, <1>6
<1>8. Picked(l, places) \in Seq(S)
  BY <1>4, <1>7
<1> QED
  BY <1>5, <1>6, <1>8 DEF IsList

-----------------------------------------------------------------------------
(* The versions of an entry. *)

\* Numbers of records ascend, an edit comes after what it was made from, with
\* the same number, and what it says is made of texts and lists.
VersionOK(e) ==
  LET h == entr[e].hist IN
  /\ \A i, j \in 1 .. Len(h) : i < j => h[i] < h[j]
  /\ entr[e].dfrm # NoEntr => /\ entr[e].dfrm < e
                              /\ entr[entr[e].dfrm].key = entr[e].key
  /\ HasCodes(doc[e])
  /\ IsList(xref[e])

VInv == LInv /\ \A e \in DOMAIN entr : VersionOK(e)

\* A list of some is a list of more.
LEMMA ListOfMore ==
  ASSUME NEW S, NEW T, S \subseteq T, NEW l \in Seq(S)
  PROVE  l \in Seq(T)
<1>1. Len(l) \in Nat /\ l \in [1 .. Len(l) -> S]
  BY LenProperties
<1>2. l \in [1 .. Len(l) -> T]
  BY <1>1
<1> QED
  BY <1>1, <1>2

\* What the theorems about EditTree say of each row.
LEMMA TreeFacts ==
  ASSUME Proved!IInv
  PROVE  /\ DOMAIN entr \subseteq used /\ used \subseteq EntrIds /\ EntrIds \subseteq Nat
         /\ \A e \in DOMAIN entr :
              /\ e \in Nat /\ entr[e].key \in Keys /\ entr[e].key \in Nat
              /\ entr[e].hist \in Seq(Nat)
              /\ \A i \in 1 .. Len(entr[e].hist) : entr[e].hist[i] \in used
              /\ entr[e].stat \in {"A", "D", "R"} /\ entr[e].unap \in BOOLEAN
              /\ entr[e].dfrm # NoEntr => /\ entr[e].dfrm \in DOMAIN entr
                                          /\ entr[e].hist = Append(entr[entr[e].dfrm].hist, e)
<1>1. Proved!TypeOK /\ Proved!LinksOK /\ Proved!HistoryChain
  BY DEF Proved!IInv
<1>2. DOMAIN entr \subseteq used /\ used \subseteq EntrIds /\ EntrIds \subseteq Nat /\ Keys \subseteq Nat
  BY <1>1, IdsInOrder DEF Proved!TypeOK
<1> SUFFICES ASSUME NEW e \in DOMAIN entr
             PROVE  /\ e \in Nat /\ entr[e].key \in Keys /\ entr[e].key \in Nat
                    /\ entr[e].hist \in Seq(Nat)
                    /\ \A i \in 1 .. Len(entr[e].hist) : entr[e].hist[i] \in used
                    /\ entr[e].stat \in {"A", "D", "R"} /\ entr[e].unap \in BOOLEAN
                    /\ entr[e].dfrm # NoEntr =>
                         /\ entr[e].dfrm \in DOMAIN entr
                         /\ entr[e].hist = Append(entr[entr[e].dfrm].hist, e)
  BY <1>2
<1>3. entr[e] \in Proved!Rows
  BY <1>1 DEF Proved!TypeOK, Proved!IsTable
<1>4. /\ entr[e].key \in Keys /\ entr[e].hist \in Seq(EntrIds)
      /\ entr[e].stat \in {"A", "D", "R"} /\ entr[e].unap \in BOOLEAN
  BY <1>3 DEF Proved!Rows, Proved!Stats
<1>5. entr[e].hist \in Seq(Nat)
  BY <1>2, <1>4, ListOfMore
<1>6. \A i \in 1 .. Len(entr[e].hist) : entr[e].hist[i] \in used
  BY <1>1 DEF Proved!HistoryChain
<1>7. entr[e].dfrm # NoEntr => /\ entr[e].dfrm \in DOMAIN entr
                               /\ entr[e].hist = Append(entr[entr[e].dfrm].hist, e)
  BY <1>1 DEF Proved!HistoryChain, Proved!LinksOK
<1> QED
  BY <1>2, <1>4, <1>5, <1>6, <1>7

\* What a call writes has its parent's number, and its history and one record.
NewVersion(c, n) ==
  /\ n \in DOMAIN entr'
  /\ entr'[n].key = entr[c.dfrm].key
  /\ entr'[n].hist = Append(entr[c.dfrm].hist, n)
  /\ entr'[n].dfrm \in {c.dfrm, NoEntr}

\* The row that is inserted, whichever of the three it is.
LEMMA InsertVersion ==
  ASSUME NEW c \in PageCalls, NoEntr \notin DOMAIN entr, NEW T, NEW n, NEW row,
         {"key", "hist", "dfrm"} \subseteq DOMAIN row,
         row.key = Trees!KeyOf(entr, c), row.hist = Trees!History(entr, c.dfrm),
         row.dfrm \in {c.dfrm, NoEntr}, entr' = Trees!InsertRow(T, n, row)
  PROVE  NewVersion(c, n)
<1>1. c.dfrm \in DOMAIN entr /\ c.key = entr[c.dfrm].key
  BY DEF PageCalls
<1>2. Trees!KeyOf(entr, c) = entr[c.dfrm].key
  BY <1>1 DEF Trees!KeyOf
<1>3. Trees!History(entr, c.dfrm) = entr[c.dfrm].hist
  BY <1>1 DEF Trees!History
<1>4. entr' = [i \in DOMAIN T \cup {n} |->
                 IF i = n THEN [row EXCEPT !.hist = Append(@, n)] ELSE T[i]]
  BY DEF Trees!InsertRow
<1>5. n \in DOMAIN entr' /\ entr'[n] = [row EXCEPT !.hist = Append(@, n)]
  BY <1>4
<1>6. /\ entr'[n].key = row.key /\ entr'[n].dfrm = row.dfrm
      /\ entr'[n].hist = Append(row.hist, n)
  BY <1>5
<1> QED
  BY <1>2, <1>3, <1>5, <1>6 DEF NewVersion

\* So it is for a submission, an approval and a rejection.
LEMMA CallVersion ==
  ASSUME NEW c \in PageCalls, NoEntr \notin DOMAIN entr, NEW n,
         Trees!Submit(c, n) \/ Trees!Approve(c, n) \/ Trees!Reject(c, n)
  PROVE  NewVersion(c, n)
<1>1. CASE Trees!Submit(c, n)
  <2> DEFINE row == Trees!SubmittedRow(entr, c)
  <2>1. entr' = Trees!InsertRow(entr, n, row)
    BY <1>1 DEF Trees!Submit, Trees!Submitted
  <2>2. /\ {"key", "hist", "dfrm"} \subseteq DOMAIN row /\ row.key = Trees!KeyOf(entr, c)
        /\ row.hist = Trees!History(entr, c.dfrm) /\ row.dfrm \in {c.dfrm, NoEntr}
    BY DEF Trees!SubmittedRow, Trees!RowFor
  <2> HIDE DEF row
  <2> QED
    BY <2>1, <2>2, InsertVersion
<1>2. CASE Trees!Approve(c, n)
  <2> DEFINE row == Trees!ApprovedRow(entr, c)
  <2>1. entr' = Trees!InsertRow(Trees!WithoutTree(entr, c.dfrm), n, row)
    BY <1>2 DEF Trees!Approve, Trees!Approved
  <2>2. /\ {"key", "hist", "dfrm"} \subseteq DOMAIN row /\ row.key = Trees!KeyOf(entr, c)
        /\ row.hist = Trees!History(entr, c.dfrm) /\ row.dfrm \in {c.dfrm, NoEntr}
    BY DEF Trees!ApprovedRow, Trees!RowFor
  <2> HIDE DEF row
  <2> QED
    BY <2>1, <2>2, InsertVersion
<1>3. CASE Trees!Reject(c, n)
  <2> DEFINE first == Trees!First(entr, Trees!RejectSet(entr, c.dfrm))
  <2> DEFINE row == Trees!RejectedRow(entr, c)
  <2>1. entr' = Trees!InsertRow(Trees!DeleteRow(entr, first), n, row)
    BY <1>3 DEF Trees!Reject, Trees!Rejected
  <2>2. /\ {"key", "hist", "dfrm"} \subseteq DOMAIN row /\ row.key = Trees!KeyOf(entr, c)
        /\ row.hist = Trees!History(entr, c.dfrm) /\ row.dfrm \in {c.dfrm, NoEntr}
    BY DEF Trees!RejectedRow, Trees!RowFor
  <2> HIDE DEF row
  <2> QED
    BY <2>1, <2>2, InsertVersion
<1> QED
  BY <1>1, <1>2, <1>3

\* References of an entry are a list, whoever makes them.
LEMMA RefsToIsList ==
  ASSUME NEW link, IsList(link), NEW d, NEW t, NEW D
  PROVE  IsList(RefsTo(link, d, t, D))
<1> DEFINE places == {i \in DOMAIN link : /\ link[i].sens <= Len(d.sens)
                                          /\ link[i].xsens <= Len(D.sens)
                                          /\ link[i].kanj <= Len(D.kanj)
                                          /\ link[i].rdng <= Len(D.rdng)}
           fit == Picked(link, places)
           S == {Aimed(fit[i], t) : i \in DOMAIN fit}
<1>1. RefsTo(link, d, t, D) = [i \in DOMAIN fit |-> Aimed(fit[i], t)]
  BY Zenon DEF RefsTo
<1>2. PICK Q : fit \in Seq(Q)
  <2>1. places \in SUBSET DOMAIN link
    OBVIOUS
  <2> HIDE DEF places
  <2> QED BY <2>1, PickedIsList DEF IsList
<1>3. Len(fit) \in Nat /\ DOMAIN fit = 1 .. Len(fit)
  BY <1>2, LenProperties
<1> HIDE DEF fit
<1>4. [i \in DOMAIN fit |-> Aimed(fit[i], t)] \in [1 .. Len(fit) -> S]
  BY <1>3
<1>5. RefsTo(link, d, t, D) \in Seq(S)
  BY <1>1, <1>3, <1>4
<1> QED
  BY <1>5 DEF IsList

\* As given by the text.
LEMMA LinkIsList ==
  ASSUME NEW text \in Loaded \cup Texts
  PROVE  IsList(text.link)
BY LinksAreLists DEF IsList

\* Without those to rows that are gone.
LEMMA StayingIsList ==
  ASSUME NEW e, IsList(xref[e])
  PROVE  IsList(Staying(e))
<1> DEFINE places == {i \in DOMAIN xref[e] : xref[e][i].xentr \in DOMAIN entr'}
<1>1. places \in SUBSET DOMAIN xref[e]
  OBVIOUS
<1>2. Staying(e) = Picked(xref[e], places)
  BY DEF Staying
<1> HIDE DEF places
<1> QED
  BY <1>1, <1>2, PickedIsList

\* As they are entered.
LEMMA AsEnteredIsList ==
  ASSUME NEW l, IsList(l)
  PROVE  IsList(AsEntered(l))
<1> DEFINE S == {[l[i] EXCEPT !.nosens = FALSE] : i \in DOMAIN l}
<1>1. PICK Q : l \in Seq(Q)
  BY DEF IsList
<1>2. Len(l) \in Nat /\ DOMAIN l = 1 .. Len(l)
  BY <1>1, LenProperties
<1>3. AsEntered(l) \in [1 .. Len(l) -> S]
  BY <1>2 DEF AsEntered
<1>4. AsEntered(l) \in Seq(S)
  BY <1>2, <1>3
<1> QED
  BY <1>4 DEF IsList

\* With copies for a new edit.
LEMMA StandingIsList ==
  ASSUME NEW e, IsList(xref[e]), NEW n, NEW d, NEW p
  PROVE  IsList(Standing(e, n, d, p))
<1> DEFINE places == {i \in DOMAIN xref[e] : xref[e][i].xentr = p /\ Realigns(xref[e][i], d)}
           toP == Picked(xref[e], places)
           S == {Realigned(toP[i], n, d) : i \in DOMAIN toP}
           new == [i \in DOMAIN toP |-> Realigned(toP[i], n, d)]
<1>1. Standing(e, n, d, p) = Staying(e) \o AsEntered(new)
  BY Zenon DEF Standing
<1>2. PICK Q : toP \in Seq(Q)
  <2>1. places \in SUBSET DOMAIN xref[e]
    OBVIOUS
  <2> HIDE DEF places
  <2> QED BY <2>1, PickedIsList DEF IsList
<1>3. Len(toP) \in Nat /\ DOMAIN toP = 1 .. Len(toP)
  BY <1>2, LenProperties
<1> HIDE DEF toP
<1>4. new \in [1 .. Len(toP) -> S]
  BY <1>3
<1>5. new \in Seq(S)
  BY <1>3, <1>4
<1> HIDE DEF new, S
<1>6. IsList(AsEntered(new)) /\ IsList(Staying(e))
  BY <1>5, AsEnteredIsList, StayingIsList DEF IsList
<1>7. PICK R, T : Staying(e) \in Seq(R) /\ AsEntered(new) \in Seq(T)
  BY <1>6 DEF IsList
<1>8. Staying(e) \o AsEntered(new) \in Seq(R \cup T)
  <2>1. Staying(e) \in Seq(R \cup T) /\ AsEntered(new) \in Seq(R \cup T)
    BY <1>7, ListOfMore
  <2> QED
    BY <2>1
<1> QED
  BY <1>1, <1>8 DEF IsList

\* The rest of the entries after a submission.
LEMMA ChangeTexts ==
  ASSUME NEW c \in PageCalls, NEW n, NEW text \in Texts \cup {Same}, NEW t,
         Change(c, n, text, t), n \in DOMAIN entr', c.dfrm \in DOMAIN entr,
         \A e \in DOMAIN entr : HasCodes(doc[e]) /\ IsList(xref[e])
  PROVE  /\ HasCodes(doc'[n]) /\ IsList(xref'[n])
         /\ \A i \in DOMAIN entr' \ {n} : i \in DOMAIN entr => doc'[i] = doc[i] /\ IsList(xref'[i])
<1> DEFINE kept == c.stat = "D" \/ c.disp = "r"
           d == IF kept THEN doc[c.dfrm] ELSE text.doc
           refs(i) == IF i # n THEN Standing(i, n, d, c.dfrm)
                      ELSE IF kept THEN AsEntered(Staying(c.dfrm))
                      ELSE IF t = n THEN <<>> ELSE AsEntered(RefsTo(text.link, d, t, doc[t]))
<1>1. /\ kept <=> text = Same
      /\ doc' = [i \in DOMAIN entr' |-> IF i = n THEN d ELSE doc[i]]
      /\ xref' = [i \in DOMAIN entr' |-> refs(i)]
  BY Zenon DEF Change
<1>2. doc'[n] = d /\ \A i \in DOMAIN entr' \ {n} : doc'[i] = doc[i]
  BY <1>1
<1>3. ~kept => text \in Texts
  BY <1>1
<1>4. HasCodes(d)
  BY <1>3, TextsHaveCodes
<1>5. xref'[n] = refs(n)
  BY <1>1
<1>6. IsList(refs(n))
  <2>1. IsList(AsEntered(Staying(c.dfrm)))
    BY StayingIsList, AsEnteredIsList
  <2>2. ~kept => IsList(AsEntered(RefsTo(text.link, d, t, doc[t])))
    BY <1>3, LinkIsList, RefsToIsList, AsEnteredIsList
  <2>3. IsList(<<>>)
    BY DEF IsList
  <2> HIDE DEF kept, d
  <2> QED
    BY <2>1, <2>2, <2>3
<1>7. ASSUME NEW i \in DOMAIN entr' \ {n}, i \in DOMAIN entr
      PROVE  IsList(xref'[i])
  <2>1. IsList(Standing(i, n, d, c.dfrm))
    BY <1>7, StandingIsList
  <2>2. xref'[i] = refs(i)
    BY <1>1
  <2> HIDE DEF kept, d
  <2> QED
    BY <2>1, <2>2
<1> QED
  BY <1>2, <1>4, <1>5, <1>6, <1>7

\* A submission keeps the versions in order.
LEMMA ChangeVersions ==
  ASSUME LInv, LInv', \A e \in DOMAIN entr : VersionOK(e),
         NEW c \in PageCalls, NEW n \in EntrIds, NEW text \in Texts \cup {Same}, NEW t,
         Change(c, n, text, t)
  PROVE  \A e \in DOMAIN entr' : VersionOK(e)'
<1>1. TableOK /\ Proved!IInv /\ Proved!IInv'
  BY DEF LInv, EInv
<1>2. /\ DOMAIN entr \subseteq used /\ used \subseteq EntrIds /\ EntrIds \subseteq Nat
      /\ c.dfrm \in DOMAIN entr
  BY <1>1, TreeFacts DEF PageCalls
<1>3. Trees!Submit(c, n) \/ Trees!Approve(c, n) \/ Trees!Reject(c, n)
  BY DEF Change
<1>4. UserRows(n)
  BY <1>1, <1>3, CallRows
<1>5. NewVersion(c, n)
  BY <1>2, <1>3, CallVersion, NoEntrIsNoId
<1>6. \A u \in used : u \in Nat /\ u < n
  <2>1. IsFiniteSet(used) /\ used \in SUBSET Nat /\ used # {}
    BY <1>1, <1>2 DEF TableOK
  <2>2. Max(used) \in Nat /\ \A u \in used : u <= Max(used)
    BY <2>1, MaxIs
  <2>3. n = 1 + Max(used)
    BY DEF Change
  <2> HIDE DEF Max
  <2> QED
    BY <1>2, <2>2, <2>3
<1>7. \A e \in DOMAIN entr : HasCodes(doc[e]) /\ IsList(xref[e])
  BY DEF VersionOK
<1>8. /\ HasCodes(doc'[n]) /\ IsList(xref'[n])
      /\ \A i \in DOMAIN entr' \ {n} : i \in DOMAIN entr => doc'[i] = doc[i] /\ IsList(xref'[i])
  BY <1>2, <1>5, <1>7, ChangeTexts DEF NewVersion
<1>9. \A i \in DOMAIN entr' : i # n => i \in DOMAIN entr /\ entr'[i] = entr[i]
  BY <1>4 DEF UserRows
<1>10. n \notin used
  BY <1>4 DEF UserRows
<1>11. ASSUME NEW e \in DOMAIN entr', e # n PROVE VersionOK(e)'
  <2>1. e \in DOMAIN entr /\ entr'[e] = entr[e] /\ VersionOK(e)
    BY <1>9, <1>11
  <2>2. entr[e].dfrm # NoEntr => entr[e].dfrm \in DOMAIN entr /\ entr[e].dfrm \in DOMAIN entr'
    BY <1>1, <2>1, TreeFacts DEF Proved!IInv, Proved!LinksOK
  <2>3. entr[e].dfrm # NoEntr => entr'[entr[e].dfrm] = entr[entr[e].dfrm]
    BY <1>2, <1>9, <1>10, <2>2
  <2>4. HasCodes(doc'[e]) /\ IsList(xref'[e])
    BY <1>7, <1>8, <1>11, <2>1
  <2> QED
    BY <2>1, <2>3, <2>4 DEF VersionOK
<1>12. VersionOK(n)'
  <2> DEFINE h == entr[c.dfrm].hist
             k == Len(h)
  <2>1. entr'[n].hist = Append(h, n) /\ entr'[n].key = entr[c.dfrm].key
        /\ entr'[n].dfrm \in {c.dfrm, NoEntr} /\ n \in DOMAIN entr'
    BY <1>5 DEF NewVersion
  <2>2. /\ h \in Seq(Nat) /\ k \in Nat /\ n \in Nat
        /\ \A i \in 1 .. k : h[i] \in Nat /\ h[i] < n
        /\ \A i, j \in 1 .. k : i < j => h[i] < h[j]
    <3>1. h \in Seq(Nat) /\ \A i \in 1 .. k : h[i] \in used
      BY <1>1, <1>2, TreeFacts
    <3> QED
      BY <1>2, <1>6, <3>1, LenProperties DEF VersionOK
  <2>3. Len(Append(h, n)) = k + 1 /\ Append(h, n)[k + 1] = n
        /\ \A i \in 1 .. k : Append(h, n)[i] = h[i]
    BY <2>2, AppendProperties
  <2>4. ASSUME NEW i \in 1 .. Len(entr'[n].hist), NEW j \in 1 .. Len(entr'[n].hist), i < j
        PROVE  entr'[n].hist[i] < entr'[n].hist[j]
    <3> HIDE DEF h, k
    <3>1. i \in 1 .. k /\ (j \in 1 .. k \/ j = k + 1)
      BY <2>1, <2>2, <2>3, <2>4
    <3> QED
      BY <2>1, <2>2, <2>3, <2>4, <3>1
  <2>5. entr'[n].dfrm # NoEntr => /\ entr'[n].dfrm < n
                                  /\ entr'[entr'[n].dfrm].key = entr'[n].key
    <3> SUFFICES ASSUME entr'[n].dfrm # NoEntr
                 PROVE  entr'[n].dfrm < n /\ entr'[entr'[n].dfrm].key = entr'[n].key
      OBVIOUS
    <3>1. entr'[n].dfrm = c.dfrm /\ c.dfrm \in DOMAIN entr' /\ c.dfrm # n
      BY <1>1, <1>2, <1>10, <2>1 DEF Proved!IInv, Proved!LinksOK
    <3> QED
      BY <1>2, <1>6, <1>9, <2>1, <3>1
  <2> QED
    BY <1>8, <2>4, <2>5 DEF VersionOK
<1> QED
  BY <1>11, <1>12

\* So are those that are loaded.
LEMMA InitVInv == Init => VInv
<1> SUFFICES ASSUME Init PROVE VInv
  OBVIOUS
<1>1. LInv
  BY InitLInv
<1>2. PICK load \in Loaded :
        /\ doc = load.doc
        /\ xref = [i \in Corpus |->
                    IF i # load.from THEN <<>>
                    ELSE RefsTo(load.link, doc[i], load.to, doc[load.to])]
  BY DEF Init
<1>3. ASSUME NEW e \in DOMAIN entr PROVE VersionOK(e)
  <2>1. e \in Corpus /\ entr[e].hist = <<>> /\ entr[e].dfrm = NoEntr
    BY DEF Init, Trees!Init
  <2>2. HasCodes(doc[e])
    BY <1>2, <2>1, TextsHaveCodes
  <2>3. IsList(xref[e])
    <3>1. IsList(<<>>)
      BY DEF IsList
    <3>2. IsList(RefsTo(load.link, doc[e], load.to, doc[load.to]))
      BY LinkIsList, RefsToIsList
    <3> QED
      BY <1>2, <2>1, <3>1, <3>2
  <2>4. Len(<<>>) = 0
    OBVIOUS
  <2> QED
    BY <2>1, <2>2, <2>3, <2>4 DEF VersionOK
<1> QED
  BY <1>1, <1>3 DEF VInv

\* And so they remain.
LEMMA StepVInv == VInv /\ [Next]_vars => VInv'
<1> SUFFICES ASSUME VInv, [Next]_vars PROVE VInv'
  OBVIOUS
<1>1. LInv /\ LInv' /\ \A e \in DOMAIN entr : VersionOK(e)
  BY StepLInv DEF VInv
<1>2. CASE UNCHANGED <<entr, doc, xref>>
  BY <1>1, <1>2 DEF VInv, VersionOK
<1>3. ASSUME NEW n \in EntrIds \ used, NEW c \in PageCalls, NEW t \in EntrIds,
             NEW text \in Texts \cup {Same}, Change(c, n, text, t)
      PROVE  VInv'
  BY <1>1, <1>3, ChangeVersions DEF VInv
<1>4. CASE ExportNext
  BY <1>2, <1>4 DEF ExportNext, Begin, Find, Finish, ReadEntr, ReadParts, ReadXrefs, Write, Fail
<1> QED
  BY <1>2, <1>3, <1>4 DEF Next, vars

-----------------------------------------------------------------------------
(* Newer versions. *)

\* f is a version of e after e, with its number and its history.
IsLater(f, e) ==
  /\ f \in DOMAIN entr /\ entr[f].key = entr[e].key /\ Newer(f, e)
  /\ ToSet(entr[e].hist) \subseteq ToSet(entr[f].hist)

\* Of two entries one is newer.
LEMMA NewerOrders ==
  ASSUME VInv, NEW a \in DOMAIN entr, NEW b \in DOMAIN entr, NEW c \in DOMAIN entr
  PROVE  /\ ~Newer(a, a)
         /\ Newer(a, b) /\ Newer(b, c) => Newer(a, c)
         /\ a = b \/ Newer(a, b) \/ Newer(b, a)
<1>1. Proved!IInv
  BY DEF VInv, LInv
<1>2. ASSUME NEW e \in DOMAIN entr PROVE e \in Nat /\ Time(e) \in Nat
  <2>1. e \in Nat /\ entr[e].hist \in Seq(Nat)
    BY <1>1, TreeFacts
  <2>2. entr[e].hist # <<>> => entr[e].hist[Len(entr[e].hist)] \in Nat
    <3> DEFINE h == entr[e].hist
    <3>1. h \in Seq(Nat)
      BY <2>1
    <3> HIDE DEF h
    <3>2. h # <<>> => Len(h) \in 1 .. Len(h)
      BY <3>1, EmptySeq, LenProperties
    <3>3. h # <<>> => h[Len(h)] \in Nat
      BY <3>1, <3>2, ElementOfSeq
    <3> QED
      BY <3>3 DEF h
  <2> QED
    BY <2>1, <2>2 DEF Time, Last
<1>3. /\ a \in Nat /\ Time(a) \in Nat /\ b \in Nat /\ Time(b) \in Nat
      /\ c \in Nat /\ Time(c) \in Nat
  BY <1>2
<1> QED
  BY <1>3 DEF Newer

\* An edit is a later version than what it was made from.
LEMMA EditIsLater ==
  ASSUME VInv, NEW e \in DOMAIN entr, entr[e].dfrm # NoEntr
  PROVE  entr[e].dfrm \in DOMAIN entr /\ IsLater(e, entr[e].dfrm)
<1> DEFINE p == entr[e].dfrm
           g == entr[p].hist
           h == entr[e].hist
<1>1. Proved!IInv /\ VersionOK(e)
  BY DEF VInv, LInv
<1>2. /\ p \in DOMAIN entr /\ h = Append(g, e) /\ g \in Seq(Nat)
      /\ e \in Nat /\ p \in Nat
  BY <1>1, TreeFacts
<1>3. /\ \A i, j \in 1 .. Len(h) : i < j => h[i] < h[j]
      /\ p < e /\ entr[p].key = entr[e].key
  BY <1>1 DEF VersionOK
<1> HIDE DEF p, g, h
<1>4. /\ Len(g) \in Nat /\ DOMAIN g = 1 .. Len(g) /\ DOMAIN h = 1 .. Len(h)
      /\ Len(h) = Len(g) + 1 /\ h[Len(g) + 1] = e /\ h # <<>>
      /\ \A i \in 1 .. Len(g) : h[i] = g[i]
  <2>1. h \in Seq(Nat)
    BY <1>2
  <2> QED
    BY <1>2, <2>1, AppendProperties, LenProperties, EmptySeq
<1>5. ToSet(g) \subseteq ToSet(h)
  BY <1>4 DEF ToSet
<1>6. Time(e) = e
  BY <1>4 DEF Time, Last, h
<1>7. Time(p) = 0 \/ (Time(p) \in Nat /\ Time(p) < e)
  <2>1. CASE g = <<>>
    BY <2>1 DEF Time, g
  <2>2. CASE g # <<>>
    <3>1. Len(g) \in 1 .. Len(g) /\ Len(g) \in 1 .. Len(h) /\ Len(g) < Len(h) /\ Len(h) \in 1 .. Len(h)
      BY <1>2, <1>4, <2>2, EmptySeq
    <3>2. h[Len(g)] < h[Len(h)] /\ h[Len(g)] = g[Len(g)] /\ h[Len(h)] = e
      BY <1>3, <1>4, <3>1
    <3>3. g[Len(g)] \in Nat
      BY <1>2, <3>1, ElementOfSeq
    <3>4. Time(p) = g[Len(g)]
      BY <2>2 DEF Time, Last, g
    <3> QED
      BY <3>2, <3>3, <3>4
  <2> QED
    BY <2>1, <2>2
<1>8. Newer(e, p)
  BY <1>2, <1>3, <1>6, <1>7 DEF Newer
<1> QED
  BY <1>2, <1>3, <1>5, <1>8 DEF IsLater, p, g, h

\* So is an edit of an edit.
LEMMA DescendantIsLater ==
  ASSUME VInv, NEW e \in DOMAIN entr, NEW f \in Descendants(entr, e), f # e
  PROVE  IsLater(f, e)
<1> DEFINE edits == {c \in DOMAIN entr : entr[c].dfrm # NoEntr}
           later == {c \in edits : IsLater(c, e)}
<1>1. f \in edits /\ \A S \in SUBSET edits :
                       (\A c \in edits : entr[c].dfrm \in S \cup {e} => c \in S) => f \in S
  BY DEF Descendants
<1>2. ASSUME NEW c \in edits, entr[c].dfrm \in later \cup {e}
      PROVE  c \in later
  <2>1. entr[c].dfrm \in DOMAIN entr /\ IsLater(c, entr[c].dfrm)
    BY EditIsLater
  <2>2. CASE entr[c].dfrm = e
    BY <2>1, <2>2
  <2>3. CASE IsLater(entr[c].dfrm, e)
    <3>1. Newer(c, e)
      BY <2>1, <2>3, NewerOrders DEF IsLater
    <3> QED
      BY <2>1, <2>3, <3>1 DEF IsLater
  <2> QED
    BY <1>2, <2>2, <2>3
<1>3. later \in SUBSET edits
  OBVIOUS
<1> HIDE DEF later
<1>4. f \in later
  BY <1>1, <1>2, <1>3
<1> QED
  BY <1>4 DEF later

\* Of some entries there is a newest one.
LEMMA NewestIs ==
  ASSUME VInv, NEW S \in SUBSET DOMAIN entr, S # {}
  PROVE  Newest(S) \in S /\ \A f \in S \ {Newest(S)} : Newer(Newest(S), f)
<1> DEFINE newer == {p \in S \X S : Newer(p[1], p[2])}
<1>1. IsFiniteSet(S)
  <2>1. IsFiniteSet(used) /\ DOMAIN entr \subseteq used
    BY DEF VInv, LInv, EInv, TableOK
  <2> QED
    BY <2>1, FS_Subset
<1>2. IsOrder(S, newer)
  BY NewerOrders DEF IsOrder
<1>3. PICK list : IsListOf(list, S, newer)
  <2> HIDE DEF newer
  <2> QED BY <1>1, <1>2, InOrderIsList
<1>4. PICK x : x \in S
  OBVIOUS
<1>5. PICK i \in 1 .. Len(list) : list[i] = x
  BY <1>3, <1>4 DEF IsListOf
<1>6. 1 \in 1 .. Len(list) /\ list[1] \in S
  BY <1>3, <1>5, ElementOfSeq DEF IsListOf
<1>7. ASSUME NEW f \in S \ {list[1]} PROVE Newer(list[1], f)
  <2>1. PICK j \in 1 .. Len(list) : list[j] = f
    BY <1>3 DEF IsListOf
  <2>2. 1 < j
    <3>1. Len(list) \in Nat
      BY <1>3 DEF IsListOf
    <3>2. j # 1
      BY <1>7, <2>1
    <3> QED
      BY <2>1, <3>1, <3>2
  <2>3. <<list[1], f>> \in newer
    BY <1>3, <1>6, <2>1, <2>2 DEF IsListOf
  <2> QED
    BY <2>3
<1>8. \E e \in S : \A f \in S \ {e} : Newer(e, f)
  BY <1>6, <1>7
<1>9. Newest(S) = CHOOSE e \in S : \A f \in S \ {e} : Newer(e, f)
  BY DEF Newest
<1> QED
  BY <1>8, <1>9, Zenon

-----------------------------------------------------------------------------
(* The order of a page. *)

\* The texts that an entry goes by can be put in order, and are those of its number.
LEMMA SeqKrIs ==
  ASSUME VInv, NEW S \in SUBSET DOMAIN entr, NEW e \in S
  PROVE  /\ SeqKr(S, e) = <<SeqKr(S, e)[1], SeqKr(S, e)[2]>>
         /\ SeqKr(S, e)[1] \in Seq(DOMAIN Code) /\ SeqKr(S, e)[2] \in Seq(DOMAIN Code)
         /\ \A f \in S : entr[f].key = entr[e].key => SeqKr(S, f) = SeqKr(S, e)
<1> DEFINE same == {f \in S : entr[f].key = entr[e].key}
           n == Newest(same)
<1>1. same \in SUBSET DOMAIN entr /\ same # {}
  OBVIOUS
<1>2. n \in DOMAIN entr
  <2> HIDE DEF same
  <2> QED BY <1>1, NewestIs
<1>3. HasCodes(doc[n])
  BY <1>2 DEF VInv, VersionOK
<1>4. SeqKr(S, e) = <<FirstTxt(doc[n].kanj), FirstTxt(doc[n].rdng)>>
  BY DEF SeqKr
<1>5. ASSUME NEW f \in S, entr[f].key = entr[e].key PROVE SeqKr(S, f) = SeqKr(S, e)
  BY <1>5 DEF SeqKr
<1> HIDE DEF n
<1> QED
  BY <1>3, <1>4, <1>5 DEF HasCodes

\* The columns that a page is ordered by, one after the other, order it.
LEMMA GoesBeforeOrders ==
  ASSUME VInv, NEW S \in SUBSET DOMAIN entr, NEW a \in S, NEW b \in S, NEW c \in S
  PROVE  /\ ~GoesBefore(S, a, a)
         /\ GoesBefore(S, a, b) /\ GoesBefore(S, b, c) => GoesBefore(S, a, c)
         /\ a = b \/ GoesBefore(S, a, b) \/ GoesBefore(S, b, a)
         /\ GoesBefore(S, a, b) /\ GoesBefore(S, b, c) /\ entr[a].key = entr[c].key
              => entr[b].key = entr[a].key
         /\ GoesBefore(S, a, b) /\ entr[a].key = entr[b].key => Newer(a, b)
<1> DEFINE p == SeqKr(S, a)
           q == SeqKr(S, b)
           r == SeqKr(S, c)
<1>1. /\ p = <<p[1], p[2]>> /\ q = <<q[1], q[2]>> /\ r = <<r[1], r[2]>>
      /\ {p[1], p[2], q[1], q[2], r[1], r[2]} \subseteq Seq(DOMAIN Code)
      /\ entr[a].key = entr[b].key => p = q
      /\ entr[a].key = entr[c].key => p = r
  BY SeqKrIs
<1>2. /\ entr[a].key \in Nat /\ entr[b].key \in Nat /\ entr[c].key \in Nat
      /\ a \in DOMAIN entr /\ b \in DOMAIN entr /\ c \in DOMAIN entr
  BY TreeFacts DEF VInv, LInv
<1>3. /\ GoesBefore(S, a, b) <=> \/ TextLess(p[1], q[1])
                                 \/ p[1] = q[1] /\ TextLess(p[2], q[2])
                                 \/ p = q /\ entr[a].key < entr[b].key
                                 \/ p = q /\ entr[a].key = entr[b].key /\ Newer(a, b)
      /\ GoesBefore(S, b, a) <=> \/ TextLess(q[1], p[1])
                                 \/ q[1] = p[1] /\ TextLess(q[2], p[2])
                                 \/ q = p /\ entr[b].key < entr[a].key
                                 \/ q = p /\ entr[b].key = entr[a].key /\ Newer(b, a)
      /\ GoesBefore(S, b, c) <=> \/ TextLess(q[1], r[1])
                                 \/ q[1] = r[1] /\ TextLess(q[2], r[2])
                                 \/ q = r /\ entr[b].key < entr[c].key
                                 \/ q = r /\ entr[b].key = entr[c].key /\ Newer(b, c)
      /\ GoesBefore(S, a, c) <=> \/ TextLess(p[1], r[1])
                                 \/ p[1] = r[1] /\ TextLess(p[2], r[2])
                                 \/ p = r /\ entr[a].key < entr[c].key
                                 \/ p = r /\ entr[a].key = entr[c].key /\ Newer(a, c)
      /\ GoesBefore(S, a, a) <=> \/ TextLess(p[1], p[1])
                                 \/ p[1] = p[1] /\ TextLess(p[2], p[2])
                                 \/ p = p /\ entr[a].key < entr[a].key
                                 \/ p = p /\ entr[a].key = entr[a].key /\ Newer(a, a)
  BY DEF GoesBefore
<1>4. /\ ~Newer(a, a) /\ (Newer(a, b) /\ Newer(b, c) => Newer(a, c))
      /\ a = b \/ Newer(a, b) \/ Newer(b, a)
  BY <1>2, NewerOrders
<1> HIDE DEF p, q, r
<1>5. \A i \in {1, 2} :
        /\ ~TextLess(p[i], p[i]) /\ ~TextLess(q[i], q[i])
        /\ TextLess(p[i], q[i]) /\ TextLess(q[i], r[i]) => TextLess(p[i], r[i])
        /\ TextLess(p[i], q[i]) /\ TextLess(q[i], p[i]) => TextLess(p[i], p[i])
        /\ p[i] = q[i] \/ TextLess(p[i], q[i]) \/ TextLess(q[i], p[i])
  BY <1>1, TextLessOrders
<1>6. /\ ~TextLess(p[1], p[1]) /\ ~TextLess(p[2], p[2])
      /\ ~TextLess(q[1], q[1]) /\ ~TextLess(q[2], q[2])
      /\ TextLess(p[1], q[1]) /\ TextLess(q[1], r[1]) => TextLess(p[1], r[1])
      /\ TextLess(p[2], q[2]) /\ TextLess(q[2], r[2]) => TextLess(p[2], r[2])
      /\ ~(TextLess(p[1], q[1]) /\ TextLess(q[1], p[1]))
      /\ ~(TextLess(p[2], q[2]) /\ TextLess(q[2], p[2]))
      /\ p[1] = q[1] \/ TextLess(p[1], q[1]) \/ TextLess(q[1], p[1])
      /\ p[2] = q[2] \/ TextLess(p[2], q[2]) \/ TextLess(q[2], p[2])
  BY <1>5
<1>7. /\ p = q <=> p[1] = q[1] /\ p[2] = q[2]
      /\ q = r <=> q[1] = r[1] /\ q[2] = r[2]
      /\ p = r <=> p[1] = r[1] /\ p[2] = r[2]
  BY <1>1
<1>8. ~GoesBefore(S, a, a)
  BY <1>2, <1>3, <1>4, <1>6
<1>9. GoesBefore(S, a, b) /\ GoesBefore(S, b, c) => GoesBefore(S, a, c)
  BY <1>2, <1>3, <1>4, <1>6, <1>7
<1>10. a = b \/ GoesBefore(S, a, b) \/ GoesBefore(S, b, a)
  BY <1>2, <1>3, <1>4, <1>6, <1>7
<1>11. ASSUME GoesBefore(S, a, b), GoesBefore(S, b, c), entr[a].key = entr[c].key
       PROVE  entr[b].key = entr[a].key
  BY <1>1, <1>2, <1>3, <1>6, <1>7, <1>11
<1>12. GoesBefore(S, a, b) /\ entr[a].key = entr[b].key => Newer(a, b)
  BY <1>1, <1>2, <1>3, <1>6
<1> QED
  BY <1>8, <1>9, <1>10, <1>11, <1>12

\* Versions of a number stay together, the later ones first.
LEMMA PageOrderIs ==
  ASSUME VInv, NEW S \in SUBSET DOMAIN entr,
         NEW i \in DOMAIN PageOrder(S), NEW j \in DOMAIN PageOrder(S), i < j,
         entr[PageOrder(S)[i]].key = entr[PageOrder(S)[j]].key
  PROVE  /\ \A k \in i .. j : entr[PageOrder(S)[k]].key = entr[PageOrder(S)[i]].key
         /\ PageOrder(S)[j] \notin Descendants(entr, PageOrder(S)[i])
<1> DEFINE page == PageOrder(S)
           order == {p \in S \X S : GoesBefore(S, p[1], p[2])}
<1>1. IsFiniteSet(S)
  <2>1. IsFiniteSet(used) /\ DOMAIN entr \subseteq used
    BY DEF VInv, LInv, EInv, TableOK
  <2> QED
    BY <2>1, FS_Subset
<1>2. IsOrder(S, order)
  <2>1. ASSUME NEW a \in S, NEW b \in S, NEW c \in S
        PROVE  /\ <<a, a>> \notin order
               /\ <<a, b>> \in order /\ <<b, c>> \in order => <<a, c>> \in order
               /\ a = b \/ <<a, b>> \in order \/ <<b, a>> \in order
    BY GoesBeforeOrders
  <2> HIDE DEF order
  <2> QED
    BY <2>1 DEF IsOrder
<1>3. IsListOf(page, S, order)
  <2> HIDE DEF order
  <2>1. IsListOf(InOrder(S, order), S, order)
    BY <1>1, <1>2, InOrderIsList
  <2> QED
    BY <2>1 DEF PageOrder, order
<1> HIDE DEF page
<1>4. page \in Seq(S) /\ Len(page) \in Nat /\ DOMAIN page = 1 .. Len(page)
      /\ \A k \in 1 .. Len(page) : page[k] \in S
  BY <1>3, LenProperties, ElementOfSeq DEF IsListOf
<1>5. i \in 1 .. Len(page) /\ j \in 1 .. Len(page) /\ page[i] \in S /\ page[j] \in S
      /\ entr[page[i]].key = entr[page[j]].key
  BY <1>4 DEF page
<1>6. ASSUME NEW k \in 1 .. Len(page), NEW l \in 1 .. Len(page), k < l
      PROVE  GoesBefore(S, page[k], page[l])
  BY <1>3, <1>4, <1>6 DEF IsListOf
<1>7. ASSUME NEW k \in i .. j PROVE entr[page[k]].key = entr[page[i]].key
  <2>1. CASE k = i \/ k = j
    BY <1>5, <2>1
  <2>2. CASE k # i /\ k # j
    <3>1. k \in 1 .. Len(page) /\ i < k /\ k < j /\ page[k] \in S
      BY <1>4, <1>5, <2>2
    <3>2. GoesBefore(S, page[i], page[k]) /\ GoesBefore(S, page[k], page[j])
      BY <1>5, <1>6, <3>1
    <3> QED
      BY <1>5, <3>1, <3>2, GoesBeforeOrders
  <2> QED
    BY <2>1, <2>2
<1>8. ASSUME page[j] \in Descendants(entr, page[i]) PROVE FALSE
  <2>1. page[i] # page[j] /\ GoesBefore(S, page[i], page[j])
    BY <1>3, <1>5, <1>6 DEF IsListOf
  <2>2. Newer(page[i], page[j])
    BY <1>5, <2>1, GoesBeforeOrders
  <2>3. Newer(page[j], page[i])
    BY <1>5, <1>8, <2>1, DescendantIsLater DEF IsLater
  <2> QED
    BY <1>5, <2>2, <2>3, NewerOrders
<1> QED
  BY <1>7, <1>8 DEF page

\* The latest version of a number.
LEMMA LatestIs ==
  ASSUME VInv, NEW q
  PROVE  LET latest == GetEntrs({}, {q}, 2) IN
         /\ Cardinality(latest) <= 1
         /\ latest = {} <=> \A e \in GetEntrs({}, {q}, 0) : entr[e].stat # "A"
         /\ \A e \in latest : \A f \in Descendants(entr, e) \ {e} : entr[f].stat # "A"
<1> DEFINE asked == {e \in DOMAIN entr : e \in {} \/ SeqNo[entr[e].key] \in {q}}
           live == {e \in asked : entr[e].stat = "A"}
           latest == GetEntrs({}, {q}, 2)
<1>1. GetEntrs({}, {q}, 0) = asked
  BY DEF GetEntrs
<1>2. latest = {Newest({f \in live : SameSeq(e, f)}) : e \in live}
  BY DEF GetEntrs
<1>3. \A e \in live : {f \in live : SameSeq(e, f)} = live
  BY DEF SameSeq
<1>4. \A e : e \in live <=> e \in DOMAIN entr /\ SeqNo[entr[e].key] = q /\ entr[e].stat = "A"
  OBVIOUS
<1>5. live \in SUBSET DOMAIN entr
  OBVIOUS
<1>6. live = {} <=> \A e \in asked : entr[e].stat # "A"
  OBVIOUS
<1> HIDE DEF live, latest, asked
<1>7. latest = IF live = {} THEN {} ELSE {Newest(live)}
  BY <1>2, <1>3
<1>8. Cardinality(latest) <= 1
  BY <1>7, FS_EmptySet, FS_Singleton
<1>9. latest = {} <=> \A e \in GetEntrs({}, {q}, 0) : entr[e].stat # "A"
  BY <1>1, <1>6, <1>7
<1>10. ASSUME NEW e \in latest, NEW f \in Descendants(entr, e) \ {e}
       PROVE  entr[f].stat # "A"
  <2>1. e \in live /\ \A g \in live \ {e} : Newer(e, g)
    BY <1>5, <1>7, NewestIs
  <2>2. IsLater(f, e) /\ f \in DOMAIN entr /\ f # e
    BY <1>4, <1>10, <2>1, DescendantIsLater DEF IsLater
  <2> SUFFICES ASSUME entr[f].stat = "A" PROVE FALSE
    OBVIOUS
  <2>3. f \in live
    BY <1>4, <2>1, <2>2 DEF IsLater
  <2> QED
    BY <1>4, <2>1, <2>2, <2>3, NewerOrders DEF IsLater
<1> QED
  BY <1>8, <1>9, <1>10 DEF latest

\* The history as it is shown, newest record first.
LEMMA HistShownFalls ==
  ASSUME VInv, NEW e \in DOMAIN entr,
         NEW i \in DOMAIN HistShown(e), NEW j \in DOMAIN HistShown(e), i < j
  PROVE  HistShown(e)[i] > HistShown(e)[j]
<1> DEFINE h == entr[e].hist
           n == Len(h)
<1>1. h \in Seq(Nat) /\ \A a, b \in 1 .. n : a < b => h[a] < h[b]
  BY TreeFacts DEF VInv, LInv, VersionOK
<1>2. HistShown(e) = [k \in 1 .. n |-> h[(n - k) + 1]]
  BY DEF HistShown, Reverse
<1> HIDE DEF h, n
<1>3. n \in Nat /\ \A a \in 1 .. n : h[a] \in Nat
  BY <1>1, LenProperties, ElementOfSeq DEF n
<1>4. i \in 1 .. n /\ j \in 1 .. n /\ HistShown(e)[i] = h[(n - i) + 1]
      /\ HistShown(e)[j] = h[(n - j) + 1]
  BY <1>2
<1>5. (n - i) + 1 \in 1 .. n /\ (n - j) + 1 \in 1 .. n /\ (n - j) + 1 < (n - i) + 1
  BY <1>3, <1>4
<1> QED
  BY <1>1, <1>3, <1>4, <1>5

\* The days of the index, and their pages.
LEMMA DaysAre ==
  ASSUME VInv, NEW first \in {0, 1}, NEW next \in {2, 3}, NEW d \in DOMAIN YearIndex(first, next)
  PROVE  LET page == DayUpdates(d + 1, 1) IN
         /\ d \in first .. next - 1
         /\ \A e \in DOMAIN entr :
              (\E h \in ToSet(entr[e].hist) \ Quiet : DayOf(h) = d) => e \in page
         /\ \A e \in page : Descendants(entr, e) \subseteq page
<1> DEFINE page == DayUpdates(d + 1, 1)
           Shown1(h) == h \in 2 * d .. 2 * d + 2 /\ h \notin Quiet
<1>1. \A r \in Records : r.dt \in Nat /\ r.entr \in DOMAIN entr
                         /\ r.dt \in ToSet(entr[r.entr].hist)
  <2> SUFFICES ASSUME NEW e \in DOMAIN entr, NEW h \in ToSet(entr[e].hist)
               PROVE  h \in Nat
    BY DEF Records
  <2>1. entr[e].hist \in Seq(Nat)
    BY TreeFacts DEF VInv, LInv
  <2> QED
    BY <2>1 DEF ToSet
<1>2. \A e \in DOMAIN entr : \A h : h \in ToSet(entr[e].hist) => [entr |-> e, dt |-> h] \in Records
  BY DEF Records
<1>3. PICK r \in Records : /\ r.dt >= 2 * first /\ r.dt < 2 * next
                           /\ d = r.dt \div 2
  BY DEF YearIndex, Midnight, DayOf
<1>4. d \in first .. next - 1 /\ d \in Nat
  <2>1. r.dt \in Nat
    BY <1>1
  <2> QED
    BY <1>3, <2>1
<1>5. \A e : e \in page <=> \E x \in Records : x.entr = e /\ Shown1(x.dt)
  <2>1. Midnight((d + 1) - 1) = 2 * d
    BY <1>4 DEF Midnight
  <2> QED
    BY <2>1 DEF DayUpdates
<1> HIDE DEF page
<1>6. ASSUME NEW e \in DOMAIN entr, NEW h \in ToSet(entr[e].hist) \ Quiet, DayOf(h) = d
      PROVE  e \in page
  <2>1. [entr |-> e, dt |-> h] \in Records
    BY <1>2
  <2>2. h \in Nat
    BY <1>1, <2>1
  <2>3. Shown1(h)
    BY <1>4, <1>6, <2>2 DEF DayOf
  <2> QED
    BY <1>5, <2>1, <2>3
<1>7. ASSUME NEW e \in page, NEW f \in Descendants(entr, e) PROVE f \in page
  <2>1. PICK x \in Records : x.entr = e /\ Shown1(x.dt)
    BY <1>5
  <2>2. e \in DOMAIN entr /\ x.dt \in ToSet(entr[e].hist)
    BY <1>1, <2>1
  <2>3. CASE f # e
    <3>1. f \in DOMAIN entr /\ x.dt \in ToSet(entr[f].hist)
      BY <1>7, <2>2, <2>3, DescendantIsLater DEF IsLater
    <3>2. [entr |-> f, dt |-> x.dt] \in Records
      BY <1>2, <3>1
    <3> QED
      BY <1>5, <2>1, <3>2
  <2> QED
    BY <2>3
<1> QED
  BY <1>4, <1>6, <1>7 DEF page

\* Whatever users submit, pages keep the versions of a number together and in
\* order, name its latest version right, and days lead to what was edited.
THEOREM PagesAreInOrder == Spec => []PagesInOrder
<1>1. VInv => PagesInOrder
  <2> SUFFICES ASSUME VInv PROVE PagesInOrder
    OBVIOUS
  <2>1. \A e \in DOMAIN entr : EditableFlag(entr[e]) <=> entr[e].stat # "R"
    <3> SUFFICES ASSUME NEW e \in DOMAIN entr
                 PROVE  EditableFlag(entr[e]) <=> entr[e].stat # "R"
      OBVIOUS
    <3>1. Proved!LinksOK /\ entr[e].stat \in {"A", "D", "R"} /\ entr[e].unap \in BOOLEAN
      BY TreeFacts DEF VInv, LInv, Proved!IInv
    <3> QED
      BY <3>1 DEF EditableFlag, Proved!LinksOK
  <2> QED
    BY <2>1, PageOrderIs, LatestIs, HistShownFalls, DaysAre DEF PagesInOrder
<1> QED
  BY <1>1, InitVInv, StepVInv, PTL DEF Spec

-----------------------------------------------------------------------------
(* References, from both ends. *)

\* Sense n of e refers to sense m of t.
Refers(e, n, t, m) ==
  \E i \in DOMAIN xref[e] : /\ xref[e][i].sens = n
                            /\ xref[e][i].xentr = t /\ xref[e][i].xsens = m

\* Of the references of an entry with the same ends one is the last.
LEMMA LastOfThem ==
  ASSUME NEW l, IsList(l), NEW places \in SUBSET DOMAIN l, places # {}
  PROVE  \E i \in places : i \in Nat /\ \A j \in places : j > i => FALSE
<1>1. PICK S : l \in Seq(S)
  BY DEF IsList
<1>2. Len(l) \in Nat /\ DOMAIN l = 1 .. Len(l)
  BY <1>1, LenProperties
<1>3. IsFiniteSet(1 .. Len(l)) /\ places \in SUBSET Nat
  BY <1>2, FS_Interval
<1>4. IsFiniteSet(places)
  BY <1>2, <1>3, FS_Subset
<1>5. Max(places) \in places /\ \A x \in places : x <= Max(places)
  BY <1>3, <1>4, MaxIs
<1>6. ASSUME NEW m, m \in places, \A x \in places : x <= m
      PROVE  \E i \in places : i \in Nat /\ \A j \in places : j > i => FALSE
  BY <1>3, <1>6
<1> HIDE DEF Max
<1> QED
  BY <1>5, <1>6

\* A page says "both" of what is there both ways, "to" and "from" of what is
\* there one way.
LEMMA DirecsAre ==
  ASSUME VInv, NEW e \in DOMAIN entr, NEW t \in DOMAIN entr, ShowsRef(e, t), NEW n, NEW m
  PROVE  /\ "both" \in Direcs(e, n, t, m) <=> Refers(e, n, t, m) /\ Refers(t, m, e, n)
         /\ "from" \in Direcs(e, n, t, m) <=> ~Refers(e, n, t, m) /\ Refers(t, m, e, n)
         /\ "to" \in Direcs(e, n, t, m) => Refers(e, n, t, m)
         /\ Refers(e, n, t, m) /\ ~Refers(t, m, e, n) => "to" \in Direcs(e, n, t, m)
         /\ Direcs(e, n, t, m) \subseteq {"to", "from", "both"}
<1> DEFINE all == xref[e]
           fwd == {i \in DOMAIN all : all[i].sens = n /\ ShowsRef(e, all[i].xentr)}
           rev == Reversed(e, n)
           IsBoth(i) == /\ \E y \in rev : SameEnds(y, all[i])
                        /\ \A j \in fwd : j > i => ~SameEnds(all[j], all[i])
           Fwds(i) == RefLine(all[i].typ, all[i].xentr, all[i].xsens,
                              IF IsBoth(i) THEN "both" ELSE "to")
           here == {i \in fwd : all[i].xentr = t /\ all[i].xsens = m}
           back == {y \in rev : y.xentr = t /\ y.xsens = m}
<1>1. SensRefs(e, n) = {Fwds(i) : i \in fwd}
                       \cup {y \in rev : \A i \in fwd : ~SameEnds(y, all[i])}
  BY Zenon DEF SensRefs
<1>2. Refers(e, n, t, m) <=> here # {}
  BY DEF Refers
<1>3. \A y \in rev : y.direc = "from"
  BY DEF Reversed, RefLine
<1>4. Refers(t, m, e, n) <=> back # {}
  <2>1. ASSUME NEW i \in DOMAIN xref[t], xref[t][i].sens = m, xref[t][i].xentr = e,
               xref[t][i].xsens = n
        PROVE  back # {}
    <3> DEFINE y == RefLine(xref[t][i].typ, t, m, "from")
    <3>1. xref[t][i] \in {x \in ToSet(xref[t]) : x.xentr = e /\ x.xsens = n}
      BY <2>1 DEF ToSet
    <3>2. y \in rev
      BY <2>1, <3>1 DEF Reversed
    <3>3. y.xentr = t /\ y.xsens = m
      BY DEF RefLine
    <3> QED
      BY <3>2, <3>3
  <2>2. ASSUME NEW y \in back PROVE Refers(t, m, e, n)
    <3>1. PICK f \in DOMAIN entr : \E x \in ToSet(xref[f]) :
            x.xentr = e /\ x.xsens = n /\ y = RefLine(x.typ, f, x.sens, "from")
      BY <2>2 DEF Reversed
    <3>2. PICK x \in ToSet(xref[f]) :
            x.xentr = e /\ x.xsens = n /\ y = RefLine(x.typ, f, x.sens, "from")
      BY <3>1
    <3>3. f = t /\ x.sens = m
      BY <2>2, <3>2 DEF RefLine
    <3> QED
      BY <3>2, <3>3 DEF Refers, ToSet
  <2> QED
    BY <2>1, <2>2 DEF Refers
<1> HIDE DEF rev
<1>5. \A i \in fwd : /\ Fwds(i).xentr = all[i].xentr /\ Fwds(i).xsens = all[i].xsens
                     /\ Fwds(i).direc = IF IsBoth(i) THEN "both" ELSE "to"
  BY DEF RefLine
<1>6. \A w : w \in Direcs(e, n, t, m)
               <=> \E l \in SensRefs(e, n) : l.xentr = t /\ l.xsens = m /\ l.direc = w
  BY DEF Direcs
<1>7. ASSUME NEW w
      PROVE  w \in Direcs(e, n, t, m)
               <=> \/ \E i \in here : w = IF IsBoth(i) THEN "both" ELSE "to"
                   \/ w = "from" /\ back # {} /\ here = {}
  <2>1. ASSUME NEW l \in SensRefs(e, n), l.xentr = t, l.xsens = m, l.direc = w
        PROVE  \/ \E i \in here : w = IF IsBoth(i) THEN "both" ELSE "to"
               \/ w = "from" /\ back # {} /\ here = {}
    <3>1. CASE \E i \in fwd : l = Fwds(i)
      <4>1. PICK i \in fwd : l = Fwds(i)
        BY <3>1
      <4>2. i \in here /\ w = IF IsBoth(i) THEN "both" ELSE "to"
        <5> HIDE DEF IsBoth, Fwds
        <5> QED BY <1>5, <2>1, <4>1
      <4> QED
        BY <4>2
    <3>2. CASE l \in rev /\ \A i \in fwd : ~SameEnds(l, all[i])
      <4>1. l \in back /\ w = "from"
        BY <1>3, <2>1, <3>2
      <4>2. here = {}
        BY <2>1, <3>2 DEF SameEnds
      <4> QED
        BY <4>1, <4>2
    <3> HIDE DEF IsBoth, Fwds
    <3> QED
      BY <1>1, <2>1, <3>1, <3>2
  <2>2. ASSUME NEW i \in here, w = IF IsBoth(i) THEN "both" ELSE "to"
        PROVE  \E l \in SensRefs(e, n) : l.xentr = t /\ l.xsens = m /\ l.direc = w
    <3> HIDE DEF IsBoth, Fwds
    <3>1. Fwds(i) \in SensRefs(e, n)
      BY <1>1, <2>2
    <3> QED
      BY <1>5, <2>2, <3>1
  <2>3. ASSUME back # {}, here = {}
        PROVE  \E l \in SensRefs(e, n) : l.xentr = t /\ l.xsens = m /\ l.direc = "from"
    <3>1. PICK y : y \in back
      BY <2>3
    <3>2. \A i \in fwd : ~SameEnds(y, all[i])
      BY <2>3, <3>1 DEF SameEnds
    <3>3. y \in SensRefs(e, n)
      <4> HIDE DEF IsBoth, Fwds
      <4> QED BY <1>1, <3>1, <3>2
    <3> QED
      BY <1>3, <3>1, <3>3
  <2> HIDE DEF IsBoth, here, back
  <2> QED
    BY <1>6, <2>1, <2>2, <2>3
<1>8. \A i \in here : IsBoth(i) => back # {}
  BY DEF SameEnds
<1>9. here # {} /\ back # {} => \E i \in here : IsBoth(i)
  <2> SUFFICES ASSUME here # {}, back # {} PROVE \E i \in here : IsBoth(i)
    OBVIOUS
  <2>1. IsList(all) /\ here \in SUBSET DOMAIN all
    BY DEF VInv, VersionOK
  <2>2. PICK i \in here : \A j \in here : j > i => FALSE
    <3> HIDE DEF all, here
    <3> QED BY <2>1, LastOfThem
  <2>3. \A j \in fwd : j > i => ~SameEnds(all[j], all[i])
    BY <2>2 DEF SameEnds
  <2>4. \E y \in rev : SameEnds(y, all[i])
    BY DEF SameEnds
  <2> QED
    BY <2>3, <2>4
<1> HIDE DEF here, back, IsBoth
<1> QED
  BY <1>2, <1>4, <1>7, <1>8, <1>9

\* What two pages say of a reference between them agrees, however the
\* references came about.
THEOREM PagesDoAgree == Spec => []PagesAgree
<1>1. VInv => PagesAgree
  <2> SUFFICES ASSUME VInv PROVE PagesAgree
    OBVIOUS
  <2>1. ASSUME NEW e \in DOMAIN entr, NEW n \in DOMAIN doc[e].sens, NEW l \in SensRefs(e, n)
        PROVE  entr[l.xentr].stat = "A" /\ (~entr[e].unap => Published(l.xentr))
    <3>1. ShowsRef(e, l.xentr)
      BY <2>1 DEF SensRefs, Reversed, RefLine
    <3> QED
      BY <3>1 DEF ShowsRef, Published
  <2>2. ASSUME NEW e \in DOMAIN entr, NEW t \in DOMAIN entr, ShowsRef(e, t), ShowsRef(t, e),
               NEW n, NEW m
        PROVE  /\ "both" \in Direcs(e, n, t, m) <=> "both" \in Direcs(t, m, e, n)
               /\ Direcs(e, n, t, m) = {"to"} <=> Direcs(t, m, e, n) = {"from"}
    <3> DEFINE here == Direcs(e, n, t, m)
               there == Direcs(t, m, e, n)
               F == Refers(e, n, t, m)
               G == Refers(t, m, e, n)
    <3>1. /\ "both" \in here <=> F /\ G
          /\ "from" \in here <=> ~F /\ G
          /\ "to" \in here => F
          /\ F /\ ~G => "to" \in here
          /\ here \subseteq {"to", "from", "both"}
      BY <2>2, DirecsAre
    <3>2. /\ "both" \in there <=> G /\ F
          /\ "from" \in there <=> ~G /\ F
          /\ "to" \in there => G
          /\ G /\ ~F => "to" \in there
          /\ there \subseteq {"to", "from", "both"}
      BY <2>2, DirecsAre
    <3> HIDE DEF here, there, F, G
    <3>3. here = {"to"} <=> F /\ ~G
      BY <3>1
    <3>4. there = {"from"} <=> F /\ ~G
      BY <3>2
    <3> QED
      BY <3>1, <3>2, <3>3, <3>4 DEF here, there, F, G
  <2> QED
    BY <2>1, <2>2 DEF PagesAgree
<1> QED
  BY <1>1, InitVInv, StepVInv, PTL DEF Spec

-----------------------------------------------------------------------------
(* The database checks. *)

\* What d says was checked, if it was not sent past the form.
SaysAll(d) ==
  \/ PastForm(d)
  \/ /\ AsLoaded(d) \/ NoErrors(d)
     /\ d.rdng # <<>> /\ d.sens # <<>>
     /\ \A s \in ToSet(d.sens) : s.gloss # <<>>

\* What e says, its history and its references give no check a reason.
Passes(e) ==
  /\ SaysAll(doc[e])
  /\ entr[e].stat = "A" \/ entr[e].hist # <<>>
  /\ \A x \in ToSet(xref[e]) : SaysSense(x)

\* No two trees have one number, but for what was rejected.
RootsApart ==
  \A e, f \in DOMAIN entr :
    /\ entr[e].dfrm = NoEntr /\ entr[e].stat # "R"
    /\ entr[f].dfrm = NoEntr /\ entr[f].stat # "R"
    /\ entr[e].key = entr[f].key
    => e = f

PassInv == VInv /\ RootsApart /\ \A e \in DOMAIN entr : Passes(e)

\* Some references of a list say the sense if all do.
LEMMA PickedSays ==
  ASSUME NEW l, IsList(l), NEW places \in SUBSET DOMAIN l, \A x \in ToSet(l) : SaysSense(x)
  PROVE  \A x \in ToSet(Picked(l, places)) : SaysSense(x)
<1>1. \A i \in DOMAIN Picked(l, places) : \E j \in DOMAIN l : Picked(l, places)[i] = l[j]
  BY PickedIsList
<1> QED
  BY <1>1 DEF ToSet

\* A reference that is resolved says the sense that it said before.
LEMMA RefsToSays ==
  ASSUME NEW link, IsList(link), \A x \in ToSet(link) : SaysSense(x), NEW d, NEW t, NEW D
  PROVE  \A x \in ToSet(RefsTo(link, d, t, D)) : SaysSense(x)
<1> DEFINE places == {i \in DOMAIN link : /\ link[i].sens <= Len(d.sens)
                                          /\ link[i].xsens <= Len(D.sens)
                                          /\ link[i].kanj <= Len(D.kanj)
                                          /\ link[i].rdng <= Len(D.rdng)}
           fit == Picked(link, places)
<1>1. RefsTo(link, d, t, D) = [i \in DOMAIN fit |-> Aimed(fit[i], t)]
  BY Zenon DEF RefsTo
<1>2. \A x \in ToSet(fit) : SaysSense(x)
  <2>1. places \in SUBSET DOMAIN link
    OBVIOUS
  <2> HIDE DEF places
  <2> QED BY <2>1, PickedSays
<1> HIDE DEF fit
<1>3. ASSUME NEW x, SaysSense(x) PROVE SaysSense(Aimed(x, t))
  <2> DEFINE y == Aimed(x, t)
  <2>1. {"nosens", "xsens"} \subseteq DOMAIN y /\ y.nosens = x.nosens /\ y.xsens = x.xsens
    BY <1>3 DEF Aimed, SaysSense
  <2> HIDE DEF y
  <2>2. SaysSense(y)
    BY <1>3, <2>1 DEF SaysSense
  <2> QED
    BY <2>2 DEF y
<1>4. ASSUME NEW i \in DOMAIN fit PROVE SaysSense(Aimed(fit[i], t))
  BY <1>2, <1>3 DEF ToSet
<1> QED
  BY <1>1, <1>4 DEF ToSet

\* One that is entered has no such flag.
LEMMA AsEnteredSays ==
  ASSUME NEW l, \A x \in ToSet(l) : SaysSense(x)
  PROVE  \A x \in ToSet(AsEntered(l)) : SaysSense(x)
<1>1. ASSUME NEW x, SaysSense(x) PROVE SaysSense([x EXCEPT !.nosens = FALSE])
  BY <1>1 DEF SaysSense
<1>2. ASSUME NEW i \in DOMAIN l PROVE SaysSense(AsEntered(l)[i])
  <2>1. SaysSense(l[i])
    BY DEF ToSet
  <2>2. AsEntered(l)[i] = [l[i] EXCEPT !.nosens = FALSE]
    BY DEF AsEntered
  <2> QED
    BY <1>1, <2>1, <2>2
<1>3. DOMAIN AsEntered(l) = DOMAIN l
  BY DEF AsEntered
<1> QED
  BY <1>2, <1>3 DEF ToSet

\* One that is copied for an edit says the sense, too.
LEMMA RealignedSays ==
  ASSUME NEW x, SaysSense(x), NEW n, NEW d
  PROVE  SaysSense(Realigned(x, n, d))
<1> DEFINE y == Realigned(x, n, d)
<1>1. DOMAIN y = DOMAIN x /\ y.nosens = x.nosens /\ y.xsens = x.xsens
  BY DEF Realigned, SaysSense
<1> HIDE DEF y
<1>2. SaysSense(y)
  BY <1>1 DEF SaysSense
<1> QED
  BY <1>2 DEF y

\* And those that stay when rows go.
LEMMA StayingSays ==
  ASSUME NEW e, IsList(xref[e]), \A x \in ToSet(xref[e]) : SaysSense(x)
  PROVE  \A x \in ToSet(Staying(e)) : SaysSense(x)
<1> DEFINE places == {i \in DOMAIN xref[e] : xref[e][i].xentr \in DOMAIN entr'}
<1>1. places \in SUBSET DOMAIN xref[e]
  OBVIOUS
<1>2. Staying(e) = Picked(xref[e], places)
  BY DEF Staying
<1> HIDE DEF places
<1> QED
  BY <1>1, <1>2, PickedSays

\* What is in two lists is what is in one after the other.
LEMMA JoinedSays ==
  ASSUME NEW a, IsList(a), NEW b, IsList(b),
         \A x \in ToSet(a) : SaysSense(x), \A x \in ToSet(b) : SaysSense(x)
  PROVE  \A x \in ToSet(a \o b) : SaysSense(x)
<1>1. PICK S : a \in Seq(S)
  BY DEF IsList
<1>2. PICK T : b \in Seq(T)
  BY DEF IsList
<1>3. /\ Len(a) \in Nat /\ Len(b) \in Nat /\ DOMAIN a = 1 .. Len(a) /\ DOMAIN b = 1 .. Len(b)
      /\ a \in Seq(S \cup T) /\ b \in Seq(S \cup T)
  BY <1>1, <1>2, LenProperties, ListOfMore
<1>4. DOMAIN (a \o b) = 1 .. Len(a) + Len(b)
  BY <1>3, ConcatProperties, LenProperties
<1>5. \A i \in 1 .. Len(a) + Len(b) : (a \o b)[i] = IF i <= Len(a) THEN a[i] ELSE b[i - Len(a)]
  BY <1>3, ConcatProperties
<1> SUFFICES ASSUME NEW i \in DOMAIN (a \o b) PROVE SaysSense((a \o b)[i])
  BY DEF ToSet
<1>6. CASE i <= Len(a)
  <2>1. i \in DOMAIN a /\ (a \o b)[i] = a[i]
    BY <1>3, <1>4, <1>5, <1>6
  <2> QED
    BY <2>1 DEF ToSet
<1>7. CASE ~(i <= Len(a))
  <2>1. i - Len(a) \in DOMAIN b /\ (a \o b)[i] = b[i - Len(a)]
    BY <1>3, <1>4, <1>5, <1>7
  <2> QED
    BY <2>1 DEF ToSet
<1> QED
  BY <1>6, <1>7

\* The references of an entry after another one was edited.
LEMMA StandingSays ==
  ASSUME NEW e, IsList(xref[e]), \A x \in ToSet(xref[e]) : SaysSense(x), NEW n, NEW d, NEW p
  PROVE  \A x \in ToSet(Standing(e, n, d, p)) : SaysSense(x)
<1> DEFINE places == {i \in DOMAIN xref[e] : xref[e][i].xentr = p /\ Realigns(xref[e][i], d)}
           toP == Picked(xref[e], places)
           new == [i \in DOMAIN toP |-> Realigned(toP[i], n, d)]
<1>1. Standing(e, n, d, p) = Staying(e) \o AsEntered(new)
  BY Zenon DEF Standing
<1>2. IsList(toP) /\ \A x \in ToSet(toP) : SaysSense(x)
  <2>1. places \in SUBSET DOMAIN xref[e]
    OBVIOUS
  <2> HIDE DEF places
  <2> QED BY <2>1, PickedIsList, PickedSays
<1> HIDE DEF toP
<1>3. IsList(new)
  <2> DEFINE S == {Realigned(toP[i], n, d) : i \in DOMAIN toP}
  <2>1. PICK Q : toP \in Seq(Q)
    BY <1>2 DEF IsList
  <2>2. Len(toP) \in Nat /\ DOMAIN toP = 1 .. Len(toP)
    BY <2>1, LenProperties
  <2>3. new \in [1 .. Len(toP) -> S]
    BY <2>2
  <2>4. new \in Seq(S)
    BY <2>2, <2>3
  <2> QED
    BY <2>4 DEF IsList
<1>4. \A x \in ToSet(new) : SaysSense(x)
  <2>1. ASSUME NEW i \in DOMAIN toP PROVE SaysSense(Realigned(toP[i], n, d))
    BY <1>2, RealignedSays DEF ToSet
  <2> QED
    BY <2>1 DEF ToSet
<1> HIDE DEF new
<1>5. IsList(Staying(e)) /\ \A x \in ToSet(Staying(e)) : SaysSense(x)
  BY StayingIsList, StayingSays
<1>6. IsList(AsEntered(new)) /\ \A x \in ToSet(AsEntered(new)) : SaysSense(x)
  BY <1>3, <1>4, AsEnteredIsList, AsEnteredSays
<1> QED
  BY <1>1, <1>5, <1>6, JoinedSays

\* What is new was checked or sent past the form, or is what was there.
LEMMA ChangePasses ==
  ASSUME VInv, VInv', \A e \in DOMAIN entr : Passes(e),
         NEW c \in PageCalls, NEW n \in EntrIds, NEW text \in Texts \cup {Same}, NEW t,
         Change(c, n, text, t)
  PROVE  \A e \in DOMAIN entr' : Passes(e)'
<1> DEFINE kept == c.stat = "D" \/ c.disp = "r"
           d == IF kept THEN doc[c.dfrm] ELSE text.doc
           refs(i) == IF i # n THEN Standing(i, n, d, c.dfrm)
                      ELSE IF kept THEN AsEntered(Staying(c.dfrm))
                      ELSE IF t = n THEN <<>> ELSE AsEntered(RefsTo(text.link, d, t, doc[t]))
<1>1. /\ kept <=> text = Same
      /\ ~kept => NoErrors(d) \/ ~text.form
      /\ doc' = [i \in DOMAIN entr' |-> IF i = n THEN d ELSE doc[i]]
      /\ xref' = [i \in DOMAIN entr' |-> refs(i)]
  BY Zenon DEF Change
<1>2. TableOK /\ Proved!IInv /\ NoEntr \notin DOMAIN entr /\ c.dfrm \in DOMAIN entr
  BY TreeFacts, NoEntrIsNoId DEF VInv, LInv, EInv, PageCalls
<1>3. NewVersion(c, n) /\ UserRows(n)
  <2>1. Trees!Submit(c, n) \/ Trees!Approve(c, n) \/ Trees!Reject(c, n)
    BY DEF Change
  <2> QED
    BY <1>2, <2>1, CallVersion, CallRows
<1>4. ASSUME NEW e \in DOMAIN entr
      PROVE  IsList(xref[e]) /\ \A x \in ToSet(xref[e]) : SaysSense(x)
  BY DEF VInv, VersionOK, Passes
<1>5. ASSUME NEW e \in DOMAIN entr', e # n PROVE Passes(e)'
  <2>1. e \in DOMAIN entr /\ entr'[e] = entr[e]
    BY <1>3, <1>5 DEF UserRows
  <2>2. doc'[e] = doc[e]
    BY <1>1, <1>5
  <2>3. xref'[e] = Standing(e, n, d, c.dfrm)
    <3>1. xref'[e] = refs(e)
      BY <1>1
    <3> HIDE DEF kept, d
    <3> QED BY <1>5, <3>1
  <2>4. \A x \in ToSet(xref'[e]) : SaysSense(x)
    <3> HIDE DEF d
    <3> QED BY <1>4, <2>1, <2>3, StandingSays
  <2> QED
    BY <2>1, <2>2, <2>4 DEF Passes
<1>6. Passes(n)'
  <2>1. n \in DOMAIN entr' /\ entr'[n].hist = Append(entr[c.dfrm].hist, n)
    BY <1>3 DEF NewVersion
  <2>2. entr'[n].hist # <<>>
    <3>1. entr[c.dfrm].hist \in Seq(Nat) /\ n \in Nat
      BY <1>2, TreeFacts, IdsInOrder
    <3>2. Append(entr[c.dfrm].hist, n) # <<>>
      BY <3>1, AppendProperties
    <3> QED
      BY <2>1, <3>2
  <2>3. doc'[n] = d
    BY <1>1, <2>1
  <2>4. SaysAll(d)
    <3>1. CASE kept
      BY <1>2, <3>1 DEF Passes
    <3>2. CASE ~kept /\ ~text.form
      <4>1. text \in Texts /\ d = text.doc
        BY <1>1, <3>2
      <4> QED
        BY <3>2, <4>1 DEF SaysAll, PastForm
    <3>3. CASE ~kept /\ NoErrors(d)
      <4> HIDE DEF d
      <4> QED
        BY <3>3 DEF NoErrors, SaysAll
    <3> QED
      BY <1>1, <3>1, <3>2, <3>3
  <2>5. \A x \in ToSet(xref'[n]) : SaysSense(x)
    <3>1. xref'[n] = refs(n)
      BY <1>1, <2>1
    <3>2. \A x \in ToSet(AsEntered(Staying(c.dfrm))) : SaysSense(x)
      BY <1>2, <1>4, StayingSays, AsEnteredSays
    <3>3. ~kept => \A x \in ToSet(AsEntered(RefsTo(text.link, d, t, doc[t]))) : SaysSense(x)
      <4> SUFFICES ASSUME ~kept
                   PROVE  \A x \in ToSet(AsEntered(RefsTo(text.link, d, t, doc[t]))) : SaysSense(x)
        OBVIOUS
      <4>1. text \in Texts
        BY <1>1
      <4>2. IsList(text.link) /\ \A x \in ToSet(text.link) : SaysSense(x)
        BY <4>1, LinkIsList, RefsSaySense
      <4> HIDE DEF kept, d
      <4> QED BY <4>2, RefsToSays, AsEnteredSays
    <3>4. ToSet(<<>>) = {}
      BY DEF ToSet
    <3> HIDE DEF kept, d
    <3> QED
      BY <3>1, <3>2, <3>3, <3>4
  <2> HIDE DEF d
  <2> QED
    BY <2>2, <2>3, <2>4, <2>5 DEF Passes
<1> QED
  BY <1>5, <1>6

\* Whoever edits an entry edits its number, the tree of which has a root that
\* is not rejected.
LEMMA RootIs ==
  ASSUME VInv, NEW p \in DOMAIN entr, entr[p].stat # "R"
  PROVE  LET r == Trees!Root(entr, p) IN
         /\ r \in DOMAIN entr /\ entr[r].dfrm = NoEntr
         /\ entr[r].stat # "R" /\ entr[r].key = entr[p].key
<1> DEFINE r == Trees!Root(entr, p)
<1>1. Proved!IInv
  BY DEF VInv, LInv
<1>2. r \in DOMAIN entr /\ entr[r].dfrm = NoEntr /\ p \in Descendants(entr, r)
  <2>1. Proved!IsForest(entr)
    BY <1>1 DEF Proved!IInv, Proved!Rooted
  <2>2. /\ Proved!Root(entr, p) \in DOMAIN entr
        /\ entr[Proved!Root(entr, p)].dfrm = NoEntr
        /\ p \in Proved!Descendants(entr, Proved!Root(entr, p))
    BY <2>1, ConstantsOK, Proved!RootOf
  <2>3. r = Proved!Root(entr, p)
    BY Zenon DEF Trees!Root, Proved!Root, Trees!Descendants, Proved!Descendants
  <2>4. Proved!Descendants(entr, r) = Descendants(entr, r)
    BY Zenon DEF Proved!Descendants, Descendants
  <2> HIDE DEF r
  <2> QED
    BY <2>2, <2>3, <2>4
<1> HIDE DEF r
<1>3. CASE p = r
  BY <1>2, <1>3 DEF r
<1>4. CASE p # r
  <2>1. entr[p].key = entr[r].key
    BY <1>2, <1>4, DescendantIsLater DEF IsLater
  <2>2. \E f \in DOMAIN entr : entr[f].dfrm = r
    <3> DEFINE edits == {f \in DOMAIN entr : entr[f].dfrm # NoEntr}
    <3>1. \A S \in SUBSET edits :
            (\A f \in edits : entr[f].dfrm \in S \cup {r} => f \in S) => p \in S
      BY <1>2, <1>4 DEF Descendants
    <3>2. ~ \A f \in edits : entr[f].dfrm \in {} \cup {r} => f \in {}
      BY <3>1
    <3> QED
      BY <3>2
  <2>3. entr[r].stat # "R"
    <3>1. NoEntr # r
      BY <1>1, <1>2, TreeFacts, NoEntrIsNoId
    <3> QED
      BY <1>1, <2>2, <3>1 DEF Proved!IInv, Proved!LinksOK
  <2> QED
    BY <1>2, <2>1, <2>3 DEF r
<1> QED
  BY <1>3, <1>4

\* An approval takes the place of the tree that had the number.
LEMMA ApproveTakesRoot ==
  ASSUME VInv, NEW c \in PageCalls, NEW n, Trees!Approve(c, n)
  PROVE  \E r \in DOMAIN entr :
           /\ r # n => r \notin DOMAIN entr'
           /\ entr[r].dfrm = NoEntr /\ entr[r].stat # "R" /\ entr[r].key = entr[c.dfrm].key
<1> DEFINE p == c.dfrm
           r == Trees!Root(entr, p)
<1>1. p \in DOMAIN entr /\ p # NoEntr
  BY TreeFacts, NoEntrIsNoId DEF VInv, LInv, PageCalls
<1>2. entr[p].stat # "R"
  BY <1>1 DEF Trees!Approve, Trees!ApproveOK, Trees!MayEdit
<1>3. r \in DOMAIN entr /\ entr[r].dfrm = NoEntr /\ entr[r].stat # "R" /\ entr[r].key = entr[p].key
  BY <1>1, <1>2, RootIs
<1>4. r # n => r \notin DOMAIN entr'
  <2>1. entr' = Trees!InsertRow(Trees!DeleteRow(entr, r), n, Trees!ApprovedRow(entr, c))
    BY <1>1, Zenon DEF Trees!Approve, Trees!Approved, Trees!WithoutTree
  <2>2. r \notin DOMAIN Trees!DeleteRow(entr, r)
    <3> HIDE DEF r
    <3> QED BY DEF Trees!DeleteRow, Trees!Descendants
  <2> HIDE DEF r
  <2> QED
    BY <2>1, <2>2 DEF Trees!InsertRow
<1> QED
  BY <1>3, <1>4

\* So trees remain apart.
LEMMA ChangeRootsApart ==
  ASSUME VInv, RootsApart, NEW c \in PageCalls, NEW n \in EntrIds,
         Trees!Submit(c, n) \/ Trees!Approve(c, n) \/ Trees!Reject(c, n)
  PROVE  RootsApart'
<1>1. TableOK /\ Proved!IInv /\ NoEntr \notin DOMAIN entr /\ c.dfrm \in DOMAIN entr
  BY TreeFacts, NoEntrIsNoId DEF VInv, LInv, EInv, PageCalls
<1>2. NewVersion(c, n) /\ UserRows(n)
  BY <1>1, CallVersion, CallRows
<1>3. ASSUME NEW f \in DOMAIN entr', f # n,
             entr'[f].dfrm = NoEntr, entr'[f].stat # "R", entr'[f].key = entr'[n].key,
             entr'[n].dfrm = NoEntr, entr'[n].stat # "R"
      PROVE  FALSE
  <2>1. f \in DOMAIN entr /\ entr'[f] = entr[f] /\ entr'[n].key = entr[c.dfrm].key
    BY <1>2, <1>3 DEF UserRows, NewVersion
  <2>2. CASE Trees!Submit(c, n)
    <3>1. entr' = Trees!InsertRow(entr, n, Trees!SubmittedRow(entr, c))
      BY <2>2 DEF Trees!Submit, Trees!Submitted
    <3>2. "dfrm" \in DOMAIN Trees!SubmittedRow(entr, c) /\ Trees!SubmittedRow(entr, c).dfrm = c.dfrm
      BY DEF Trees!SubmittedRow, Trees!RowFor
    <3>3. entr'[n].dfrm = c.dfrm
      BY <3>1, <3>2 DEF Trees!InsertRow
    <3> QED
      BY <1>1, <1>3, <3>3
  <2>3. CASE Trees!Approve(c, n)
    <3>1. PICK r \in DOMAIN entr :
            /\ r # n => r \notin DOMAIN entr'
            /\ entr[r].dfrm = NoEntr /\ entr[r].stat # "R" /\ entr[r].key = entr[c.dfrm].key
      BY <2>3, ApproveTakesRoot
    <3>2. r # n
      BY <1>1, <1>2, TreeFacts DEF UserRows
    <3>3. r = f
      BY <1>3, <2>1, <3>1 DEF RootsApart
    <3> QED
      BY <3>1, <3>2, <3>3
  <2>4. CASE Trees!Reject(c, n)
    <3>1. PICK T : entr' = Trees!InsertRow(T, n, Trees!RejectedRow(entr, c))
      BY <2>4 DEF Trees!Reject, Trees!Rejected
    <3>2. "stat" \in DOMAIN Trees!RejectedRow(entr, c) /\ Trees!RejectedRow(entr, c).stat = "R"
      BY DEF Trees!RejectedRow, Trees!RowFor
    <3>3. entr'[n].stat = "R"
      BY <3>1, <3>2 DEF Trees!InsertRow
    <3> QED
      BY <1>3, <3>3
  <2> QED
    BY <2>2, <2>3, <2>4
<1>4. \A e \in DOMAIN entr' : e # n => e \in DOMAIN entr /\ entr'[e] = entr[e]
  BY <1>2 DEF UserRows
<1> QED
  BY <1>3, <1>4 DEF RootsApart

\* What is loaded passes the checks.
LEMMA InitPassInv == Init => PassInv
<1> SUFFICES ASSUME Init PROVE PassInv
  OBVIOUS
<1>1. VInv
  BY InitVInv
<1>2. PICK load \in Loaded :
        /\ doc = load.doc
        /\ xref = [i \in Corpus |->
                    IF i # load.from THEN <<>>
                    ELSE RefsTo(load.link, doc[i], load.to, doc[load.to])]
  BY DEF Init
<1>3. ASSUME NEW e \in DOMAIN entr PROVE Passes(e)
  <2>1. e \in Corpus /\ entr[e].stat = "A"
    BY DEF Init, Trees!Init
  <2>2. e \in DOMAIN load.doc /\ doc[e] \in Range(load.doc)
    BY <1>2, <2>1, LoadsPass DEF Range
  <2>3. \A x \in ToSet(xref[e]) : SaysSense(x)
    <3>1. ToSet(<<>>) = {}
      BY DEF ToSet
    <3>2. IsList(load.link) /\ \A x \in ToSet(load.link) : SaysSense(x)
      BY LinkIsList, RefsSaySense
    <3>3. \A x \in ToSet(RefsTo(load.link, doc[e], load.to, doc[load.to])) : SaysSense(x)
      BY <3>2, RefsToSays
    <3> QED
      BY <1>2, <2>1, <3>1, <3>3
  <2> QED
    BY <1>2, <2>1, <2>2, <2>3, LoadsPass DEF Passes, SaysAll, AsLoaded
<1>4. RootsApart
  BY DEF Init, Trees!Init, RootsApart
<1> QED
  BY <1>1, <1>3, <1>4 DEF PassInv

\* And so does what users make of it.
LEMMA StepPassInv == PassInv /\ [Next]_vars => PassInv'
<1> SUFFICES ASSUME PassInv, [Next]_vars PROVE PassInv'
  OBVIOUS
<1>1. VInv /\ VInv' /\ RootsApart /\ \A e \in DOMAIN entr : Passes(e)
  BY StepVInv DEF PassInv
<1>2. CASE UNCHANGED <<entr, doc, xref>>
  BY <1>1, <1>2 DEF PassInv, Passes, RootsApart
<1>3. ASSUME NEW n \in EntrIds \ used, NEW c \in PageCalls, NEW t \in EntrIds,
             NEW text \in Texts \cup {Same}, Change(c, n, text, t)
      PROVE  PassInv'
  <2>1. Trees!Submit(c, n) \/ Trees!Approve(c, n) \/ Trees!Reject(c, n)
    BY <1>3 DEF Change
  <2> QED
    BY <1>1, <1>3, <2>1, ChangePasses, ChangeRootsApart DEF PassInv
<1>4. CASE ExportNext
  BY <1>2, <1>4 DEF ExportNext, Begin, Find, Finish, ReadEntr, ReadParts, ReadXrefs, Write, Fail
<1> QED
  BY <1>2, <1>3, <1>4 DEF Next, vars

\* What the checks on trees, histories and references find.
LEMMA NothingFound ==
  ASSUME PassInv
  PROVE  /\ ApprovedEdits(entr) = {} /\ Cycles(entr) = {}
         /\ MultipleActive(entr) = {} /\ ChangedKey(entr) = {}
         /\ Ageless(entr) = {} /\ NosensToOther(entr, xref) = {}
<1>1. Proved!IInv /\ Proved!LinksOK /\ Proved!OneActive
  BY DEF PassInv, VInv, LInv, Proved!IInv
<1>2. VInv /\ \A e \in DOMAIN entr : Passes(e) /\ VersionOK(e)
  BY DEF PassInv, VInv
<1>3. ApprovedEdits(entr) = {}
  BY <1>1 DEF ApprovedEdits, Proved!LinksOK
<1>4. Cycles(entr) = {}
  <2> SUFFICES ASSUME NEW e \in DOMAIN entr, entr[e].dfrm \in Descendants(entr, e) PROVE FALSE
    BY DEF Cycles
  <2> DEFINE p == entr[e].dfrm
  <2>1. p \in DOMAIN entr /\ p # NoEntr
    BY <1>1, TreeFacts, NoEntrIsNoId DEF Descendants
  <2>2. Newer(e, p)
    BY <1>2, <2>1, EditIsLater DEF IsLater
  <2>3. p = e \/ Newer(p, e)
    BY <1>2, DescendantIsLater DEF IsLater
  <2> HIDE DEF p
  <2> QED
    BY <1>2, <2>1, <2>2, <2>3, NewerOrders
<1>5. MultipleActive(entr) = {}
  <2> DEFINE Of(k) == {e \in DOMAIN entr : /\ entr[e].key = k /\ entr[e].stat = "A"
                                           /\ ~entr[e].unap}
             many == {k \in Keys : Cardinality(Of(k)) > 1}
  <2>0. MultipleActive(entr) = {Min(Of(k)) : k \in many}
    BY Zenon DEF MultipleActive
  <2> HIDE DEF Min
  <2>1. ASSUME NEW S, \A e, f \in S : e = f PROVE Cardinality(S) \in {0, 1}
    <3>1. CASE S = {}
      BY <3>1, FS_EmptySet
    <3>2. CASE S # {}
      <4>1. PICK e : S = {e}
        BY <2>1, <3>2
      <4> QED
        BY <4>1, FS_Singleton
    <3> QED
      BY <3>1, <3>2
  <2>2. ASSUME NEW k \in Keys PROVE \A e, f \in Of(k) : e = f
    BY <1>1 DEF Proved!OneActive
  <2> HIDE DEF Of
  <2>3. \A k \in Keys : Cardinality(Of(k)) \in {0, 1}
    BY <2>1, <2>2
  <2>4. many = {}
    BY <2>3
  <2> QED
    BY <2>0, <2>4
<1>6. ChangedKey(entr) = {}
  <2>1. \A e \in DOMAIN entr : e # NoEntr
    BY <1>1, TreeFacts, NoEntrIsNoId
  <2> QED
    BY <1>2, <2>1 DEF ChangedKey, VersionOK
<1>7. Ageless(entr) = {}
  BY <1>2 DEF Ageless, Passes
<1>8. NosensToOther(entr, xref) = {}
  BY <1>2 DEF NosensToOther, Passes, SaysSense
<1> QED
  BY <1>3, <1>4, <1>5, <1>6, <1>7, <1>8

\* What the checks on what entries say find was sent past the form, but for
\* parts of speech that were not loaded.
LEMMA FoundPastForm ==
  ASSUME \A e \in DOMAIN entr : SaysAll(doc[e])
  PROVE  /\ \A e \in NoTexts(entr, doc) \cup NoReading(entr, doc) \cup NoSense(entr, doc)
                     \cup NoGloss(entr, doc) : PastForm(doc[e])
         /\ \A e \in NoPos(entr, doc) : PastForm(doc[e]) \/ AsLoaded(doc[e])
<1>1. \A e \in NoTexts(entr, doc) \cup NoReading(entr, doc) \cup NoSense(entr, doc)
             : PastForm(doc[e])
  BY DEF NoTexts, NoReading, NoSense, Active, SaysAll
<1>2. \A e \in NoGloss(entr, doc) : PastForm(doc[e])
  BY DEF NoGloss, SaysAll
<1>3. \A e \in NoPos(entr, doc) : PastForm(doc[e]) \/ AsLoaded(doc[e])
  BY DEF NoPos, SaysAll, NoErrors, HasPos
<1> QED
  BY <1>1, <1>2, <1>3

\* The checks find nothing but what was sent past the form, loaded without a
\* part of speech, or is beside a deletion; the form warns of the same.
THEOREM ChecksDoPass == Spec => []ChecksPass
<1>1. PassInv => ChecksPass
  <2> SUFFICES ASSUME PassInv PROVE ChecksPass
    OBVIOUS
  <2> DEFINE reports == Reports(entr, doc, xref)
  <2>1. Proved!IInv /\ VInv /\ RootsApart /\ \A e \in DOMAIN entr : Passes(e)
    BY DEF PassInv, VInv, LInv
  <2>2. /\ DOMAIN reports = 1 .. 4 \cup 7 .. 11 \cup 16 .. 20
        /\ \A check \in {1, 2, 3, 4, 16, 18} : reports[check] = {}
        /\ reports[7] = NoTexts(entr, doc) /\ reports[8] = NoReading(entr, doc)
        /\ reports[9] = NoSense(entr, doc) /\ reports[10] = NoGloss(entr, doc)
        /\ reports[11] = NoPos(entr, doc)
        /\ reports[19] = BesideDeleted(entr, "A")
        /\ reports[20] = BesideDeleted(entr, "D")
    BY NothingFound DEF Reports
  <2> HIDE DEF reports
  <2>3. ChecksFailed(reports, {7, 8, 9, 10, 11, 17, 19, 20}, TRUE) = {}
    <3>1. ASSUME NEW check \in ChecksFailed(reports, {7, 8, 9, 10, 11, 17, 19, 20}, TRUE)
          PROVE  FALSE
      <4>1. /\ check \in DOMAIN reports /\ check \notin {7, 8, 9, 10, 11, 17, 19, 20}
            /\ reports[check] # {}
        BY <3>1 DEF ChecksFailed, Chosen
      <4> QED
        BY <2>2, <4>1
    <3> QED
      BY <3>1
  <2>4. /\ \A check \in 7 .. 10 : \A e \in reports[check] : PastForm(doc[e])
        /\ \A e \in reports[11] : PastForm(doc[e]) \/ AsLoaded(doc[e])
    <3>1. 7 .. 10 = {7, 8, 9, 10}
      OBVIOUS
    <3>2. \A e \in DOMAIN entr : SaysAll(doc[e])
      BY <2>1 DEF Passes
    <3> QED
      BY <2>2, <3>1, <3>2, FoundPastForm
  <2>5. \A e \in reports[19] \cup reports[20] : entr[e].unap
    <3> SUFFICES ASSUME NEW e \in DOMAIN entr, ~entr[e].unap, entr[e].stat \in {"A", "D"},
                        NEW f \in DOMAIN entr \ {e}, entr[f].key = entr[e].key,
                        entr[f].stat = "D", ~entr[f].unap
                 PROVE  FALSE
      BY <2>2 DEF BesideDeleted
    <3>1. entr[e].dfrm = NoEntr /\ entr[f].dfrm = NoEntr
      BY <2>1 DEF Proved!IInv, Proved!LinksOK
    <3> QED
      BY <2>1, <3>1 DEF RootsApart
  <2>6. ASSUME NEW e \in Active(entr)
        PROVE  /\ "norebs" \in Warnings(doc[e]) <=> e \in reports[8]
               /\ "nopos" \in Warnings(doc[e]) <=> e \in reports[11]
    <3>1. e \in DOMAIN entr /\ entr[e].stat = "A"
      BY DEF Active
    <3>2. "norebs" \in Warnings(doc[e]) <=> doc[e].rdng = <<>>
      BY DEF Warnings
    <3>3. "nopos" \in Warnings(doc[e]) <=> \E s \in ToSet(doc[e].sens) : ~HasPos(s)
      BY DEF Warnings
    <3>4. e \in reports[8] <=> doc[e].rdng = <<>>
      BY <2>2, <3>1 DEF NoReading, Active
    <3>5. e \in reports[11] <=> \E s \in ToSet(doc[e].sens) : ~HasPos(s)
      BY <2>2, <3>1 DEF NoPos, HasPos
    <3> QED
      BY <3>2, <3>3, <3>4, <3>5
  <2> QED
    BY <2>3, <2>4, <2>5, <2>6 DEF ChecksPass, reports
<1> QED
  BY <1>1, InitPassInv, StepPassInv, PTL DEF Spec
=============================================================================
