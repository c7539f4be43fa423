-------------------------- MODULE BulkLoad_proofs ---------------------------
(***************************************************************************)
(* What loads of corpora keep true, for any corpora, sequences and files.  *)
(*                                                                         *)
(* The run gives corpora no sequence that is not there (MayRename) and     *)
(* loads no file that has ids of another file's rows (MayMeet); where a    *)
(* theorem needs one of these it says so.                                  *)
(***************************************************************************)
EXTENDS BulkLoad, WellFoundedInduction, TLAPS

EntrRows == [src : Corpora, num : 1 .. MaxNum, idx : Nat \cup {NoRow},
             dfrm : 1 .. MaxId \cup {NoRow}, unap : BOOLEAN]

\* Every row is one, of a corpus that is there.
EntrOK ==
  /\ DOMAIN entr \subseteq 1 .. MaxId
  /\ entr \in [DOMAIN entr -> EntrRows]
  /\ \A i \in DOMAIN entr : entr[i].src \in DOMAIN kwsrc

CorporaOK ==
  /\ \A c \in DOMAIN kwsrc : kwsrc[c] \in SeqNames
  /\ \A s \in DOMAIN seqs : seqs[s] \in Nat \ {0}
  /\ nextid \in Nat \ {0}

LoadOK ==
  load.on => /\ load.file \in Files /\ load.kw \in Corpora /\ load.maxid \in Nat
             /\ DOMAIN load = {"on", "file", "kw", "maxid"}

\* A load that has begun has found the parents of its edits.
ParentsInFile ==
  load.on => \A i \in DOMAIN load.file.rows :
               load.file.rows[i].dfrm # NoRow =>
                 \E j \in DOMAIN load.file.rows :
                   load.file.rows[j].idx = load.file.rows[i].dfrm

\* It has ids that no row of the table has.
ApartFromFile == load.on => ~Meets(load.file)

\* The invariant that all the proofs carry.
IInv == EntrOK /\ CorporaOK /\ LoadOK

\* Once the sequences are in step, every corpus has one.
SequencesThere == synced => InUse(kwsrc) \subseteq DOMAIN seqs

\* The invariant of NumbersAhead.
NInv == IInv /\ SequencesThere /\ NumbersAhead

\* The invariant of LoadsApart.
AInv == NInv /\ ParentsInFile /\ ApartFromFile

\* Edits in files have ids, as those that fmtxml.py writes do.
EditsHaveIds ==
  \A f \in Files : \A i \in DOMAIN f.rows :
    f.rows[i].dfrm # NoRow => f.rows[i].idx # NoRow

-----------------------------------------------------------------------------
(* The greatest of a set of numbers. *)

\* A set of numbers with a bound has a greatest one, and MAX finds it.
LEMMA MaxIsMax ==
  ASSUME NEW n \in Nat, NEW S \in SUBSET (0 .. n), S # {}
  PROVE  Max(S) \in S /\ \A k \in S : k <= Max(S)
<1> DEFINE R == {n - k : k \in S}
<1>1. R \in SUBSET Nat /\ R # {}
  <2>1. \A k \in S : k \in 0 .. n /\ n - k \in Nat
    OBVIOUS
  <2> QED
    BY <2>1
<1>2. PICK m \in R : \A k \in R : <<k, m>> \notin OpToRel(<, Nat)
  BY <1>1, NatLessThanWellFounded, WFMin
<1>3. \A k \in R : ~ (k < m)
  BY <1>1, <1>2 DEF OpToRel
<1>4. PICK x \in S : m = n - x
  BY <1>2
<1>5. \A y \in S : x >= y
  BY <1>3, <1>4
<1>6. Max(S) \in S /\ \A y \in S : Max(S) >= y
  BY <1>5 DEF Max
<1> QED
  BY <1>6

\* Nothing in such a set is above MaxOf.
LEMMA MaxOfBounds ==
  ASSUME NEW n \in Nat, NEW S \in SUBSET (0 .. n)
  PROVE  MaxOf(S) \in 0 .. n /\ \A k \in S : k <= MaxOf(S)
<1>1. S \cup {0} \in SUBSET (0 .. n) /\ S \cup {0} # {}
  OBVIOUS
<1>2. Max(S \cup {0}) \in S \cup {0} /\ \A k \in S \cup {0} : k <= Max(S \cup {0})
  BY <1>1, MaxIsMax
<1> QED
  BY <1>1, <1>2 DEF MaxOf

-----------------------------------------------------------------------------
(* Sequences. *)

\* What the trigger leaves are the sequences it found, without those of which
\* the last corpus has been taken.
LEMMA ChangeKeepsMatch ==
  ASSUME SequencesMatch, NEW K, NEW c \in DOMAIN kwsrc,
         InUse(K) \subseteq InUse(kwsrc),
         InUse(kwsrc) \subseteq InUse(K) \cup {kwsrc[c]}
  PROVE  DOMAIN AfterChange(K, kwsrc[c]) = InUse(K)
<1>1. DOMAIN AfterChange(K, kwsrc[c]) = InUse(kwsrc) \ ({kwsrc[c]} \ InUse(K))
  BY DEF AfterChange, SequencesMatch
<1> QED
  BY <1>1

\* Every step keeps the sequences those that corpora use, if no corpus is given
\* one that is not there.
LEMMA StepMatches ==
  ASSUME ~MayRename, SequencesMatch, [Next]_vars
  PROVE  SequencesMatch'
<1>1. ASSUME NEW c \in Corpora, NEW s \in DOMAIN seqs, UpdateCorpus(c, s)
      PROVE  SequencesMatch'
  <2>1. /\ c \in DOMAIN kwsrc /\ kwsrc' = [kwsrc EXCEPT ![c] = s]
        /\ seqs' = AfterChange(kwsrc', kwsrc[c])
    BY <1>1 DEF UpdateCorpus
  <2>2. s \in InUse(kwsrc)
    BY DEF SequencesMatch
  <2>3. DOMAIN kwsrc' = DOMAIN kwsrc
        /\ \A d \in DOMAIN kwsrc : kwsrc'[d] = IF d = c THEN s ELSE kwsrc[d]
    BY <2>1
  <2>4. InUse(kwsrc') \subseteq InUse(kwsrc)
    BY <2>2, <2>3 DEF InUse
  <2>5. InUse(kwsrc) \subseteq InUse(kwsrc') \cup {kwsrc[c]}
    BY <2>3 DEF InUse
  <2> QED
    BY <2>1, <2>4, <2>5, ChangeKeepsMatch DEF SequencesMatch
<1>2. ASSUME NEW c \in Corpora, DeleteCorpus(c)
      PROVE  SequencesMatch'
  <2>1. /\ c \in DOMAIN kwsrc
        /\ kwsrc' = [d \in DOMAIN kwsrc \ {c} |-> kwsrc[d]]
        /\ seqs' = AfterChange(kwsrc', kwsrc[c])
    BY <1>2 DEF DeleteCorpus
  <2>2. /\ InUse(kwsrc') \subseteq InUse(kwsrc)
        /\ InUse(kwsrc) \subseteq InUse(kwsrc') \cup {kwsrc[c]}
    BY <2>1 DEF InUse
  <2> QED
    BY <2>1, <2>2, ChangeKeepsMatch DEF SequencesMatch
<1>3. ASSUME NEW c \in Corpora, NEW u \in BOOLEAN, NewEntry(c, u)
      PROVE  SequencesMatch'
  <2>1. DOMAIN seqs' = DOMAIN seqs /\ kwsrc' = kwsrc
    BY <1>3 DEF NewEntry
  <2> QED
    BY <2>1 DEF SequencesMatch, InUse
<1>4. CASE CommitLoad
  <2>1. /\ kwsrc' = [d \in DOMAIN kwsrc \cup {load.kw} |->
                       IF d = load.kw THEN load.file.seq ELSE kwsrc[d]]
        /\ load.kw \notin DOMAIN kwsrc
        /\ DOMAIN seqs' = DOMAIN seqs \cup {load.file.seq}
    BY <1>4 DEF CommitLoad, AfterInsert
  <2>2. InUse(kwsrc') = InUse(kwsrc) \cup {load.file.seq}
    BY <2>1 DEF InUse
  <2> QED
    BY <2>1, <2>2 DEF SequencesMatch
<1>5. CASE SyncSeq
  BY <1>5 DEF SyncSeq, SequencesMatch, InUse
<1>6. CASE seqs' = seqs /\ kwsrc' = kwsrc
  BY <1>6 DEF SequencesMatch, InUse
<1> QED
  BY <1>1, <1>2, <1>3, <1>4, <1>5, <1>6
     DEF Next, NewNumbered, Remove, BeginLoad, AbortLoad, vars

\* "This allows every corpus to maintain its own sequence" (kwsrc_updseq):
\* while corpora are only moved to sequences that are there, the sequences that
\* exist are those that corpora use, whatever is loaded, moved or deleted.
THEOREM SequencesAreThoseInUse ==
  ASSUME ~MayRename
  PROVE  Spec => []SequencesMatch
<1>1. Init => SequencesMatch
  BY DEF Init, SequencesMatch, InUse
<1>2. SequencesMatch /\ [Next]_vars => SequencesMatch'
  BY StepMatches
<1> QED
  BY <1>1, <1>2, PTL DEF Spec
-----------------------------------------------------------------------------
(* Rows, ids and numbers. *)

\* An entry that is added has an id no row has.
LEMMA InsertKeeps ==
  ASSUME IInv, \A i \in DOMAIN entr : i < nextid,
         NEW row \in EntrRows, row.src \in DOMAIN kwsrc, Insert(row), kwsrc' = kwsrc
  PROVE  /\ EntrOK'
         /\ nextid' \in Nat \ {0}
         /\ \A i \in DOMAIN entr' : i < nextid'
         /\ \A i \in DOMAIN entr' : IF i = nextid THEN entr'[i] = row
                                    ELSE i \in DOMAIN entr /\ entr'[i] = entr[i]
<1>1. /\ nextid \in Nat \ {0} /\ nextid' = nextid + 1 /\ nextid <= MaxId
      /\ DOMAIN entr' = DOMAIN entr \cup {nextid}
      /\ \A i \in DOMAIN entr' : entr'[i] = IF i = nextid THEN row ELSE entr[i]
  BY DEF Insert, IInv, CorporaOK
<1>2. DOMAIN entr \subseteq 1 .. MaxId /\ MaxId \in Nat
  BY BoundsAreNumbers DEF IInv, EntrOK
<1>3. /\ nextid' \in Nat \ {0}
      /\ \A i \in DOMAIN entr' : i < nextid'
      /\ \A i \in DOMAIN entr' : IF i = nextid THEN entr'[i] = row
                                 ELSE i \in DOMAIN entr /\ entr'[i] = entr[i]
  BY <1>1, <1>2
<1>4. EntrOK'
  <2>1. entr' \in [DOMAIN entr' -> EntrRows]
    <3>1. \A i \in DOMAIN entr' : entr'[i] \in EntrRows
      BY <1>3 DEF EntrOK, IInv
    <3> QED
      BY <3>1 DEF Insert
  <2> QED
    BY <1>1, <1>2, <1>3, <2>1 DEF EntrOK, IInv
<1> QED
  BY <1>3, <1>4
\* The rows of a file as import.sql inserts them.
LEMMA LoadedRows ==
  ASSUME IInv, load.on, LoadedIds \subseteq 1 .. MaxId
  PROVE  /\ DOMAIN Loaded = DOMAIN entr \cup LoadedIds
         /\ \A k \in DOMAIN load.file.rows :
              /\ load.maxid + k \in LoadedIds
              /\ (load.maxid + k) - load.maxid = k
              /\ Loaded[load.maxid + k] =
                   [src |-> load.kw, num |-> load.file.rows[k].num,
                    idx |-> load.file.rows[k].idx, dfrm |-> NoRow,
                    unap |-> load.file.rows[k].unap]
              /\ Loaded[load.maxid + k] \in EntrRows
         /\ \A i \in DOMAIN entr \ LoadedIds : Loaded[i] = entr[i]
         /\ \A i \in DOMAIN Loaded : Loaded[i] \in EntrRows
<1>1. DOMAIN Loaded = DOMAIN entr \cup LoadedIds
      /\ \A i \in DOMAIN entr \ LoadedIds : Loaded[i] = entr[i]
  BY DEF Loaded
<1>2. load.file \in Files /\ load.kw \in Corpora /\ load.maxid \in Nat
  BY DEF IInv, LoadOK
<1>3. PICK n \in 1 .. MaxId : load.file.rows \in [1 .. n -> FileRows]
  BY <1>2, FilesAreFiles
<1>4. ASSUME NEW k \in DOMAIN load.file.rows
      PROVE  /\ load.maxid + k \in LoadedIds
             /\ (load.maxid + k) - load.maxid = k
             /\ Loaded[load.maxid + k] =
                  [src |-> load.kw, num |-> load.file.rows[k].num,
                   idx |-> load.file.rows[k].idx, dfrm |-> NoRow,
                   unap |-> load.file.rows[k].unap]
             /\ Loaded[load.maxid + k] \in EntrRows
  <2>1. k \in Nat /\ load.file.rows[k] \in FileRows
    BY <1>3, BoundsAreNumbers
  <2>2. load.maxid + k \in LoadedIds /\ (load.maxid + k) - load.maxid = k
    BY <1>2, <2>1 DEF LoadedIds
  <2>3. Loaded[load.maxid + k] =
          [src |-> load.kw, num |-> load.file.rows[k].num,
           idx |-> load.file.rows[k].idx, dfrm |-> NoRow,
           unap |-> load.file.rows[k].unap]
    BY <2>2 DEF Loaded
  <2> QED
    BY <1>2, <2>1, <2>2, <2>3 DEF FileRows, EntrRows
<1>5. \A i \in LoadedIds : \E k \in DOMAIN load.file.rows : i = load.maxid + k
  BY DEF LoadedIds
<1>6. \A i \in DOMAIN Loaded : Loaded[i] \in EntrRows
  BY <1>1, <1>4, <1>5 DEF IInv, EntrOK
<1> QED
  BY <1>1, <1>4, <1>6

\* The UPDATE sets parents, to any that it finds, and nothing else.
LEMMA RelinkedRows ==
  ASSUME NEW L, DOMAIN L \subseteq 1 .. MaxId, \A i \in DOMAIN L : L[i] \in EntrRows,
         NEW T \in Relinked(L)
  PROVE  /\ DOMAIN T = DOMAIN L
         /\ T \in [DOMAIN T -> EntrRows]
         /\ \A i \in DOMAIN L :
              /\ T[i] \in EntrRows
              /\ T[i].src = L[i].src /\ T[i].num = L[i].num
              /\ IF ParentsFor(L, i) = {} THEN T[i] = L[i]
                 ELSE T[i].dfrm \in ParentsFor(L, i)
<1> DEFINE edits == {i \in DOMAIN L : ParentsFor(L, i) # {}}
<1>1. PICK P \in {Q \in [edits -> DOMAIN L] :
                    \A i \in edits : Q[i] \in ParentsFor(L, i)} :
        T = [i \in DOMAIN L |->
               IF i \in edits THEN [L[i] EXCEPT !.dfrm = P[i]] ELSE L[i]]
  BY DEF Relinked
<1>2. DOMAIN T = DOMAIN L
  BY <1>1
<1>3. ASSUME NEW i \in DOMAIN L
      PROVE  /\ T[i] \in EntrRows
             /\ T[i].src = L[i].src /\ T[i].num = L[i].num
             /\ IF ParentsFor(L, i) = {} THEN T[i] = L[i]
                ELSE T[i].dfrm \in ParentsFor(L, i)
  <2>1. CASE i \in edits
    <3>1. P[i] \in ParentsFor(L, i) /\ P[i] \in 1 .. MaxId
      BY <1>1, <2>1
    <3>2. T[i] = [L[i] EXCEPT !.dfrm = P[i]]
      BY <1>1, <2>1
    <3>3. /\ T[i] \in EntrRows /\ T[i].dfrm = P[i]
          /\ T[i].src = L[i].src /\ T[i].num = L[i].num
      BY <3>1, <3>2 DEF EntrRows
    <3> QED
      BY <2>1, <3>1, <3>3
  <2>2. CASE i \notin edits
    BY <1>1, <2>2
  <2> QED
    BY <2>1, <2>2
<1>4. T \in [DOMAIN T -> EntrRows]
  BY <1>1, <1>2, <1>3
<1> QED
  BY <1>2, <1>3, <1>4
-----------------------------------------------------------------------------
(* The steps keep the invariant of NumbersAhead. *)

\* A corpus that is moved to another sequence keeps its entries; the sequences
\* are out of step.
LEMMA UpdateKeeps ==
  ASSUME NInv, NEW c \in Corpora, NEW s \in SeqNames, UpdateCorpus(c, s)
  PROVE  NInv'
<1>1. /\ c \in DOMAIN kwsrc /\ kwsrc' = [kwsrc EXCEPT ![c] = s]
      /\ seqs' = AfterChange(kwsrc', kwsrc[c])
      /\ synced' = FALSE /\ UNCHANGED <<entr, nextid, load>>
  BY DEF UpdateCorpus
<1>2. \A x \in DOMAIN seqs' : x \in DOMAIN seqs /\ seqs'[x] = seqs[x]
  BY <1>1 DEF AfterChange
<1>3. CorporaOK'
  BY <1>1, <1>2 DEF NInv, IInv, CorporaOK
<1>4. EntrOK' /\ LoadOK'
  BY <1>1 DEF NInv, IInv, EntrOK, LoadOK
<1> QED
  BY <1>1, <1>3, <1>4 DEF NInv, IInv, SequencesThere, NumbersAhead

\* With a corpus go its entries, and its sequence unless another corpus has it.
LEMMA DeleteKeeps ==
  ASSUME NInv, NEW c \in Corpora, DeleteCorpus(c)
  PROVE  NInv'
<1>1. /\ c \in DOMAIN kwsrc
      /\ kwsrc' = [d \in DOMAIN kwsrc \ {c} |-> kwsrc[d]]
      /\ seqs' = AfterChange(kwsrc', kwsrc[c])
      /\ entr' = [i \in DOMAIN entr \ EntriesOf(c) |-> entr[i]]
      /\ UNCHANGED <<nextid, load, synced>>
  BY DEF DeleteCorpus
<1>2. \A x \in DOMAIN seqs' : x \in DOMAIN seqs /\ seqs'[x] = seqs[x]
  BY <1>1 DEF AfterChange
<1>3. \A i \in DOMAIN entr' : /\ i \in DOMAIN entr /\ entr'[i] = entr[i]
                              /\ entr[i].src # c
  <2>1. \A i \in DOMAIN entr : entr[i].src = c => i \in EntriesOf(c)
    BY DEF EntriesOf, Trees!Descendants
  <2> QED
    BY <1>1, <2>1
<1>4. EntrOK'
  BY <1>1, <1>3 DEF NInv, IInv, EntrOK
<1>5. CorporaOK' /\ LoadOK'
  BY <1>1, <1>2 DEF NInv, IInv, CorporaOK, LoadOK
<1>6. ASSUME synced, NEW d \in DOMAIN kwsrc'
      PROVE  kwsrc'[d] = kwsrc[d] /\ kwsrc[d] \in DOMAIN seqs'
  <2>1. kwsrc'[d] = kwsrc[d] /\ kwsrc[d] \in DOMAIN seqs
    BY <1>1, <1>6 DEF NInv, SequencesThere, InUse
  <2>2. kwsrc[d] \in InUse(kwsrc')
    BY <2>1 DEF InUse
  <2> QED
    BY <1>1, <2>1, <2>2 DEF AfterChange
<1>7. SequencesThere'
  BY <1>1, <1>6 DEF SequencesThere, InUse
<1>8. NumbersAhead'
  <2>1. \A i \in DOMAIN entr' : i < nextid'
    BY <1>1, <1>3 DEF NInv, NumbersAhead
  <2>2. ASSUME synced, NEW i \in DOMAIN entr'
        PROVE  entr'[i].num < seqs'[kwsrc'[entr'[i].src]]
    <3>1. entr[i].src \in DOMAIN kwsrc' /\ entr'[i] = entr[i]
      BY <1>1, <1>3 DEF NInv, IInv, EntrOK
    <3>2. entr[i].num < seqs[kwsrc[entr[i].src]]
      BY <1>3, <2>2 DEF NInv, NumbersAhead
    <3> QED
      BY <1>2, <1>6, <2>2, <3>1, <3>2
  <2> QED
    BY <1>1, <2>1, <2>2 DEF NumbersAhead
<1> QED
  BY <1>4, <1>5, <1>7, <1>8 DEF NInv, IInv

\* A new entry uses up a number, whether or not it is let in.
LEMMA NewEntryKeeps ==
  ASSUME NInv, NEW c \in Corpora, NEW u \in BOOLEAN, NewEntry(c, u)
  PROVE  NInv'
<1> DEFINE s == kwsrc[c]
           row == Row(c, seqs[s], u)
<1>1. /\ c \in DOMAIN kwsrc /\ s \in DOMAIN seqs
      /\ seqs[s] <= MaxNum
      /\ seqs' = [seqs EXCEPT ![s] = @ + 1]
      /\ UNCHANGED <<kwsrc, load, synced>>
  BY DEF NewEntry
<1>2. /\ DOMAIN seqs' = DOMAIN seqs
      /\ \A x \in DOMAIN seqs : /\ seqs[x] \in Nat \ {0}
                                /\ seqs'[x] = IF x = s THEN seqs[x] + 1 ELSE seqs[x]
  BY <1>1 DEF NInv, IInv, CorporaOK
<1>3. row \in EntrRows /\ row.src = c /\ row.num = seqs[s]
  <2>1. seqs[s] \in 1 .. MaxNum
    BY <1>1, <1>2, BoundsAreNumbers
  <2> QED
    BY <2>1 DEF Row, EntrRows
<1>4. /\ EntrOK' /\ nextid' \in Nat \ {0}
      /\ \A i \in DOMAIN entr' : i < nextid'
      /\ \A i \in DOMAIN entr' : \/ i = nextid /\ entr'[i] = row
                                 \/ i \in DOMAIN entr /\ entr'[i] = entr[i]
  <2>1. CASE Insert(row)
    BY <1>1, <1>3, <2>1, InsertKeeps DEF NInv, NumbersAhead
  <2>2. CASE nextid' = nextid + 1 /\ entr' = entr
    BY <1>1, <2>2 DEF NInv, IInv, NumbersAhead, CorporaOK, EntrOK
  <2> QED
    BY <2>1, <2>2 DEF NewEntry
<1>5. CorporaOK' /\ LoadOK'
  BY <1>1, <1>2, <1>4 DEF NInv, IInv, CorporaOK, LoadOK
<1>6. SequencesThere'
  BY <1>1, <1>2 DEF NInv, SequencesThere, InUse
<1>7. ASSUME synced, NEW i \in DOMAIN entr'
      PROVE  entr'[i].num < seqs'[kwsrc[entr'[i].src]]
  <2>1. CASE i = nextid /\ entr'[i] = row
    BY <1>1, <1>2, <1>3, <2>1
  <2>2. CASE i \in DOMAIN entr /\ entr'[i] = entr[i]
    <3>1. /\ entr[i].num \in Nat
          /\ entr[i].num < seqs[kwsrc[entr[i].src]]
          /\ kwsrc[entr[i].src] \in DOMAIN seqs
      BY <1>7, <2>2, BoundsAreNumbers
         DEF NInv, IInv, EntrOK, EntrRows, NumbersAhead, SequencesThere, InUse
    <3> QED
      BY <1>2, <2>2, <3>1
  <2> QED
    BY <1>4, <2>1, <2>2
<1> QED
  BY <1>1, <1>4, <1>5, <1>6, <1>7 DEF NInv, IInv, NumbersAhead
\* A number that an editor enters puts the sequences out of step.
LEMMA NewNumberedKeeps ==
  ASSUME NInv, NEW c \in Corpora, NEW k \in 1 .. MaxNum, NEW u \in BOOLEAN,
         NewNumbered(c, k, u)
  PROVE  NInv'
<1>1. /\ c \in DOMAIN kwsrc /\ Insert(Row(c, k, u))
      /\ synced' = FALSE /\ UNCHANGED <<kwsrc, seqs, load>>
  BY DEF NewNumbered
<1>2. Row(c, k, u) \in EntrRows /\ Row(c, k, u).src = c
  BY DEF Row, EntrRows
<1>3. /\ EntrOK' /\ nextid' \in Nat \ {0}
      /\ \A i \in DOMAIN entr' : i < nextid'
  BY <1>1, <1>2, InsertKeeps DEF NInv, NumbersAhead
<1> QED
  BY <1>1, <1>3
     DEF NInv, IInv, CorporaOK, LoadOK, SequencesThere, NumbersAhead

\* A row that is removed takes nothing with it.
LEMMA RemoveKeeps ==
  ASSUME NInv, NEW i \in DOMAIN entr, Remove(i)
  PROVE  NInv'
<1>1. /\ entr' = [j \in DOMAIN entr \ {i} |-> entr[j]]
      /\ UNCHANGED <<kwsrc, seqs, nextid, load, synced>>
  BY DEF Remove
<1>2. \A j \in DOMAIN entr' : j \in DOMAIN entr /\ entr'[j] = entr[j]
  BY <1>1
<1> QED
  BY <1>1, <1>2
     DEF NInv, IInv, EntrOK, CorporaOK, LoadOK, SequencesThere, NumbersAhead

\* A load that begins or is given up has changed nothing yet.
LEMMA LoadKeeps ==
  ASSUME NInv,
         (\E f \in Files, c \in Corpora : BeginLoad(f, c)) \/ AbortLoad
  PROVE  NInv'
<1>1. UNCHANGED <<entr, kwsrc, seqs, nextid, synced>>
  BY DEF BeginLoad, AbortLoad
<1>2. LoadOK'
  <2>1. ASSUME NEW f \in Files, NEW c \in Corpora, BeginLoad(f, c)
        PROVE  LoadOK'
    <3>1. load' = [on |-> TRUE, file |-> f, kw |-> c,
                   maxid |-> MaxOf(DOMAIN entr)]
      BY <2>1 DEF BeginLoad
    <3>2. MaxOf(DOMAIN entr) \in Nat
      <4>1. DOMAIN entr \in SUBSET (0 .. MaxId) /\ MaxId \in Nat
        BY BoundsAreNumbers DEF NInv, IInv, EntrOK
      <4> QED
        BY <4>1, MaxOfBounds
    <3> QED
      BY <3>1, <3>2 DEF LoadOK
  <2>2. CASE AbortLoad
    BY <2>2 DEF AbortLoad, NoLoad, LoadOK
  <2> QED
    BY <2>1, <2>2
<1> QED
  BY <1>1, <1>2
     DEF NInv, IInv, EntrOK, CorporaOK, SequencesThere, NumbersAhead

\* Loaded rows get ids that no row has, and entr_id_seq is moved past them.
LEMMA CommitKeeps ==
  ASSUME NInv, CommitLoad
  PROVE  NInv'
<1>1. /\ load.on /\ load.kw \notin DOMAIN kwsrc
      /\ LoadedIds \cap DOMAIN entr = {} /\ LoadedIds \subseteq 1 .. MaxId
      /\ kwsrc' = [d \in DOMAIN kwsrc \cup {load.kw} |->
                     IF d = load.kw THEN load.file.seq ELSE kwsrc[d]]
      /\ seqs' = AfterInsert(load.file.seq)
      /\ load' = NoLoad
      /\ synced' = FALSE
  BY DEF CommitLoad
<1>2. PICK T \in Relinked(Loaded) : entr' = T /\ nextid' = IdsAfterLoad(T)
  BY DEF CommitLoad
<1>3. load.file \in Files /\ load.kw \in Corpora /\ load.file.seq \in SeqNames
  BY <1>1, FilesAreFiles DEF NInv, IInv, LoadOK
<1>4. /\ DOMAIN Loaded = DOMAIN entr \cup LoadedIds
      /\ \A i \in DOMAIN Loaded : Loaded[i] \in EntrRows
      /\ \A i \in LoadedIds : Loaded[i].src = load.kw
      /\ \A i \in DOMAIN entr : Loaded[i] = entr[i]
  <2>1. IInv
    BY DEF NInv
  <2>2. \A i \in LoadedIds : \E k \in DOMAIN load.file.rows : i = load.maxid + k
    BY DEF LoadedIds
  <2>3. ASSUME NEW k \in DOMAIN load.file.rows
        PROVE  Loaded[load.maxid + k].src = load.kw
    <3>1. Loaded[load.maxid + k] =
            [src |-> load.kw, num |-> load.file.rows[k].num,
             idx |-> load.file.rows[k].idx, dfrm |-> NoRow,
             unap |-> load.file.rows[k].unap]
      BY <1>1, <2>1, LoadedRows
    <3> QED
      BY <3>1
  <2>4. /\ DOMAIN Loaded = DOMAIN entr \cup LoadedIds
        /\ \A i \in DOMAIN Loaded : Loaded[i] \in EntrRows
        /\ \A i \in DOMAIN entr \ LoadedIds : Loaded[i] = entr[i]
    BY <1>1, <2>1, LoadedRows
  <2> QED
    BY <1>1, <2>2, <2>3, <2>4
<1>5. DOMAIN Loaded \subseteq 1 .. MaxId
  BY <1>1, <1>4 DEF NInv, IInv, EntrOK
<1>6. /\ DOMAIN T = DOMAIN Loaded
      /\ T \in [DOMAIN T -> EntrRows]
      /\ \A i \in DOMAIN Loaded : T[i] \in EntrRows /\ T[i].src = Loaded[i].src
  BY <1>4, <1>5, RelinkedRows
<1>7. EntrOK'
  <2>1. \A i \in DOMAIN T : T[i].src \in DOMAIN kwsrc \cup {load.kw}
    BY <1>4, <1>6 DEF NInv, IInv, EntrOK
  <2> QED
    BY <1>1, <1>2, <1>5, <1>6, <2>1 DEF EntrOK
<1>8. nextid' \in Nat \ {0} /\ \A i \in DOMAIN entr' : i < nextid'
  <2>1. DOMAIN T \in SUBSET (0 .. MaxId) /\ MaxId \in Nat
    BY <1>5, <1>6, BoundsAreNumbers
  <2>2. MaxOf(DOMAIN T) \in 0 .. MaxId /\ \A i \in DOMAIN T : i <= MaxOf(DOMAIN T)
    BY <2>1, MaxOfBounds
  <2> QED
    BY <1>2, <2>1, <2>2 DEF IdsAfterLoad
<1>9. CorporaOK'
  <2>1. \A c \in DOMAIN kwsrc' : kwsrc'[c] \in SeqNames
    BY <1>1, <1>3 DEF NInv, IInv, CorporaOK
  <2>2. \A x \in DOMAIN seqs' : seqs'[x] \in Nat \ {0}
    BY <1>1 DEF AfterInsert, NInv, IInv, CorporaOK
  <2> QED
    BY <1>8, <2>1, <2>2 DEF CorporaOK
<1>10. LoadOK'
  BY <1>1 DEF LoadOK, NoLoad
<1> QED
  BY <1>1, <1>7, <1>8, <1>9, <1>10
     DEF NInv, IInv, SequencesThere, NumbersAhead

\* syncseq.sql moves every sequence past the numbers of all corpora that take
\* theirs from it.
LEMMA SyncKeeps ==
  ASSUME NInv, SyncSeq
  PROVE  NInv'
<1>1. /\ InUse(kwsrc) \subseteq DOMAIN seqs
      /\ nextid' = IF entr = [i \in {} |-> NoRow] THEN nextid
                   ELSE Max(DOMAIN entr) + 1
      /\ seqs' = [s \in DOMAIN seqs |->
                    IF s \in InUse(kwsrc) THEN Max({MaxNumber(s), 1}) + 1
                    ELSE seqs[s]]
      /\ UNCHANGED <<entr, kwsrc, load>>
  BY DEF SyncSeq
<1>2. MaxId \in Nat /\ MaxNum \in Nat /\ MaxNum + 1 \in Nat
  BY BoundsAreNumbers
<1>3. nextid' \in Nat \ {0} /\ \A i \in DOMAIN entr : i < nextid'
  <2>1. CASE entr = [i \in {} |-> NoRow]
    BY <1>1, <2>1 DEF NInv, IInv, CorporaOK
  <2>2. CASE entr # [i \in {} |-> NoRow]
    <3>1. DOMAIN entr # {}
      BY <2>2 DEF NInv, IInv, EntrOK
    <3>2. DOMAIN entr \in SUBSET (0 .. MaxId)
      BY <1>2 DEF NInv, IInv, EntrOK
    <3>3. Max(DOMAIN entr) \in DOMAIN entr
          /\ \A i \in DOMAIN entr : i <= Max(DOMAIN entr)
      BY <1>2, <3>1, <3>2, MaxIsMax
    <3>4. Max(DOMAIN entr) \in 0 .. MaxId
      BY <3>2, <3>3
    <3> QED
      BY <1>1, <1>2, <2>2, <3>2, <3>3, <3>4
  <2> QED
    BY <2>1, <2>2
<1>4. ASSUME NEW s \in InUse(kwsrc)
      PROVE  /\ seqs'[s] \in Nat \ {0}
             /\ \A i \in DOMAIN entr : kwsrc[entr[i].src] = s => entr[i].num < seqs'[s]
  <2> DEFINE nums == {entr[i].num : i \in {j \in DOMAIN entr : kwsrc[entr[j].src] = s}}
  <2>1. nums \in SUBSET (0 .. MaxNum)
    BY <1>2 DEF NInv, IInv, EntrOK, EntrRows
  <2>2. MaxNumber(s) \in 0 .. MaxNum /\ \A k \in nums : k <= MaxNumber(s)
    BY <1>2, <2>1, MaxOfBounds DEF MaxNumber
  <2>3. {MaxNumber(s), 1} \in SUBSET (0 .. MaxNum + 1) /\ {MaxNumber(s), 1} # {}
    BY <1>2, <2>2
  <2>4. /\ Max({MaxNumber(s), 1}) \in {MaxNumber(s), 1}
        /\ \A k \in {MaxNumber(s), 1} : k <= Max({MaxNumber(s), 1})
    BY <1>2, <2>3, MaxIsMax
  <2>5. seqs'[s] = Max({MaxNumber(s), 1}) + 1
    BY <1>1
  <2>6. Max({MaxNumber(s), 1}) \in Nat /\ MaxNumber(s) <= Max({MaxNumber(s), 1})
    BY <1>2, <2>2, <2>4
  <2>7. \A i \in DOMAIN entr : kwsrc[entr[i].src] = s =>
          entr[i].num \in nums /\ entr[i].num \in Nat
    BY <1>2 DEF NInv, IInv, EntrOK, EntrRows
  <2> HIDE DEF nums
  <2>8. ASSUME NEW k \in Nat, k \in nums
        PROVE  k < seqs'[s]
    BY <1>2, <2>2, <2>5, <2>6, <2>8
  <2>9. seqs'[s] \in Nat \ {0}
    BY <2>5, <2>6
  <2> QED
    BY <2>7, <2>8, <2>9
<1>5. CorporaOK'
  BY <1>1, <1>3, <1>4 DEF NInv, IInv, CorporaOK
<1>6. NumbersAhead'
  <2>1. \A i \in DOMAIN entr : kwsrc[entr[i].src] \in InUse(kwsrc)
    BY DEF NInv, IInv, EntrOK, InUse
  <2> QED
    BY <1>1, <1>3, <1>4, <2>1 DEF NumbersAhead
<1> QED
  BY <1>1, <1>5, <1>6
     DEF NInv, IInv, EntrOK, LoadOK, SequencesThere, InUse

\* Every step keeps the invariant.
LEMMA StepKeeps ==
  ASSUME NInv, [Next]_vars
  PROVE  NInv'
<1>1. CASE UNCHANGED vars
  BY <1>1 DEF vars, NInv, IInv, EntrOK, CorporaOK, LoadOK, SequencesThere,
              InUse, NumbersAhead
<1> QED
  BY <1>1, UpdateKeeps, DeleteKeeps, NewEntryKeeps, NewNumberedKeeps,
     RemoveKeeps, LoadKeeps, CommitKeeps, SyncKeeps DEF Next

\* "The values must be reset following a bulk load" (syncseq.sql): ids are
\* always ahead of those of the rows, and from the time syncseq.sql has run
\* until a load, a number entered by hand or a new sequence disturbs them,
\* numbers are ahead of those of every corpus that shares the sequence.  This
\* holds whether or not corpora are given sequences that are not there.
THEOREM NumbersStayAhead == Spec => []NumbersAhead
<1>1. Init => NInv
  BY DEF Init, NInv, IInv, EntrOK, CorporaOK, LoadOK, NoLoad, SequencesThere,
         InUse, NumbersAhead
<1>2. NInv /\ [Next]_vars => NInv'
  BY StepKeeps
<1>3. NInv => NumbersAhead
  BY DEF NInv
<1> QED
  BY <1>1, <1>2, <1>3, PTL DEF Spec
-----------------------------------------------------------------------------
(* Loads and the rows that are there. *)

\* While a load has begun, users add rows without an idx at most.
LEMMA StepsStayApart ==
  ASSUME ~MayMeet, AInv, [Next]_vars
  PROVE  AInv'
<1>1. NInv'
  BY StepKeeps DEF AInv
<1> SUFFICES ASSUME load'.on PROVE ParentsInFile' /\ ApartFromFile'
  BY <1>1 DEF AInv, ParentsInFile, ApartFromFile
<1>2. ASSUME NEW f \in Files, NEW c \in Corpora, BeginLoad(f, c),
             Meets(f) => MayMeet
      PROVE  ParentsInFile' /\ ApartFromFile'
  <2>1. /\ load'.file = f /\ entr' = entr
        /\ \A i \in DOMAIN f.rows : f.rows[i].dfrm # NoRow =>
             \E j \in DOMAIN f.rows : f.rows[j].idx = f.rows[i].dfrm
    BY <1>2 DEF BeginLoad
  <2>2. ~Meets(f)
    BY <1>2
  <2> QED
    BY <2>1, <2>2 DEF ParentsInFile, ApartFromFile, Meets
<1>3. ASSUME load' = load,
             \A i \in DOMAIN entr' : \/ entr'[i].idx = NoRow
                                     \/ i \in DOMAIN entr /\ entr'[i] = entr[i]
      PROVE  ParentsInFile' /\ ApartFromFile'
  BY <1>3 DEF AInv, ParentsInFile, ApartFromFile, Meets
<1>4. ASSUME NEW row, row.idx = NoRow, Insert(row), load' = load
      PROVE  ParentsInFile' /\ ApartFromFile'
  BY <1>3, <1>4 DEF Insert
<1>5. ASSUME NEW c \in Corpora, NEW k, NEW u
      PROVE  Row(c, k, u).idx = NoRow
  BY DEF Row
<1>6. ASSUME NEW c \in Corpora, DeleteCorpus(c)
      PROVE  ParentsInFile' /\ ApartFromFile'
  BY <1>3, <1>6 DEF DeleteCorpus
<1>7. ASSUME NEW i \in DOMAIN entr, Remove(i)
      PROVE  ParentsInFile' /\ ApartFromFile'
  BY <1>3, <1>7 DEF Remove
<1>8. ASSUME NEW c \in Corpora, NEW u \in BOOLEAN, NewEntry(c, u)
      PROVE  ParentsInFile' /\ ApartFromFile'
  <2>1. CASE entr' = entr
    BY <1>3, <1>8, <2>1 DEF NewEntry
  <2>2. CASE Insert(Row(c, seqs[kwsrc[c]], u))
    BY <1>4, <1>5, <1>8, <2>2 DEF NewEntry
  <2> QED
    BY <1>8, <2>1, <2>2 DEF NewEntry
<1>9. ASSUME NEW c \in Corpora, NEW k \in 1 .. MaxNum, NEW u \in BOOLEAN,
             NewNumbered(c, k, u)
      PROVE  ParentsInFile' /\ ApartFromFile'
  BY <1>4, <1>5, <1>9 DEF NewNumbered
<1>10. CASE load' = load /\ entr' = entr
  BY <1>3, <1>10
<1>11. ASSUME CommitLoad \/ AbortLoad
       PROVE  FALSE
  BY <1>11 DEF CommitLoad, AbortLoad, NoLoad
<1> QED
  BY <1>2, <1>6, <1>7, <1>8, <1>9, <1>10, <1>11
     DEF Next, UpdateCorpus, SyncSeq, vars

\* The rows that are there stay as they were, and the new ones are linked as
\* those of the file are.
LEMMA CommitLinks ==
  ASSUME EditsHaveIds, AInv, CommitLoad, NEW i \in DOMAIN entr'
  PROVE  IF i \in DOMAIN entr THEN entr'[i] = entr[i]
         ELSE LET r == load.file.rows[i - load.maxid] IN
              IF r.dfrm = NoRow THEN entr'[i].dfrm = NoRow
              ELSE /\ entr'[i].dfrm \in LoadedIds
                   /\ load.file.rows[entr'[i].dfrm - load.maxid].idx = r.dfrm
<1> DEFINE rows == load.file.rows
           L == Loaded
<1>1. /\ load.on /\ LoadedIds \cap DOMAIN entr = {} /\ LoadedIds \subseteq 1 .. MaxId
      /\ entr' \in Relinked(Loaded)
  BY DEF CommitLoad
<1>2. /\ load.file \in Files
      /\ DOMAIN entr \subseteq 1 .. MaxId
      /\ \A k \in DOMAIN rows : rows[k].dfrm # NoRow => rows[k].idx # NoRow
      /\ \A j, k \in DOMAIN rows : rows[j].idx = rows[k].idx /\ rows[j].idx # NoRow
                                     => j = k
      /\ \A k \in DOMAIN rows : rows[k].dfrm # NoRow =>
           \E j \in DOMAIN rows : rows[j].idx = rows[k].dfrm
      /\ \A e \in DOMAIN entr, k \in DOMAIN rows :
           entr[e].idx = rows[k].idx => entr[e].idx = NoRow
  BY <1>1, FilesAreFiles
     DEF AInv, NInv, IInv, LoadOK, EntrOK, EditsHaveIds, ParentsInFile,
         ApartFromFile, Meets
<1>3. /\ DOMAIN L = DOMAIN entr \cup LoadedIds
      /\ \A e \in DOMAIN entr : L[e] = entr[e]
      /\ \A e \in DOMAIN L : L[e] \in EntrRows
  BY <1>1, LoadedRows DEF AInv, NInv
<1>4. \A e \in LoadedIds : \E k \in DOMAIN rows : e = load.maxid + k
  BY DEF LoadedIds
<1>5. ASSUME NEW k \in DOMAIN rows
      PROVE  /\ load.maxid + k \in LoadedIds
             /\ (load.maxid + k) - load.maxid = k
             /\ L[load.maxid + k].idx = rows[k].idx
             /\ L[load.maxid + k].dfrm = NoRow
  <2>1. /\ load.maxid + k \in LoadedIds
        /\ (load.maxid + k) - load.maxid = k
        /\ L[load.maxid + k] =
             [src |-> load.kw, num |-> rows[k].num, idx |-> rows[k].idx,
              dfrm |-> NoRow, unap |-> rows[k].unap]
    BY <1>1, LoadedRows DEF AInv, NInv
  <2> QED
    BY <2>1
<1>6. /\ DOMAIN entr' = DOMAIN L
      /\ IF ParentsFor(L, i) = {} THEN entr'[i] = L[i]
         ELSE entr'[i].dfrm \in ParentsFor(L, i)
  <2>1. DOMAIN L \subseteq 1 .. MaxId
    BY <1>1, <1>2, <1>3
  <2>2. DOMAIN entr' = DOMAIN L
    BY <1>1, <1>3, <2>1, RelinkedRows
  <2> QED
    BY <1>1, <1>3, <2>1, <2>2, RelinkedRows
<1>7. \A p : p \in ParentsFor(L, i) <=>
        /\ p \in DOMAIN L
        /\ \E k \in DOMAIN rows : /\ rows[k].idx = L[i].idx /\ L[i].idx # NoRow
                                  /\ rows[k].dfrm = L[p].idx /\ L[p].idx # NoRow
  BY DEF ParentsFor
<1> HIDE DEF L
<1>8. CASE i \in DOMAIN entr
  <2>1. ParentsFor(L, i) = {}
    BY <1>2, <1>3, <1>7, <1>8
  <2> QED
    BY <1>3, <1>6, <1>8, <2>1
<1>9. CASE i \notin DOMAIN entr
  <2>1. PICK k \in DOMAIN rows : i = load.maxid + k
    BY <1>3, <1>4, <1>6, <1>9
  <2>2. i - load.maxid = k /\ L[i].idx = rows[k].idx /\ L[i].dfrm = NoRow
    BY <1>5, <2>1
  <2>3. CASE rows[k].dfrm = NoRow
    <3>1. ParentsFor(L, i) = {}
      BY <1>2, <1>7, <2>2, <2>3
    <3> QED
      BY <1>6, <1>9, <2>2, <2>3, <3>1
  <2>4. CASE rows[k].dfrm # NoRow
    <3>1. PICK j \in DOMAIN rows : rows[j].idx = rows[k].dfrm
      BY <1>2, <2>4
    <3>2. load.maxid + j \in ParentsFor(L, i)
      BY <1>2, <1>3, <1>5, <1>7, <2>2, <2>4, <3>1
    <3>3. ASSUME NEW p \in ParentsFor(L, i)
          PROVE  p \in LoadedIds /\ rows[p - load.maxid].idx = rows[k].dfrm
      <4>1. p \in DOMAIN L /\ L[p].idx = rows[k].dfrm /\ L[p].idx # NoRow
        BY <1>2, <1>7, <2>2
      <4>2. p \notin DOMAIN entr
        BY <1>2, <1>3, <3>1, <4>1
      <4>3. PICK m \in DOMAIN rows : p = load.maxid + m
        BY <1>3, <1>4, <4>1, <4>2
      <4> QED
        BY <1>5, <4>1, <4>3
    <3> QED
      BY <1>6, <1>9, <2>2, <2>4, <3>2, <3>3
  <2> QED
    BY <2>3, <2>4
<1> QED
  BY <1>8, <1>9

\* "Update the 'dfrm' values to the equivalent id's of the correct rows"
\* (import.sql): while a file has no ids of rows of another one, and its edits
\* have ids, a load leaves the rows that were there as they were and links the
\* new ones as those of the file are, whatever is entered in between.
THEOREM LoadsKeepApart ==
  ASSUME ~MayMeet, EditsHaveIds
  PROVE  Spec => LoadsApart
<1>1. Init => AInv
  BY DEF Init, AInv, NInv, IInv, EntrOK, CorporaOK, LoadOK, NoLoad,
         SequencesThere, InUse, NumbersAhead, ParentsInFile, ApartFromFile
<1>2. AInv /\ [Next]_vars => AInv'
  BY StepsStayApart
<1>3. AInv /\ [Next]_vars =>
        [load.on /\ kwsrc' # kwsrc /\ load.kw \in DOMAIN kwsrc' \ DOMAIN kwsrc =>
           \A i \in DOMAIN entr' :
             IF i \in DOMAIN entr THEN entr'[i] = entr[i]
             ELSE LET r == load.file.rows[i - load.maxid] IN
                  IF r.dfrm = NoRow THEN entr'[i].dfrm = NoRow
                  ELSE /\ entr'[i].dfrm \in LoadedIds
                       /\ load.file.rows[entr'[i].dfrm - load.maxid].idx = r.dfrm
        ]_vars
  <2> SUFFICES ASSUME AInv, [Next]_vars,
                      load.kw \in DOMAIN kwsrc' \ DOMAIN kwsrc
               PROVE  CommitLoad
    BY CommitLinks
  <2>1. ~ UNCHANGED kwsrc
    OBVIOUS
  <2>2. ASSUME NEW c \in Corpora, NEW s \in SeqNames, UpdateCorpus(c, s)
        PROVE  FALSE
    BY <2>2 DEF UpdateCorpus
  <2>3. ASSUME NEW c \in Corpora, DeleteCorpus(c)
        PROVE  FALSE
    BY <2>3 DEF DeleteCorpus
  <2> QED
    BY <2>1, <2>2, <2>3
       DEF Next, NewEntry, NewNumbered, Remove, BeginLoad, AbortLoad, SyncSeq, vars
<1> QED
  BY <1>1, <1>2, <1>3, PTL DEF Spec, LoadsApart
=============================================================================
