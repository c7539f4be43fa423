------------------------------ MODULE BulkLoad ------------------------------
(***************************************************************************)
(* Loading corpora in bulk, and the numbers that entries get.              *)
(*                                                                         *)
(* bin/pgload.py copies a file into schema "imp", then db/import.sql moves *)
(* it to the public tables: rows get new ids above the ones in use, and an *)
(* edit finds its parent again by "idx", the id it had in the database the *)
(* file came from.  Each corpus numbers its entries from a sequence that   *)
(* table kwsrc names and the trigger kwsrc_updseq keeps; db/syncseq.sql    *)
(* moves the sequences past the numbers in use after a load.  Users go on  *)
(* entering entries meanwhile.                                             *)
(*                                                                         *)
(* All rows are active.  Sequences count from 1 by 1.                      *)
(***************************************************************************)
EXTENDS Naturals, FiniteSets, FiniteSetsExt

CONSTANTS Corpora,      \* names of corpora (kw)
          SeqNames,     \* names of sequences
          Files,        \* files that may be loaded
          NoRow,        \* SQL NULL in "dfrm" and "idx"
          MayRename,    \* may a corpus be given a sequence that is not there?
          MayMeet,      \* may ids of a file be those of another file's rows?
          MaxId,        \* bound of entr_id_seq
          MaxNum        \* bound of the sequences

(***************************************************************************)
(* A file has one corpus: the name of its sequence, and rows, which have   *)
(* the ids 1, 2, ... in the file.  Rows have numbers of their own.         *)
(***************************************************************************)
FileRows == [num : 1 .. MaxNum, idx : Nat \cup {NoRow},
             dfrm : Nat \cup {NoRow}, unap : BOOLEAN]

ASSUME FilesAreFiles ==
  \A f \in Files :
    /\ f.seq \in SeqNames
    /\ \E n \in 1 .. MaxId : f.rows \in [1 .. n -> FileRows]
    /\ \A i, j \in DOMAIN f.rows : f.rows[i].idx = f.rows[j].idx
         /\ f.rows[i].idx # NoRow => i = j

ASSUME BoundsAreNumbers == MaxId \in Nat /\ MaxNum \in Nat

VARIABLES entr,     \* table entr: from ids to rows
          kwsrc,    \* table kwsrc: from corpora to the names of their sequences
          seqs,     \* the sequences that exist, and the next value of each
          nextid,   \* the next value of entr_id_seq
          load,     \* what import.sql is about to load
          synced    \* nothing has disturbed the sequences since syncseq.sql

vars == <<entr, kwsrc, seqs, nextid, load, synced>>

\* The edit trees of EntrTable, here with numbers for ids.
Trees == INSTANCE EntrTable
           WITH EntrIds <- 1 .. MaxId, NoEntr <- NoRow,
                Keys <- Corpora \X (1 .. MaxNum)

NoLoad == [on |-> FALSE]

Init ==
  /\ entr = [i \in {} |-> NoRow]
  /\ kwsrc = [c \in {} |-> NoRow]
  /\ seqs = [s \in {} |-> 0]
  /\ nextid = 1
  /\ load = NoLoad
  /\ synced = TRUE

-----------------------------------------------------------------------------
(* Corpora and their sequences. *)

InUse(K) == {K[c] : c \in DOMAIN K}

\* kwsrc_updseq(), when a row has been inserted.
AfterInsert(s) ==
  [x \in DOMAIN seqs \cup {s} |-> IF x \in DOMAIN seqs THEN seqs[x] ELSE 1]

\* A mutant of AfterChange: the sequence goes, whoever else uses it.
DropAlways(K, old) == [x \in DOMAIN seqs \ {old} |-> seqs[x]]

\* kwsrc_updseq(), when a row has been updated or deleted: a sequence that
\* is not in use any more is dropped.  None is made for the new name.
AfterChange(K, old) ==
  [x \in DOMAIN seqs \ ({old} \ InUse(K)) |-> seqs[x]]

\* An administrator gives a corpus another sequence.
UpdateCorpus(c, s) ==
  /\ c \in DOMAIN kwsrc /\ kwsrc[c] # s
  /\ kwsrc' = [kwsrc EXCEPT ![c] = s]
  /\ seqs' = AfterChange(kwsrc', kwsrc[c])
  /\ synced' = FALSE
  /\ UNCHANGED <<entr, nextid, load>>

\* The entries of a corpus and all the edits of these.
EntriesOf(c) ==
  UNION {Trees!Descendants(entr, i) : i \in {j \in DOMAIN entr : entr[j].src = c}}

\* An administrator deletes a corpus; its entries go with it.
DeleteCorpus(c) ==
  /\ c \in DOMAIN kwsrc
  /\ kwsrc' = [d \in DOMAIN kwsrc \ {c} |-> kwsrc[d]]
  /\ seqs' = AfterChange(kwsrc', kwsrc[c])
  /\ entr' = [i \in DOMAIN entr \ EntriesOf(c) |-> entr[i]]
  /\ UNCHANGED <<nextid, load, synced>>

-----------------------------------------------------------------------------
(* Entries. *)

\* The unique index on (src, seq) has room for a published row.
KeyIsFree(c, k) ==
  \A i \in DOMAIN entr : entr[i].src = c /\ entr[i].num = k => entr[i].unap

Row(c, k, unap) ==
  [src |-> c, num |-> k, idx |-> NoRow, dfrm |-> NoRow, unap |-> unap]

Insert(row) ==
  /\ nextid \notin DOMAIN entr /\ nextid <= MaxId
  /\ nextid' = nextid + 1
  /\ entr' = [i \in DOMAIN entr \cup {nextid} |->
                IF i = nextid THEN row ELSE entr[i]]

\* A new entry without a number: entr_seqdef() takes it from the sequence.  An
\* approval that the index refuses has used up the number all the same.
NewEntry(c, unap) ==
  /\ c \in DOMAIN kwsrc /\ kwsrc[c] \in DOMAIN seqs
  /\ seqs[kwsrc[c]] <= MaxNum
  /\ seqs' = [seqs EXCEPT ![kwsrc[c]] = @ + 1]
  /\ IF unap \/ KeyIsFree(c, seqs[kwsrc[c]])
     THEN Insert(Row(c, seqs[kwsrc[c]], unap))
     ELSE /\ nextid <= MaxId /\ nextid' = nextid + 1
          /\ UNCHANGED entr
  /\ UNCHANGED <<kwsrc, load, synced>>

\* An editor enters a number of his own.
NewNumbered(c, k, unap) ==
  /\ c \in DOMAIN kwsrc
  /\ unap \/ KeyIsFree(c, k)
  /\ Insert(Row(c, k, unap))
  /\ synced' = FALSE
  /\ UNCHANGED <<kwsrc, seqs, load>>

\* A row without edits is rejected or superseded, or expunged.
Remove(i) ==
  /\ i \in DOMAIN entr /\ ~Trees!HasEdits(entr, i)
  /\ entr' = [j \in DOMAIN entr \ {i} |-> entr[j]]
  /\ UNCHANGED <<kwsrc, seqs, nextid, load, synced>>

-----------------------------------------------------------------------------
(* pgload.py and import.sql. *)

MaxOf(S) == Max(S \cup {0})

\* pgload.py refuses a corpus name that is there.  The script reads the
\* highest id in use, and a file without a parent of one of its edits is
\* refused.
BeginLoad(f, c) ==
  /\ ~load.on /\ c \notin DOMAIN kwsrc
  /\ \A i \in DOMAIN f.rows :
       f.rows[i].dfrm # NoRow =>
         \E j \in DOMAIN f.rows : f.rows[j].idx = f.rows[i].dfrm
  /\ load' = [on |-> TRUE, file |-> f, kw |-> c, maxid |-> MaxOf(DOMAIN entr)]
  /\ UNCHANGED <<entr, kwsrc, seqs, nextid, synced>>

\* Rows of the table and of the file have the same idx.
Meets(f) ==
  \E i \in DOMAIN entr, j \in DOMAIN f.rows :
    entr[i].idx = f.rows[j].idx /\ entr[i].idx # NoRow

\* The ids that the rows of the file get.
LoadedIds == {load.maxid + i : i \in DOMAIN load.file.rows}

\* Table entr with the rows of the file, their parents not yet set.
Loaded ==
  [i \in DOMAIN entr \cup LoadedIds |->
     IF i \in LoadedIds
     THEN LET r == load.file.rows[i - load.maxid]
          IN  [src |-> load.kw, num |-> r.num, idx |-> r.idx, dfrm |-> NoRow,
               unap |-> r.unap]
     ELSE entr[i]]

\* A mutant of ParentsFor: parents by their place in the file, not by idx.
ParentsByPlace(T, i) ==
  {p \in DOMAIN T : \E r \in DOMAIN load.file.rows :
     /\ load.file.rows[r].idx = T[i].idx
     /\ load.file.rows[r].dfrm # NoRow
     /\ load.file.rows[r].dfrm + load.maxid = p}

\* The rows that the UPDATE joins with row i of the table: it may set dfrm to
\* any of these.
ParentsFor(T, i) ==
  {p \in DOMAIN T : \E r \in DOMAIN load.file.rows :
     /\ load.file.rows[r].idx = T[i].idx /\ T[i].idx # NoRow
     /\ load.file.rows[r].dfrm = T[p].idx /\ T[p].idx # NoRow}

\* Table entr when the parents have been set.
Relinked(T) ==
  LET edits == {i \in DOMAIN T : ParentsFor(T, i) # {}} IN
  {[i \in DOMAIN T |-> IF i \in edits THEN [T[i] EXCEPT !.dfrm = P[i]] ELSE T[i]] :
     P \in {Q \in [edits -> DOMAIN T] : \A i \in edits : Q[i] \in ParentsFor(T, i)}}

\* The check constraint and the unique index of table entr.
ConstraintsOK(T) ==
  /\ \A i \in DOMAIN T : T[i].dfrm # NoRow => T[i].unap
  /\ \A i, j \in DOMAIN T :
       /\ T[i].src = T[j].src /\ T[i].num = T[j].num
       /\ ~T[i].unap /\ ~T[j].unap
       => i = j

\* A mutant of IdsAfterLoad: entr_id_seq is left as it is.
IdsUnset(T) == nextid

\* setval('entr_id_seq', max(id)).
IdsAfterLoad(T) == MaxOf(DOMAIN T) + 1

CommitLoad ==
  /\ load.on /\ load.kw \notin DOMAIN kwsrc
  /\ LoadedIds \cap DOMAIN entr = {} /\ LoadedIds \subseteq 1 .. MaxId
  /\ \E T \in Relinked(Loaded) :
       /\ ConstraintsOK(T)
       /\ entr' = T
       /\ nextid' = IdsAfterLoad(T)
  /\ kwsrc' = [d \in DOMAIN kwsrc \cup {load.kw} |->
                 IF d = load.kw THEN load.file.seq ELSE kwsrc[d]]
  /\ seqs' = AfterInsert(load.file.seq)
  /\ load' = NoLoad
  /\ synced' = FALSE

\* ON_ERROR_STOP: nothing is loaded.
AbortLoad ==
  /\ load.on
  /\ load' = NoLoad
  /\ UNCHANGED <<entr, kwsrc, seqs, nextid, synced>>

-----------------------------------------------------------------------------
(* syncseq.sql. *)

\* A mutant of MaxNumber: some corpus that takes numbers from the sequence.
MaxNumberOfOne(s) ==
  LET c == CHOOSE d \in DOMAIN kwsrc : kwsrc[d] = s
  IN  MaxOf({entr[i].num : i \in {j \in DOMAIN entr : entr[j].src = c}})

\* The highest number in the corpora that take their numbers from s.
MaxNumber(s) ==
  MaxOf({entr[i].num : i \in {j \in DOMAIN entr : kwsrc[entr[j].src] = s}})

\* A sequence without entries is set to 1, so that 2 comes next.
SyncSeq ==
  /\ InUse(kwsrc) \subseteq DOMAIN seqs
  /\ nextid' = IF entr = [i \in {} |-> NoRow] THEN nextid
               ELSE Max(DOMAIN entr) + 1
  /\ seqs' = [s \in DOMAIN seqs |->
                IF s \in InUse(kwsrc) THEN Max({MaxNumber(s), 1}) + 1 ELSE seqs[s]]
  /\ synced' = TRUE
  /\ UNCHANGED <<entr, kwsrc, load>>

Next ==
  \/ \E c \in Corpora, s \in SeqNames :
       (s \in DOMAIN seqs \/ MayRename) /\ UpdateCorpus(c, s)
  \/ \E c \in Corpora : DeleteCorpus(c)
  \/ \E c \in Corpora, u \in BOOLEAN : NewEntry(c, u)
  \/ \E c \in Corpora, k \in 1 .. MaxNum, u \in BOOLEAN : NewNumbered(c, k, u)
  \/ \E i \in DOMAIN entr : Remove(i)
  \/ \E f \in Files, c \in Corpora : (Meets(f) => MayMeet) /\ BeginLoad(f, c)
  \/ CommitLoad
  \/ AbortLoad
  \/ SyncSeq

Spec == Init /\ [][Next]_vars

-----------------------------------------------------------------------------
\* "This allows every corpus to maintain its own sequence" (kwsrc_updseq): the
\* sequences that exist are those that corpora use.
SequencesMatch == DOMAIN seqs = InUse(kwsrc)

\* "The values must be reset following a bulk load" (syncseq.sql), and then
\* they stay right: no entry will be given an id that is taken, whatever has
\* been entered while a file was being loaded, and no new entry a number that
\* one of its corpus has, also when corpora share a sequence, as the -m option
\* makes them.  Ids are right all the time.
NumbersAhead ==
  /\ \A i \in DOMAIN entr : i < nextid
  /\ synced => \A i \in DOMAIN entr : entr[i].num < seqs[kwsrc[entr[i].src]]

\* "Update the 'dfrm' values to the equivalent id's of the correct rows"
\* (import.sql): a load leaves the rows that were there as they were, and the
\* new rows are linked as the rows of the file are.
LoadsApart ==
  [][load.on /\ kwsrc' # kwsrc /\ load.kw \in DOMAIN kwsrc' \ DOMAIN kwsrc =>
       \A i \in DOMAIN entr' :
         IF i \in DOMAIN entr THEN entr'[i] = entr[i]
         ELSE LET r == load.file.rows[i - load.maxid] IN
              IF r.dfrm = NoRow THEN entr'[i].dfrm = NoRow
              ELSE /\ entr'[i].dfrm \in LoadedIds
                   /\ load.file.rows[entr'[i].dfrm - load.maxid].idx = r.dfrm
    ]_vars
=============================================================================
