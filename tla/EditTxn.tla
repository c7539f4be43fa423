------------------------------ MODULE EditTxn ------------------------------
(***************************************************************************)
(* The calls of submission() as database transactions.                     *)
(*                                                                         *)
(* A web request (jmdictdb/views/submit.py) runs submission() in a         *)
(* transaction of its own at isolation level SERIALIZABLE: all it reads is *)
(* the table as it was when the transaction began.  A job of bin/bulkupd.py*)
(* runs it at the server's default level, READ COMMITTED: it checks the    *)
(* edit tree in one statement and changes the table in a later one.  So    *)
(* does bin/dbreaper.py: it finds the entries to expunge, writes a log of  *)
(* them, and deletes what it has found.                                    *)
(*                                                                         *)
(* PostgreSQL is modelled by what the code relies on.  Two serializable    *)
(* transactions that work on one edit tree conflict both ways, since each  *)
(* reads the tree's paths (get_edpaths) and writes to the tree; once one   *)
(* has committed the other is doomed.  Any transaction may be rolled back  *)
(* at any time.  Index and foreign keys are checked against what has been  *)
(* committed; a serializable transaction is also rolled back when its      *)
(* cascade would reach rows that its snapshot does not have.               *)
(***************************************************************************)
EXTENDS EntrTable

CONSTANTS AllowForks, Corpus,
          Requests,    \* web requests that may be under way at once
          Jobs,        \* runs of bulkupd.py
          Reapers      \* runs of dbreaper.py

ASSUME AllowForksIsBoolean == AllowForks \in BOOLEAN
ASSUME CorpusIsLoaded == Corpus \subseteq EntrIds /\ IsFiniteSet(Corpus)
ASSUME ReapersDiffer == Reapers \cap (Requests \cup Jobs) = {}

VARIABLES entr, used,   \* as in EditTree
          txn           \* what each transaction is about to do

vars == <<entr, used, txn>>

Txns == Requests \cup Jobs \cup Reapers

Atomic == INSTANCE EditTree

-----------------------------------------------------------------------------
(* What a call decides to do from what it has read: the rows to DELETE, the *)
(* rows that these take with them, and the row to INSERT.                   *)

OK(T, c) == CASE c.disp = ""  -> SubmitOK(T, c)
              [] c.disp = "a" -> ApproveOK(T, c)
              [] c.disp = "r" -> RejectOK(T, c)

Superseded(T, c) ==
  CASE c.disp = "a" /\ c.dfrm # NoEntr -> {Root(T, c.dfrm)}
    [] c.disp = "r" -> {First(T, RejectSet(T, c.dfrm))}
    [] OTHER -> {}

NewRow(T, c) == CASE c.disp = ""  -> SubmittedRow(T, c)
                  [] c.disp = "a" -> ApprovedRow(T, c)
                  [] c.disp = "r" -> RejectedRow(T, c)

Cascade(T, S) == UNION {Descendants(T, e) : e \in S \cap DOMAIN T}

\* The edit tree that get_edpaths() reads; a new entry has none.
Tree(T, c) == IF c.dfrm = NoEntr THEN NoEntr ELSE Root(T, c.dfrm)

Idle == [open |-> FALSE]

\* A transaction that has made its checks; doomed once another transaction
\* has overwritten what it read.
Checked(c) ==
  [open |-> TRUE, doomed |-> FALSE, tree |-> Tree(entr, c),
   del |-> Superseded(entr, c), gone |-> Cascade(entr, Superseded(entr, c)),
   row |-> NewRow(entr, c)]

Init == Atomic!Init /\ txn = [t \in Txns |-> Idle]

-----------------------------------------------------------------------------
Take(n) == n \in EntrIds \ used /\ used' = used \cup {n}

\* DELETE, as it finds the table when it is executed.
Remaining(t) ==
  [i \in DOMAIN entr \ Cascade(entr, txn[t].del) |-> entr[i]]

\* A mutant of ConstraintsOK: no checks by the database.
Unconstrained(t) == TRUE

\* What the database checks when the row is inserted: foreign key and index.
ConstraintsOK(t) ==
  /\ txn[t].row.dfrm \in DOMAIN entr \cup {NoEntr}
  /\ Fits(Remaining(t), txn[t].row)

\* A mutant of Conflicts: as under isolation level REPEATABLE READ.
ConflictsOfSnapshots(t, u) == FALSE

\* Transactions of one tree conflict; a new entry has no tree.
Conflicts(t, u) == txn[t].tree # NoEntr /\ txn[t].tree = txn[u].tree

\* What is left of the transactions when t has committed.
AfterCommit(t) ==
  [u \in Txns |->
     IF u = t THEN Idle
     ELSE IF {t, u} \subseteq Requests /\ txn[u].open /\ Conflicts(t, u)
          THEN [txn[u] EXCEPT !.doomed = TRUE]
          ELSE txn[u]]

\* A call that its checks refuse is rolled back without a trace.
Begin(t, c) ==
  /\ ~txn[t].open
  /\ OK(entr, c)
  /\ txn' = [txn EXCEPT ![t] = Checked(c)]
  /\ UNCHANGED <<entr, used>>

\* The server gives up, or the connection breaks.
Rollback(t) ==
  /\ txn[t].open
  /\ txn' = [txn EXCEPT ![t] = Idle]
  /\ UNCHANGED <<entr, used>>

\* A serializable transaction deletes exactly the rows that it has read.
NotOverrun(t) ==
  /\ txn[t].del \subseteq DOMAIN entr
  /\ Cascade(entr, txn[t].del) = txn[t].gone

Write(t, n) ==
  /\ ConstraintsOK(t)
  /\ Take(n)
  /\ entr' = InsertRow(Remaining(t), n, txn[t].row)
  /\ txn' = AfterCommit(t)

CommitRequest(t, n) ==
  /\ t \in Requests
  /\ txn[t].open /\ ~txn[t].doomed
  /\ NotOverrun(t)
  /\ Write(t, n)

CommitJob(t, n) == t \in Jobs /\ txn[t].open /\ Write(t, n)

\* The calls that bulkupd.py makes: edits of entries that exist, which keep
\* their corpus and number; forks are allowed, and nothing is rejected.
JobCall(c) == /\ c.disp # "r" /\ c.forks
              /\ c.dfrm \in DOMAIN entr /\ c.key = entr[c.dfrm].key

\* find_entries() and del_entries() of dbreaper.py.
Find(t, S) ==
  /\ ~txn[t].open
  /\ S # {} /\ S \subseteq Atomic!Reapable(entr)
  /\ txn' = [txn EXCEPT ![t] = [open |-> TRUE, del |-> S]]
  /\ UNCHANGED <<entr, used>>

Expunge(t) ==
  /\ t \in Reapers /\ txn[t].open
  /\ entr' = Remaining(t)
  /\ txn' = AfterCommit(t)
  /\ UNCHANGED used

Next ==
  \/ \E t \in Requests, c \in Calls : (c.forks => AllowForks) /\ Begin(t, c)
  \/ \E t \in Jobs, c \in Calls : JobCall(c) /\ Begin(t, c)
  \/ \E t \in Txns : Rollback(t)
  \/ \E t \in Requests, n \in EntrIds : CommitRequest(t, n)
  \/ \E t \in Jobs, n \in EntrIds : CommitJob(t, n)
  \/ \E t \in Reapers, S \in SUBSET DOMAIN entr : Find(t, S)
  \/ \E t \in Reapers : Expunge(t)

Spec == Init /\ [][Next]_vars

-----------------------------------------------------------------------------
\* Web requests have the effect of calls of submission() made one after the
\* other ("Concurrency" in the header of submit.py): each commit is a step of
\* EditTree, whatever was committed between the checks and the writes.
ImplementsEditTree == Atomic!Spec

\* No edit that was committed is lost: its record is in the history of a row.
EditsKept ==
  \A n \in used \ Corpus :
    \E e \in DOMAIN entr : \E i \in 1 .. Len(entr[e].hist) : entr[e].hist[i] = n

\* Whatever the isolation level, the constraints of the table keep the shape
\* of the edit trees: no dangling or doubled parent, no edit of a rejected
\* entry, one published version of an entry.
ShapeKept == Atomic!LinksOK /\ Atomic!Rooted /\ Atomic!OneActive
=============================================================================
