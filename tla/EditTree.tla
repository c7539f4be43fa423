------------------------------ MODULE EditTree ------------------------------
(***************************************************************************)
(* The edit trees of a JMdictDB database.  Each step is one committed call *)
(* of submission() (jmdictdb/submit.py) or one run of bin/dbreaper.py, and *)
(* takes effect at once: this is what the transactions of EditTxn promise. *)
(* A call that submission() refuses leaves the table as it was and is a    *)
(* stuttering step here.                                                   *)
(***************************************************************************)
EXTENDS EntrTable

CONSTANTS AllowForks,   \* do editors tick the box that allows a fork?
          Corpus        \* ids of the entries that were loaded in bulk

ASSUME AllowForksIsBoolean == AllowForks \in BOOLEAN
ASSUME CorpusIsLoaded == Corpus \subseteq EntrIds /\ IsFiniteSet(Corpus)

VARIABLES entr,   \* table entr
          used    \* ids that rows of the table have had

vars == <<entr, used>>

\* A loaded corpus: published entries, each with a key of its own and as yet
\* without history.
Init ==
  /\ \E k \in [Corpus -> Keys] :
       /\ \A i, j \in Corpus : k[i] = k[j] => i = j
       /\ entr = [i \in Corpus |-> [key |-> k[i], stat |-> "A", dfrm |-> NoEntr,
                                   unap |-> FALSE, hist |-> <<>>]]
  /\ used = Corpus

\* A mutant of Take: the sequence does not advance.
TakeUnrecorded(n) == n \notin used /\ UNCHANGED used

\* The id of a new row: the next value of entr_id_seq, never one given before.
Take(n) == n \notin used /\ used' = used \cup {n}

Submit(c, n) ==
  c.disp = "" /\ Take(n) /\ SubmitOK(entr, c) /\ entr' = Submitted(entr, c, n)

Approve(c, n) ==
  /\ c.disp = "a"
  /\ Take(n)
  /\ ApproveOK(entr, c)
  /\ Fits(WithoutTree(entr, c.dfrm), ApprovedRow(entr, c))
  /\ entr' = Approved(entr, c, n)

Reject(c, n) ==
  c.disp = "r" /\ Take(n) /\ RejectOK(entr, c) /\ entr' = Rejected(entr, c, n)

\* The entries that dbreaper.py finds: deleted or rejected for good, and
\* with no edit made from them.
Reapable(T) ==
  {e \in DOMAIN T : T[e].stat # "A" /\ ~T[e].unap /\ ~HasEdits(T, e)}

\* Which of them are old enough, and in the corpora asked for, is not modelled.
Reap(S) ==
  /\ S # {}
  /\ entr' = [i \in DOMAIN entr \ S |-> entr[i]]
  /\ UNCHANGED used

Next ==
  \/ \E c \in Calls : /\ c.forks => AllowForks
                      /\ \/ \E n \in EntrIds : Submit(c, n)
                         \/ \E n \in EntrIds : Approve(c, n)
                         \/ \E n \in EntrIds : Reject(c, n)
  \/ \E S \in SUBSET Reapable(entr) : Reap(S)

Spec == Init /\ [][Next]_vars

-----------------------------------------------------------------------------
TypeOK == IsTable(entr) /\ used \subseteq EntrIds /\ DOMAIN entr \subseteq used

\* An edit hangs from a row that exists and is not rejected, and is pending;
\* what is approved or rejected is a root.
LinksOK ==
  \A e \in DOMAIN entr :
    /\ entr[e].dfrm # NoEntr => /\ entr[e].dfrm \in DOMAIN entr
                                /\ entr[entr[e].dfrm].stat # "R"
                                /\ entr[e].unap
    /\ entr[e].stat = "R" => ~entr[e].unap

\* Every row is reached from exactly one root, so get_edpaths() always has a
\* root to report and the cascade of an approval removes one whole tree.
Rooted == IsForest(entr)

\* At most one published version of an entry (entrobjs.sql, unique index
\* entr_src_seq_idx).
OneActive ==
  \A e, f \in DOMAIN entr :
    /\ entr[e].key = entr[f].key
    /\ entr[e].stat = "A" /\ ~entr[e].unap
    /\ entr[f].stat = "A" /\ ~entr[f].unap
    => e = f

\* The history of an edit is its parent's history and one more record, its
\* own (setkeys() marks it with the id); an entry that is no edit ends its
\* history with its own record too, unless it was loaded and never edited.
HistoryChain ==
  \A e \in DOMAIN entr :
    LET h == entr[e].hist IN
    /\ \A i \in 1 .. Len(h) : h[i] \in used
    /\ \A i, j \in 1 .. Len(h) : h[i] = h[j] => i = j
    /\ IF entr[e].dfrm # NoEntr THEN h = Append(entr[entr[e].dfrm].hist, e)
       ELSE IF h = <<>> THEN e \in Corpus ELSE h[Len(h)] = e

IsHistoryPrefix(g, h) == Len(g) <= Len(h) /\ \A i \in 1 .. Len(g) : g[i] = h[i]

\* "History is not unknowingly discarded" (approve_ok): when a row goes, a
\* row that stays tells its whole history, unless it was reaped.
HistoryKept ==
  [][\A e \in DOMAIN entr \ DOMAIN entr' :
       \/ e \in Reapable(entr) /\ used' = used
       \/ \E n \in DOMAIN entr' \ DOMAIN entr :
            IsHistoryPrefix(entr[e].hist, entr'[n].hist)]_vars

\* A published entry is superseded, never just removed: by one new row that
\* is approved too and carries its history.  No rejection touches it.
PublishedSuperseded ==
  [][\A e \in DOMAIN entr \ DOMAIN entr' :
       entr[e].stat = "A" /\ ~entr[e].unap =>
         \E n \in DOMAIN entr' \ DOMAIN entr :
           /\ entr'[n].stat # "R" /\ ~entr'[n].unap
           /\ IsHistoryPrefix(entr[e].hist, entr'[n].hist)]_vars

\* An editor can always bring a pending edit to an end.  Every leaf that is
\* not approved can be rejected; reject() then has something to remove, as it
\* asserts, and removes one branch: that leaf and no other one of the tree.
PendingCanBeRejected ==
  \A e \in DOMAIN entr :
    ~HasEdits(entr, e) /\ entr[e].unap =>
      LET gone == Descendants(entr, First(entr, RejectSet(entr, e)))
      IN  /\ RejectOK(entr, [disp |-> "r", dfrm |-> e, stat |-> "A",
                             key |-> entr[e].key, forks |-> FALSE])
          /\ RejectSet(entr, e) # {}
          /\ gone = RejectSet(entr, e)
          /\ {l \in gone : ~HasEdits(entr, l)} = {e}
=============================================================================
