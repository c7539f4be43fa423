------------------------------ MODULE WebEdit ------------------------------
(***************************************************************************)
(* Editing on the web.  A user opens the edit form on an entry             *)
(* (views/edform.py), presses [Next] and is shown the edited entry with    *)
(* warnings (views/edconf.py), and presses [Submit] on that confirmation   *)
(* page (views/submit.py).  No lock is held from page to page: the entry,  *)
(* and the cross-references from and to it, travel in the page             *)
(* (serialize.py) as they were at [Next], and other users go on meanwhile. *)
(*                                                                         *)
(* A submission is one step here, as EditTxn shows that it may be taken to *)
(* be.  An entry is entered under a number of its own and keeps it; texts  *)
(* refer to entries by number.                                             *)
(***************************************************************************)
EXTENDS EntrTable

CONSTANTS Users,
          Corpus,       \* ids of the entries that were loaded in bulk
          AllowForks,   \* do editors tick the box that allows a fork?
          Wanted,       \* statuses that users ask for: "A", and "D" to delete
          Refs          \* numbers that texts refer to

ASSUME AllowForksIsBoolean == AllowForks \in BOOLEAN
ASSUME CorpusIsLoaded == Corpus \subseteq EntrIds /\ IsFiniteSet(Corpus)
ASSUME WantedIsStats == Wanted \subseteq {"A", "D"}
ASSUME RefsAreKeys == Refs \subseteq Keys

VARIABLES entr, used,   \* as in EditTree
          refs,         \* the numbers that the text of a row refers to
          xref,         \* table xref: pairs of rows, from and to
          page          \* what each user has on the screen

vars == <<entr, used, refs, xref, page>>

Trees == INSTANCE EditTree

NoPage == [at |-> "none"]

Init ==
  /\ Trees!Init
  /\ refs = [e \in Corpus |-> {}]
  /\ xref = {}
  /\ page = [u \in Users |-> NoPage]

-----------------------------------------------------------------------------
(* Cross-references. *)

\* resolv_xref(): the entries to which references to the numbers R resolve.
Targets(R) == {e \in DOMAIN entr : entr[e].stat = "A" /\ entr[e].key \in R}

From(e) == {b \in DOMAIN entr : <<e, b>> \in xref}

\* A mutant of To: reverse cross-references are not read with an entry.
ToNone(e) == {}

To(e) == {a \in DOMAIN entr : <<a, e>> \in xref}

\* Table xref when row n has been added with the given cross-references and
\* those of rows that are gone have been removed by their foreign keys.
WithXrefs(n, from, to) ==
  {x \in xref \cup ({n} \X to) \cup (from \X {n}) :
     x[1] \in DOMAIN entr' /\ x[2] \in DOMAIN entr'}

-----------------------------------------------------------------------------
(* The edit form. *)

OpenForm(u, e) ==
  /\ page[u].at = "none"
  /\ e \in DOMAIN entr \cup {NoEntr}
  /\ page' = [page EXCEPT ![u] = [at |-> "form", eid |-> e,
                                  hist |-> History(entr, e)]]
  /\ UNCHANGED <<entr, used, refs, xref>>

Leave(u) ==
  /\ page[u].at # "none"
  /\ page' = [page EXCEPT ![u] = NoPage]
  /\ UNCHANGED <<entr, used, refs, xref>>

-----------------------------------------------------------------------------
(* [Next]. *)

\* get_tail_and_leafs(): the edits made from e, unless they have forked.
TailOf(e) ==
  IF Cardinality(Leaves(entr, e)) = 1 THEN Descendants(entr, e) \ {e} ELSE {}

AllLeaves(e) == Leaves(entr, Root(entr, e))

\* The entry that the edit will hang from: the user is taken forward to the
\* end of the edits made meanwhile.
Parent(e, disp, forks) ==
  IF TailOf(e) # {} /\ ~forks /\ (disp = "" \/ Cardinality(AllLeaves(e)) = 1)
  THEN CHOOSE l \in Leaves(entr, e) : TRUE
  ELSE e

\* A mutant of MayConfirm: other branches of the tree are not looked at.
MayConfirmLeaf(d, disp, forks) == d \in AllLeaves(d) \/ (disp = "" /\ forks)

\* The errors that keep the user from the confirmation page.
MayConfirm(d, disp, forks) ==
  /\ d \in AllLeaves(d) \/ (disp = "" /\ forks)
  /\ disp = "a" => AllLeaves(d) = {d}

\* A mutant of Flagged: only the last of the edits made meanwhile.
FlaggedLast(e, d) == {d} \ {e}

\* The edits that the page shows in red: the history that other users have
\* added since the form was opened, as far as the parent has it.
Flagged(e, d) == TailOf(e) \cap {entr[d].hist[i] : i \in 1 .. Len(entr[d].hist)}

\* A key for a new entry, which its sequence has not given out before.
FreshKey(k) == \A e \in DOMAIN entr : entr[e].key # k

\* The confirmation page.  It carries the references as they resolve now;
\* those in "open" do not.  The table is kept for NextForesees alone.
Confirm(u, c, R, flagged) ==
  page' = [page EXCEPT
    ![u] = [at |-> "confirm", eid |-> page[u].eid, hist |-> page[u].hist,
            call |-> c, flagged |-> flagged, table |-> entr, refs |-> R,
            from |-> Targets(R), open |-> {k \in R : Targets({k}) = {}},
            to |-> IF c.dfrm = NoEntr THEN {} ELSE To(c.dfrm)]]

NextNew(u, c, R) ==
  /\ page[u].at = "form" /\ page[u].eid = NoEntr
  /\ c.dfrm = NoEntr /\ c.stat = "A" /\ c.disp # "r"
  /\ FreshKey(c.key)
  /\ Confirm(u, c, R, {})
  /\ UNCHANGED <<entr, used, refs, xref>>

NextEdit(u, c, R) ==
  /\ page[u].at = "form" /\ page[u].eid \in DOMAIN entr
  /\ c.stat = "D" => R = {}
  /\ c.forks => c.disp = "" /\ AllowForks
  /\ c.dfrm \in DOMAIN entr /\ c.key = entr[c.dfrm].key
  /\ c.dfrm = Parent(page[u].eid, c.disp, c.forks)
  /\ MayConfirm(c.dfrm, c.disp, c.forks)
  /\ Confirm(u, c, R, Flagged(page[u].eid, c.dfrm))
  /\ UNCHANGED <<entr, used, refs, xref>>

\* The browser's back button.
Back(u) ==
  /\ page[u].at = "confirm"
  /\ page' = [page EXCEPT ![u] = [at |-> "form", eid |-> page[u].eid,
                                  hist |-> page[u].hist]]
  /\ UNCHANGED <<entr, used, refs, xref>>

-----------------------------------------------------------------------------
(* [Submit]. *)

\* What the new row takes from the page.  A deletion takes all from the
\* parent, as it is in the database now.
RefsOf(p) == IF p.call.stat = "D" THEN refs[p.call.dfrm] ELSE p.refs
FromOf(p) == IF p.call.stat = "D" THEN From(p.call.dfrm) ELSE p.from
ToOf(p)   == IF p.call.stat = "D" THEN To(p.call.dfrm) ELSE p.to

\* An entry with references that resolve to nothing cannot be approved.  The
\* database refuses cross-references from or to rows that are gone.
Submit(u, n) ==
  LET p == page[u] IN
  /\ p.at = "confirm"
  /\ \/ Trees!Submit(p.call, n)
     \/ Trees!Approve(p.call, n) /\ (p.call.stat = "A" => p.open = {})
     \/ Trees!Reject(p.call, n)
  /\ LET there == IF p.call.disp = "a" THEN DOMAIN entr' ELSE DOMAIN entr
     IN  FromOf(p) \cup ToOf(p) \subseteq there
  /\ refs' = [e \in DOMAIN entr' |-> IF e = n THEN RefsOf(p) ELSE refs[e]]
  /\ xref' = WithXrefs(n, ToOf(p), FromOf(p))
  /\ page' = [page EXCEPT ![u] = NoPage]

\* The calls that a page makes.
PageCalls == {c \in Calls : c.stat \in Wanted}

Next ==
  \E u \in Users :
    \/ \E e \in EntrIds \cup {NoEntr} : OpenForm(u, e)
    \/ \E c \in PageCalls, R \in SUBSET Refs : c.key \notin R /\ NextNew(u, c, R)
    \/ \E c \in PageCalls, R \in SUBSET Refs : c.key \notin R /\ NextEdit(u, c, R)
    \/ \E n \in EntrIds : Submit(u, n)
    \/ Leave(u)
    \/ Back(u)

Spec == Init /\ [][Next]_vars

-----------------------------------------------------------------------------
InHist(e) == {entr'[e].hist[i] : i \in 1 .. Len(entr'[e].hist)}

\* "Your submission will overwrite these changes" (edconf.jinja): what a user
\* submits takes the place of edits that the entry on the form had in its
\* history, or that the confirmation page warned of; no others, however long
\* the user waited on each page.
OverwritesFlagged ==
  [][\A u \in Users : page[u].at = "confirm" /\ page'[u] # page[u] =>
       \A n \in DOMAIN entr' \ DOMAIN entr :
         InHist(n) \ {n} \subseteq
           page[u].flagged \cup {page[u].hist[i] : i \in 1 .. Len(page[u].hist)}
    ]_vars

\* "We should only hit this error if something changed between [Next] and
\* [Submit]" (submission): in the table that [Next] saw, no call of a
\* confirmation page fails the checks for edits made from the entry.
NextForesees ==
  \A u \in Users :
    page[u].at = "confirm" /\ page[u].call.dfrm # NoEntr =>
      LET c == page[u].call
          T == page[u].table
      IN  /\ HasEdits(T, c.dfrm) => c.forks
          /\ c.disp = "a" => IsOnlyLeaf(T, c.dfrm)
          /\ c.disp = "r" => ~HasEdits(T, c.dfrm)

Published(e) == entr[e].stat = "A" /\ ~entr[e].unap

\* "We need to copy these items from the original entry to the new, edited
\* entry to avoid loosing them" (edconf.py): the references in the text of a
\* published entry lead to the published entries that they name.
XrefsKept ==
  \A a, b \in DOMAIN entr :
    Published(a) /\ Published(b) /\ entr[b].key \in refs[a] => <<a, b>> \in xref
=============================================================================
