------------------------------ MODULE Xresolv ------------------------------
(***************************************************************************)
(* Resolution of cross-references in bulk (bin/xresolv.py), while users    *)
(* edit.                                                                   *)
(*                                                                         *)
(* A reference to a word that is not known yet is a row of table xresolv:  *)
(* it names its target by reading, by kanji or by both.  The program reads *)
(* all these rows with their candidates (view vrslv), chooses a target for *)
(* each, writes rows of table xref for them, deletes the rows of xresolv   *)
(* that now have one, and commits.  The site resolves the references of a  *)
(* form itself (jdb.xresolv) and writes an entry with both kinds of row.   *)
(*                                                                         *)
(* Entries have one sense as far as their own references go, and are of    *)
(* one corpus; the options that select corpora and ranges of ids are left  *)
(* out, and all restrictions of readings but those to no kanji at all.     *)
(* COPY locks the rows that the new references lead from and to, so what   *)
(* is committed between COPY and COMMIT might as well come before: the     *)
(* write is one step.                                                      *)
(***************************************************************************)
EXTENDS EntrTable, FiniteSetsExt

CONSTANTS Corpus, AllowForks,   \* as in EditTree; ids are numbers
          NoTxt,                \* SQL NULL in rtxt and ktxt
          Words,      \* [rdng, kanj : texts, nokanji : numbers, ns : senses]
          Lists,      \* references that a form may have, [typ, rtxt, ktxt, tsens]
          NonActive   \* is the program given the option -i?

ASSUME IdsAreNumbers == EntrIds \subseteq Nat
ASSUME AllowForksIsBoolean == AllowForks \in BOOLEAN
ASSUME CorpusIsLoaded == Corpus \subseteq EntrIds /\ IsFiniteSet(Corpus)
ASSUME WordsHaveSenses == \A w \in Words : w.ns \in Nat \ {0}
ASSUME NonActiveIsBoolean == NonActive \in BOOLEAN

VARIABLES entr, used,  \* as in EditTree
          word,        \* the readings and kanji of each entry
          xref, xresolv,
          job          \* the program: idle, or with the rows that it will write

vars == <<entr, used, word, xref, xresolv, job>>

Trees == INSTANCE EditTree

Idle == [on |-> FALSE]

-----------------------------------------------------------------------------
(* What a reference may lead to. *)

\* Where e has the text: its place in the list, 0 when no text was given.
Places(list, txt) ==
  IF txt = NoTxt THEN {0} ELSE {i \in 1 .. Len(list) : list[i] = txt}

Matches(e, v) ==
  /\ Places(word[e].rdng, v.rtxt) # {}
  /\ Places(word[e].kanj, v.ktxt) # {}

Place(e, v) == <<CHOOSE i \in Places(word[e].rdng, v.rtxt) : TRUE,
                 CHOOSE j \in Places(word[e].kanj, v.ktxt) : TRUE>>

\* A reading that stands for the word without any kanji.
NoKanji(e, i) == word[e].kanj = <<>> \/ i \in word[e].nokanji

\* View vrkrestr: if both texts were given, the reading is one of the kanji.
Joined(e, v) ==
  /\ Matches(e, v)
  /\ v.rtxt # NoTxt /\ v.ktxt # NoTxt => Place(e, v)[1] \notin word[e].nokanji

\* The rows of vrslv that get_entr_cands() gets for one unresolved reference:
\* the entries that match, grouped by approval and by where they match.
\* Deleted and rejected ones are left out.
Candidates(z) ==
  LET es      == {e \in DOMAIN entr \ {z.entr} : Joined(e, z) /\ entr[e].stat = "A"}
      Sort(e) == [unap |-> entr[e].unap, place |-> Place(e, z),
                  nokanji |-> z.ktxt = NoTxt /\ NoKanji(e, Place(e, z)[1])]
      Group(s) == {e \in es : Sort(e) = s}
  IN  {[targ |-> Min(Group(s)), nentr |-> Cardinality(Group(s)),
        place |-> s.place, nokanji |-> s.nokanji] : s \in {Sort(e) : e \in es}}

\* A mutant of Best: the number of entries in a group does not matter.
BestOfAll(z) == Candidates(z)

\* choose_candidate(), in order of preference: a word in kana alone, a match
\* with the first reading or kanji, any match; but only of a single entry.
Best(z) ==
  LET clear == {c \in Candidates(z) : c.nentr = 1}
      kana  == {c \in clear : z.ktxt = NoTxt /\ c.place[1] = 1 /\ c.nokanji}
      first == {c \in clear : 1 \in {c.place[1], c.place[2]}}
  IN  IF kana # {} THEN kana ELSE IF first # {} THEN first ELSE clear

\* The first of the best, in the order of vrslv's "targ".
Chosen(z) ==
  LET best == Best(z) IN {c \in best : \A d \in best : c.targ <= d.targ}

TargetSense(z) == IF z.tsens = 0 THEN 1 ELSE z.tsens

\* The entries whose references are processed (c3 and c6 of the queries).
InScope(e) == entr[e].stat = "A" /\ (~NonActive => ~entr[e].unap)

\* A mutant of MkXref: numbered from 1.
MkXrefFirst(z, targ) ==
  [entr |-> z.entr, typ |-> z.typ, xref |-> 1, xentr |-> targ,
   xsens |-> TargetSense(z)]

MkXref(z, targ) ==
  [entr |-> z.entr, typ |-> z.typ, xref |-> z.ord, xentr |-> targ,
   xsens |-> TargetSense(z)]

\* process_entr_cands() for one reference: the row to write for it, or none;
\* mkxref() makes none when the target has fewer senses than are asked for.
Made(z) ==
  {MkXref(z, c.targ) : c \in {d \in Chosen(z) : /\ InScope(z.entr)
                                               /\ TargetSense(z) <= word[d.targ].ns}}

-----------------------------------------------------------------------------
(* Entries are loaded and entered with references. *)

\* The rows of xresolv for a list of references (setkeys).
Unresolved(e, list) ==
  {[entr |-> e, ord |-> i, typ |-> list[i].typ, rtxt |-> list[i].rtxt,
    ktxt |-> list[i].ktxt, tsens |-> list[i].tsens] : i \in 1 .. Len(list)}

\* resolv_xref(): the active entries that match, which must be one entry and
\* its edits, and have the sense.
Found(v) == {e \in DOMAIN entr : entr[e].stat = "A" /\ Matches(e, v)}

Resolves(v) ==
  /\ Found(v) # {}
  /\ \A e, f \in Found(v) : entr[e].key = entr[f].key /\ v.tsens <= word[e].ns

\* The senses of e that are meant.
SensesOf(e, v) == IF v.tsens = 0 THEN 1 .. word[e].ns ELSE {v.tsens}

Before(t, u) == \E k \in 1 .. 3 : t[k] < u[k] /\ \A j \in 1 .. k - 1 : t[j] = u[j]

\* jdb.xresolv() and setkeys(): what resolves becomes rows of xref, one for
\* each entry and sense, the rest rows of xresolv, each numbered from 1.
Resolved(n, list) ==
  LET found == {i \in 1 .. Len(list) : Resolves(list[i])}
      rows  == UNION {UNION {{<<i, e, s>> : s \in SensesOf(e, list[i])} :
                               e \in Found(list[i])} : i \in found}
  IN  {[entr |-> n, xref |-> Cardinality({t \in rows : ~Before(r, t)}),
        typ |-> list[r[1]].typ, xentr |-> r[2], xsens |-> r[3]] : r \in rows}

Remainder(list) == SelectSeq(list, LAMBDA v : ~Resolves(v))

\* References to the parent lead to the new row too.
ReverseRefs(n, d) == {[x EXCEPT !.xentr = n] : x \in {y \in xref : y.xentr = d}}

Init ==
  /\ Trees!Init
  /\ word \in [Corpus -> Words]
  /\ xref = {}
  /\ \E l \in [Corpus -> Lists] :
       xresolv = UNION {Unresolved(e, l[e]) : e \in Corpus}
  /\ job = Idle

\* A mutant of MayApprove: as if nothing were said of references.
AlwaysApprove(c, list) == TRUE

\* An entry with references that do not resolve is not approved.
MayApprove(c, list) == c.stat = "A" => Remainder(list) = <<>>

\* A user enters word w, or edits an entry to be w, with references.
Enter(c, n, w, list) ==
  /\ \/ Trees!Submit(c, n)
     \/ Trees!Approve(c, n) /\ MayApprove(c, list)
  /\ word' = [e \in DOMAIN entr' |-> IF e = n THEN w ELSE word[e]]
  /\ xref' = {x \in xref \cup Resolved(n, list) \cup ReverseRefs(n, c.dfrm) :
                {x.entr, x.xentr} \subseteq DOMAIN entr'}
  /\ xresolv' = {z \in xresolv : z.entr \in DOMAIN entr'}
                  \cup Unresolved(n, Remainder(list))
  /\ UNCHANGED job

-----------------------------------------------------------------------------
(* The program. *)

\* resolve().
Read ==
  /\ ~job.on
  /\ UNCHANGED <<entr, used, word, xref, xresolv>>
  /\ job' = [on |-> TRUE, new |-> UNION {Made(z) : z \in xresolv}]

\* The foreign keys and the primary key of xref.
CopyFits ==
  \A x \in job.new :
    /\ {x.entr, x.xentr} \subseteq DOMAIN entr
    /\ \A y \in xref :
         <<x.entr, x.xref, x.xentr, x.xsens>> # <<y.entr, y.xref, y.xentr, y.xsens>>

\* A mutant of Replaced: as with the option -k.
KeepAll(z, refs) == FALSE

\* del_xresolv(): "we assume here that xref.xref has the same value as
\* xresolv.ord".
Replaced(z, refs) ==
  /\ InScope(z.entr)
  /\ \E x \in refs : /\ x.entr = z.entr /\ x.typ = z.typ /\ x.xref = z.ord
                     /\ entr[x.xentr].stat = "A"

Write ==
  /\ job.on
  /\ job' = Idle
  /\ CopyFits
  /\ xref' = xref \cup job.new
  /\ xresolv' = {z \in xresolv : ~Replaced(z, xref')}
  /\ UNCHANGED <<entr, used, word>>

\* The whole batch is rolled back.
Fail ==
  /\ job.on
  /\ job' = Idle
  /\ ~CopyFits
  /\ UNCHANGED <<entr, used, word, xref, xresolv>>

\* Calls that leave entries active: an edit of an entry under its number, or
\* an entry with a number of its own.
PageCalls ==
  {c \in Calls :
     /\ c.disp # "r" /\ c.stat = "A"
     /\ IF c.dfrm = NoEntr
        THEN ~c.forks /\ \A e \in DOMAIN entr : entr[e].key # c.key
        ELSE /\ c.dfrm \in DOMAIN entr /\ c.key = entr[c.dfrm].key
             /\ c.forks => AllowForks}

\* ids in the order of entr_id_seq.
NextId == Min(EntrIds \ used)

Next ==
  \/ /\ EntrIds # used
     /\ \E c \in PageCalls, w \in Words, list \in Lists : Enter(c, NextId, w, list)
  \/ Read
  \/ Write
  \/ Fail

Spec == Init /\ [][Next]_vars

\* The program is run again and again, and a run of it goes on to its end.  Users may stop at any time.
Fairness == WF_vars(Read \/ Write \/ Fail)

FairSpec == Spec /\ Fairness

-----------------------------------------------------------------------------
\* "It is the job of this program [...] to convert the textual 'xresolv' table
\* xrefs into the id form" (xresolv.py): an unresolved reference disappears
\* only with its entry, or as one is written in its place that leads to an
\* entry with its text, whatever other references with its number there are.
UnresolvedKept ==
  [][\A z \in xresolv \ xresolv' :
       z.entr \in DOMAIN entr' =>
         \E x \in xref' \ xref :
           x.entr = z.entr /\ x.typ = z.typ /\ Matches(x.xentr, z)]_vars

\* What the program writes was chosen from a table that has changed since: it
\* still leads from one row to another one that is active and has the sense,
\* and stands for a reference that was waiting for it.
WrittenRight ==
  [][Write =>
       \A x \in xref' \ xref :
         /\ x.xentr \in DOMAIN entr \ {x.entr}
         /\ entr[x.xentr].stat = "A" /\ x.xsens <= word[x.xentr].ns
         /\ \E z \in xresolv : /\ z.entr = x.entr /\ z.ord = x.xref
                              /\ z.typ = x.typ /\ Matches(x.xentr, z)]_vars

\* "We will never choose a candidates row that has .nentr>1" and "an xref text
\* [...] is not found" (xresolv.py): a reference is resolved for sure when one
\* entry matches it, and never to one of several that match in the same way.
ClearChosen ==
  [][Read =>
       \A z \in xresolv : InScope(z.entr) =>
         LET es   == {e \in DOMAIN entr \ {z.entr} :
                        entr[e].stat = "A" /\ Joined(e, z)}
             mine == {x \in job'.new : x.entr = z.entr /\ x.xref = z.ord}
         IN  /\ \A e \in es : es = {e} /\ z.tsens <= word[e].ns
                               => \E x \in mine : x.xentr = e
             /\ \A x \in mine, e \in es :
                  word[e] = word[x.xentr] /\ entr[e].unap = entr[x.xentr].unap
                    => e = x.xentr]_vars

\* "It is the job of this program [...]": once no more is entered, all that
\* can be resolved is, although the batch that one reference fails is rolled
\* back with all the others in it.
AllGetResolved == <>[](\A z \in xresolv : Made(z) = {})
=============================================================================
