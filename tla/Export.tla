------------------------------- MODULE Export -------------------------------
(***************************************************************************)
(* bin/entrs2xml.py writes a corpus to an XML file while it is edited.     *)
(*                                                                         *)
(* The entries are read in blocks: one statement finds the ids of a block, *)
(* one statement for each table reads the rows, others read the entries    *)
(* that references lead to.  Each sees the database as it is at that       *)
(* moment, since dbread() commits.  The next block begins after the corpus,*)
(* number and id of the last entry read.                                   *)
(*                                                                         *)
(* Rows of table entr are those of EntrTable, changed as in EditTree, each *)
(* with the rest of the entry as a value of XmlText.  What becomes of the  *)
(* file is in XmlFile.                                                     *)
(***************************************************************************)
EXTENDS EntrTable, XmlFile, Listing

CONSTANTS AllowForks, Corpus,
          SeqNo,      \* key -> sequence number; keys are in order of (src, seq)
          SrcOf,      \* key -> corpus
          Loaded,     \* what the corpus may say at first, with its references
          Texts,      \* what may be submitted: an entry, its references, and
                      \* whether it is sent through the form
          Options     \* the options that the program may be run with

ASSUME IdsInOrder == EntrIds \subseteq Nat /\ Keys \subseteq Nat
ASSUME CorpusIsLoaded == Corpus \subseteq EntrIds /\ IsFiniteSet(Corpus)
ASSUME LinksAreLists == \A t \in Loaded \cup Texts : t.link \in Seq(Range(t.link))
ASSUME SensesAreForSome ==   \* restrs() raises RuntimeError for one that is not
  LET Ok(d) == \A s \in ToSet(d.sens) : ~NoneLeft(s.stagk, d.kanj) /\ ~NoneLeft(s.stagr, d.rdng)
  IN  /\ \A load \in Loaded : \A i \in Corpus : Ok(load.doc[i])
      /\ \A text \in Texts : Ok(text.doc)
ASSUME AllowForksIsBoolean == AllowForks \in BOOLEAN
ASSUME CountsAreCounts ==
  \A o \in Options :
    o.block \in Nat \ {0} /\ o.count \in Nat /\ NumbersOf(o.seqfile) \in Seq(Nat)

VARIABLES entr, used,  \* as in EditTree
          doc,         \* id -> the readings, kanji, senses... of an entry
          xref,        \* id -> the references of an entry, in order
          exp,         \* the program: where it is and what it has read
          file         \* the entries written

vars == <<entr, used, doc, xref, exp, file>>

Trees == INSTANCE EditTree

NoDoc == [kanj |-> <<>>, rdng |-> <<>>, sens |-> <<>>, grp |-> {}]
Idle == [at |-> "idle"]

-----------------------------------------------------------------------------
(* The entries, as users change them. *)

Published(e) == entr[e].stat = "A" /\ ~entr[e].unap

\* Reference x, once it has its entry.
Aimed(x, t) == [f \in DOMAIN x \cup {"xentr"} |-> IF f = "xentr" THEN t ELSE x[f]]

\* The references of a text that says d to entry t, which says D, as far as
\* they can be resolved.
RefsTo(link, d, t, D) ==
  LET Has(x) == /\ x.sens <= Len(d.sens) /\ x.xsens <= Len(D.sens)
                /\ x.kanj <= Len(D.kanj) /\ x.rdng <= Len(D.rdng)
      fit == Picked(link, {i \in DOMAIN link : Has(link[i])})
  IN  [i \in DOMAIN fit |-> Aimed(fit[i], t)]

\* A corpus is loaded in the order of its numbers.
Init ==
  /\ Trees!Init
  /\ \A i, j \in Corpus : i < j => entr[i].key < entr[j].key
  /\ \E load \in Loaded :
       /\ doc = load.doc
       /\ xref = [i \in Corpus |->
                    IF i # load.from THEN <<>>
                    ELSE RefsTo(load.link, doc[i], load.to, doc[load.to])]
  /\ exp = Idle
  /\ file = <<>>

\* realign_xrers(): the texts of a reference to an entry are where they are in
\* its edit now, if that has the sense and the texts.
Where(i, old, new) ==
  IF i = 0 THEN {0} ELSE {j \in DOMAIN new : new[j].txt = old[i].txt}
KanjIn(x, d) == Where(x.kanj, doc[x.xentr].kanj, d.kanj)
RdngIn(x, d) == Where(x.rdng, doc[x.xentr].rdng, d.rdng)
Realigns(x, d) == x.xsens <= Len(d.sens) /\ KanjIn(x, d) # {} /\ RdngIn(x, d) # {}
Realigned(x, n, d) ==
  [x EXCEPT !.xentr = n, !.kanj = Max(KanjIn(x, d)), !.rdng = Max(RdngIn(x, d))]

\* addentr(): a reference is entered without the flag that it names no sense.
AsEntered(list) == [i \in DOMAIN list |-> [list[i] EXCEPT !.nosens = FALSE]]

\* The references of e that go with no row.
Staying(e) == Picked(xref[e], {i \in DOMAIN xref[e] : xref[e][i].xentr \in DOMAIN entr'})

\* The references of e once entry n, which says d, is an edit of p: those to
\* rows that are gone go with them, and those to p are copied for n.
Standing(e, n, d, p) ==
  LET list == xref[e]
      toP  == Picked(list, {i \in DOMAIN list : list[i].xentr = p /\ Realigns(list[i], d)})
  IN  Staying(e) \o AsEntered([i \in DOMAIN toP |-> Realigned(toP[i], n, d)])

\* A submission that leaves the text alone.
Same == [doc |-> NoDoc, link |-> <<>>, form |-> TRUE]

\* rmdups() finds nothing.
Once(list) == IsInjective([i \in DOMAIN list |-> list[i].txt])
GlossOnce(list) == IsInjective([i \in DOMAIN list |-> <<list[i].lang, list[i].txt>>])
HasPos(s) == \E t \in s.tags : Tags[t].dom = "POS"

\* A slip: senses without glosses are let through.
NoErrorsButGloss(d) ==
  /\ d.rdng # <<>> /\ d.sens # <<>>
  /\ Once(d.rdng) /\ Once(d.kanj)
  /\ \A s \in ToSet(d.sens) : HasPos(s) /\ GlossOnce(s.gloss)

\* check_for_errors(), for a corpus of type "jmdict".
NoErrors(d) ==
  /\ d.rdng # <<>> /\ d.sens # <<>>
  /\ Once(d.rdng) /\ Once(d.kanj)
  /\ \A s \in ToSet(d.sens) : s.gloss # <<>> /\ HasPos(s) /\ GlossOnce(s.gloss)

\* The unique indexes of tables rdng, kanj and gloss.
Enterable(d) ==
  Once(d.rdng) /\ Once(d.kanj) /\ \A s \in ToSet(d.sens) : GlossOnce(s.gloss)

\* A submission with a text, the references of which lead to t.  A deletion
\* keeps the parent's; a rejection is made from a form that nobody changed.
\* What is sent past the form, by a program or as an entry put together
\* elsewhere, is not checked again: submission() leaves it to the database.
Change(c, n, text, t) ==
  LET kept == c.stat = "D" \/ c.disp = "r"
      d == IF kept THEN doc[c.dfrm] ELSE text.doc
  IN
  /\ n = 1 + Max(used)
  /\ kept <=> text = Same
  /\ ~kept => IF text.form THEN NoErrors(d) ELSE Enterable(d)
  /\ IF text.link = <<>> THEN t = n ELSE t \in DOMAIN entr \ {c.dfrm} /\ Published(t)
  /\ Trees!Submit(c, n) \/ Trees!Approve(c, n) \/ Trees!Reject(c, n)
  /\ t \in DOMAIN entr'
  /\ doc' = [i \in DOMAIN entr' |-> IF i = n THEN d ELSE doc[i]]
  /\ xref' = [i \in DOMAIN entr' |->
                IF i # n THEN Standing(i, n, d, c.dfrm)
                ELSE IF kept THEN AsEntered(Staying(c.dfrm))
                ELSE IF t = n THEN <<>> ELSE AsEntered(RefsTo(text.link, d, t, doc[t]))]
  /\ UNCHANGED <<exp, file>>

\* The calls considered: edits that keep their number, without forks.
PageCalls ==
  {c \in Calls : ~c.forks /\ c.dfrm \in DOMAIN entr /\ c.key = entr[c.dfrm].key}

-----------------------------------------------------------------------------
(* Finding a block. *)

Before(a, b) == entr[a].key < entr[b].key \/ (entr[a].key = entr[b].key /\ a < b)
ByNumber == {p \in (DOMAIN entr) \X (DOMAIN entr) : Before(p[1], p[2])}
FirstOf(n, list) == SubSeq(list, 1, IF n < Len(list) THEN n ELSE Len(list))

\* select_entries(): the public formats have what is published only.
Selected(e, o) ==
  /\ entr[e].key \in o.keys
  /\ Format[o.dtd].approved => Published(e)
  /\ SeqNo[entr[e].key] >= o.begin

Base(o) ==
  LET all == {e \in DOMAIN entr : Selected(e, o)}
  IN  IF o.count = 0 THEN all ELSE ToSet(FirstOf(o.count, InOrder(all, ByNumber)))

\* A slip: the next block begins after the number of the last entry.
AfterNumber(e) == entr[e].key > exp.last.key

\* The next block begins after the last entry.
After(e) == \/ entr[e].key > exp.last.key
            \/ entr[e].key = exp.last.key /\ e >= exp.last.id

\* Entries of all corpora if no corpus is left.
KeysFor(corps) == IF corps = {} THEN Keys ELSE {k \in Keys : SrcOf[k] \in corps}

\* What main() makes of the options.
Job(o) ==
  LET corps == CorporaFor(o.corpora, o.xml)
  IN  [dtd |-> FormatFor(o.xml, corps), keys |-> KeysFor(corps), begin |-> o.begin,
       count |-> o.count, seqs |-> NumbersOf(o.seqfile), block |-> o.block]

Begin(o) ==
  /\ exp.at = "idle"
  /\ MayRun(o)
  /\ exp' = [at |-> "find", opt |-> Job(o), left |-> o.count,
             seqs |-> NumbersOf(o.seqfile),
             last |-> [key |-> 0, id |-> 0], tmp |-> <<>>, rows |-> <<>>,
             parts |-> <<>>, refs |-> <<>>, since |-> DOMAIN entr]
  /\ UNCHANGED <<entr, used, doc, xref, file>>

\* The numbers of the list that are this block's.
Numbers == ToSet(FirstOf(exp.opt.block, exp.seqs))

InBlock(e) ==
  IF exp.opt.seqs = <<>> THEN After(e) ELSE SeqNo[entr[e].key] \in Numbers

\* The ids of a block, in a temporary table (jdb.entrFind).
Block ==
  FirstOf(exp.opt.block, InOrder({e \in Base(exp.opt) : InBlock(e)}, ByNumber))

Find ==
  /\ exp.at = "find"
  /\ exp.opt.count > 0 => exp.left > 0
  /\ exp.opt.seqs # <<>> => exp.seqs # <<>>
  /\ exp' = [exp EXCEPT !.tmp = Block,
                        !.seqs = SubSeq(@, exp.opt.block + 1, Len(@)),
                        !.at = IF Block = <<>> THEN "done" ELSE "entr"]
  /\ UNCHANGED <<entr, used, doc, xref, file>>

Finish ==
  /\ exp.at = "find"
  /\ \/ exp.opt.count > 0 /\ exp.left <= 0
     \/ exp.opt.seqs # <<>> /\ exp.seqs = <<>>
  /\ exp' = [exp EXCEPT !.at = "done"]
  /\ UNCHANGED <<entr, used, doc, xref, file>>

-----------------------------------------------------------------------------
(* Reading it (jdb.entrList): table entr first, then readings, kanji,      *)
(* senses and what belongs to them, at one moment here, then references.   *)
(* What is removed in between leaves an entry without the rest.            *)

Found == ToSet(exp.tmp) \cap DOMAIN entr

ReadEntr ==
  /\ exp.at = "entr"
  /\ exp' = [exp EXCEPT !.at = "parts",
                        !.rows = [e \in Found |-> entr[e]]]
  /\ UNCHANGED <<entr, used, doc, xref, file>>

ReadParts ==
  /\ exp.at = "parts"
  /\ exp' = [exp EXCEPT !.at = "xref", !.parts = [e \in Found |-> doc[e]]]
  /\ UNCHANGED <<entr, used, doc, xref, file>>

\* An empty block is taken for the end.
ReadXrefs ==
  /\ exp.at = "xref"
  /\ exp' = [exp EXCEPT
       !.at = IF DOMAIN exp.rows = {} THEN "vanished" ELSE "write",
       !.refs = [e \in DOMAIN exp.rows |->
                   IF e \in Found THEN xref[e] ELSE <<>>]]
  /\ UNCHANGED <<entr, used, doc, xref, file>>

-----------------------------------------------------------------------------
(* Writing it. *)

\* augment_xrefs(): the entries that references lead to, as they are now.
Targets == {x.xentr : x \in UNION {ToSet(exp.refs[e]) : e \in DOMAIN exp.refs}}
TARG == [t \in Targets |-> doc[t] @@ [stat |-> entr[t].stat, unap |-> entr[t].unap]]

Parts(e) == IF e \in DOMAIN exp.parts THEN exp.parts[e] ELSE NoDoc

RefsOf(e) == [n \in DOMAIN Parts(e).sens |->
                SelectSeq(exp.refs[e], LAMBDA x : x.sens = n)]

\* The row with what the header needs besides.
Row(e) ==
  LET row == exp.rows[e]
  IN  [row EXCEPT !.dfrm = IF @ = NoEntr THEN 0 ELSE @]
        @@ [id |-> e, seq |-> SeqNo[row.key], src |-> SrcOf[row.key],
            srct |-> SrcType[SrcOf[row.key]]]

\* Groups are defined in the file before the first entry that is in them.
Defined == UNION {file[i].defs : i \in DOMAIN file}

\* What is written of e, with what it was written from.
Written(e, before) ==
  [id |-> e, row |-> exp.rows[e], doc |-> Parts(e), refs |-> RefsOf(e),
   targ |-> TARG,
   defs |-> IF exp.opt.dtd = "jmex" THEN Parts(e).grp \ before ELSE {},
   elem |-> EntryElem(Row(e), Parts(e), RefsOf(e), TARG, exp.opt.dtd)]

\* The entries that were read, in the order of the temporary table.
ByOrd == {<<exp.tmp[p[1]], exp.tmp[p[2]]>> :
            p \in {p \in (DOMAIN exp.tmp) \X (DOMAIN exp.tmp) : p[1] < p[2]}}
Entries == InOrder(DOMAIN exp.rows, ByOrd)

\* The block as it is appended to the file.
WrittenBlock ==
  LET Before1(i) == Defined \cup UNION {Parts(Entries[j]).grp : j \in 1 .. i - 1}
  IN  [i \in DOMAIN Entries |-> Written(Entries[i], Before1(i))]

LastRead ==
  LET e == Last(Entries)
  IN  [key |-> exp.rows[e].key, id |-> e + 1]

Write ==
  /\ exp.at = "write"
  /\ Targets \subseteq DOMAIN entr
  /\ file' = file \o WrittenBlock
  /\ exp' = [exp EXCEPT !.at = "find", !.last = LastRead, !.left = @ - exp.opt.block,
                        !.tmp = <<>>, !.rows = <<>>, !.parts = <<>>, !.refs = <<>>]
  /\ UNCHANGED <<entr, used, doc, xref>>

\* The entry that a reference leads to was removed after the reference was
\* read: xrefs() ends the program with an error.
Fail ==
  /\ exp.at = "write"
  /\ ~(Targets \subseteq DOMAIN entr)
  /\ exp' = [exp EXCEPT !.at = "failed"]
  /\ UNCHANGED <<entr, used, doc, xref, file>>

ExportNext ==
  \/ \E o \in Options : Begin(o)
  \/ Find \/ Finish \/ ReadEntr \/ ReadParts \/ ReadXrefs \/ Write \/ Fail

Next ==
  \/ \E n \in EntrIds \ used :
       \E c \in PageCalls, t \in EntrIds, text \in Texts \cup {Same} :
         Change(c, n, text, t)
  \/ ExportNext

Spec == Init /\ [][Next]_vars

-----------------------------------------------------------------------------
\* The entries to be written, of those that were there at the beginning and
\* still are.  A row never changes: what is there is as it was.
Due == {e \in exp.since \cap DOMAIN entr :
          /\ Selected(e, exp.opt)
          /\ exp.opt.seqs # <<>> => SeqNo[entr[e].key] \in ToSet(exp.opt.seqs)}

\* A list of numbers is worked off if each of them has an entry.
Listed == \A i \in DOMAIN exp.opt.seqs :
            \E e \in Due : SeqNo[entr[e].key] = exp.opt.seqs[i]

Stands(e) == \E i \in DOMAIN file : file[i].id = e /\ file[i].doc = doc[e]

\* No two corpora of the file have a number in common.
Apart == \A a, b \in exp.opt.keys : SeqNo[a] = SeqNo[b] => a = b

\* All of a list can be written: each number has an entry, and one only, as it
\* has in the public formats.
Listable == Listed /\ Format[exp.opt.dtd].approved /\ Apart

WrittenOnce == \A i, j \in DOMAIN file : file[i].id = file[j].id => i = j

\* "All active, approved entries in that corpus are output", "in sequence
\* number order with duplicates eliminated" (entrs2xml.py, parse_cmdline):
\* whatever users do between the statements of the program, an entry that is
\* there all the time is written, and whole, and without a list of numbers, no
\* entry is written twice.
Complete ==
  /\ exp.at # "idle" /\ exp.opt.seqs = <<>> => WrittenOnce
  /\ exp.at = "done" /\ exp.opt.count = 0 /\ (exp.opt.seqs # <<>> => Listable) =>
       \A e \in Due : Stands(e)

-----------------------------------------------------------------------------
(* What is read back of what was written. *)

Read(w) == DoEntr(w.elem, Defined, exp.opt.dtd)

InDtd(tags) == {t \in tags : Entity(t, exp.opt.dtd) # "no"}
InForm(list) == [i \in DOMAIN list |-> [list[i] EXCEPT !.inf = InDtd(@)]]

SameSens(s, t) ==
  /\ s.stagk = t.stagk /\ s.stagr = t.stagr /\ s.tags = InDtd(t.tags)
  /\ s.lsrc = t.lsrc /\ s.gloss = t.gloss

\* What d says is what w was written from.
SameDoc(d, w) ==
  /\ d.kanj = InForm(w.doc.kanj) /\ d.rdng = InForm(w.doc.rdng)
  /\ Len(d.sens) = Len(w.doc.sens)
  /\ exp.opt.dtd # "jmnedict" =>
       \A n \in DOMAIN w.doc.sens : SameSens(d.sens[n], w.doc.sens[n])

\* do_xref: a kanji text ends with kanji, a reading has none, and neither
\* ends with digits; "then we're out of luck" otherwise.
IsClear(txt, isKanj) ==
  txt = NoText \/ /\ Last(txt) \notin DOMAIN Number
                  /\ IF isKanj THEN Last(txt) \in Kanji
                               ELSE ToSet(txt) \cap Kanji = {}

Names(v, targ) ==
  /\ v.ktxt \in Txts(targ.kanj) \cup {NoText}
  /\ v.rtxt \in Txts(targ.rdng) \cup {NoText}

AllClear(w) ==
  \A t \in DOMAIN w.targ :
    /\ \A txt \in Txts(w.targ[t].kanj) : IsClear(txt, TRUE)
    /\ \A txt \in Txts(w.targ[t].rdng) : IsClear(txt, FALSE)

\* v, as it is read, is what the database has as reference x.
Tells(v, x, w, refs) ==
  LET targ == w.targ[x.xentr]
      told == {y.xsens : y \in {y \in ToSet(refs) : y.xentr = x.xentr /\ y.typ = x.typ}}
  IN  /\ Names(v, targ)
      /\ exp.opt.dtd # "jmex" => (v.typ = "ant" <=> x.typ = "ant")
      /\ v.tsens = IF x.nosens \/ told = DOMAIN targ.sens THEN 0 ELSE x.xsens

\* The references read are those that were shown, and those that are open.
SameRefs(read, open, w, refs) ==
  LET shown == {x \in ToSet(refs) : LET t == w.targ[x.xentr] IN
                                     exp.opt.dtd = "jmex" \/ (t.stat = "A" /\ ~t.unap)}
  IN  /\ \A x \in shown : \E v \in read : Tells(v, x, w, refs)
      /\ \A v \in read : \/ \E x \in shown : Tells(v, x, w, refs)
                         \/ \E x \in open : v = [x EXCEPT !.typ = v.typ]

RefsOfDoc(d, w) ==
  \A n \in DOMAIN w.doc.sens :
    SameRefs(ToSet(d.sens[n].xrslv), ToSet(w.doc.sens[n].xrslv), w, w.refs[n])

\* What has just been written: the file is only added to.
Fresh == {i \in DOMAIN file : exp.at = "find" /\ i > Len(file) - exp.opt.block}

\* References are read back by their text as references to the entry, and to
\* the sense of it, that they led to; in the public formats only to entries
\* that are published when they are written ("don't generate xrefs to entries
\* that are unapproved or whose status is not active", fmtxml.py).
RefsReturn == \A i \in Fresh : AllClear(file[i]) => RefsOfDoc(Read(file[i]).doc, file[i])

-----------------------------------------------------------------------------
(* What becomes of the file. *)

Items ==
  FlattenSeq([i \in DOMAIN file |->
    [j \in 1 .. Cardinality(file[i].defs) |-> GrpDef(SetToSeq(file[i].defs)[j])]
      \o <<EntryItem(file[i].elem)>>])

SeqAt(i) == file[i].elem.head.seq
Positions(q) == {i \in DOMAIN file : SeqAt(i) = q}
Ascending == \A i, j \in DOMAIN file : i < j => SeqAt(i) <= SeqAt(j)

\* The entries from number q on, n of them if that many are left.
FromOn(q, n) ==
  LET from == {i \in DOMAIN file : SeqAt(i) >= q}
  IN  IF from = {} THEN <<>>
      ELSE [i \in 1 .. Min({n, Len(file) - Min(from) + 1}) |-> file[Min(from) + i - 1]]

\* "Sequence number of first entry to process", "Number of entries to process"
\* (jmparse.py): with every group, wherever in the file it is defined.
ReadFrom(q, limit) ==
  LET read == ParseFile(Items, exp.opt.dtd, q, limit)
      due == FromOn(q, IF limit = 0 THEN Len(file) ELSE limit)
  IN  /\ ~read.failed /\ Len(read.out) = Len(due)
      /\ \A i \in DOMAIN due :
           /\ read.out[i].doc = Read(due[i]).doc
           /\ exp.opt.dtd = "jmex" => read.out[i].doc.grp = due[i].doc.grp

\* What is cut out for want is each entry asked for, the first of its number,
\* with those that follow it; the whole file has to be read ("-f") if it is
\* not in the order of numbers.
CutOut(lines, want) ==
  LET cut == Extract(lines, want, ~Ascending)
      Follows(i) == \E j \in DOMAIN want :
                      LET at == Positions(want[j].seq) IN
                      at # {} /\ i \in Min(at) .. Min(at) + want[j].count - 1
      due == SetToSortSeq({i \in DOMAIN file : Follows(i)}, <)
  IN  /\ cut.out = [i \in DOMAIN due |->
                      [seq |-> SeqAt(due[i]),
                       txt |-> EntryLines(file[due[i]].elem, exp.opt.dtd)]]
      /\ ToSet(cut.want) = {x \in ToSet(want) : Positions(x.seq) = {}}

\* The database that the file is loaded to has entry w, linked to its parent.
Arrived(rows, i) ==
  LET w == file[i]
      r == Imported(rows, i)
      corpus == CHOOSE c \in KwsrcFromFile(rows) : c.id = r.row.src
  IN  /\ SameDoc(r.doc, w) /\ (AllClear(w) => RefsOfDoc(r.doc, w))
      /\ r.row.seq = SeqNo[w.row.key]
      /\ IF exp.opt.dtd # "jmex" THEN corpus.kw = exp.opt.dtd /\ corpus.type = exp.opt.dtd
         ELSE /\ corpus.kw = SrcOf[w.row.key] /\ corpus.type = SrcType[corpus.kw]
              /\ r.row.stat = w.row.stat /\ r.row.unap = w.row.unap /\ r.hist = w.row.hist
              /\ w.row.dfrm # NoEntr =>
                   \E j \in DOMAIN file : /\ file[j].id = w.row.dfrm
                                          /\ Imported(rows, j).row.idx = r.row.dfrm

Asked == {[seq |-> SeqNo[k], count |-> n] : k \in Keys, n \in 1 .. 2}
Wants == {<<x>> : x \in Asked} \cup
         {<<x, y>> : x, y \in {z \in Asked : z.count = 1}}

FileIsRight ==
  LET lines == FileLines(Items, exp.opt.dtd)
      rows == JmParse(Items, exp.opt.dtd, 0, 0)
  IN  /\ Sniff(lines) = exp.opt.dtd
      /\ \A k \in Keys, limit \in 0 .. 1 : ReadFrom(SeqNo[k], limit)
      /\ exp.opt.dtd # "jmex" =>
           \A want \in Wants :
             IsInjective([i \in DOMAIN want |-> want[i].seq]) => CutOut(lines, want)
      /\ Copies(rows) /\ ParentsThere(rows)
      /\ \A i \in DOMAIN file : Arrived(rows, i)

\* The file that the program leaves, whatever users did meanwhile, is told by
\* its lines for what it is; jmparse.py reads it from any number on, and
\* jmextract.py finds any entries in it; and what jmparse.py writes of it can
\* be loaded table after table into another database, where each entry is what
\* it was: every restriction, frequency and tag that the format has, under
\* whatever name, its number and corpus; and in "jmex" the state of the row,
\* its history, and the edit that it was made from, which is always there.
FileReturns == exp.at \in {"done", "vanished"} => FileIsRight
=============================================================================
