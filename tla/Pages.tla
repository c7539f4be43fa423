------------------------------- MODULE Pages -------------------------------
(***************************************************************************)
(* The page of entries on the web site (views/entr.py): which entries it   *)
(* shows for a request, in which order, and with which references.  It is  *)
(* taken to be read at one moment.  The texts that it shows instead on     *)
(* demand are those of XmlText, Edict and Jel.                             *)
(***************************************************************************)
EXTENDS Export, Jel, DbCheck

CONSTANTS Code,  \* fragment of a text -> its place in the order of strings
          Quiet  \* the history records of bulk updates, and those without notes

FirstTxt(list) == IF list = <<>> THEN NoText ELSE list[1].txt
HasCodes(d) == {FirstTxt(d.kanj), FirstTxt(d.rdng)} \subseteq Seq(DOMAIN Code)

ASSUME CodesAreApart ==
  \A f, g \in DOMAIN Code : Code[f] \in Int /\ (Code[f] = Code[g] => f = g)
ASSUME TextsHaveCodes ==
  /\ \A load \in Loaded : \A i \in Corpus : HasCodes(load.doc[i])
  /\ \A text \in Texts : HasCodes(text.doc)

\* What is loaded passes the checks on what an entry says, but for the one on
\* parts of speech, and what has no sense leads to the first.
SaysSense(x) == {"nosens", "xsens"} \subseteq DOMAIN x /\ (x.nosens => x.xsens = 1)
ASSUME LoadsPass ==
  \A load \in Loaded : \A i \in Corpus :
    /\ i \in DOMAIN load.doc /\ load.doc[i].rdng # <<>> /\ load.doc[i].sens # <<>>
    /\ \A s \in ToSet(load.doc[i].sens) : s.gloss # <<>>
ASSUME RefsSaySense == \A t \in Loaded \cup Texts : \A x \in ToSet(t.link) : SaysSense(x)

-----------------------------------------------------------------------------
(* Which entries. *)

\* The time of the last record in the history, 0 if there is none.
Time(e) == IF entr[e].hist = <<>> THEN 0 ELSE Last(entr[e].hist)

Newer(e, f) == Time(e) > Time(f) \/ (Time(e) = Time(f) /\ e > f)
Newest(S) == CHOOSE e \in S : \A f \in S \ {e} : Newer(e, f)

SameSeq(e, f) == SeqNo[entr[e].key] = SeqNo[entr[f].key]

\* get_entrs(): ids and numbers; the corpus of a number is left out.  Of
\* rows with the same time the statement may return any.
GetEntrs(ids, seqs, active) ==
  LET asked == {e \in DOMAIN entr : e \in ids \/ SeqNo[entr[e].key] \in seqs}
      live == {e \in asked : entr[e].stat = "A"}
  IN  CASE active = 1 -> {e \in live : ~entr[e].unap \/ entr[e].dfrm = NoEntr}
        [] active = 2 -> {Newest({f \in live : SameSeq(e, f)}) : e \in live}
        [] OTHER      -> asked

-----------------------------------------------------------------------------
(* In which order. *)

TextLess(s, t) ==
  \E i \in 1 .. Len(t) :
    /\ i <= Len(s) + 1 /\ \A j \in 1 .. i - 1 : s[j] = t[j]
    /\ i <= Len(s) => Code[s[i]] < Code[t[i]]

\* A slip: each entry goes by its own texts.
OwnKr(S, e) == <<FirstTxt(doc[e].kanj), FirstTxt(doc[e].rdng)>>

\* seqkr_decorate(): entries go by the texts of the newest of their number.
SeqKr(S, e) ==
  LET n == Newest({f \in S : entr[f].key = entr[e].key})
  IN  <<FirstTxt(doc[n].kanj), FirstTxt(doc[n].rdng)>>

GoesBefore(S, a, b) ==
  LET p == SeqKr(S, a)
      q == SeqKr(S, b)
  IN  \/ TextLess(p[1], q[1])
      \/ p[1] = q[1] /\ TextLess(p[2], q[2])
      \/ p = q /\ entr[a].key < entr[b].key
      \/ p = q /\ entr[a].key = entr[b].key /\ Newer(a, b)

PageOrder(S) == InOrder(S, {p \in S \X S : GoesBefore(S, p[1], p[2])})

-----------------------------------------------------------------------------
(* With which references: those of the entry and those to it. *)

\* A slip: pending entries are shown on the pages of approved ones.
ShowsActive(e, t) == entr[t].stat = "A"

\* add_filtered_xrefs(), with rem_unap.
ShowsRef(e, t) == entr[t].stat = "A" /\ (entr[e].unap \/ ~entr[t].unap)

\* Sense xsens of entry xentr, and whether the reference is to it, from it
\* or both.
RefLine(typ, xentr, xsens, direc) ==
  [typ |-> typ, xentr |-> xentr, xsens |-> xsens, direc |-> direc]

\* The references to sense n of e, the other way round.
Reversed(e, n) ==
  UNION {{RefLine(y.typ, f, y.sens, "from") :
            y \in {y \in ToSet(xref[f]) : y.xentr = e /\ y.xsens = n}} :
         f \in {f \in DOMAIN entr : ShowsRef(e, f)}}

SameEnds(x, y) == x.xentr = y.xentr /\ x.xsens = y.xsens

\* s.XREF, as a set.  Of several references to one sense, the last is marked.
SensRefs(e, n) ==
  LET all == xref[e]
      fwd == {i \in DOMAIN all : all[i].sens = n /\ ShowsRef(e, all[i].xentr)}
      rev == Reversed(e, n)
      IsBoth(i) == /\ \E y \in rev : SameEnds(y, all[i])
                   /\ \A j \in fwd : j > i => ~SameEnds(all[j], all[i])
  IN  {RefLine(all[i].typ, all[i].xentr, all[i].xsens,
               IF IsBoth(i) THEN "both" ELSE "to") : i \in fwd}
      \cup {y \in rev : \A i \in fwd : ~SameEnds(y, all[i])}

-----------------------------------------------------------------------------
(* An entry on the page (htmlprep). *)

\* is_pj(), is_p()
IsPj(kr) == \E f \in kr.freq : f.kw = "spec" \/ (f.kw \in {"ichi", "gai", "news"} /\ f.value = 1)
IsP(d) == \E kr \in ToSet(d.kanj) \cup ToSet(d.rdng) : IsPj(kr)

EditableFlag(row) == row.unap \/ row.stat \in {"A", "D"}

\* rev_hists()
HistShown(e) == Reverse(entr[e].hist)

-----------------------------------------------------------------------------
(* What was edited on a day, and the index of days (views/updates.py).  Two  *)
(* times are on one day, the first of them is its midnight.                  *)

DayOf(h) == h \div 2
Midnight(day) == 2 * day

Records == UNION {{[entr |-> e, dt |-> h] : h \in ToSet(entr[e].hist)} : e \in DOMAIN entr}

\* get_day_updates(): BETWEEN takes the next midnight too.  Notes that are not
\* like those of bulk updates have to be there.
DayUpdates(day, n) ==
  LET from == Midnight(day - n)
  IN  {r.entr : r \in {r \in Records : r.dt \in from .. from + 2 /\ r.dt \notin Quiet}}

\* get_year_index(): the days of a year, with the number of records, of bulk
\* updates as well.
YearIndex(first, next) ==
  LET year == {r \in Records : r.dt >= Midnight(first) /\ r.dt < Midnight(next)}
  IN  [d \in {DayOf(r.dt) : r \in year} |-> Cardinality({r \in year : DayOf(r.dt) = d})]

-----------------------------------------------------------------------------
(* What the confirmation page warns of (edconf.py).  Characters in glosses   *)
(* are left out, references that are lost or cannot be resolved, and what    *)
(* other entries give rise to (similar ones, and edits made meanwhile).      *)

\* check_for_warnings()
Warnings(d) ==
  LET When(cond, what) == IF cond THEN {what} ELSE {}
  IN  When(d.rdng = <<>>, "norebs")
      \cup When(\E txt \in Txts(d.kanj) : ~IsKeb(txt), "invkebs")
      \cup When(\E txt \in Txts(d.rdng) : ~IsReb(txt), "invrebs")
      \cup When(\E s \in ToSet(d.sens) : ~HasPos(s), "nopos")

-----------------------------------------------------------------------------
(* The texts that a page shows on demand, of an entry as it is now. *)

SenseRefs(e) ==
  [n \in DOMAIN doc[e].sens |-> SelectSeq(xref[e], LAMBDA x : x.sens = n)]

TargetsOf(e) ==
  [t \in {x.xentr : x \in ToSet(xref[e])} |->
     doc[t] @@ [stat |-> entr[t].stat, unap |-> entr[t].unap]]

XmlOf(e, dtd) ==
  EntryElem([seq |-> SeqNo[entr[e].key], src |-> "jmdict"] @@ entr[e],
            doc[e], SenseRefs(e), TargetsOf(e), dtd)

Shown(e) == [row |-> entr[e], doc |-> doc[e], refs |-> SenseRefs(e),
             targ |-> TargetsOf(e), elem |-> XmlOf(e, "jmdict")]

InJmdict(tags) == {t \in tags : Entity(t, "jmdict") # "no"}

-----------------------------------------------------------------------------
(* As a line of Edict2. *)

\* What a line can tell: there is a reading, and a part of speech to begin
\* with; one field in a sense; where words are from, in words; a mark where
\* one is needed; references of one kanji or reading, or of one of each.
Pops(list) == {i \in DOMAIN list : Popular(Pris(list[i].freq))}
Fits2(w) ==
  LET d == w.doc
      Of(s, dom) == {t \in InJmdict(s.tags) : Tags[t].dom = dom}
  IN  /\ d.rdng # <<>> /\ d.sens # <<>> /\ Of(d.sens[1], "POS") # {}
      /\ \A s \in ToSet(d.sens) :
           /\ Cardinality(Of(s, "FLD")) <= 1
           /\ \A x \in ToSet(s.lsrc) : /\ x.txt # "" /\ x.lang \notin Ginfs
                                        /\ x.wasei => x.lang = "eng"
      /\ \/ Pops(d.kanj) = {} /\ Pops(d.rdng) = {}
         \/ Len(d.kanj) <= 1 /\ Len(d.rdng) = 1
         \/ \E list \in {d.kanj, d.rdng} : Len(list) > 1 /\ Pops(list) # {}
      /\ \A n \in DOMAIN w.elem.sense : \A x \in ToSet(w.elem.sense[n].refs) : RefOK(x.txt)

SameMarked(new, old) ==
  /\ Len(new) = Len(old)
  /\ \A j \in DOMAIN old :
       /\ new[j].txt = old[j].txt /\ new[j].inf = InJmdict(old[j].inf)
       /\ Len(old) > 1 => (new[j].spec1 <=> j \in Pops(old))

FieldOf(list) == [i \in DOMAIN list |-> list[i].txt]

\* A sense without a part of speech has got those of the one before.
SameInLine(new, old, before) ==
  /\ new.stagk = old.stagk /\ new.stagr = old.stagr
  /\ InJmdict(old.tags) \subseteq new.tags
  /\ \A t \in new.tags \ InJmdict(old.tags) :
       Tags[t].dom = "POS" /\ ~HasPos(old) /\ t \in before.tags
  /\ FieldOf(new.gloss) = FieldOf(old.gloss) /\ FieldOf(new.lsrc) = FieldOf(old.lsrc)
  /\ \A g \in ToSet(new.gloss) : g.before = <<>> /\ g.after = <<>>

SameAsLine(r, w) ==
  /\ r.seq = SeqNo[w.row.key]
  /\ SameMarked(r.kanj, w.doc.kanj) /\ SameMarked(r.rdng, w.doc.rdng)
  /\ \A j \in DOMAIN w.doc.rdng :
       LET restr == w.doc.rdng[j].restr IN
       r.rdng[j].restr = IF NoneLeft(restr, w.doc.kanj) THEN {} ELSE restr
  /\ Len(r.sens) = Len(w.doc.sens)
  /\ \A n \in DOMAIN r.sens :
       /\ SameInLine(r.sens[n], w.doc.sens[n], r.sens[IF n = 1 THEN 1 ELSE n - 1])
       /\ r.sens[n].xrslv = DoXrefs(w.elem.sense[n].refs)

LineReturns(w, line) == CanRead(line) /\ SameAsLine(EdictEntr(line), w)
ReadsBack2(w) == Fits2(w) => LineReturns(w, EdictLine(w.elem))

\* A line of Edict2 is read back as the entry, as far as it can tell, with the
\* references that are read from the XML that it was made from.  Lost is that
\* a reading has no kanji; a sense without a part of speech gets one.  The mark
\* "P" of the line is the one on the page of the entry.
EdictReadsBack ==
  exp.at = "idle" =>
    \A e \in DOMAIN entr :
      ReadsBack2(Shown(e)) /\ (IsP(doc[e]) <=> EdictLine(XmlOf(e, "jmdict")).p)

-----------------------------------------------------------------------------
(* The same entries as the text of the edit form. *)

\* What the text can tell: senses that are not restricted to nothing, glosses
\* in languages that are not named like a tag of a sense, and no digits where
\* texts are not quoted, nor too many dots.
FitsJel(w) ==
  LET d == w.doc
      Plain2(t) == t[1] \notin DOMAIN Number
  IN  /\ d.sens # <<>> /\ d.kanj \o d.rdng # <<>>
      /\ \A t \in Txts(d.kanj) \cup Txts(d.rdng) : Len(t) > 1 \/ Plain2(t)
      /\ \A s \in ToSet(d.sens) :
           /\ s.gloss # <<>>
           /\ ~NoneLeft(s.stagk, d.kanj) /\ ~NoneLeft(s.stagr, d.rdng)
           /\ \A g \in ToSet(s.gloss) : Tagged(AsWord(g.lang), SenseDoms) = {}
           /\ \A x \in ToSet(s.xrslv) : /\ Len(x.ktxt) <= 1 /\ Len(x.rtxt) <= 1
                                        /\ \A t \in ToSet(x.ktxt \o x.rtxt) : Plain2(<<t>>)
      /\ \A t \in DOMAIN w.targ :
           \A txt \in Txts(w.targ[t].kanj) \cup Txts(w.targ[t].rdng) :
             Len(txt) > 1 \/ Plain2(txt)

SameInText(new, old) ==
  /\ new.stagk = old.stagk /\ new.stagr = old.stagr /\ new.tags = old.tags
  /\ new.gloss = old.gloss /\ new.lsrc = old.lsrc

\* References read as new are those in refs, or those in open, unresolved.
SameRefsInText(new, refs, open, targ) ==
  /\ {<<v.typ, v.num, v.tsens>> : v \in {u \in ToSet(new) : u.num # 0}}
       = {<<x.typ, -x.xentr, x.xsens>> :
            x \in {y \in ToSet(refs) : targ[y.xentr].stat = "A"}}
  /\ \A v \in ToSet(new) : v.num # 0 => Names(v, targ[-v.num])
  /\ SelectSeq(new, LAMBDA v : v.num = 0) = [j \in DOMAIN open |-> [num |-> 0] @@ open[j]]

SameAsText(r, w) ==
  /\ r.kanj = w.doc.kanj /\ r.rdng = w.doc.rdng
  /\ \A n \in DOMAIN w.doc.sens :
       /\ SameInText(r.sens[n], w.doc.sens[n])
       /\ SameRefsInText(r.sens[n].xrslv, w.refs[n], w.doc.sens[n].xrslv, w.targ)

TextReturns(w, text) == CanReadJel(text) /\ SameAsText(JelEntr(text), w)

\* Entries are named by their ids, which the lexer tells from other numbers.
JelReturns(w) ==
  FitsJel(w) =>
    TextReturns(w, JelText(w.doc, w.refs, w.targ, [t \in DOMAIN w.targ |-> -t]))

\* A form that is submitted as it was opened ("to ensure accurate regeneration
\* of the xrefs", fmtjel.py:161-165) gives the entry that it was opened with:
\* each reading and kanji with its tags, frequencies and restrictions, each
\* sense with its own, its glosses, in whatever language and of whatever kind,
\* and a reference for each one to an entry that is not deleted or rejected,
\* with the number of that entry, to the same sense.
JelReadsBack == exp.at = "idle" => \A e \in DOMAIN entr : JelReturns(Shown(e))

-----------------------------------------------------------------------------
(* Properties of the pages.  The program of Export plays no part in them. *)

\* What the pages of entries say of a reference between them.
Direcs(e, n, t, m) ==
  {l.direc : l \in {l \in SensRefs(e, n) : l.xentr = t /\ l.xsens = m}}

\* "References to unapproved entries are also removed if the current entry is
\* approved" (add_filtered_xrefs): nobody gets from what is approved to what
\* is pending, deleted or rejected.  And a reference that can be seen from
\* both of its ends is the same from both: there and back, or one way; nor
\* does one that goes both ways get lost because it is shown once only.
PagesAgree ==
  exp.at = "idle" =>
    /\ \A e \in DOMAIN entr : \A n \in DOMAIN doc[e].sens : \A l \in SensRefs(e, n) :
         entr[l.xentr].stat = "A" /\ (~entr[e].unap => Published(l.xentr))
    /\ \A e, t \in DOMAIN entr : ShowsRef(e, t) /\ ShowsRef(t, e) =>
         \A n \in DOMAIN doc[e].sens, m \in DOMAIN doc[t].sens :
           LET here == Direcs(e, n, t, m)
               there == Direcs(t, m, e, n)
           IN  /\ "both" \in here <=> "both" \in there
               /\ here = {"to"} <=> there = {"from"}

\* "Keep all entries with the same src,seq number together even when some have
\* had their kanji or reading values changed", "in descending order" of their
\* histories (views/entr.py): whatever entries a page shows, an edit is shown
\* before what it was made from, and no other number in between.  The latest
\* version of a number (get_entrs, active=2) is one that nobody has edited
\* since, other than to delete it.  A form can be had from the page where
\* submission would not refuse the entry as rejected.  The days of the index,
\* of one year or of two, lead to pages that show every entry with a record of
\* that day, other than of a bulk update or without notes (the index counts
\* these too), and with an entry all edits of it: they have its history.
PagesInOrder ==
  exp.at = "idle" =>
    /\ \A S \in SUBSET DOMAIN entr :
         LET page == PageOrder(S) IN
         \A i, j \in DOMAIN page : i < j /\ entr[page[i]].key = entr[page[j]].key =>
           /\ \A k \in i .. j : entr[page[k]].key = entr[page[i]].key
           /\ page[j] \notin Descendants(entr, page[i])
    /\ \A q \in {SeqNo[entr[e].key] : e \in DOMAIN entr} :
         LET latest == GetEntrs({}, {q}, 2) IN
         /\ Cardinality(latest) <= 1
         /\ latest = {} <=> \A e \in GetEntrs({}, {q}, 0) : entr[e].stat # "A"
         /\ \A e \in latest : \A f \in Descendants(entr, e) \ {e} : entr[f].stat # "A"
    /\ \A e \in DOMAIN entr :
         /\ EditableFlag(entr[e]) <=> entr[e].stat # "R"
         /\ \A i, j \in DOMAIN HistShown(e) : i < j => HistShown(e)[i] > HistShown(e)[j]
    /\ \A first \in {0, 1}, next \in {2, 3} : \A d \in DOMAIN YearIndex(first, next) :
         LET page == DayUpdates(d + 1, 1) IN
         /\ d \in first .. next - 1
         /\ \A e \in DOMAIN entr :
              (\E h \in ToSet(entr[e].hist) \ Quiet : DayOf(h) = d) => e \in page
         /\ \A e \in page : Descendants(entr, e) \subseteq page

-----------------------------------------------------------------------------
\* What only the database looks at: an entry as it was loaded, or as it was
\* sent past the form.
AsLoaded(d) == \E load \in Loaded : d \in Range(load.doc)
PastForm(d) == \E text \in Texts : ~text.form /\ d = text.doc

\* "Note that every check done here should also be done in edsubmit.py because
\* an entry can be submitted to edsubmit.py without using this form"
\* (check_for_errors), which it is not.  So what bin/dbcheck.py reports of an
\* entry that lacks something comes from there: what is sent through the form
\* has readings, senses, glosses and parts of speech, and so have its edits,
\* rejections and deletions, while loads may lack the last.  The checks on the
\* edits of an entry and on references pass whatever is sent, but that the
\* pending edits of a deleted entry are reported for being beside it.  Check
\* 17 is left out: nothing stops a reference to a row of the same number.
\* What checks 8 and 11 find is what the confirmation page warns of.
ChecksPass ==
  exp.at = "idle" =>
    LET reports == Reports(entr, doc, xref) IN
    /\ ChecksFailed(reports, {7, 8, 9, 10, 11, 17, 19, 20}, TRUE) = {}
    /\ \A check \in 7 .. 10 : \A e \in reports[check] : PastForm(doc[e])
    /\ \A e \in reports[11] : PastForm(doc[e]) \/ AsLoaded(doc[e])
    /\ \A e \in reports[19] \cup reports[20] : entr[e].unap
    /\ \A e \in Active(entr) :
         /\ "norebs" \in Warnings(doc[e]) <=> e \in reports[8]
         /\ "nopos" \in Warnings(doc[e]) <=> e \in reports[11]
=============================================================================
