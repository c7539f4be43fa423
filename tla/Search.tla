------------------------------- MODULE Search -------------------------------
(***************************************************************************)
(* Searches (jmdictdb/srch.py, views/srchres.py): the search form is turned*)
(* into conditions, these into an SQL statement, and the entries that it   *)
(* finds are shown in pages, while entries come and go.                    *)
(*                                                                         *)
(* Each page runs the statement anew and takes LIMIT rows at an OFFSET; the*)
(* number of matches is counted once, in a statement of its own, and goes  *)
(* from page to page in the links.                                         *)
(*                                                                         *)
(* Texts are sequences of code points, of which those of A to Z and a to z *)
(* have case.  Left out: regular expressions and wildcards, dates, and     *)
(* lists with "NOT", which no form sends.                                  *)
(***************************************************************************)
EXTENDS Integers, Sequences, FiniteSets, SequencesExt, Listing

CONSTANTS Ids, Docs,   \* ids of entries in order, and what entries may say
          Keywords,    \* table of tags -> the ids of its keywords
          Forms,       \* the search forms that may be sent
          PageSizes,   \* values of the URL parameter ps
          NoTxt        \* SQL NULL

ASSUME IdsAreNumbers == Ids \subseteq Nat /\ IsFiniteSet(Ids)
ASSUME KeywordsAreFinite ==
  \A tbl \in {"pos", "misc", "kinf", "src", "stat"} : IsFiniteSet(Keywords[tbl])
ASSUME PagesHaveRows == PageSizes \subseteq Nat \ {0}

\* What is in the columns of an entry.
ASSUME DocsHaveTexts ==
  \A d \in Docs : /\ d.kanj \in Seq(Seq(Nat)) /\ NoTxt \notin Range(d.kanj)
                  /\ d.rdng \in Seq(Seq(Nat)) /\ NoTxt \notin Range(d.rdng)
                  /\ d.seq \in Nat
ASSUME DocsHaveTags ==
  \A d \in Docs :
    /\ d.src \in Keywords["src"] /\ d.stat \in Keywords["stat"] /\ d.unap \in BOOLEAN
    /\ d.kinf \subseteq Keywords["kinf"] /\ d.freq \subseteq Keywords["freq"] \X Nat
    /\ \A s \in d.sens : /\ s.pos \subseteq Keywords["pos"] /\ s.misc \subseteq Keywords["misc"]
                        /\ s.gloss \subseteq Seq(Nat) /\ s.notes \in Seq(Nat)
    /\ d.hist \in Seq([name : Seq(Nat), notes : Seq(Nat)])

\* All scales but "nf" have the values 1 and 2 (data/kwfreq.csv).
ASSUME ScalesAreShort ==
  \A d \in Docs : \A x \in d.freq : x[1] # "nf" => x[2] \in {1, 2}

\* What the fields of the form offer.
ASSUME FormsAreFilled ==
  \A f \in Forms :
    /\ f.idtyp \in {"seq", "id"} /\ f.idnum \in Nat
    /\ f.txts \in Seq([srchin : 1 .. 4, srchtyp : {"is", "starts", "contains", "ends"},
                       srchtxt : Seq(Nat) \ {<<>>}])
    /\ \A tbl \in {"pos", "misc", "kinf", "src", "stat"} : f[tbl] \subseteq Keywords[tbl]
    /\ f.unap \subseteq {"appr", "unappr"}
    /\ f.freq \subseteq (Keywords["freq"] \ {"nf"}) \X {1, 2}
    /\ f.nf.cmp \in {"none", "<=", "=", ">="} /\ f.nf.val \in Nat
    /\ f.snote \in Seq(Nat) /\ f.smtr \in Seq(Nat) /\ f.cmts \in Seq(Nat)
    /\ f.mt \in {"any", "oldest", "newest"}

\* The texts go into patterns of LIKE: "%" and "_" (37 and 95) stand for other
\* text there, and "\" (92) goes before what does not.  autocond() escapes none
\* of them, like_substr() all but the last.
ASSUME TextsAreLiteral ==
  \A f \in Forms :
    /\ \A i \in DOMAIN f.txts :
         f.txts[i].srchtyp # "is" => Range(f.txts[i].srchtxt) \cap {37, 95, 92} = {}
    /\ 92 \notin Range(f.snote) /\ 92 \notin Range(f.cmts)

VARIABLES db,    \* id -> entry
          given, \* the ids that were given out
          at     \* the user: the search and the pages of it seen so far

searchVars == <<db, given, at>>

-----------------------------------------------------------------------------
(* The entries as tables, which are joined by the id of the entry alone. *)

RowOf(tbl, n, val) == [tbl |-> tbl, n |-> n, val |-> val]

RowsOf(tbl, doc) ==
  CASE tbl = "entr" -> {RowOf(tbl, 0, doc)}
    [] tbl \in {"kanj", "rdng", "hist"} -> {RowOf(tbl, i, doc[tbl][i]) : i \in DOMAIN doc[tbl]}
    [] tbl = "gloss" -> UNION {{RowOf(tbl, 0, g) : g \in s.gloss} : s \in doc.sens}
    [] tbl = "sens" -> {RowOf(tbl, 0, s.notes) : s \in doc.sens}
    [] tbl \in {"pos", "misc"} -> UNION {{RowOf(tbl, 0, t) : t \in s[tbl]} : s \in doc.sens}
    [] OTHER -> {RowOf(tbl, 0, t) : t \in doc[tbl]}

\* View esum takes the first kanji and the first reading from view hdwds.
HeadOf(list) == IF list = <<>> THEN NoTxt ELSE list[1]
LineOf(e) == [ktxt |-> HeadOf(db[e].kanj), rtxt |-> HeadOf(db[e].rdng),
              seq |-> db[e].seq, id |-> e]

\* NULL comes after everything else.
TxtBefore(s, t) ==
  \/ s # NoTxt /\ t = NoTxt
  \/ /\ s # NoTxt /\ t # NoTxt
     /\ \E i \in 1 .. Len(t) :
          /\ Len(s) >= i - 1 /\ SubSeq(s, 1, i - 1) = SubSeq(t, 1, i - 1)
          /\ Len(s) = i - 1 \/ s[i] < t[i]

\* ORDER BY kanj, rdng, seq, id.
LineBefore(h, k) ==
  \/ TxtBefore(h.ktxt, k.ktxt)
  \/ /\ h.ktxt = k.ktxt
     /\ \/ TxtBefore(h.rtxt, k.rtxt)
        \/ /\ h.rtxt = k.rtxt
           /\ h.seq < k.seq \/ (h.seq = k.seq /\ h.id < k.id)

-----------------------------------------------------------------------------
(* From the form to conditions.  A condition is for the rows of one table  *)
(* and alias, and is ANDed with the others.                                *)

\* The form with nothing filled in (extract_srch_params).
Blank == [idtyp |-> "seq", idnum |-> 0, txts |-> <<>>, pos |-> {}, misc |-> {},
          kinf |-> {}, src |-> {}, stat |-> {}, unap |-> {}, freq |-> {},
          nf |-> [cmp |-> "none", val |-> 0], snote |-> <<>>, smtr |-> <<>>,
          cmts |-> <<>>, mt |-> "any"]

\* One of the conditions of a condition list.
Cond(tbl, alias, op, val) == [tbl |-> tbl, alias |-> alias, op |-> op, val |-> val]

IsKana(n) == (n \in 12352 .. 12543 /\ n # 12539) \/ n = 12316
IsKsym(n) == (n \in 12288 .. 12351 /\ n # 12294 /\ ~IsKana(n)) \/ n = 12539

JstrReb(txt) == /\ \E i \in DOMAIN txt : IsKana(txt[i])
                /\ \A i \in DOMAIN txt : IsKana(txt[i]) \/ IsKsym(txt[i])

JstrGloss(txt) == \A i \in DOMAIN txt : txt[i] \in 0 .. 767

Lower(txt) == [i \in DOMAIN txt |-> IF txt[i] \in 65 .. 90 THEN txt[i] + 32
                                    ELSE txt[i]]

\* Where a text is searched: srchin is 1 for "auto", 2, 3, 4 for the tables.
TableFor(t) ==
  CASE t.srchin = 3 \/ (t.srchin = 1 /\ JstrReb(t.srchtxt)) -> "rdng"
    [] t.srchin = 4 \/ (t.srchin = 1 /\ JstrGloss(t.srchtxt)) -> "gloss"
    [] OTHER -> "kanj"

AutoCond(t, n) ==
  Cond(TableFor(t), n, t.srchtyp,
       [txt |-> IF TableFor(t) = "gloss" THEN Lower(t.srchtxt) ELSE t.srchtxt])

TxConds(txts) == {AutoCond(txts[n], n) : n \in DOMAIN txts}

\* A mutant of KwNorm: the complement is looked for.
KwNormPlain(tbl, kws) ==
  IF 2 * Cardinality(kws) > Cardinality(Keywords[tbl])
  THEN [kws |-> Keywords[tbl] \ kws, inv |-> FALSE]
  ELSE [kws |-> kws, inv |-> FALSE]

\* The keywords or their complement, whichever is shorter.
KwNorm(tbl, kws) ==
  IF 2 * Cardinality(kws) > Cardinality(Keywords[tbl])
  THEN [kws |-> Keywords[tbl] \ kws, inv |-> TRUE]
  ELSE [kws |-> kws, inv |-> FALSE]

\* No keyword, or all of them, is no condition.
KwCond(kws, kwtyp, tbl) ==
  LET norm == KwNorm(kwtyp, kws)
  IN  IF kws = {} \/ norm.kws = {} THEN {}
      ELSE {Cond(tbl, 0, IF norm.inv THEN "not in" ELSE "in",
                 [col |-> kwtyp, set |-> norm.kws])}

BoolCond(vals) ==
  IF Cardinality(vals) # 1 THEN {}
  ELSE {Cond("entr", 0, "in", [col |-> "unap", set |-> {vals = {"unappr"}}])}

SNoteCond(pat) == IF pat = <<>> THEN {} ELSE {Cond("sens", 0, "contains", [txt |-> Lower(pat)])}

\* All conditions on the history are for one record of it.
HistConds(f) ==
  (IF f.smtr = <<>> THEN {} ELSE {Cond("hist", 0, "name", [txt |-> Lower(f.smtr)])})
    \cup (IF f.cmts = <<>> THEN {} ELSE {Cond("hist", 0, "notes", [txt |-> Lower(f.cmts)])})
    \cup (IF f.mt = "any" THEN {} ELSE {Cond("hist", 0, f.mt, [txt |-> <<>>])})

\* The values checked for a scale: one value, or any if there are two.
FreqCond(freq, nf) ==
  LET Values(s) == {x[2] : x \in {y \in freq : y[1] = s}}
      whr == {[kw |-> s, cmp |-> IF Cardinality(Values(s)) = 2 THEN "any" ELSE "=",
               value |-> CHOOSE v \in Values(s) : TRUE] : s \in {x[1] : x \in freq}}
               \cup (IF nf.cmp = "none" THEN {}
                     ELSE {[kw |-> "nf", cmp |-> nf.cmp, value |-> nf.val]})
  IN  IF whr = {} THEN {} ELSE {Cond("freq", 0, "freq", [whr |-> whr])}

\* A number supersedes everything else, except the corpus for a sequence number.
So2Conds(f) ==
  IF f.idnum > 0
  THEN {Cond("entr", 0, "in", [col |-> f.idtyp, set |-> {f.idnum}])}
         \cup (IF f.idtyp = "seq" THEN KwCond(f.src, "src", "entr") ELSE {})
  ELSE TxConds(f.txts)
         \cup (UNION {KwCond(f[tbl], tbl, tbl) : tbl \in {"pos", "misc", "kinf"}})
         \cup (UNION {KwCond(f[col], col, "entr") : col \in {"src", "stat"}})
         \cup BoolCond(f.unap) \cup FreqCond(f.freq, f.nf)
         \cup SNoteCond(f.snote) \cup HistConds(f)

-----------------------------------------------------------------------------
(* The statement that they make. *)

Within(s, t) == \E i \in 0 .. Len(s) - Len(t) : SubSeq(s, i + 1, i + Len(t)) = t

FreqHolds(x, w) ==
  /\ x[1] = w.kw
  /\ CASE w.cmp = "any" -> TRUE
       [] w.cmp = "="   -> x[2] = w.value
       [] w.cmp = "<="  -> x[2] <= w.value
       [] w.cmp = ">="  -> x[2] >= w.value

Holds(c, r, e, doc) ==
  LET txt == IF c.tbl \in {"gloss", "sens"} THEN Lower(r.val) ELSE r.val
      kw  == IF c.tbl # "entr" THEN r.val
             ELSE IF c.val.col = "id" THEN e ELSE r.val[c.val.col]
  IN  CASE c.op = "is"       -> txt = c.val.txt
        [] c.op = "starts"   -> IsPrefix(c.val.txt, txt)
        [] c.op = "ends"     -> IsSuffix(c.val.txt, txt)
        [] c.op = "contains" -> Within(txt, c.val.txt)
        [] c.op = "in"       -> kw \in c.val.set
        [] c.op = "not in"   -> kw \notin c.val.set
        [] c.op = "freq"     -> \E w \in c.val.whr : FreqHolds(r.val, w)
        [] c.op = "name"     -> Lower(r.val.name) = c.val.txt
        [] c.op = "notes"    -> Within(Lower(r.val.notes), c.val.txt)
        [] c.op = "oldest"   -> r.n = 1
        [] c.op = "newest"   -> r.n = Len(doc.hist)

\* SELECT DISTINCT e.id: each table and alias is joined once, so that all
\* conditions on it are for one row.
Matches(conds, e, doc) ==
  \A c \in conds : \E r \in RowsOf(c.tbl, doc) :
    \A d \in conds : d.tbl = c.tbl /\ d.alias = c.alias => Holds(d, r, e, doc)

FoundBy(conds) == {e \in DOMAIN db : Matches(conds, e, db[e])}

\* The rows of the statement in order.
Sorted == {p \in (DOMAIN db) \X (DOMAIN db) : LineBefore(LineOf(p[1]), LineOf(p[2]))}
Ordered(f) == InOrder(FoundBy(So2Conds(f)), Sorted)

-----------------------------------------------------------------------------
(* Entries come and go, and the user turns pages. *)

NoSearch == [phase |-> "none"]

SearchInit ==
  /\ \E n \in 0 .. Cardinality(Ids) :
       /\ given = {i \in Ids : Cardinality({j \in Ids : j <= i}) <= n}
       /\ db \in [given -> Docs]
  /\ at = NoSearch

\* An entry is submitted, or a new version of it under an id of its own ...
Enter(d) ==
  LET e == CHOOSE i \in Ids \ given : \A j \in Ids \ given : i <= j
  IN  /\ Ids # given
      /\ given' = given \cup {e}
      /\ db' = [i \in DOMAIN db \cup {e} |-> IF i = e THEN d ELSE db[i]]
      /\ UNCHANGED at

\* ... and those that are superseded, rejected or expunged are deleted.
Delete(e) ==
  /\ e \in DOMAIN db
  /\ db' = [i \in DOMAIN db \ {e} |-> db[i]]
  /\ UNCHANGED <<given, at>>

\* A mutant of MayHaveMore: a page that is just full is taken for the last.
MayHaveMoreThan(n, ps) == n > ps

\* Is the page full, so that the matches have to be counted?
MayHaveMore(n, ps) == n >= ps

\* run_search(), the first statement: LIMIT ps rows at OFFSET p0.
Page(a) ==
  LET all    == Ordered(a.form)
      end    == IF a.p0 + a.ps < Len(all) THEN a.p0 + a.ps ELSE Len(all)
      rs     == SubSeq(all, a.p0 + 1, end)
      counts == a.pt < 0 /\ MayHaveMore(Len(rs), a.ps)
  IN  [a EXCEPT !.rs = rs, !.seen = @ \o rs,
                !.pt = IF a.pt < 0 /\ ~counts THEN Len(rs) ELSE @,
                !.phase = IF counts THEN "count" ELSE "page"]

\* The form is sent; the URL has neither p0 nor pt yet.
Send(f, ps) ==
  /\ at = NoSearch
  /\ at' = Page([form |-> f, ps |-> ps, p0 |-> 0, pt |-> -1, rs |-> <<>>,
                 seen |-> <<>>, phase |-> "read", matches |-> FoundBy(So2Conds(f)),
                 used |-> given])
  /\ UNCHANGED <<db, given>>

\* run_search(), the second statement.
Count ==
  /\ at.phase = "count"
  /\ at' = [at EXCEPT !.pt = Cardinality(FoundBy(So2Conds(at.form))), !.phase = "page"]
  /\ UNCHANGED <<db, given>>

\* A first page with one row is not shown: the entry itself is.
ShowsEntry == at.phase = "page" /\ at.p0 = 0 /\ Len(at.rs) = 1

HasNext == /\ at.phase = "page" /\ ~ShowsEntry
           /\ at.p0 + Len(at.rs) < at.pt /\ at.rs # <<>>

NextPage ==
  /\ HasNext
  /\ at' = Page([at EXCEPT !.p0 = @ + Len(at.rs)])
  /\ UNCHANGED <<db, given>>

Leave == at.phase = "page" /\ at' = NoSearch /\ UNCHANGED <<db, given>>

SearchNext ==
  \/ \E d \in Docs : Enter(d)
  \/ \E e \in DOMAIN db : Delete(e)
  \/ \E f \in Forms, ps \in PageSizes : Send(f, ps)
  \/ Count \/ NextPage \/ Leave

SearchSpec == SearchInit /\ [][SearchNext]_searchVars

-----------------------------------------------------------------------------
\* What the form asks for, criterion by criterion: some text of the kind that
\* the user chose, or that the help names for the search text; some keyword out
\* of the ones checked, unless all are; one history record that meets all that
\* is said of it; some frequency among those checked.
Like(txt, t) ==
  CASE t.srchtyp = "is" -> txt = t.srchtxt
    [] t.srchtyp = "starts" -> \E s \in Suffixes(txt) : txt = t.srchtxt \o s
    [] t.srchtyp = "ends" -> \E s \in Prefixes(txt) : txt = s \o t.srchtxt
    [] t.srchtyp = "contains" ->
         \E s \in Prefixes(txt), r \in Suffixes(txt) : txt = s \o t.srchtxt \o r

\* "any kanji characters: the kanji table is searched.  kana characters but no
\* kanji: the reading table is searched.  neither kanji nor kana characters: the
\* gloss table is searched." (srchform.jinja:471-473)
IsKanji(n) == \/ n >= 19968 /\ n <= 40959
              \/ n >= 131072 /\ n <= 196607
              \/ n = 12294
HelpTable(t) ==
  CASE t.srchin = 2 -> "kanj"
    [] t.srchin = 3 -> "rdng"
    [] t.srchin = 4 -> "gloss"
    [] t.srchin = 1 -> IF \E i \in DOMAIN t.srchtxt : IsKanji(t.srchtxt[i]) THEN "kanj"
                       ELSE IF \E i \in DOMAIN t.srchtxt : IsKana(t.srchtxt[i]) THEN "rdng"
                       ELSE "gloss"

\* "Text searches (including Submitter Name) are case-insensitive"
\* (srchform.jinja:483).
HasText(d, t) ==
  \E txt \in (CASE HelpTable(t) = "kanj" -> Range(d.kanj)
               [] HelpTable(t) = "rdng" -> Range(d.rdng)
               [] OTHER -> UNION {s.gloss : s \in d.sens}) :
    Like(Lower(txt), [t EXCEPT !.srchtxt = Lower(@)])

HasKw(kws, tbl, has) == kws = {} \/ kws = Keywords[tbl] \/ kws \cap has # {}

HasRecord(d, f) ==
  \/ f.smtr = <<>> /\ f.cmts = <<>> /\ f.mt = "any"
  \/ \E i \in DOMAIN d.hist :
       /\ f.smtr # <<>> => Lower(d.hist[i].name) = Lower(f.smtr)
       /\ Within(Lower(d.hist[i].notes), Lower(f.cmts))
       /\ f.mt = "oldest" => i = 1
       /\ f.mt = "newest" => i = Len(d.hist)

HasFreq(d, f) ==
  \/ f.freq = {} /\ f.nf.cmp = "none"
  \/ f.freq \cap d.freq # {}
  \/ \E n \in {x[2] : x \in {y \in d.freq : y[1] = "nf"}} :
       \/ f.nf.cmp = "<=" /\ n <= f.nf.val
       \/ f.nf.cmp = "=" /\ n = f.nf.val
       \/ f.nf.cmp = ">=" /\ n >= f.nf.val

WantedBy(f, e) ==
  LET d == db[e]
  IN  IF f.idnum > 0
      THEN \/ f.idtyp = "id" /\ e = f.idnum
           \/ f.idtyp = "seq" /\ d.seq = f.idnum /\ HasKw(f.src, "src", {d.src})
      ELSE /\ \A i \in DOMAIN f.txts : HasText(d, f.txts[i])
           /\ HasKw(f.pos, "pos", UNION {s.pos : s \in d.sens})
           /\ HasKw(f.misc, "misc", UNION {s.misc : s \in d.sens})
           /\ HasKw(f.kinf, "kinf", d.kinf)
           /\ HasKw(f.src, "src", {d.src}) /\ HasKw(f.stat, "stat", {d.stat})
           /\ f.unap = {} \/ (IF d.unap THEN "unappr" ELSE "appr") \in f.unap
           /\ HasFreq(d, f) /\ HasRecord(d, f)
           /\ f.snote # <<>> => \E s \in d.sens : Within(Lower(s.notes), Lower(f.snote))

\* Where the code does not do as the help says: a text without kanji that has
\* other characters than kana (or than Latin ones, if it has no kana either) is
\* looked for among the kanji; and letters have to be of the right case in kanji
\* and readings.
IsMixed(t) ==
  /\ t.srchin = 1
  /\ \/ /\ HelpTable(t) = "rdng"
        /\ \E i \in DOMAIN t.srchtxt : ~(IsKana(t.srchtxt[i]) \/ IsKsym(t.srchtxt[i]))
     \/ HelpTable(t) = "gloss" /\ \E i \in DOMAIN t.srchtxt : t.srchtxt[i] \notin 0 .. 767
IsLetter(n) == n \in 65 .. 90 \/ n \in 97 .. 122
IsCased(t) == /\ HelpTable(t) # "gloss"
              /\ \E i \in DOMAIN t.srchtxt : IsLetter(t.srchtxt[i])

FindsWanted == FoundBy(So2Conds(at.form)) = {e \in DOMAIN db : WantedBy(at.form, e)}

\* A search finds the entries that meet the criteria of the form, all of them
\* and no others, as the help of the form says (so2conds, autocond, kwnorm and
\* build_search_sql).  Excepted are forms with a text that is mixed, or that has
\* letters and is looked for in kanji or readings, of which what the help says
\* (srchform.jinja:468-474, 483) does not hold; no form has a text that LIKE reads
\* as a pattern (TextsAreLiteral).
FoundRight ==
  at # NoSearch /\ (\A t \in Range(at.form.txts) : ~IsMixed(t) /\ ~IsCased(t)) => FindsWanted

\* "It is possible the number will change between calls but that should not
\* cause any major problem" (run_search): while no entry is entered none is
\* shown twice, and unless one that was shown is deleted, all that matched
\* from the start have been shown when there is no next page.
PagesOnce ==
  at # NoSearch /\ given = at.used =>
    /\ IsInjective(at.seen)
    /\ at.phase = "page" /\ ~HasNext /\ Range(at.seen) \subseteq DOMAIN db =>
         at.matches \cap DOMAIN db \subseteq Range(at.seen)
=============================================================================
