------------------------------ MODULE XmlFile ------------------------------
(***************************************************************************)
(* A file of entries on its way from one database to another.              *)
(* bin/entrs2xml.py writes it, between edits of other users: see Export.   *)
(* tools/jmextract.py cuts entries out of it by the look of its lines.     *)
(* bin/jmparse.py reads it and writes the rows of all tables to a file,    *)
(* which bin/pgload.py and db/import.sql load: see BulkLoad for the ids    *)
(* and numbers that the entries get there.                                 *)
(***************************************************************************)
EXTENDS XmlText

CONSTANT SrcType  \* corpus -> its type (table kwsrc)

-----------------------------------------------------------------------------
(* The options of entrs2xml.py. *)

\* compat_details(): the formats, in the order in which they are tried.
Formats == <<"jmdict", "jmnedict", "jmex">>
Format ==
  [jmdict   |-> [root |-> "JMdict", approved |-> TRUE, types |-> {"jmdict"}],
   jmnedict |-> [root |-> "JMnedict", approved |-> TRUE, types |-> {"jmnedict"}],
   jmex     |-> [root |-> "JMex", approved |-> FALSE,
                 types |-> {"jmdict", "jmnedict", "kanjidic", "examples"}]]

Suits(dtd, corps) == {SrcType[c] : c \in corps} \subseteq Format[dtd].types

\* The format asked for, or the first one that suits.
FormatFor(xml, corps) ==
  IF xml # "" THEN xml
  ELSE Formats[Min({i \in DOMAIN Formats : Suits(Formats[i], corps)})]

\* parse_corpopt(): by default the corpus of the format's name, but for
\* "jmex" all; "!" asks for all others.
NotGiven(spec) == spec.names = {} /\ ~spec.others
NamesIn(spec, xml) ==
  IF NotGiven(spec) /\ xml # "jmex" THEN {xml} ELSE spec.names
CorporaFor(spec, xml) ==
  IF spec.others \/ (NotGiven(spec) /\ xml = "jmex")
    THEN DOMAIN SrcType \ NamesIn(spec, xml) ELSE NamesIn(spec, xml)

\* read_seqfile(): a line with something else in it is left out as a whole.
NumbersOf(lines) ==
  FlattenSeq([i \in DOMAIN lines |-> IF lines[i].bad THEN <<>> ELSE lines[i].nums])

\* parse_cmdline(): the first number and a count do not go with a list.
OptionsAgree(o) == o.seqfile # <<>> => o.begin = 0 /\ o.count = 0

\* What main() lets through.
MayRun(o) ==
  /\ OptionsAgree(o)
  /\ ~(NotGiven(o.corpora) /\ o.xml = "")
  /\ NamesIn(o.corpora, o.xml) \subseteq DOMAIN SrcType
  /\ LET corps == CorporaFor(o.corpora, o.xml)
     IN  Suits(FormatFor(o.xml, corps), corps) \/ o.force

-----------------------------------------------------------------------------
(* The lines of a file: the tag in front, and what is looked at in it.     *)
(* Items are definitions of groups and elements of entries, in order.      *)

Line(tag, arg) == [tag |-> tag, arg |-> arg]
GrpDef(g) == [is |-> "grpdef", grp |-> g]
EntryItem(elem) == [is |-> "entry", elem |-> elem]

\* entities(): those of the DTD, each of them once here.
DtdEntities(dtd) == {Entity(t, dtd) : t \in DOMAIN Tags} \ {"no"}

\* open_output(), with the comment that tells the date left out and all
\* definitions of entities in one line.
HeadLines(dtd) ==
  <<Line("<!DOCTYPE", Format[dtd].root), Line("<!ENTITY", DtdEntities(dtd)),
    Line("]>", ""), Line("<root>", Format[dtd].root)>>

\* entrhdr() and entr(): the number stands on a line of its own.
EntryLines(elem, dtd) ==
  (IF dtd = "jmex" THEN <<Line("<entry id=>", elem.head.id), Line("<ent_corp>", "")>>
                   ELSE <<Line("<entry>", "")>>)
    \o <<Line("<ent_seq>", elem.head.seq)>>
    \o [n \in DOMAIN elem.sense |->
          Line(IF dtd = "jmnedict" THEN "<trans>" ELSE "<sense>", elem.sense[n])]
    \o <<Line("</entry>", "")>>

FileLines(items, dtd) ==
  HeadLines(dtd)
    \o FlattenSeq([i \in DOMAIN items |->
         IF items[i].is = "grpdef" THEN <<Line("<grpdef>", items[i].grp)>>
         ELSE EntryLines(items[i].elem, dtd)])
    \o <<Line("</root>", Format[dtd].root)>>

\* sniff(): which format a file has, as far as its lines tell.
Sniff(lines) ==
  LET Tag1(tag) == {lines[i].arg : i \in {i \in DOMAIN lines : lines[i].tag = tag}}
      Seen(tag) == \E i \in DOMAIN lines : lines[i].tag = tag
      Only(dtd) == Tag1("<!DOCTYPE") \cup Tag1("<root>") = {Format[dtd].root}
  IN  CASE Only("jmex") /\ ~Seen("<trans>")     -> "jmex"
        [] Only("jmnedict") /\ ~Seen("<sense>") -> "jmnedict"
        [] Only("jmdict") /\ ~Seen("<trans>")   -> "jmdict"
        [] OTHER                                -> ""

-----------------------------------------------------------------------------
(* extract(): entries by number, each with those that follow it.  It reads *)
(* line by line; want is what is still to be found, in order of numbers.   *)

\* wanted(): how many entries to copy from here on, and what is left.
Wanted(s, seq) ==
  LET left == IF s.count > 0 THEN s.count - 1 ELSE s.count
      hits == {i \in DOMAIN s.want : s.want[i].seq = seq}
  IN  IF hits = {} THEN [s EXCEPT !.seq = seq, !.count = left]
      ELSE [s EXCEPT !.seq = seq, !.want = RemoveAt(@, Min(hits)),
                     !.count = Max({left, s.want[Min(hits)].count})]

\* In ascending order of numbers, nothing comes after the last one wanted.
IsThrough(s) ==
  s.count <= 0 /\ (s.want = <<>> \/ (Last(s.want).seq < s.seq /\ ~s.full))

EndOfEntry(s, txt) ==
  IF IsThrough(s) THEN [s EXCEPT !.at = "stopped"]
  ELSE [s EXCEPT !.at = "between", !.txt = <<>>,
                 !.out = IF s.count > 0 THEN Append(@, [seq |-> s.seq, txt |-> txt]) ELSE @]

OnLine(s, line) ==
  LET Goto(at) == [s EXCEPT !.at = at]
      first == Wanted(s, IF line.tag = "<ent_seq>" THEN line.arg ELSE s.seq + 1)
      txt == IF s.at = "copy" THEN Append(s.txt, line) ELSE <<>>
  IN  CASE s.at = "dtd" /\ line.tag = "]>"            -> Goto("after_dtd")
        [] s.at = "after_dtd" /\ line.tag = "<root>"  -> Goto("between")
        [] s.at = "between" /\ line.tag = "<entry>"   -> Goto("in_entry")
        [] s.at = "in_entry"                          ->
             IF first.count > 0
               THEN [first EXCEPT !.at = "copy", !.txt = <<Line("<entry>", ""), line>>]
               ELSE [first EXCEPT !.at = "nocopy"]
        [] s.at \in {"copy", "nocopy"}                ->
             IF line.tag = "</entry>" THEN EndOfEntry(s, txt) ELSE [s EXCEPT !.txt = txt]
        [] OTHER                                      -> s

\* What is extracted; NotFoundError tells of what is left in want.
Extract(lines, want, full) ==
  FoldLeft(OnLine,
           [at |-> "dtd", seq |-> 0, count |-> 0, full |-> full, txt |-> <<>>,
            want |-> SortSeq(want, LAMBDA a, b : a.seq < b.seq), out |-> <<>>],
           lines)

-----------------------------------------------------------------------------
(* parse_file(): the entries from number begin on, limit of them at most;  *)
(* 0 is for no such option.                                                *)

\* do_corpus_attrs(): corpora are numbered as their names turn up.
WithCorpus(corpora, head) ==
  IF \E i \in DOMAIN corpora : corpora[i].kw = head.corpus THEN corpora
  ELSE Append(corpora, [kw |-> head.corpus, type |-> head.type])
NumberOf(corpora, name) == CHOOSE i \in DOMAIN corpora : corpora[i].kw = name

\* A corpus may not change its type.
TypeChanges(corpora, head) ==
  \E i \in DOMAIN corpora :
    corpora[i].kw = head.corpus /\ head.type \notin {"", corpora[i].type}

ReadEntry(s, elem) ==
  LET corpora == WithCorpus(s.corpora, elem.head)
      e == [DoEntr(elem, s.grps, s.dtd) EXCEPT !.src = NumberOf(corpora, @)]
  IN  [s EXCEPT !.begin = 0, !.corpora = corpora, !.out = Append(@, e),
                !.stop = s.limit > 0 /\ Len(s.out) + 1 >= s.limit]

ReadItem(s, item) ==
  IF s.stop \/ s.failed THEN s
  ELSE IF item.is = "grpdef" THEN [s EXCEPT !.grps = @ \cup {item.grp}]
  ELSE IF item.elem.head.seq < s.begin THEN s
  ELSE IF TypeChanges(s.corpora, item.elem.head) THEN [s EXCEPT !.failed = TRUE]
  ELSE ReadEntry(s, item.elem)

ParseFile(items, dtd, begin, limit) ==
  FoldLeft(ReadItem,
           [dtd |-> dtd, begin |-> begin, limit |-> limit, grps |-> {},
            corpora |-> <<>>, out |-> <<>>, stop |-> FALSE, failed |-> FALSE],
           items)

-----------------------------------------------------------------------------
(* PgiWriter: the rows of each table, with the rows that they refer to.    *)

TabRow(key, val, of) == [key |-> key, val |-> val, of |-> of]

\* finalize() writes the tables in this order.  Table "tags" stands for pos,
\* misc, fld and dial.
Tables == <<"kwsrc", "kwgrp", "entr", "kanj", "kinf", "rdng", "rinf", "restr", "freq",
            "sens", "gloss", "tags", "lsrc", "stagr", "stagk", "xresolv", "hist", "grp">>

\* A slip: the id of the file is taken for the one it had before.
EntrRowLate(id, e) ==
  TabRow(<<id>>, [src |-> e.src, seq |-> e.seq, stat |-> e.stat, unap |-> e.unap,
                  dfrm |-> e.dfrm, idx |-> id], {<<"kwsrc", <<e.src>>>>})

\* jmparse.main(): the id that an entry had in the database that it is from
\* is kept as "idx", before setkeys() gives it the next id of the file.
EntrRow(id, e) ==
  TabRow(<<id>>, [src |-> e.src, seq |-> e.seq, stat |-> e.stat, unap |-> e.unap,
                  dfrm |-> e.dfrm, idx |-> e.id], {<<"kwsrc", <<e.src>>>>})

\* wrentr(), with the keys that setkeys() gives.
EntryRows(id, e) ==
  LET own == {<<"entr", <<id>>>>}
      At(tab, n) == {<<tab, <<id, n>>>>}
      All(list, RowsOf(_, _)) == UNION {RowsOf(n, list[n]) : n \in DOMAIN list}
      Parts1(list, Val(_)) == {TabRow(<<id, n>>, Val(list[n]), own) : n \in DOMAIN list}
      Txt(part) == part.txt
      Some(S, tab, n) == {TabRow(<<id, n, v>>, v, At(tab, n)) : v \in S}
      Each(list, n) == {TabRow(<<id, n, m>>, list[m], At("sens", n)) : m \in DOMAIN list}
      Not(S, n, own1, list) ==
        {TabRow(<<id, n, i>>, i, At(own1, n) \cup At(list, i)) : i \in S}
      d == e.doc
  IN  [entr |-> {EntrRow(id, e)},
       kanj |-> Parts1(d.kanj, Txt), rdng |-> Parts1(d.rdng, Txt),
       kinf |-> All(d.kanj, LAMBDA n, k : Some(k.inf, "kanj", n)),
       rinf |-> All(d.rdng, LAMBDA n, r : Some(r.inf, "rdng", n)),
       restr |-> All(d.rdng, LAMBDA n, r : Not(r.restr, n, "rdng", "kanj")),
       freq |-> All(d.rdng, LAMBDA n, r :
                      {TabRow(<<id, n, 0>>, f, At("rdng", n)) : f \in r.freq})
                \cup All(d.kanj, LAMBDA n, k :
                      {TabRow(<<id, 0, n>>, f, At("kanj", n)) : f \in k.freq}),
       sens |-> Parts1(d.sens, LAMBDA s : ""),
       gloss |-> All(d.sens, LAMBDA n, s : Each(s.gloss, n)),
       tags |-> All(d.sens, LAMBDA n, s : Some(s.tags, "sens", n)),
       lsrc |-> All(d.sens, LAMBDA n, s : Each(s.lsrc, n)),
       stagr |-> All(d.sens, LAMBDA n, s : Not(s.stagr, n, "sens", "rdng")),
       stagk |-> All(d.sens, LAMBDA n, s : Not(s.stagk, n, "sens", "kanj")),
       xresolv |-> All(d.sens, LAMBDA n, s : Each(s.xrslv, n)),
       hist |-> {TabRow(<<id, n>>, e.hist[n], own) : n \in DOMAIN e.hist},
       grp |-> {TabRow(<<id, g>>, g, own \cup {<<"kwgrp", <<g>>>>}) : g \in d.grp}]

\* wrcorpora(): entries without a corpus are in that of the format's name.
\* Option --corpus has no effect: main() takes the format first.
CorpusRow(id, c, dtd) ==
  TabRow(<<id>>, [kw |-> IF c.kw = "" THEN dtd ELSE c.kw,
                  type |-> IF c.type = "" THEN dtd ELSE c.type], {})

AllRows(read, made, dtd) ==
  [kwsrc |-> {CorpusRow(i, read.corpora[i], dtd) : i \in DOMAIN read.corpora},
   kwgrp |-> {TabRow(<<g>>, g, {}) : g \in read.grps}]
    @@ [tab \in ToSet(Tables) \ {"kwsrc", "kwgrp"} |->
          UNION {made[i][tab] : i \in DOMAIN made}]

\* finalize(): tables without rows are not in the file.
Finalize(rows) ==
  LET full == SelectSeq(Tables, LAMBDA tab : rows[tab] # {})
  IN  [i \in DOMAIN full |-> [tab |-> full[i], rows |-> rows[full[i]]]]

\* jmparse.main(): nothing is written if the file could not be read.
PgiOf(read, dtd) ==
  IF read.failed THEN <<>>
  ELSE Finalize(AllRows(read, [i \in DOMAIN read.out |-> EntryRows(i, read.out[i])], dtd))

JmParse(items, dtd, begin, limit) == PgiOf(ParseFile(items, dtd, begin, limit), dtd)

-----------------------------------------------------------------------------
(* pgload.py and import.sql, as far as an entry's data goes. *)

\* kwsrc_from_file(): the table has to be the first one.
KwsrcFromFile(pgi) ==
  IF pgi = <<>> \/ pgi[1].tab # "kwsrc" THEN {}
  ELSE {[id |-> r.key[1], kw |-> r.val.kw, type |-> r.val.type] : r \in pgi[1].rows}

\* COPY checks each row against the tables that were filled before.
Copies(pgi) ==
  \A i \in DOMAIN pgi : \A r \in pgi[i].rows : \A p \in r.of :
    \E j \in 1 .. i - 1 : pgi[j].tab = p[1] /\ \E q \in pgi[j].rows : q.key = p[2]

RowsIn(pgi, tab) == UNION {pgi[i].rows : i \in {i \in DOMAIN pgi : pgi[i].tab = tab}}

\* import.sql: "Missing 'dfrm' target" otherwise.
ParentsThere(pgi) ==
  \A r \in RowsIn(pgi, "entr") :
    r.val.dfrm = 0 \/ \E p \in RowsIn(pgi, "entr") : p.val.idx = r.val.dfrm

\* The entry that is in the database in the end.  Groups are not copied.
Imported(pgi, id) ==
  LET Mine(tab, key) ==
        {r \in RowsIn(pgi, tab) : IsPrefix(key, r.key)}
      Some(tab, key) == {r.val : r \in Mine(tab, key)}
      One(tab, key) == (CHOOSE r \in Mine(tab, key) : TRUE).val
      List(tab, key) ==
        [n \in 1 .. Cardinality(Mine(tab, key)) |-> One(tab, Append(key, n))]
      Each(tab, PartOf(_)) ==
        [n \in 1 .. Cardinality(Mine(tab, <<id>>)) |-> PartOf(<<id, n>>)]
  IN  [row |-> One("entr", <<id>>), hist |-> List("hist", <<id>>),
       doc |->
         [kanj |-> Each("kanj", LAMBDA k :
                     [txt |-> One("kanj", k), inf |-> Some("kinf", k),
                      freq |-> Some("freq", <<id, 0, k[2]>>)]),
          rdng |-> Each("rdng", LAMBDA r :
                     [txt |-> One("rdng", r), inf |-> Some("rinf", r),
                      freq |-> Some("freq", Append(r, 0)), restr |-> Some("restr", r)]),
          sens |-> Each("sens", LAMBDA s :
                     [stagk |-> Some("stagk", s), stagr |-> Some("stagr", s),
                      tags |-> Some("tags", s), xrslv |-> List("xresolv", s),
                      lsrc |-> List("lsrc", s), gloss |-> List("gloss", s)])]]
=============================================================================
