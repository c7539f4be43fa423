------------------------------- MODULE Edict -------------------------------
(***************************************************************************)
(* Entries as lines of an Edict2 file: what the style sheet edict2.xsl     *)
(* makes of the XML of an entry (the page of an entry shows it on demand,  *)
(* xslfmt.py) and what edparse.py reads (the form may be opened with it).  *)
(*                                                                         *)
(* A line is a record of what the separators in it tell apart.  Everything *)
(* in parentheses is a list of words, and a word is a text as in XmlText:  *)
(* what it is, a tag, a number, a restriction or a reference, only shows   *)
(* when it is looked up.                                                   *)
(***************************************************************************)
EXTENDS XmlText

CONSTANTS Latin,  \* the fragments that jstr_gloss() accepts
          Ginfs   \* the kinds of glosses, as words

\* Words between parentheses, a word before them ("See") or after them
\* ("only"), and what separates them.
Paren(words) == [words |-> words, head |-> "", only |-> FALSE, sep |-> ","]
AsWord(name) == <<name>>
P == Paren(<<AsWord("P")>>)

IfAny(list, paren) == IF list = <<>> THEN <<>> ELSE <<paren>>

-----------------------------------------------------------------------------
(* Writing, from the XML in the format "jmdict". *)

PriTags == {[kw |-> "ichi", digits |-> <<1>>], [kw |-> "gai", digits |-> <<1>>],
            [kw |-> "news", digits |-> <<1>>], [kw |-> "spec", digits |-> <<1>>],
            [kw |-> "spec", digits |-> <<2>>]}
Popular(pri) == pri \cap PriTags # {}

TagWords(ents, dom) ==
  LET named == SetToSeq({x.name : x \in {y \in ents : y.dom = dom}})
  IN  [i \in DOMAIN named |-> AsWord(named[i])]

\* Each in parentheses of its own.
OneByOne(words) == [i \in DOMAIN words |-> Paren(<<words[i]>>)]

\* A mark is put on kanji, and on readings, if there are several.
Mark(pri, list) == IF Len(list) > 1 /\ Popular(pri) THEN <<P>> ELSE <<>>

KanjItem(k, elem) ==
  [txt |-> k.keb,
   tags |-> OneByOne(TagWords(k.ke_inf, "KINF")) \o Mark(k.ke_pri, elem.k_ele)]

RdngItem(r, elem) ==
  [txt |-> r.reb,
   tags |-> IfAny(r.re_restr, [Paren(r.re_restr) EXCEPT !.sep = ";"])
              \o OneByOne(TagWords(r.re_inf, "RINF")) \o Mark(r.re_pri, elem.r_ele)]

RefWords(s, tag) ==
  LET named == SelectSeq(s.refs, LAMBDA x : x.tag = tag)
  IN  [i \in DOMAIN named |-> named[i].txt]

\* What is in front of the first gloss of sense n.
FrontOf(s, n, elem) ==
  LET pos  == TagWords(s.ents, "POS")
      dial == TagWords(s.ents, "DIAL")
      fld  == TagWords(s.ents, "FLD")
      stag == s.stagk \o s.stagr
      see  == RefWords(s, "xref")
      ant  == RefWords(s, "ant")
  IN  IfAny(pos, Paren(pos))
        \o (IF Len(elem.sense) > 1 THEN <<Paren(<<<<NumberedAs(n)>>>>)>> ELSE <<>>)
        \o IfAny(stag, [Paren(stag) EXCEPT !.only = TRUE])
        \o IfAny(see, [Paren(see) EXCEPT !.head = "see"])
        \o IfAny(ant, [Paren(ant) EXCEPT !.head = "ant"])
        \o OneByOne(TagWords(s.ents, "MISC"))
        \o IfAny(dial, Paren(dial))
        \o IfAny(fld, [Paren(fld) EXCEPT !.sep = ";"])

LsrcWord(x) == IF x.ls_wasei = "y" THEN "wasei" ELSE x.lang

SenseGlosses(s, n, elem) ==
  [i \in DOMAIN s.gloss |->
     [front |-> IF i = 1 THEN FrontOf(s, n, elem) ELSE <<>>,
      txt |-> s.gloss[i].txt,
      lsrc |-> IF i > 1 THEN <<>>
               ELSE [j \in DOMAIN s.lsource |->
                       [lang |-> LsrcWord(s.lsource[j]), txt |-> s.lsource[j].txt]]]]

EdictLine(elem) ==
  [kanj |-> [i \in DOMAIN elem.k_ele |-> KanjItem(elem.k_ele[i], elem)],
   rdng |-> [i \in DOMAIN elem.r_ele |-> RdngItem(elem.r_ele[i], elem)],
   gloss |-> FlattenSeq([n \in DOMAIN elem.sense |->
                           SenseGlosses(elem.sense[n], n, elem)]),
   p |-> \/ \E i \in DOMAIN elem.k_ele : Popular(elem.k_ele[i].ke_pri)
         \/ \E i \in DOMAIN elem.r_ele : Popular(elem.r_ele[i].re_pri),
   entl |-> elem.head.seq]

-----------------------------------------------------------------------------
(* Reading.  CanRead tells if a line is read without a ParseError. *)

IsLatin(p) == UNION {ToSet(w) : w \in ToSet(p.words)} \subseteq Latin \cup DOMAIN Number
IsNumber(w) == Len(w) = 1 /\ w[1] \in DOMAIN Number
IsReb(w) == ToSet(w) \cap (Kanji \cup Latin \cup DOMAIN Number) = {}
IsKeb(w) == ~IsReb(w) /\ ~(ToSet(w) \subseteq Latin \cup DOMAIN Number)

\* lookup_tag()
Tagged(w, doms) == {t \in DOMAIN Tags : Tags[t].dom \in doms /\ AsWord(Tags[t].kw) = w}

\* parse_kritem(): the tags of a kanji or reading without the mark.
Unmarked(item) == SelectSeq(item.tags, LAMBDA p : p # P)
Marked(item) == P \in ToSet(item.tags)

KrFailed(item, dom) ==
  \E p \in ToSet(Unmarked(item)) :
    /\ dom = "KINF" \/ IsLatin(p)
    /\ Len(p.words) > 1 \/ Tagged(p.words[1], {dom}) = {}

\* What is not Latin in parentheses after a reading names kanji.
RestrTexts(item) ==
  FlattenSeq([i \in DOMAIN item.tags |->
    IF IsLatin(item.tags[i]) THEN <<>> ELSE item.tags[i].words])

KrInf(item, dom) == UNION {Tagged(p.words[1], {dom}) : p \in ToSet(Unmarked(item))}

\* The sense tag "(P)" is for the only kanji and the only reading, if there
\* is no mark on either.
AnyMarked(line) == \E item \in ToSet(line.kanj \o line.rdng) : Marked(item)

IsSpec1(item, line) == Marked(item) \/ (line.p /\ ~AnyMarked(line))

MarkMissing(line) ==
  line.p /\ ~AnyMarked(line) /\ (Len(line.kanj) > 1 \/ Len(line.rdng) > 1)

-----------------------------------------------------------------------------
(* Senses. *)

SenseDoms == {"POS", "MISC", "DIAL", "FLD"}

\* process_sense(): tags are letters, digits, hyphens, colons and commas, so
\* that a list with semicolons has none.
AreTags(p) == /\ p.sep = "," \/ Len(p.words) = 1
              /\ \A w \in ToSet(p.words) : Tagged(w, SenseDoms) # {}

Kind(p) == IF Len(p.words) = 1 /\ IsNumber(p.words[1]) THEN "number"
           ELSE IF p.head # "" THEN "refs"
           ELSE IF p.only THEN "stags"
           ELSE IF AreTags(p) THEN "tags"
           ELSE "text"

OfKind(front, kind) == SelectSeq(front, LAMBDA p : Kind(p) = kind)

WordsOf(front, kind) ==
  LET ps == OfKind(front, kind)
  IN  FlattenSeq([i \in DOMAIN ps |-> ps[i].words])

\* parse_spart(): braces alone are not seen.
Seen(g) == IF g.front # <<>> /\ Head(g.front).sep = ";" THEN <<>> ELSE g.front
Unseen(g) == IF Seen(g) = <<>> THEN g.front ELSE OfKind(g.front, "text")

\* A gloss with a number in front of it begins a sense.
Begins(line) ==
  SetToSortSeq({i \in DOMAIN line.gloss :
                  i = 1 \/ OfKind(Seen(line.gloss[i]), "number") # <<>>}, <)

\* parse_xrefs(): kanji or reading, reading or number, number.
RefOK(w) ==
  /\ Len(w) \in 1 .. 3
  /\ Len(w) > 1 => \/ w[2] \in DOMAIN Number
                   \/ IsReb(<<w[2]>>) /\ ~IsReb(<<w[1]>>)
  /\ Len(w) > 2 => w[3] \in DOMAIN Number /\ w[2] \notin DOMAIN Number

ParseRef(typ, w) ==
  LET Part(Is(_)) == SelectSeq(w, Is)
  IN  [typ |-> typ,
       ktxt |-> IF IsReb(<<w[1]>>) THEN NoText ELSE <<w[1]>>,
       rtxt |-> Part(LAMBDA v : IsReb(<<v>>)),
       tsens |-> IF Last(w) \in DOMAIN Number THEN Number[Last(w)] ELSE 0]

ParseXrefs(front) ==
  LET ps == OfKind(front, "refs")
  IN  FlattenSeq([i \in DOMAIN ps |->
        [j \in DOMAIN ps[i].words |-> ParseRef(ps[i].head, ps[i].words[j])]])

\* A slip: the texts for readings are taken for kanji as well.
StagsAll(front, list, isReb) == DoRestr(WordsOf(front, "stags"), list, FALSE)

\* parse_stags()
Stags(front, list, isReb) ==
  DoRestr(SelectSeq(WordsOf(front, "stags"), LAMBDA w : IsReb(w) = isReb), list, FALSE)

\* extract_lsrc_or_ginf(): without any text it is not seen, and a language
\* that has the name of a kind of gloss is taken for that.
LsrcSeen(g) == g.lsrc # <<>> /\ ~(Len(g.lsrc) = 1 /\ g.lsrc[1].txt = "")
IsGinf(g) == LsrcSeen(g) /\ g.lsrc[1].lang \in Ginfs

ParseLsrc(g) ==
  IF ~LsrcSeen(g) \/ IsGinf(g) THEN <<>>
  ELSE [j \in DOMAIN g.lsrc |->
          [lang |-> IF g.lsrc[j].lang = "wasei" THEN "eng" ELSE g.lsrc[j].lang,
           wasei |-> g.lsrc[j].lang = "wasei", txt |-> g.lsrc[j].txt]]

\* parse_gloss(): what was not understood in front of the first gloss, or
\* after a gloss, stays with it.
ParseGloss(g, texts) ==
  <<[txt |-> g.txt, ginf |-> "equ", before |-> texts,
     after |-> IF LsrcSeen(g) THEN <<>> ELSE g.lsrc]>>
  \o IF ~IsGinf(g) THEN <<>>
     ELSE <<[txt |-> g.lsrc[1].txt, ginf |-> g.lsrc[1].lang, before |-> <<>>,
             after |-> Tail(g.lsrc)]>>

OwnPos(front) == UNION {Tagged(w, {"POS"}) : w \in ToSet(WordsOf(front, "tags"))}

\* A sense without a part of speech has that of the sense before.
Pos(fronts, n) ==
  LET own == {m \in 1 .. n : OwnPos(fronts[m]) # {}}
  IN  IF own = {} THEN {} ELSE OwnPos(fronts[Max(own)])

OtherTags(front) ==
  UNION {Tagged(w, SenseDoms \ {"POS"}) : w \in ToSet(WordsOf(front, "tags"))}

\* parse_senses()
ParseSenses(line, kanj, rdng) ==
  LET begins == Begins(line)
      fronts == [n \in DOMAIN begins |-> Seen(line.gloss[begins[n]])]
      End(n) == IF n = Len(begins) THEN Len(line.gloss) ELSE begins[n + 1] - 1
      Glosses(n) == SubSeq(line.gloss, begins[n], End(n))
  IN  [n \in DOMAIN begins |->
        [stagk |-> Stags(fronts[n], kanj, FALSE),
         stagr |-> Stags(fronts[n], rdng, TRUE),
         tags |-> Pos(fronts, n) \cup OtherTags(fronts[n]),
         xrslv |-> ParseXrefs(fronts[n]),
         lsrc |-> FlattenSeq([i \in DOMAIN Glosses(n) |-> ParseLsrc(Glosses(n)[i])]),
         gloss |-> FlattenSeq([i \in DOMAIN Glosses(n) |->
                     ParseGloss(Glosses(n)[i],
                                IF i = 1 THEN Unseen(Glosses(n)[i]) ELSE <<>>)])]]

CanRead(line) ==
  /\ \A item \in ToSet(line.kanj) : IsKeb(item.txt) /\ ~KrFailed(item, "KINF")
  /\ \A item \in ToSet(line.rdng) :
       /\ ~KrFailed(item, "RINF")
       /\ ToSet(RestrTexts(item)) \subseteq Txts(line.kanj)
  /\ ~MarkMissing(line)
  /\ \A n \in DOMAIN Begins(line) :
       LET front == Seen(line.gloss[Begins(line)[n]]) IN
       /\ \A w \in ToSet(WordsOf(front, "number")) : Number[w[1]] = n
       /\ \A w \in ToSet(WordsOf(front, "refs")) : RefOK(w)
       /\ \A w \in ToSet(WordsOf(front, "stags")) :
            w \in Txts(IF IsReb(w) THEN line.rdng ELSE line.kanj)
       /\ \A w \in ToSet(WordsOf(front, "tags")) :
            Cardinality(Tagged(w, SenseDoms)) = 1

\* entr()
EdictEntr(line) ==
  LET kanj == [i \in DOMAIN line.kanj |->
                 [txt |-> line.kanj[i].txt, inf |-> KrInf(line.kanj[i], "KINF"),
                  spec1 |-> IsSpec1(line.kanj[i], line)]]
      rdng == [i \in DOMAIN line.rdng |->
                 [txt |-> line.rdng[i].txt, inf |-> KrInf(line.rdng[i], "RINF"),
                  spec1 |-> IsSpec1(line.rdng[i], line),
                  restr |-> DoRestr(RestrTexts(line.rdng[i]), kanj, FALSE)]]
  IN  [seq |-> line.entl, kanj |-> kanj, rdng |-> rdng,
       sens |-> ParseSenses(line, kanj, rdng)]
=============================================================================
