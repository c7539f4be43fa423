-------------------------------- MODULE Jel --------------------------------
(***************************************************************************)
(* Entries as the text of the edit form: what fmtjel.py writes of readings,*)
(* kanji, senses and all of their tags, and what the lexer and the grammar *)
(* read (jellex.py, jelparse.py).  FormText is about what becomes of the   *)
(* text in the hands of a user; this module is about the text itself.      *)
(*                                                                         *)
(* A tag in brackets is a name, or a name with words after it.  A word may *)
(* have the number of an entry, texts with dots between them, and numbers  *)
(* of senses.  A text with dots of its own is quoted.                      *)
(***************************************************************************)
EXTENDS Edict

CONSTANTS Langs,    \* the languages, as words
          RefTypes  \* the types of references, as words

Jref(num, dots, slist) == [num |-> num, dots |-> dots, slist |-> slist]
Eql(tag, refs) == [tag |-> tag, refs |-> refs]
EqlText(tag, txt) == Eql(tag, <<Jref(0, <<txt>>, <<>>)>>)
Bare(txt) == EqlText("", txt)

NoKanji == AsWord("nokanji")
NoReadings == AsWord("noreadings")

-----------------------------------------------------------------------------
(* Writing. *)

\* restrtxts(): the texts that a restriction allows.
RestrTxts(excluded, list, none) ==
  IF NoneLeft(excluded, list) THEN <<none>> ELSE Restrs(excluded, list)

\* The names of tags from one table, sorted in the code.
TagTexts(tags, dom) ==
  LET names == SetToSeq({Tags[t].kw : t \in {u \in tags : Tags[u].dom = dom}})
  IN  [i \in DOMAIN names |-> AsWord(names[i])]

Bares(texts) == [i \in DOMAIN texts |-> Bare(texts[i])]
Eqls(tag, texts) == [i \in DOMAIN texts |-> EqlText(tag, texts[i])]

\* freq2txts(): a frequency is a name with digits after it.
FreqItems(freqs) ==
  LET pris == SetToSeq(Pris(freqs))
  IN  [i \in DOMAIN pris |-> [tag |-> "freq", pri |-> pris[i]]]

JelKanj(k) == [txt |-> k.txt, tags |-> Bares(TagTexts(k.inf, "KINF")) \o FreqItems(k.freq)]

JelRdng(r, kanj) ==
  [txt |-> r.txt,
   tags |-> Bares(RestrTxts(r.restr, kanj, NoKanji))
              \o Bares(TagTexts(r.inf, "RINF")) \o FreqItems(r.freq)]

JelLsrc(x) ==
  [tag |-> "lsrc", lang |-> x.lang, txt |-> x.txt,
   flags |-> (IF x.part THEN {"p"} ELSE {}) \cup (IF x.wasei THEN {"w"} ELSE {})]

\* What belongs to the sense, in front of its first gloss.
SenseTags(s, d) ==
  LET restr == RestrTxts(s.stagk, d.kanj, NoKanji) \o RestrTxts(s.stagr, d.rdng, NoReadings)
  IN  Bares(TagTexts(s.tags, "POS")) \o Bares(TagTexts(s.tags, "MISC"))
        \o Eqls("fld", TagTexts(s.tags, "FLD")) \o Eqls("dial", TagTexts(s.tags, "DIAL"))
        \o (IF restr = <<>> THEN <<>>
            ELSE <<Eql("restr", [i \in DOMAIN restr |-> Jref(0, <<restr[i]>>, <<>>)])>>)
        \o [i \in DOMAIN s.lsrc |-> JelLsrc(s.lsrc[i])]

\* A slip: a language is named as a kind of gloss is.
GlossTagsBare(g) ==
  (IF g.ginf = "equ" THEN <<>> ELSE <<Bare(AsWord(g.ginf))>>)
  \o (IF g.lang = "eng" THEN <<>> ELSE <<Bare(AsWord(g.lang))>>)

\* One language has the name of a kind of gloss.
GlossTags(g) ==
  (IF g.ginf = "equ" THEN <<>> ELSE <<Bare(AsWord(g.ginf))>>)
  \o (IF g.lang = "eng" THEN <<>>
      ELSE IF g.lang = "lit" THEN <<EqlText("lang", AsWord(g.lang))>>
      ELSE <<Bare(AsWord(g.lang))>>)

\* xref(): the target by number, text and senses, if it is not deleted or
\* rejected.  nums tells the number that names a target.
XrefItems(refs, targ, nums) ==
  LET Texts2(x) == (IF x.kanj = 0 THEN <<>> ELSE <<targ[x.xentr].kanj[x.kanj].txt>>)
                     \o (IF x.rdng = 0 THEN <<>> ELSE <<targ[x.xentr].rdng[x.rdng].txt>>)
  IN  FlattenSeq([i \in DOMAIN refs |->
        LET x == refs[i] IN
        IF ~IsFirst(refs, i) \/ targ[x.xentr].stat # "A" THEN <<>>
        ELSE <<Eql(x.typ, <<Jref(nums[x.xentr], Texts2(x), SensesOf(refs, i))>>)>>])

\* xrslv(): the text of an unresolved reference is not quoted.
XrslvItem(v) ==
  LET frags == v.ktxt \o v.rtxt
  IN  Eql(v.typ, <<Jref(0, [i \in DOMAIN frags |-> <<frags[i]>>],
                        IF v.tsens = 0 THEN <<>> ELSE <<v.tsens>>)>>)

JelSens(s, refs, d, targ, nums) ==
  [i \in DOMAIN s.gloss |->
     [txt |-> s.gloss[i].txt,
      tags |-> (IF i = 1 THEN SenseTags(s, d) ELSE <<>>) \o GlossTags(s.gloss[i])
                 \o IF i < Len(s.gloss) THEN <<>>
                    ELSE XrefItems(refs, targ, nums)
                           \o [j \in DOMAIN s.xrslv |-> XrslvItem(s.xrslv[j])]]]

\* entr(), without a header
JelText(d, refs, targ, nums) ==
  [kanj |-> [i \in DOMAIN d.kanj |-> JelKanj(d.kanj[i])],
   rdng |-> [i \in DOMAIN d.rdng |-> JelRdng(d.rdng[i], d.kanj)],
   sens |-> [n \in DOMAIN d.sens |-> JelSens(d.sens[n], refs[n], d, targ, nums)]]

-----------------------------------------------------------------------------
(* The grammar: what each tag is taken for, [typ, val].  What is not Latin *)
(* is a restriction, or a word of a reference.                             *)

Typed(typ, val) == [typ |-> typ, val |-> val]

IsLatinText(t) == ToSet(t) \subseteq Latin \cup DOMAIN Number

\* p_tagitem_1 to 4
RestrOf(t) ==
  IF t = NoKanji \/ ~IsKeb(t) THEN Typed("RESTR", [ktxt |-> NoText, rtxt |-> t])
  ELSE Typed("RESTR", [ktxt |-> t, rtxt |-> NoText])

BareTag(t) == IF IsLatinText(t) /\ t # NoKanji THEN Typed("", t) ELSE RestrOf(t)

\* tag_eql_text(), lookup_tag()
Named(dom, t) ==
  CASE dom = "lang" -> Typed("LANG", t[1])
    [] dom = "ginf" -> Typed("GINF", t[1])
    [] OTHER -> LET D == CASE dom = "fld" -> "FLD" [] dom = "dial" -> "DIAL"
                           [] dom = "pos" -> "POS" [] dom = "misc" -> "MISC"
                IN  Typed(D, CHOOSE x \in Tagged(t, {D}) : TRUE)

\* p_tagitem_10: one text is a kanji or a reading, two are both.
XrefTag(tag, ref) ==
  LET one == Len(ref.dots) = 1
  IN  Typed("XREF", [typ |-> tag, num |-> ref.num, slist |-> ref.slist,
        ktxt |-> IF one /\ ~IsKeb(ref.dots[1]) THEN NoText ELSE ref.dots[1],
        rtxt |-> IF one /\ IsKeb(ref.dots[1]) THEN NoText ELSE Last(ref.dots)])

TagItems(item) ==
  CASE item.tag = ""       -> <<BareTag(item.refs[1].dots[1])>>
    [] item.tag = "freq"   -> <<Typed("FREQ", ParseFreq(item.pri))>>
    [] item.tag = "lsrc"   ->
         <<Typed("lsrc", [lang |-> item.lang, part |-> "p" \in item.flags,
                          wasei |-> "w" \in item.flags, txt |-> item.txt])>>
    [] item.tag = "restr"  -> [i \in DOMAIN item.refs |-> RestrOf(item.refs[i].dots[1])]
    [] item.tag \in RefTypes -> [i \in DOMAIN item.refs |-> XrefTag(item.tag, item.refs[i])]
    [] OTHER               -> <<Named(item.tag, item.refs[1].dots[1])>>

TagList(items) == FlattenSeq([i \in DOMAIN items |-> TagItems(items[i])])

Values(tags, typ) ==
  LET of == SelectSeq(tags, LAMBDA t : t.typ = typ)
  IN  [i \in DOMAIN of |-> of[i].val]

-----------------------------------------------------------------------------
(* Building the entry. *)

\* bld_kanj(), bld_rdng(): a name is looked up as a tag of a kanji or reading.
InfOf(tags, dom) == UNION {Tagged(w, {dom}) : w \in ToSet(Values(tags, ""))}

BldKanj(k) ==
  LET tags == TagList(k.tags)
  IN  [txt |-> k.txt, inf |-> InfOf(tags, "KINF"), freq |-> ToSet(Values(tags, "FREQ"))]

\* The texts of a restriction, of kanji or of readings.
TextsOf(tags, part) ==
  LET said == Values(tags, "RESTR")
      texts == [i \in DOMAIN said |-> said[i][part]]
  IN  SelectSeq(texts, LAMBDA t : t # NoText)

BldRdng(r, kanj) ==
  LET tags == TagList(r.tags)
  IN  [txt |-> r.txt, inf |-> InfOf(tags, "RINF"), freq |-> ToSet(Values(tags, "FREQ")),
       restr |-> DoRestr(TextsOf(tags, "ktxt"), kanj,
                         NoKanji \in ToSet(TextsOf(tags, "rtxt")))]

\* sens_tags(): a name alone is a tag of a sense if it can be, or the kind of
\* the gloss, or its language.
Meant(t) ==
  IF t.typ # "" THEN t
  ELSE LET found == Tagged(t.val, SenseDoms) IN
       IF found # {} THEN LET x == CHOOSE x \in found : TRUE IN Typed(Tags[x].dom, x)
       ELSE IF t.val[1] \in Ginfs THEN Typed("GINF", t.val[1])
       ELSE Typed("LANG", t.val[1])

MeantTags(g) == LET tags == TagList(g.tags) IN [i \in DOMAIN tags |-> Meant(tags[i])]

FirstOr(values, default) == IF values = <<>> THEN default ELSE values[1]

\* x2xrslv(): one for each sense.
X2xrslv(x) ==
  LET One(n) == [typ |-> x.typ, ktxt |-> x.ktxt, rtxt |-> x.rtxt, num |-> x.num, tsens |-> n]
  IN  IF x.slist = <<>> THEN <<One(0)>> ELSE [i \in DOMAIN x.slist |-> One(x.slist[i])]

BldSens(glosses, kanj, rdng) ==
  LET tags == FlattenSeq([i \in DOMAIN glosses |-> MeantTags(glosses[i])])
      refs == Values(tags, "XREF")
  IN  [stagk |-> DoRestr(TextsOf(tags, "ktxt"), kanj, FALSE),
       stagr |-> DoRestr(TextsOf(tags, "rtxt"), rdng, FALSE),
       tags  |-> UNION {ToSet(Values(tags, D)) : D \in SenseDoms},
       xrslv |-> FlattenSeq([i \in DOMAIN refs |-> X2xrslv(refs[i])]),
       lsrc  |-> Values(tags, "lsrc"),
       gloss |-> [i \in DOMAIN glosses |->
                    [txt  |-> glosses[i].txt,
                     ginf |-> FirstOr(Values(MeantTags(glosses[i]), "GINF"), "equ"),
                     lang |-> FirstOr(Values(MeantTags(glosses[i]), "LANG"), "eng")]]]

JelEntr(text) ==
  LET kanj == [i \in DOMAIN text.kanj |-> BldKanj(text.kanj[i])]
      rdng == [i \in DOMAIN text.rdng |-> BldRdng(text.rdng[i], kanj)]
  IN  [kanj |-> kanj, rdng |-> rdng,
       sens |-> [n \in DOMAIN text.sens |-> BldSens(text.sens[n], kanj, rdng)]]

-----------------------------------------------------------------------------
(* Which texts are read without a ParseError. *)

\* The lexer takes digits for a number, of whatever width, unless quoted: a
\* text that is quoted has dots.
Lexes(t) == Len(t) > 1 \/ t[1] \notin DOMAIN Number

ItemLexes(item) ==
  item.tag \in {"freq", "lsrc"} \/
  \A ref \in ToSet(item.refs) :
    /\ Len(ref.dots) \in 1 .. 2
    /\ \A t \in ToSet(ref.dots) : Lexes(t)
    /\ item.tag \in RefTypes => \A t \in ToSet(ref.dots) : ~IsLatinText(t)
    /\ item.tag = "restr" => ~IsLatinText(ref.dots[1])

KnownTag(t, doms, words) ==
  t.typ = "" => \/ Cardinality(Tagged(t.val, doms)) = 1
                \/ Tagged(t.val, doms) = {} /\ t.val[1] \in words

CanReadKr(item, dom) ==
  /\ \A x \in ToSet(item.tags) : ItemLexes(x)
  /\ \A t \in ToSet(TagList(item.tags)) :
       t.typ \in {"", "FREQ", "RESTR"} /\ KnownTag(t, {dom}, {})

CanReadJel(text) ==
  /\ text.kanj # <<>> \/ text.rdng # <<>>
  /\ \A k \in ToSet(text.kanj) :
       CanReadKr(k, "KINF") /\ Values(TagList(k.tags), "RESTR") = <<>>
  /\ \A r \in ToSet(text.rdng) :
       /\ CanReadKr(r, "RINF")
       /\ LET tags == TagList(r.tags) IN
          \/ /\ TextsOf(tags, "rtxt") = <<>>
             /\ ToSet(TextsOf(tags, "ktxt")) \subseteq Txts(text.kanj)
          \/ /\ TextsOf(tags, "rtxt") = <<NoKanji>> /\ TextsOf(tags, "ktxt") = <<>>
             /\ text.kanj # <<>>
  /\ text.sens # <<>>
  /\ \A n \in DOMAIN text.sens : text.sens[n] # <<>>
  /\ \A n \in DOMAIN text.sens : \A g \in ToSet(text.sens[n]) :
       /\ \A x \in ToSet(g.tags) : ItemLexes(x)
       /\ \A t \in ToSet(TagList(g.tags)) : KnownTag(t, SenseDoms, Ginfs \cup Langs)
       /\ \A dom \in {"GINF", "LANG"} : Len(Values(MeantTags(g), dom)) <= 1
       /\ ToSet(TextsOf(TagList(g.tags), "ktxt")) \subseteq Txts(text.kanj)
       /\ ToSet(TextsOf(TagList(g.tags), "rtxt")) \subseteq Txts(text.rdng)
=============================================================================
