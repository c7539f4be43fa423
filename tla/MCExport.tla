----------------------------- MODULE MCExport -----------------------------
(* Export of two loaded entries, which may be edited meanwhile. *)
EXTENDS Pages

MCKanji == {"K", "L"}
MCNumber == [n \in {"1", "2"} |-> IF n = "1" THEN 1 ELSE 2]

MCGinfs == {"equ", "lit", "fig", "expl", "tm"}
MCLangs == {"eng", "ger", "lit"}
MCLatin == {"P"} \cup {Tags[t].kw : t \in DOMAIN Tags} \cup MCGinfs \cup MCLangs
           \cup {"nokanji", "noreadings"}

MCCode == [f \in {"a", "b", "K", "L"} |->
             CASE f = "a" -> 1 [] f = "b" -> 2 [] f = "K" -> 3 [] f = "L" -> 4]

MCSeqNo == [k \in Keys |-> 10 * k]

Tag(dom, kw, ents) == [dom |-> dom, kw |-> kw, ents |-> ents]
Plain == [d \in {} |-> "no"]

\* Some tags of kwkinf, kwrinf, kwpos and kwmisc as they are in the files.
MCTags ==
  [t \in {"iK", "ok", "name", "n", "male", "fict", "aphorism", "comp", "ksb"} |->
     CASE t = "iK"       -> Tag("KINF", "iK", Plain)
       [] t = "ok"       -> Tag("RINF", "ok", Plain)
       [] t = "name"     -> Tag("RINF", "name", [d \in {"jmdict"} |-> "no"])
       [] t = "comp"     -> Tag("FLD", "comp", Plain)
       [] t = "ksb"      -> Tag("DIAL", "ksb", Plain)
       [] t = "n"        -> Tag("POS", "n", Plain)
       [] t = "male"     -> Tag("MISC", "male", [d \in {"jmnedict"} |-> "masc"])
       [] t = "fict"     -> Tag("MISC", "fict", [d \in {"jmnedict"} |-> "yes"])
       [] t = "aphorism" -> Tag("MISC", "aphorism", [d \in {"jmdict"} |-> "no"])]

Kn(txt, inf, freq) == [txt |-> txt, inf |-> inf, freq |-> freq]
Rd(txt, inf, freq, restr) ==
  [txt |-> txt, inf |-> inf, freq |-> freq, restr |-> restr]
Fr(kw, value) == [kw |-> kw, value |-> value]
Se(stagk, stagr, tags, xrslv, lsrc, gloss) ==
  [stagk |-> stagk, stagr |-> stagr, tags |-> tags, xrslv |-> xrslv,
   lsrc |-> lsrc, gloss |-> gloss]
Gl(lang, ginf, txt) == [lang |-> lang, ginf |-> ginf, txt |-> txt]
Open(typ, ktxt, rtxt, tsens) ==
  [typ |-> typ, ktxt |-> ktxt, rtxt |-> rtxt, tsens |-> tsens]

\* Kanji with kana before them, two readings, one of which is not for all
\* kanji and one for none, and two senses.
Word == [kanj |-> <<Kn(<<"a", "K">>, {"iK"}, {Fr("nf", 5)}), Kn(<<"L">>, {}, {})>>,
         rdng |-> <<Rd(<<"a", "b">>, {"ok", "name"}, {Fr("ichi", 1)}, {1}),
                    Rd(<<"b">>, {}, {Fr("nf", 12), Fr("nf", 2)}, {1, 2})>>,
         sens |-> <<Se({2}, {1}, {"n", "male"}, <<>>, <<>>, <<Gl("eng", "equ", "x")>>),
                    Se({}, {2}, {"fict", "aphorism", "comp", "ksb"}, <<>>,
                       <<[lang |-> "eng", part |-> TRUE, wasei |-> TRUE, txt |-> "y"]>>,
                       <<Gl("lit", "fig", "x"), Gl("eng", "lit", "x")>>)>>,
         grp |-> {"g"}]

\* A word in kana with a reference that nobody has resolved.
Kana == [kanj |-> <<>>,
         rdng |-> <<Rd(<<"b", "a">>, {}, {}, {})>>,
         sens |-> <<Se({}, {}, {"n", "male"},
                       <<Open("ant", <<"K">>, <<"b">>, 2), Open("cf", <<>>, <<"b">>, 0)>>,
                       <<>>, <<Gl("eng", "equ", "z")>>)>>,
         grp |-> {"g"}]

\* The first one, as it has to be to pass the checks of the form.
Word2 == [Word EXCEPT !.sens[2].tags = @ \cup {"n"}]

\* Texts that do not pass them.
Glossless == [Kana EXCEPT !.sens[1].gloss = <<>>]
Rough == [kanj |-> <<Kn(<<"K">>, {}, {})>>, rdng |-> <<>>,
          sens |-> <<Se({}, {}, {"male"}, <<>>, <<>>, <<>>)>>, grp |-> {}]

\* A word whose text cannot be told from kanji and a reading.
Mixed == [kanj |-> <<Kn(<<"K", "a">>, {}, {})>>,
          rdng |-> <<Rd(<<"a">>, {}, {}, {})>>,
          sens |-> <<Se({}, {}, {"n"}, <<>>, <<>>, <<Gl("eng", "equ", "w")>>)>>,
          grp |-> {}]


To(typ, xsens, kanj, rdng, nosens) ==
  [sens |-> 1, typ |-> typ, xsens |-> xsens, kanj |-> kanj, rdng |-> rdng,
   nosens |-> nosens]
ToOne == <<To("ant", 1, 1, 1, FALSE)>>
ToAll == <<To("see", 1, 0, 1, FALSE), To("see", 2, 0, 1, FALSE)>>
ToText == <<To("cf", 1, 2, 0, TRUE), To("see", 2, 2, 2, FALSE)>>

Loads(d, e) == [i \in Corpus |-> IF i = 1 THEN d ELSE e]
MCLoaded == {[doc |-> Loads(Word, Kana), from |-> 2, to |-> 1, link |-> ToAll],
             [doc |-> Loads(Mixed, Word), from |-> 1, to |-> 2, link |-> ToText]}
Sent(d, link, form) == [doc |-> d, link |-> link, form |-> form]
MCTexts == {Sent(Word2, ToOne, TRUE), Sent(Kana, <<>>, TRUE),
            Sent(Glossless, <<>>, TRUE), Sent(Rough, <<>>, FALSE)}

MCSrcOf == [k \in Keys |-> IF k = 1 THEN "jmdict" ELSE "test"]
MCSrcType == [c \in {"jmdict", "test"} |-> "jmdict"]

Names2(names) == [names |-> names, others |-> FALSE]
AllBut(names) == [names |-> names, others |-> TRUE]
Default == Names2({})
Ln(nums, bad) == [nums |-> nums, bad |-> bad]
Opt(xml, corpora, force, begin, count, seqfile, block) ==
  [xml |-> xml, corpora |-> corpora, force |-> force, begin |-> begin, count |-> count,
   seqfile |-> seqfile, block |-> block]

\* The last three are refused.
MCOptions == {Opt("jmdict", Names2({"jmdict", "test"}), FALSE, 0, 0, <<>>, 1),
              Opt("jmex", Default, FALSE, 0, 0, <<>>, 2),
              Opt("jmnedict", AllBut({"jmdict"}), TRUE, 20, 0, <<>>, 2),
              Opt("jmex", AllBut({}), FALSE, 0, 2, <<>>, 1),
              Opt("", AllBut({}), FALSE, 0, 0,
                  <<Ln(<<20>>, FALSE), Ln(<<10>>, TRUE), Ln(<<10>>, FALSE)>>, 1),
              Opt("jmnedict", AllBut({}), FALSE, 0, 0, <<>>, 1),
              Opt("", Default, FALSE, 0, 0, <<>>, 1),
              Opt("jmdict", Default, FALSE, 20, 0, <<Ln(<<20>>, FALSE)>>, 1)}
=============================================================================
