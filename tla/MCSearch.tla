----------------------------- MODULE MCSearch -----------------------------
(* Searches in a corpus of up to four entries out of four kinds. *)
EXTENDS Search

\* Code points: Latin letters, kana, a kana symbol, kanji.
h == 104
H == 72
Two == 50
E1 == 101
A == 12354
I == 12356
Dot == 12289
Day == 26085
Moon == 26376

MCKeywords == [pos |-> {1, 2, 3}, misc |-> {1, 2, 3}, kinf |-> {1, 2},
               src |-> {1, 2, 3}, stat |-> {"A", "D", "R"},
               freq |-> {"ichi", "gai", "spec", "nf", "news"}]

Se(pos, misc, gloss, notes) ==
  [pos |-> pos, misc |-> misc, gloss |-> gloss, notes |-> notes]
Hi(name, notes) == [name |-> name, notes |-> notes]

Word == [seq |-> 10, src |-> 1, stat |-> "A", unap |-> FALSE,
         kanj |-> <<<<Day, Moon>>, <<Moon>>>>, rdng |-> <<<<A, I>>, <<A>>>>,
         sens |-> {Se({1, 2}, {1}, {<<H, E1>>, <<E1, h>>}, <<h>>), Se({3}, {}, {<<E1>>}, <<>>)},
         kinf |-> {1}, freq |-> {<<"ichi", 1>>, <<"nf", 5>>},
         hist |-> <<Hi(<<H>>, <<E1>>), Hi(<<E1>>, <<h, E1>>)>>]

Edited == [Word EXCEPT !.unap = TRUE, !.kanj = <<<<Moon>>, <<Two, A, H>>>>, !.freq = {<<"ichi", 2>>},
                       !.kinf = {}, !.hist = Append(@, Hi(<<h>>, <<>>))]

Kana == [seq |-> 10, src |-> 2, stat |-> "A", unap |-> FALSE,
         kanj |-> <<>>, rdng |-> <<<<A, Dot>>>>,
         sens |-> {Se({2}, {2, 3}, {<<E1, E1>>}, <<E1, h>>)},
         kinf |-> {}, freq |-> {<<"news", 1>>, <<"nf", 7>>}, hist |-> <<>>]

Old == [Kana EXCEPT !.stat = "D", !.src = 1, !.hist = <<Hi(<<h>>, <<h, h>>)>>]

MCDocs == {Word, Edited, Kana, Old}

T(in, typ, txt) == [srchin |-> in, srchtyp |-> typ, srchtxt |-> txt]

MCForms == {
  Blank,
  [Blank EXCEPT !.idnum = 10, !.src = {1}],
  [Blank EXCEPT !.idtyp = "id", !.idnum = 2],
  [Blank EXCEPT !.txts = <<T(1, "starts", <<A>>)>>, !.stat = {"A"}],
  [Blank EXCEPT !.txts = <<T(1, "ends", <<I>>), T(3, "is", <<A>>)>>],
  [Blank EXCEPT !.txts = <<T(1, "is", <<Moon>>)>>, !.unap = {"appr"}],
  [Blank EXCEPT !.txts = <<T(1, "contains", <<A, Dot>>)>>, !.src = {1, 2}],
  [Blank EXCEPT !.txts = <<T(1, "is", <<h, E1>>), T(4, "contains", <<E1>>)>>],
  [Blank EXCEPT !.txts = <<T(1, "starts", <<Two, A>>)>>],
  [Blank EXCEPT !.txts = <<T(2, "ends", <<h>>)>>],
  [Blank EXCEPT !.pos = {1, 3}, !.misc = {1, 2}],
  [Blank EXCEPT !.misc = {1, 3}, !.snote = <<H>>],
  [Blank EXCEPT !.kinf = {1, 2}, !.freq = {<<"ichi", 1>>, <<"news", 1>>}],
  [Blank EXCEPT !.freq = {<<"ichi", 1>>, <<"ichi", 2>>}, !.nf = [cmp |-> ">=", val |-> 7]],
  [Blank EXCEPT !.kinf = {1}, !.nf = [cmp |-> "<=", val |-> 6]],
  [Blank EXCEPT !.smtr = <<h>>, !.cmts = <<h>>],
  [Blank EXCEPT !.cmts = <<E1>>, !.mt = "oldest"],
  [Blank EXCEPT !.smtr = <<H>>, !.mt = "newest", !.unap = {"unappr", "appr"}]}
=============================================================================
