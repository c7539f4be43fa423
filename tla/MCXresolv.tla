----------------------------- MODULE MCXresolv -----------------------------
(* Xresolv with a word in kana, words with kanji, and references to them. *)
EXTENDS Xresolv

CONSTANTS r1, r2, k1   \* readings and a kanji

Kana  == [rdng |-> <<r1>>, kanj |-> <<>>, nokanji |-> {}, ns |-> 1]
Kanji == [rdng |-> <<r1, r2>>, kanj |-> <<k1>>, nokanji |-> {2}, ns |-> 2]

TwoWords == {Kana, Kanji}

\* Sense 2 of r1: either word may be meant, of which one has no such sense.
ByReading == [typ |-> "see", rtxt |-> r1, ktxt |-> NoTxt, tsens |-> 2]
ByKanji   == [typ |-> "see", rtxt |-> NoTxt, ktxt |-> k1, tsens |-> 0]
\* r1 and k1 go together, r2 and k1 do not, though both are in the word.
ByBoth(r) == [typ |-> "see", rtxt |-> r, ktxt |-> k1, tsens |-> 0]

SomeLists == {<<>>, <<ByKanji, ByReading>>, <<ByBoth(r2), ByBoth(r1)>>}

\* The numbers of the loaded entries: other choices are renamings.
MCInit == Init /\ \A e \in Corpus : entr[e].key = e

MCSpec == MCInit /\ [][Next]_vars /\ Fairness
=============================================================================
