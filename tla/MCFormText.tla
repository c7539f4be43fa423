---- MODULE MCFormText ----
(* The entries of the form: number 1 with restrictions and two senses, one  *)
(* of which refers to number 2, which users edit as well.                   *)
EXTENDS FormText

Ichi == {"ichi1"}

\* Either the first reading goes with one kanji and the second with none, or
\* only the second is restricted; either the second sense is for one kanji, or
\* for one kanji and one reading.
MCWords ==
  <<{[seq |-> 1,
      kanj |-> <<[txt |-> "k1", freq |-> Ichi], [txt |-> "k2", freq |-> {}]>>,
      rdng |-> <<[txt |-> "r1", freq |-> {}, restr |-> a],
                 [txt |-> "r2", freq |-> Ichi, restr |-> b]>>,
      sens |-> <<[gloss |-> "g1", stagk |-> {}, stagr |-> {}, xrslv |-> {}],
                 [gloss |-> "g2", stagk |-> s[1], stagr |-> s[2], xrslv |-> {}]>>] :
        <<a, b, s>> \in {<<{2}, {1, 2}, <<{1}, {}>> >>,
                          <<{}, {1}, <<{2}, {1}>> >>}},
    {[seq |-> 2,
      kanj |-> <<[txt |-> "t1", freq |-> {}], [txt |-> "t2", freq |-> Ichi]>>,
      rdng |-> <<[txt |-> "u", freq |-> {}, restr |-> {1}]>>,
      sens |-> <<[gloss |-> "h1", stagk |-> {}, stagr |-> {}, xrslv |-> {}],
                 [gloss |-> "h2", stagk |-> {}, stagr |-> {}, xrslv |-> {}]>>]}>>

Nothing == [ktxt |-> "none", rtxt |-> "none"]
MCSaid == [g1 |-> [ktxt |-> "t2", rtxt |-> "none"], g2 |-> Nothing,
           h1 |-> Nothing, h2 |-> Nothing]

\* The first sense of number 1 refers to both senses of number 2.
MCLinks == {{[entr |-> 1, sens |-> 1, xentr |-> 2, xsens |-> s, kanj |-> 2,
              rdng |-> 0] : s \in {1, 2}}}
====
