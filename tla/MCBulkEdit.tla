---------------------------- MODULE MCBulkEdit ----------------------------
(* Command files about entries of two corpora, with one number in both. *)
EXTENDS BulkEdit

CONSTANTS a, b,   \* corpora
          t1, t2, t3  \* texts

TwoKeys == {<<a, 1>>, <<b, 1>>}
OneText == {t1, t2}

Edit(item, old, new) ==
  [cmd |-> "edit", edit |-> [item |-> item, old |-> old, new |-> new]]

Numbers(cmd, list) == [cmd |-> cmd, nums |-> list]

SomeLines == {Numbers("seq", <<1>>), Numbers("", <<1>>), Numbers("id", <<2>>),
              [cmd |-> "corpus", src |-> b],
              Edit("text", NoTxt, t2), Edit("text", t2, t3), Edit("text", t1, NoTxt),
              Edit("comment", NoTxt, "why"), Edit("entr", NoTxt, NoTxt)}

\* Entry 1 is in corpus a, entry 2 in b.
MCInit == Init /\ entr[1].key = <<a, 1>> /\ text = <<<<t1>>, <<t2>>>>

MCSpec == MCInit /\ [][Next]_vars
=============================================================================
