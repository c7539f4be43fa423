------------------------------ MODULE DbCheck ------------------------------
(***************************************************************************)
(* bin/dbcheck.py: checks that are run on a database from time to time.    *)
(* Each is a statement that finds what is wrong.  Here they are asked of a *)
(* table T of EntrTable, with what its entries say, D, and to which rows   *)
(* they refer, X.  Corpora are of type "jmdict".  Checks on characters in  *)
(* glosses (5, 6), on numbers that are places in sequences here (12-15)    *)
(* and on sequence numbers (21, 22; BulkLoad is about them) are left out.  *)
(***************************************************************************)
EXTENDS EntrTable, XmlText

\* "Approved but edit of another entry"
ApprovedEdits(T) == {e \in DOMAIN T : ~T[e].unap /\ T[e].dfrm # NoEntr}

\* "Dfrm cycles"
Cycles(T) == {e \in DOMAIN T : T[e].dfrm \in Descendants(T, e)}

\* "Multiple active entries"
MultipleActive(T) ==
  LET Active(k) == {e \in DOMAIN T : T[e].key = k /\ T[e].stat = "A" /\ ~T[e].unap}
  IN  {Min(Active(k)) : k \in {k \in Keys : Cardinality(Active(k)) > 1}}

\* "Multiple seq#s in edit set"
ChangedKey(T) ==
  {e \in DOMAIN T : \E f \in DOMAIN T : T[f].dfrm = e /\ T[f].key # T[e].key}

Active(T) == {e \in DOMAIN T : T[e].stat = "A"}

\* "No readings or kanji", "No readings", "No senses"
NoTexts(T, D) == {e \in Active(T) : D[e].rdng = <<>> /\ D[e].kanj = <<>>}
NoReading(T, D) == {e \in Active(T) : D[e].rdng = <<>>}
NoSense(T, D) == {e \in DOMAIN T : D[e].sens = <<>>}

\* "No glosses", "No part-of-speech"
NoGloss(T, D) == {e \in DOMAIN T : \E s \in ToSet(D[e].sens) : s.gloss = <<>>}
NoPos(T, D) ==
  {e \in DOMAIN T : \E s \in ToSet(D[e].sens) : \A t \in s.tags : Tags[t].dom # "POS"}

\* "Deleted or rejected without history"
Ageless(T) == {e \in DOMAIN T : T[e].stat \in {"D", "R"} /\ T[e].hist = <<>>}

\* "Xref to same seq#"
RefToOwn(T, X) == {e \in DOMAIN T : \E x \in ToSet(X[e]) : T[x.xentr].key = T[e].key}

\* "Nosens xref points to sense other than 1"
NosensToOther(T, X) == {e \in DOMAIN T : \E x \in ToSet(X[e]) : x.nosens /\ x.xsens # 1}

\* "Seq#s with both deleted and active entries", "with multiple deleted entries"
BesideDeleted(T, stat) ==
  {e \in DOMAIN T : /\ T[e].stat = stat
                    /\ \E d \in DOMAIN T \ {e} : /\ T[d].key = T[e].key
                                                 /\ T[d].stat = "D" /\ ~T[d].unap}

Reports(T, D, X) ==
  [check \in 1 .. 4 \cup 7 .. 11 \cup 16 .. 20 |->
     CASE check = 1  -> ApprovedEdits(T)
       [] check = 2  -> Cycles(T)
       [] check = 3  -> MultipleActive(T)
       [] check = 4  -> ChangedKey(T)
       [] check = 7  -> NoTexts(T, D)
       [] check = 8  -> NoReading(T, D)
       [] check = 9  -> NoSense(T, D)
       [] check = 10 -> NoGloss(T, D)
       [] check = 11 -> NoPos(T, D)
       [] check = 16 -> Ageless(T)
       [] check = 17 -> RefToOwn(T, X)
       [] check = 18 -> NosensToOther(T, X)
       [] check = 19 -> BesideDeleted(T, "A")
       [] check = 20 -> BesideDeleted(T, "D")]

\* main(): the checks asked for, all if none is, or all but those.
Chosen(checks, nums, exclude) ==
  {c \in checks : nums = {} \/ (c \in nums) # exclude}

\* run_check() counts what it reports, in every corpus, up to a limit.
ChecksFailed(reports, nums, exclude) ==
  {c \in Chosen(DOMAIN reports, nums, exclude) : reports[c] # {}}
=============================================================================
