------------------------------ MODULE XmlText ------------------------------
(***************************************************************************)
(* Entries as XML: what fmtxml.py writes of an entry and what jmxml.py     *)
(* reads back, in the formats "jmdict", "jmnedict" and "jmex".             *)
(*                                                                         *)
(* An element is a record of the elements and attributes in it.  A text is *)
(* the sequence of the fragments between its middle dots, since these are  *)
(* what the text of a reference is taken apart at.  Notes, dates, sounds   *)
(* and the words of audit elements are carried as they are and left out.   *)
(***************************************************************************)
EXTENDS Integers, SequencesExt, FiniteSetsExt

CONSTANTS Kanji,   \* the fragments that have kanji in them (jstr_classify)
          Number,  \* the fragments that are digits -> their value
          Tags     \* tag -> [dom, kw, ents], the keyword tables

NoText == <<>>

Txts(list) == {list[i].txt : i \in DOMAIN list}

-----------------------------------------------------------------------------
(* Writing. *)

\* entity(): the entity that stands for a tag in a DTD, "no" if there is none.
Entity(t, dtd) ==
  LET r == Tags[t]
      known == IF dtd \in DOMAIN r.ents THEN r.ents[dtd]
               ELSE IF dtd \in {"jmdict", "jmex"} THEN "yes" ELSE "no"
  IN  IF known = "yes" THEN r.kw ELSE known

\* ents(): tags that the DTD does not have are left out.
Ents(tags, dtd) ==
  {[dom |-> Tags[t].dom, name |-> Entity(t, dtd)] :
     t \in {t \in tags : Entity(t, dtd) # "no"}}

\* "nf" is written with two digits at least.
Pri(f) ==
  [kw |-> f.kw,
   digits |-> IF f.value < 10 /\ f.kw # "nf" THEN <<f.value>>
              ELSE <<f.value \div 10, f.value % 10>>]

Pris(freqs) == {Pri(f) : f \in freqs}

\* restrs(): stored is what is not allowed, written is what is, if not all.
Restrs(excluded, list) ==
  IF excluded = {} THEN <<>>
  ELSE LET left == SetToSortSeq(DOMAIN list \ excluded, <)
       IN  [i \in DOMAIN left |-> list[left[i]].txt]

NoneLeft(excluded, list) == excluded # {} /\ excluded = DOMAIN list

KEle(k, dtd) ==
  [keb |-> k.txt, ke_inf |-> Ents(k.inf, dtd), ke_pri |-> Pris(k.freq)]

REle(r, kanj, dtd) ==
  [reb |-> r.txt, re_restr |-> Restrs(r.restr, kanj),
   re_nokanji |-> NoneLeft(r.restr, kanj),
   re_inf |-> Ents(r.inf, dtd), re_pri |-> Pris(r.freq)]

\* add_xsens_lists(): references that differ in the target's sense alone.
SameBut(x, y) == x.typ = y.typ /\ x.xentr = y.xentr
SensesOf(refs, i) ==
  LET alike == SelectSeq(refs, LAMBDA y : SameBut(refs[i], y))
  IN  [j \in DOMAIN alike |-> alike[j].xsens]
IsFirst(refs, i) == \A j \in 1 .. i - 1 : ~SameBut(refs[i], refs[j])

\* The text of a reference, without or with the number of a sense.
Target(x, targ) ==
  (IF x.kanj = 0 THEN NoText ELSE targ.kanj[x.kanj].txt) \o
  (IF x.rdng = 0 THEN NoText ELSE targ.rdng[x.rdng].txt)

NumberedAs(n) == CHOOSE f \in DOMAIN Number : Number[f] = n

ToWhole(x, senses, targ) == x.nosens \/ Len(senses) = Len(targ.sens)

RefTexts(x, senses, targ) ==
  IF ToWhole(x, senses, targ) THEN <<Target(x, targ)>>
  ELSE [j \in DOMAIN senses |->
          Append(Target(x, targ), NumberedAs(senses[j]))]

\* A slip: pending and deleted entries are written as targets as well.
ShowsAny(targ, dtd) == TRUE

\* Only in "jmex" may a reference lead to an entry that is not published.
Shows(targ, dtd) == dtd = "jmex" \/ (targ.stat = "A" /\ ~targ.unap)

\* The element's name; "jmex" has an attribute for the type instead.
RefTag(typ, dtd) == IF typ = "ant" /\ dtd # "jmex" THEN "ant" ELSE "xref"

\* xrefs(): TARG gives the entries that the references lead to.
Xrefs(refs, TARG, dtd) ==
  FlattenSeq([i \in DOMAIN refs |->
    LET x == refs[i]
        texts == RefTexts(x, SensesOf(refs, i), TARG[x.xentr])
    IN  IF ~IsFirst(refs, i) \/ ~Shows(TARG[x.xentr], dtd) THEN <<>>
        ELSE [j \in DOMAIN texts |->
                [tag |-> RefTag(x.typ, dtd), txt |-> texts[j]]]])

\* xrslvs(): other types than these two are not in the public formats.
Xrslvs(refs, dtd) ==
  LET told == SelectSeq(refs, LAMBDA x : dtd = "jmex" \/ x.typ \in {"see", "ant"})
  IN  [i \in DOMAIN told |->
         [tag |-> RefTag(told[i].typ, dtd),
          txt |-> told[i].ktxt \o told[i].rtxt \o
                  IF told[i].tsens = 0 THEN <<>>
                  ELSE <<NumberedAs(told[i].tsens)>>]]

\* sens_xrefs(): the public DTDs have xref elements before ant elements.
SensXrefs(s, refs, TARG, dtd) ==
  LET all == Xrefs(refs, TARG, dtd) \o Xrslvs(s.xrslv, dtd)
      Named(tag) == SelectSeq(all, LAMBDA x : x.tag = tag)
  IN  IF dtd = "jmex" THEN all ELSE Named("xref") \o Named("ant")

\* English is not marked as such, nor is the usual kind of gloss; trans() has
\* no kinds, and takes every gloss for English.
GlossElem(g, dtd) ==
  [lang |-> IF dtd = "jmnedict" \/ g.lang = "eng" THEN "" ELSE g.lang,
   g_type |-> IF dtd = "jmnedict" \/ g.ginf = "equ" THEN "" ELSE g.ginf,
   txt |-> g.txt]

LsrcElem(x) ==
  [lang |-> IF x.lang = "eng" /\ x.wasei THEN "" ELSE x.lang,
   ls_type |-> IF x.part THEN "part" ELSE "",
   ls_wasei |-> IF x.wasei THEN "y" ELSE "", txt |-> x.txt]

\* trans() writes the tags of table "misc" alone, and no restrictions.  (What
\* is restricted to nothing cannot be written by sens(): see module Export.)
NameTags(tags) == {t \in tags : Tags[t].dom = "MISC"}

SenseElem(s, refs, TARG, d, dtd) ==
  LET names == dtd = "jmnedict" IN
  [stagk |-> IF names THEN <<>> ELSE Restrs(s.stagk, d.kanj),
   stagr |-> IF names THEN <<>> ELSE Restrs(s.stagr, d.rdng),
   ents |-> Ents(IF names THEN NameTags(s.tags) ELSE s.tags, dtd),
   refs |-> SensXrefs(s, refs, TARG, dtd),
   lsource |-> IF names THEN <<>>
               ELSE [i \in DOMAIN s.lsrc |-> LsrcElem(s.lsrc[i])],
   gloss |-> [i \in DOMAIN s.gloss |-> GlossElem(s.gloss[i], dtd)]]

\* trans() writes nothing of a sense without tags, references and glosses.
Senses(list) ==
  SelectSeq(list, LAMBDA s : s.ents # {} \/ s.refs # <<>> \/ s.gloss # <<>>)

\* entrhdr(), info(): only "jmex" tells what a row is besides its number; an
\* attribute that is not there is 0 or "".
Header(row, dtd) ==
  IF dtd = "jmex"
    THEN [seq |-> row.seq, id |-> row.id, dfrm |-> row.dfrm, corpus |-> row.src,
          type |-> row.srct, stat |-> row.stat, unap |-> row.unap, audit |-> row.hist]
    ELSE [seq |-> row.seq, id |-> 0, dfrm |-> 0, corpus |-> "", type |-> "",
          stat |-> "", unap |-> FALSE, audit |-> <<>>]

\* entr(): refs gives the references of each sense.
EntryElem(row, d, refs, TARG, dtd) ==
  [head |-> Header(row, dtd),
   k_ele |-> [i \in DOMAIN d.kanj |-> KEle(d.kanj[i], dtd)],
   r_ele |-> [i \in DOMAIN d.rdng |-> REle(d.rdng[i], d.kanj, dtd)],
   sense |-> LET all == [n \in DOMAIN d.sens |-> SenseElem(d.sens[n], refs[n], TARG, d, dtd)]
             IN  IF dtd = "jmnedict" THEN Senses(all) ELSE all,
   group |-> IF dtd = "jmex" THEN d.grp ELSE {}]

-----------------------------------------------------------------------------
(* Reading. *)

\* make_enttab(): the name that a DTD has for a tag, "no" if it is taken out.
\* "jmex" is read with the tables as they are.
TabName(t, dtd) ==
  LET r == Tags[t]
      known == IF dtd \in DOMAIN r.ents THEN r.ents[dtd]
               ELSE IF dtd = "jmdict" THEN "yes" ELSE "no"
  IN  IF dtd = "jmex" \/ known = "yes" THEN r.kw ELSE known

\* do_kws(): names that the tables do not have are reported and left out.
DoKws(ents, dtd) ==
  {t \in DOMAIN Tags :
     /\ TabName(t, dtd) # "no"
     /\ [dom |-> Tags[t].dom, name |-> TabName(t, dtd)] \in ents}

ParseFreq(p) ==
  [kw |-> p.kw,
   value |-> IF Len(p.digits) = 1 THEN p.digits[1]
             ELSE 10 * p.digits[1] + p.digits[2]]

\* do_restr(), txt2restr(): what is not named is not allowed.
DoRestr(texts, list, none) ==
  IF texts = <<>> /\ ~none THEN {}
  ELSE {i \in DOMAIN list : none \/ list[i].txt \notin ToSet(texts)}

\* unique(): what has been there before is reported and left out.
DropRepeats(list, ids) ==
  LET fresh == {i \in DOMAIN list : \A j \in 1 .. i - 1 : ids[j] # ids[i]}
      kept == SetToSortSeq(fresh, <)
  IN  [i \in DOMAIN kept |-> list[kept[i]]]

DoKanjs(elems, dtd) ==
  LET read == DropRepeats(elems, [i \in DOMAIN elems |-> elems[i].keb])
  IN  [i \in DOMAIN read |->
         [txt |-> read[i].keb, inf |-> DoKws(read[i].ke_inf, dtd),
          freq |-> {ParseFreq(p) : p \in read[i].ke_pri}]]

DoRdngs(elems, kanj, dtd) ==
  LET read == DropRepeats(elems, [i \in DOMAIN elems |-> elems[i].reb])
  IN  [i \in DOMAIN read |->
         [txt |-> read[i].reb, inf |-> DoKws(read[i].re_inf, dtd),
          freq |-> {ParseFreq(p) : p \in read[i].re_pri},
          restr |-> DoRestr(read[i].re_restr, kanj, read[i].re_nokanji)]]

\* From the right, fragments belong to the reading until one has kanji.
Split(frags) ==
  LET has == {i \in DOMAIN frags : frags[i] \in Kanji}
      k == IF has = {} THEN 0 ELSE Max(has)
  IN  [ktxt |-> SubSeq(frags, 1, k), rtxt |-> SubSeq(frags, k + 1, Len(frags))]

\* do_xref(): the last fragment is the number of a sense if it is digits.
DoXref(elem) ==
  LET frags == elem.txt
      numbered == frags # <<>> /\ Last(frags) \in DOMAIN Number
      kr == Split(IF numbered THEN Front(frags) ELSE frags)
  IN  [typ |-> IF elem.tag = "ant" THEN "ant" ELSE "see",
       ktxt |-> kr.ktxt, rtxt |-> kr.rtxt,
       tsens |-> IF numbered THEN Number[Last(frags)] ELSE 0]

\* References without a text are dropped; "xref" comes before "ant".
DoXrefs(elems) ==
  LET Named(tag) == SelectSeq(elems, LAMBDA e : e.tag = tag)
      all == Named("xref") \o Named("ant")
      read == [i \in DOMAIN all |-> DoXref(all[i])]
  IN  SelectSeq(read, LAMBDA x : x.ktxt # NoText \/ x.rtxt # NoText)

DoGloss(elems) ==
  LET all == [i \in DOMAIN elems |->
                [lang |-> IF elems[i].lang = "" THEN "eng" ELSE elems[i].lang,
                 ginf |-> IF elems[i].g_type = "" THEN "equ" ELSE elems[i].g_type,
                 txt |-> elems[i].txt]]
  IN  DropRepeats(all, [i \in DOMAIN all |-> <<all[i].lang, all[i].txt>>])

DoLsrc(elems) ==
  [i \in DOMAIN elems |->
     [lang |-> IF elems[i].lang = "" THEN "eng" ELSE elems[i].lang,
      part |-> elems[i].ls_type = "part", wasei |-> elems[i].ls_wasei # "",
      txt |-> elems[i].txt]]

DoSenss(elems, kanj, rdng, dtd) ==
  [n \in DOMAIN elems |->
     [stagk |-> DoRestr(elems[n].stagk, kanj, FALSE),
      stagr |-> DoRestr(elems[n].stagr, rdng, FALSE),
      tags |-> DoKws(elems[n].ents, dtd),
      xrslv |-> DoXrefs(elems[n].refs),
      lsrc |-> DoLsrc(elems[n].lsource), gloss |-> DoGloss(elems[n].gloss)]]

\* do_entr(): the object that an entry element is read as; groups must have
\* been defined before (do_groups).
DoEntr(elem, defined, dtd) ==
  LET kanj == DoKanjs(elem.k_ele, dtd)
      rdng == DoRdngs(elem.r_ele, kanj, dtd)
  IN  [seq |-> elem.head.seq, src |-> elem.head.corpus,
       id |-> elem.head.id, dfrm |-> elem.head.dfrm,
       stat |-> IF elem.head.stat = "" THEN "A" ELSE elem.head.stat,
       unap |-> elem.head.unap, hist |-> elem.head.audit,
       doc |-> [kanj |-> kanj, rdng |-> rdng,
                sens |-> DoSenss(elem.sense, kanj, rdng, dtd),
                grp |-> elem.group \cap defined]]
=============================================================================
