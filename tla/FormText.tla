------------------------------ MODULE FormText ------------------------------
(***************************************************************************)
(* The text of the edit form: what an entry becomes when it is written as  *)
(* JEL (views/edform.py, fmtjel.py), changed by a user, read back          *)
(* (jelparse.py), completed from the entry that it replaces                *)
(* (views/edconf.py) and stored (jdb.addentr).                             *)
(*                                                                         *)
(* A row of the database refers to readings, kanji and senses by number;   *)
(* the form names them by their text.  A restriction is stored as the      *)
(* pairs that are NOT allowed and shown as those that are.  Frequencies    *)
(* are hidden from users who are not editors, and references from other    *)
(* entries from everyone; both are put back from the parent entry.         *)
(*                                                                         *)
(* The entries of a sequence number are a chain here, of which the latest  *)
(* is the highest id (forks and the checks of submission are in WebEdit    *)
(* and EditTree), all are active, in the first corpus, and their references*)
(* are of one type and without notes.                                      *)
(***************************************************************************)
EXTENDS Integers, Sequences, FiniteSets

CONSTANTS Users, Editors, \* the users, those of them that are editors
          Kebs, Rebs,     \* the texts that jdb.jstr_keb() and jstr_reb() accept
          NoTxt, NoKanji, \* no text; the tag of a reading without kanji
          Words,          \* sequence number -> the entries it may start with
          Links,          \* the sets of references that there may be at first
          Said,           \* gloss -> the text that references of its sense show
          NewKanj, Freqs, \* the kanji that users may add, and all frequencies
          MaxRows,        \* how many entries there may ever be
          MaxChanges      \* how many changes a user makes to a form

ASSUME EditorsAreUsers == Editors \subseteq Users
ASSUME NoTextIsNone == {NoTxt, NoKanji} \cap (Kebs \cup Rebs) = {}
ASSUME KanjiAreNoReadings == Kebs \cap Rebs = {} /\ NewKanj \subseteq Kebs
ASSUME BoundsAreNumbers == MaxRows \in Nat /\ MaxChanges \in Nat
ASSUME FirstNumbers == IsFiniteSet(DOMAIN Words) /\ DOMAIN Words = 1 .. Cardinality(DOMAIN Words)

VARIABLES entr,  \* id -> [seq, kanj, rdng, sens], the rows of table entr
          next,  \* the next id
          xref,  \* the rows of table xref
          page   \* user -> the page that the user is on

formVars == <<entr, next, xref, page>>

Rows(q) == {e \in DOMAIN entr : entr[e].seq = q}
Latest(q) == CHOOSE e \in Rows(q) : \A d \in Rows(q) : d <= e

Txts(list) == {list[i].txt : i \in DOMAIN list}

\* list.index(): the place of a text, 0 when there is none to look for.
Place(list, txt) ==
  IF txt = NoTxt THEN 0 ELSE CHOOSE i \in DOMAIN list : list[i].txt = txt
TxtAt(list, i) == IF i = 0 THEN NoTxt ELSE list[i].txt

\* What there may be in an entry, and in a reference before it is resolved.
Kanj == [txt : Kebs, freq : SUBSET Freqs]
Rdng == [txt : Rebs, freq : SUBSET Freqs, restr : SUBSET Nat]
Name == [ktxt : Kebs \cup {NoTxt}, rtxt : Rebs \cup {NoTxt}]
Xrslv == [num : Int, senses : SUBSET Nat, kr : Name]
Sens == [gloss : DOMAIN Said, stagk : SUBSET Nat, stagr : SUBSET Nat,
         xrslv : SUBSET Xrslv]
Entry == [seq : Nat, kanj : Seq(Kanj), rdng : Seq(Rdng), sens : Seq(Sens)]

\* No text is there twice (edconf.check_for_errors refuses such an entry), senses are
\* told apart by their glosses, and what is restricted is restricted to
\* something.
Formed(w) ==
  /\ w \in Entry
  /\ \A list \in {w.kanj, w.rdng} : \A i, j \in DOMAIN list :
       list[i].txt = list[j].txt => i = j
  /\ \A i, j \in DOMAIN w.sens : w.sens[i].gloss = w.sens[j].gloss => i = j
  /\ \A i \in DOMAIN w.rdng : w.rdng[i].restr \subseteq DOMAIN w.kanj
  /\ \A n \in DOMAIN w.sens :
       /\ w.sens[n].stagk \subseteq DOMAIN w.kanj
       /\ w.sens[n].stagk = DOMAIN w.kanj => w.kanj = <<>>
       /\ w.sens[n].stagr \subseteq DOMAIN w.rdng
       /\ w.sens[n].stagr = DOMAIN w.rdng => w.rdng = <<>>
       /\ \A v \in w.sens[n].xrslv : v.kr = Said[w.sens[n].gloss]

ASSUME SaidAreNames == Said \in [DOMAIN Said -> Name]
ASSUME WordsAreEntries ==
  \A q \in DOMAIN Words : \A w \in Words[q] : Formed(w) /\ w.seq = q
ASSUME LinksAreRight ==
  \A links \in Links : \A x \in links :
    /\ x \in [entr : DOMAIN Words, sens : Nat, xentr : DOMAIN Words, xsens : Nat,
              kanj : Nat, rdng : Nat]
    /\ \A w \in Words[x.entr], t \in Words[x.xentr] :
         /\ x.sens \in DOMAIN w.sens /\ x.xsens \in DOMAIN t.sens
         /\ x.kanj \in {0} \cup DOMAIN t.kanj /\ x.rdng \in {0} \cup DOMAIN t.rdng
         /\ Said[w.sens[x.sens].gloss]
              = [ktxt |-> TxtAt(t.kanj, x.kanj), rtxt |-> TxtAt(t.rdng, x.rdng)]

Has(e, kr) == /\ kr.ktxt \in Txts(e.kanj) \cup {NoTxt}
              /\ kr.rtxt \in Txts(e.rdng) \cup {NoTxt}

-----------------------------------------------------------------------------
(* The entry as text. *)

\* A slip: nothing is written when nothing is allowed.
AllowedTexts(excluded, list) ==
  IF excluded = {} THEN {}
  ELSE {list[i].txt : i \in DOMAIN list \ excluded}

\* The texts that a restriction allows, written only when it forbids some.
Allowed(excluded, list) ==
  IF excluded = {} THEN {}
  ELSE IF Cardinality(excluded) = Len(list) THEN {NoKanji}
  ELSE {list[i].txt : i \in DOMAIN list \ excluded}

\* What a reference shows of its target.
Shown(x) == [ktxt |-> TxtAt(entr[x.xentr].kanj, x.kanj),
             rtxt |-> TxtAt(entr[x.xentr].rdng, x.rdng)]

RefsOf(e, n) == {x \in xref : x.entr = e /\ x.sens = n}
SensesOf(e, n, t) == {x.xsens : x \in {y \in RefsOf(e, n) : y.xentr = t}}

\* A target is named by its sequence number when every entry of that number
\* is a target of the same sense, by its id (here negative) otherwise.
NumberFor(e, n, t) ==
  LET targs == {x.xentr : x \in RefsOf(e, n)}
  IN  IF Rows(entr[t].seq) \subseteq targs THEN entr[t].seq ELSE -t

\* One line for each name and list of senses.
Lines(e, n) ==
  LET Line(x) == [num |-> NumberFor(e, n, x.xentr),
                  senses |-> SensesOf(e, n, x.xentr)]
      First(l) == CHOOSE x \in RefsOf(e, n) : Line(x) = l
  IN  {[num |-> l.num, senses |-> l.senses, kr |-> Shown(First(l))] :
         l \in {Line(x) : x \in RefsOf(e, n)}}

\* An unresolved reference is shown without the number that it was given.
Unresolved(v) == [num |-> 0, senses |-> v.senses, kr |-> v.kr]

Hidden(list) == [i \in DOMAIN list |-> [list[i] EXCEPT !.freq = {}]]

Form(u, e) ==
  LET w == entr[e]
      rdng == [i \in DOMAIN w.rdng |->
                 [w.rdng[i] EXCEPT !.restr = Allowed(@, w.kanj)]]
  IN  [kanj |-> IF u \in Editors THEN w.kanj ELSE Hidden(w.kanj),
       rdng |-> IF u \in Editors THEN rdng ELSE Hidden(rdng),
       sens |-> [n \in DOMAIN w.sens |->
         [gloss |-> w.sens[n].gloss,
          restr |-> Allowed(w.sens[n].stagk, w.kanj)
                      \cup Allowed(w.sens[n].stagr, w.rdng),
          refs |-> Lines(e, n)
                      \cup {Unresolved(v) : v \in w.sens[n].xrslv}]]]

-----------------------------------------------------------------------------
(* The text as an entry. *)

\* The numbers of the texts that are not named; all of them for "nokanji".
Excluded(names, list) ==
  IF names = {} THEN {} ELSE {i \in DOMAIN list : list[i].txt \notin names}

\* Every restriction names texts of the entry, or says "nokanji".
Reads(f) ==
  /\ \A r \in DOMAIN f.rdng :
       \/ f.rdng[r].restr \subseteq Txts(f.kanj)
       \/ f.rdng[r].restr = {NoKanji} /\ f.kanj # <<>>
  /\ \A n \in DOMAIN f.sens :
       /\ f.sens[n].restr \cap Kebs \subseteq Txts(f.kanj)
       /\ f.sens[n].restr \ Kebs \subseteq Txts(f.rdng)

\* A slip: only the first sense of a line is taken.
ApartFirst(lines) ==
  {[l EXCEPT !.senses = {CHOOSE s \in @ : \A r \in @ : s <= r}] : l \in lines}

\* A line becomes one unresolved reference for each sense.
Apart(lines) ==
  UNION {{[num |-> l.num, senses |-> {s}, kr |-> l.kr] : s \in l.senses} :
           l \in lines}

\* The entries that an unresolved reference finds.  Its number is taken for a
\* sequence number of the corpus of the entry, which no negative one is.
Candidates(v) ==
  {e \in DOMAIN entr : /\ v.num \in {0, entr[e].seq}
                       /\ Has(entr[e], v.kr)}

Resolves(v) ==
  /\ Candidates(v) # {}
  /\ \A d, e \in Candidates(v) : entr[d].seq = entr[e].seq
  /\ \A e \in Candidates(v) : v.senses \subseteq DOMAIN entr[e].sens

Targets(v) ==
  {[xentr |-> e, xsens |-> s, kanj |-> Place(entr[e].kanj, v.kr.ktxt),
    rdng |-> Place(entr[e].rdng, v.kr.rtxt)] : e \in Candidates(v),
                                               s \in v.senses}

-----------------------------------------------------------------------------
(* What is put back from the parent. *)

\* copy_freqs() and _find_matching_rk()
FreqOf(list, txt) ==
  IF txt \in Txts(list) THEN list[Place(list, txt)].freq ELSE {}

\* A slip: frequencies stay where they were in the list.
CopiedByPlace(list, parent) ==
  [i \in DOMAIN list |->
     [list[i] EXCEPT !.freq = IF i \in DOMAIN parent THEN parent[i].freq
                              ELSE {}]]

Copied(list, parent) ==
  [i \in DOMAIN list |->
     [list[i] EXCEPT !.freq = FreqOf(parent, list[i].txt)]]

\* A slip: references to the parent keep their numbers.
MovedAsIs(x, w) == x

\* realign_xrers(): the references to the parent, moved to the new entry.
Moved(x, w) ==
  [x EXCEPT !.kanj = Place(w.kanj, Shown(x).ktxt),
            !.rdng = Place(w.rdng, Shown(x).rtxt)]

Realigned(p, w) ==
  {Moved(x, w) : x \in {y \in xref : /\ y.xentr = p
                                     /\ y.xsens \in DOMAIN w.sens
                                     /\ Has(w, Shown(y))}}

Made(u, f, p) ==
  LET kanj == IF u \in Editors THEN f.kanj ELSE Copied(f.kanj, entr[p].kanj)
      rdng == [i \in DOMAIN f.rdng |->
                 [f.rdng[i] EXCEPT !.restr = Excluded(@, f.kanj)]]
  IN  [seq |-> entr[p].seq, kanj |-> kanj,
       rdng |-> IF u \in Editors THEN rdng ELSE Copied(rdng, entr[p].rdng),
       sens |-> [n \in DOMAIN f.sens |->
         [gloss |-> f.sens[n].gloss,
          stagk |-> Excluded(f.sens[n].restr \cap Kebs, f.kanj),
          stagr |-> Excluded(f.sens[n].restr \ Kebs, f.rdng),
          xrslv |-> {v \in Apart(f.sens[n].refs) : ~Resolves(v)}]]]

Resolved(f) ==
  UNION {{[n |-> n, to |-> t] :
            t \in UNION {Targets(v) : v \in {w \in Apart(f.sens[n].refs) :
                                               Resolves(w)}}} :
           n \in DOMAIN f.sens}

-----------------------------------------------------------------------------
Away == [at |-> "away"]

\* The page edform, while there may still be a submission.
Open(u, e) ==
  /\ page[u] = Away
  /\ next <= MaxRows
  /\ page' = [page EXCEPT ![u] =
       [at |-> "form", of |-> e, seen |-> entr[e], form |-> Form(u, e),
        changes |-> 0, typed |-> {}]]
  /\ UNCHANGED <<entr, next, xref>>

Leave(u) == /\ page[u] # Away
            /\ page' = [page EXCEPT ![u] = Away]
            /\ UNCHANGED <<entr, next, xref>>

\* The user changes the form, and types new kanji.
Rewrite(u, f, new) ==
  /\ page[u].changes < MaxChanges
  /\ page' = [page EXCEPT ![u].form = f, ![u].changes = @ + 1,
                          ![u].typed = @ \cup new]
  /\ UNCHANGED <<entr, next, xref>>

Backwards(s) == [i \in DOMAIN s |-> s[Len(s) + 1 - i]]
Without(s, i) == SubSeq(s, 1, i - 1) \o SubSeq(s, i + 1, Len(s))

\* The user reorders the kanji, the readings or the senses.
Reorder(u) ==
  /\ page[u].at = "form"
  /\ \E part \in {"kanj", "rdng", "sens"} :
       Rewrite(u, [page[u].form EXCEPT ![part] = Backwards(@)], {})

\* A restriction without a kanji; one that named nothing else allows none.
Less(names, k) == IF names = {k} THEN {NoKanji} ELSE names \ {k}

\* The user takes out a kanji, also from the restrictions that name it.
DropKanj(u) ==
  /\ page[u].at = "form"
  /\ LET f == page[u].form IN
     \E i \in DOMAIN f.kanj :
       LET k == f.kanj[i].txt
       IN  /\ Len(f.kanj) > 1
           /\ \A n \in DOMAIN f.sens : f.sens[n].restr \cap Kebs # {k}
           /\ Rewrite(u,
                [kanj |-> Without(f.kanj, i),
                 rdng |-> [r \in DOMAIN f.rdng |->
                             [f.rdng[r] EXCEPT !.restr = Less(@, k)]],
                 sens |-> [n \in DOMAIN f.sens |->
                             [f.sens[n] EXCEPT !.restr = @ \ {k}]]], {})

DropSens(u) ==
  /\ page[u].at = "form"
  /\ \E n \in DOMAIN page[u].form.sens :
       /\ Len(page[u].form.sens) > 1
       /\ Rewrite(u, [page[u].form EXCEPT !.sens = Without(@, n)], {})

\* The user adds a kanji, and types a frequency for it.
AddKanj(u) ==
  /\ page[u].at = "form"
  /\ \E k \in NewKanj \ Txts(page[u].form.kanj) :
       Rewrite(u, [page[u].form EXCEPT
                     !.kanj = <<[txt |-> k, freq |-> Freqs]>> \o @], {k})

\* The page edconf: the form is read, and completed from the latest entry.
\* A user who comes back to the form by the browser confirms it again.
Confirm(u) ==
  /\ page[u].at \in {"form", "confirm"}
  /\ Reads(page[u].form)
  /\ page[u].of \in DOMAIN entr
  /\ LET f == page[u].form
         p == Latest(page[u].seen.seq)
         w == Made(u, f, p)
     IN  page' = [page EXCEPT ![u] =
           [at |-> "confirm", of |-> page[u].of, seen |-> page[u].seen,
            form |-> f, changes |-> page[u].changes, typed |-> page[u].typed,
            parent |-> p, made |-> w, refs |-> Resolved(f),
            xrers |-> Realigned(p, w)]]
  /\ UNCHANGED <<entr, next, xref>>

\* The page edsubmit: the entry becomes a row, and when an editor approves it
\* the others of its number are removed, with their references.  Submission
\* refuses an edit of an entry that is no longer the latest, and the database
\* a reference to a row that is gone.
Submit(u) ==
  /\ page[u].at = "confirm"
  /\ next <= MaxRows
  /\ LET c == page[u]
         q == c.made.seq
         gone(approve) == IF approve THEN Rows(q) ELSE {}
         fwd == {[entr |-> next, sens |-> r.n, xentr |-> r.to.xentr,
                  xsens |-> r.to.xsens, kanj |-> r.to.kanj,
                  rdng |-> r.to.rdng] : r \in c.refs}
         rev == {[x EXCEPT !.xentr = next] : x \in c.xrers}
     IN  /\ c.parent \in DOMAIN entr /\ c.parent = Latest(q)
         /\ \A x \in fwd : x.xentr \in DOMAIN entr
         /\ \A x \in rev : x.entr \in DOMAIN entr
         /\ \E approve \in {FALSE} \cup {u \in Editors} :
              LET rows == DOMAIN entr \ gone(approve) IN
              /\ entr' = [e \in rows \cup {next} |->
                            IF e = next THEN c.made ELSE entr[e]]
              /\ xref' = {x \in xref \cup fwd \cup rev :
                            {x.entr, x.xentr} \subseteq rows \cup {next}}
  /\ next' = next + 1
  /\ page' = [page EXCEPT ![u] = Away]

\* At first there is one entry of each number, with that number as its id.
FormInit ==
  /\ entr \in {w \in [DOMAIN Words -> UNION {Words[q] : q \in DOMAIN Words}] :
                 \A q \in DOMAIN Words : w[q] \in Words[q]}
  /\ next = Cardinality(DOMAIN Words) + 1
  /\ xref \in Links
  /\ page = [u \in Users |-> Away]

FormNext ==
  \E u \in Users :
    \/ \E e \in DOMAIN entr : Open(u, e)
    \/ Leave(u)
    \/ Reorder(u) \/ DropKanj(u) \/ DropSens(u) \/ AddKanj(u)
    \/ Confirm(u)
    \/ Submit(u)

FormSpec == FormInit /\ [][FormNext]_formVars

-----------------------------------------------------------------------------
\* The pairs that the restrictions of an entry are about, and those that they
\* allow: of a reading and a kanji, of a sense and a kanji or a reading.
Glosses(w) == {w.sens[n].gloss : n \in DOMAIN w.sens}
Pairs(w) == {"restr"} \X Txts(w.rdng) \X Txts(w.kanj)
              \cup {"stagk"} \X Glosses(w) \X Txts(w.kanj)
              \cup {"stagr"} \X Glosses(w) \X Txts(w.rdng)
Permitted(w) ==
  {<<"restr", w.rdng[ik[1]].txt, w.kanj[ik[2]].txt>> :
     ik \in {jk \in (DOMAIN w.rdng) \X (DOMAIN w.kanj) :
              jk[2] \notin w.rdng[jk[1]].restr}}
  \cup {<<"stagk", w.sens[nk[1]].gloss, w.kanj[nk[2]].txt>> :
          nk \in {mk \in (DOMAIN w.sens) \X (DOMAIN w.kanj) :
                   mk[2] \notin w.sens[mk[1]].stagk}}
  \cup {<<"stagr", w.sens[ni[1]].gloss, w.rdng[ni[2]].txt>> :
          ni \in {mi \in (DOMAIN w.sens) \X (DOMAIN w.rdng) :
                   mi[2] \notin w.sens[mi[1]].stagr}}

\* The steps of Confirm(u) and Submit(u), told by what they change.
Confirms(u) == /\ page'[u].at = "confirm" /\ entr' = entr
               /\ \A v \in Users \ {u} : page'[v] = page[v]
Submits(u) == next' # next /\ page'[u] # page[u]

\* PROPERTY PairsKept.  Whatever a user moves, adds or takes out in the form,
\* what is left is still restricted as in the entry that was opened: of two
\* texts that are in both, and that were not taken out and typed again, the
\* new entry allows the pair if and only if the old one did.
\* (restr.py, where the numbers of the pairs that are not allowed become the
\* texts of those that are and then other numbers again.)
PairsKept ==
  \A u \in Users : page[u].at = "confirm" =>
    LET old == page[u].seen
        new == page[u].made
    IN  \A pair \in Pairs(old) \cap Pairs(new) :
          pair[3] \notin page[u].typed =>
            (pair \in Permitted(old) <=> pair \in Permitted(new))

\* PROPERTY FreqKept.  Only editors give, change or remove frequencies: when
\* anybody else submits, from a form however old, each reading and kanji has
\* the frequencies that the latest entry gave that text, and new ones none.
\* (views/edform.remove_freqs, jdb.copy_freqs.)
FreqKept ==
  [][\A u \in Users \ Editors : Submits(u) =>
       \A part \in {"kanj", "rdng"} :
         LET old == entr[Latest(page[u].seen.seq)][part]
             new == entr'[next][part]
         IN  \A i \in DOMAIN new :
               new[i].freq = UNION {old[j].freq :
                               j \in {k \in DOMAIN old : old[k].txt = new[i].txt}}]_formVars

\* PROPERTY ShownRight.  Nobody changes a reference, but both of its ends are
\* edited, again and again, from forms that may be old: it is written as text
\* and resolved, copied to the new target with numbers put right, lost with
\* old entries.  Whatever is left always shows the text that was meant for
\* the sense that it leads from.  (views/edconf.realign_xrers,
\* jdb.resolv_xref, fmtjel.fmt_xref_kr.)
ShownRight ==
  \A x \in xref :
    /\ x.sens \in DOMAIN entr[x.entr].sens
    /\ x.xsens \in DOMAIN entr[x.xentr].sens
    /\ Shown(x) = Said[entr[x.entr].sens[x.sens].gloss]

\* Every entry of a number that e refers to is a target, of the same senses.
Whole(e) ==
  /\ e \in DOMAIN entr
  /\ \A n \in DOMAIN entr[e].sens : \A x \in RefsOf(e, n) :
       \A t \in Rows(entr[x.xentr].seq) :
         SensesOf(e, n, t) = SensesOf(e, n, x.xentr)

\* PROPERTY RefsReturn.  References that the form shows by the sequence number
\* come back as they were: each sense that is still there, wherever it was
\* moved, refers to the same senses of the same entries with the same text,
\* if all entries of a number were referred to alike and what the user saw
\* had not changed by the time of the confirmation.  (jdb.add_xsens_lists,
\* jdb.mark_seq_xrefs, jelparse.x2xrslv, jdb.xresolv.)
RefsReturn ==
  [][\A u \in Users : Confirms(u) =>
       LET e == page[u].of
           f == page[u].form
       IN  Whole(e) => \A n \in DOMAIN entr[e].sens, m \in DOMAIN f.sens :
             /\ f.sens[m].gloss = entr[e].sens[n].gloss
             /\ f.sens[m].refs = Lines(e, n)
             => {r.to : r \in {q \in page'[u].refs : q.n = m}}
                  = {[xentr |-> x.xentr, xsens |-> x.xsens, kanj |-> x.kanj,
                      rdng |-> x.rdng] : x \in RefsOf(e, n)}]_formVars
=============================================================================
