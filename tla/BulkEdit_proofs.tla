--------------------------- MODULE BulkEdit_proofs ---------------------------
(***************************************************************************)
(* Bulk updates, for files of any length and with any lines: each          *)
(* directive is in one set, with the numbers that are given before it; the *)
(* entries that are named are counted, each once; and one that is updated  *)
(* has been given all the directives of its set.                           *)
(*                                                                         *)
(* The reader has read the file right so far when the list that it would   *)
(* return now is right, and what it holds is what the lines since the last *)
(* directives, and the directives since the last number, say.              *)
(***************************************************************************)
EXTENDS BulkEdit, FiniteSetTheorems, SequenceTheorems, TLAPS

-----------------------------------------------------------------------------
(* What a file f says, up to a line. *)

\* Line s is the first of the directives to which line i belongs.
Runs(f, i, s) ==
  /\ s \in 1 .. i
  /\ \A k \in s .. i : f[k].cmd = "edit"
  /\ s > 1 => f[s - 1].cmd # "edit"

\* The first lines of directives up to line i.
Firsts(f, i) == {s \in 1 .. i : Runs(f, s, s)}

\* The lines with numbers before line s, back to the directives before.
Given(f, s) ==
  {k \in 1 .. s - 1 : f[k].cmd # "corpus" /\ \A q \in k .. s - 1 : f[q].cmd # "edit"}

\* The corpus that is set at line i.
CorpusIs(f, i, src) ==
  \/ src = Initial /\ \A k \in 1 .. i : f[k].cmd # "corpus"
  \/ \E c \in 1 .. i : /\ f[c].cmd = "corpus" /\ src = f[c].src
                       /\ \A k \in c + 1 .. i : f[k].cmd # "corpus"

\* The numbers of line k are among the numbers, as what the line says they are.
Marked(f, k, nums) ==
  f[k].cmd # "" => \A x \in Range(f[k].nums) : <<f[k].cmd, x>> \in Range(nums)

\* The numbers of the pairs of a directive and a number.
Seconds(pairs) == {p[2] : p \in pairs}

\* The numbers are those of the lines.
NumbersOf(f, lines, nums) ==
  Seconds(Range(nums)) = UNION {Range(f[k].nums) : k \in lines}

\* The numbers and the corpus are what the lines before line s say.
Told(f, s, nums, src) ==
  /\ NumbersOf(f, Given(f, s), nums)
  /\ \A k \in Given(f, s) :
       /\ Marked(f, k, nums)
       /\ (\A q \in k + 1 .. s - 1 : f[q].cmd # "corpus") => CorpusIs(f, k, src)

\* The directive on line i is where it belongs in the list.
Right(f, list, i) ==
  \E s \in 1 .. i :
    /\ Runs(f, i, s)
    /\ Cardinality(Firsts(f, i)) \in DOMAIN list
    /\ LET set == list[Cardinality(Firsts(f, i))]
       IN  /\ i - s + 1 \in DOMAIN set.edits
           /\ set.edits[i - s + 1] = f[i].edit
           /\ Told(f, s, set.nums, set.src)

\* A longer list: more sets, or more directives in a set.
Continues(list, longer) ==
  \A m \in DOMAIN list :
    /\ m \in DOMAIN longer
    /\ longer[m].nums = list[m].nums /\ longer[m].src = list[m].src
    /\ \A e \in DOMAIN list[m].edits :
         /\ e \in DOMAIN longer[m].edits
         /\ longer[m].edits[e] = list[m].edits[e]

-----------------------------------------------------------------------------
(* The invariant. *)

NumberLines == {l \in Lines : l.cmd \in {"seq", "id", ""}}

Numbers == UNION {Range(l.nums) : l \in NumberLines}

Pairs == {"seq", "id"} \X Numbers

Sources == {Initial} \cup {l.src : l \in {x \in Lines : x.cmd = "corpus"}}

Edits == {l.edit : l \in {x \in Lines : x.cmd = "edit"}}

Directives == [nums : Seq(Pairs), src : Sources, edits : Seq(Edits)]

Readers == [cmd : {"", "edit", "corpus", "seq", "id"}, src : Sources,
            nums : Seq(Pairs), edits : Seq(Edits)]

Phases == {"read", "next", "apply", "stopped", "done"}

ReaderOK ==
  /\ file \in Seq(Lines)
  /\ \A i \in DOMAIN file : file[i].cmd \in {"edit", "corpus", "seq", "id", ""}
  /\ reader \in Readers
  /\ sets \in Seq(Directives)
  /\ DOMAIN at = {"phase", "set"}

\* The directives that are held are those since line s, and the numbers are
\* those before it.
HeldFrom(s) ==
  /\ Len(reader.edits) = Len(file) - s + 1
  /\ Told(file, s, reader.nums, reader.src)

Held ==
  /\ CorpusIs(file, Len(file), reader.src)
  /\ reader.edits = <<>> =>
       /\ Len(file) > 0 => file[Len(file)].cmd # "edit"
       /\ HeldFrom(Len(file) + 1)
  /\ reader.edits # <<>> =>
       \E s \in 1 .. Len(file) : Runs(file, Len(file), s) /\ HeldFrom(s)

\* What the list would be if the file ended here.
ListNow == Collected(reader).list

AllRight(list) == \A i \in DOMAIN file : IsEdit(i) => Right(file, list, i)

Reading ==
  at.phase = "read" =>
    /\ Held
    /\ Cardinality(Firsts(file, Len(file))) = Len(ListNow)
    /\ AllRight(ListNow)

BInv ==
  /\ ReaderOK
  /\ Reading
  /\ at.phase \in {"next", "apply"} => AllRight(sets)

-----------------------------------------------------------------------------
(* A line more changes nothing of what the lines before it say. *)

\* What stands on the lines before the new one, and on it.
LEMMA LinesStay ==
  ASSUME NEW f \in Seq(Lines), NEW l \in Lines
  PROVE  /\ Append(f, l) \in Seq(Lines)
         /\ Len(Append(f, l)) = Len(f) + 1 /\ Len(f) \in Nat
         /\ DOMAIN f = 1 .. Len(f) /\ DOMAIN Append(f, l) = 1 .. Len(f) + 1
         /\ \A k \in 1 .. Len(f) : Append(f, l)[k] = f[k]
         /\ Append(f, l)[Len(f) + 1] = l
OBVIOUS

\* Where directives begin.
LEMMA RunsStay ==
  ASSUME NEW f \in Seq(Lines), NEW l \in Lines, NEW i \in 0 .. Len(f)
  PROVE  /\ \A s \in 1 .. i : Runs(Append(f, l), i, s) <=> Runs(f, i, s)
         /\ Firsts(Append(f, l), i) = Firsts(f, i)
<1>1. \A j \in 1 .. Len(f) : \A s \in 1 .. j : Runs(Append(f, l), j, s) <=> Runs(f, j, s)
  BY LinesStay DEF Runs
<1>2. Firsts(Append(f, l), i) = Firsts(f, i)
  BY <1>1, LinesStay DEF Firsts
<1>3. \A s \in 1 .. i : Runs(Append(f, l), i, s) <=> Runs(f, i, s)
  BY <1>1, LinesStay
<1> QED BY <1>2, <1>3

\* The corpus that is set.
LEMMA CorpusStays ==
  ASSUME NEW f \in Seq(Lines), NEW l \in Lines, NEW i \in 0 .. Len(f), NEW src
  PROVE  CorpusIs(Append(f, l), i, src) <=> CorpusIs(f, i, src)
BY LinesStay DEF CorpusIs

\* The numbers given.
LEMMA GivenStays ==
  ASSUME NEW f \in Seq(Lines), NEW l \in Lines, NEW s \in 1 .. Len(f) + 1
  PROVE  Given(Append(f, l), s) = Given(f, s)
BY LinesStay DEF Given

\* What numbers and a corpus have to be.
LEMMA ToldStays ==
  ASSUME NEW f \in Seq(Lines), NEW l \in Lines, NEW s \in 1 .. Len(f) + 1,
         NEW nums, NEW src, Told(f, s, nums, src)
  PROVE  Told(Append(f, l), s, nums, src)
<1> DEFINE g == Append(f, l)
<1>1. Given(g, s) = Given(f, s)
  BY GivenStays
<1>2. \A k \in Given(f, s) : g[k] = f[k] /\ k \in 1 .. Len(f)
  BY LinesStay DEF Given
<1>3. \A q \in 1 .. s - 1 : g[q] = f[q]
  BY LinesStay
<1>4. \A k \in Given(f, s) : CorpusIs(g, k, src) <=> CorpusIs(f, k, src)
  BY <1>2, CorpusStays, LinesStay
<1>5. {Range(g[k].nums) : k \in Given(g, s)} = {Range(f[k].nums) : k \in Given(f, s)}
  BY <1>1, <1>2
<1>6. ASSUME NEW k \in Given(g, s)
      PROVE  /\ Marked(g, k, nums)
             /\ (\A q \in k + 1 .. s - 1 : g[q].cmd # "corpus") => CorpusIs(g, k, src)
  <2>1. k \in Given(f, s) /\ g[k] = f[k] /\ k \in 1 .. Len(f)
    BY <1>1, <1>2, <1>6
  <2>2. \A q \in k + 1 .. s - 1 : g[q] = f[q]
    BY <1>3, <2>1, LinesStay
  <2>3. (\A q \in k + 1 .. s - 1 : g[q].cmd # "corpus")
          <=> (\A q \in k + 1 .. s - 1 : f[q].cmd # "corpus")
    BY <2>2
  <2>4. Marked(f, k, nums) <=> Marked(g, k, nums)
    BY <2>1, Zenon DEF Marked
  <2> HIDE DEF g
  <2> QED BY <2>1, <2>3, <2>4, <1>4 DEF Told
<1> HIDE DEF g
<1>7. NumbersOf(g, Given(g, s), nums)
  <2>1. NumbersOf(f, Given(f, s), nums)
    BY DEF Told
  <2> QED BY <1>5, <2>1 DEF NumbersOf
<1>8. Told(g, s, nums, src)
  BY <1>6, <1>7 DEF Told
<1> QED BY <1>8 DEF g

\* Where a directive is, when the list grows, or the directives of a set.
LEMMA RightStays ==
  ASSUME NEW f \in Seq(Lines), NEW l \in Lines, NEW i \in DOMAIN f,
         NEW list, NEW longer, Right(f, list, i), Continues(list, longer)
  PROVE  Right(Append(f, l), longer, i)
<1> DEFINE g == Append(f, l)
           m == Cardinality(Firsts(f, i))
<1>1. PICK s \in 1 .. i :
         /\ Runs(f, i, s) /\ m \in DOMAIN list
         /\ i - s + 1 \in DOMAIN list[m].edits
         /\ list[m].edits[i - s + 1] = f[i].edit
         /\ Told(f, s, list[m].nums, list[m].src)
  BY DEF Right
<1>2. i \in 1 .. Len(f) /\ Len(f) \in Nat /\ g[i] = f[i]
  BY LinesStay
<1>3. Runs(g, i, s) /\ Firsts(g, i) = Firsts(f, i)
  BY <1>1, <1>2, RunsStay
<1>4. Told(g, s, list[m].nums, list[m].src)
  BY <1>1, <1>2, ToldStays
<1> HIDE DEF g, m
<1>5. Cardinality(Firsts(g, i)) = m
  BY <1>3 DEF m
<1>6. Right(g, longer, i)
  BY <1>1, <1>2, <1>3, <1>4, <1>5 DEF Right, Continues
<1> QED BY <1>6 DEF g

-----------------------------------------------------------------------------
(* What a new line says. *)

\* Directives begin where a line with one follows a line with none.
LEMMA FirstsOfEdit ==
  ASSUME NEW f \in Seq(Lines), NEW l \in Lines, l.cmd = "edit"
  PROVE  LET n == Len(f)
             begins == n > 0 => f[n].cmd # "edit"
         IN  /\ begins => Runs(Append(f, l), n + 1, n + 1)
             /\ \A s \in 1 .. n : Runs(f, n, s) => Runs(Append(f, l), n + 1, s)
             /\ Cardinality(Firsts(Append(f, l), n + 1))
                  = IF begins THEN Cardinality(Firsts(f, n)) + 1
                              ELSE Cardinality(Firsts(f, n))
<1> DEFINE n == Len(f)
           g == Append(f, l)
           begins == n > 0 => f[n].cmd # "edit"
<1>1. /\ n \in Nat /\ g[n + 1] = l
      /\ \A k \in 1 .. n : g[k] = f[k]
  BY LinesStay
<1>2. Firsts(g, n) = Firsts(f, n) /\ IsFiniteSet(Firsts(f, n)) /\ n + 1 \notin Firsts(f, n)
  <2>1. Firsts(f, n) \subseteq 1 .. n /\ IsFiniteSet(1 .. n)
    BY <1>1, FS_Interval DEF Firsts
  <2> QED BY <1>1, <2>1, FS_Subset, RunsStay
<1>3. Runs(g, n + 1, n + 1) <=> begins
  <2>1. CASE n = 0
    BY <1>1, <2>1 DEF Runs
  <2>2. CASE n > 0
    <3>1. g[n] = f[n] /\ n + 1 - 1 = n
      BY <1>1, <2>2
    <3>2. n + 1 \in 1 .. n + 1 /\ n + 1 > 1 /\ \A k \in n + 1 .. n + 1 : k = n + 1
      BY <1>1, <2>2
    <3> HIDE DEF g, n
    <3> QED BY <1>1, <2>2, <3>1, <3>2 DEF Runs
  <2> QED BY <1>1, <2>1, <2>2
<1>4. Firsts(g, n + 1) = Firsts(g, n) \cup (IF begins THEN {n + 1} ELSE {})
  <2>1. \A s : s \in 1 .. n + 1 <=> s \in 1 .. n \/ s = n + 1
    BY <1>1
  <2>2. \A s : s \in Firsts(g, n + 1) <=> s \in 1 .. n + 1 /\ Runs(g, s, s)
    BY DEF Firsts
  <2>3. \A s : s \in Firsts(g, n) <=> s \in 1 .. n /\ Runs(g, s, s)
    BY DEF Firsts
  <2> HIDE DEF g, n, begins
  <2>4. \A s : s \in Firsts(g, n + 1)
              <=> s \in Firsts(g, n) \/ s \in (IF begins THEN {n + 1} ELSE {})
    BY <2>1, <2>2, <2>3, <1>3
  <2> QED BY <2>4
<1>5. Cardinality(Firsts(g, n + 1))
        = IF begins THEN Cardinality(Firsts(f, n)) + 1 ELSE Cardinality(Firsts(f, n))
  <2>1. CASE begins
    <3>1. Firsts(g, n + 1) = Firsts(f, n) \cup {n + 1}
      BY <1>2, <1>3, <1>4, <2>1
    <3> QED BY <1>2, <2>1, <3>1, FS_AddElement
  <2>2. CASE ~begins
    <3>1. Firsts(g, n + 1) = Firsts(f, n)
      BY <1>2, <1>3, <1>4, <2>2
    <3> QED BY <2>2, <3>1
  <2> QED BY <2>1, <2>2
<1>6. ASSUME NEW s \in 1 .. n, Runs(f, n, s)
      PROVE  Runs(g, n + 1, s)
  <2>1. \A k \in s .. n : g[k].cmd = "edit"
    BY <1>1, <1>6 DEF Runs
  <2>2. s > 1 => g[s - 1].cmd # "edit"
    BY <1>1, <1>6 DEF Runs
  <2> HIDE DEF g
  <2>3. \A k \in s .. n + 1 : k \in s .. n \/ k = n + 1
    BY <1>1
  <2> QED BY <1>1, <2>1, <2>2, <2>3 DEF Runs
<1> QED BY <1>3, <1>5, <1>6

\* No directive begins with another line.
LEMMA FirstsOfOther ==
  ASSUME NEW f \in Seq(Lines), NEW l \in Lines, l.cmd # "edit"
  PROVE  Firsts(Append(f, l), Len(f) + 1) = Firsts(f, Len(f))
<1> DEFINE g == Append(f, l)
<1>1. Len(f) \in Nat /\ g[Len(f) + 1] = l
  BY LinesStay
<1>2. Firsts(g, Len(f)) = Firsts(f, Len(f))
  BY <1>1, RunsStay
<1>3. ~Runs(g, Len(f) + 1, Len(f) + 1)
  BY <1>1 DEF Runs
<1> HIDE DEF g
<1>4. Firsts(g, Len(f) + 1) = Firsts(g, Len(f))
  BY <1>1, <1>3 DEF Firsts
<1> QED BY <1>2, <1>4 DEF g

\* The corpus after a line that sets none is the corpus before it.
LEMMA CorpusOfOther ==
  ASSUME NEW f \in Seq(Lines), NEW l \in Lines, l.cmd # "corpus",
         NEW src, CorpusIs(f, Len(f), src)
  PROVE  CorpusIs(Append(f, l), Len(f) + 1, src)
<1> DEFINE g == Append(f, l)
<1>1. /\ Len(f) \in Nat /\ g[Len(f) + 1] = l
      /\ \A k \in 1 .. Len(f) : g[k] = f[k]
  BY LinesStay
<1>2. CorpusIs(g, Len(f), src)
  BY <1>1, CorpusStays
<1> HIDE DEF g
<1>3. \A k \in 1 .. Len(f) + 1 : k \in 1 .. Len(f) \/ k = Len(f) + 1
  BY <1>1
<1>4. CASE src = Initial /\ \A k \in 1 .. Len(f) : g[k].cmd # "corpus"
  BY <1>1, <1>3, <1>4 DEF CorpusIs
<1>5. ASSUME NEW c \in 1 .. Len(f), g[c].cmd = "corpus", src = g[c].src,
             \A k \in c + 1 .. Len(f) : g[k].cmd # "corpus"
      PROVE  CorpusIs(g, Len(f) + 1, src)
  <2>1. \A k \in c + 1 .. Len(f) + 1 : g[k].cmd # "corpus"
    BY <1>1, <1>5
  <2> QED BY <1>1, <1>5, <2>1 DEF CorpusIs
<1>6. CorpusIs(g, Len(f) + 1, src)
  <2>1. CASE \E c \in 1 .. Len(f) : /\ g[c].cmd = "corpus" /\ src = g[c].src
                                   /\ \A k \in c + 1 .. Len(f) : g[k].cmd # "corpus"
    BY <2>1, <1>5
  <2>2. \/ src = Initial /\ \A k \in 1 .. Len(f) : g[k].cmd # "corpus"
        \/ \E c \in 1 .. Len(f) : /\ g[c].cmd = "corpus" /\ src = g[c].src
                                  /\ \A k \in c + 1 .. Len(f) : g[k].cmd # "corpus"
    BY <1>2 DEF CorpusIs
  <2> QED BY <1>4, <2>1, <2>2 DEF g
<1> QED BY <1>6 DEF g

\* The lines with numbers before the end of a file that ends with such a line.
LEMMA GivenBeforeEnd ==
  ASSUME NEW f \in Seq(Lines), NEW l \in Lines, l.cmd # "edit",
         NEW s \in 1 .. Len(f) + 1,
         IF s = Len(f) + 1 THEN Len(f) > 0 => f[Len(f)].cmd # "edit"
                           ELSE f[Len(f)].cmd = "edit"
  PROVE  Given(Append(f, l), Len(f) + 2)
           = (IF s = Len(f) + 1 THEN Given(f, s) ELSE {})
               \cup (IF l.cmd = "corpus" THEN {} ELSE {Len(f) + 1})
<1> DEFINE g == Append(f, l)
           n == Len(f)
<1>1. /\ n \in Nat /\ g[n + 1] = l
      /\ \A k \in 1 .. n : g[k] = f[k]
      /\ n + 2 - 1 = n + 1 /\ n + 1 - 1 = n
  BY LinesStay
<1>2. n + 1 \in Given(g, n + 2) <=> l.cmd # "corpus"
  BY <1>1 DEF Given
<1>3. ASSUME NEW k \in 1 .. n
      PROVE  k \in Given(g, n + 2) <=> s = n + 1 /\ k \in Given(f, s)
  <2>1. k \in Given(g, n + 2)
          <=> f[k].cmd # "corpus" /\ \A q \in k .. n : f[q].cmd # "edit"
    BY <1>1, <1>3 DEF Given
  <2>2. CASE s = n + 1
    BY <1>1, <1>3, <2>1, <2>2 DEF Given
  <2>3. CASE s # n + 1
    BY <1>1, <1>3, <2>1, <2>3
  <2> QED BY <2>2, <2>3
<1>4. Given(f, s) \subseteq 1 .. n /\ Given(g, n + 2) \subseteq 1 .. n + 1
  BY <1>1 DEF Given
<1>5. \A k \in 1 .. n + 1 : k \in 1 .. n \/ k = n + 1
  BY <1>1
<1> HIDE DEF g, n
<1>6. Given(g, n + 2) = (IF s = n + 1 THEN Given(f, s) ELSE {})
                          \cup (IF l.cmd = "corpus" THEN {} ELSE {n + 1})
  <2>1. n + 1 \in Int /\ n + 1 \notin 1 .. n /\ \A k \in 1 .. n : k \in 1 .. n + 1
    BY <1>1 DEF n
  <2> QED BY <1>2, <1>3, <1>4, <1>5, <2>1
<1> QED BY <1>6 DEF g, n

-----------------------------------------------------------------------------
(* The first state, and the lines. *)

\* The empty sequence.
LEMMA NothingThere ==
  ASSUME NEW S
  PROVE  <<>> \in Seq(S) /\ Len(<<>>) = 0 /\ DOMAIN <<>> = {}
<1>1. DOMAIN <<>> = {}
  OBVIOUS
<1> QED BY <1>1, EmptySeq

\* Nothing is read yet.
LEMMA StartOK ==
  Init => BInv
<1> SUFFICES ASSUME Init PROVE BInv
  OBVIOUS
<1>1. /\ file = <<>> /\ Len(file) = 0 /\ sets = <<>>
      /\ reader = [cmd |-> "", src |-> Initial, nums |-> <<>>, edits |-> <<>>]
      /\ at = [phase |-> "read", set |-> 1]
  BY DEF Init
<1>2. ReaderOK
  <2>1. Initial \in Sources
    BY DEF Sources
  <2>2. reader \in Readers
    BY <1>1, <2>1, NothingThere DEF Readers
  <2>3. file \in Seq(Lines) /\ sets \in Seq(Directives) /\ DOMAIN file = {}
    BY <1>1, NothingThere
  <2>4. DOMAIN at = {"phase", "set"}
    BY <1>1
  <2> QED BY <2>2, <2>3, <2>4 DEF ReaderOK
<1>3. /\ Given(file, 1) = {} /\ Firsts(file, 0) = {} /\ Range(<<>>) = {}
      /\ CorpusIs(file, 0, Initial)
  <2>1. 1 .. 1 - 1 = {} /\ 1 .. 0 = {} /\ DOMAIN <<>> = {}
    OBVIOUS
  <2>2. Given(file, 1) = {} /\ Firsts(file, 0) = {}
    BY <2>1 DEF Given, Firsts
  <2>3. Range(<<>>) = {}
    BY <2>1 DEF Range
  <2>4. CorpusIs(file, 0, Initial)
    BY <2>1 DEF CorpusIs
  <2> QED BY <2>2, <2>3, <2>4
<1>4. Told(file, 1, <<>>, Initial)
  BY <1>3 DEF Told, NumbersOf, Seconds
<1>5. Held
  <2>1. reader.edits = <<>> /\ reader.nums = <<>> /\ reader.src = Initial
    BY <1>1
  <2>2. Len(reader.edits) = Len(file) - 1 + 1 /\ Len(file) + 1 = 1 /\ ~(Len(file) > 0)
    <3>1. Len(reader.edits) = 0
      BY <2>1, NothingThere
    <3>2. Len(file) = 0
      BY <1>1
    <3> QED BY <3>1, <3>2
  <2>3. HeldFrom(Len(file) + 1)
    BY <1>4, <2>1, <2>2 DEF HeldFrom
  <2> QED BY <1>1, <1>3, <2>1, <2>2, <2>3 DEF Held
<1>6. ListNow = <<>> /\ Cardinality(Firsts(file, 0)) = 0
  BY <1>1, <1>3, FS_EmptySet DEF ListNow, Collected
<1>7. DOMAIN file = {} /\ Len(ListNow) = 0 /\ at.phase = "read"
  BY <1>1, <1>6, NothingThere
<1>8. AllRight(ListNow)
  BY <1>7 DEF AllRight
<1> QED BY <1>1, <1>2, <1>5, <1>6, <1>7, <1>8 DEF BInv, Reading

\* What is read has the form that the reader expects.
LEMMA LineOK ==
  ASSUME NEW l \in Lines
  PROVE  /\ l.cmd = "edit" => l.edit \in Edits
         /\ l.cmd = "corpus" => l.src \in Sources
         /\ l.cmd \in {"seq", "id", ""} =>
              /\ l.nums \in Seq(Range(l.nums)) /\ l.nums \in Seq(Numbers)
              /\ Range(l.nums) \subseteq Numbers
<1>1. l.cmd \in {"seq", "id", ""} => Range(l.nums) \subseteq Numbers
  BY DEF Numbers, NumberLines
<1>2. l.cmd \in {"seq", "id", ""} =>
        l.nums \in Seq(Range(l.nums)) /\ l.nums \in Seq(Numbers)
  BY <1>1, NumbersAreListed, SeqMonotonic
<1> QED BY <1>1, <1>2 DEF Edits, Sources

\* A directive joins those that are held, or is the first.
LEMMA ReadEditOK ==
  ASSUME BInv, NEW l \in Lines, ReadLine(l), ReadEdit(l)
  PROVE  BInv'
<1> DEFINE n == Len(file)
           new == [nums |-> reader.nums, src |-> reader.src,
                   edits |-> Append(reader.edits, l.edit)]
           m == Cardinality(Firsts(file, n))
<1>1. /\ file' = Append(file, l) /\ l.cmd = "edit" /\ at.phase = "read"
      /\ at' = at /\ sets' = sets
      /\ reader' = [reader EXCEPT !.cmd = "edit", !.edits = Append(@, l.edit)]
  BY DEF ReadLine, ReadEdit
<1>2. /\ ReaderOK /\ Held /\ m = Len(ListNow) /\ AllRight(ListNow)
      /\ file \in Seq(Lines) /\ reader \in Readers /\ sets \in Seq(Directives)
      /\ reader.edits \in Seq(Edits)
  BY <1>1 DEF BInv, Reading, ReaderOK, Readers
<1>3. /\ n \in Nat /\ Len(file') = n + 1 /\ file'[n + 1] = l
      /\ \A k \in 1 .. n : file'[k] = file[k]
      /\ DOMAIN file = 1 .. n /\ DOMAIN file' = 1 .. n + 1
      /\ file' \in Seq(Lines)
  BY <1>1, <1>2, LinesStay
<1>4. l.edit \in Edits
  BY <1>1, LineOK
<1>5. /\ Append(reader.edits, l.edit) \in Seq(Edits)
      /\ Append(reader.edits, l.edit) # <<>>
      /\ Len(Append(reader.edits, l.edit)) = Len(reader.edits) + 1
      /\ Append(reader.edits, l.edit)[Len(reader.edits) + 1] = l.edit
      /\ \A e \in DOMAIN reader.edits : /\ e \in DOMAIN Append(reader.edits, l.edit)
                                       /\ Append(reader.edits, l.edit)[e] = reader.edits[e]
      /\ Len(reader.edits) \in Nat
      /\ Len(reader.edits) + 1 \in DOMAIN Append(reader.edits, l.edit)
  BY <1>2, <1>4
<1>6. /\ reader'.edits = Append(reader.edits, l.edit)
      /\ reader'.nums = reader.nums /\ reader'.src = reader.src
      /\ reader' \in Readers
  BY <1>1, <1>2, <1>5 DEF Readers
<1>7. ReaderOK'
  <2>1. ASSUME NEW i \in DOMAIN file'
        PROVE  file'[i].cmd \in {"edit", "corpus", "seq", "id", ""}
    <3>1. i \in DOMAIN file \/ i = n + 1
      BY <1>3
    <3>2. CASE i \in DOMAIN file
      BY <1>2, <1>3, <3>2 DEF ReaderOK
    <3> QED BY <1>1, <1>3, <3>1, <3>2
  <2> QED BY <1>1, <1>2, <1>3, <1>6, <2>1 DEF ReaderOK
<1>8. ListNow' = Append(sets, new) /\ Append(sets, new) \in Seq(Directives)
  <2>1. new \in Directives
    BY <1>2, <1>5 DEF Directives, Readers
  <2>2. ListNow' = Append(sets, new)
    BY <1>1, <1>5, <1>6 DEF ListNow, Collected
  <2> HIDE DEF new
  <2> QED BY <1>2, <2>1, <2>2
<1>9. /\ reader.edits = <<>> => ListNow = sets
      /\ reader.edits # <<>> =>
           ListNow = Append(sets, [nums |-> reader.nums, src |-> reader.src,
                                   edits |-> reader.edits])
  BY DEF ListNow, Collected
<1>10. PICK s \in 1 .. n + 1 :
         /\ Runs(file', n + 1, s)
         /\ HeldFrom(s)
         /\ Cardinality(Firsts(file', n + 1)) = Len(sets) + 1
  <2>1. CASE reader.edits = <<>>
    <3>1. /\ n > 0 => file[n].cmd # "edit"
          /\ HeldFrom(n + 1)
      BY <1>2, <2>1 DEF Held
    <3>2. Runs(file', n + 1, n + 1) /\ Cardinality(Firsts(file', n + 1)) = m + 1
      BY <1>1, <1>2, <3>1, FirstsOfEdit
    <3> QED BY <1>2, <1>3, <1>9, <2>1, <3>1, <3>2
  <2>2. CASE reader.edits # <<>>
    <3>1. PICK s \in 1 .. n : Runs(file, n, s) /\ HeldFrom(s)
      BY <1>2, <2>2 DEF Held
    <3>2. n > 0 /\ file[n].cmd = "edit"
      BY <1>3, <3>1 DEF Runs
    <3>3. Runs(file', n + 1, s) /\ Cardinality(Firsts(file', n + 1)) = m
      BY <1>1, <1>2, <3>1, <3>2, FirstsOfEdit
    <3>4. m = Len(sets) + 1
      <4>1. [nums |-> reader.nums, src |-> reader.src, edits |-> reader.edits] \in Directives
        BY <1>2 DEF Directives, Readers
      <4> QED BY <1>2, <1>9, <2>2, <4>1
    <3>5. s \in 1 .. n + 1
      BY <1>3, <3>1
    <3> QED BY <3>1, <3>3, <3>4, <3>5
  <2> QED BY <2>1, <2>2
<1>11. /\ Len(reader.edits) = n - s + 1
       /\ Told(file', s, reader.nums, reader.src)
  BY <1>1, <1>2, <1>3, <1>10, ToldStays DEF HeldFrom
<1>12. Held'
  <2>1. HeldFrom(s)'
    BY <1>3, <1>5, <1>6, <1>11 DEF HeldFrom
  <2>2. CorpusIs(file', Len(file'), reader'.src)
    BY <1>1, <1>2, <1>3, <1>6, CorpusOfOther DEF Held
  <2>3. Runs(file', Len(file'), s) /\ s \in 1 .. Len(file')
    BY <1>3, <1>10
  <2> QED BY <1>5, <1>6, <2>1, <2>2, <2>3 DEF Held
<1>13. AllRight(ListNow)'
  <2> SUFFICES ASSUME NEW i \in DOMAIN file', file'[i].cmd = "edit"
               PROVE  Right(file', ListNow', i)
    BY DEF AllRight, IsEdit
  <2>1. /\ Len(sets) \in Nat
        /\ DOMAIN Append(sets, new) = 1 .. Len(sets) + 1 /\ DOMAIN sets = 1 .. Len(sets)
        /\ \A q \in DOMAIN sets : Append(sets, new)[q] = sets[q]
        /\ Append(sets, new)[Len(sets) + 1] = new
    <3> HIDE DEF new
    <3> QED BY <1>2, <1>8
  <2>2. CASE i = n + 1
    <3>1. n + 1 - s + 1 = Len(reader.edits) + 1 /\ s \in 1 .. i
      BY <1>3, <1>10, <1>11, <2>2
    <3>2. /\ n + 1 - s + 1 \in DOMAIN new.edits /\ new.edits[n + 1 - s + 1] = l.edit
          /\ Told(file', s, new.nums, new.src)
      BY <1>5, <1>11, <3>1
    <3> HIDE DEF new, n
    <3> QED BY <1>3, <1>8, <1>10, <2>1, <2>2, <3>1, <3>2 DEF Right
  <2>3. CASE i # n + 1
    <3>1. i \in DOMAIN file /\ file[i].cmd = "edit" /\ Right(file, ListNow, i)
      BY <1>2, <1>3, <2>3 DEF AllRight, IsEdit
    <3> DEFINE old == [nums |-> reader.nums, src |-> reader.src, edits |-> reader.edits]
    <3>2. ASSUME NEW q \in DOMAIN ListNow
          PROVE  /\ q \in DOMAIN Append(sets, new)
                 /\ Append(sets, new)[q].nums = ListNow[q].nums
                 /\ Append(sets, new)[q].src = ListNow[q].src
                 /\ \A e \in DOMAIN ListNow[q].edits :
                      /\ e \in DOMAIN Append(sets, new)[q].edits
                      /\ Append(sets, new)[q].edits[e] = ListNow[q].edits[e]
      <4>1. CASE q \in DOMAIN sets /\ ListNow[q] = sets[q]
        BY <2>1, <4>1
      <4>2. CASE q = Len(sets) + 1 /\ ListNow[q] = old
        BY <1>5, <2>1, <4>2
      <4>3. \/ q \in DOMAIN sets /\ ListNow[q] = sets[q]
            \/ q = Len(sets) + 1 /\ ListNow[q] = old
        <5>1. old \in Directives
          BY <1>2 DEF Directives, Readers
        <5>2. CASE reader.edits = <<>>
          BY <1>9, <3>2, <5>2
        <5>3. CASE reader.edits # <<>>
          <6> HIDE DEF old
          <6>1. ListNow = Append(sets, old)
            BY <1>9, <5>3 DEF old
          <6> QED BY <1>2, <3>2, <5>1, <6>1
        <5> QED BY <5>2, <5>3
      <4> QED BY <4>1, <4>2, <4>3
    <3> HIDE DEF new
    <3>3. Continues(ListNow, Append(sets, new))
      BY <3>2 DEF Continues
    <3>4. Right(Append(file, l), Append(sets, new), i)
      BY <1>2, <3>1, <3>3, RightStays
    <3> QED BY <1>1, <1>8, <3>4
  <2> QED BY <2>2, <2>3
<1>14. Cardinality(Firsts(file', Len(file'))) = Len(ListNow')
  <2> HIDE DEF new
  <2> QED BY <1>2, <1>3, <1>8, <1>10
<1> QED BY <1>1, <1>7, <1>12, <1>13, <1>14 DEF BInv, Reading

\* The numbers that go on being held when another line ends the directives.
LEMMA HeldSoFar ==
  ASSUME ReaderOK, Held
  PROVE  \E old \in SUBSET (1 .. Len(file)) :
           /\ NumbersOf(file, old, Collected(reader).nums)
           /\ \A k \in old :
                /\ Marked(file, k, Collected(reader).nums)
                /\ (\A q \in k + 1 .. Len(file) : file[q].cmd # "corpus")
                     => CorpusIs(file, k, reader.src)
           /\ \A l \in Lines : l.cmd # "edit" =>
                Given(Append(file, l), Len(file) + 2)
                  = old \cup (IF l.cmd = "corpus" THEN {} ELSE {Len(file) + 1})
<1> DEFINE n == Len(file)
<1>1. file \in Seq(Lines) /\ n \in Nat /\ n + 1 \in 1 .. n + 1 /\ n + 1 - 1 = n
  <2>1. file \in Seq(Lines)
    BY DEF ReaderOK
  <2> QED BY <2>1, LenProperties
<1>2. CASE reader.edits = <<>>
  <2>1. /\ n > 0 => file[n].cmd # "edit"
        /\ Told(file, n + 1, reader.nums, reader.src)
        /\ Collected(reader).nums = reader.nums
    BY <1>2 DEF Held, HeldFrom, Collected
  <2>2. \A l \in Lines : l.cmd # "edit" =>
          Given(Append(file, l), n + 2)
            = Given(file, n + 1) \cup (IF l.cmd = "corpus" THEN {} ELSE {n + 1})
    BY <1>1, <2>1, GivenBeforeEnd
  <2>3. Given(file, n + 1) \in SUBSET (1 .. n)
    BY <1>1 DEF Given
  <2>4. /\ NumbersOf(file, Given(file, n + 1), reader.nums)
        /\ \A k \in Given(file, n + 1) :
             /\ Marked(file, k, reader.nums)
             /\ (\A q \in k + 1 .. n : file[q].cmd # "corpus")
                  => CorpusIs(file, k, reader.src)
    <3> HIDE DEF n
    <3> QED BY <1>1, <2>1 DEF Told
  <2> QED BY <2>1, <2>2, <2>3, <2>4
<1>3. CASE reader.edits # <<>>
  <2>1. PICK s \in 1 .. n : Runs(file, n, s)
    BY <1>3 DEF Held
  <2>2. s \in 1 .. n + 1 /\ s # n + 1 /\ file[n].cmd = "edit"
    BY <1>1, <2>1 DEF Runs
  <2>3. \A l \in Lines : l.cmd # "edit" =>
          Given(Append(file, l), n + 2)
            = {} \cup (IF l.cmd = "corpus" THEN {} ELSE {n + 1})
    BY <1>1, <2>2, GivenBeforeEnd
  <2>4. Collected(reader).nums = <<>> /\ Range(<<>>) = {}
    BY <1>3, NothingThere DEF Collected, Range
  <2>5. NumbersOf(file, {}, Collected(reader).nums)
    BY <2>4 DEF NumbersOf, Seconds
  <2>6. {} \in SUBSET (1 .. Len(file))
    OBVIOUS
  <2> QED BY <2>3, <2>5, <2>6
<1> QED BY <1>2, <1>3

\* What the reader does then: the sets are those that it has collected, and
\* what it holds is what the lines say.
EndsEdits ==
  /\ sets' = Collected(reader).list
  /\ reader' \in Readers /\ reader'.edits = <<>>
  /\ CorpusIs(file', Len(file'), reader'.src)
  /\ Told(file', Len(file) + 2, reader'.nums, reader'.src)

IsOther(l) == l.cmd \in {"corpus", "seq", "id", ""}

\* A line that is no directive: the sets are those that there would have been.
LEMMA OtherOK ==
  ASSUME BInv, NEW l \in Lines, ReadLine(l),
         IsOther(l), EndsEdits
  PROVE  BInv'
<1> DEFINE n == Len(file)
<1>1. file' = Append(file, l) /\ l.cmd # "edit" /\ at.phase = "read" /\ at' = at
  BY DEF ReadLine, IsOther
<1>2. /\ ReaderOK /\ Held /\ AllRight(ListNow)
      /\ Cardinality(Firsts(file, n)) = Len(ListNow)
      /\ file \in Seq(Lines) /\ reader \in Readers /\ sets \in Seq(Directives)
  BY <1>1 DEF BInv, Reading, ReaderOK
<1>3. /\ n \in Nat /\ Len(file') = n + 1 /\ file'[n + 1] = l
      /\ \A k \in 1 .. n : file'[k] = file[k]
      /\ DOMAIN file = 1 .. n /\ DOMAIN file' = 1 .. n + 1
      /\ file' \in Seq(Lines)
  BY <1>1, <1>2, LinesStay
<1>4. sets' = ListNow /\ ListNow' = ListNow
  BY DEF ListNow, Collected, EndsEdits
<1>5. ListNow \in Seq(Directives)
  <2> DEFINE now == [nums |-> reader.nums, src |-> reader.src, edits |-> reader.edits]
  <2>1. now \in Directives
    BY <1>2 DEF Directives, Readers
  <2>2. ListNow = sets \/ ListNow = Append(sets, now)
    BY DEF ListNow, Collected
  <2> HIDE DEF now
  <2> QED BY <1>2, <2>1, <2>2
<1>6. ReaderOK'
  <2>1. ASSUME NEW i \in DOMAIN file'
        PROVE  file'[i].cmd \in {"edit", "corpus", "seq", "id", ""}
    <3>1. i \in DOMAIN file \/ i = n + 1
      BY <1>3
    <3>2. CASE i \in DOMAIN file
      BY <1>2, <1>3, <3>2 DEF ReaderOK
    <3> QED BY <1>3, <3>1, <3>2 DEF IsOther
  <2>2. DOMAIN at' = {"phase", "set"}
    BY <1>1, <1>2 DEF ReaderOK
  <2>3. reader' \in Readers
    BY DEF EndsEdits
  <2> QED BY <1>3, <1>4, <1>5, <2>1, <2>2, <2>3 DEF ReaderOK
<1>7. Held'
  <2>1. /\ Len(file') + 1 = Len(file) + 2 /\ Len(file') - (Len(file') + 1) + 1 = 0
        /\ file'[Len(file')].cmd # "edit"
    BY <1>1, <1>3
  <2>2. reader'.edits = <<>> /\ Len(reader'.edits) = 0
    BY NothingThere DEF EndsEdits
  <2>3. Told(file', Len(file') + 1, reader'.nums, reader'.src)
    <3>1. Told(file', Len(file) + 2, reader'.nums, reader'.src)
      BY DEF EndsEdits
    <3> QED BY <2>1, <3>1
  <2>4. Len(reader'.edits) = Len(file') - (Len(file') + 1) + 1
    BY <2>1, <2>2
  <2>5. HeldFrom(Len(file) + 1)'
    BY <2>3, <2>4 DEF HeldFrom
  <2>6. CorpusIs(file', Len(file'), reader'.src)
    BY DEF EndsEdits
  <2> QED BY <2>1, <2>2, <2>5, <2>6, Zenon DEF Held
<1>8. Cardinality(Firsts(file', Len(file'))) = Len(ListNow')
  BY <1>1, <1>2, <1>3, <1>4, FirstsOfOther
<1>9. AllRight(ListNow)'
  <2> SUFFICES ASSUME NEW i \in DOMAIN file', file'[i].cmd = "edit"
               PROVE  Right(file', ListNow, i)
    BY <1>4 DEF AllRight, IsEdit
  <2>1. i \in DOMAIN file /\ file[i].cmd = "edit"
    BY <1>1, <1>3
  <2>2. Right(file, ListNow, i)
    BY <1>2, <2>1 DEF AllRight, IsEdit
  <2>3. Continues(ListNow, ListNow)
    BY DEF Continues
  <2> QED BY <1>1, <1>2, <2>1, <2>2, <2>3, RightStays
<1> QED BY <1>1, <1>6, <1>7, <1>8, <1>9 DEF BInv, Reading

\* What a line with numbers says that they are.
LEMMA DirectiveOK ==
  ASSUME NEW l \in Lines, Directive(l) \in {"seq", "id"}
  PROVE  /\ IsOther(l) /\ l.cmd # "edit" /\ l.cmd # "corpus"
         /\ l.nums \in Seq(Numbers)
         /\ l.cmd # "" => Directive(l) = l.cmd
<1>1. l.cmd # "" => Directive(l) = l.cmd
  BY Zenon DEF Directive
<1>2. l.cmd \in {"seq", "id", ""}
  BY <1>1, Zenon
<1>3. l.nums \in Seq(Numbers)
  BY <1>2, LineOK, Zenon
<1>4. l.cmd # "edit" /\ l.cmd # "corpus"
  BY <1>2
<1>5. IsOther(l)
  BY <1>2, Zenon DEF IsOther
<1> QED BY <1>1, <1>3, <1>4, <1>5

\* The numbers of two lists together.
LEMMA RangeOfBoth ==
  ASSUME NEW S, NEW s \in Seq(S), NEW t \in Seq(S)
  PROVE  s \o t \in Seq(S) /\ Range(s \o t) = Range(s) \cup Range(t)
<1>1. /\ s \o t \in Seq(S) /\ DOMAIN (s \o t) = 1 .. Len(s) + Len(t)
      /\ DOMAIN s = 1 .. Len(s) /\ DOMAIN t = 1 .. Len(t)
      /\ Len(s) \in Nat /\ Len(t) \in Nat
      /\ \A i \in 1 .. Len(s) : (s \o t)[i] = s[i]
      /\ \A i \in 1 .. Len(t) : (s \o t)[Len(s) + i] = t[i]
  OBVIOUS
<1>2. ASSUME NEW x \in Range(s \o t) PROVE x \in Range(s) \cup Range(t)
  <2>1. PICK i \in 1 .. Len(s) + Len(t) : x = (s \o t)[i]
    BY <1>1, <1>2 DEF Range
  <2>2. CASE i <= Len(s)
    BY <1>1, <2>1, <2>2 DEF Range
  <2>3. CASE i > Len(s)
    <3>1. i - Len(s) \in 1 .. Len(t) /\ Len(s) + (i - Len(s)) = i
      BY <1>1, <2>1, <2>3
    <3>2. x = t[i - Len(s)]
      BY <1>1, <2>1, <3>1
    <3> QED BY <1>1, <3>1, <3>2 DEF Range
  <2> QED BY <1>1, <2>1, <2>2, <2>3
<1>3. ASSUME NEW x \in Range(s) PROVE x \in Range(s \o t)
  <2>1. PICK i \in 1 .. Len(s) : x = s[i]
    BY <1>1, <1>3 DEF Range
  <2>2. i \in 1 .. Len(s) + Len(t) /\ x = (s \o t)[i]
    BY <1>1, <2>1
  <2> QED BY <1>1, <2>2 DEF Range
<1>4. ASSUME NEW x \in Range(t) PROVE x \in Range(s \o t)
  <2>1. PICK i \in 1 .. Len(t) : x = t[i]
    BY <1>1, <1>4 DEF Range
  <2>2. Len(s) + i \in 1 .. Len(s) + Len(t) /\ x = (s \o t)[Len(s) + i]
    BY <1>1, <2>1
  <2> QED BY <1>1, <2>2 DEF Range
<1> QED BY <1>1, <1>2, <1>3, <1>4

\* The numbers of pairs that are made with them.
LEMMA SecondsOf ==
  ASSUME NEW d, NEW S
  PROVE  Seconds({<<d, x>> : x \in S}) = S
<1>1. \A x : <<d, x>>[2] = x
  OBVIOUS
<1>2. ASSUME NEW y \in S PROVE y \in {p[2] : p \in {<<d, x>> : x \in S}}
  <2>1. <<d, y>> \in {<<d, x>> : x \in S}
    BY <1>2
  <2> QED BY <1>1, <2>1
<1>3. ASSUME NEW y \in {p[2] : p \in {<<d, x>> : x \in S}} PROVE y \in S
  <2>1. PICK p \in {<<d, x>> : x \in S} : y = p[2]
    BY <1>3
  <2>2. PICK x \in S : p = <<d, x>>
    BY <2>1
  <2> QED BY <1>1, <2>1, <2>2
<1> QED BY <1>2, <1>3, Zenon DEF Seconds

\* The numbers of two sets of pairs.
LEMMA SecondsOfBoth ==
  ASSUME NEW S, NEW T
  PROVE  Seconds(S \cup T) = Seconds(S) \cup Seconds(T)
BY Zenon DEF Seconds

\* The numbers that a line gives.
LEMMA NumbersOfLine ==
  ASSUME NEW d \in {"seq", "id"}, NEW nums \in Seq(Numbers)
  PROVE  LET pairs == [i \in DOMAIN nums |-> <<d, nums[i]>>]
         IN  /\ pairs \in Seq(Pairs)
             /\ Range(pairs) = {<<d, x>> : x \in Range(nums)}
<1> DEFINE pairs == [i \in DOMAIN nums |-> <<d, nums[i]>>]
<1>1. DOMAIN nums = 1 .. Len(nums) /\ Len(nums) \in Nat
      /\ \A i \in 1 .. Len(nums) : nums[i] \in Numbers
  OBVIOUS
<1>2. pairs \in Seq(Pairs)
  <2>1. \A i \in 1 .. Len(nums) : <<d, nums[i]>> \in Pairs
    BY <1>1 DEF Pairs
  <2>2. [i \in 1 .. Len(nums) |-> <<d, nums[i]>>] \in Seq(Pairs)
    BY <1>1, <2>1, IsASeq
  <2> QED BY <1>1, <2>2
<1>3. Range(pairs) = {<<d, x>> : x \in Range(nums)}
  BY Zenon DEF Range
<1> QED BY <1>2, <1>3

\* Numbers join those that are held.
LEMMA ReadNumbersOK ==
  ASSUME BInv, NEW l \in Lines, ReadLine(l), ReadNumbers(l)
  PROVE  BInv'
<1> DEFINE n == Len(file)
           d == Directive(l)
           held == Collected(reader).nums
           pairs == [i \in DOMAIN l.nums |-> <<d, l.nums[i]>>]
<1>1. /\ file' = Append(file, l) /\ at.phase = "read"
      /\ d \in {"seq", "id"} /\ sets' = Collected(reader).list
      /\ reader' = [reader EXCEPT !.cmd = d, !.edits = <<>>, !.nums = held \o pairs]
  BY DEF ReadLine, ReadNumbers
<1>2. ReaderOK /\ Held /\ file \in Seq(Lines) /\ reader \in Readers
  BY <1>1 DEF BInv, Reading, ReaderOK
<1>3. /\ n \in Nat /\ Len(file') = n + 1 /\ file'[n + 1] = l
      /\ \A k \in 1 .. n : file'[k] = file[k]
      /\ n + 2 - 1 = n + 1
  BY <1>1, <1>2, LinesStay
<1>4. /\ IsOther(l) /\ l.cmd # "edit" /\ l.cmd # "corpus"
      /\ l.nums \in Seq(Numbers) /\ (l.cmd # "" => d = l.cmd)
  BY <1>1, DirectiveOK, Zenon
<1>5. held \in Seq(Pairs)
  <2>1. reader.nums \in Seq(Pairs) /\ <<>> \in Seq(Pairs)
    BY <1>2, NothingThere DEF Readers
  <2> QED BY <2>1, Zenon DEF Collected
<1>6. pairs \in Seq(Pairs) /\ Range(pairs) = {<<d, x>> : x \in Range(l.nums)}
  <2> HIDE DEF d
  <2> QED BY <1>1, <1>4, NumbersOfLine
<1>7. held \o pairs \in Seq(Pairs) /\ Range(held \o pairs) = Range(held) \cup Range(pairs)
  <2> HIDE DEF held, pairs
  <2> QED BY <1>5, <1>6, RangeOfBoth
<1>8. /\ reader' \in Readers /\ reader'.edits = <<>>
      /\ reader'.nums = held \o pairs /\ reader'.src = reader.src
  <2>1. d \in {"", "edit", "corpus", "seq", "id"} /\ <<>> \in Seq(Edits)
    BY <1>1, NothingThere, Zenon
  <2> HIDE DEF d, held, pairs
  <2> QED BY <1>1, <1>2, <1>7, <2>1, Zenon DEF Readers
<1>9. CorpusIs(file', Len(file'), reader'.src)
  BY <1>1, <1>2, <1>3, <1>4, <1>8, CorpusOfOther DEF Held
<1>10. PICK old \in SUBSET (1 .. n) :
         /\ NumbersOf(file, old, held)
         /\ \A k \in old :
              /\ Marked(file, k, held)
              /\ (\A q \in k + 1 .. n : file[q].cmd # "corpus")
                   => CorpusIs(file, k, reader.src)
         /\ Given(file', n + 2) = old \cup {n + 1}
  BY <1>1, <1>2, <1>4, HeldSoFar
<1>11. \A k \in old : file'[k] = file[k]
  BY <1>3
<1>12. NumbersOf(file', Given(file', n + 2), reader'.nums)
  <2>1. Seconds({<<d, x>> : x \in Range(l.nums)}) = Range(l.nums)
    BY SecondsOf
  <2>2. Seconds(Range(held)) = UNION {Range(file[k].nums) : k \in old}
    BY <1>10 DEF NumbersOf
  <2>3. Seconds(Range(held) \cup Range(pairs)) = Seconds(Range(held)) \cup Seconds(Range(pairs))
    BY SecondsOfBoth
  <2>4. UNION {Range(file'[k].nums) : k \in old \cup {n + 1}}
          = (UNION {Range(file[k].nums) : k \in old}) \cup Range(l.nums)
    <3>1. {Range(file'[k].nums) : k \in old \cup {n + 1}}
            = {Range(file[k].nums) : k \in old} \cup {Range(l.nums)}
      BY <1>3, <1>11
    <3> QED BY <3>1
  <2>5. Seconds(Range(held \o pairs))
          = UNION {Range(file'[k].nums) : k \in old \cup {n + 1}}
    <3> HIDE DEF held, pairs, d
    <3> QED BY <1>6, <1>7, <2>1, <2>2, <2>3, <2>4
  <2> QED BY <1>8, <1>10, <2>5 DEF NumbersOf
<1>13. ASSUME NEW k \in Given(file', n + 2)
       PROVE  /\ Marked(file', k, reader'.nums)
              /\ (\A q \in k + 1 .. n + 1 : file'[q].cmd # "corpus")
                   => CorpusIs(file', k, reader'.src)
  <2>1. Range(held) \subseteq Range(reader'.nums)
        /\ \A x \in Range(l.nums) : <<d, x>> \in Range(reader'.nums)
    BY <1>6, <1>7, <1>8
  <2>2. CASE k = n + 1
    <3>1. file'[k] = l
      BY <1>3, <2>2
    <3>2. Marked(file', k, reader'.nums)
      <4> HIDE DEF d
      <4> QED BY <1>4, <2>1, <3>1, Zenon DEF Marked
    <3>3. CorpusIs(file', k, reader'.src)
      BY <1>3, <1>9, <2>2
    <3> QED BY <3>2, <3>3
  <2>3. CASE k \in old
    <3>1. file'[k] = file[k] /\ k \in 1 .. n
      BY <1>11, <2>3
    <3>2. Marked(file, k, held)
      BY <1>10, <2>3
    <3>3. Marked(file', k, reader'.nums)
      <4> HIDE DEF held
      <4> QED BY <2>1, <3>1, <3>2, Zenon DEF Marked
    <3>4. ASSUME \A q \in k + 1 .. n + 1 : file'[q].cmd # "corpus"
          PROVE  CorpusIs(file', k, reader'.src)
      <4>1. \A q \in k + 1 .. n : file[q].cmd # "corpus"
        BY <1>3, <3>1, <3>4
      <4>2. CorpusIs(file, k, reader.src) /\ k \in 0 .. n
        BY <1>10, <2>3, <3>1, <4>1
      <4> QED BY <1>1, <1>2, <1>8, <4>2, CorpusStays
    <3> QED BY <3>3, <3>4
  <2> QED BY <1>10, <1>13, <2>2, <2>3
<1>14. Told(file', Len(file) + 2, reader'.nums, reader'.src)
  <2> HIDE DEF held, pairs, d
  <2> QED BY <1>3, <1>12, <1>13 DEF Told
<1>15. EndsEdits
  BY <1>1, <1>8, <1>9, <1>14 DEF EndsEdits
<1> QED BY <1>4, <1>15, OtherOK

\* A corpus changes what the numbers mean that are held, and no others.
LEMMA ReadCorpusOK ==
  ASSUME BInv, NEW l \in Lines, ReadLine(l), ReadCorpus(l)
  PROVE  BInv'
<1> DEFINE n == Len(file)
           held == Collected(reader).nums
<1>1. /\ file' = Append(file, l) /\ at.phase = "read" /\ l.cmd = "corpus"
      /\ sets' = Collected(reader).list
      /\ reader' = [cmd |-> "corpus", src |-> l.src, edits |-> <<>>, nums |-> held]
  BY DEF ReadLine, ReadCorpus
<1>2. ReaderOK /\ Held /\ file \in Seq(Lines) /\ reader \in Readers
  BY <1>1 DEF BInv, Reading, ReaderOK
<1>3. /\ n \in Nat /\ Len(file') = n + 1 /\ file'[n + 1] = l
      /\ \A k \in 1 .. n : file'[k] = file[k]
      /\ n + 2 - 1 = n + 1
  BY <1>1, <1>2, LinesStay
<1>4. IsOther(l) /\ l.cmd # "edit" /\ l.src \in Sources
  BY <1>1, LineOK, Zenon DEF IsOther
<1>5. held \in Seq(Pairs)
  <2>1. reader.nums \in Seq(Pairs) /\ <<>> \in Seq(Pairs)
    BY <1>2, NothingThere DEF Readers
  <2> QED BY <2>1, Zenon DEF Collected
<1>6. /\ reader' \in Readers /\ reader'.edits = <<>>
      /\ reader'.nums = held /\ reader'.src = l.src
  <2>1. "corpus" \in {"", "edit", "corpus", "seq", "id"} /\ <<>> \in Seq(Edits)
    BY NothingThere, Zenon
  <2> HIDE DEF held
  <2> QED BY <1>1, <1>4, <1>5, <2>1, Zenon DEF Readers
<1>7. CorpusIs(file', Len(file'), reader'.src)
  <2>1. /\ n + 1 \in 1 .. n + 1 /\ file'[n + 1].cmd = "corpus"
        /\ reader'.src = file'[n + 1].src
        /\ \A k \in n + 1 + 1 .. n + 1 : file'[k].cmd # "corpus"
    BY <1>1, <1>3, <1>6
  <2> HIDE DEF n
  <2> QED BY <1>3, <2>1 DEF CorpusIs
<1>8. PICK old \in SUBSET (1 .. n) :
        /\ NumbersOf(file, old, held)
        /\ \A k \in old : Marked(file, k, held)
        /\ Given(file', n + 2) = old
  BY <1>1, <1>2, <1>4, HeldSoFar
<1>9. \A k \in old : file'[k] = file[k] /\ k \in 1 .. n
  BY <1>3
<1>10. NumbersOf(file', Given(file', n + 2), reader'.nums)
  BY <1>6, <1>8, <1>9 DEF NumbersOf
<1>11. ASSUME NEW k \in Given(file', n + 2)
       PROVE  /\ Marked(file', k, reader'.nums)
              /\ (\A q \in k + 1 .. n + 1 : file'[q].cmd # "corpus")
                   => CorpusIs(file', k, reader'.src)
  <2>1. k \in 1 .. n /\ file'[k] = file[k] /\ Marked(file, k, held)
    BY <1>8, <1>9, <1>11
  <2>2. Marked(file', k, reader'.nums)
    <3> HIDE DEF held
    <3> QED BY <1>6, <2>1, Zenon DEF Marked
  <2>3. n + 1 \in k + 1 .. n + 1 /\ file'[n + 1].cmd = "corpus"
    BY <1>1, <1>3, <2>1
  <2> QED BY <2>2, <2>3
<1>12. Told(file', Len(file) + 2, reader'.nums, reader'.src)
  <2> HIDE DEF held
  <2> QED BY <1>3, <1>10, <1>11 DEF Told
<1>13. EndsEdits
  BY <1>1, <1>6, <1>7, <1>12 DEF EndsEdits
<1> QED BY <1>4, <1>13, OtherOK

-----------------------------------------------------------------------------
(* The end of the file, and what comes after it. *)

\* The sets are those that there would have been.
LEMMA EndOfFileOK ==
  ASSUME BInv, EndOfFile
  PROVE  BInv'
<1>1. /\ at.phase = "read" /\ sets' = ListNow /\ UNCHANGED <<file, reader>>
      /\ at' = [at EXCEPT !.phase = "next"]
  BY DEF EndOfFile, ListNow
<1>2. /\ ReaderOK /\ AllRight(ListNow)
      /\ reader \in Readers /\ sets \in Seq(Directives)
      /\ DOMAIN at = {"phase", "set"}
  BY <1>1 DEF BInv, Reading, ReaderOK
<1>3. at'.phase = "next" /\ DOMAIN at' = {"phase", "set"}
  BY <1>1, <1>2
<1>4. ListNow \in Seq(Directives)
  <2> DEFINE now == [nums |-> reader.nums, src |-> reader.src, edits |-> reader.edits]
  <2>1. now \in Directives
    BY <1>2 DEF Directives, Readers
  <2>2. ListNow = sets \/ ListNow = Append(sets, now)
    BY DEF ListNow, Collected
  <2> HIDE DEF now
  <2> QED BY <1>2, <2>1, <2>2
<1>5. ReaderOK'
  BY <1>1, <1>2, <1>3, <1>4, Zenon DEF ReaderOK
<1>6. AllRight(sets)'
  BY <1>1, <1>2, Zenon DEF AllRight, IsEdit
<1> QED BY <1>3, <1>5, <1>6 DEF BInv, Reading

\* The sets stay as they are, and nothing is read any more.
LEMMA RestOK ==
  ASSUME BInv, UNCHANGED <<file, reader, sets>>,
         DOMAIN at' = {"phase", "set"},
         at'.phase = "read" => at.phase = "read",
         at'.phase \in {"next", "apply"} => at.phase \in {"next", "apply"}
  PROVE  BInv'
<1>1. file' = file /\ reader' = reader /\ sets' = sets
  OBVIOUS
<1>2. ReaderOK'
  BY <1>1, Zenon DEF BInv, ReaderOK
<1>3. Held' <=> Held
  BY <1>1, Zenon DEF Held, HeldFrom
<1>4. ListNow' = ListNow
  BY <1>1, Zenon DEF ListNow, Collected
<1>5. /\ AllRight(sets)' <=> AllRight(sets)
      /\ AllRight(ListNow)' <=> AllRight(ListNow)
  BY <1>1, <1>4, Zenon DEF AllRight, IsEdit
<1>6. Reading'
  BY <1>1, <1>3, <1>4, <1>5 DEF BInv, Reading
<1> QED BY <1>2, <1>5, <1>6 DEF BInv

\* Every step of the program, and of the users.
LEMMA StepOK ==
  ASSUME BInv, [Next]_vars
  PROVE  BInv'
<1>0. DOMAIN at = {"phase", "set"}
  BY DEF BInv, ReaderOK
<1>1. ASSUME NEW l \in Lines, ReadLine(l) PROVE BInv'
  <2>1. CASE ReadEdit(l)
    BY <1>1, <2>1, ReadEditOK
  <2>2. CASE ReadCorpus(l)
    BY <1>1, <2>2, ReadCorpusOK
  <2>3. CASE ReadNumbers(l)
    BY <1>1, <2>3, ReadNumbersOK
  <2> QED BY <1>1, <2>1, <2>2, <2>3 DEF ReadLine
<1>2. CASE BadLine
  BY <1>0, <1>2, RestOK DEF BadLine
<1>3. CASE EndOfFile
  BY <1>3, EndOfFileOK
<1>4. CASE GetEntries
  <2>1. /\ at.phase = "next" /\ UNCHANGED <<file, reader, sets>>
        /\ \/ at' = [at EXCEPT !.phase = "stopped"]
           \/ at' = [at EXCEPT !.phase = "apply"]
    BY <1>4, Zenon DEF GetEntries
  <2> QED BY <1>0, <2>1, RestOK
<1>5. ASSUME NEW b \in batch, Process(b) PROVE BInv'
  <2>1. UNCHANGED <<file, reader, sets, at>>
    BY <1>5, Zenon DEF Process, Count
  <2> QED BY <1>0, <2>1, RestOK
<1>6. CASE EndOfSet
  <2>1. /\ at.phase = "apply" /\ UNCHANGED <<file, reader, sets>>
        /\ at' = [phase |-> "next", set |-> at.set + 1]
    BY <1>6 DEF EndOfSet
  <2> QED BY <2>1, RestOK
<1>7. CASE Finish
  <2>1. /\ at.phase = "next" /\ UNCHANGED <<file, reader, sets>>
        /\ at' = [at EXCEPT !.phase = "done"]
    BY <1>7 DEF Finish
  <2> QED BY <1>0, <2>1, RestOK
<1>8. ASSUME NEW c, UserEdits(c, NextId) PROVE BInv'
  <2>1. UNCHANGED <<file, reader, sets, at>>
    BY <1>8 DEF UserEdits
  <2> QED BY <1>0, <2>1, RestOK
<1>9. CASE UNCHANGED vars
  <2>1. UNCHANGED <<file, reader, sets, at>>
    BY <1>9 DEF vars
  <2> QED BY <1>0, <2>1, RestOK
<1> QED BY <1>1, <1>2, <1>3, <1>4, <1>5, <1>6, <1>7, <1>8, <1>9 DEF Next

-----------------------------------------------------------------------------
(* The property. *)

\* Directives begin on one line.
LEMMA RunStartIs ==
  ASSUME file \in Seq(Lines), NEW i \in DOMAIN file, NEW s, Runs(file, i, s)
  PROVE  RunStart(i) = s
<1>1. i \in 1 .. Len(file) /\ Len(file) \in Nat
  BY LenProperties
<1> DEFINE P(j) == /\ \A k \in j .. i : IsEdit(k)
                   /\ j > 1 => ~IsEdit(j - 1)
<1>2. s \in 1 .. i /\ P(s)
  BY DEF Runs, IsEdit
<1>3. ASSUME NEW j \in 1 .. i, P(j) PROVE j = s
  <2>1. CASE j < s
    <3>1. s - 1 \in j .. i /\ s > 1
      BY <1>1, <1>2, <1>3, <2>1
    <3> QED BY <1>2, <1>3, <3>1
  <2>2. CASE s < j
    <3>1. j - 1 \in s .. i /\ j > 1
      BY <1>1, <1>2, <1>3, <2>2
    <3> QED BY <1>2, <1>3, <3>1
  <2> QED BY <1>1, <1>2, <2>1, <2>2
<1> HIDE DEF P
<1>4. (CHOOSE j \in 1 .. i : P(j)) = s
  BY <1>2, <1>3
<1> QED BY <1>4 DEF RunStart, P

\* One corpus is set.
LEMMA CorpusAtIs ==
  ASSUME file \in Seq(Lines), NEW i \in DOMAIN file, NEW src, CorpusIs(file, i, src)
  PROVE  src = CorpusAt(i)
<1> DEFINE told == {k \in 1 .. i : file[k].cmd = "corpus"}
<1>1. i \in Nat
  BY LenProperties
<1>2. CASE src = Initial /\ \A k \in 1 .. i : file[k].cmd # "corpus"
  BY <1>2 DEF CorpusAt
<1>3. ASSUME NEW c \in 1 .. i, file[c].cmd = "corpus", src = file[c].src,
             \A k \in c + 1 .. i : file[k].cmd # "corpus"
      PROVE  src = CorpusAt(i)
  <2>1. c \in told /\ \A q \in told : q <= c
    BY <1>1, <1>3
  <2>2. \A k \in told : (\A q \in told : q <= k) => k = c
    BY <1>1, <2>1
  <2> HIDE DEF told
  <2>3. (CHOOSE k \in told : \A q \in told : q <= k) = c
    BY <2>1, <2>2
  <2>4. CorpusAt(i) = IF told = {} THEN Initial
                      ELSE file[CHOOSE k \in told : \A q \in told : q <= k].src
    BY DEF CorpusAt, told
  <2> QED BY <1>3, <2>1, <2>3, <2>4
<1> QED BY <1>2, <1>3 DEF CorpusIs

\* The sets that begin up to a line are counted by the lines they begin on.
LEMMA StartsAreFirsts ==
  ASSUME ReaderOK, NEW list, AllRight(list), NEW i \in DOMAIN file
  PROVE  {RunStart(j) : j \in {k \in 1 .. i : IsEdit(k)}} = Firsts(file, i)
<1>1. /\ file \in Seq(Lines) /\ i \in 1 .. Len(file) /\ Len(file) \in Nat
      /\ \A j \in 1 .. i : j \in DOMAIN file
  <2>1. file \in Seq(Lines)
    BY DEF ReaderOK
  <2> QED BY <2>1
<1>2. ASSUME NEW j \in 1 .. i, IsEdit(j) PROVE RunStart(j) \in Firsts(file, i)
  <2>1. PICK s \in 1 .. j : Runs(file, j, s)
    BY <1>1, <1>2 DEF AllRight, Right
  <2>2. RunStart(j) = s
    BY <1>1, <2>1, RunStartIs
  <2>3. s \in 1 .. i /\ Runs(file, s, s)
    BY <1>1, <2>1 DEF Runs
  <2> QED BY <2>2, <2>3 DEF Firsts
<1>3. ASSUME NEW s \in Firsts(file, i)
      PROVE  s \in 1 .. i /\ IsEdit(s) /\ RunStart(s) = s
  <2>1. s \in 1 .. i /\ Runs(file, s, s)
    BY <1>3 DEF Firsts
  <2> QED BY <1>1, <2>1, RunStartIs DEF Runs, IsEdit
<1> QED BY <1>2, <1>3

\* A directive that is where it belongs has what the file gives it.
LEMMA RightIsRead ==
  ASSUME ReaderOK, AllRight(sets), NEW i \in DOMAIN file, IsEdit(i)
  PROVE  LET start == RunStart(i)
             m     == Cardinality({RunStart(j) : j \in {k \in 1 .. i : IsEdit(k)}})
             given == {k \in Block(start) : file[k].cmd # "corpus"}
         IN  /\ m \in DOMAIN sets
             /\ sets[m].edits[i - start + 1] = file[i].edit
             /\ {p[2] : p \in Range(sets[m].nums)} = UNION {Range(file[k].nums) : k \in given}
             /\ \A k \in given :
                  /\ file[k].cmd # "" =>
                       \A n \in Range(file[k].nums) : <<file[k].cmd, n>> \in Range(sets[m].nums)
                  /\ (\A q \in k + 1 .. start : file[q].cmd # "corpus")
                       => sets[m].src = CorpusAt(k)
<1> DEFINE start == RunStart(i)
           m     == Cardinality({RunStart(j) : j \in {k \in 1 .. i : IsEdit(k)}})
           given == {k \in Block(start) : file[k].cmd # "corpus"}
<1>1. file \in Seq(Lines) /\ i \in 1 .. Len(file) /\ Len(file) \in Nat
  <2>1. file \in Seq(Lines)
    BY DEF ReaderOK
  <2> QED BY <2>1
<1>2. m = Cardinality(Firsts(file, i))
  BY StartsAreFirsts
<1>3. PICK s \in 1 .. i :
        /\ Runs(file, i, s)
        /\ m \in DOMAIN sets
        /\ sets[m].edits[i - s + 1] = file[i].edit
        /\ Told(file, s, sets[m].nums, sets[m].src)
  <2> HIDE DEF m
  <2> QED BY <1>2 DEF AllRight, Right
<1>4. start = s
  BY <1>1, <1>3, RunStartIs
<1>5. given = Given(file, s)
  <2> HIDE DEF start
  <2> QED BY <1>4, Zenon DEF Given, Block, IsEdit
<1>6. {p[2] : p \in Range(sets[m].nums)} = UNION {Range(file[k].nums) : k \in given}
  <2>1. NumbersOf(file, given, sets[m].nums)
    BY <1>3, <1>5 DEF Told
  <2> HIDE DEF given, m
  <2> QED BY <2>1, Zenon DEF NumbersOf, Seconds
<1>7. ASSUME NEW k \in given
      PROVE  /\ file[k].cmd # "" =>
                  \A n \in Range(file[k].nums) : <<file[k].cmd, n>> \in Range(sets[m].nums)
             /\ (\A q \in k + 1 .. start : file[q].cmd # "corpus")
                  => sets[m].src = CorpusAt(k)
  <2> HIDE DEF given, m, start
  <2>1. /\ Marked(file, k, sets[m].nums)
        /\ (\A q \in k + 1 .. s - 1 : file[q].cmd # "corpus") => CorpusIs(file, k, sets[m].src)
    BY <1>3, <1>5, <1>7 DEF Told
  <2>2. k \in DOMAIN file
    BY <1>1, <1>5, <1>7 DEF Given
  <2>3. ASSUME \A q \in k + 1 .. start : file[q].cmd # "corpus"
        PROVE  sets[m].src = CorpusAt(k)
    <3>1. \A q \in k + 1 .. s - 1 : q \in k + 1 .. start
      BY <1>1, <1>4, <2>2
    <3>2. CorpusIs(file, k, sets[m].src)
      BY <2>1, <2>3, <3>1
    <3> QED BY <1>1, <2>2, <3>2, CorpusAtIs
  <2>4. file[k].cmd # "" =>
          \A n \in Range(file[k].nums) : <<file[k].cmd, n>> \in Range(sets[m].nums)
    BY <2>1, Zenon DEF Marked
  <2> QED BY <2>3, <2>4
<1>8. sets[m].edits[i - start + 1] = file[i].edit
  <2> HIDE DEF m, start
  <2> QED BY <1>3, <1>4
<1> QED BY <1>3, <1>6, <1>7, <1>8, Zenon

\* "The directives following will apply to these entries" (bulkupd.py's help,
\* parse_cmdfile()): whatever the file, each directive is in one set, with the
\* numbers before it, those and no others, and the corpus that was set.
THEOREM FilesAreReadRight == Spec => []ReadRight
<1>1. Init => BInv
  BY StartOK
<1>2. BInv /\ [Next]_vars => BInv'
  BY StepOK
<1>3. BInv => ReadRight
  <2> SUFFICES ASSUME BInv, at.phase \in {"next", "apply"}, NEW i \in DOMAIN file, IsEdit(i)
               PROVE  LET start == RunStart(i)
                          m     == Cardinality({RunStart(j) : j \in {k \in 1 .. i : IsEdit(k)}})
                          given == {k \in Block(start) : file[k].cmd # "corpus"}
                      IN  /\ m \in DOMAIN sets
                          /\ sets[m].edits[i - start + 1] = file[i].edit
                          /\ {p[2] : p \in Range(sets[m].nums)}
                               = UNION {Range(file[k].nums) : k \in given}
                          /\ \A k \in given :
                               /\ file[k].cmd # "" => \A n \in Range(file[k].nums) :
                                    <<file[k].cmd, n>> \in Range(sets[m].nums)
                               /\ (\A q \in k + 1 .. start : file[q].cmd # "corpus")
                                    => sets[m].src = CorpusAt(k)
    BY Zenon DEF ReadRight
  <2>1. ReaderOK /\ AllRight(sets)
    BY DEF BInv
  <2> QED BY <2>1, RightIsRead, Zenon
<1> QED BY <1>1, <1>2, <1>3, PTL DEF Spec


-----------------------------------------------------------------------------
(* The entries that the sets name. *)

\* A set of numbers that is not empty has a least one.
LEMMA LeastNumber ==
  ASSUME NEW S \in SUBSET Nat, S # {}
  PROVE  \E m \in S : \A k \in S : m <= k
<1>1. PICK m \in S : \A k \in S : <<k, m>> \notin OpToRel(<, Nat)
  BY NatLessThanWellFounded, WFMin
<1>2. \A k \in S : ~ (k < m)
  BY <1>1 DEF OpToRel
<1> QED
  BY <1>2

\* The names in the sets up to the n-th, added up.
NamedSums(f, n) ==
  f = [i \in 0 .. n |-> IF i = 0 THEN 0 ELSE f[i - 1] + Len(sets[i].nums)]

\* They can be added up.
LEMMA SumsExist ==
  ASSUME NEW n \in Nat
  PROVE  \E f : NamedSums(f, n)
<1> DEFINE Bad == {k \in 0 .. n : ~ \E f : NamedSums(f, k)}
<1> SUFFICES ASSUME Bad # {} PROVE FALSE
  OBVIOUS
<1>1. PICK m \in Bad : \A k \in Bad : m <= k
  <2>1. Bad \in SUBSET Nat
    OBVIOUS
  <2> HIDE DEF Bad
  <2> QED BY <2>1, LeastNumber
<1>2. m # 0
  <2>1. [i \in 0 .. 0 |-> 0] = [i \in 0 .. 0 |-> IF i = 0 THEN 0 ELSE
                                 [j \in 0 .. 0 |-> 0][i - 1] + Len(sets[i].nums)]
    OBVIOUS
  <2>2. NamedSums([i \in 0 .. 0 |-> 0], 0)
    BY <2>1 DEF NamedSums
  <2> QED BY <2>2
<1>3. m - 1 \in 0 .. n /\ m \in 0 .. n
  BY <1>1, <1>2
<1>4. PICK f : NamedSums(f, m - 1)
  BY <1>1, <1>3
<1> DEFINE g == [i \in 0 .. m |-> IF i = 0 THEN 0 ELSE f[i - 1] + Len(sets[i].nums)]
<1>5. \A i \in 0 .. m - 1 : g[i] = f[i]
  <2>1. \A i \in 0 .. m - 1 : f[i] = IF i = 0 THEN 0 ELSE f[i - 1] + Len(sets[i].nums)
    BY <1>4, Zenon DEF NamedSums
  <2>2. \A i \in 0 .. m - 1 : i \in 0 .. m
    BY <1>3
  <2>3. \A i \in 0 .. m : g[i] = IF i = 0 THEN 0 ELSE f[i - 1] + Len(sets[i].nums)
    OBVIOUS
  <2> QED BY <2>1, <2>2, <2>3, Zenon
<1>6. \A i \in 0 .. m : g[i] = IF i = 0 THEN 0 ELSE g[i - 1] + Len(sets[i].nums)
  <2>1. \A i \in 0 .. m : i # 0 => i - 1 \in 0 .. m - 1
    BY <1>3
  <2>2. \A i \in 0 .. m : g[i] = IF i = 0 THEN 0 ELSE f[i - 1] + Len(sets[i].nums)
    OBVIOUS
  <2> HIDE DEF g
  <2> QED BY <1>5, <2>1, <2>2
<1>7. NamedSums(g, m)
  <2>1. g = [i \in 0 .. m |-> g[i]]
    OBVIOUS
  <2> HIDE DEF g
  <2>2. [i \in 0 .. m |-> g[i]]
          = [i \in 0 .. m |-> IF i = 0 THEN 0 ELSE g[i - 1] + Len(sets[i].nums)]
    BY <1>6
  <2> QED BY <2>1, <2>2 DEF NamedSums
<1> QED BY <1>1, <1>7

\* What the first sets name is what the sets before name and what the last does.
LEMMA NamedUpToIs ==
  ASSUME ReaderOK
  PROVE  /\ NamedUpTo[0] = 0
         /\ \A i \in 1 .. Len(sets) : NamedUpTo[i] = NamedUpTo[i - 1] + Len(sets[i].nums)
<1>1. Len(sets) \in Nat
  <2>1. sets \in Seq(Directives)
    BY DEF ReaderOK
  <2> QED BY <2>1
<1>2. NamedSums(NamedUpTo, Len(sets))
  <2>1. \E f : NamedSums(f, Len(sets))
    BY <1>1, SumsExist
  <2>2. NamedUpTo = CHOOSE f : NamedSums(f, Len(sets))
    BY Zenon DEF NamedUpTo, NamedSums
  <2> QED BY <2>1, <2>2, Zenon
<1>3. \A i \in 0 .. Len(sets) :
        NamedUpTo[i] = IF i = 0 THEN 0 ELSE NamedUpTo[i - 1] + Len(sets[i].nums)
  BY <1>2, Zenon DEF NamedSums
<1>4. 0 \in 0 .. Len(sets) /\ \A i \in 1 .. Len(sets) : i \in 0 .. Len(sets) /\ i # 0
  BY <1>1
<1> QED BY <1>3, <1>4

\* There are no more values of a function than it has arguments.
LEMMA ImageSize ==
  ASSUME NEW S, IsFiniteSet(S), NEW f
  PROVE  /\ IsFiniteSet({f[x] : x \in S})
         /\ Cardinality({f[x] : x \in S}) <= Cardinality(S)
         /\ Cardinality({f[x] : x \in S}) \in Nat
<1> DEFINE g == [x \in S |-> f[x]]
           T == {f[x] : x \in S}
<1>1. g \in Surjection(S, T)
  BY DEF Surjection
<1>2. IsFiniteSet(T) /\ Cardinality(T) <= Cardinality(S)
  <2> HIDE DEF g, T
  <2> QED BY <1>1, FS_Surjection
<1> QED BY <1>2, FS_CardinalityType

\* The numbers of a directive, by their places in a set.
Places(set, typ) == {i \in DOMAIN set.nums : set.nums[i][1] = typ}

\* No more entries are found than a set names.
LEMMA FoundEntries ==
  ASSUME IsFiniteSet(DOMAIN entr), NEW set \in Directives, ~TooMany(set)
  PROVE  LET found == {[id |-> e, by |-> "seq", row |-> entr[e]] : e \in BySeq(set)}
                        \cup {[id |-> e, by |-> "id", row |-> entr[e]] : e \in ById(set)}
         IN  IsFiniteSet(found) /\ Cardinality(found) <= Len(set.nums)
<1> DEFINE S == {[id |-> e, by |-> "seq", row |-> entr[e]] : e \in BySeq(set)}
           I == {[id |-> e, by |-> "id", row |-> entr[e]] : e \in ById(set)}
           n == Len(set.nums)
<1>1. set.nums \in Seq(Pairs) /\ n \in Nat /\ DOMAIN set.nums = 1 .. n
  BY DEF Directives
<1>2. /\ Places(set, "seq") \cup Places(set, "id") \subseteq 1 .. n
      /\ Places(set, "seq") \cap Places(set, "id") = {}
  BY <1>1 DEF Places
<1>3. /\ IsFiniteSet(Places(set, "seq")) /\ IsFiniteSet(Places(set, "id"))
      /\ Cardinality(Places(set, "seq")) \in Nat /\ Cardinality(Places(set, "id")) \in Nat
      /\ Cardinality(Places(set, "seq")) + Cardinality(Places(set, "id")) <= n
  <2>1. IsFiniteSet(1 .. n) /\ Cardinality(1 .. n) = n
    BY <1>1, FS_Interval
  <2>2. IsFiniteSet(Places(set, "seq")) /\ IsFiniteSet(Places(set, "id"))
    BY <1>2, <2>1, FS_Subset
  <2>3. Cardinality(Places(set, "seq") \cup Places(set, "id"))
          = Cardinality(Places(set, "seq")) + Cardinality(Places(set, "id"))
            - Cardinality(Places(set, "seq") \cap Places(set, "id"))
    BY <2>2, FS_Union
  <2>4. Cardinality(Places(set, "seq") \cup Places(set, "id")) <= n
    BY <1>2, <2>1, FS_Subset
  <2>5. Cardinality(Places(set, "seq") \cap Places(set, "id")) = 0
    BY <1>2, FS_EmptySet
  <2>6. Cardinality(Places(set, "seq")) \in Nat /\ Cardinality(Places(set, "id")) \in Nat
    BY <2>2, FS_CardinalityType
  <2> QED BY <1>1, <2>2, <2>3, <2>4, <2>5, <2>6
<1>4. /\ IsFiniteSet(BySeq(set)) /\ Cardinality(BySeq(set)) \in Nat
      /\ Cardinality(BySeq(set)) <= Cardinality(Places(set, "seq"))
  <2>1. BySeq(set) \subseteq DOMAIN entr
    BY DEF BySeq
  <2>2. IsFiniteSet(BySeq(set)) /\ Cardinality(BySeq(set)) \in Nat
    BY <2>1, FS_Subset, FS_CardinalityType
  <2>3. ~ (Cardinality(BySeq(set)) > Cardinality(Places(set, "seq")))
    BY Zenon DEF TooMany, Places
  <2> QED BY <1>3, <2>2, <2>3
<1>5. /\ IsFiniteSet(ById(set)) /\ Cardinality(ById(set)) \in Nat
      /\ Cardinality(ById(set)) <= Cardinality(Places(set, "id"))
  <2>1. IsFiniteSet(Named(set, "id"))
          /\ Cardinality(Named(set, "id")) <= Cardinality(Places(set, "id"))
    <3>1. Named(set, "id") = {set.nums[i][2] : i \in Places(set, "id")}
      BY DEF Named, Places, Range
    <3> DEFINE f == [i \in Places(set, "id") |-> set.nums[i][2]]
    <3>2. Named(set, "id") = {f[i] : i \in Places(set, "id")}
      BY <3>1
    <3> HIDE DEF f
    <3> QED BY <1>3, <3>2, ImageSize
  <2>2. ById(set) \subseteq Named(set, "id")
    BY DEF ById
  <2>3. /\ IsFiniteSet(ById(set)) /\ Cardinality(ById(set)) \in Nat
        /\ Cardinality(Named(set, "id")) \in Nat
        /\ Cardinality(ById(set)) <= Cardinality(Named(set, "id"))
    BY <2>1, <2>2, FS_Subset, FS_CardinalityType
  <2> QED BY <1>3, <2>1, <2>3
<1>6. IsFiniteSet(S) /\ Cardinality(S) <= Cardinality(BySeq(set)) /\ Cardinality(S) \in Nat
  <2> DEFINE f == [e \in BySeq(set) |-> [id |-> e, by |-> "seq", row |-> entr[e]]]
  <2>1. S = {f[e] : e \in BySeq(set)}
    OBVIOUS
  <2> HIDE DEF f, S
  <2> QED BY <1>4, <2>1, ImageSize
<1>7. IsFiniteSet(I) /\ Cardinality(I) <= Cardinality(ById(set)) /\ Cardinality(I) \in Nat
  <2> DEFINE f == [e \in ById(set) |-> [id |-> e, by |-> "id", row |-> entr[e]]]
  <2>1. I = {f[e] : e \in ById(set)}
    OBVIOUS
  <2> HIDE DEF f, I
  <2> QED BY <1>5, <2>1, ImageSize
<1>8. /\ IsFiniteSet(S \cup I) /\ IsFiniteSet(S \cap I)
      /\ Cardinality(S \cup I) = Cardinality(S) + Cardinality(I) - Cardinality(S \cap I)
      /\ Cardinality(S \cap I) \in Nat /\ Cardinality(S \cup I) \in Nat
  <2> HIDE DEF S, I
  <2>1. IsFiniteSet(S \cup I) /\ IsFiniteSet(S \cap I)
    BY <1>6, <1>7, FS_Union, FS_Intersection
  <2> QED BY <1>6, <1>7, <2>1, FS_Union, FS_CardinalityType
<1> HIDE DEF S, I
<1>9. IsFiniteSet(S \cup I) /\ Cardinality(S \cup I) <= n
  BY <1>1, <1>3, <1>4, <1>5, <1>6, <1>7, <1>8
<1> QED BY <1>9, Zenon DEF S, I

-----------------------------------------------------------------------------
(* Every entry that is named is counted. *)

Total == tally.done + tally.skipped + tally.failed

\* What has been counted is what the sets named that are done with.
Counted ==
  /\ at.phase = "read" => at.set = 1 /\ batch = {} /\ Total = 0
  /\ at.phase = "next" => at.set \in 1 .. Len(sets) + 1 /\ Total = NamedUpTo[at.set - 1]
  /\ at.phase = "apply" =>
       at.set \in 1 .. Len(sets) /\ Total + Cardinality(batch) = NamedUpTo[at.set]
  /\ at.phase = "done" /\ at.set > Len(sets) => Total = NamedUpTo[Len(sets)]

CInv ==
  /\ IsFiniteSet(DOMAIN entr) /\ IsFiniteSet(batch)
  /\ tally \in [done : Nat, skipped : Nat, failed : Nat]
  /\ at.set \in Nat \ {0}
  /\ Counted

\* Nothing is counted yet.
LEMMA StartCounted ==
  Init => CInv
<1> SUFFICES ASSUME Init PROVE CInv
  OBVIOUS
<1>1. /\ at = [phase |-> "read", set |-> 1] /\ batch = {}
      /\ tally = [done |-> 0, skipped |-> 0, failed |-> 0]
  BY DEF Init
<1>2. DOMAIN entr = Corpus
  BY DEF Init, Trees!Init
<1>3. IsFiniteSet(DOMAIN entr) /\ IsFiniteSet(batch)
  BY <1>1, <1>2, CorpusIsLoaded, FS_EmptySet
<1>4. at.phase = "read" /\ at.set = 1 /\ Total = 0
  BY <1>1 DEF Total
<1>5. tally \in [done : Nat, skipped : Nat, failed : Nat]
  BY <1>1
<1> QED BY <1>1, <1>3, <1>4, <1>5 DEF CInv, Counted

\* A submission adds one row, with a new id and the status asked for.
LEMMA AddedRow ==
  ASSUME NEW c, NEW n, NEW list, NEW comments, Added(c, n, list, comments)
  PROVE  /\ DOMAIN entr' \subseteq DOMAIN entr \cup {n}
         /\ n \notin used /\ used' = used \cup {n}
         /\ entr'[n].stat = IF c.dfrm = NoEntr THEN "A" ELSE c.stat
<1>1. CASE Trees!Submit(c, n)
  <2>1. n \notin used /\ used' = used \cup {n} /\ entr' = Trees!Submitted(entr, c, n)
    BY <1>1 DEF Trees!Submit, Trees!Take
  <2>2. entr'[n].stat = IF c.dfrm = NoEntr THEN "A" ELSE c.stat
    BY <2>1 DEF Trees!Submitted, Trees!InsertRow, Trees!SubmittedRow, Trees!RowFor, Trees!StatFor
  <2> QED BY <2>1, <2>2 DEF Trees!Submitted, Trees!InsertRow
<1>2. CASE Trees!Approve(c, n)
  <2>1. n \notin used /\ used' = used \cup {n} /\ entr' = Trees!Approved(entr, c, n)
    BY <1>2 DEF Trees!Approve, Trees!Take
  <2>2. entr'[n].stat = IF c.dfrm = NoEntr THEN "A" ELSE c.stat
    BY <2>1 DEF Trees!Approved, Trees!InsertRow, Trees!ApprovedRow, Trees!RowFor, Trees!StatFor
  <2>3. DOMAIN Trees!WithoutTree(entr, c.dfrm) \subseteq DOMAIN entr
    BY DEF Trees!WithoutTree, Trees!DeleteRow
  <2> QED BY <2>1, <2>2, <2>3 DEF Trees!Approved, Trees!InsertRow
<1> QED BY <1>1, <1>2 DEF Added

\* A table that a row is added to stays finite.
LEMMA AddedFinite ==
  ASSUME IsFiniteSet(DOMAIN entr), NEW c, NEW n, NEW list, NEW comments,
         Added(c, n, list, comments)
  PROVE  IsFiniteSet(DOMAIN entr')
<1>1. IsFiniteSet(DOMAIN entr \cup {n})
  BY FS_AddElement
<1> QED BY <1>1, AddedRow, FS_Subset

\* The users add rows, and count nothing.
LEMMA TableCounted ==
  ASSUME CInv, IsFiniteSet(DOMAIN entr'), UNCHANGED <<sets, at, batch, tally>>
  PROVE  CInv'
<1>1. NamedUpTo' = NamedUpTo
  BY Zenon DEF NamedUpTo
<1>2. Counted'
  <2>1. Total' = Total
    BY Zenon DEF Total
  <2> QED BY <1>1, <2>1, Zenon DEF CInv, Counted
<1> QED BY <1>2 DEF CInv

\* Nothing is counted while the file is read.
LEMMA ReadCounted ==
  ASSUME CInv, ReaderOK', at.phase = "read", UNCHANGED <<table, batch, tally>>,
         at'.set = at.set,
         \/ at'.phase \in {"read", "next"}
         \/ at'.phase = "done" /\ UNCHANGED sets
  PROVE  CInv'
<1>1. at.set = 1 /\ batch = {} /\ Total = 0 /\ Total' = 0
  BY DEF CInv, Counted, Total
<1>2. /\ NamedUpTo'[0] = 0 /\ Len(sets') \in Nat
  <2>1. (NamedUpTo[0] = 0)'
    BY NamedUpToIs, PTL
  <2>2. sets' \in Seq(Directives)
    BY DEF ReaderOK
  <2> QED BY <2>1, <2>2
<1>3. Counted'
  <2>1. CASE at'.phase = "read"
    BY <1>1, <2>1 DEF Counted
  <2>2. CASE at'.phase = "next"
    BY <1>1, <1>2, <2>2 DEF Counted
  <2>3. CASE at'.phase = "done"
    <3>1. at'.set > Len(sets') => Len(sets') = 0
      BY <1>1, <1>2
    <3> QED BY <1>1, <1>2, <2>3, <3>1 DEF Counted
  <2> QED BY <2>1, <2>2, <2>3
<1> QED BY <1>3 DEF CInv, table

\* The entries of a set wait to be counted, except those that are not found.
LEMMA GetEntriesCounted ==
  ASSUME CInv, ReaderOK, GetEntries
  PROVE  CInv'
<1> DEFINE set == sets[at.set]
           found == {[id |-> e, by |-> "seq", row |-> entr[e]] : e \in BySeq(set)}
                      \cup {[id |-> e, by |-> "id", row |-> entr[e]] : e \in ById(set)}
<1>1. /\ at.phase = "next" /\ at.set <= Len(sets)
      /\ UNCHANGED <<entr, sets>>
      /\ IF TooMany(set)
         THEN at' = [at EXCEPT !.phase = "stopped"] /\ UNCHANGED <<batch, tally>>
         ELSE /\ at' = [at EXCEPT !.phase = "apply"]
              /\ batch' = found
              /\ tally' = [tally EXCEPT !.skipped = @ + Len(set.nums) - Cardinality(found)]
  BY Zenon DEF GetEntries, table
<1>2. /\ sets \in Seq(Directives) /\ Len(sets) \in Nat /\ DOMAIN at = {"phase", "set"}
      /\ at.set \in 1 .. Len(sets)
  <2>1. sets \in Seq(Directives) /\ DOMAIN at = {"phase", "set"}
    BY DEF ReaderOK
  <2> QED BY <1>1, <2>1 DEF CInv
<1>3. /\ set \in Directives /\ Len(set.nums) \in Nat
      /\ NamedUpTo[at.set] = NamedUpTo[at.set - 1] + Len(set.nums)
  <2>1. set \in Directives
    BY <1>2
  <2>2. Len(set.nums) \in Nat
    <3>1. set.nums \in Seq(Pairs)
      BY <2>1 DEF Directives
    <3> QED BY <3>1
  <2> QED BY <1>2, <2>1, <2>2, NamedUpToIs
<1>4. /\ IsFiniteSet(DOMAIN entr) /\ IsFiniteSet(batch)
      /\ tally \in [done : Nat, skipped : Nat, failed : Nat]
      /\ Total = NamedUpTo[at.set - 1]
  BY <1>1 DEF CInv, Counted
<1>5. CASE TooMany(set)
  <2>1. at'.phase = "stopped" /\ at'.set = at.set /\ UNCHANGED <<batch, tally, entr>>
    BY <1>1, <1>2, <1>5
  <2> QED BY <1>2, <1>4, <2>1 DEF CInv, Counted
<1>6. CASE ~TooMany(set)
  <2>1. IsFiniteSet(found) /\ Cardinality(found) <= Len(set.nums)
    BY <1>3, <1>4, <1>6, FoundEntries, Zenon
  <2>2. Cardinality(found) \in Nat
    BY <2>1, FS_CardinalityType
  <2> HIDE DEF found, set
  <2>3. /\ at'.phase = "apply" /\ at'.set = at.set /\ batch' = found
        /\ tally' = [tally EXCEPT !.skipped = @ + Len(set.nums) - Cardinality(found)]
    BY <1>1, <1>2, <1>6
  <2>4. /\ tally' \in [done : Nat, skipped : Nat, failed : Nat]
        /\ Total' = Total + Len(set.nums) - Cardinality(found)
    <3>1. tally.skipped + Len(set.nums) - Cardinality(found) \in Nat
      BY <1>3, <1>4, <2>1, <2>2
    <3>2. /\ tally'.skipped = tally.skipped + Len(set.nums) - Cardinality(found)
          /\ tally'.done = tally.done /\ tally'.failed = tally.failed
      BY <1>4, <2>3
    <3>3. tally' \in [done : Nat, skipped : Nat, failed : Nat]
      BY <1>4, <2>3, <3>1
    <3>4. tally.done \in Nat /\ tally.skipped \in Nat /\ tally.failed \in Nat
      BY <1>4
    <3>5. Total' = Total + Len(set.nums) - Cardinality(found)
      BY <1>3, <2>2, <3>2, <3>4 DEF Total
    <3> QED BY <3>3, <3>5
  <2>5. NamedUpTo' = NamedUpTo
    BY <1>1, Zenon DEF NamedUpTo
  <2>6. Total \in Nat
    BY <1>4 DEF Total
  <2>7. Total' + Cardinality(batch') = NamedUpTo'[at'.set]
    BY <1>3, <1>4, <2>2, <2>3, <2>4, <2>5, <2>6
  <2>8. Counted'
    BY <1>1, <1>2, <2>3, <2>7 DEF Counted
  <2> QED BY <1>1, <1>2, <1>4, <2>1, <2>3, <2>4, <2>8 DEF CInv
<1> QED BY <1>5, <1>6

\* An entry is counted when it is done with.
LEMMA ProcessCounted ==
  ASSUME CInv, ReaderOK, NEW b \in batch, Process(b)
  PROVE  CInv'
<1>1. /\ at.phase = "apply" /\ UNCHANGED <<sets, at>>
      /\ batch' = batch \ {b}
      /\ \E counter \in {"done", "skipped", "failed"} :
           tally' = [tally EXCEPT ![counter] = @ + 1]
  BY Zenon DEF Process, Count
<1>2. IsFiniteSet(DOMAIN entr')
  <2>1. \/ UNCHANGED table
        \/ \E c, list, comments : Added(c, NextId, list, comments)
    BY Zenon DEF Process
  <2> QED BY <2>1, AddedFinite DEF CInv, table
<1>3. /\ IsFiniteSet(batch) /\ tally \in [done : Nat, skipped : Nat, failed : Nat]
      /\ at.set \in 1 .. Len(sets) /\ Total + Cardinality(batch) = NamedUpTo[at.set]
  BY <1>1 DEF CInv, Counted
<1>4. /\ IsFiniteSet(batch') /\ Cardinality(batch') = Cardinality(batch) - 1
      /\ Cardinality(batch) \in Nat
  BY <1>1, <1>3, FS_RemoveElement, FS_CardinalityType
<1>5. /\ tally' \in [done : Nat, skipped : Nat, failed : Nat]
      /\ Total' = Total + 1 /\ Total \in Nat
  <2>1. PICK counter \in {"done", "skipped", "failed"} :
          tally' = [tally EXCEPT ![counter] = tally[counter] + 1]
    BY <1>1, Zenon
  <2>2. /\ tally = [done |-> tally.done, skipped |-> tally.skipped,
                     failed |-> tally.failed]
        /\ tally.done \in Nat /\ tally.skipped \in Nat /\ tally.failed \in Nat
    BY <1>3
  <2>3. CASE counter = "done"
    <3>1. tally' = [done |-> tally.done + 1, skipped |-> tally.skipped,
                    failed |-> tally.failed]
      BY <2>1, <2>2, <2>3
    <3> QED
      BY <2>2, <3>1 DEF Total
  <2>4. CASE counter = "skipped"
    <3>1. tally' = [done |-> tally.done, skipped |-> tally.skipped + 1,
                    failed |-> tally.failed]
      BY <2>1, <2>2, <2>4
    <3> QED
      BY <2>2, <3>1 DEF Total
  <2>5. CASE counter = "failed"
    <3>1. tally' = [done |-> tally.done, skipped |-> tally.skipped,
                    failed |-> tally.failed + 1]
      BY <2>1, <2>2, <2>5
    <3> QED
      BY <2>2, <3>1 DEF Total
  <2> QED BY <2>3, <2>4, <2>5
<1>6. NamedUpTo' = NamedUpTo
  BY <1>1, Zenon DEF NamedUpTo
<1>7. Counted'
  <2>1. Total' + Cardinality(batch') = NamedUpTo'[at'.set]
    BY <1>1, <1>3, <1>4, <1>5, <1>6
  <2> QED BY <1>1, <1>3, <2>1 DEF Counted
<1> QED BY <1>1, <1>2, <1>4, <1>5, <1>7 DEF CInv

\* Each step of the program, and of the users, keeps the count.
LEMMA StepCounted ==
  ASSUME BInv, BInv', CInv, [Next]_vars
  PROVE  CInv'
<1>0. ReaderOK /\ ReaderOK' /\ DOMAIN at = {"phase", "set"}
  BY DEF BInv, ReaderOK
<1>1. ASSUME NEW l \in Lines, ReadLine(l) PROVE CInv'
  BY <1>0, <1>1, ReadCounted DEF ReadLine
<1>2. CASE BadLine
  BY <1>0, <1>2, ReadCounted DEF BadLine
<1>3. CASE EndOfFile
  BY <1>0, <1>3, ReadCounted DEF EndOfFile
<1>4. CASE GetEntries
  BY <1>0, <1>4, GetEntriesCounted
<1>5. ASSUME NEW b \in batch, Process(b) PROVE CInv'
  BY <1>0, <1>5, ProcessCounted
<1>6. CASE EndOfSet
  <2>1. /\ at.phase = "apply" /\ batch = {} /\ UNCHANGED <<entr, sets, batch, tally>>
        /\ at'.phase = "next" /\ at'.set = at.set + 1
    BY <1>6 DEF EndOfSet, table
  <2>2. NamedUpTo' = NamedUpTo /\ Total' = Total
    BY <2>1, Zenon DEF NamedUpTo, Total
  <2>3. /\ at.set \in 1 .. Len(sets) /\ Total = NamedUpTo[at.set]
    <3>1. Cardinality(batch) = 0 /\ Total \in Nat
      BY <2>1, FS_EmptySet DEF CInv, Total
    <3> QED BY <2>1, <3>1 DEF CInv, Counted
  <2>4. Counted'
    BY <2>1, <2>2, <2>3 DEF Counted
  <2> QED BY <2>1, <2>3, <2>4 DEF CInv
<1>7. CASE Finish
  <2>1. /\ at.phase = "next" /\ at.set > Len(sets) /\ UNCHANGED <<entr, sets, batch, tally>>
        /\ at'.phase = "done" /\ at'.set = at.set
    BY <1>0, <1>7 DEF Finish, table
  <2>2. NamedUpTo' = NamedUpTo /\ Total' = Total
    BY <2>1, Zenon DEF NamedUpTo, Total
  <2>3. Len(sets) \in Nat
    <3>1. sets \in Seq(Directives)
      BY <1>0 DEF ReaderOK
    <3> QED BY <3>1
  <2>4. at.set = Len(sets) + 1 /\ Total = NamedUpTo[Len(sets)]
    BY <2>1, <2>3 DEF CInv, Counted
  <2>5. Counted'
    BY <2>1, <2>2, <2>4 DEF Counted
  <2> QED BY <2>1, <2>5 DEF CInv
<1>8. ASSUME NEW c, UserEdits(c, NextId) PROVE CInv'
  <2>1. UNCHANGED <<sets, at, batch, tally>> /\ \E t : Added(c, NextId, <<t>>, {})
    BY <1>8 DEF UserEdits
  <2> QED BY <2>1, AddedFinite, TableCounted DEF CInv
<1>9. CASE UNCHANGED vars
  <2>1. UNCHANGED <<entr, sets, at, batch, tally>>
    BY <1>9 DEF vars
  <2> QED BY <2>1, TableCounted DEF CInv
<1> QED BY <1>1, <1>2, <1>3, <1>4, <1>5, <1>6, <1>7, <1>8, <1>9 DEF Next

\* apply()'s three counts: every entry that a file names is updated, skipped or
\* failed, and counted once, whatever the users do meanwhile to the entries.
THEOREM EntriesAreAccounted == Spec => []Accounted
<1>1. Init => BInv /\ CInv
  BY StartOK, StartCounted
<1>2. BInv /\ CInv /\ [Next]_vars => (BInv /\ CInv)'
  BY StepOK, StepCounted
<1>3. CInv => Accounted
  BY DEF CInv, Counted, Total, Accounted
<1> QED BY <1>1, <1>2, <1>3, PTL DEF Spec


-----------------------------------------------------------------------------
(* What the directives make of an entry. *)

\* What may be a text of an entry.
Vals == Texts \cup {e.new : e \in Edits}

\* The first place in a list where a text is, or 0.
LEMMA FirstPlace ==
  ASSUME NEW list \in Seq(Vals), NEW old
  PROVE  LET i == SelectInSeq(list, LAMBDA t : t = old)
         IN  i = 0 \/ (i \in 1 .. Len(list) /\ list[i] = old)
<1> DEFINE I == {i \in 1 .. Len(list) : list[i] = old}
<1>1. SelectInSeq(list, LAMBDA t : t = old) = IF I # {} THEN Min(I) ELSE 0
  BY DEF SelectInSeq
<1>2. ASSUME I # {} PROVE Min(I) \in I
  <2>1. I \in SUBSET Nat
    OBVIOUS
  <2> HIDE DEF I
  <2>2. \E m \in I : \A k \in I : m <= k
    BY <1>2, <2>1, LeastNumber
  <2> QED BY <2>2 DEF Min
<1> HIDE DEF I
<1>3. \/ SelectInSeq(list, LAMBDA t : t = old) = 0
      \/ SelectInSeq(list, LAMBDA t : t = old) \in I
  BY <1>1, <1>2
<1> QED BY <1>3 DEF I

\* A list without the element at i has the others.
LEMMA RemovedAt ==
  ASSUME NEW list \in Seq(Vals), NEW i \in 1 .. Len(list)
  PROVE  /\ RemoveAt(list, i) \in Seq(Vals)
         /\ Range(list) \ {list[i]} \subseteq Range(RemoveAt(list, i))
<1> DEFINE r == RemoveAt(list, i)
           n == Len(list)
<1>1. n \in Nat /\ DOMAIN list = 1 .. n
  OBVIOUS
<1>2. /\ SubSeq(list, 1, i - 1) \in Seq(Vals) /\ Len(SubSeq(list, 1, i - 1)) = i - 1
      /\ \A k \in 1 .. i - 1 : SubSeq(list, 1, i - 1)[k] = list[k]
  BY SubSeqProperties
<1>3. /\ SubSeq(list, i + 1, n) \in Seq(Vals) /\ Len(SubSeq(list, i + 1, n)) = n - i
      /\ \A k \in 1 .. n - i : SubSeq(list, i + 1, n)[k] = list[i + k]
  BY SubSeqProperties
<1>4. /\ r \in Seq(Vals) /\ Len(r) = n - 1
      /\ \A k \in 1 .. i - 1 : r[k] = list[k]
      /\ \A k \in i .. n - 1 : r[k] = list[k + 1]
  <2> DEFINE p == SubSeq(list, 1, i - 1)
             q == SubSeq(list, i + 1, n)
  <2>1. /\ p \in Seq(Vals) /\ Len(p) = i - 1 /\ \A k \in 1 .. i - 1 : p[k] = list[k]
        /\ q \in Seq(Vals) /\ Len(q) = n - i /\ \A k \in 1 .. n - i : q[k] = list[i + k]
    BY <1>2, <1>3
  <2> HIDE DEF p, q
  <2>2. /\ p \o q \in Seq(Vals) /\ Len(p \o q) = n - 1
        /\ \A k \in 1 .. n - 1 : (p \o q)[k] = IF k <= i - 1 THEN p[k] ELSE q[k - (i - 1)]
    <3>1. p \o q \in Seq(Vals) /\ Len(p \o q) = Len(p) + Len(q)
      BY <2>1, ConcatProperties
    <3>2. \A k \in 1 .. Len(p) + Len(q) :
            (p \o q)[k] = IF k <= Len(p) THEN p[k] ELSE q[k - Len(p)]
      BY <2>1, ConcatProperties
    <3>3. Len(p) + Len(q) = n - 1
      BY <1>1, <2>1
    <3> QED BY <2>1, <3>1, <3>2, <3>3
  <2>3. \A k \in i .. n - 1 : k - (i - 1) \in 1 .. n - i /\ i + (k - (i - 1)) = k + 1
    BY <1>1
  <2>4. r = p \o q
    BY DEF RemoveAt, p, q
  <2> HIDE DEF r, n
  <2> QED BY <1>1, <2>1, <2>2, <2>3, <2>4
<1> HIDE DEF r
<1>5. ASSUME NEW k \in 1 .. n, k # i PROVE list[k] \in Range(r)
  <2>1. CASE k < i
    <3>1. k \in 1 .. n - 1 /\ r[k] = list[k]
      BY <1>1, <1>4, <1>5, <2>1
    <3> QED BY <1>4, <3>1 DEF Range
  <2>2. CASE k > i
    <3>1. k - 1 \in i .. n - 1 /\ k - 1 \in 1 .. n - 1 /\ k - 1 + 1 = k
      BY <1>1, <2>2
    <3>2. r[k - 1] = list[k]
      BY <1>4, <3>1
    <3> QED BY <1>4, <3>1, <3>2 DEF Range
  <2> QED BY <1>1, <1>5, <2>1, <2>2
<1>6. Range(list) \ {list[i]} \subseteq Range(r)
  BY <1>1, <1>5 DEF Range
<1> QED BY <1>4, <1>6 DEF r

\* A list with another element at i has it, and the others.
LEMMA ReplacedAt ==
  ASSUME NEW list \in Seq(Vals), NEW i \in 1 .. Len(list), NEW new \in Vals
  PROVE  /\ ReplaceAt(list, i, new) \in Seq(Vals)
         /\ Range(list) \ {list[i]} \subseteq Range(ReplaceAt(list, i, new))
         /\ new \in Range(ReplaceAt(list, i, new))
<1>1. DOMAIN list = 1 .. Len(list)
  OBVIOUS
<1>2. /\ ReplaceAt(list, i, new) \in Seq(Vals)
      /\ DOMAIN ReplaceAt(list, i, new) = 1 .. Len(list)
      /\ \A k \in 1 .. Len(list) : ReplaceAt(list, i, new)[k] = IF k = i THEN new ELSE list[k]
  BY DEF ReplaceAt
<1> QED BY <1>1, <1>2 DEF Range

\* A list that a text is added to has it, and the others.
LEMMA Appended ==
  ASSUME NEW list \in Seq(Vals), NEW new \in Vals
  PROVE  /\ Append(list, new) \in Seq(Vals)
         /\ Range(list) \subseteq Range(Append(list, new))
         /\ new \in Range(Append(list, new))
<1>1. /\ Append(list, new) \in Seq(Vals) /\ DOMAIN list = 1 .. Len(list) /\ Len(list) \in Nat
      /\ DOMAIN Append(list, new) = 1 .. Len(list) + 1
      /\ \A k \in 1 .. Len(list) : Append(list, new)[k] = list[k]
      /\ Append(list, new)[Len(list) + 1] = new
  OBVIOUS
<1>2. Len(list) + 1 \in 1 .. Len(list) + 1 /\ \A k \in 1 .. Len(list) : k \in 1 .. Len(list) + 1
  BY <1>1
<1> QED BY <1>1, <1>2 DEF Range

\* edit() takes away one text at most, and has the new one in the list.
LEMMA EditedKeeps ==
  ASSUME NEW list \in Seq(Vals), NEW old, NEW new \in Vals, Edited(list, old, new) # NoTxt
  PROVE  /\ Edited(list, old, new) \in Seq(Vals)
         /\ Range(list) \ {old} \subseteq Range(Edited(list, old, new))
         /\ new # NoTxt => new \in Range(Edited(list, old, new))
<1> DEFINE i == SelectInSeq(list, LAMBDA t : t = old)
<1>1. i = 0 \/ (i \in 1 .. Len(list) /\ list[i] = old)
  BY FirstPlace
<1>2. Edited(list, old, new) =
        IF old = NoTxt THEN Append(list, new)
        ELSE IF i = 0 THEN NoTxt
        ELSE IF new = NoTxt THEN RemoveAt(list, i) ELSE ReplaceAt(list, i, new)
  BY DEF Edited
<1> HIDE DEF i
<1>3. CASE old = NoTxt
  BY <1>2, <1>3, Appended
<1>4. CASE old # NoTxt /\ new = NoTxt
  BY <1>1, <1>2, <1>4, RemovedAt
<1>5. CASE old # NoTxt /\ new # NoTxt
  BY <1>1, <1>2, <1>5, ReplacedAt
<1> QED BY <1>3, <1>4, <1>5

\* What doedit() works on.
IsWork(w) == w = [list |-> w.list, stat |-> w.stat, note |-> w.note]

IsText(e) == e.item \notin {"comment", "entr"}

\* doedit() leaves the texts alone, or edits them.
LEMMA DoEditKeeps ==
  ASSUME NEW w, IsWork(w), w.list \in Seq(Vals), NEW e \in Edits, DoEdit(w, e).list # NoTxt
  PROVE  /\ IsWork(DoEdit(w, e)) /\ DoEdit(w, e).list \in Seq(Vals)
         /\ ~IsText(e) => DoEdit(w, e).list = w.list
         /\ IsText(e) =>
              /\ Range(w.list) \ {e.old} \subseteq Range(DoEdit(w, e).list)
              /\ e.new # NoTxt => e.new \in Range(DoEdit(w, e).list)
<1>1. CASE e.item = "comment"
  <2>1. DoEdit(w, e) = [w EXCEPT !.note = {e.new}] /\ ~IsText(e)
    BY <1>1 DEF DoEdit, IsText
  <2>2. DoEdit(w, e) = [list |-> w.list, stat |-> w.stat, note |-> {e.new}]
    BY <2>1 DEF IsWork
  <2> QED BY <2>1, <2>2 DEF IsWork
<1>2. CASE e.item = "entr"
  <2>1. DoEdit(w, e) = [w EXCEPT !.stat = "D", !.note = {Comment}] /\ ~IsText(e)
    BY <1>2 DEF DoEdit, IsText
  <2>2. DoEdit(w, e) = [list |-> w.list, stat |-> "D", note |-> {Comment}]
    BY <2>1 DEF IsWork
  <2> QED BY <2>1, <2>2 DEF IsWork
<1>3. CASE IsText(e)
  <2>1. DoEdit(w, e) = [w EXCEPT !.list = Edited(@, e.old, e.new), !.note = {Comment}]
    BY <1>3 DEF DoEdit, IsText
  <2>2. DoEdit(w, e) = [list |-> Edited(w.list, e.old, e.new), stat |-> w.stat,
                        note |-> {Comment}]
    BY <2>1 DEF IsWork
  <2>3. e.new \in Vals
    BY DEF Vals
  <2>4. IsWork(DoEdit(w, e)) /\ DoEdit(w, e).list = Edited(w.list, e.old, e.new)
    BY <2>2 DEF IsWork
  <2> QED BY <1>3, <2>3, <2>4, EditedKeeps
<1> QED BY <1>1, <1>2, <1>3 DEF IsText

\* What the first n edits make of an entry.
DoneBy(f, start, edits, n) ==
  f = [i \in 0 .. n |-> IF i = 0 THEN start
                        ELSE IF f[i - 1].list = NoTxt THEN f[i - 1]
                        ELSE DoEdit(f[i - 1], edits[i])]

\* They make something of it.
LEMMA DoneExists ==
  ASSUME NEW start, NEW edits, NEW n \in Nat
  PROVE  \E f : DoneBy(f, start, edits, n)
<1> DEFINE Bad == {k \in 0 .. n : ~ \E f : DoneBy(f, start, edits, k)}
           next(w, i) == IF w.list = NoTxt THEN w ELSE DoEdit(w, edits[i])
<1> SUFFICES ASSUME Bad # {} PROVE FALSE
  OBVIOUS
<1>1. PICK m \in Bad : \A k \in Bad : m <= k
  <2>1. Bad \in SUBSET Nat
    OBVIOUS
  <2> HIDE DEF Bad
  <2> QED BY <2>1, LeastNumber
<1>2. m # 0
  <2> DEFINE one == [i \in 0 .. 0 |-> start]
  <2>1. one = [i \in 0 .. 0 |-> IF i = 0 THEN start
                                ELSE IF one[i - 1].list = NoTxt THEN one[i - 1]
                                ELSE DoEdit(one[i - 1], edits[i])]
    OBVIOUS
  <2>2. DoneBy(one, start, edits, 0)
    BY <2>1, Zenon DEF DoneBy
  <2> QED BY <2>2
<1>3. m - 1 \in 0 .. n /\ m \in 0 .. n
  BY <1>1, <1>2
<1>4. PICK f : DoneBy(f, start, edits, m - 1)
  BY <1>1, <1>3
<1> DEFINE g == [i \in 0 .. m |-> IF i = 0 THEN start ELSE next(f[i - 1], i)]
<1> HIDE DEF next
<1>5. \A i \in 0 .. m : g[i] = IF i = 0 THEN start ELSE next(f[i - 1], i)
  OBVIOUS
<1>6. \A i \in 0 .. m - 1 : i \in 0 .. m /\ f[i] = IF i = 0 THEN start ELSE next(f[i - 1], i)
  <2>1. \A i \in 0 .. m - 1 : f[i] = IF i = 0 THEN start ELSE next(f[i - 1], i)
    BY <1>4, Zenon DEF DoneBy, next
  <2> QED BY <1>3, <2>1
<1>7. \A i \in 0 .. m - 1 : g[i] = f[i]
  <2> HIDE DEF g
  <2> QED BY <1>5, <1>6, Zenon
<1>8. \A i \in 0 .. m : g[i] = IF i = 0 THEN start ELSE next(g[i - 1], i)
  <2>1. \A i \in 0 .. m : i # 0 => i - 1 \in 0 .. m - 1
    BY <1>3
  <2> HIDE DEF g
  <2> QED BY <1>5, <1>7, <2>1
<1>9. g = [i \in 0 .. m |-> IF i = 0 THEN start ELSE next(g[i - 1], i)]
  <2>1. g = [i \in 0 .. m |-> g[i]]
    OBVIOUS
  <2> HIDE DEF g
  <2>2. [i \in 0 .. m |-> g[i]] = [i \in 0 .. m |-> IF i = 0 THEN start ELSE next(g[i - 1], i)]
    BY <1>8
  <2> QED BY <2>1, <2>2
<1>10. DoneBy(g, start, edits, m)
  <2> HIDE DEF g
  <2> QED BY <1>9, Zenon DEF DoneBy, next
<1> QED BY <1>1, <1>10

\* What the first i edits have done right, when none has failed.
DoneRight(start, edits, w, i) ==
  LET texts == {j \in 1 .. i : IsText(edits[j])}
  IN  /\ IsWork(w) /\ w.list \in Seq(Vals)
      /\ \A t \in Range(start.list) : t \in Range(w.list) \/ \E j \in texts : edits[j].old = t
      /\ \A j \in texts :
           \/ edits[j].new = NoTxt
           \/ edits[j].new \in Range(w.list)
           \/ \E k \in texts : j < k /\ edits[k].old = edits[j].new

\* One edit more.
LEMMA NextRight ==
  ASSUME NEW start, NEW edits, NEW w, NEW i \in Nat, DoneRight(start, edits, w, i),
         edits[i + 1] \in Edits, DoEdit(w, edits[i + 1]).list # NoTxt
  PROVE  DoneRight(start, edits, DoEdit(w, edits[i + 1]), i + 1)
<1> DEFINE e == edits[i + 1]
           d == DoEdit(w, e)
           before == {j \in 1 .. i : IsText(edits[j])}
           texts == {j \in 1 .. i + 1 : IsText(edits[j])}
<1>1. /\ IsWork(w) /\ w.list \in Seq(Vals)
      /\ \A t \in Range(start.list) : t \in Range(w.list) \/ \E j \in before : edits[j].old = t
      /\ \A j \in before :
           \/ edits[j].new = NoTxt
           \/ edits[j].new \in Range(w.list)
           \/ \E k \in before : j < k /\ edits[k].old = edits[j].new
  BY DEF DoneRight
<1>2. /\ IsWork(d) /\ d.list \in Seq(Vals)
      /\ ~IsText(e) => d.list = w.list
      /\ IsText(e) => /\ Range(w.list) \ {e.old} \subseteq Range(d.list)
                      /\ e.new # NoTxt => e.new \in Range(d.list)
  BY <1>1, DoEditKeeps
<1>3. /\ \A j \in texts : j \in before \/ (j = i + 1 /\ IsText(e))
      /\ \A j \in before : j \in texts /\ j < i + 1
      /\ IsText(e) => i + 1 \in texts
  OBVIOUS
<1> HIDE DEF d, before, texts
<1>4. \A t \in Range(w.list) : t \in Range(d.list) \/ (i + 1 \in texts /\ edits[i + 1].old = t)
  BY <1>2, <1>3
<1>5. \A t \in Range(start.list) : t \in Range(d.list) \/ \E j \in texts : edits[j].old = t
  BY <1>1, <1>3, <1>4
<1>6. \A j \in texts :
        \/ edits[j].new = NoTxt
        \/ edits[j].new \in Range(d.list)
        \/ \E k \in texts : j < k /\ edits[k].old = edits[j].new
  <2> TAKE j \in texts
  <2>1. CASE j \in before
    BY <1>1, <1>3, <1>4, <2>1
  <2>2. CASE j = i + 1 /\ IsText(e)
    BY <1>2, <2>2
  <2> QED BY <1>3, <2>1, <2>2
<1>7. DoneRight(start, edits, d, i + 1)
  BY <1>2, <1>5, <1>6 DEF DoneRight, texts
<1> QED BY <1>7 DEF d

\* doedit() for each edit: when none fails, each text is kept that none of them
\* names, and what each puts in is there unless a later one names it.
LEMMA DoEditsRight ==
  ASSUME NEW start, IsWork(start), start.list # NoTxt => start.list \in Seq(Vals),
         NEW edits \in Seq(Edits), DoEdits(start, edits).list # NoTxt
  PROVE  DoneRight(start, edits, DoEdits(start, edits), Len(edits))
<1> DEFINE n == Len(edits)
<1>1. n \in Nat /\ \A i \in 1 .. n : edits[i] \in Edits
  OBVIOUS
<1>2. PICK f : DoneBy(f, start, edits, n) /\ DoEdits(start, edits) = f[n]
  <2>1. \E f : DoneBy(f, start, edits, n)
    BY <1>1, DoneExists
  <2>2. DoEdits(start, edits) = (CHOOSE f : DoneBy(f, start, edits, n))[n]
    BY Zenon DEF DoEdits, DoneBy
  <2> QED BY <2>1, <2>2, Zenon
<1>3. \A i \in 0 .. n : f[i] = IF i = 0 THEN start
                              ELSE IF f[i - 1].list = NoTxt THEN f[i - 1]
                              ELSE DoEdit(f[i - 1], edits[i])
  BY <1>2, Zenon DEF DoneBy
<1> DEFINE Bad == {i \in 0 .. n : ~ (f[i].list # NoTxt => DoneRight(start, edits, f[i], i))}
<1>4. Bad = {}
  <2> SUFFICES ASSUME Bad # {} PROVE FALSE
    OBVIOUS
  <2>1. PICK m \in Bad : \A k \in Bad : m <= k
    <3>1. Bad \in SUBSET Nat
      OBVIOUS
    <3> HIDE DEF Bad
    <3> QED BY <3>1, LeastNumber
  <2>2. m \in 0 .. n /\ f[m].list # NoTxt /\ ~DoneRight(start, edits, f[m], m)
    BY <2>1
  <2>3. CASE m = 0
    <3>1. f[0] = start /\ start.list # NoTxt
      BY <1>1, <1>3, <2>2, <2>3
    <3>2. 1 .. 0 = {}
      OBVIOUS
    <3>3. DoneRight(start, edits, start, 0)
      BY <3>1, <3>2 DEF DoneRight
    <3> QED BY <2>2, <2>3, <3>1, <3>3
  <2>4. CASE m # 0
    <3>1. m - 1 \in 0 .. n /\ m - 1 \in Nat /\ m - 1 + 1 = m /\ m \in 1 .. n
      BY <1>1, <2>2, <2>4
    <3>2. f[m] = IF f[m - 1].list = NoTxt THEN f[m - 1] ELSE DoEdit(f[m - 1], edits[m])
      BY <1>3, <2>2, <2>4
    <3>3. f[m - 1].list # NoTxt /\ f[m] = DoEdit(f[m - 1], edits[m])
      BY <2>2, <3>2
    <3>4. m - 1 \notin Bad
      <4> HIDE DEF Bad
      <4>1. \A k \in Bad : m <= k
        BY <2>1
      <4> QED BY <4>1, <3>1
    <3>5. DoneRight(start, edits, f[m - 1], m - 1)
      BY <3>1, <3>3, <3>4
    <3>6. DoneRight(start, edits, f[m], m)
      <4>1. edits[m - 1 + 1] \in Edits /\ DoEdit(f[m - 1], edits[m - 1 + 1]).list # NoTxt
        BY <1>1, <2>2, <3>1, <3>3
      <4>2. DoneRight(start, edits, DoEdit(f[m - 1], edits[m - 1 + 1]), m - 1 + 1)
        BY <3>1, <3>5, <4>1, NextRight
      <4> QED BY <3>1, <3>3, <4>2
    <3> QED BY <2>2, <3>6
  <2> QED BY <2>3, <2>4
<1>5. n \notin Bad /\ n \in 0 .. n
  BY <1>1, <1>4
<1> QED BY <1>2, <1>5

-----------------------------------------------------------------------------
(* The texts of the entries. *)

TInv ==
  /\ used \subseteq EntrIds /\ DOMAIN entr \subseteq used
  /\ text \in [used -> Seq(Vals)]
  /\ \A b \in batch : b.id \in used

\* The id of a new row is one.
LEMMA NextIdIs ==
  ASSUME used \subseteq EntrIds, used # EntrIds
  PROVE  NextId \in EntrIds \ used
<1>1. EntrIds \ used \in SUBSET Nat /\ EntrIds \ used # {}
  BY IdsAreNumbers
<1>2. \E n \in EntrIds \ used : \A k \in EntrIds \ used : n <= k
  BY <1>1, LeastNumber
<1> QED BY <1>2 DEF NextId

\* A text that stands alone is a list.
LEMMA OneText ==
  ASSUME NEW t \in Texts
  PROVE  <<t>> \in Seq(Vals)
BY DEF Vals

\* Every entry has texts to begin with.
LEMMA StartTexts ==
  Init => TInv
<1> SUFFICES ASSUME Init PROVE TInv
  OBVIOUS
<1>1. DOMAIN entr = Corpus /\ used = Corpus /\ batch = {}
  BY DEF Init, Trees!Init
<1>2. text \in [Corpus -> Seq(Vals)]
  <2>1. text \in [Corpus -> {<<t>> : t \in Texts}]
    BY DEF Init
  <2>2. {<<t>> : t \in Texts} \subseteq Seq(Vals)
    BY OneText
  <2> QED BY <2>1, <2>2
<1> QED BY <1>1, <1>2, CorpusIsLoaded DEF TInv

\* A row that is added has the texts that are given, or those of its parent.
LEMMA AddedTexts ==
  ASSUME TInv, used # EntrIds, NEW c, NEW list \in Seq(Vals), NEW comments,
         c.dfrm \in used, Added(c, NextId, list, comments), batch' \subseteq batch
  PROVE  TInv'
<1>1. /\ NextId \in EntrIds \ used
      /\ DOMAIN entr' \subseteq DOMAIN entr \cup {NextId}
      /\ used' = used \cup {NextId}
  BY NextIdIs, AddedRow DEF TInv
<1>2. text' = [e \in used' |-> IF e # NextId THEN text[e]
                               ELSE IF c.stat = "D" THEN text[c.dfrm] ELSE list]
  BY Zenon DEF Added
<1> DEFINE n == NextId
           Of(e) == IF e # n THEN text[e] ELSE IF c.stat = "D" THEN text[c.dfrm] ELSE list
<1>3. ASSUME NEW e \in used' PROVE Of(e) \in Seq(Vals)
  <2>1. e # n => e \in used
    BY <1>1
  <2>2. \A x \in used : text[x] \in Seq(Vals)
    BY DEF TInv
  <2> HIDE DEF n
  <2> QED BY <2>1, <2>2
<1>4. text' \in [used' -> Seq(Vals)]
  <2>1. text' = [e \in used' |-> Of(e)]
    BY <1>2, Zenon
  <2> HIDE DEF Of
  <2> QED BY <1>3, <2>1
<1> QED BY <1>1, <1>4 DEF TInv

\* What an entry of a set is when it is processed.
LEMMA WorkIsRight ==
  ASSUME TInv, ReaderOK, CInv, at.phase = "apply", NEW b \in batch
  PROVE  LET start == [list |-> text[b.id], stat |-> b.row.stat, note |-> {}]
             edits == sets[at.set].edits
             w     == DoEdits(start, edits)
         IN  w.list # NoTxt => DoneRight(start, edits, w, Len(edits))
<1> DEFINE start == [list |-> text[b.id], stat |-> b.row.stat, note |-> {}]
<1>1. IsWork(start) /\ start.list \in Seq(Vals)
  BY DEF IsWork, TInv
<1>2. sets[at.set].edits \in Seq(Edits)
  <2>1. sets \in Seq(Directives) /\ at.set \in 1 .. Len(sets)
    BY DEF ReaderOK, CInv, Counted
  <2>2. sets[at.set] \in Directives
    BY <2>1
  <2> QED BY <2>2 DEF Directives
<1> HIDE DEF start
<1>3. DoEdits(start, sets[at.set].edits).list # NoTxt =>
        DoneRight(start, sets[at.set].edits, DoEdits(start, sets[at.set].edits),
                  Len(sets[at.set].edits))
  BY <1>1, <1>2, DoEditsRight
<1> QED BY <1>3, Zenon DEF start

\* What a submission of the program adds.
LEMMA ProcessAdds ==
  ASSUME NEW b, Process(b)
  PROVE  LET w == DoEdits([list |-> text[b.id], stat |-> b.row.stat, note |-> {}],
                          sets[at.set].edits)
         IN  \/ UNCHANGED table
             \/ /\ w.list # NoTxt /\ used # EntrIds
                /\ Added(CallFor(b, w.stat), NextId, w.list, w.note)
BY Zenon DEF Process

\* Each step leaves the entries with texts.
LEMMA StepTexts ==
  ASSUME BInv, CInv, TInv, [Next]_vars
  PROVE  TInv'
<1>0. ReaderOK
  BY DEF BInv
<1>1. ASSUME UNCHANGED table, batch' \subseteq batch PROVE TInv'
  BY <1>1 DEF TInv, table
<1>2. ASSUME NEW l \in Lines, ReadLine(l) PROVE TInv'
  <2>1. UNCHANGED <<table, batch>>
    BY <1>2, Zenon DEF ReadLine
  <2> QED BY <1>1, <2>1
<1>3. CASE BadLine \/ EndOfFile \/ EndOfSet \/ Finish \/ UNCHANGED vars
  <2>1. UNCHANGED <<table, batch>>
    BY <1>3, Zenon DEF BadLine, EndOfFile, EndOfSet, Finish, vars, table
  <2> QED BY <1>1, <2>1
<1>4. CASE GetEntries
  <2>1. UNCHANGED table
    BY <1>4, Zenon DEF GetEntries
  <2>2. \/ UNCHANGED batch
        \/ batch' = {[id |-> e, by |-> "seq", row |-> entr[e]] : e \in BySeq(sets[at.set])}
                      \cup {[id |-> e, by |-> "id", row |-> entr[e]] : e \in ById(sets[at.set])}
    BY <1>4, Zenon DEF GetEntries
  <2>3. \A set : BySeq(set) \subseteq DOMAIN entr /\ ById(set) \subseteq DOMAIN entr
    BY DEF BySeq, ById
  <2>4. \A b \in batch' : b.id \in used
    BY <2>2, <2>3 DEF TInv
  <2> QED BY <2>1, <2>4 DEF TInv, table
<1>5. ASSUME NEW b \in batch, Process(b) PROVE TInv'
  <2> DEFINE start == [list |-> text[b.id], stat |-> b.row.stat, note |-> {}]
             w == DoEdits(start, sets[at.set].edits)
  <2>1. at.phase = "apply" /\ batch' \subseteq batch
    BY <1>5, Zenon DEF Process, Count
  <2>2. w.list # NoTxt => w.list \in Seq(Vals)
    <3>1. w.list # NoTxt => DoneRight(start, sets[at.set].edits, w, Len(sets[at.set].edits))
      BY <1>0, <2>1, WorkIsRight
    <3> HIDE DEF start, w
    <3> QED BY <3>1 DEF DoneRight
  <2>3. CASE UNCHANGED table
    BY <1>1, <2>1, <2>3
  <2>4. CASE /\ w.list # NoTxt /\ used # EntrIds
             /\ Added(CallFor(b, w.stat), NextId, w.list, w.note)
    <3> HIDE DEF w
    <3>1. CallFor(b, w.stat).dfrm \in used
      BY DEF CallFor, TInv
    <3> QED BY <2>1, <2>2, <2>4, <3>1, AddedTexts
  <2>5. \/ UNCHANGED table
        \/ /\ w.list # NoTxt /\ used # EntrIds
           /\ Added(CallFor(b, w.stat), NextId, w.list, w.note)
    BY <1>5, ProcessAdds, Zenon
  <2> QED BY <2>3, <2>4, <2>5, Zenon
<1>6. ASSUME NEW c, used # EntrIds, UserEdits(c, NextId) PROVE TInv'
  <2>1. c.dfrm \in used /\ batch' \subseteq batch
    BY <1>6 DEF UserEdits, TInv
  <2>2. PICK t \in Texts : Added(c, NextId, <<t>>, {})
    BY <1>6 DEF UserEdits
  <2> QED BY <1>6, <2>1, <2>2, OneText, AddedTexts
<1> QED BY <1>2, <1>3, <1>4, <1>5, <1>6 DEF Next

\* A row that the program adds has what the directives make of its texts.
LEMMA AddsRight ==
  ASSUME BInv, CInv, TInv, NEW b \in batch, NEW n, Adds(b, n), entr'[n].stat = "A"
  PROVE  LET start == [list |-> text[b.id], stat |-> b.row.stat, note |-> {}]
             edits == sets[at.set].edits
         IN  \E w : w.list = text'[n] /\ DoneRight(start, edits, w, Len(edits))
<1> DEFINE start == [list |-> text[b.id], stat |-> b.row.stat, note |-> {}]
           edits == sets[at.set].edits
           w == DoEdits(start, edits)
           c == CallFor(b, w.stat)
<1>1. Process(b) /\ n \in DOMAIN entr' \ DOMAIN entr /\ at.phase = "apply"
  BY Zenon DEF Adds, Process
<1>2. ~UNCHANGED table
  BY <1>1 DEF table
<1>3. w.list # NoTxt /\ used # EntrIds /\ Added(c, NextId, w.list, w.note)
  BY <1>1, <1>2, ProcessAdds, Zenon
<1>4. DoneRight(start, edits, w, Len(edits))
  <2>1. ReaderOK
    BY DEF BInv
  <2> QED BY <1>1, <1>3, <2>1, WorkIsRight
<1> HIDE DEF start, edits, w
<1>5. c.dfrm = b.id /\ c.stat = w.stat /\ b.id # NoEntr
  BY NoEntrIsNoId DEF CallFor, TInv
<1> HIDE DEF c
<1>6. n = NextId /\ c.stat = "A" /\ n \in used'
  BY <1>1, <1>3, <1>5, AddedRow
<1>7. text' = [e \in used' |-> IF e # NextId THEN text[e]
                               ELSE IF c.stat = "D" THEN text[c.dfrm] ELSE w.list]
  BY <1>3, Zenon DEF Added
<1>8. text'[n] = w.list
  BY <1>6, <1>7
<1>9. \E v : v.list = text'[n] /\ DoneRight(start, edits, v, Len(edits))
  BY <1>4, <1>8
<1> QED BY <1>9, Zenon DEF start, edits

\* "An error will be generated and no changes made to the current entry"
\* (bulkupd.py's help, apply(), doedit()): whatever the directives, an entry
\* that is updated has been given all of them, and has kept what none names.
THEOREM AllOrNothingIsDone == Spec => AllOrNothing
<1>1. Init => BInv /\ CInv /\ TInv
  BY StartOK, StartCounted, StartTexts
<1>2. BInv /\ CInv /\ TInv /\ [Next]_vars => (BInv /\ CInv /\ TInv)'
  BY StepOK, StepCounted, StepTexts
<1> DEFINE HasAll(b, n) ==
             LET edits == sets[at.set].edits
                 texts == {i \in DOMAIN edits : edits[i].item \notin {"comment", "entr"}}
                 olds  == {edits[i].old : i \in texts}
             IN  /\ \A t \in Range(text[b.id]) \ olds : t \in Range(text'[n])
                 /\ \A i \in texts :
                      edits[i].new # NoTxt
                        /\ (\A j \in texts : i < j => edits[j].old # edits[i].new)
                        => edits[i].new \in Range(text'[n])
<1>3. ASSUME BInv, CInv, TInv, NEW b \in batch, NEW n, Adds(b, n), entr'[n].stat = "A"
      PROVE  HasAll(b, n)
  <2> DEFINE start == [list |-> text[b.id], stat |-> b.row.stat, note |-> {}]
             edits == sets[at.set].edits
             texts == {i \in DOMAIN edits : edits[i].item \notin {"comment", "entr"}}
  <2>1. PICK w : w.list = text'[n] /\ DoneRight(start, edits, w, Len(edits))
    BY <1>3, AddsRight, Zenon
  <2>2. texts = {i \in 1 .. Len(edits) : IsText(edits[i])}
    <3>1. DOMAIN edits = 1 .. Len(edits)
      <4>1. sets \in Seq(Directives) /\ at.set \in 1 .. Len(sets)
        BY <1>3, Zenon DEF BInv, ReaderOK, CInv, Counted, Adds, Process
      <4>2. sets[at.set] \in Directives
        BY <4>1
      <4> QED BY <4>2 DEF Directives
    <3> QED BY <3>1, Zenon DEF IsText
  <2>3. start.list = text[b.id]
    OBVIOUS
  <2> HIDE DEF start, edits, texts
  <2>4. /\ \A t \in Range(start.list) :
             t \in Range(w.list) \/ \E j \in texts : edits[j].old = t
        /\ \A j \in texts :
             \/ edits[j].new = NoTxt
             \/ edits[j].new \in Range(w.list)
             \/ \E k \in texts : j < k /\ edits[k].old = edits[j].new
    BY <2>1, <2>2, Zenon DEF DoneRight
  <2>5. /\ \A t \in Range(text[b.id]) \ {edits[i].old : i \in texts} : t \in Range(text'[n])
        /\ \A i \in texts :
             edits[i].new # NoTxt
               /\ (\A j \in texts : i < j => edits[j].old # edits[i].new)
               => edits[i].new \in Range(text'[n])
    BY <2>1, <2>3, <2>4
  <2> QED BY <2>5, Zenon DEF edits, texts
<1>4. BInv /\ CInv /\ TInv /\ [Next]_vars =>
        [\A b \in batch, n \in EntrIds : Adds(b, n) /\ entr'[n].stat = "A" => HasAll(b, n)]_vars
  BY <1>3
<1> QED BY <1>1, <1>2, <1>4, PTL DEF Spec, AllOrNothing
=============================================================================
