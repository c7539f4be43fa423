------------------------------ MODULE BulkEdit ------------------------------
(***************************************************************************)
(* A bulk update (bin/bulkupd.py) from its command file to the edits of    *)
(* entries, while users go on editing.                                     *)
(*                                                                         *)
(* The file is read to its end first.  It names entries, by number in the  *)
(* corpus that is set or by id, and after them edits to make to each; what *)
(* it amounts to is a list of directive sets.  The entries of a set are    *)
(* read together, then changed and submitted one by one, each in a         *)
(* transaction of its own: one step of EditTree here (module EditTxn has   *)
(* the steps that it is made of).                                          *)
(*                                                                         *)
(* An entry is a list of texts (its readings, glosses or tags, which are   *)
(* all edited alike) and a history with comments.  Option --noaction, the  *)
(* pause between entries, and references are left out.                     *)
(***************************************************************************)
EXTENDS EntrTable, SequencesExt

CONSTANTS Corpus, AllowForks,   \* as in EditTree; keys are pairs, ids numbers
          Texts, NoTxt,         \* texts of an entry, and None
          Lines, MaxLines,      \* lines that the file may have, and how many
          Initial, Comment,     \* options --corpus and --comment
          Approvals, Userid      \* what --approve may say, and was -u given?

ASSUME AllowForksIsBoolean == AllowForks \in BOOLEAN
ASSUME CorpusIsLoaded == Corpus \subseteq EntrIds /\ IsFiniteSet(Corpus)
ASSUME IdsAreNumbers == EntrIds \subseteq Nat
ASSUME NumbersAreListed ==
  \A l \in Lines : l.cmd \in {"seq", "id", ""} => l.nums \in Seq(Range(l.nums))
ASSUME OptionsOK == Approvals \subseteq {"none", "yes", "no"} /\ Userid \in BOOLEAN

VARIABLES entr, used,     \* as in EditTree
          approve,        \* args.approve: None, True or False
          text, note,     \* by id: the texts, and the comments of its own record
          file,           \* the lines read so far
          reader,         \* parse_cmdfile(): its variables
          sets,           \* its result
          at,             \* the phase, and the set that is processed
          batch, tally    \* apply(): entries not yet processed, and the counts

vars == <<entr, used, text, note, approve, file, reader, sets, at, batch, tally>>
table == <<entr, used, text, note>>

Trees == INSTANCE EditTree

Init ==
  /\ Trees!Init
  /\ text \in [Corpus -> {<<t>> : t \in Texts}]
  /\ note = [e \in Corpus |-> {}]
  /\ approve \in Approvals
  /\ approve # "none" => Userid     \* "--approve requires --userid"
  /\ file = <<>>
  /\ reader = [cmd |-> "", src |-> Initial, nums |-> <<>>, edits |-> <<>>]
  /\ sets = <<>>
  /\ at = [phase |-> "read", set |-> 1]
  /\ batch = {}
  /\ tally = [done |-> 0, skipped |-> 0, failed |-> 0]

-----------------------------------------------------------------------------
(* parse_cmdfile(). *)

\* A line that starts with a number goes on with the directive before it.
Directive(l) ==
  IF l.cmd # "" THEN l.cmd
  ELSE IF reader.cmd \in {"seq", "id"} THEN reader.cmd ELSE "seq"

\* A mutant of Collected: numbers are kept for the edits that follow later.
CollectedWithNumbers(r) ==
  IF r.edits = <<>> THEN [list |-> sets, nums |-> r.nums]
  ELSE [list |-> Append(sets, [nums |-> r.nums, src |-> r.src, edits |-> r.edits]),
        nums |-> r.nums]

\* The edits that were collected end with the next line that is none.
Collected(r) ==
  IF r.edits = <<>> THEN [list |-> sets, nums |-> r.nums]
  ELSE [list |-> Append(sets, [nums |-> r.nums, src |-> r.src, edits |-> r.edits]),
        nums |-> <<>>]

ReadEdit(l) ==
  /\ l.cmd = "edit"
  /\ reader' = [reader EXCEPT !.cmd = "edit", !.edits = Append(@, l.edit)]
  /\ UNCHANGED sets

ReadCorpus(l) ==
  /\ l.cmd = "corpus"
  /\ sets' = Collected(reader).list
  /\ reader' = [cmd |-> "corpus", src |-> l.src, edits |-> <<>>,
                nums |-> Collected(reader).nums]

ReadNumbers(l) ==
  /\ Directive(l) \in {"seq", "id"}
  /\ sets' = Collected(reader).list
  /\ reader' = [reader EXCEPT !.cmd = Directive(l), !.edits = <<>>,
                  !.nums = Collected(reader).nums
                             \o [i \in DOMAIN l.nums |-> <<Directive(l), l.nums[i]>>]]

ReadLine(l) ==
  /\ at.phase = "read" /\ Len(file) < MaxLines
  /\ file' = Append(file, l)
  /\ ReadEdit(l) \/ ReadCorpus(l) \/ ReadNumbers(l)
  /\ UNCHANGED <<table, approve, at, batch, tally>>

\* A line that cannot be read: the program reads on, and does nothing.
BadLine ==
  /\ at.phase = "read"
  /\ at' = [at EXCEPT !.phase = "done"]
  /\ UNCHANGED <<table, approve, file, reader, sets, batch, tally>>

EndOfFile ==
  /\ at.phase = "read"
  /\ sets' = Collected(reader).list
  /\ at' = [at EXCEPT !.phase = "next"]
  /\ UNCHANGED <<table, approve, file, reader, batch, tally>>

-----------------------------------------------------------------------------
(* apply(), for each set. *)

Named(set, typ) == {p[2] : p \in {q \in Range(set.nums) : q[1] = typ}}

\* getentries_by_seq(): published entries, and deletions that are pending.
BySeq(set) ==
  {e \in DOMAIN entr :
     /\ \E n \in Named(set, "seq") : entr[e].key = <<set.src, n>>
     /\ <<entr[e].stat, entr[e].unap>> \in {<<"A", FALSE>>, <<"D", TRUE>>}}

ById(set) == DOMAIN entr \cap Named(set, "id")

\* A mutant of TooMany: the check left out.
NeverTooMany(set) == FALSE

\* "More entries received than requested": the program stops.
TooMany(set) ==
  Cardinality(BySeq(set)) > Cardinality({i \in DOMAIN set.nums : set.nums[i][1] = "seq"})

GetEntries ==
  /\ at.phase = "next" /\ at.set <= Len(sets)
  /\ LET set   == sets[at.set]
         found == {[id |-> e, by |-> "seq", row |-> entr[e]] : e \in BySeq(set)}
                    \cup {[id |-> e, by |-> "id", row |-> entr[e]] : e \in ById(set)}
     IN  IF TooMany(set)
         THEN at' = [at EXCEPT !.phase = "stopped"] /\ UNCHANGED <<batch, tally>>
         ELSE /\ at' = [at EXCEPT !.phase = "apply"]
              /\ batch' = found
              /\ tally' = [tally EXCEPT !.skipped = @ + Len(set.nums) - Cardinality(found)]
  /\ UNCHANGED <<table, approve, file, reader, sets>>

\* A mutant of Edited: an item that is not found is passed over.
EditedAnyway(list, old, new) ==
  LET i == SelectInSeq(list, LAMBDA t : t = old)
  IN  IF old = NoTxt THEN Append(list, new)
      ELSE IF i = 0 THEN list
      ELSE IF new = NoTxt THEN RemoveAt(list, i) ELSE ReplaceAt(list, i, new)

\* edit(): add, delete or replace; NoTxt when the old text is not there.
Edited(list, old, new) ==
  LET i == SelectInSeq(list, LAMBDA t : t = old)
  IN  IF old = NoTxt THEN Append(list, new)
      ELSE IF i = 0 THEN NoTxt
      ELSE IF new = NoTxt THEN RemoveAt(list, i) ELSE ReplaceAt(list, i, new)

\* doedit().  It starts a history record of its own, with the default comment.
DoEdit(w, e) ==
  CASE e.item = "comment" -> [w EXCEPT !.note = {e.new}]
    [] e.item = "entr" -> [w EXCEPT !.stat = "D", !.note = {Comment}]
    [] OTHER -> [w EXCEPT !.list = Edited(@, e.old, e.new), !.note = {Comment}]

\* The edits in turn, as long as none fails.
DoEdits(start, edits) ==
  LET done[i \in 0 .. Len(edits)] ==
        IF i = 0 THEN start
        ELSE IF done[i - 1].list = NoTxt THEN done[i - 1]
        ELSE DoEdit(done[i - 1], edits[i])
  IN  done[Len(edits)]

\* submit(): without the option, an entry stays as approved as it was.
Disposition(row) ==
  CASE approve = "none" -> IF row.unap \/ ~Userid THEN "" ELSE "a"
    [] approve = "yes" -> "a"
    [] approve = "no" -> ""

CallFor(b, stat) ==
  [disp |-> Disposition(b.row), dfrm |-> b.id, stat |-> stat, key |-> b.row.key,
   forks |-> TRUE]

\* A submission that adds row n.  A deletion keeps the texts of its parent.
Added(c, n, list, comments) ==
  /\ Trees!Submit(c, n) \/ Trees!Approve(c, n)
  /\ text' = [e \in used' |-> IF e # n THEN text[e]
                              ELSE IF c.stat = "D" THEN text[c.dfrm] ELSE list]
  /\ note' = [e \in used' |-> IF e = n THEN comments ELSE note[e]]

Accepts(c) ==
  /\ c.disp = "" => SubmitOK(entr, c)
  /\ c.disp = "a" => /\ ApproveOK(entr, c)
                     /\ Fits(WithoutTree(entr, c.dfrm), ApprovedRow(entr, c))

\* A counter goes up; the next set begins when this one is done.
Count(b, counter) ==
  /\ batch' = batch \ {b}
  /\ tally' = [tally EXCEPT ![counter] = @ + 1]
  /\ UNCHANGED <<approve, file, reader, sets, at>>

NextId == CHOOSE n \in EntrIds \ used : \A k \in EntrIds \ used : n <= k

Process(b) ==
  /\ at.phase = "apply"
  /\ LET w == DoEdits([list |-> text[b.id], stat |-> b.row.stat, note |-> {}],
                      sets[at.set].edits)
         c == CallFor(b, w.stat)
     IN  \/ w.list = NoTxt /\ Count(b, "skipped") /\ UNCHANGED table
         \/ w.list # NoTxt /\ ~Accepts(c) /\ Count(b, "failed") /\ UNCHANGED table
         \/ /\ w.list # NoTxt /\ Accepts(c) /\ used # EntrIds
            /\ Count(b, "done")
            /\ Added(c, NextId, w.list, w.note)

EndOfSet ==
  /\ at.phase = "apply" /\ batch = {}
  /\ at' = [phase |-> "next", set |-> at.set + 1]
  /\ UNCHANGED <<table, approve, file, reader, sets, batch, tally>>

Finish ==
  /\ at.phase = "next" /\ at.set > Len(sets)
  /\ at' = [at EXCEPT !.phase = "done"]
  /\ UNCHANGED <<table, approve, file, reader, sets, batch, tally>>

-----------------------------------------------------------------------------
\* Users edit entries and propose deletions, with the comments they like.
UserEdits(c, n) ==
  /\ c.dfrm # NoEntr /\ c.dfrm \in DOMAIN entr /\ c.key = entr[c.dfrm].key
  /\ \E t \in Texts : Added(c, n, <<t>>, {})
  /\ UNCHANGED <<approve, file, reader, sets, at, batch, tally>>

UserCalls == [disp : {"", "a"}, dfrm : DOMAIN entr, stat : {"A", "D"},
              key : Keys, forks : {FALSE, AllowForks}]

Next ==
  \/ \E l \in Lines : ReadLine(l)
  \/ BadLine
  \/ EndOfFile
  \/ GetEntries
  \/ \E b \in batch : Process(b)
  \/ EndOfSet
  \/ Finish
  \/ at.phase \in {"next", "apply"} /\ used # EntrIds
       /\ \E c \in UserCalls : UserEdits(c, NextId)

Spec == Init /\ [][Next]_vars

-----------------------------------------------------------------------------
(* What the file says, line by line (the help text of bulkupd.py). *)

IsEdit(i) == file[i].cmd = "edit"

\* Where the directives begin to which line i belongs.
RunStart(i) == CHOOSE j \in 1 .. i : /\ \A k \in j .. i : IsEdit(k)
                                     /\ j > 1 => ~IsEdit(j - 1)

\* The lines before them, back to the directives of the set before.
Block(start) == {k \in 1 .. start - 1 : \A q \in k .. start - 1 : ~IsEdit(q)}

CorpusAt(i) ==
  LET told == {k \in 1 .. i : file[k].cmd = "corpus"}
  IN  IF told = {} THEN Initial ELSE file[CHOOSE k \in told : \A q \in told : q <= k].src

\* "The directives following will apply to these entries": each directive is
\* in one set, with the numbers before it, those and no others, which are
\* looked for in the corpus that was set when they were given.  (A corpus
\* that is set between numbers and directives changes what the numbers mean.)
ReadRight ==
  at.phase \in {"next", "apply"} =>
    \A i \in DOMAIN file : IsEdit(i) =>
      LET start == RunStart(i)
          m     == Cardinality({RunStart(j) : j \in {k \in 1 .. i : IsEdit(k)}})
          given == {k \in Block(start) : file[k].cmd # "corpus"}
      IN  /\ m \in DOMAIN sets
          /\ sets[m].edits[i - start + 1] = file[i].edit
          /\ {p[2] : p \in Range(sets[m].nums)} = UNION {Range(file[k].nums) : k \in given}
          /\ \A k \in given :
               /\ file[k].cmd # "" =>
                    \A n \in Range(file[k].nums) : <<file[k].cmd, n>> \in Range(sets[m].nums)
               /\ (\A q \in k + 1 .. start : file[q].cmd # "corpus")
                    => sets[m].src = CorpusAt(k)

\* How many entries the first i sets name.
NamedUpTo[i \in 0 .. Len(sets)] ==
  IF i = 0 THEN 0 ELSE NamedUpTo[i - 1] + Len(sets[i].nums)

\* Every entry that a file names is updated, skipped or failed, and counted
\* once, although users delete, approve and propose deletions meanwhile.
Accounted ==
  /\ tally.skipped >= 0
  /\ at.phase = "done" /\ at.set > Len(sets) =>
       tally.done + tally.skipped + tally.failed = NamedUpTo[Len(sets)]

\* The row that the program has just added, if it has.
Adds(b, n) == Process(b) /\ n \in DOMAIN entr' \ DOMAIN entr

\* "An error will be generated and no changes made to the current entry" when
\* an item is not found: an entry that is updated has been given all that the
\* directives give it, and has kept what none of them names.
AllOrNothing ==
  [][\A b \in batch, n \in EntrIds : Adds(b, n) /\ entr'[n].stat = "A" =>
       LET edits == sets[at.set].edits
           texts == {i \in DOMAIN edits : edits[i].item \notin {"comment", "entr"}}
           olds  == {edits[i].old : i \in texts}
       IN  /\ \A t \in Range(text[b.id]) \ olds : t \in Range(text'[n])
           /\ \A i \in texts :
                edits[i].new # NoTxt /\ (\A j \in texts : i < j => edits[j].old # edits[i].new)
                  => edits[i].new \in Range(text'[n])]_vars
=============================================================================
