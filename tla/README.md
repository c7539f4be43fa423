# JMdictDB: a TLA+ model

JMdictDB keeps a Japanese dictionary in a PostgreSQL database and lets many
people edit it on the web.  An edit never changes a row of table `entr`: it adds
a new row that points, by `dfrm`, to the row it was made from.  An editor then
approves one of the pending edits (it replaces the whole tree it belongs to) or
rejects one (its branch of the tree is replaced by a rejected entry).  Around
that are the web pages, on which an entry travels as text, cross-references
between entries, programs that load, update, resolve, export and clean up in
bulk, searches and sessions.  This directory holds specifications of these
parts, model-checked with TLC, and theorems about most of them proved with
TLAPS.

## 1. Inventory

| Component | State | Operations | Modelled |
|---|---|---|---|
| Entry table and edit trees (`src/db/mktables.sql`, `entrobjs.sql`) | tables `entr`, `hist`; foreign key of `dfrm` with ON DELETE CASCADE; partial unique index on (src, seq); views `edbase`, `edpath`, `edpaths` | insert, delete with cascade, read the paths of a tree | `EntrTable` |
| Submission (`src/jmdictdb/submit.py`) | none of its own | `submission`, `submit`, `approve`, `reject`, `get_edpaths`, `get_leafs`, `get_segment`, `approve_ok` | `EntrTable`, `EditTree` |
| Transactions of submissions (`views/submit.py`, `bin/bulkupd.py`) | open transactions | begin and check, write and commit, roll back | `EditTxn` |
| Web editing (`views/edform.py`, `edconf.py`, `submit.py`) | pages in the users' browsers | open a form, change it, [Next] with checks and warnings, back, [Submit], leave | `WebEdit`; what becomes of the text, `FormText`; the checks, `Export`, `Pages` |
| Cross-references (`jdb.py`) | tables `xref`, `xresolv` | resolve, show by number, read and realign reverse references, write with the entry | `WebEdit` as pairs of rows, `FormText` and `Xresolv` with texts and senses |
| Restrictions and frequencies (`restr.py`, `fmt.py`, `jdb.copy_freqs`) | pairs that are not allowed | to and from texts; put back from the parent | `FormText` |
| Reading and writing entries (`jdb.py`) | none | `entrList`, `addentr`, `setkeys`, `add_hist` | `EntrTable`, `FormText`; table by table in `Export` |
| Bulk update (`bin/bulkupd.py`) | the command file, counts, its transaction | read the file, find entries, edit and submit each | `BulkEdit`; the transaction in `EditTxn` |
| Reaper (`bin/dbreaper.py`) | a list of ids | find old deleted and rejected entries, log, delete | `EditTree`, `EditTxn` |
| Bulk loading and sequence numbers (`pgload.py`, `import.sql`, `imptabs.sql`, `syncseq.sql`, `entr_seqdef()`) | import tables, sequences | load, renumber, link edits, set sequences | `BulkLoad`; what it leaves behind is also `Init` of `EditTree` |
| Bulk resolution of references (`bin/xresolv.py`) | a batch | choose a target, write, commit | `Xresolv` |
| XML export (`bin/entrs2xml.py`, `fmtxml.py`) | what has been read, the file | choose corpora and format; find a block, read it, write it | `Export`, `XmlText` |
| XML import (`jmxml.py`, `bin/jmparse.py`, `pgi.py`) and extraction (`tools/jmextract.py`) | none | tell the format, read entries, cut out entries, write the rows of all tables | `XmlText`, `XmlFile` |
| Text of the edit form, JEL (`fmtjel.py`, `jellex.py`, `jelparse.py`) and Edict2 (`edict2.xsl`, `edparse.py`) | none | write and read | `Jel`, `Edict` |
| View pages (`views/entr.py`, `updates.py`, `jmcgi.py`) | none | choose, order and show entries | `Pages` |
| Database checks (`bin/dbcheck.py`) | none | find what is wrong | `DbCheck` |
| Search (`srch.py`, `views/srchres.py`, `jdb.py`) | a search, page by page | form to conditions to SQL; pages | `Search` |
| Sessions and users (`jmcgi.py`, `views/userupd.py`, `mksess.sql`) | tables `sessions`, `users` | log in, visit, expire, log out; make, rename, disable and remove accounts | `Sessions` |
| Flask, CGI, configuration, audio, conjugation, labels, schema updates | | | not modelled: see section 6 |

How they interact.  The web pages, `bulkupd.py` and `dbreaper.py` share nothing
but the database.  A page carries the entry it is about as text
(`serialize.py`); what it says was true when the page was made.  `submission()`
reads the edit tree, checks, and writes, in the caller's transaction:
SERIALIZABLE for the web, the server's default for the scripts.  The database
enforces foreign keys and one index, and removes rows by cascade.

What is hard.

  * Two transactions check one tree and both write to it (`submit.py:238`).
  * A script deletes what it found in an earlier statement (`dbreaper.py:86`,
    `bulkupd.py:450`).
  * A page is older than the table: the parent has been edited, approved,
    rejected or forked in the meantime (`submit.py:283`, `edconf.py:33`).
  * Rows are removed by cascade, so one wrong id removes another user's edit
    (`submit.py:508`, `submit.py:574`).
  * The history of an edit is copied from its parent, edit after edit, and must
    survive the removal of the rows it tells of (`jdb.py:1042`).
  * The same checks are written twice, for [Next] and for [Submit], on top of
    different functions (`edconf.py:48`, `submit.py:283`).
  * Reverse references are copied into a page and written back later
    (`edconf.py:222`).
  * An entry is text in a form, and rows with numbers in the database: what is
    restricted to what, which reading has which frequency and where a reference
    leads must survive the way there and back, from forms that may be old
    (`restr.py:68`, `submit.py:334`, `edconf.py:306`, `jdb.py:760`).
  * What a word in brackets or parentheses means is found out by trial
    (`jelparse.py:540`, `edparse.py:322`).
  * Programs read in one statement and write, or read more, in others: an
    export over many blocks (`entrs2xml.py:107`, `jdb.py:646`), the resolution
    of references (`xresolv.py:108`), a search over many pages
    (`srch.py:389`), a visit to a session (`jmcgi.py:274`).
  * One of several directives of a bulk update fails (`bulkupd.py:82`).
  * A load finds the parents of edits again by a column that rows of earlier
    loads have too (`import.sql:89`), and reads the highest id in one statement
    and uses it in later ones (`import.sql:64`).
  * A file is read by programs that go by its order: groups before the entries in
    them (`jmxml.py:167`), numbers that ascend (`jmxml.py:892`), tables before
    those that refer to them (`pgi.py:18`).

What makes each component correct.

  * Entry table: each row in one tree, no dangling or rejected parent, one
    published version of an entry.
  * Submission: no history lost, a published entry goes only when it is
    superseded, every pending edit can be rejected and takes no other branch
    with it.
  * Transactions: concurrent requests have the effect of calls made one after
    the other.
  * Web editing: [Next] reports what [Submit] would refuse; nobody's edits are
    overwritten without a warning.
  * Cross-references: approvals keep the references between published entries.
  * Bulk loading: a load changes no row that was there and keeps the edit trees
    of the file; no id and, once the sequences are synchronised, no number is
    given to two entries.
  * Bulk resolution: a reference goes only if one is written in its place, and
    all that can be resolved is, in the end.
  * Forms and formats: what is not changed reads back as it was.
  * Export: an entry that is there all the time is written whole, and once; and
    what is loaded from the file elsewhere is what was written.
  * Pages and checks: two pages never contradict each other, and nothing that
    users do through the form is reported by the database checks.
  * Search: exactly what meets the form's criteria is found; pages skip nothing.
  * Sessions: they stay one account's, last as long as they are used, and end.

The full list of hazards, each with its line and the properties that would
catch it, is `hazards` in `PROJECT.json`.

## 2. Modules

| Module | What it is |
|---|---|
| `EntrTable` | operators on tables: edit trees, the checks and the results of `submission()` |
| `EditTree` | **abstract specification**: one committed call of `submission()` or one run of the reaper is one step |
| `EditTxn` | **detailed specification**: the same calls as transactions; implements `EditTree` |
| `WebEdit` | the users' pages on top of the steps of `EditTree`, with cross-references |
| `FormText` | the entry on the way from the database through a form and back |
| `BulkEdit` | `bulkupd.py` on top of the steps of `EditTree` |
| `Xresolv` | `xresolv.py` on top of the steps of `EditTree`; the one with fairness |
| `BulkLoad` | corpora, their sequences, and the loading of files; takes `EntrTable` by INSTANCE with numbers for ids |
| `XmlText`, `Edict`, `Jel` | operators: what is written of an entry in each format, and what is read |
| `XmlFile` | operators: options of an export, the lines and items of a file, and what `sniff()`, `extract()`, `jmparse.py` and the load make of it |
| `Export` | `entrs2xml.py` on top of the steps of `EditTree`, with entries of `XmlText` and files of `XmlFile` |
| `DbCheck` | operators: the checks of `dbcheck.py` |
| `Pages` | what the site shows of the entries of `Export`: pages, texts on demand, warnings |
| `Search` | forms, conditions, joins and pages of a search |
| `Sessions` | logins, visits and accounts, statement by statement |
| `Listing` | operators: what ORDER BY makes of a set of rows, and a condition of a list |
| `EditTree_proofs`, `EditTxn_proofs`, `WebEdit_proofs`, `Xresolv_proofs` | theorems about these modules; the first begins with lemmas about the tree operators of `EntrTable`, and the others, and `Lists_proofs`, take it by INSTANCE |
| `BulkEdit_proofs`, `BulkLoad_proofs` | theorems about these modules |
| `Lists_proofs` | theorems about `Search`, `Export` and `Pages`: lists of entries that are read page by page or block by block, or put in order |
| `Users_proofs` | theorems about `Sessions` and `FormText`: what users do from their own browsers |
| `MC*` | values for constants, and the symmetries that TLC uses; the `.cfg` files |

`EditTxn`, `WebEdit`, `BulkEdit`, `Xresolv` and `Export` take `EditTree` by
INSTANCE: the first to be compared with it, the others to use its actions.

### How the state corresponds to the code

  * `entr` is table `entr` as a function from ids to rows.  Of the columns,
    `key` is the pair (src, seq), `stat`, `dfrm` and `unap` are themselves, and
    `hist` is the list of rows of table `hist`.  Readings, kanji and senses are
    data that the control does not look at.
  * A history record is represented by the id of the entry it was written with:
    `setkeys()` gives the last record (the new one) the new entry's id, and
    copies the earlier ones, so a record can be told from every other one.
  * `used` is what `entr_id_seq` has handed out.  A sequence never hands out an
    id twice, and which one is next does not matter: ids are only compared for
    equality.  That an aborted call uses up a value is not modelled: an id that
    nobody got is never looked at.
  * `Descendants(T, e)` is what view `edpaths` computes from `dfrm` with a
    recursive query, here as the least set with e that is closed under edits.
    `Root` is `edbase`.  `Leaves`, `Segment`, `RejectSet`, `IsOnlyLeaf` are
    `get_leafs()`, `get_segment()`, the loop at the start of `reject()`, and
    `approve_ok()`.
  * `MayEdit` holds the early returns of `submission()`, one conjunct each;
    `SubmitOK`, `ApproveOK`, `RejectOK` add those of `submit()`, `approve()`
    and `reject()`.  `Submitted`, `Approved`, `Rejected` are the tables these
    leave, deletions included.  A call that is refused changes nothing and is
    a stuttering step.
  * In `EditTxn`, `Begin` is the part of a call up to its first write and
    `CommitRequest`/`CommitJob` the rest.  A request keeps what it read
    (`del`, `gone`, `tree`, `row`), since its snapshot is fixed; a job executes
    its DELETE on the table as it is then.
  * In `WebEdit`, `page[u]` is the page on u's screen.  `NextNew` and `NextEdit`
    are `edconf.view()`, with the fast-forward to the end of the edits made
    meanwhile (`Parent`), the errors that keep the user from the page
    (`MayConfirm`) and the edits shown in red (`Flagged`).  `Submit` is one step
    of `EditTree` and writes the cross-references of the page.

  * In `BulkLoad`, ids and numbers are naturals, since the scripts add and compare
    them.  `entr` has the columns that the scripts set; all rows are active.
    `BeginLoad` is `pgload.py` up to the point where `import.sql` has read the
    highest id, `CommitLoad` the rest of the script; users enter entries in
    between.  `Relinked` is the UPDATE that sets `dfrm`: where it joins several
    parents, PostgreSQL takes any of them, and so does the model.  `seqs` holds the
    next value of each sequence.  `synced` is no state of the program: it is TRUE
    from a run of `syncseq.sql` to the next load, typed number or change of a
    corpus' sequence, and the second half of `NumbersAhead` is about that time.
  * In `FormText`, `xref` and the pairs in `restr`, `stagk`, `stagr` are rows with
    numbers, as in the database; `page[u].form` has texts.  `Confirm` is
    `edconf.view()`, with `realign_xrers()`, `copy_freqs()` and the resolution of
    the references, `Submit` is `addentr()`.
  * In `BulkEdit`, `reader` holds the variables of `parse_cmdfile()`, `sets` its
    result; `Process` is one entry in `apply()`, from the directives to the call
    of `submission()` and its outcome.
  * In `Xresolv`, `Read` is the batch that is read and chosen from, `Write` and
    `Fail` are COPY, DELETE and COMMIT, with the foreign keys as `CopyFits`.
  * In `Sessions`, `req[r].at` is the statement that request r comes to next.
  * In `XmlText`, `Edict` and `Jel` a text is the sequence of the fragments between
    its middle dots, and a fragment is a value that has kanji in it, is Latin, is
    a number, or none of it (constants `Kanji`, `Latin`, `Number`), since that is
    what the readers look at.  XML is a record per element, a line of Edict2 a
    record of lists of words in parentheses, a tag list of JEL a sequence of names
    with values.  `EntryElem`/`DoEntr`, `EdictLine`/`EdictEntr` and
    `JelText`/`JelEntr` are the writers and readers.
  * In `XmlFile`, a file is a sequence of items for those that parse it
    (`ParseFile`) and a sequence of lines, tags with what is looked at in them, for
    those that do not (`Sniff`, `Extract`).  `JmParse` is the file of rows, table by
    table, each row with its key, its value and the keys of the rows it refers to;
    `Imported` puts an entry together again from the rows.
  * In `Export`, `exp` is the program: where it is, the ids of the block in the
    temporary table and what it has read of each table.  `doc` and `xref` are what
    the entries say.  A submission that comes through the form must pass
    `NoErrors` (`check_for_errors()`); one that is sent past it only what the unique
    indexes ask for (`Enterable`).
  * `Pages` and `DbCheck` have no actions: a page and a check are functions of the
    database, and their properties are invariants of `Export`.
  * In `Search`, `So2Conds` makes conditions of a form and `FoundBy` is the statement
    with its joins; `at` is the user with the form and the pages seen.

PostgreSQL is outside this repository.  `Conflicts`, `AfterCommit`,
`NotOverrun` and `Rollback` state what the code relies on: two serializable
transactions on one edit tree cannot both commit if they overlap; a serializable
transaction may be rolled back at any time; constraints are checked against what
has been committed.

## 3. Runs

One run assumes fairness: `xresolv` has
`WF_vars(Read \/ Write \/ Fail)`, that is, whoever runs `xresolv.py` lets it go
on to its end and runs it again and again.  The target `postload` of `src/Makefile-db` does so, and says that "running these
multiple times is innocuous" (lines 160-171).  Nothing is assumed of users, who
may stop at any time; `AllGetResolved` says that once they do, all that can be
resolved is.  Elsewhere no liveness is claimed: whether an edit is ever approved
is up to people.  What replaces it is `PendingCanBeRejected`, a statement about
every reachable state: whoever wants to end a pending edit can.  Deadlock is
checked in the runs of `EditTxn`, where a request can always begin or roll back,
and in `search`; elsewhere ids, lines or time run out, which is the bound and not
the system.

| Run | Instance | What it shows |
|---|---|---|
| `edit_tree` | 1 loaded entry, 5 further ids, 2 sequence numbers, forks | `TypeOK`, `LinksOK`, `OneActive`, `HistoryChain` (with `Rooted` the inductive invariant), `PendingCanBeRejected`, and that histories and published entries are never lost (`HistoryKept`, `PublishedSuperseded`) |
| `edit_txn` | 2 requests at once, 3 new rows, forks | every commit is a step of `EditTree` (`ImplementsEditTree`), and no committed edit's record disappears (`EditsKept`) |
| `offline` | a request, a bulk update and a reaper at once | the constraints of the table keep the *shape* of the trees even without isolation (`ShapeKept`: `LinksOK`, `Rooted`, `OneActive`) |
| `web_edit` | 2 users, 3 new rows, forks, deletions | [Next] checks what [Submit] checks (`NextForesees`), and nobody overwrites an edit that was not flagged (`OverwritesFlagged`) |
| `xrefs` | 1 user, 1 loaded entry, 5 new rows, 2 numbers, references both ways | new entries are entered and referred to, and references between published entries survive approvals in any order (`XrefsKept`) |
| `form_text` | 2 users, one of them an editor, 2 numbers with 2 kanji, 2 readings, 2 senses, 4 entries in all, 1 change per form | pairs that are allowed stay allowed (`PairsKept`), references show what was meant whichever end is edited (`ShownRight`), only editors change frequencies (`FreqKept`), and references of an unchanged sense come back (`RefsReturn`) |
| `bulk_edit` | 2 corpora, 2 loaded entries, command files of up to 4 lines out of 9, `--approve` yes, no or not given, users who edit | each directive goes to the entries that the file names (`ReadRight`), an entry is changed as a whole or not at all (`AllOrNothing`), and each is counted once (`Accounted`) |
| `xresolv` | 2 loaded entries, 2 new rows, references by reading, by kanji and by both | no reference is lost (`UnresolvedKept`), what is written is right although the table has changed since it was read (`WrittenRight`), sure matches are taken and unsure ones left (`ClearChosen`), and all get resolved in the end (`AllGetResolved`) |
| `bulk_load` | 2 corpora, 2 sequences, 2 files, 5 ids, 3 numbers | sequences exist exactly while a corpus uses them (`SequencesMatch`), no id or number is given twice (`NumbersAhead`), loads keep to their rows (`LoadsApart`), as long as files do not share `idx` values |
| `export` | 2 loads of 2 entries, 2 edits, 8 sets of options | what is there all the time is written whole, of a corpus or of a list of numbers, and nothing of a corpus twice (`Complete`); the file that is left, whenever the program ends, is told for what it is, read from any number on, cut up and loaded into another database as what was written, with every edit under its parent (`FileReturns`), and references lead to what they led to (`RefsReturn`); entries read back from Edict2 (`EdictReadsBack`) and from the form (`JelReadsBack`); pages agree with each other (`PagesAgree`, `PagesInOrder`); the database checks report what was loaded so or sent past the form, and the form's warnings agree (`ChecksPass`) |
| `search` | up to 4 entries of 4 kinds, 18 forms, pages of 2 | `FoundRight`: the conditions and joins made of a form find what the help of the form says, by a definition that knows no SQL; `PagesOnce` |
| `sessions` | 2 names, 3 session ids, 2 requests at once, clock to 3, 3 accounts | a session stays its account's (`AccountKept`), ends early only by a logout of its user or with the account (`KeptWhileFresh`), never comes back (`GoneForGood`) |

Bounds.  Every bound is a constant: `EntrIds` (rows ever written), `Keys`,
`Requests`, `Jobs`, `Reapers`, `Users`, `Wanted`, `Refs`, and in `BulkLoad`
`MaxId`, `MaxNum`, `Corpora`, `SeqNames`, `Files`.  Nothing else is bounded.
Six ids make a tree with a fork above and a fork below one of its edits and
leave one id for the approval or rejection that takes it apart, or a chain of
five edits; the functions on trees distinguish no more than "on this path", "on
another path too" and "the root".  Two keys allow an edit that moves to another
entry's number, which is what the index is about.  Two requests suffice for
conflicts, which are between pairs; four ids let both write and a third
transaction see what they wrote.  One key is enough in `edit_txn`: races are
between edits of one tree, and the race for a key is in `offline`.  In `xrefs`,
five new rows let a new entry be entered, refer to the old one, be referred to
by it, and each be edited again.  In `bulk_load`, one file has an edit that
comes before its parent and ids other than its places, the other has no ids;
five ids hold both files, or one of them twice, with entries of users before,
between and after; two corpora and two sequences can share one or not.

In `form_text`, number 1 has either a reading for one kanji and one for none, or
senses for one kanji or reading, and refers to both senses of number 2; a form is
opened while rows are left, and one change (a text or sense moved, taken out or
added, in either part) is enough for numbers to shift, while the other user's
form is old.  In `bulk_edit`, four lines hold two numbers and two directives, two
sets, or a corpus between them; the nine lines name an entry by number or id in
either corpus, change, add or take away a text that is there or not, comment, and
delete.  In `xresolv`, a reading is had by two words of which one lacks the sense
that is asked for, and a kanji by words that appear one after the other; one of
them has a reading for no kanji, which a reference by both texts must not take;
ids are
numbers, since candidates are taken by id, so there is no symmetry.  In `export`,
one of the loaded entries is referred to by the other, in another corpus, two edits
replace or delete entries at any moment, and the options are the three formats,
named or chosen by the corpora, blocks of one and two, a first number, a count, a
list of numbers in the wrong order with a bad line, and three sets that are refused.
Files of up to four entries come of it, some of two rows with one number.  They are
read from either number on, one entry or all, and every one or two entries are cut
out of them, alone or with the next.
The entries have every kind of restriction, tags that a DTD lacks or renames,
frequencies of one and two digits, glosses of every kind, a reference to one, to
all and to no sense, and references that are open; both directions of a reference
are reached, as are checks 17, 19 and 20.  In `search`, each form is about
another criterion or a pair that share a table, and entries of the same number
differ in it; one entry has a kanji of a digit, a kana and a letter, which a form asks
for by the first two with the table left open, and another by the letter in the other
case.  In `sessions`,
two names let an account be renamed to a name that was another's, three ids let a
user have a session beside the one that is visited while another user has one, and
the clock passes the time after which a session expires.

Symmetry is taken over ids that are not loaded, keys, users, requests, names and
session ids where all are only compared for equality.  No run with a symmetry set
has a liveness property.

What the properties except.  `Complete` is about exports without `--count`; that
nothing is written twice it says of exports without a list, since a list may name
a number twice; and that nothing is left out it says of lists all numbers of which
have an entry (the export stops at the first block without one), and one each, as
in the public formats in corpora without common numbers (a block has only as many
rows as numbers).  `FileReturns` excepts the groups of an entry,
which `import.sql` does not copy (they are compared as `jmparse.py` reads them),
cuts entries out of the public formats only, and reads the whole file (`-f`)
where its numbers do not ascend.  `RefsReturn` is about targets whose texts can
be told apart (`AllClear`), `EdictReadsBack` and `JelReadsBack` about entries
that the format can tell (`Fits2`, `FitsJel`, each conjunct of which names a
limit of the code).  `ChecksPass` says of the checks for missing readings, senses,
glosses (7 to 10) and parts of speech (11) that they report only what was sent past
the form, which `submission()` does not check (`edconf.py:377-379`), and of the last
also what was loaded so.  It leaves out check 17 (nothing stops a reference to a row of
the same number), and excepts 19 and 20 for pending edits of a deleted entry.
`PagesInOrder` says of the days of the index that they lead to all records but those
of bulk updates and those without notes (`Quiet`), which the day pages hide.
`FoundRight` is about texts that LIKE reads as they stand (`TextsAreLiteral`); it
excepts texts that are mixed (`IsMixed`: kana with other characters but no kanji, or
neither kanji nor kana but not all Latin), when the table is left to the program, and
texts with letters that are looked for in kanji or readings (`IsCased`).  Of these
the help says what the code does not do (section 5); TLC finds `FoundRight` violated
without either exception, by forms of the run.  `KeptWhileFresh` allows a logout at another machine of the same user,
since `dblogout()` ends all sessions of the user.

## 4. Proofs

Every theorem is checked by TLAPS for all values of the constants that satisfy
the assumptions named here.  `NoEntrIsNoId` (SQL NULL is no id),
`AllowForksIsBoolean` and `CorpusIsLoaded` (what is loaded is a finite set of ids)
are assumed wherever there are edit trees.  The inductive invariants were
checked by TLC before they were proved, or are made of parts that a run checks.

| Module | Theorem | States | If |
|---|---|---|---|
| `EditTree_proofs` | `Typing` | `[]TypeOK` | |
| | `Links`, `Roots`, `Published`, `Histories` | `[]LinksOK`, `[]Rooted`, `[]OneActive`, `[]HistoryChain` | |
| | `Invariance` | `[]IInv` | |
| | `NoHistoryLost`, `PublishedStays` | `HistoryKept`, `PublishedSuperseded` | |
| | `PendingEnds` | `[]PendingCanBeRejected` | |
| `EditTxn_proofs` | `ShapeSurvives` | `[]ShapeKept` | |
| | `Serializable` | `ImplementsEditTree` | no jobs, no reapers |
| | `NoEditLost` | `[]EditsKept` | no jobs, no reapers |
| `WebEdit_proofs` | `ChecksForeseen` | `[]NextForesees` | |
| | `OverwritesAreFlagged` | `OverwritesFlagged` | |
| `Xresolv_proofs` | `WrittenAsChosen` | `WrittenRight` | |
| | `ChosenClearly` | `ClearChosen` | |
| | `NoneIsLost` | `UnresolvedKept` | without option -i |
| `BulkEdit_proofs` | `FilesAreReadRight` | `[]ReadRight` | |
| | `EntriesAreAccounted` | `[]Accounted` | |
| | `AllOrNothingIsDone` | `AllOrNothing` | |
| `BulkLoad_proofs` | `SequencesAreThoseInUse` | `[]SequencesMatch` | corpora move to sequences that exist |
| | `NumbersStayAhead` | `[]NumbersAhead` | |
| | `LoadsKeepApart` | `LoadsApart` | files share no ids with other rows, and their edits have ids |
| `Lists_proofs` | `SearchFindsWhatIsAsked` | `[]FoundRight` | texts are literal for LIKE |
| | `PagesShowAllOnce` | `[]PagesOnce` | no pages of one entry |
| | `ExportIsComplete` | `[]Complete` | |
| | `PagesAreInOrder`, `PagesDoAgree` | `[]PagesInOrder`, `[]PagesAgree` | |
| | `ChecksDoPass` | `[]ChecksPass` | what is loaded passes checks 7 to 10, and references pass 18 |
| `Users_proofs` | `AccountsKeepSessions`, `FreshSessionsStay`, `SessionsStayGone` | `AccountKept`, `KeptWhileFresh`, `GoneForGood` | |
| | `FormsAreKept` | `[]FInv` | |
| | `RestrictionsAreKept` | `[]PairsKept` | |
| | `ReferencesShowWhatIsMeant` | `[]ShownRight` | |
| | `FrequenciesAreKept` | `FreqKept` | |
| | `ReferencesReturn` | `RefsReturn` (of `FormText`) | |

The conditions are those under which the runs check the same property, and are
the code's own limits: section 5 says what happens without them.

### Edit trees

The first part of `EditTree_proofs` proves what the tree operators of
`EntrTable` do under the two changes that the database makes: removal of a set
closed under edits (`DescendantsWithout`, `ForestWithout`) and insertion of a
row (`DescendantsInsert`, `ForestInsert`).

`IInv` is the conjunction of the five invariants.  `LinksOK` needs
that ids are never reused (`TypeOK`: rows are among `used`), or a new row could
become the parent of an old edit; `Rooted` needs `LinksOK`, since a row without
its parent has no root; `HistoryChain` needs both, since a history may only
name ids already used.  Instead of treating each action five times, the proof
first shows that every action is either a `Removal` of a set closed under edits
(the reaper) or a `Change`: a removal of such a set and the insertion of one row
whose parent is left and whose history is that of a row that was there
(`SubmitIsChange`, `ApproveIsChange`, `RejectIsChange`, `ReapIsRemoval`).  Each
conjunct of `IInv` is then shown to survive a `Removal` and a `Change`.

The action properties take one idea more: what an approval removes is the tree
of the *only leaf*, so each removed row is an ancestor of the entry that was
approved, and by `HistoryChain` its history is a prefix of that entry's.  That a
row has a leaf below it needs that histories cannot grow for ever, which holds
because `used` is finite.  For rejections the same is said of the segment.

`PendingEnds` shows that the segment `reject()` computes is exactly what the
cascade of its one `DELETE` takes.  Nothing more is taken because an entry below
one with a single leaf has that leaf only (`OnlyLeafBelow`).  Nothing less is
taken because the entries on the path to a leaf are ordered (`DescendantsChain`):
an entry of the segment outside the branch of the first one would lie above it,
and then the first one's parent would be in the segment too (`RejectSetIsBranch`).

### Transactions

`ShapeSurvives` needs no isolation.  Its invariant `SInv` says of an open
transaction only that the parent of its new row is not a rejected one, if it is
still there (`RowReady`).  Whatever else the transaction read is not needed: its
writes are a cascade and an insertion, and a constraint refuses the insertion
if the parent is gone or the key is taken.

`Serializable` is the refinement.  Its invariant `RInv` adds that a request that
is open and not doomed still sees, of the table, all that its checks and writes
depend on (`IsCurrent`): a commit that changes the tree dooms the others
that have read it.  Hence the request that commits does in one step what
`EditTree` does, and every other step stutters.  A job at READ COMMITTED and a
reaper have no such invariant, and `EditsKept` is false with them.  `NoEditLost`
then follows as `NoHistoryLost` does.

### Editing pages

`ChecksForeseen` is about what the confirmation page knew when it was made; its
invariant is the property itself, page by page.

`OverwritesAreFlagged` needs `PInv`: as long as the row is there that a page's
submission has for a parent, each record of its history is in the history that
the form showed or among those flagged (`PageOK`).  That was so when [Next] made
the page; it remains so since rows do not change and ids are not given out
again.  A submission writes the parent's history with one record more, and is
refused when the parent is gone.

### Bulk programs

`Xresolv`: `JInv` says of each row that is to be written that it is right *as
long as both its entries are there*.  That is all the program needs: when one is
gone the foreign key refuses the batch.  `NoneIsLost` adds `NumbersFree`, that
no reference of a published entry has the number of one that waits;
`submission()` does not publish an entry with references that wait, and the two
numberings meet only in edits, which -i includes.  Assumed: words have at least
one sense.

`BulkEdit`: the reader has read right so far if the list that it would return
*now* (`ListNow`) is right, and it holds the directives since the line on which
they began and the numbers since the directives before (`HeldFrom`).  A further
line either continues this or closes the set, and says nothing new of the lines
before (`RightStays`).  That each set is the one counted by the first lines of
directives (`Firsts`) is by induction over the steps, not over the file.
Assumed: a line's numbers are a list.

That entries are counted once (`EntriesAreAccounted`) needs `CInv`: what has been
counted, with what is still to come of the set at hand, makes up what the sets up to
it have named (`Counted`).  `skipped` grows by the numbers of a set less the entries
found, which is not negative because the program stops when more entries are found
by number than numbers were given (`TooMany`), and an id finds one row at most
(`FoundEntries`).  TLAPS has to see that the sets that are counted are finite, so
`CInv` says so of the table and of the set at hand.

`AllOrNothingIsDone` is about a list that one directive after the other changes,
a recursive function.  `DoneRight` says of the list after i directives that texts
are gone only where a directive named them, and that what a directive gave is
there unless a later one named it.  `DoEditsRight` shows it for all of them: were
there places where it fails, there would be a least one, and `NextRight` is
against it.  (Done so, an induction over data needs no theorem that takes an
operator.)  `TInv` says that each entry of the set at hand has a list of texts.

`BulkLoad`: `NumbersAhead` is inductive only with typing of the three tables
(`IInv`), and with `SequencesThere`, that after `syncseq.sql` every
sequence in use exists: a load and a change of corpus otherwise leave one without
a value to compare.  `LoadsApart` needs two facts about the load in progress: the
ids of the temporary rows are apart from those of the table (`ApartFromFile`), and
parents that are not yet moved are in the file (`ParentsInFile`).  That edits
have ids holds for what `fmtxml.py:651-654` writes of rows of a database.

`Sessions`: `TInv` says that a session is an existing user's, and has an id that
was given out; a login that has checked a name may go on when the user is gone,
and the foreign key of `sess` is why it cannot make a session then.

### Forms

`FormsAreKept` carries `FInv`, three statements that need each other.  `EntrOK`:
rows are well formed, which includes that no text is in an entry twice, and ids are
below the next one.  `XrefOK`: each reference leads from and to senses that are
there and shows what is meant (`ShownRight`, which is a part).  `PagesOK`: what is
on the page of each user (`FormPage`, `ConfirmPage`).

Of a page with a form, `FormPage` says that the form is `Kept` to the entry that
was opened.  `Kept` is what replaces an argument about numbers: for any two
texts that are in both, the entry has no row that forbids the pair (`RdngFree`,
`StagkFree`, `StagrFree`) if and only if the form's lists name it, or name
nothing (`RdngSaid` and so on).  It holds when the form is opened (`OpenKept`:
`get_restrs()` writes the complement of what is forbidden, or "no kanji" when
nothing is left), is kept by each change that the user makes, since texts and
not places are named (`Took`, `Less`), and gives `PairsKept` when the form is
read (`MadeKept`: `txt2restr()` takes the complement again).  Numbers and texts
can stand for each other because a text is in a list once.

Of a confirmation page, `ConfirmPage` says that each reference would be right
*if the row that it leads to is still there* (`RefOK`, `XrerOK`); rows do not
change, so this stays true while others submit (`PageStays`, for any growth and
loss of rows: `Grown`), and where a row is gone the foreign key refuses the
submission or the cascade takes the reference.  What a submission writes is then
right by what the page said (`SubmitFInv`).

`FrequenciesAreKept` needs that `Submit` is refused unless the parent of the
page is the latest entry, and that a text is in a list once, since
`copy_freqs()` takes the first. `ReferencesReturn` follows the lines of a sense:
what `add_xsens_lists()` puts on one line is resolved to the same senses of all
rows of the number (`PartResolved`, `WholeIs`), and the line of another row is
the same line or leads elsewhere (`LinesReturn`).  The hypothesis `Whole` is the
property's own.

Assumed: texts of kanji are no readings (`KanjiAreNoReadings`); the rows and
references that are there at first are right (`WordsAreEntries`, `LinksAreRight`).
Of what is entered on the pages `check_for_errors()` sees to it that no text is
there twice (`edconf.py:401-412`); of what is loaded it is assumed.

### Search

`SearchFindsWhatIsAsked` goes criterion by criterion: for each function of
`srch.py` that makes conditions, an entry has a row on which they hold if and only
if it meets the criterion (`TextMatch`, `KwMatch`, `FreqMatch`, `HistMatch`, ...).
For texts the criterion is in the words of the help: the table that it names is the one
that `autocond()` takes if the text is not mixed (`TableIsHelped`), and case makes no
difference to a text without letters, whatever it is compared with (`LowerOfLike`).
What joins them is that conditions on different tables or aliases are about
different rows, so that each can be chosen apart (`MatchApart`, `TablesApart`),
while those on a history record are about one.  More than half of the keywords are
searched as NOT IN the others, which is the same since a row has one of them
(`KwCondIs`).  Assumed: columns and fields hold what the tables and the form allow
(`DocsHaveTexts`, `DocsHaveTags`, `FormsAreFilled`); texts of a form have no `%`, `_`
or `\` where they go to LIKE as they are (`TextsAreLiteral`); and a scale of `freq` other
than `nf` has the values 1 and 2 only (`ScalesAreShort`, from `data/kwfreq.csv`):
with both checked the code asks for the scale alone.

`PagesShowAllOnce` first shows that ORDER BY makes a list: the order of lines is
total (`LinesOrdered`: ids differ), an element of a finite set has as many
before it as its place says (`Rank`), and each place is had by one element.  The
invariant then says of a search, while no entry is entered: the statement finds
what it found at first without what was deleted (`RestOK`); what was shown has a
rank below the number shown (`SeenOK`), because a deletion lowers ranks and
raises none; and a page that is not full (`FullOK`) or a count (`CountOK`) tells
how many there can still be.  A deletion of an entry that was shown moves others
to earlier places, and they are skipped: this is what `PagesOnce` excepts.
Pages of one entry are excepted too, see section 5.

### Export

Blocks are pages that do not shift: where `srchres.py` counts, `entrs2xml.py`
reads on from a number and an id.  `EInv` is about this place, which is beyond the
last entry written.  What was written lies before it, once each (`FileOK`).  The rows of a block come after it and ascend (`BlockOK`);
these are taken from table `entr` up to the moment when they have been read.  An
entry that is due was either passed and written, whole, or is in the block, or
comes after all of it (`DueOK`): an entry between two rows of a block would have
been found with them (`FindKeeps`, `WriteKeeps`).  When a block is empty, all that
is due has been passed.

Edits keep this, since rows never change and ids are not given out again: an edit
adds a row that is not due (it was not there when the program began) and takes
others away (`UserStep`, `UserKeeps`).  It need not be known what an edit does
otherwise, nor what is written of an entry.  The statements that only read leave
all of this as it is (`QuietStep`, `QuietKeeps`).  That ORDER BY makes a list is
shared with the searches (`RankRange`, `RankGrows`, `RankOnto`, `InOrderIs`).

With a list there is no such place, and `LInv` says instead that what is due stands
in the file, or is in the block at hand, or has a number that is still to come
(`Waits`, `ListOK`).  A block is as long as the numbers that it takes from the list,
so an entry would be left out if two had one number.  That no two published entries
have is `OneActive` of `EditTree`: a step of a user is a step of `EditTree`
(`ChangeIsNext`), so that its invariant is one of `Export` too (`StepTree`), and
a block has at most as many entries as numbers (`FewToCome`).  A block that is empty
ends the program with numbers still to come; then the first of these has no entry,
and not all of the list could have been written (`ListFind`).

Assumed: ids and numbers are ordered, blocks are not empty, and counts and lists are
of natural numbers (`IdsInOrder`, `CountsAreCounts`); and no sense is restricted to
nothing (`SensesAreForSome`), which would end the export with an error.

### Pages of entries, and checks

The first two theorems rest on `VInv`, which adds to `LInv` for each entry (`VersionOK`) that
the records of its history ascend, that it comes after its parent and has its
parent's number, that its first texts can be put in order, and that its references
are a list.  A submission gives the new row a record of now, later than all that it
takes over from its parent (`NewVersion`); nothing else about a row changes
(`CallVersion`).  So an edit has all records of what it was made from and is newer
(`EditIsLater`), and by way of the least closed set of edits so is any descendant
(`DescendantIsLater`).

`PagesAreInOrder`: strings are ordered by the first place where they differ
(`TextLessOrders`), and so is a page, by four columns one after the other
(`GoesBeforeOrders`); that this makes a list is the lemma which the searches use.
Versions of a number share the first three columns, so that no entry of another
number is between them.  A page's latest version is the newest of all the
published and pending ones, so no descendant of it is left (`LatestIs`).  As
descendants have the records of what they come from, a day page that shows an
entry shows them too, and a day of the index has a page with each entry that has a
record of that day which is not `Quiet` (`DaysAre`).

`PagesDoAgree`: whatever a sense refers to and is referred to by, a page says
"both" if and only if there is a reference each way (`DirecsAre`).  That the mark
stands once is no loss because of several references with the same ends there is a
last one (`LastOfThem`).  The statement is the same read from the other end.

Assumed: fragments of texts have different places in the order of strings
(`CodesAreApart`), those of the first kanji and readings have one
(`TextsHaveCodes`), and what a text refers to is a list (`LinksAreLists`).

`ChecksDoPass`: what is loaded and what is referred to is taken to pass the checks on
single texts (`LoadsPass`, `RefsSaySense`); neither `import.sql` nor the parsers look
at them.  Of users nothing is assumed, nor that they use the form.  `PassInv` adds to
`VInv` that a text was loaded, or has passed `check_for_errors()`, or was sent past the
form, that only an entry which is active may be without history, and that references
say their sense when they are copied (`Passes`).  And it adds `RootsApart`: no two trees have one number, but for what was
rejected.  An approval keeps this because it removes the tree that its parent is in
(`ApproveTakesRoot`), whose root has the number of all its edits and is not rejected,
since what is rejected has no edits (`RootIs`).  So a published entry is never beside
a deleted one.  `OneActive`, which the unique index is for, does not say this: it
is about active entries only.

### What stays with TLC

  * `AllGetResolved` is liveness under fairness, which needs ENABLED.
  * `XrefsKept` of `WebEdit`.  It holds of one user at a time who deletes nothing;
    of several users, whose references change between [Next] and [Submit], it does
    not (section 5), so there is no theorem to prove of the site as it is used.
  * `FileReturns` and `RefsReturn` of `Export`; `EdictReadsBack` and `JelReadsBack`
    of `Pages`; and the operators of `XmlText`, `XmlFile`, `Edict` and `Jel`.  They
    compute what is written of an entry and what is read again, with folds, filters
    and sorting of sequences.  What these return for every entry is by induction over
    data.

## 5. Where code and words disagree

Each of these was seen while modelling; the properties above are stated so that
they hold of the code as it is.

Edits.  A bulk update runs at READ COMMITTED, so between its check for branches
and its DELETE a web user can submit an edit, which the cascade removes with its
history; `submit.py` says that the isolation level of its callers prevents this.
`dbreaper.py` says that entries referenced by an edit "are never touched", but
deletes by id what it found before.  Reverse references travel in the confirmation
page, so one to an entry approved between [Next] and [Submit] is lost, and
references do not resolve to deleted rows, so they are lost when an entry is
deleted and restored.  The comment in `submission()` says that a serialization
failure is trapped, while only IntegrityError is (`submit.py:388`).  The note in
`check_for_errors()` that its checks "should also be done in edsubmit.py" because an
entry can be submitted without the form (`edconf.py:377-379`) is not followed, so
entries without readings, senses, glosses or parts of speech can be entered.  An edit that is to be "treated as new" takes its parent's reverse
references along.  `addentr()` writes references without `nosens` and `lowpri`
(`jdb.py:1134-1137`), so one to a whole entry names its first sense as soon as the
entry at either end is edited.

Loading.  `import.sql:89-91` links edits to parents by `idx` over the whole public
table, so a second file with overlapping ids re-hangs pending rows of the first.
A row with a parent but without an id of its own loses the parent, which nothing
reports; `fmtxml.py` writes no such row from a database.
`kwsrc_updseq()` makes no sequence when a corpus is given a new name for it by an
update, although its comment says so (`mktables.sql:216-218`).  `syncseq.sql` sets
`entr_id_seq` to the highest id in use, so ids of removed rows come back.

A load copies neither groups nor the ids of history records: `import.sql` has no
statement for `grp`, `kwgrp` and `hist.eid`, although the file has rows for them.
`jmparse.py --corpus` has no effect, since `xmltype or args.corpus`
(`jmparse.py:46`) is never the latter.  `extract()` knows the tag of an entry only
without attributes, so it finds nothing in `jmex`.  A corpus that changes its type
within a file ends `jmparse.py` with a KeyError instead of the message
(`jmxml.py:291-292` looks the type up as if it were a corpus).

Bulk programs.  `xresolv.py -i` deletes unresolved references by their number
(`xresolv.py:291`), and its help on `-i` says the opposite of what it does.  In
`bulkupd.py`, comments are lost unless they are in the last directive
(`bulkupd.py:308`, help at 635-637), and a corpus set after numbers changes what they mean.  `entrs2xml.py` with a list of numbers stops
at the first block without a hit and leaves out rows beyond the block size; with
`--count` the subset shifts between blocks; an approval between two blocks may
write a number twice; the removal of a target between two reads ends it with an
error; and a choice of corpora that leaves none (`-s '!...'` with all of them)
selects every entry (`entrs2xml.py:165`).

Formats.  XML: a sense that is restricted to none of the readings or kanji ends the
export with a RuntimeError (`fmtxml.py:131-133`), for which nothing in the database
checks; type, number and note of a reference are lost on the way back from
`jmex`, and a reference that is only digits is dropped although the comment at
`jmxml.py:481-488` says otherwise.  JEL: a gloss in a language that is named like
a sense tag ("pol", "chn") reads back as that tag (`fmtjel.py:132-145`, whose
comment says that only "lit" is ambiguous); texts that begin with digits are not
quoted; `[restr=nokanji]` cannot be read for senses.  Lines for references stand
for all rows of a number although sense lists may differ (`jdb.py:760`, comment at
699-704).  Edict2: a single kanji marked "(P)" with several readings that are not
cannot be read.

Pages and checks.  A day page of `updates.py` leaves out bulk updates and records
without notes (`updates.py:75`), which the index counts (`updates.py:132-139`), so the
numbers disagree; and it takes the next midnight in.  Of several references to one sense, only the last
is marked as going both ways.  `dbcheck.py` 17 says that references "must not point
to an entry with the same seq#", which nothing prevents; 19 and 20 report pending
edits of deleted entries; with `--limit 0` it always says "more...".

Search.  With the table left to the program, a text of kana and other characters but
no kanji is looked for in the kanji (`jdb.py:1378-1380`), where the help says that it
is looked for in the readings, and a text of neither that is not all Latin too, where it
says glosses (`srchform.jinja:468-474`).  Only glosses, notes and
histories are searched without regard to case, where the help says that all texts are
(`srchform.jinja:483`).  `_`, `%` and `\` in a text are not escaped
and match as patterns (`jdb.py:1388-1390`).  Searches by date fail (`time` is imported
in another function), a NOT of all keywords matches everything.  Pages of one
entry, which the default of `MIN_ENTRIES_PER_PAGE` allows, end the search on its
first page: one result is shown as an entry, without a way to the next
(`flaskapp.py:267`), however many there are.

Sessions.  A login goes on with a session for 240 seconds, by a unit that is
left out (`jmcgi.py:240`; elsewhere it is minutes); a stale administration page
reverts another administrator's change.

## 6. What is left out, and why

  * Characters.  A text is a sequence of values with a few attributes; quoting and
    lexing of characters, and checks on characters in glosses, are not modelled.
  * In `WebEdit`: an entry is entered under a number of its own and its edits
    keep it, so a change of number on the form is only in `EditTree`; a text
    does not refer to its own entry; references are between rows, not senses,
    and resolve to every active row with the number, as `resolv_xref()` does
    when no other hint narrows them down; the flags `nosens` and `lowpri` are not
    modelled; a submission is one step, which `edit_txn` justifies.
  * In `EditTree`: approval is refused while references are unresolved; that
    condition is in `WebEdit`, which has references.
  * In `BulkLoad`: bounds and increments of sequences (`smin`, `smax`, `sinc`; the
    comment in `syncseq()` tells administrators not to change them), several
    corpora in one file, two loads at once, and the tables below `entr`, whose
    rows move with their entry.
  * In `FormText`: forks and the checks of submission (they are in `WebEdit`), types
    and notes of references.  `serialize.py` is taken to return what it is given.
  * In `BulkEdit`: `--noaction`, pauses, patterns of arguments, references.
  * In `Xresolv`: several corpora, ranges of ids, several senses of the entry that
    refers, and restrictions of a reading to some of the kanji (that it is for none of
    them is modelled).
  * In `Export`: edits keep their number, nobody enters new entries or forks, and a
    rejection comes from a form that nobody changed; the tables below `entr` are
    read at one moment; messages and the progress bar.
  * In `XmlFile`: options that change the root element or the DTD, the comment with
    the date, limits that `sniff()` and `pgload.py` put on how far they read,
    selection of glosses by language, generated numbers, several errors in one
    file, and the sounds, characters and notes that rows hang from.
  * In `Pages`: a page is read at one moment; corpora of numbers, sounds, the page of
    bulk updates, and the warning of similar entries (`find_similar()`).
  * In `Search`: regular expressions, wildcards, texts that LIKE reads as patterns, case
    of letters other than A to Z, dates, the search by SQL, timeouts.
  * In `Sessions`: passwords and privileges, cookies, and accounts changed from the
    command line.
  * Not modelled at all: the Flask application, which dispatches to the views; the CGI
    scripts, several of which (`web/cgi/srchres.py` for one) hold older code of their
    own for what the views do; configuration, logging and database access; audio clips, rows that
    hang from entries without a protocol of their own; conjugation and labels,
    which compute texts; the parsers of the example and kanji files; `edfmt.py`,
    whose only user is code for another version of Python; and the SQL of schema
    updates, run with the site down.

## 7. Plan

  1. More of the code in the operators for pages and formats: headwords, and the
     text formats for people.
  2. Proofs about the operators of the formats, one sequence at a time by a least
     place where they go wrong, as in `DoEditsRight`.
