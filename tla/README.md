# Formal models of bkjs-utils

bkjs-utils is a native module for node: a set of functions in C++ that
`binding.cpp` exports to JavaScript, on top of a library (`bklib/`) with its own
zip reader, word counting automaton, JSON values, geohashes, regular expressions
and string helpers. This directory holds TLA+ models of the parts with state and
control worth checking, TLC configurations that model-check them on small
instances, and TLAPS proofs of their main properties for all instances.

## The system and its parts

| Part | State it keeps | Operations | Source | Modules |
|---|---|---|---|---|
| Extraction to a file | the temporary and the output file | `bkUnzip::extract` | bkunzip.cpp 893-937 | `Extract`, `SafeReplace` |
| Zip directory cursor | `_unzip`, `_info`, `_file` of an object | `open`, `close`, `first_file`, `next_file`, `search_file`, `open_file`, `close_file` | bkunzip.cpp 112-702 | `ZipReader` |
| Entry reader | counters of `_file` and its z_stream | `read_file` | bkunzip.cpp 704-816 | `ReadFile` |
| Unzip entry points | one reader, the file tree | `get_files`, `unzip` (two forms), `toString`, `bkMakePath` | bkunzip.cpp 939-1098, bklib.cpp 634-648 | `UnzipAll` |
| Busy monitor | `_currentLag`, `_lastMark`, the mark, a timer | `initBusy`, `busy_timer`, `isBusy`, `getBusy` | binding.cpp 12-61 | `BusyMonitor` |
| Word automaton | list, trie, failures, counters | `prepare`, `search` | bklib.cpp 163-370 | `AhoCorasick` |
| Word cache | `_wc`, one automaton per name | `countAllWords`, `countWordsInit` | binding.cpp 104-192 | `WordCache` |
| Single word count | none | `bkCountWords` (KMP) | bklib.cpp 372-417 | `CountWords` |
| JSON values | a linked tree | `bkJsonParse`, `Append`, `Set`, `Del`, `Get`, `Stringify` | bklib.cpp 830-1247 | `JsonValue` |
| Geohash | none | encode, decode, adjacent, row, grid | bklib.cpp 1350-1491 | `Geohash` |
| String splitting | none | `bkStrSplit` | bklib.cpp 760-806 | `StrSplit` |
| zlib wrappers | a z_stream | chunk loops around deflate and inflate | bkzip.cpp | not modelled |
| Regular expressions | a compiled program, the groups and the text of the last match | `RegComp`, `RegFind`, `GetReplaceString` | bkregexp.cpp | `Regexp`, `RegexpMeaning` |
| snappy, hashes, logging, time, users, shell, argument glue | - | - | - | not modelled |

How they interact. `unzip`, `unzipFile` and `zipFiles` create a `bkUnzip` object
on the stack and drive its cursor (`UnzipAll` on `ZipReader`); for each entry they
open it, read it (`ReadFile`) and either return its text or write it with
`extract` (`Extract`). `countAllWords` finds or creates an automaton in the cache
(`WordCache`), fills and configures it, and runs a text through it
(`AhoCorasick`). The busy monitor runs on the event loop between the other
callbacks. All exported functions are synchronous, on the one JavaScript thread of
a process; concurrency comes from several processes working in one directory and
from the event loop's timer.

What is hard here: a crash or a second process between the system calls of
`extract`; reads of the archive that fail in the middle of a walk, a search or an
entry, and leave part of the cursor moved; archives whose counts and sizes lie;
unsigned counters that must not pass zero; state that a cached object or the
cursor carries from one call to the next; integer averages that must neither
overflow nor get stuck; lists whose pointers must agree after any sequence of
calls; failure links that are read while they are built; a compiler that runs
twice and must write what it counted; shortcuts of a search that must not hide a
match.
`PROJECT.json` lists these hazards at their lines.

## Modules and how they correspond to the code

**`SafeReplace`** is the abstract promise of "Safely unzip file from the archive,
store in temp file and then rename" (bkunzip.h:65): an output is absent or wholly
one version of the entry, and a call replaces it in one step or not at all.

**`Extract`** is `extract` call by call: `OpenCreate`, `OpenExisting` (the `open`
without `O_TRUNC` and `O_EXCL`), `OpenFails`; one `CopyBlock` per iteration of the
copy loop; `ReadZero` (end of the entry *or* a failed read, which `read_file` does
not tell apart); `WriteFails`; `Chmod`; `Rename`, `RenameFails`; and `Crash`, at
any point, after which only the files remain. Files are inodes with blocks and a
mode, so a descriptor keeps its file when the name goes away. A block stands for
one 4096 byte buffer, and holds the version of the entry it was copied from. The
history variable `done` holds the outputs for which a call returned 1.

**`ZipReader`** is the cursor. An archive is an array of central directory
records at byte positions, local headers by offset, and a stated count which need
not be the true one; an unreadable record or, in a `flaky` archive, any read may
fail. `MoveTo` is the common tail of `first_file` and `next_file`, which moves the
position *before* it knows whether the record can be read. `search_file` is broken
into its loop iterations; the other operations are one step each. An iteration
whose read of the record fails changes nothing in the code; `SearchReread` flips
`spin`, which is no variable of the program, so that such an iteration is a step
and a loop of them a behaviour. `HeaderMatches` is `check_header`: method, length of
the name, and crc and sizes unless the header's flag leaves them to a data
descriptor. `DataStart` is where `open_file` finds the data: behind the name and the
extra field of the *local* header. How the end record is found is left out; `Open`
finds it and `OpenFails` does not. Names searched for are not empty. The key stream
of encrypted entries is left out.

**`ReadFile`** is one `read_file` after another on an open entry. Each step is a
part of its loop: `Refill`, `CopyStored`, `InflateOk`/`InflateEnd`/`InflateFails`,
and the exits. Bytes are counted, not kept, but their positions are: `fpos` of the
`FILE`, `pos_in_zipfile`, and that of the byte at `stream.next_in`. Between calls
other methods may move the `FILE` (`Elsewhere`), as `get_file_mode` does. `inflate`
is zlib's and modelled by its contract (`InflateMay`): it stops only when a buffer
is used up, the stream ended or it failed. Raw copying is left out, since
`open_file` never asks for it.

**`UnzipAll`** composes `ZipReader` with the four static functions: each `Call...`
action is one call the program makes on the object. `UnzipEntry` is the body of
`unzip`'s loop: the name and the mode come from separate reads of the record,
`bkMakePath` makes directories (all components but the last, relative ones, stopping
at a name that is a file), and extract or symlink store a file if its directory is
there. A link without a text is left out, as in the code. `extract` is one step
here. The job `"calls"` is any other client of the class: it makes the calls of
`ZipReader` in any order (`AnyCall`).

**`BusyMonitor`** counts time in units of the clock: `Wait` and `Handler` let it
pass, `BusyTimer` is the callback with its unsigned arithmetic modulo `Word`,
`Answers` the set of answers the random draw of `isBusy` allows.

**`AhoCorasick`** is `prepare` and `search`, one step per iteration of each of
their loops. `prepare` adds characters and ends of words (`AddChar`, `AddEnd`),
completes the root (`Root`, `RootChild`), and then takes nodes off its queue
(`Visit`), looks at their edges in the order of the characters (`Edge`, `Ch`),
falls back along the failures (`FallBack`) and sets the failure of the node behind
the edge (`SetFailure`); `node`, `left` and `failure` are where its loops are.
`search` falls back (`ScanBack`) and takes an edge (`Scan`); at the end of the text
(`Finish`) it goes through the counters (`CombineWord`), and `Return` divides an
average or falls back on the first word; its local `r` and its member `state` are one
variable, since the code reads only one of them at a time. So a failure that is used
before it is set shows as an index of -1. `matches` is a set of bits modulo `Bits`,
as `1 << i` gives them on the usual machines: in a list of more than `Bits` words,
`search` also tests words that merely share the bit of one that ends there, at
positions that may be in front of the text, where the outcome is arbitrary
(`Outcomes`). A character in `High` indexes `alphabet` with a negative number, so
the outcome of its test is arbitrary. The history variable `path` records the
characters that lead to a node; the code has no such array.

**`WordCache`** is `countAllWords` up to the search, with the object's word list,
mode, alphabet and the list its automaton was built from; the search itself is
`AhoCorasick`'s. A delimiter above 0x7f is a negative index into the alphabet:
`OverwritingCall` stands for such a call, and nothing is said of what comes after it.

**`JsonValue`** is `bkJsonParse`, one action per case of its switch, over tokens:
strings carry their decoded text, so that escapes are part of reading and printing
a token. A number takes in whatever follows it up to white space or one of `,` `]`
`}` (bklib.cpp:1051): `source.blanks` says after which tokens there is white space,
`Taken` which tokens a number takes in, and `input` is the text as the other cases
meet it. Nodes are records with the code's pointers (`parent`, `next`, `first`,
`last`). `Set` and `Del` change the tree afterwards. Steps whose outcome C++ does
not define end in `pc = "undefined"`: `bkJsonFree` of a tree with elements (it may
also go well), a number that runs over the end of the text, an append to a container whose
only element was deleted. `Stringify` prints a tree to tokens; names are printed
without escapes, so a name that needs one gives a token the parser rejects.

**`Regexp`** is class `CRegExp`. The recursive descent of `RegComp` (`reg`,
`regbranch`, `regpiece`, `regatom`) is a set of recursive operators on a record
with the input position, the group counter and the code; one set serves both
passes, as in the code, and `Emit` either appends a node or counts its bytes. A
program is a sequence of nodes whose links are counted in nodes. `regmatch`,
`FirstBranch` and `Fewer` are the matcher with its backtracking. The actions are
the calls on one object: `RegComp`, the exits of `RegFind` (not compiled, no
program, the required string is missing, a search with and without a match,
`NULL`) and `GetReplaceString`, whose two loops, one for the length (`ReplaceLen`)
and one that writes (`ReplaceCopy`), are two operators as they are two loops in the
code. **`RegexpMeaning`** is the reference: the pairs of
positions between which a pattern matches, composed as relations along the
pattern, and which patterns are legal. It translates no code.

**`Geohash`**, **`CountWords`** and **`StrSplit`** are functions without state.
Coordinates are integers from `-Half` to `Half`, a power of two, so that the
halvings, which double precision makes exactly, are exact; the neighbour and border
tables are those of the code. `CountWords` is both phases of Knuth-Morris-Pratt
with the terminator behind the word that the first phase reads. `StrSplit` follows
the positions of the loop. **`Utilities`** makes a state of each call and its
result.

## Runs

| Run | Instance | What it shows |
|---|---|---|
| `extract_crash` | 2 processes that take turns on 1 output, 2 versions of 2 blocks; open, write, chmod and rename fail, crashes | `OutputWhole`: the output is never partial. `TmpDiscipline`: the inductive argument. `Refinement`: it implements `SafeReplace` |
| `extract_parallel` | 2 processes, 2 outputs, versions of different sizes, failing open, write, rename | `OutputMode`, `NoTmpLeft`, and `CallsReturn` under fairness |
| `extract_stale_tmp` | 1 process, versions of 2 and 1 blocks, crashes | violates `OutputWhole`, see below |
| `read_file` | all stated and true sizes up to 5, buffers of 1 and 3, refills of 2, the `FILE` moved between calls, with and without faults | `NoUnderflow`, `InBounds`, `InputConserved`, `SoundEntryDelivered`, `ReadsEnd` |
| `unzip` | archives of 3 entries over names and kinds that nest, collide or are empty, with a bad record, headers that differ in crc, method or length of the name, data descriptors, links without a text, and counts that are too small, right and "no limit"; reliable and flaky; the four programs, and all sequences of calls of another client | `UsesEachEntryOnce`, `FindsTheEntry`, `UnpacksIntoExistingDirs` of the programs; `CursorSound`, `FileSound`, `SearchCorrect` of the object; `Finishes` of both |
| `unzip_all_files` | intact archives, the target directory exists and its subdirectories do not | violates `AllFilesUnzipped`, see below |
| `busy_monitor` | period 3, marks 2 to 4, delays up to 10 | `LagBounded`, `NoFalseAlarm`, `Recovers`, `Detects` |
| `aho_corasick` | 13 lists with words that are prefixes, suffixes and repetitions of each other, two of them with 4 and 6 words on 3 bits, all texts up to 5 characters; 64 lists with values from -3 to 2 in all modes; texts with a character above 0x7f | `InBounds`, `AutomatonRight`, `CountsRight`, `ValueRight` |
| `word_cache` | calls with and without names, lists, modes and alphabets, one with a delimiter above 0x7f, 3 between clearings | `AutomatonInSync`, `RemembersPerName` |
| `json_value` | 4900 JSON texts nested two deep, all sequences of up to 4 of 11 tokens and of up to 6 of the brackets and a number, each with and without white space after some tokens, 3 edits | `LinksSound`, `RoundTrip`, `AcceptsBalanced` |
| `regexp` | all patterns of up to 3 of 11 characters, groups with all bodies of up to 3 under a repetition, classes of up to 3, and chosen ones with nested and ten groups (2124 in all); texts of up to 3 characters; a second pattern and a second text on the same object | `CompilesLegal`, `FindsLeftmost`, `GroupsMatch`, `ReplacesGroups` |
| `functions` | points on, above and below the edges of boxes with hashes of 1 to 12 characters; all hashes of up to 2 characters and longer ones at borders; all texts of up to 4 and words of up to 3 characters; all strings of up to 5 and pairs of quoted fields of up to 3, the second one also without its closing quote | `EncodeRight`, `NeighboursRight`, `CountsOccurrences`, `SplitRight` |

Why the bounds are enough. Two blocks make a first, a last and a stale block
different, and two processes one that meets the leftovers of another. In the passing
runs calls for one name take turns (`Exclusive`), which is what the theorems assume;
the race for a shared temporary file is described below. Three entries give a first,
a middle and a last one to break, and a count that is too small, right and
unlimited. A buffer of 2 does not divide entries of 3 and 5, and both buffer lengths
are smaller and larger than it. Words of up to four characters over two letters have
failure links of every depth up to three, and a text of five characters holds
overlapping occurrences; four words on three bits give a long word the bit of a
short one, which is looked for in front of the text. Two levels of containers with
two elements each have every way a list can begin, go on and end, and three edits
delete an element, add one and look at the result. A pattern of three characters has
every operator on every operand, groups under a repetition give the code with `BACK`
nodes, and texts of three characters make the matcher give back what it took. The
second pattern and text of `regexp` show what an object keeps. The world of
`functions` is 2^30 units wide, which the 60 bits of the longest hash use up
exactly; one and two characters have all entries of both kinds of tables. Deadlock
is checked in every run; finished programs (`Done`, `Finished`) stutter explicitly.

Fairness. `extract`, `read_file` and the unzip programs are sequential code that its
process runs on, so weak fairness of their next step is what any scheduler gives;
for another client of the class it is stated for the steps of `search_file`
(`AnySearch`). No read is assumed to succeed in the end. When a record cannot be read
*again*, `search_file` goes round in place, and with a read that keeps failing it
does so for ever: `Spinning` is that behaviour, `Spec` allows it, and `Finishes`
says that it is the only one in which a program or a search does not end. In
`BusyMonitor` time passes (weak fairness of `Wait`) and a timer that is due again
and again runs (strong fairness of `BusyTimer`), which libuv gives as long as
handlers return.

## Disagreements with the code's own statements

Two runs end in a counterexample.

- `extract_stale_tmp`: a crash leaves `outname.tmp`; the next extraction opens it
  without `O_TRUNC`, and if its entry is shorter the old tail is renamed into place
  with it (bkunzip.cpp:898, against bkunzip.h:65 "Safely unzip file").
- `unzip_all_files`: `bkMakePath` leaves out the last component of its path
  (bklib.cpp:638), so the directory of `d/f` is not there when `extract` opens the
  temporary file; `unzip` ignores the failure and returns 1 (against bklib.h:216
  "Recursively create all directories for the given path" and bkunzip.h:68 "Safely
  unzip all files").

`extract` is safe only under hypotheses on its callers. Three more configurations of
`MCExtract`, which are no runs of the project, drop one hypothesis each, and TLC finds
what then goes wrong:

- `ExtractReadError.cfg` (`OutputWhole`): `read_file` returns 0 when a read of the
  archive fails (bkunzip.cpp:738-743), which `extract` takes for the end of the entry:
  it renames the part that was copied over the output and returns 1.
- `ExtractSharedTmp.cfg` (`OutputWhole`): two extractions to one output use one
  temporary file, and the slower one goes on writing into it after the other has made
  it the output (bkunzip.cpp:897).
- `ExtractTmpIsOutput.cfg` (`OutputKept`): in an archive with `a.tmp` and `a`, the
  extraction of `a` takes the extracted `a.tmp` for its temporary file and renames it
  away (bkunzip.cpp:897).

Others are visible in the models and stated there as assumptions or comments:
`read_file` never compares the checksum; `search_file` restores the cursor but not
`current_file_ok`, and does not end while a record that was read cannot be read
again; the decrypting flag set by a password stays set; `bkMakePath` drops the
leading `/` of an absolute path; `isBusy` answers by chance between the mark and
twice the mark; `MAXV` starts at 0 because line 284 tests `CW_MAX` twice, and `MUL`
and `MULV` are 0 since they start at 0 (`ValueRight` says so); more than 32 words
share bits, and a word may then be looked for in front of the text (`InBounds` says
when); `setAlphabet` writes in front of its array for a character above 0x7f;
`search` indexes its alphabet with a signed char (bklib.cpp:272), so that whether a
character above 0x7f separates words depends on memory in front of the array,
although bklib.cpp:74 says "any UTF character can be part of a token" (`CountsRight`
allows both); `RegFind` checks the "validity of regex" (bkregexp.cpp:501) by a flag
that is set before the pattern is parsed, so that after a refused pattern it
searches with the program before it, or with none (`RegFindNoProgram`); `RegFind` of
an empty text reads behind it when the pattern starts with a literal; a number in a
JSON text swallows what follows it, so that `[1[]` is accepted and `[1[]]` is not;
the JSON parser takes a string after an empty name for the name, and a name that no
value followed for the name of the next value, wherever it is (`RoundTrip` is stated
for texts without such names); an array element appended after a deletion may get
the index of another.

## Proofs

Checked by TLAPS for all values of the constants that satisfy the named `ASSUME`s.
Where a theorem has a further hypothesis it is said here; each is satisfied by an
instance that a run checks.

- `ExtractProofs`. `TypeCorrect` has no hypothesis. `Safety` (`OutputWhole`,
  `OutputKept`, `TmpDiscipline`) and `Implements` (`Refinement`) are stated under
  `SafeUse`: callers do not extract to one name at the same time, no read error is
  taken for the end of an entry, no output is named like another's temporary file,
  and after crashes all entries for a name have the same size. `extract_stale_tmp`
  and the three configurations named above show that each is needed. `OutputWhole`
  alone is not inductive: when `Rename` is taken, one must know what the temporary
  file holds. `TmpDiscipline` adds it: a call is the only one for its name
  (`SoleOwner`), no file has two names (`OneName`), its descriptor is on the file
  its temporary name denotes (`TmpOwned`), which holds what was copied and nothing
  past the end (`Copied`), and what a crash left fits every entry (`StaleFits`).
  `Implements` maps the running calls and the contents of the outputs to
  `SafeReplace`; each step then is `Begin`, `Commit`, `Abandon` or a stutter.
  `TmpCleaned` (`NoTmpLeft`) needs only that nothing crashes and that no output has
  a temporary file's name: it holds for calls that race for one name too, and is
  inductive with the types. `Permissions` (`OutputMode`) adds `SafeModes`: `chmod`
  works, and entries that carry no mode do not meet the leftovers of a crash of one
  that does. Its inductive part `TmpModes` says which mode the temporary file has
  before and after `chmod`.
- `ZipReaderProofs`. `CursorAlwaysSound` (`CursorSound`, `FileSound`) is inductive
  since `search_file` saves only a usable cursor, and a failed move clears
  `current_file_ok`; it needs that no two entries share a position (`ArchiveOK`).
  `FileSound` says from where the data of an open file are read and what its local
  header must have in common with its record, for every local header.
  `SearchesRight` (`SearchCorrect`, an action property) rests on `Searched`: no
  entry before the one the search is on has the name, and when its loop ends none
  that can be reached has it, or a read failed.
- `ReadFileProofs`. `Accounting`: the conjunction of `NoUnderflow`, `InBounds` and
  `InputConserved` is inductive, since `avail_out` is limited to what is left of
  the entry at the start of a call and falls in step with it, and since every refill
  seeks to `pos_in_zipfile` first, which is always right behind the buffer.
  `DeliversSoundEntries` (`SoundEntryDelivered`) adds `OnTheWay`: what was produced
  is delivered or in the caller's buffer, a stored entry consumes what it produces,
  and a call asks for nothing only at the end.
- `UnzipAllProofs`. `DrivesReader` shows that the programs implement `ZipReader`'s
  own specification, so that `ReaderInUse` gets `CursorSound`, `FileSound` and
  `SearchCorrect` in use without a second proof. On top of it,
  `EachEntryOnce` (`UsesEachEntryOnce`) by `Walk`: the entries used are the first
  ones, and the cursor is on the next or on the last of them, depending on the call
  the program is about to make. `FirstOfTheName` (`FindsTheEntry`) by `Seek`.
  `LastOfTheName` (`UnpacksIntoExistingDirs`) by `Walk` and `Unpacked`: of the
  entries used so far, the last of each name is in its file. Its proof failed
  first, on an entry with an empty name, which the code takes for a directory
  whatever its mode says; `IsFile` now says so and `unzip` checks such an archive.
- `BusyMonitorProofs`: `LagNeverInvented` and `BlocksOnlyWhenLate`, for lags with
  `3 * MaxLate < Word`; the weighted mean of two numbers is at most the larger.
- `WordCacheProofs`. `CacheConsistent`: the inductive invariant adds that an
  object with an empty list has no automaton, which is why filling it is safe.
  `MemoryPerName` (`RemembersPerName`) by `RInv`: every name used since the cache
  was cleared has its object, so that a new object begins with no calls behind it.
- `AhoCorasickProofs`, for every word list and text. `BuildsAutomaton`
  (`AutomatonRight`) and `StaysInBounds` (`InBounds`) have no hypothesis; for lists of
  more words than `matches` has bits, `InBounds` allows reads in front of the text for
  words that share a bit. `CountsTokens` (`CountsRight`) is stated under `NoWrap`: no
  list has more words than there are bits, 32 in the code. For longer lists TLC checks
  it in `aho_corasick`.
  - `BuildInv` is the inductive invariant of `prepare`. While words are added
    (`Adding`) the trie is a tree with one node for each path (`Tree`), and `last`
    is at most the sum of `prepare`'s first loop up to the present word (`Sizes`),
    which bounds it by the size of the arrays. While nodes are visited, the queue
    is in order of depth and spans two depths at most (`Queue`), and every node
    without a failure is deeper than the one visited and has an ancestor in the
    queue or under the loop (`Frontier`). So when the failure of a node is
    computed, those of all nodes that are no deeper than its parent are set, and
    the loop along them meets none that is not. The loop itself is on the longest
    suffix that may still have an edge for the character (`LongestWith`, lemma
    `Backs`), and its edge leads to the longest suffix of the child (`Advances`).
    When the queue is empty all failures are set: a node of least depth without
    one would have a parent without one (`PreparedStep`).
  - `ScanInv` says the same of `search`: it is on the longest suffix of what it
    has read that may have the next edge. So a word is a candidate only where some word
    of its bit ends, and if no bit is shared the candidates are exactly the words that
    end there (`CandidateFacts`).
  - `CountInv` adds up: each step finds at most one new place of a word
    (`PlacesStep`), and counts it unless a neighbour may belong to the token.
  - `CombinesRight` (`ValueRight`) needs no `NoWrap`. Its hypothesis `TotalsFit` is
    that the value of a word times any number of times a text can count it is an
    int; otherwise the product overflows, which C leaves undefined, and a minimum
    above `INT_MAX` would never be stored. The lists and texts of `aho_corasick`
    satisfy it. `TallyInv` says that a word is counted at most once for each
    character read, so that `TotalsFit` applies, that some word was found if `count`
    is positive, and what the loop over the counters has made of the words before
    `nth` (`Partial`): the least or greatest of their totals or values, or the start
    value when there is none (for `MAXV`, whose start value is 0, when none is above
    it); the sum of the first totals; 0 for the products; or one of them.
    `PartialWord` and `PartialSkip` are the two cases of an iteration. The default
    of ANY shows in `FinalRight`, the rounding of C's division in `QuotientNear`.
    That the sums exist is `SumsDef`.

- `JsonValueProofs`. `LinksAlwaysSound` (`LinksSound`), for every text and every
  sequence of `bkJsonSet` and `bkJsonDel`, has no hypothesis. `LinksSound` speaks of
  walks along `next` and `parent`, which end only because of an order that the
  pointers do not show: nodes are numbered as they are made, a parent before its
  elements and an element before those appended later. `JInv` says so of the fields
  themselves: `first` is the least element, `next` of an element the least above it
  and `last` the greatest, or left over by `bkJsonDel` when there is none (`List`);
  a parent is less than its elements (`Tree`). That the recursive functions `From`
  and `Below` exist and compute what their equations say is proved from the order
  (`FromDef`, `BelowDef`), and so is that a walk collects exactly the elements and
  ends in the greatest (`FromList`). What an append and a deletion do to the
  fields (`Appended`, `Removed`) then keeps the order (`AppendGood`, `DelGood`);
  that a deletion takes all that hangs below an element and nothing else is
  `BelowDef` again. A new node must not get the number of a deleted one that
  some `last` still points to, for which `Tree` bounds `last` by `made`.

  `ParserVerdict` (`AcceptsBalanced`), also without a hypothesis, says that the
  parser, which keeps only a pointer to the innermost open container, accepts just
  the texts that have a nesting, once numbers have taken in what follows them
  (`input`). Its invariant `PInv` relates the tokens read
  to the tree: some `m` matches the brackets that are closed so far (`Matches`), and
  the containers from the root to `top`, in the order they were made, are those of the
  brackets that `m` leaves open (`Stack`). That is enough for a tree to be right:
  at the end `m` is the nesting (`EndAccepts`). For an error to be right no other
  nesting may exist, so `Forced` says that every nesting of the whole text that closes
  all brackets agrees with `m`: a closing bracket can only close the last open one
  (`LastOpen`), hence a mismatch (`ClosesRight`), a `:` in an array (`ColonRight`), a
  token after the root is closed (`TopRight`) and a bracket that is open at the
  end (`EndRight`) refute them all. That a nesting closes every bracket is what the
  equal cardinalities in `Acceptable` mean (`EveryBracket`).

The library's induction theorems take an operator, which the provers cannot
instantiate. Where induction over numbers is needed (the sizes of the arrays, sums, the
depth of a node, the order of the nodes of a tree) it is by the least
counterexample: `LeastNumber` follows from the theorem that sets of natural numbers
have least elements, which takes a set.

Only model-checked: liveness (fairness and `ENABLED` are out of the prover's reach);
`CountsRight` for lists longer than `Bits`; `RoundTrip` of `JsonValue`, which compares
a text with what a recursive walk of the tree prints and would need induction over
both, and for the names of array elements that `ToString` is injective, of which the
prover knows nothing; and what `Regexp`, `Geohash`, `CountWords` and `StrSplit` compute,
since the prover does not work in modules with `RECURSIVE`.

## Not modelled

snappy is vendored. The zlib wrappers are loops that call zlib until it leaves room
in a chunk; nothing could go wrong in them that the contract of zlib does not
decide. Distances and bounding boxes are floating point formulas. Hashes, CRC
tables, formatting, logging, the clock, users and groups have no control state.
`run` is a single loop. `addJson` is called by nothing. `get_comment` and
`get_file_extra` only read. The key stream of encrypted entries is arithmetic on
bytes; that the decrypting flag stays set for entries opened later without a
password (bkunzip.cpp:501) can be seen in `ZipReader`, and no property speaks of
it. Outside the models: power loss (the call of `sync` is compiled out), the
descriptor that `extract` leaves open after a failed write (bkunzip.cpp:918), the
32 bit sum of `open` (bkunzip.cpp:571), links of a regular expression longer than
16 bits (bkregexp.cpp:471), and memory exhaustion.

## Plan

What is left is proofs. `RoundTrip` would need an invariant that says which part of
the text each closed container prints as, for which `Stack` of `JsonValueProofs` is the
basis. The failure table of `CountWords`, which like
`AhoCorasick`'s is about longest suffixes, would have to be computed by a state
machine instead of recursive operators.
