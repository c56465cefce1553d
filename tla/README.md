# A TLA+ development for libslax

libslax is a C library for SLAX, an alternative syntax for XSLT.  Around it the
repository keeps ParrotDB (a small database in a memory-mapped file), libxi (an
XML parser built on it), a set of extension libraries and the program slaxproc.
This directory holds TLA+ models of its stateful parts and of the conversions that
are easy to get wrong, TLC configurations that check them on small instances, and
TLAPS proofs of what matters most for every instance.  PROJECT.json ties every
definition to the lines it models.

Names of definitions are the names of the C functions and fields wherever a
definition stands for one.  A definition commented "Wrong:" is a plausible mistake
in the definition that follows it; it is used by no specification, only by the
mutation test of the property it is meant to break.

## 1. The system

| Component | State it keeps | Operations | Who uses it |
|---|---|---|---|
| `parrotdb/pammap` page allocator | the file, the mapping, the chain of free chunks inside it, the handle | open, close, alloc, free, growth | every table |
| named headers (`pa_mmap_header`) | records appended in page 0 | find or append by name | every table, at open |
| `parrotdb/pafixed` paged array | page table, chain of idle atoms through their own words | open, close, alloc, free, element | bitmaps, string index, libxi rules |
| `parrotdb/paarb` blocks of any size | a chain per power of two, a header in front of each chunk | open, close, alloc, free | libxi |
| `parrotdb/pabitmap` sparse bitmaps | chunk numbers and chunks, both atoms of one paged array | alloc, set, clear, test, find_next | libxi rules |
| `parrotdb/paistr` immutable strings | pages of text, what is left of the last, an index | open, close, string, nstring | libxi names |
| `parrotdb/papat` patricia trees | nodes in a paged array | add, delete, get, walks, subtrees | libxi name pools |
| `libxi` source | a buffer that is refilled, moved and grown | the next token | the parser |
| `libxi` parser, rules, workspace | tree, stack of open elements, rule states, names | parse, save, print | xi tools |
| `libslax/slaxdebugger` | status, flags, stack of frames, breakpoints, current instruction | three callbacks of libxslt, about 20 commands, main loop | slaxproc -d |
| `libslax/slaxprofiler` | counters by line | enter, exit, clear, report | debugger |
| `libslax/slaxlexer` | the input buffer and positions in it | fill, shift, token | the yacc parser |
| `libslax/slaxmvar` | containers of current and older values | init, set, append | the XSLT engine |
| `libslax/slaxloader`, `slaxdyn` | hooks in libxslt and libxml2, include path, lists of libraries | enable, load, cleanup | engine, slaxproc |
| `libslax/slaxtree`, `slaxparser.y` | the XSLT tree under construction, waiting nodes | one call per grammar action | the lexer's parser |
| JSON and YAML (`jsonlexer`, `jsonwriter`, `yamlwriter`) | open elements | read, write | xutil, slaxproc |
| `extensions/bit`, `db`, `curl` | none; handles, statements and locks; handles and options | extension functions | scripts |
| `slaxproc`, the writer, `slaxext`, `slaxio`, other extensions | options, indentation, streams | one call sequence per mode; conversions | the user, scripts |

Interactions.  In ParrotDB every table calls the page allocator for pages and keeps
its roots in a named header; bitmaps and the string index call the paged array.
Nothing locks: a segment has one writer.  What makes it hard is persistence: part of
each table's state is in the file and part in the handle, and a process can end at
any point.  In libslax three things meet that were not written together: the engine
(libxslt), which calls back; the user of the debugger, whose commands communicate
with the callbacks through one status and a word of flags; and memory that libxslt
owns, into which values of variables point.  The readers (lexer, xi_source) work on
buffers that move while a token is being read.

What makes each part correct, and what is hard to test:

* page allocator: no page has two owners and none is lost, through splits, failed
  growth, kills and reopens;
* paged array: the chain runs through memory that callers overwrite; it must never
  lead to an atom in use and must reach all others, and cope with a page that could
  not be had;
* arbitrary blocks: size classes at the powers of two, double releases;
* bitmaps: equal to sets of numbers although sparse; a search visits each member once
  and ends;
* strings: each atom reads back as what was stored, no text overwrites other text;
* patricia trees: what was added is found, walks go in order, links that turn into
  threads lead back;
* debugger: requests survive callbacks, the stack follows the engine, nothing points
  into a stylesheet that a reload replaced;
* profiler: time is charged once, to the line that ran;
* readers: tokens do not depend on where a read ends;
* mutable variables: what a value refers to lives as long as the value;
* loader: hooks are restored, a file is found under the name it was given;
* tree building: what an expression needs is declared where it is seen;
* writers: what is written reads back;
* handles of extensions: calls on one do not disturb another, closing frees all.

The list of hazards with their lines is in PROJECT.json.

## 2. The modules

| Module | Models | Actions |
|---|---|---|
| `PaCommon` | blocks, rounding, the null atom (`pacommon.h`) | |
| `PaStore` | abstract: what a page allocator promises | HandOut, TakeBack, Extend, Vanish |
| `PaMmap` | `pammap.c`: the page allocator | pa_mmap_alloc, pa_mmap_free, Create (and its two partial failures), OpenExisting, OpenFails, pa_mmap_close, Kill |
| `PaHeader` | `pa_mmap_header` | one action: found, appended or not made |
| `PaFixed` | `pafixed.c`, `pafixed.h` | one per function, and Store, a caller's write |
| `PaArb` | `paarb.c`, `paarb.h` | pa_arb_alloc, pa_arb_free_atom, open, close |
| `PaBitSet` | abstract: a family of sets of numbers | |
| `PaBitmap` | `pabitmap.h` | alloc, set, clear, FindStart, FindStep |
| `PaIstr` | `paistr.c`, `paistr.h`, short strings of `pacommon.h` | nstring, short strings, open, close |
| `PaPat` | `papat.c`, `papat.h` | add, open; searches and walks as operators |
| `SlaxDebugger` | `slaxdebugger.c` | a command at either prompt, end of input at either, the three callbacks, the end of a run |
| `SlaxProfiler` | `slaxprofiler.c` and its calls in the debugger | callbacks, clear, report, run, reload |
| `SlaxInput`, `SlaxLexer` | `slaxlexer.c`: the buffer; tokens over it | a call of slaxYylex, a parser action that switches keywords |
| `MvarSpec`, `SlaxMvar` | abstract: what variables promise; `slaxmvar.c` over libxslt's memory | declare, set, append, enter and leave a template, end |
| `XiSource` | `xisource.c` | the next token, read by two readers of one file |
| `XiTree`, `XiParse` | `xiparse.c`, `xirules.c`, `xiworkspace.c` | reading a script of rules, a token of the document |
| `SlaxDyn`, `SlaxLoader` | `slaxdyn.c`, `slaxloader.c` | enable, disable, cleanup, add a directory, load |
| `SlaxTree`, `SlaxScript` | `slaxtree.c`, helpers of `slaxloader.c`, the calls of `slaxparser.y` | a statement or the end of a block |
| `SlaxJson` | `jsonlexer.c`, `jsonwriter.c`, `yamlwriter.c` | a token of the text, writing, reading again |
| `SlaxBit` | `ext_bit.c` | a call of a function on the last result |
| `SlaxDb` | `ext_db.c` and the SQLite driver | open, create, insert, delete, update, find, fetch, close |
| `SlaxDbWhere` | db_sqlite_build_conditions and what SQLite makes of the clause | none: operators |
| `SlaxCurl` | `ext_curl.c` | open, set, perform, single, close |
| `SlaxExt` | `SlaxCurl` and `SlaxDb` side by side | one of theirs |
| `Pdb` | `PaHeader`, `PaArb`, `PaIstr` and `PaPat` side by side | one of theirs |
| `SlaxRunning` | `SlaxDebugger`, `SlaxProfiler` and `SlaxMvar` side by side | one of theirs |
| `PaMmapProofs`, `PaFixedProofs`, `PaBitmapProofs` | theorems about `PaMmap`, `PaFixed`, `PaBitmap` | |
| `PdbProofs` | theorems about `Pdb`: headers, strings, blocks of any size, patricia trees | |
| `SlaxRunningProofs` | theorems about `SlaxRunning`: the debugger, the profiler, variables | |
| `SlaxLoaderProofs`, `SlaxExtProofs` | theorems about `SlaxLoader` with `SlaxDyn`; about `SlaxExt`: curl and db | |
| `ProofFacts` | lemmas about numbers and sequences that several of these rest on | |
| `MC*` | the constants of the runs; in `MCReaders` and `MCSlaxExt` also the choice of a part | |

How they compose.  `PaMmap` is shown to implement `PaStore` (TLC and a theorem), and
`PaArb`, `PaIstr`, `PaPat` and `PaFixed` use the allocator only through that promise:
any run of pages that nobody has, or failure.  `PaBitmap` and the index of `PaIstr`
use a `PaFixed` table that never releases, which hands out its atoms in order.
`PaBitmap` is shown to implement `PaBitSet` (TLC and a theorem), `SlaxMvar` to implement
`MvarSpec` (a theorem), each statement the step of `MvarSpec` for the variable and the
value it names (TLC and the same theorem).  `MvarSpec` is doc/constructs.rst with the four cases of the comment on slaxMvarAppend; doc/notes.rst
has another rule for strings (section 5).  `SlaxLexer` is over `SlaxInput`, `XiParse` over
`XiTree`, `SlaxLoader` over `SlaxDyn`, `SlaxScript` over `SlaxTree`.  The modules `Pdb`,
`SlaxRunning`, `MCReaders` and `MCSlaxExt` (with `SlaxExt`) hold several modules that do not
interact: a variable `what`, chosen at the start, says which of them moves, and the
variables of the others stay in one initial state.

Correspondence of state, where it is not by name:

* `PaMmap`: the chain pmi_free, pmf_next, ... is the sequence `free`; `pm` is the
  handle; `top` is how far the allocator has taken charge of the segment; `used` is
  what callers hold and `lost` the pages of a growth that never completed, both kept
  for the properties.  All lengths are in pages.  System calls and malloc fail
  wherever the code tests for it.  Each function is one action: a segment has one
  writer and no signal handler touches it, and a process that is killed inside a
  function is the killed process after one of its partial outcomes.
* `PaFixed`: `word[a]` is the first word of atom a, `table` the pages that exist.
* `PaArb`: `header[a]` is the chunk header at atom a; `held` the runs of pages.
* `PaBitmap`: `chunks` and `data` are the two kinds of block.  A search is one step
  per pass through the label `restart` of pa_bitmap_find_next, so that its end is a
  matter of liveness.
* `PaIstr`: `text` is what was written, as block, offset and length; contents are the
  identity of the string.  `given` is what callers were told.
* `PaPat`: a key is a sequence of bytes, a bit is named by its number, a node has the
  bit it tests and two links; `added` is what callers were told is in the tree.
* `SlaxDebugger`: `dbg` is slaxDebugState, the debugger status, the stack and the
  breakpoints; `calls` is the engine's own nesting.  libxslt is external: it may call
  the handler for any instruction of the script, enter a template whenever it was not
  stopped, and leave its calls in order; after a stop it may still call the handler,
  as the comment at slaxdebugger.c:2278 warns.  An instruction carries the number of
  the stylesheet it belongs to.
* `SlaxProfiler`: time is a clock that the engine's work advances; wall time stands
  for all three times that are kept.
* `SlaxInput`, `SlaxLexer`: sd_buf is memory, and bytes past sd_len are what earlier
  reads left; `base` relates it to the file.  Characters are members of a small
  alphabet, a keyword is one letter.
* `SlaxMvar`: a document is a number, a node a document and a place; `persistRVT` and
  `fragment` are the heads of the lists that libxslt frees; freed documents stay, as
  not live.
* `XiSource`: `s` is the source over the file as it comes, `whole` one that had the
  file in memory from the start; every token is read by both.
* `XiTree`, `XiParse`: a parser is a record of nodes, stack, namespace map and names;
  `kept` says in terms of the tokens what the rules keep.
* `SlaxLoader`: a file name is a sequence of characters because its escaping is what
  can go wrong; a script is what it declares, uses and imports.
* `SlaxScript`: `tree` is under construction, `source` is what was written.  An
  expression is its form (with a ternary, a block, ...) and the variables in it.
* `SlaxJson`: texts are sequences of tokens that the grammar allows, produced one at a
  time; elements are records.
* `SlaxDb`: a handle is its file, its lock and its transaction; SQLite is external and
  modelled by what the driver relies on: a batch stops at the first failure, one
  writer holds the RESERVED lock, a commit waits for readers, a connection with
  statements left does not close.  Which rows conditions select (`Selects`), whether SQL
  takes them (`Accepts`), what they mean (`Meant`) and whether they need parentheses
  (`Plain`) are constants of the module; the runs give them the definitions of
  `SlaxDbWhere` (`ClauseSelects`, `TakesClause`, `CondMeant`, `Unambiguous`).  In `SlaxExt` the handles and the names of statements are called `bases`
  and `named`.
* `SlaxCurl`: an argument of a call is the sequence of its elements; a list of options
  of a handle is what a walk over it finds, `freed` says which lists begin with a freed
  node; `easy` is what libcurl's handle was told since its last reset.

## 3. The runs

| Run | Checks |
|---|---|
| `mmap` | NoOverlap: no page owned twice; InSegment: blocks lie inside mapping and file; SegmentSound: types, nothing in use without a file behind it, no page dropped, close unmaps every recorded piece; StoreSpec: `PaMmap` implements `PaStore` |
| `fixed` | ChainSound: the chain leads only to idle atoms; NothingLost: and to all of them; ElementsKept: an element keeps its place and contents |
| `bitmap` | BlocksApart: blocks serve one purpose; BitSetSpec: implements sets; FindsNext: a search returns the least member above its start; FindEnds: every search ends |
| `pdb` | HeadersSound: a name is a header and a header a name, in page 0; PoolSound: chunks apart, chains and headers agree, room enough; StringsKept: texts apart, each reads back; TreeAnswers, OverlapsRefused: the tree against an ordered set of keys |
| `running` | StateShared, NoDangling, RequestsHonoured, StopsWhereAsked: the debugger's stack is the engine's, nothing refers to a freed stylesheet, a confirmed quit or run holds, breakpoints stop; TimeAccounted: the profiler charges each tick once; DocumentsSound: values refer to live documents, each is freed once, immutable variables keep their value; StatementsTakeEffect: each declaration, set and append does to the variable it names what doc/constructs.rst and the comment on slaxMvarAppend say, with the value it was given, and nothing to any other, and the end of a template or of the run takes the values of what goes out of scope and of nothing else |
| `readers` | LexedAsWhole, TextCovered: tokens of SLAX as if the file were in memory, nothing skipped, each call advances; TokensAsWhole, TokensAdvance: the same of libxi; OutputReadsBack, StackIsPath: what the rules keep is written, the insertion points are the open elements; EnableNests, ScriptsArrive: hooks and directories after any switching on and off, a script arrives under the name it was asked for with the libraries it needs; JsonReadsBack, YamlNests: what is written reads back, names nest as the elements do |
| `script` | StatementsReadBack: the tree holds what was written; Scoped: every variable is declared where it is referred to; ImportsFirst: imports precede everything, in their order, but for what stands directly before a comment |
| `ext` | BitFunctions: agree with arithmetic on numbers and with bit by bit definitions; RowsAsAsked: a cursor yields rows of its own handle's database that its own find asked for, and find-and-fetch all of them; BatchesWhole: an insert goes in whole or not at all; TransfersAsAsked: a transfer with a URL uses its handle's and its own options and no others, and reports its own reply |
| `debugger_reload`, `script_sort`, `db_close`, `curl_headers` | four disagreements between the code and what it says of itself; see `findings` |

Bounds and why they are enough.  Widths are scaled down so that every boundary is
inside the instance:

* `mmap`: pages of 2 bytes, growth by 2 pages, requests of 0, 1, 3 and 5 bytes (none,
  part of a page, more than a page, more than a quantum), at most 9 pages: room for
  three growths, for splits of a chunk that lies between two others, and for the size
  limit to be met.  One address to map at is enough for it to run out.
* `fixed`: three pages of two atoms: the page of the null atom, one between, and the
  last; a table that is not a whole number of pages.
* `bitmap`: two bits to the unit, two units to the chunk, four chunks; numbers at both
  ends of units and chunks, a chunk that is never made, a number out of range.
* `pdb`: six names of two sizes, one not aligned, room for four or five; two atoms to
  the page and three slots, so several chunks to the page, one, and one of two pages,
  with requests on both sides of each border and above the limit; strings of half a
  page, a page, more, and of one byte, with table or index full; keys of up to two bytes
  that differ in the first, a middle and the last bit, four nodes: enough for a node to
  be hung above, between and below others.
* `running`: a recursive template with a call and its parameter on one line, two nested
  calls, one breakpoint at a time, three versions of the file of which the second has
  lost a node, a first reload that may fail; five ticks of the clock, two frames; one
  global, one local and one immutable variable, three documents, five statements.
* `readers`: files of three and four lines in a buffer that keeps six free and grows by
  twelve, so it shifts and grows inside every kind of token; documents of three pieces
  through a buffer of ten with reads of five; documents of five tokens with two scripts
  of rules; five calls of the loader with libraries in two directories, one in both;
  texts of JSON with up to four values and fifteen tokens.
* `script`: every sequence of up to four statements of nineteen kinds, with one unusual
  form of expression in a script.  Errors here come from pairs of neighbours and from a
  statement inside another.  Four is enough for two imports with a comment and a template.
* `ext`: words of 4 bits and strings of up to 5; two handles, two files, two cursors and
  two batches: enough for one handle to block the other, and for a cursor to be read
  while another is; three sets and transfers over two curl handles, with arguments that
  overlap, and replies in one and several chunks, without success, with an error code.

Fairness.  Only `PaBitmap` has any: weak fairness of FindStep.  pa_bitmap_find_next is
a loop on the processor without waiting, so a call that could take another pass does.
No other module states liveness: ParrotDB's calls are single steps, readers return
from each call (that each call advances is an action property), and in the debugger
and the extensions progress is up to the user, the script, the engine and servers.

Deadlock is not checked where the system ends: a table that was closed as often as the
bound allows (`pdb`), a debugger that was quit, a script that is over (`running`), a
file that was read (`readers`), a script of the greatest length (`script`), and calls
of extensions up to their bound (`ext`).

Assumptions on constants are named in the module that declares the constants and
evaluated by the runs: `MmapAssumption`, `FixedAssumption`, `BitmapAssumption`;
`PdbAssumption`, the conjunction of HeaderAssumption, ArbAssumption, IstrAssumption and
PatAssumption; `ScriptAssumption` and `KindAssumption` of the debugger;
`RunningAssumption`, of ProfilerAssumption and MvarAssumption; `LoaderAssumption`,
`CurlAssumption` and `DbAssumption`.  They say that sizes are positive and limits natural, that sets of
requests and names hold numbers, that arguments and what a script uses come in some order,
and what a `#define` or a `struct` of the code fixes: records of page 0 begin aligned, a
script refers to instructions it has.  `CurlAssumption` also says what the field `form` of a reply
means: it has a status and, unless that is an error, its data is `pairs` in that form.
`DbAssumption` also says that the WHERE clause made of a condition that needs no
parentheses, when SQL takes it, selects the rows the condition means.  The run `ext` checks
this with the clause of SlaxDbWhere for the conditions it asks.

All theorems listed in PROJECT.json hold for every value of the constants that satisfies
the assumptions above and, where one is named here, the hypothesis of the theorem.  Each
safety theorem is shown by an inductive invariant: the initial states satisfy it, every
action keeps it (one lemma per action), and it implies the property.

`PaMmapProofs`, the page allocator:

* `TypeCorrect`, `AtomsOwnedOnce`, `BlocksInSegment`: the inductive invariant `IndInv` is
  TypeOK, NoOverlap, InSegment and Backed.  NoOverlap alone is not inductive: a growth
  puts new pages behind the old end, which only InSegment says nobody owns; a reopened
  file gets its length from st_size, so InSegment needs that the file is at least as long
  as the mapping was; and an open that creates a file needs Backed, that nothing is in
  use then.
* `SegmentAlwaysSound` adds `Accounted` (a page below `top` is in use, on the chain or
  known to be lost: Conserved, said of each page), `HeaderPage` (a file with a header has
  its page 0, so an open that finds the file longer than the last handle knew adds no page
  twice) and `MappedKnown` (what is mapped is on record, or is one piece of a file).
* `ImplementsStore`: every step is a step of `PaStore` or leaves it unchanged.

`PaFixedProofs`, paged arrays:

* `ChainAlwaysSound`, `NoDoubleHandOut`: the invariant is TypeOK and ChainSound.  That every
  link leads to an idle atom is not enough: without that no two links lead to the same
  atom, handing out one would leave the other pointing to an atom in use; and without that
  only one link leads to a missing page, making that page would link its atoms twice.
* `NothingEverLost`: the property speaks of what is reached along the chain.  Its inductive
  form `Complete` does not follow the chain: every set that holds its head and, with an
  idle atom, the successor, holds all idle atoms.  `LowestFirst` is needed because
  pa_fixed_alloc_setup_page looks for missing pages only behind the one it makes.
* `ElementsStay`, an action property: callers hold atoms of existing pages (`Mapped`), and
  neither making a page nor chaining it up writes to another.

`PaBitmapProofs`, bitmaps:

* `BlocksAlwaysApart`: `OwnPlaces` says that a chunk has one place in one bitmap.
* `ImplementsBitSet`: with it a store into a chunk changes one member of one set; the rest
  is that a number and its place (chunk, unit, bit) determine each other.
* `SearchesAnswer`: `SearchOnTrack` says that the members above the start are those at or
  after the place the search has reached.  It holds between any two passes, with sets and
  clears by the caller in between.  Hypotheses: nothing is in the last chunk
  (`LastChunkEmpty`) and a first search starts at a unit (`StartsAtUnits`); beyond these
  pa_bitmap_find_next is wrong (section 5), and the invariant fails where it is.

`PdbProofs`, the other users of pages:

* `HeadersAlwaysSound`: each address a caller was given is the sum of the sizes before it.
  That headers are aligned and inside page 0 holds always; that names are unique where no
  name is cut off (`LongNames` without TRUE; section 5).
* `StringsAlwaysKept`: the invariant relates four tables: texts lie apart in their pages,
  the page table names the page of each, what is left of the last page is behind all its
  texts, and an index entry leads to the text its caller stored.  Hypothesis `OneOpening`:
  the table is opened once and one-byte strings are below half the range (section 5).
* `PoolAlwaysSound`: each run of pages is one large block or cut up for one slot, no header
  lies anywhere else, the chain of a slot holds each free chunk once, and a chunk in use
  has room for what was asked.  A double release is caught because a free chunk's magic
  number says so.  Hypothesis `RequestsFit`: the size plus its header neither exceeds 32
  bits nor rounds up to the number of pages that 16 bits cannot hold (section 5).

* `TreeAlwaysAnswers`: the invariant `TreeInv` says that there is a set of nodes, the
  members, whose keys are those that were added and which form a `Tree`.  The tree is
  not described by its shape but by what each member's bit and links mean.  A member that
  tests a bit stands for the keys that agree with its own below that bit; each of its
  links leads to a member that is one of them and has the bit as the side says
  (`Links`); from there the next later bit that is tested for such keys comes next, or
  none and the link is a thread back (`Reach`); no bit is tested twice for the same keys
  (`Distinct`); and where two members differ first is tested (`Branches`).  With that, a
  walk, at each place, has answered all tests up to its bit (`Walks`), whichever
  path it took, so the leaf it ends at agrees with a key at least as far as any member
  does (BestMatch).  Walks end because the tests ahead get fewer (WalksEnd).  Where the walk
  last turned is where the key's neighbour parts from it (BeyondFinds), so the neighbours,
  least and greatest keys and subtrees follow from the order of the bits, which is the
  order of the bytes (DifferOrders).  That an addition keeps the tree is PutKeepsTree:
  the node goes into the one link whose bits lie on both sides of the bit at which its key
  parts from the leaf found, and it parts from all others there or before
  (PartsFromAll).
* `OverlapsAlwaysRefused`, an action property, from the same invariant: the leaf that
  is found is a key that the new one overlaps, if there is any.
  Hypothesis of the last two, `KeysFit`: keys and prefixes have at most 256 bytes.  The length of
  a longer one does not fit the 16 bits of pa_pat_length_to_bit (section 5).

`SlaxRunningProofs`, debugger, profiler and mutable variables:

* `StateAlwaysShared`: the n-th frame has depth n - 1, and there are as many as open calls
  whose addFrame asked for a dropFrame.  To be inductive this needs `Within` and `Placed`:
  what the debugger refers to is in the stylesheet that runs, and no two breakpoints are
  at one instruction, also after a reload has moved them all.
* `NothingDangles`: stylesheets that were freed are older than the one that runs, and the
  one the next reload frees is that one.  Hypothesis: no reload but the first may fail;
  the run `debugger_reload` shows what happens otherwise.
* `RequestsAlwaysHonoured`: while a confirmed request waits, the status is QUIT and no flag
  and no marked frame is left that could take it away.
* `EveryStopTaken`, an action property, from the same invariant: only the handler moves the
  current instruction, and the one breakpoint there brings up the shell whatever the flags.

* `TimeAlwaysAccounted`: an instruction is being charged only inside the engine with the
  profiler on, and what was charged and what is owed together are at most the time run.
* `DocumentsAlwaysSound`: libxslt's memory is split: a set of documents, closed under the
  next pointer, is the context's, and a local variable that was given a block has a list
  of its own, which leads through containers of its shadow variable only.  The two kinds
  are disjoint, which is why no end of scope frees what another list frees.  A mutable
  variable refers to the last of its containers only, and what an immutable variable
  refers to is extended, never changed.
* `StatementsAlwaysTakeEffect`: `SlaxMvar` implements `MvarSpec`, and each declaration, set
  and append is the step of `MvarSpec` for the variable and the value it names: what the
  mutable variables hold is read off the containers (`AsHeld`), and each action is shown
  to change it for one of them only.  Hypothesis of both: no immutable variable is declared by another file
  (`Imported` and `Others` are disjoint), because slaxMvarCompile accepts a set on one that
  is (section 5).

`SlaxLoaderProofs`, loading:

* `EnableAlwaysNests`: the invariant `LoaderInv` says of the lists of slaxdyn.c that, until a
  shutdown leaves libraries open (section 5), a library is in the list exactly if it was
  opened once, and that its namespace was tried (`Held`): a script is loaded twice
  (LoadedTwice) and libraries by several scripts, and only the namespaces tried keep the
  second load from opening a file again.  Turned off nothing is open, and turned on the
  lists are set up; without the one slaxDynInit would forget open libraries, without the
  other slaxDynClean would keep directories.  The hooks nest because each is saved only
  while it is not our own.
* `ScriptsAlwaysArrive`: a script that loads has the functions of every extension that it,
  or an element in it, declares or that it uses by a well-known prefix, provided a library
  with an initializer and functions can be found and the namespace was not tried before
  (StepExtensionsArrive).  Parsing only adds namespaces and extension prefixes to the root
  (Extends, ParsedRooted), so those of the script are among what slaxDynFindNamespaces
  gives (NamespacesAreSequence), and trying the others first takes no function away
  (Arrive, LoadKeeps).  An import finds its file (StepImportFindsFile) because the loop of
  slaxLoader that reads a url, run over what slaxElementAddEscaped wrote, gives the name
  back for every name (UnescapedIsName): after each character of the name the loop stands
  where its escape ends, which is where FlattenIsSequence says the next one begins.

`SlaxExtProofs`, curl and db:

* `TransfersAlwaysAsAsked`, of transfers with a URL, without the upload flag and without the
  body where contents and parameters are both given (section 5 says what is done there):
  the invariant `CurlInv` says that a handle's options match what
  its curl:sets gave (`Matches`): of a string the one whose place goes before all others,
  every flag, and of a list everything.  It is kept element by element and argument by
  argument (ElementParsed, ArgParsed, ArgsParsed), the last argument first.  A transfer
  parses its own arguments on top of a copy, and the easy handle is reset before it is told
  anything, so it does not matter what the one before left there (ResetForgets).
  Hypothesis `PlainSets`: no header, parameter or recipient is set on a handle.  With one
  the copy shares its first node and loses the others, which the run `curl_headers` shows.
* `BatchesAlwaysWhole`: the invariant `DbInv` says that only a connection in a transaction
  has a lock, that its copy and every file hold rows of batches that went into that file
  (`TableSound`), and of each batch that it is in its file whole, less what was deleted, or
  not at all (`BatchSound`).  A batch that fails leaves its transaction open, and nothing
  here commits one that was left open: what is committed is of connections without one
  (WritesKeep), whose copy is the file itself.  A batch goes in under a number that no row
  and no deleted row has (BatchMore), so a key that is deleted and inserted again is not
  taken for the old one.
* `RowsAlwaysAsAsked`: the invariants `StmtInv` and `AnswerInv` say that a statement that has
  the name of a cursor has its handle and its find, and that the rows it has left are of the
  database of that handle and as that find asked (`RowFor`).  fetch looks a statement up by
  name alone and does not compare handles, so this rests on every statement having a name
  of its own (FindStmts).  A row that was read before a delete or a close is still one that
  was asked for, since handles keep their files and batches their numbers (`Grown`).  What a
  find hits is what its conditions select (HitsAreSelected, by induction over the rows,
  SortedHasAll), and without a limit all of it is returned (ResultIsOfHits).

Recursion.  The library's induction theorems take an operator as parameter, which the
provers cannot instantiate, so induction goes over sets: `ProofFacts` derives from the least
element of a set of naturals (LeastNatural) that a set with 0 that is closed under successor
contains all naturals (SetInduction), and that a function defined by recursion on the
naturals exists (RecursionExists).  With these the powers of two of the slots, offsets of
headers, totals of the profiler, positions in chains, walks down a patricia tree, and what
is loaded or parsed one after the other are reasoned about.  What a model computes with
RECURSIVE operators is out of reach.

Only model-checked: FindEnds (liveness); the bit functions; and what the runs `readers`,
`script` check of the modules `SlaxLexer`, `XiSource`, `XiTree`, `XiParse`, `SlaxTree`,
`SlaxScript` and `SlaxJson`, which are recursive or are composed with one that is.  That the
clause `SlaxDbWhere` builds selects what conditions mean is an assumption, which TLC
evaluates for the conditions of the runs.

## 5. Known departures

Four are runs (PROJECT.json, `findings`).  The others were met while modelling.  They lie
outside the runs' constants or the properties' conditions, which say what they leave
out.  Where a definition is named, TLC refutes it when it is checked under the
constants given.

ParrotDB:

* pacommon.h:142: addresses are computed in 32 bits, so pages 4 GB apart coincide
  (`AddressesDistinct` in `PaMmap` with `AddrWrap = 4`).
* pammap.c:229: pmi_len is never brought up to date (`HeaderLenCurrent`); the chain is
  not kept in order of size (`FreeListBySize`).
* pammap.c:492: a name of 64 bytes or more gets a new header at each open
  (`OneHeaderPerName` in `PaHeader` with a long name).  pammap.c:531:
  pa_mmap_next_header, which has no caller, skips the first header.
* pafixed.c:122: a table opened again in its segment forgets every atom (`Persistent`).
* paarb.c:167: a block that rounds up to 65536 pages, which PA_ARB_MAX_LARGE allows for
  sizes in its last page, is recorded as 0 pages, and its release gives nothing back
  (`LargeRecorded`); paarb.c:36: sizes beyond 32 bits are truncated before the slot is
  chosen (`RoomEnough`).
* pabitmap.h:243: a search from a number whose chunk does not exist passes over the
  members of a later chunk below the same offset (`FindsNext` with `SetNums = {8}`,
  `Starts = {4}`); pabitmap.h:273: one that leaves the last chunk starts over
  (`MaskIsNoop` with numbers in the last chunk); pabitmap.h:297 tests the wrong pointer.
* paistr.c:126: after a reopen strings are accepted and not stored (`ReadsBack`).
  pacommon.h:180: one-byte strings from 0x80 up do not read back.
* papat.c:236: pa_pat_open resets the root, so a reopened tree is empty; a refused
  addition leaks its node; pa_pat_node_in_tree is TRUE of an unlinked node and FALSE of
  the first; a key of more than 256 bytes wraps its length; papat.c:953: the search for
  the next larger key may return a later one (`GetnextIsNext`).

Debugger and profiler:

* slaxdebugger.c:2533: a quit is forgotten when a frame that over or finish marked
  unwinds (`QuitIsFinal`).  :727: `break` at the pending location of `continue` is
  refused as a duplicate and cancels that stop.  :1836 offers to "Reload and restart",
  but nothing is restarted.  :2345: `over` of what is no call leaves DSF_OVER set.
  :2768 and :2843 mask with RESTART & DISPLAY, which is 0.  :2337: a breakpoint with a
  false condition turns a pending step into a continue.  After "quit" ends a run with a
  reload pending, ds_ctxt points to the freed context.
* slaxprofiler.c:333: a report divides by totals that may be 0 (`ReportAnyTime`), against
  doc/distribution.rst:728; it reads sp_data past sp_lines when the file has more lines
  than the last node; slaxProfClose leaves slax_profile dangling; a failing slaxProfOpen is
  not noticed; the report's file is never closed; instructions of other files are not
  charged.

Lexer:

* line counts drift after quoted strings of several lines; "/*/" is a whole comment; a
  long line can be split inside a word; look-ahead indexes are stale after a shift;
  `= call` at the end of a line is not seen as a keyword; SDF_STRING and `//` comments are
  never enabled.  slaxlexer.c:664: a file with byte order mark and "#!" starts its
  second line late (left out of the inputs).

Mutable variables:

* slaxmvar.c:612: a string appended to a string is joined with it, as the comment at
  :577 has it and `MvarSpec` follows; doc/notes.rst:234 says that the old value is discarded,
  the new one assigned and an error raised (`StringsAreAssigned`).
* `append` of a fragment to the variable it came from loops for ever; a reference to a
  whole fragment grows when its variable is appended to (against doc/notes.rst);
  slaxMvarNewContainer overwrites the next pointer of a persistent fragment; a node
  set is copied up to its first fragment; mvar names with a prefix are never found; set
  of a string on a param or an imported variable is accepted.

libxi (which is in the middle of a conversion):

* xisource.c:334 answers what one read gave, so a short read looks like the end; a mapped
  input reads as empty, and destroy frees curp; the data of CDATA and DTD tokens stays
  where later reads move it; white space is judged by a byte past the data; names end
  at a blank only; "]  >" leaves ">" as text; an unterminated internal DTD dereferences
  NULL; "&apos;" is never matched.
* xiparse.c:250: a namespace after attributes drops the attributes before it; NSPREF
  nodes are never resolved and stop the output; use-tag with DISCARD sets the old name
  on the parent; CDATA is only logged; prefixes of attributes and unknown prefixes are not
  printed; the depth of the stack (254) is not checked.  xirules.c:210 lets states 0 and
  max pass; a rule before any state, and a state without id, dereference NULL; states'
  default rules and XRF_MATCH_ALL are never used.

Loader and libraries:

* slaxdyn.c:104 marks a namespace before its library is found, so it is not tried again when
  a directory is added; slaxDynMarkExslt's URIs match nothing; slaxDynAdd before slaxEnable
  makes directories appear twice; SLAX_CLEANUP leaves libraries, the entity hook and the
  include flag as they are; slaxIncludeAddPath skips one-letter directories before ':';
  slaxloader.c:1079 unescapes digits only; slaxLoadBuffer frees its caller's input;
  slaxSlaxToXpath uses a NULL context after an error.

Tree building (beside the order of sorts, a finding):

* slaxtree.c:1029: a statement that a comment follows is not looked at, so an import stays
  behind it, against the comment at :1014 (`ImportsMovedUp`), or passes the import it is; an
  element
  argument of trace, set, append or param is put into the tree only before the next
  node; inside a block of if, else or var it is moved in front of the whole statement
  (slaxloader.c:497); a ternary in the condition of an if puts a variable inside
  xsl:choose, in a `while` it is evaluated once; pending nodes before a text go inside
  xsl:text.

JSON and YAML:

* quotes and backslashes are not escaped; with unquoted names, true, false, null and names
  with '-' or '.' do not read back; an empty object is written as ""; a number without
  text passes NULL to strlen; arrays accept missing commas; YAML loses scalars and arrays
  in arrays, and a member that begins with a container nests wrongly.

Extensions:

* bit: from-hex takes any digit 'e' for an exponent and gives 0.
* db: a failed insert leaves its transaction open, so later inserts on the handle fail and
  later deletes are lost at close; `or` inside `and` loses its grouping; an incomplete
  condition loops for ever; OFFSET without LIMIT is an error; of several conditions at
  the top only the first or none counts; a failed open leaves its handle; fetch does not
  check whose statement it reads; find-and-fetch of a string returns no rows; limit and
  skip are copied the wrong way; create without fields dereferences NULL; the status is
  `<success>` where the documentation says "ok".
* curl: beside the finding, ext_curl.c:842 returns FALSE, which is CURLE_OK, for a missing URL,
  so that the result is a success, where the comment at :839 calls it fatal
  (`MissingUrlFails`); :915 sends the parameters of a post or put in place of its contents,
  against doc/extensions.rst:133 (`ContentsSent`); the upload flag of doc/extensions.rst:385 is
  stored and never read (`UploadsAskedFor`); headers and parameters of a handle that has one of them are
  sent twice (ext_curl.c:868 adds them to those of the copy); a reply without a status line is judged by the code of an earlier one
  (:1273); an upload reads a variable whose block has ended (:881); the To: line names only
  the first address (the NUL is part of the data); '%' in a parameter and names of
  parameters are not escaped; an email without sender or subject dereferences NULL; a line
  without '=' in data of the formats name and url-encoded becomes part of the next name.

## 6. Not modelled, and the plan

Not modelled are the parts with status `not_modelled` in PROJECT.json: `slaxwriter.c` and
`slaxext.c` (text conversion and calls into libxml2, without state of their own to speak
of), `slaxproc.c` (options and one call sequence per mode), input and output, strings, and
the extensions exslt, os and xutil.  In modelled parts: what commands print, the
profiler-only mode, indexes of local variables in the debugger; out-of-memory paths
outside ParrotDB; JSON inside SLAX statements; column types of db; the limit and skip
that delete and update add to their statements (db_driver_sqlite.c:349, :435; SQLite takes
them only when built to), and the read lock that an open transaction keeps; the verbose dump
and the errors option of curl.  A comment is modelled at the top of a script only, where the
lexer adds it to the tree itself (slaxlexer.c:1026), before waiting nodes.

Next, in this order:

1. `SlaxWriter`: braces, quotes and operator precedence of the writer against
   `SlaxScript`'s statements: what is written as SLAX is read as the same tree.
2. The stateful functions of `slaxext.c` (regular expression caches, syslog, input
   buffers) and the streams of `ext_os.c`.
3. libpsu's base64 and the string segments of `slaxstring.c` as operators with reference
   definitions.

Theorems to come: of `SlaxInput`, that a shift or growth of the buffer keeps every position
inside the text, with a specification of its own beside the lexer's.
