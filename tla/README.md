# libdvdnav, modelled and proved in TLA+

libdvdnav lets an application play a DVD without knowing the disc's structure.
The application polls `dvdnav_get_next_cache_block` for the next *event* (a block
of stream data or an announcement) and steers playback with calls such as
`dvdnav_menu_call` or `dvdnav_button_activate`.  This directory holds TLA+
models of the library, TLC runs that check them on small instances, and TLAPS
proofs for every size.  Paths below are relative to the repository's `src/`.

    tlc -workers 2 -config Player_calls.cfg MCPlayer      # one run
    tlapm ReadCacheProofs.tla                             # the proofs of a module

## 1. Inventory

### Components

| Component | Source | State | Operations | What makes it correct |
|---|---|---|---|---|
| Event engine | `dvdnav.c` | `position_current`, `position_next`, `vobu`, `pci`/`dsi`, `skip_still`, `sync_wait`, `sync_wait_skip`, `spu_clut_changed`, `started`, `file`, `last_cmd_nav_lbn` | open, close, dup, reset, clear, `get_next_cache_block`, `get_vobu` | events in order; data of the cell the VM is in; cells without gaps; always gets on |
| Read-ahead cache | `read_cache.c` | ten chunks (buffer, size, label, read count, valid, usage count), read-ahead size, `freeing` | new, clear, pre-cache, read block, free block, free | a lent block keeps its content; nothing of another file is served; freed once, last |
| Navigation calls | `navigation.c` | none of its own | still/wait skip, title/part/program play, go up, stop, queries | a call moves the VM and leaves the engine consistent |
| Menus and buttons | `highlight.c` | none of its own (button register, `position_current.button`, `last_cmd_nav_lbn`) | select, activate, activate a command, move, mouse | commands of a menu act on that menu |
| Searching | `searching.c` | none of its own; the time map, address map | time, sector, program search, menu call | lands on a VOBU of the title; resume point kept |
| Virtual machine | `vm/vm.c` | registers, domain, VTS, PGC, PG, cell, block, resume information, IFO handles, `hop_channel`, `stopped` | start, stop, reset, jumps, links, next cell, copy/merge, position | structure stays in range; resume returns where it left |
| Command decoder | `vm/decoder.c` | 16 general and 24 system registers (16 bits) | `vmEval_CMD` | comparisons, arithmetic, links as the DVD defines |
| Block remapping | `remap.c` | ordered table of ranges | parse, add, lookup | a block is mapped by the one range that holds it |
| Settings | `settings.c` | read-ahead flag, regions, languages, PGC positioning | set/get | each sets its own |
| Command printer | `vm/vmcmd.c` | none | print | (tracing only) |

### How they interact

Player thread: `dvdnav_get_next_cache_block` takes `vm_lock`, asks the VM for
its position (`vm_position_get`), compares it field by field with
`position_current`, announces the first difference, and only when nothing
differs reads a NAV packet or a block through the cache.  The other threads move
the VM under the same lock, so they communicate with the player only through the
VM's position: every jump is noticed as a *difference*, and a difference that is
missed is an announcement that never comes.  Several forced differences (fields
of `position_current` set to -1) make one announcement bring others after it.

The cache lends pointers into its chunks.  The application gives them back with
`dvdnav_free_cache_block` from any thread, under a lock of the cache's own, and
may do so after `dvdnav_close`: the cache, and the `dvdnav_t` that it keeps a
pointer to, are freed by whoever finds no chunk memory left.

### What is hard here

* flags accessed without `vm_lock` (`skip_still`, `sync_wait`, `sync_wait_skip`,
  the button register) by the user's thread while the player reads them twice in
  the same call;
* checks made before the lock and used after it (`button_activate`, both searches);
* two-section calls (`dvdnav_reset`) and two-thread endings (`read_cache_free`);
* counters that are compared only for difference (`hop_channel`, `cell_restart`);
* errors on the way: failed and short reads, NAV packets that do not decode,
  files that do not open.

`PROJECT.json` lists each hazard at its line with the properties that watch it.

## 2. Modules

| Module | Lines of thought |
|---|---|
| `BlockLoans` | abstract: what lending blocks promises the application |
| `ReadCache` | the cache, one action per locked section and per unlocked access |
| `ReadCacheInv` | its inductive invariant, for TLC and TLAPS |
| `ReadCacheProofs` | theorems and proofs |
| `MCReadCache` | TLC instances |
| `EventProtocol` | abstract: in what order things are announced before data |
| `Player` | the event engine, the calls, and the VM's position |
| `PlayerProofs` | its types are kept, by every event and every call |
| `PlayerAnnounces` | it implements `EventProtocol` |
| `PlayerData` | it delivers the cell the machine is in, to its end |
| `MCPlayer` | three small discs |
| `VM` | the virtual machine: links, jumps, calls, resumes, copies over the structure of a disc |
| `VMInv` | discs that use commands where DVD-Video allows them, and the inductive invariants on them |
| `VMProofs` | theorems and proofs about the machine on such discs |
| `MCVM` | a small disc with that structure |
| `Decoder` | the command decoder: one step per command over the registers |
| `DecoderProofs` | theorems and proofs about it |
| `MCDecoder` | blocks of commands and register contents |
| `Search` | positions within a title: seeking by block and time, reported position and time, angles, chapter times |
| `SearchProofs` | theorems and proofs about them |
| `MCSearch` | three chains with and without angles, and titles made of them |
| `Remap` | the table of block ranges that are not played |
| `Buttons` | selecting and pressing the buttons of a menu |
| `Streams` | the audio and subpicture streams of a chain and their announcement |
| `PartsProofs` | theorems and proofs about `Remap`, `Streams` and `Buttons` |
| `MCParts` | `Remap`, `Buttons` and `Streams`, one of them in each behaviour |

`Player`, `VM`, `Search`, `Streams` and `Buttons` look at the same machine from
different sides: `Player` at positions and the order of events, with every race;
`VM` at the structure of the disc; `Search` at sectors and times within one
chain; `Streams` and `Buttons` at single registers.  Each takes what it leaves out as
free choice (`Player` jumps to any cell, `Buttons` lets commands set any button).

### ReadCache

Variables carry the names of the fields of `read_cache_chunk_t` and
`read_cache_t`.  A NULL `cache_buffer` is `cache_malloc_size = 0`.  The content
of memory is a function from slots of `DVD_VIDEO_LB_LEN` bytes to the disc block
read there, or `Junk`.  A pointer handed to the application is a handle; `lent`
remembers its chunk, its slot and the block it was asked for.

| Action | Code |
|---|---|
| `SetReadahead` | `dvdnav_set_readahead_flag` |
| `ChangeFile` | a VTS/domain change or `dvdnav_clear`, with `dvdnav_read_cache_clear` |
| `PreCache` | `dvdnav_pre_cache_blocks`: best fit, largest reallocated, first empty, or nothing |
| `Lookup`, `Fill` | `dvdnav_read_cache_block` on a hit: to the unlock, and the read ahead after it |
| `FreeBlock`, `CheckFreeing` | `dvdnav_free_cache_block`: the locked part, and the test of `freeing` after it |
| `Close`, `Sweep`, `Scan`, `Destroy` | `dvdnav_close` and the phases of `dvdnav_read_cache_free` |

A miss changes nothing in the cache (the block is read into the caller's
buffer), so it is no action.  Reads are of one block, as `dvdnav.c` asks.  When
`PreCache` finds no chunk the code changes nothing: no action either.
`Fill` does with the result of `DVDReadBlocks` what the code does, adding it
unchecked to `cache_read_count`.  A NAV packet read through the cache that does
not decode is not given back by the caller (`BadNav`).

### Player

The disc is a function from cells to what a position tells of them (VTS, domain,
cell number, first sector, VOBUs, still, menu, angles).  The VM is reduced to what
`vm_position_get` reads plus resume information and `hop_channel`; commands lead
to any cell (`Jumps`), resume (`Resumes`) or stop (`Exits`), which includes
whatever the disc's programs do.

Each test of `dvdnav_get_next_cache_block` is an action, its guard the failure of
the tests before it: `Stop`, `HopChannel`, `Highlight`, `Wait`, `VtsChange`,
`CellChange`, `ClutChange`, `SpuChange`, `AudioChange`, `StillFrame`, the end of a
cell, `ReadNav`, `ReadBlock`, each with its error return (`...Fails`).  The end of
a cell reads three flags that other threads write without the lock, so it is
three steps with `vm_lock` held: the decision to leave or to wait (`LeaveCell`),
the decision about the still (`NextCell`, `HoldStill`) and the return
(`CellLeft`).  The user interface runs one call at a time; a call that accesses
state outside the lock is split there (`StillSkip` then `SkipWrites`, `Reset` then
`Clear`, `SeekBegins` then `Seek`, `PressBegins` then `Press`, `Select` then
`ForceHighlight`).  `told` and `heard` are history variables: what was announced,
and the last sector of the cell that was handed out.

Assumed of the application: it calls nothing between the two sections of
`dvdnav_reset`, and only polls or plays a title after it.  (A poll between the
sections finds a machine that counts as started, with cell number 0 and the
program chain of before, and looks at the cell in front of the first.)
`vm_jump_prev_pg` over the start of a chain plays two cells and so counts two
restarts; Player counts one.

### VM

`vm` is `vm_t` with its `dvd_state_t`, under the names of the code: domain,
`vtsN`, the chain, `pgcN`, `pgN`, `cellN`, `blockN`, SPRM 4 to 8, the resume
information, `stopped`.  A `pgc_t` pointer is the pair of its table and its number, so
that a chain of another table is told from the one of the same number; `vtsi`
is the VTS whose information file is open, 0 for none.  The disc is given by constants: the
tables of chains (`Pgcit`), `tt_srpt` (`Titles`) and `vts_ptt_srpt` (`Ptts`).  A
chain has its program map, its cells with their place in angle blocks, its
neighbours, and for each block of commands the *set* of links it may yield: the
registers that decide between them are not modelled.

`process_command` is a loop over links that calls the `play_*` functions, which
call each other in tail position.  `link` is the link or function due, and each
link and each function is one action: `PlayPGC`, `PlayPG`, `PlayCell`,
`PlayCellPost`, `PlayPGCPost`; `LinkC` to `LinkCN`, `JumpTT` to `JumpSS_VTSM`,
`CallSS_*`.  Where the code asserts that a chain or menu is found, or that a chain
names another one, the program aborts without it: the action has no step there
(`MustChain`, `LinkPGC`, `JumpSS_VTSM`), so a link stays due and the run ends in a deadlock.
`AssertsHold` states these assertions and those about domains, programs and cells,
of the link that is due.  It leaves out those on what the model takes as given: aspect
ratios, the modes and types of cells in blocks, a First Play chain that is there, that
the titles asked for by number are in `tt_srpt`, and that files open.

The helpers carry the names of the code's (`SetPgcn` for `set_PGCN`, `SetRsm` for
`set_RSMinfo`, ...).  A call is an action that sets the
first link due (`NextCell`, `ExecCmd`, `JumpTitlePart`, `MenuCall`, ...) and one
that acts on the outcome (`Finish`, `FinishBlock`, `PlayAnyway`, `FinishTry`,
...); `todo` says which.  `dvdnav_menu_call` and `dvdnav_next_pg_search` work on
a copy of the machine: `orig` keeps the machine meanwhile, and `Return` merges
or `Discard` throws the copy away.  `left` is a history variable: the cell and
block last played in a title.

Assumed of the disc: what DVD-Video says of where commands may be used, as far as
the code relies on it.  These are ASSUMEs of `VMInv`, evaluated for the disc of
`MCVM`: tables are those of the manager and of title sets (`TableAssumption`);
programs begin in cells of their chain, the first one in the first cell, and the
First Play chain has commands only (`ChainAssumption`); a command names a chain,
program, cell, part or menu that exists and comes from a domain it may come from, and a
link to the next, previous or upper chain comes from a chain that names one (`Fits`;
a chain it names may be missing: the code then ends playback); links that need a
playing cell (`LinkNoLink`, `LinkRSM`, `LinkTopC`, `LinkNextC`, `LinkTopPG`,
`LinkNextPG`) come from buttons and cells only,
those to the cell or program before (`LinkPrevC`, `LinkPrevPG`) from cells that have
one; `CallSS` without a resume cell does not come from post commands
(`CommandsFit`); the chain before another has programs, and pre commands that fall through
(`PrevFits`, see finding 14); parts and the programs asked for exist
(`PartAssumption`, `ProgramsAssumption`); the chains of a title carry its number
(`id`, the title number of the chain's entry) and lead to chains of the same title only,
a title is listed once, and the parts of a title that begin in one chain are in the order of its
programs, a chain's first part at its first program (`TitleAssumption`); programs are
in the order of their cells, and the cells that angles put in the place of a program's
first cell belong to that program (`ProgramAssumption`).
Assumed of the application: it makes calls of a machine that is running
(`dvdnav_part_play` on one that is not started is `Start` and then the call), and
asks `dvdnav_program_play` for chains and programs that exist.  Assumed of the
file system: information files open.

### Decoder

`vmEval_CMD` is `Step` once per command and `Finish`; `Tick` lets a second pass
between two commands.  A command is the record of the fields that `vm_getbits`
cuts out of its eight bytes; where the fields lie differs between the
`eval_*_version_*` functions and is all they differ in.  Registers are words
modulo `Words`; one in counter mode has the second it started from, and reading it
writes back what it shows (`WriteBack`), as `get_GPRM` does.  Operand numbers from 24 on
read the general registers that follow `SPRM` in memory, as `eval_reg` does.  Two results
are sets: the random number (its product is a float and may round up to data + 1) and products
an `int32_t` cannot hold (`Product`).  `SkipsChangeNothing` and `SetsInRange` leave out
commands with such an operand number: what it reads depends on which counters were read
before, so there is no one value the operand has.

### Search

One chain plays: its cells, its address map (`vobus`) and its program map.
`ScanAdmap` is `dvdnav_scan_admap`, with the last entry for a block it does not
find; `Goal` is the loop of `dvdnav_sector_search` with its rule for seeking
forward; `Before`/`Holding` are the sums over cells (`SumBefore`) that position,
sector and time search share; `Outer` are the cells that count one of each block.
`Chapters` is `dvdnav_describe_title_chapters` over a title, a sequence of parts that may lack
a chain, programs or cells, with the same sums (`SumTo`).  A sector search is two actions because the code asks for the
position under one lock and jumps under another; blocks are read between.  The
engine is here a reader of VOBUs that follows the angle chosen (`Followed`, from
`dvdnav_get_vobu`): the one selected when it read the last NAV packet, `chosen`.  After a
seek it is two polls behind the machine.  `Hop` announces the seek; in a title of several
angles it reads the VOBU the seek led to and moves the machine to the next one of the angle
(`dvdnav.c:512-543`), if there is one.  `Arrive` is the change of cell and the NAV packet
there.  Calls may come between them.  So `SeekLands` and `TimeLands` say where a search puts
the machine, and in a title of several angles playback begins one VOBU later.  `asked` remembers what the last search said.  Offsets keep
the width of the code: a target is a number modulo `Wrap`.

Assumed of a title (ASSUMEs of `Search`): VOBUs lie one behind the other within
their cells and every cell begins with one (`VobusInOrder`); cells that are not
other angles of a block begin behind all cells before them (`CellsInOrder`); programs
begin with the first cell and follow one another (`ProgramsInOrder`); an angle block has a
cell for each angle of the title (`BlocksWhole`); sectors are less than half of `Wrap`;
of the chains of `Titles` only that programs are in order (`TitlesAssumption`).

### Remap, Buttons, Streams

`Remap`: `AddNode` is `remap_add_node` with its binary search and merge,
`RemapBlock` the lookup the engine makes at the end of a VOBU; a line is accepted
when a word follows its last number, as `parseblock` demands.

`Buttons`: a call is a function from state to states (`Selected`, `Activated`,
`AutoAction`), the loop of `dvdnav_mouse_select` a function of how many buttons were looked at.  A button number out of
range finds one of `Strays`, what may lie in memory there.  The application may
pass an older copy of a screen.

`Streams`: the registers, the control words of the chain, and the comparison of
registers that decides about announcements.  Menus know stream 0 only.

## 3. Runs

| Run | Instance | Shows |
|---|---|---|
| `ReadCache_faults` | 2 files, 1 chunk of up to 3 blocks, read-ahead 1 or 2, failing and short reads, bad NAV packets | `UsageIsLoans`, `Coherent` (a valid chunk holds blocks of the open file), `PinnedStays` do not depend on reads succeeding |
| `ReadCache_close` | 2 threads, 2 chunks of up to 2 blocks, 2 loans | `HeldIntact`: a lent block keeps its content through reuse, reallocation and close; `FreedOnlyWhenReturned`; `CloseFrees`: everything is freed in the end; `LendsBlocks`: refinement of `BlockLoans` |
| `Player_calls` | menu and angle title, failing reads, every call but menus and stop, at any time | `AnnouncesFirst` (refinement of `EventProtocol`), `DataOfCell`, `PlayedInFull`, `ResumeInCell`; `StillAtEnd`: a still is reported at the end of the cell that carries it or before the first block of a cell, never in the middle of one; `StartsWhereVmIs` |
| `Player_menus` | still menu and two title cells, answering user | `KeepsPlaying` under fairness; `StartsWhereVmIs` with stops: a restarted machine plays the first cell from its start, unless the positions before and after the stop agree |
| `VM_disc` | 2 VTS, 9 chains, 3 titles, 2 angles, every link and call | `InCell`: after each call the machine is in a cell it can play; `AssertsHold`: the assertions of `vm.c` about programs, cells, domains, chains, menus, titles and resumes hold; `RegistersAgree`: SPRM 4 to 7 name what plays, and no part exactly behind the last part of a chain; `ResumePoint`: a resume returns where the title was left; `TriesSafely`: a menu or program that is not reached leaves playback alone; `PartPlayed`: pre commands cannot divert a title that was asked for |
| `Decoder_blocks` | words of 3 bits, every command alone with and without seven comparisons, every block of three out of ten commands, four contents of the registers | `SetsInRange`: sums and products stick at the largest word, differences at zero, division by zero gives the largest word, swaps exchange; `SkipsChangeNothing`: a failed comparison leaves only the mode of a register changed; `LinksFollowed`: which links reach `process_command`; `BlockEnds`: loops end |
| `Search_title` | three chains: plain, an angle block in the middle, one at the end; 4 times, 4 offsets from three origins; seven titles over five chains for the chapter times | `SeekLands`, `ForwardMovesOn`, `TimeLands`: where searches go; `PositionWithin`, `TimeReported`: what is reported; `AngleFollowed`: which angle is shown, behind searches too; `ChaptersCover`: chapter times |
| `Parts_alone` | 7 ranges in any order and repetition up to 5; two screens; five chains of streams | `SkipsListedOnly`, `SkipsAllListed`: exactly listed blocks are skipped; `ButtonsObey`: only buttons that exist are pressed, and a screen that was left is not pressed again; `StreamsCurrent`: streams announced are those of the chain |
| `ReadCache_fault_reported` | failing read | **violated** `HeldIntact` |
| `ReadCache_two_closers` | two threads | **violated** `NoUseAfterFree` |
| `Player_missed_wait` | two menus in a row | **violated** `WaitAtMenuEnd` |
| `Player_wrong_file` | two title sets, the second with angles; a part is played and sought in between two polls | **violated** `ResumeInCell` |

### Bounds

* `NChunks` 1 or 2 for `READ_CACHE_CHUNKS` (10): reuse, reallocation, allocation
  and exhaustion need two; `MinAlloc` 1 or 2 for 500; `AheadMin`/`AheadMax` for
  4 and 512; `MaxSector` and `Cap` bound the disc and a chunk.  The proofs cover
  the real numbers.
* `HopSeek` is 2 for 0x1000 and `MaxHop` 1 to 3, so that one jump and one seek,
  or several jumps, fall between two polls; `vm.hop` is not reset, so it bounds the calls
  that hop in a behaviour.
* `RestartMod` 3 for 2^32: the count wraps, and `MayJump` allows at most one
  jump fewer between two `CELL_CHANGE` events than would make it come round,
  which for the code means 2^32 jumps between two polls.
* A cell has one or two VOBUs of two blocks (a NAV packet and one block): gaps,
  the middle of a cell and its end all occur.  One button and one stream number
  in the runs; that a button or stream is announced again shows through the
  forced -1.
* `Calls` lists the calls an instance makes; `Player_calls` leaves out `stop`
  and `exit`, which are in `Player_menus`: a stopped VM restarts with a restart count that can agree
  with the old position, and then playback goes on with a gap.
* `Words` is 8 for 2^16: every limit of the arithmetic (largest word, zero, the
  largest product) is reached from operands 0, 1, 3 and 7.  `MaxTotal` is 5 for
  100000, more than a block of three commands without loops executes; `MaxClock` 1
  lets a counter show two values during a block.  The proofs cover the real numbers.
* `Search_title`: VOBUs of one to three blocks, so that a target falls on the first, a
  middle and the last block of one; programs of one and two cells; offsets that
  leave the chain at both ends; `Wrap` 64 for 2^32, more than twice the last
  sector, as the code's sizes are of their width.
* `Parts_alone`: two programs with 5 and 2 ranges overlap in every way two and three
  ranges can (before, adjacent, inside, across several entries, ending before the
  start); two screens with two and one buttons have all kinds of neighbours
  (existing, 0, out of range, automatic); chains with no stream, with the first
  logical stream missing, and with different physical streams for one logical number.

* The disc of `MCVM` has one of each thing that the code tells apart: a chain with a
  normal cell, a program of several cells and an angle block at its end, a
  chain of one cell, one without cells or programs, menus of the manager and of
  one VTS, a VTS without menus, parts that do not begin at every program.
  `MaxBlock` 1 tells the start of a cell from its middle, which is all a block
  number is used for.

Deadlock is checked in every Player and VM run.  The cache runs say `CHECK_DEADLOCK
FALSE` because after the close and the last return there is nothing to do.

### Fairness

`ReadCache`: a call once begun ends (the library's own steps), and the
application gives back what it was handed, as `dvdnav.h` requires.  `Player`: the
application keeps polling (`GetNextBlock`), ends the calls it makes, and answers
a still or wait it is told of again and again (strong fairness, because another
call may take its turn).  No fairness is assumed of the disc or of the
user's other calls.  `Decoder`: the call goes on (`Step`, `Finish`); the clock may
stand or run.

## 4. Proofs

`ReadCacheProofs`, for any numbers of threads, chunks, blocks, files and loans:

| Theorem | Statement |
|---|---|
| `Invariance` | `Spec => []IInv` |
| `TypeCorrect` | `Spec => []TypeOK` |
| `UsageCounted` | `Spec => []UsageIsLoans` |
| `ChunksCoherent` | `Spec => []Coherent` |
| `FreedLast` | `Spec => []FreedOnlyWhenReturned` |
| `HeldBlocksIntact` | `~ReadFaults => (Spec => []HeldIntact)` |
| `PinnedChunksStay` | `Spec => PinnedStays` |
| `LendsSafely` | `~ReadFaults`: `Spec => Loans!Safe`, the refinement of `BlockLoans`, step by step |
| `QuietCloseIsSafe` | `QuietClose`: `Spec => []NoUseAfterFree` |
| `LastOneFrees` | `Spec => []NothingLeft`, what `CloseFrees` needs of every step |

None of the properties is inductive.  That a lent chunk survives needs that its
usage count counts its loans (`UsageIsLoans`, the one place that needs
cardinalities); that a block is intact needs that the read frontier has passed
it and that only the chunk being read is written, beyond the frontier
(`ContentInv`, `PendingInv`, `LoanInv`); that nothing is freed early needs that
the phases of the end only begin with the close and that the last one has seen
every chunk empty (`EndInv`).  `IInv` in `ReadCacheInv` joins these.  The proofs
assume the ASSUMEs of `ReadCache`: chunk sizes and read-ahead limits positive and
ordered, handles finite, model values distinct.

`HeldIntact` and `LendsSafely` are proved where reads do not fail; `ReadCache_fault_reported`
refutes `HeldIntact` where they do.  The refinement maps a handle to what its slot of
memory holds now, so a step that wrote under a pointer would be no step of the contract.
`NoUseAfterFree` is refuted by `ReadCache_two_closers` and proved for an
application that has everything back, and no call of another thread going on, when it closes
(`QuietClose`, a condition on behaviours): then only the closing thread goes through the end, once (`QuietEnd`).

`LastOneFrees` is about the race at the end, without fairness: `HandoverInv` says that
while the instance is closed and not freed, some thread still has to look or some buffer is
out, that a chunk nobody holds once `freeing` is set has a thread that will see it (one that
returns or sweeps), and that only the closing thread works before `freeing` is set.  So with
nobody at work and nothing out (`NothingLeft`), the memory is gone; two may have freed it.

`DecoderProofs`, for any width of words, any blocks and registers:

| Theorem | Statement |
|---|---|
| `TypeCorrect` | `Spec => []TypeOK` |
| `LinksCorrect` | `Spec => []LinksFollowed` |
| `SkippedCommands` | `Spec => SkipsChangeNothing` |
| `SetOperations` | `Spec => SetsInRange` |
| `BlocksCountDown` | `Spec => []GoesOn /\ CountsDown`, what `BlockEnds` needs of every step |

`TypedLinks == TypeOK /\ LinksFollowed` is inductive as it stands: that a link
has a meaning is decided in the step that makes it (`LinkOfIsLink`), and stays
because a call that linked makes no step that changes it.  The lemmas say what
each part of a command makes of registers that are words (`SetValuesType`,
`SetResultsType`, `SystemSetType`, ...).  Assumed: `Words` positive, `And`, `Or`, `Xor` yield
words, the blocks are sequences of commands, the registers hold words, the bounds are numbers.
The two action properties follow from `TypeOK` step by step: a command
reads registers, which may store what a counter shows, and stores a result, and each part is
followed for every register (what it holds, and what it would show).  `BlocksCountDown` is the
argument that a block ends but for fairness: a command that is due can be executed
whatever its fields (`GoesOn`), and every step of the call decreases `Left`, a number no
greater than `MaxTotal + 1` (`CountsDown`).

`VMProofs`, for every disc within the ASSUMEs of `VMInv`:

| Theorem | Statement |
|---|---|
| `Invariance` | `Spec => []IInv` |
| `TypeCorrect` | `Spec => []TypeOK` |
| `CellPlays` | `Spec => []InCell` |
| `AssertionsHold` | `Spec => []AssertsHold`, the assertions listed there |
| `TriesAreSafe` | `Spec => TriesSafely` |
| `Resuming` | `Spec => []ResumePoint` |
| `RegistersFit` | `Spec => []RegistersAgree` |
| `PartsPlayed` | `Spec => PartPlayed` |

That a machine is in a cell when a call is over says nothing of the fifty steps in
between, so `IInv` says of each link or function due what it relies on: the chain
is the one remembered for the table of the domain (`InChain`), a program or
cell number is at most one behind the last where one is about to be played
(`Sound`), a command fits the chain it comes from (`LinkFits`), and the place to resume
at is one of the disc (`RsmOK`).  `Goes` joins these for the machine, or
the copy, that a call works on; `Runs` is what a machine between calls, and the original
of a copy (`Tries`), satisfies.  One machine may be stopped and go on: the copy on which a menu
is tried after a failed resume; it is thrown away in the end, which is why `RsmOK`
is asked of machines that are not stopped.  The disc of `MCVM` satisfies every
assumption, so the theorems are about discs that exist; that `IInv` and the
invariants below hold is proved on all of them.

Three properties need more, each an invariant of its own that is inductive beside `IInv`:

* `ResumeInv`: where playback last was in a title is where the machine is until a command
  leaves it (`Left`), and a call that saves no cell of its own comes from there or from
  pre commands; the place then saved survives whatever goes on outside titles (`Resumes`).
* `RegInv`: the registers of a title are those of its chain, as are those saved
  (`TitleRegs`), which needs that links within a title do not lead to the chain of
  another (`TitleAssumption`, `Fits`).  `PTTN_REG` is stale while a program or cell
  is on its way, and current once a cell plays (`PartCurrent`).  TTN and VTS_TTN stay
  linked in menus; they need not be when `NoMenus` has opened another VTS and ends
  playback.
* `PartInv`: a part asked for is on its way (`PartDue`): its program, its cell, then the
  cell that plays.  That the part found for that cell is the one asked for
  needs the order of parts in a chain and of programs in cells, and that angles do not
  leave their program (`TitleAssumption`, `ProgramAssumption`).

`PartsProofs`, for every map, list of ranges, chain, control word and screen:

| Theorem | Statement |
|---|---|
| `NothingUnlistedIsSkipped` | `RemapSpec => []SkipsListedOnly` |
| `AllListedIsSkipped` | `RemapSpec => []SkipsAllListed` |
| `StreamsAreCurrent` | `StreamsSpec => []StreamsCurrent` |
| `PressesObey` | `ButtonsSpec => ButtonsObey` |

For `Remap` the invariants are `Linked` (two blocks that an entry joins are joined by lines
of the file, whatever lines there are) and `Whole` (entries in order, every line within
one, until a line overlaps several); the lemma `Search` says what the binary search
finds in any table, and that in one in order it misses nothing.  For
`Streams` it is that an announcement belongs to the registers it was made for; for
`Buttons` that the screen of the engine, once left, is the one remembered
(`Remembered`), and that the loop of `dvdnav_mouse_select` keeps the first of the closest.

`SearchProofs`, for every title within the ASSUMEs of `Search`:

| Theorem | Statement |
|---|---|
| `PositionIsWithin` | `Spec => []PositionWithin` |
| `TimeIsReported` | `Spec => []TimeReported` |
| `AngleIsFollowed` | `Spec => AngleFollowed` |
| `SeeksLand` | `OffsetsFit`: `Spec => SeekLands` |
| `ForwardSeeksMoveOn` | `OffsetsFit`: `Spec => ForwardMovesOn` |
| `TimesLand` | `EvenTimes`: `Spec => TimeLands` |
| `ChaptersAreCovered` | `Spec => []ChaptersCover` |

`IInv` says that the VOBU the engine is in lies in the cell of the machine once it is known
(`InStep`), where the next VOBU will be (`Heading`), what time was set for it
(`Timed`), and that what a search remembers between its two locks is a position of the
chain (`Remembers`).  `OffsetsFit` bounds offsets to what a `uint32_t` target can tell from
a negative one: with wider ones the target wraps and a search may land elsewhere.
`EvenTimes` says that VOBUs play at a time proportional to where they lie, which is what
`dvdnav_time_search` computes with.
`AngleIsFollowed` rests on one more invariant, `Aimed`: between an announced seek, or the entry
of a cell, and the NAV packet the machine points to a VOBU of the angle `chosen`, or to one
with none behind it.  That one exception needs an angle changed between a search into the last
VOBU of a cell and the poll that announces it, at least on the chains of `Search_title`: the
engine has nothing to pass on to and plays it in the old angle.
`ChaptersAreCovered` is about sums only: a sum over the cells of a part splits into the
cells the code counts and those it leaves out, part by part, and sums over more cells are no smaller.
It supposes of a title that the programs of its chains are in order (`TitlesAssumption`).

Loops of the code (binary search, sums over cells, best button) are recursive functions.  That
the function exists and what it yields is proved without the library's induction theorems: the
arguments for which it fails have a least one (`LeastNatural`, from
the well-foundedness of the naturals), and there is none.

`PlayerProofs`, `PlayerAnnounces` and `PlayerData`, for any disc, any calls,
streams and buttons and any bounds:

| Theorem | Statement |
|---|---|
| `TypeCorrect` | `Spec => []TypeOK` |
| `AnnouncesByPlace` | `OwnPlaces`: `Spec => AnnouncesFirst`, the refinement of `EventProtocol` |
| `AnnouncesByCount` | `NeverStops`: `Spec => AnnouncesFirst` |
| `DataFromCell` | `NeverStops`, `OneNav`, `AnglesApart`: `Spec => DataOfCell` |
| `CellsPlayedInFull` | the same three: `Spec => PlayedInFull` |
| `ResumesInCell` | the same three: `Spec => []ResumeInCell` |
| `StillsAtEnd` | the same three: `Spec => StillAtEnd` |
| `PlaybackStartsAtBlock` | the same three: `Spec => StartsWhereVmIs`; its half on restarts follows from none of them (`RestartNoted`) |
| `DataFromCellAfterStops` | `OwnPlaces`, `OneNav`, `AnglesApart`: `Spec /\ PartsWhileStarted => DataOfCell` |
| `CellsPlayedInFullAfterStops` | the same: `Spec /\ PartsWhileStarted => PlayedInFull` |
| `ResumesInCellAfterStops` | the same: `Spec /\ PartsWhileStarted => []ResumeInCell` |
| `StillsAtEndAfterStops` | the same: `Spec /\ PartsWhileStarted => StillAtEnd` |

`TypeOK` needs that a started machine is in a cell whose title set it carries
(`Running`).  The refinement needs that what the engine noted in
`position_current` is what it told (`Told`), and that a position that compares equal
belongs to the cell told last (`Knows`).  The code compares cell number, first
sector and restart count, which do not name a cell by themselves, so `Knows` has
two proofs:

* if no two cells lie at the same place (`OwnPlaces`), by place: `KnownByPlace`;
* if nothing stops the machine (`NeverStops`), by count, whatever cells share a
  place: while the count is the one noted the machine has not left the cell told,
  except to resume a title from a menu, which is another domain (`KnownByCount`).
  After a stop the count begins again, so the two may agree by chance: the case
  `StartsWhereVmIs` describes.

The data need that the machine's block is the start of a VOBU of its cell, now
and in the resume information (`AtVobus`), that the VOBU read is one of the
cell while the count is the one noted (`Aligned`), and where in it the last block
was (`Heard`); the still needs that one left on belongs to the end just heard (`StillHeard`).
Where playback starts needs that, while the count is the one noted, no hop is under
way and a VOBU not yet read begins at the machine's block (`AtEntry`).  It is the
restart of the cell that makes this inductive: stepping over the VOBU of a seek
moves the block behind `vobu`'s back, but every call that hops plays a cell anew or
resumes a title from a menu, so a cell change follows and sets `vobu` again.
`OneNav` says that cells that share a NAV packet agree whether it is
their last, as they do on a disc, which has one packet at a sector.  `AnglesApart`
excludes finding 5 below: a seek in a cell with angles that finds the packet of
another file.  The discs of `Player_calls` satisfy all assumptions;
that of `Player_wrong_file` satisfies all but `AnglesApart`.  Assumed besides: the
ASSUMEs of `Player`.

A handle that was stopped starts again from a machine that was reset, against the
`position_current` of before, so none of that survives a stop.  What does
(`Restarts`): of the cell told last, either the VOBU is one of it, or the machine is gone
from it and a restart will not be taken for it (`Gone`): a hop was noted, and the
count of hops begins at 0 again, or the first cell is another.  That
takes that `hop_channel` is never behind the one noted while the machine runs.
`PartsWhileStarted` says that no `dvdnav_part_play` comes between the STOP event and the next poll, as in
`Player_menus`, which stops and exits but plays no titles; without it the
count may come to the one noted (finding 15).

Model-checked only:

| What | Why |
|---|---|
| `CloseFrees`, `BlockEnds` | liveness is out of the prover's reach; that each step leaves a way on is proved (`LastOneFrees`, `BlocksCountDown`) |
| `KeepsPlaying`, and the fairness part of `LendsBlocks` | liveness too |
| the half of `StartsWhereVmIs` on hops, on machines that stop | the invariant that carries it (`AtEntry`) is of the restart count, which begins again after a stop |
| data, stills and resume points, on machines that stop and cells that share a place | neither the place nor the count names a cell there |

## 5. Findings

1. A hit of the cache reports success whatever `DVDReadBlocks` returned
   (`src/read_cache.c:304-310`): the application is handed a buffer nothing was read into.
2. `dvdnav_free_cache_block` tests `freeing`, and `dvdnav_read_cache_free` scans
   the chunks, without the lock: two threads that return the last buffers after
   the close can both free the cache (`src/read_cache.c:137-144,347`).
3. `dvdnav_part_play` leaves `position_current.still` set (`src/navigation.c:239`): a title
   started from a still menu reports a still frame before its first block
   (`StillAtEnd` in `Player_calls` states when a still is reported).
4. The answer to a wait that comes after its cell was left sets `sync_wait_skip`, and the
   next wait is not made (`src/dvdnav.c:798`, `src/navigation.c:50-55`).
5. The hop after a seek in a title with angles reads a NAV packet from the file
   still open, which a jump to another title set has not yet changed, and adds
   that packet's next VOBU to the machine's block (`src/dvdnav.c:522`): the block may lie
   outside the cell, and playback goes on there or fails.
6. After `DVDNAV_STOP` the next poll restarts the VM but `position_current` is
   kept, so in the first cell it goes on in the middle (`src/dvdnav.c:488-495`);
   `StartsWhereVmIs` states when, in `Player_menus`.
7. `vm_get_current_title_part` finds a part that begins at the program or a later
   part of the same chain, so behind the last part of a chain it finds none:
   `PTTN_REG` becomes 0 and `dvdnav_current_title_info` fails while the title
   plays (`src/vm/vm.c:724-748`; `RegistersAgree` in `VM_disc`).
8. The sub-instructions 4, 8, 14 and 15 pass the test for unknown ones, and
   `process_command`, which has no case for them, never ends (`src/vm/decoder.c:247`;
   `LinksFollowed`).
9. Products of 2^31 and more overflow an `int32_t` and, as compiled, are cut to their low 16 bits
   instead of sticking at 0xffff (`src/vm/decoder.c:437`; `SetsInRange`); the
   random number may be data + 1 by rounding, or 1 for data 0 (`:456`).
10. In the cells of an angle block but the first the position does not exist: the
   assertion of `dvdnav_get_position` fails (`src/searching.c:566`;
   `PositionWithin`), and the time counts the block twice (`src/dvdnav.c:455`; `TimeReported`).
11. A search forward within the last VOBU goes back to its start
   (`src/searching.c:295`; `ForwardMovesOn`).
12. Chapter times and duration leave out cells of the last program of a chain and
   of parts of several programs (`src/searching.c:678`; `ChaptersCover`).

13. A resume that ends playback leaves `stopped` set on the copy, and nothing clears it: the
   root menu tried next on that copy is thrown away though it was reached, and the call fails
   (`src/searching.c:489`; `TriesSafely` says only that the machine is left alone).
14. `vm_jump_prev_pg` plays the last program of whatever chain the one before leads to:
   where that has no programs the assertion `pgN > 0` fails (`src/vm/vm.c:624,1127`; `AssertsHold`
   holds where `PrevFits`).

15. The same, from another cell: when `dvdnav_part_play` restarts a machine that was stopped, hops
   and restarts count from 0 again (`src/vm/vm.c:376,385`).  If they come to what they
   were and the cell is the one announced last, no difference is seen: the engine announces
   nothing and goes on with the VOBU of before, which is another cell's if a hop had led
   there meanwhile.  TLC finds it on the disc of `Player_menus` with `part_play` and `stop`
   among `Calls` and `RestartMod = 4`; no run has both.

Noted without a run: the comments on `dvdnav_get_audio_logical_stream` and
`dvdnav_get_spu_logical_stream` say physical to logical and the code maps logical
to physical.  A range of the remap file that overlaps several entries leaves them
overlapping, as `SkipsAllListed` states.

## 6. Not modelled

* Information files that do not open (`vm.c` then works with a null handle, which is
  no state to go on from), and a `dvdnav_program_play` of chains that do not exist.
* `dvdnav_dup` and `dvdnav_free_dup`: two handles over one cache and one lock.
* Reads that fail in `Search`, in the hop or elsewhere; `Player` has them.
* Which unit follows which in an interleaved unit: `Player` follows a VOBU by the
  next one or the end of the cell, `Search` by the next one of the angle.
* `dvdnav_get_position_in_title`, `dvdnav_get_highlight_area`, titles' names and
  attributes, languages and regions: queries and registers that nothing else reads.
* The bits of a command (a record in `Decoder`); memory that runs out and lines longer
  than the buffer in `remap.c`; the command printer; the Windows port; the examples.
* DVDRead (libdvdread) is external: it returns the blocks asked for, or
  fewer, or -1.

## 7. Open

| What | Why it is open |
|---|---|
| `Player` over `VM` in place of free jumps | the product of the two exceeds what the runs can explore; `Player` lets the machine do more than `VM` does |
| the properties of the last table of section 4 for every instance | the reasons given there |
| two handles from `dvdnav_dup` | the cache would be shared by two engines |
