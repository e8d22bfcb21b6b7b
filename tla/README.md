# pylzma: a verification project

TLA+ models of the parts of pylzma where the order of calls, threads and
buffers decides whether the program is right, with model checking (TLC) of
small instances and proofs (TLAPS) for all of them. Paths are relative to the
repository: `src/pylzma` and `src/sdk/C` are the extension and the LZMA SDK,
`py7zlib.py` the reader of 7z archives.

## The system

| Part | State it keeps | Operations | Interacts by |
|---|---|---|---|
| `decompressobj` (`src/pylzma/pylzma_decompressobj.c`) | unconsumed tail and its length, need_properties, max_length, total_out, the decoder | init, decompress, flush, reset | calls LzmaDec/Lzma2Dec with the GIL released |
| LzmaDec, Lzma2Dec | range coder, remainLen, tempBuf, dictionary; LZMA2 chunk state | Allocate, Init, DecodeToBuf, Parse | called with pieces of input and room for output |
| Lzma2DecMt, MtDec | blocks in their threads, the cross block, turns, the position behind the last block | Decode, Init, Read | threads, callbacks for reading, parsing, coding and writing |
| `compressfile` (`pylzma_compressfile.c`, `pylzma_streams.c`) | encoder, input file, output buffer | init, read, dealloc | the encoder's threads call the Python file under the GIL |
| LzmaEnc control | position, error code, finished | Prepare, CodeOneBlock, Finish, Destroy | drives a match finder through IMatchFinder2 |
| LzmaEnc parser | opt, the repeated distances, a pending way | GetOptimum, GetOptimumFast | asks the finder for matches, compares prices |
| LzmaEnc and LzmaDec symbols | state, repeated distances, probabilities | a literal, a match, a repeated match, the end mark | bits of the range coder |
| range coder (`LzmaEnc.c`, `LzmaDec.c`) | low, range, cache, cacheSize; range, code | a bit, a direct bit, flush | output stream |
| CMatchFinderMt (`LzFindMt.c`) | three positions, two rings of blocks | Create, InitMt, Init, GetNumAvailableBytes, GetMatches, Skip, ReleaseStream, Destruct | three threads, shared window |
| CMtSync (`LzFindMt.c`, `Threads.c`) | flags, two events, two semaphores, a critical section | GetNextBlock, StopWriting, Create, Init, Destruct | joins a producer thread and its consumer |
| CMatchFinder (`LzFind.c`) | window, hash and tree tables | ReadBlock, MoveBlock, GetMatches, Skip | reads the input stream |
| encoder properties (`LzmaEnc.c`, `Lzma2Enc.c`, `XzEnc.c`) | what a caller set | Normalize, SetProps, WriteProperties | each normalises what the one above it made |
| Lzma2Enc | blocks, chunks, the saved state of the LZMA encoder | Encode2, chunk by chunk | LzmaEnc; MtCoder with several threads |
| MtCoder | slots, output buffers, turns to read, the right to write | Code | threads, callbacks for reading, coding and writing |
| events, semaphores (`Threads.c`) | a value, a mutex, a condition variable | Set, Reset, ReleaseN, Wait | threads |
| `py7zlib.py` | archive header, positions, the decompressor cache of a folder | Archive7z, ArchiveFile.read | decompressobj, filters |
| Ppmd7 | a block of memory with contexts, statistics and free lists; range coder | Init, EncodeSymbol, DecodeSymbol | called by `pylzma_ppmd.c` with pieces of input |
| filters (`Bra.c`, `Bra86.c`, `Delta.c`, `Bcj2.c`, `Bcj2Enc.c`) | the end of the last piece; four streams | Convert, Encode, Decode | called by `pylzma.c` with pieces |
| compat decoder (`LzmaCompatDecode.c`) | lzma_stream with its three temporaries | lzmaCompatDecode | called by `pylzma_decompressobj_compat.c` |
| one-shot compress/decompress | buffers of one call | one call | memory streams |
| `pylzma.c`, `pylzma_aes.c` | none, or an AES key | calculate_key, CBC decryption | pure functions |
| the rest of the SDK | - | not called by pylzma | - |

What is hard here is rarely a formula and mostly an order: three threads that hand blocks
to each other and move the memory they all read; threads stopped at any moment;
callers that pass a stream in pieces of any size and may flush, stop or reset
at any point; the GIL taken from a thread that another one waits for; two programs
that keep thousands of adaptive numbers equal without ever comparing them. What makes
each part correct:

- match finder: a move of the window excludes its readers, and keeps what they
  look back at; no block is overwritten while it is in use; no wake-up is lost;
  stop, exit and start always find the threads where they expect them; every
  call returns; the encoder sees each position once, is told the truth about how
  many bytes it may look at, and each match it gets is one.
- decompressobj: input and output are neither lost nor repeated for any pieces;
  sound streams are accepted; an exception has its cause in what was passed; flush
  returns what is left; reset makes a new one (but for a flush that comes before the next
  properties, which the code gets wrong).
- compressfile: read returns the whole stream, each byte once; its threads and
  the GIL never wait for each other.
- py7zlib: every file of a folder is read from where it starts, whatever was read
  before it.
- decoders: the same output and the same verdict however input and room are cut;
  every byte of input used once; several threads give what one gives.
- encoders: what they write is what the decoder reads, its dictionary and its state
  included; the parser chooses ways that stand for the input at the price it computed.
- PPMd and filters: each side undoes the other, whatever memory or pieces it gets.
- MtCoder: blocks written in order, each buffer with one owner, and every call returns.

## Modules

| Module | Models |
|---|---|
| `MtSync` | CMtSync, the loops of the two producer threads, and the calls of the encoder's thread, on the POSIX primitives |
| `LzFindMt` | the data on top: window, rings of blocks, positions; EXTENDS `MtSync`, each action is an action of it plus what it does to the data |
| `MatchFinder` | the contract of IMatchFinder2, abstract; `LzFindMt` implements it |
| `MatchOps` | the searches of the finders: hashes, last positions, trees, chains, normalisation |
| `MatchTables` | the finder of one thread: window and tables, GetMatches and Skip of each variant; EXTENDS `MatchOps` |
| `MtMatches` | what the three threads compute from each other's blocks; EXTENDS `MatchOps` |
| `CompressFile` | compressfile: the calls, the control of LzmaEnc, the GIL; EXTENDS `LzFindMt` |
| `Streams` | the growing buffers of `pylzma_streams.c` |
| `DecompressObj` | decompressobj over the incremental decoder |
| `StreamDecoder` | what a streaming decompressor promises, abstract; `DecompressObj` implements it |
| `ArchiveRead` | of `py7zlib.py` the readers of numbers, flags and digests, the loop of `Archive7z.__init__` that places the files, and `ArchiveFile.read` with the decompressor cache |
| `DecoderCalls` | arguments that both decoders are called with |
| `LzmaDec` | the LZMA decoder, between the range coder and the caller |
| `Lzma2Format` | LZMA2 streams, and the state machine for chunk headers |
| `Lzma2Dec` | the LZMA2 decoder, and `Lzma2Dec_Parse` |
| `Lzma2Blocks`, `MtDec`, `Lzma2DecMt` | the LZMA2 decoder with threads: a block, the threads that take turns, the caller and the decoder without threads that it falls back to; each EXTENDS the one before |
| `Threads` | events and semaphores on a mutex and a condition variable |
| `SyncObject` | the atomic event or semaphore; `Threads` implements it, and `MtSync`, `MtCoder` and `MtDec` take their objects as atomic because of it |
| `MtCoder` | the multithreaded coder of blocks |
| `Lzma2Enc` | the LZMA2 encoder, one thread of it; checked against `Lzma2Format` |
| `EncProps` | properties of the LZMA, LZMA2 and XZ encoders |
| `RangeCoder` | the range encoder, and the decoder of its bytes |
| `ArithCoder` | the arithmetic coder without carries; `RangeCoder` implements it |
| `LzmaStates` | the twelve states, shared by coder and parser |
| `LzmaCoding` | the symbols of LZMA as bits, on both sides |
| `LzmaCompat` | the old decoder, given what `LzmaCoding` sends |
| `Optimum` | the parser of LzmaEnc, over any prices |
| `Ppmd7`, `PpmdCoding` | the model of PPMd in its memory; symbols coded and decoded with it |
| `BranchFilters`, `Bcj2` | the filters, both directions |
| `MCArchive`, `MCCompress`, `MCDecoders`, `MCEncoders`, `MCThreads` | instances for TLC |
| `...Proofs` | the proofs, one module for each of `LzFindMt` with `MtSync`, `Threads`, `MtCoder`, `CompressFile` with `Streams`, `DecompressObj`, `RangeCoder`, `LzmaDec`, `Lzma2Enc` |

An MC module puts the components of one subsystem side by side: `part` says
which of them a behaviour is about, the others stay as they began. Components
that work together are not put side by side but composed: `CompressFile` has the
whole of `LzFindMt`, which has the whole of `MtSync`; `ArchiveRead` reads what
its walk has opened; `LzmaCompat` decodes what `LzmaCoding` sends.

A definition whose name ends in an underscore and a word (`Wait_NoWait`) is the
definition before it with a plausible bug. No specification uses it; it is
there to show that the property it is listed with in `PROJECT.json` can fail.

### MtSync

`pc` has a label for each place where a thread may wait or be overtaken:
a `next` label inside `MtSync_GetNextBlock`, a `stop` label inside
`MtSync_StopWriting`, and one for each blocking call of the loops. The fields of
the two CMtSync are functions of the sync, named as in the code. Between two
such places a thread does only things that no other thread can see half done
(it holds the lock, or the fields are read only after a post that follows), so
they are one step. `CriticalSection_Leave` of both locks after a move is one
step as well: leaving the first one early only lets a thread do sooner what it
may do after the step.

The encoder's thread (lz) chooses its calls freely, in the order LzmaEnc can
make them: create (each of the two creations may fail), any number of sessions
(InitMt, requests for blocks, ReleaseStream at any moment), destruct. The hash
thread may find at any time that the window must be moved. Bounds: the number of
blocks requested in a session and the number of sessions.

### LzFindMt

Each block records the position it starts at (`from`, for the properties only),
how many positions it is about (`num`, i.e. heads[0] - 2, or the number of
match lists) and the bytes it announces (`avail`, heads[1] or d[1]). The window is
the offsets of bufBase, buffer and streamPos in the stream, so the pointers that
the code corrects after a move are kept as `ptr`, relative to bufBase. `ReadBlock`
lists the windows a read may leave: as much as fits, just enough (the loop stops
when more than keepSizeAfter is available), the end of the stream, an error after any number
of bytes. How many positions fill a bt block depends on the matches; the model
lets it be any number from one to the room there is.

What is in the blocks, and the normalisation of positions, is in `MtMatches`. Left out:
`failure_BT`/`failure_LZ_BT` (set only when memory is corrupted), `directInput`
(pylzma never sets it; `LzmaEnc_MemPrepare` is not used).

### MatchOps, MatchTables, MtMatches

A byte is a number below `Base`; what the hash functions do with exclusive-or is
addition modulo `Base`, which is one-to-one in each operand too, and collisions come
from the small number of hash values. A position is a number modulo `PosRange`, which
stands for 2^32, so that references are lowered several times in a short input.
`MatchTables` has window, hash tables, and tree or chain of one finder; a step is one
GetMatches or Skip, with the moves and reads of the window it makes. `MtMatches` is the
three computations (heads of the hash thread, GetMatchesSpecN_2 of the bt thread, the
short matches that lz mixes in), each with its own position and normalisation; blocks are
sequences there, since how they travel is in `LzFindMt`. Both are checked against the input:
a match is one, within the dictionary, matches get longer with distance; when the cutValue
is never used up no match of numHashBytes or more is missed, so that one thread and
three find the same; to skip a position leaves the tables as to search it.

### DecompressObj

Bytes of the stream are its positions, so a lost, repeated or moved byte is
visible in `unconsumed_tail`. The payload is reduced to `reach`: how much output
is determined after each byte; an end mark and a damaged byte may be anywhere. The
decoder is LzmaDec_DecodeToBuf in these terms: it stops when the output is full
(further symbols are not looked at, a match may be half written), at the mark or
the damage, or takes all input. flush() releases the GIL in each
round of its loop, so each round is a step. After an exception the caller only
calls reset(), as `doc/USAGE.md` shows. reset() frees the tables of the decoder and leaves the
rest of it, until the properties of the next stream initialise it (`LeftOver`); what flush()
does in between has the result "undefined", or is the exception of the stream before.
`StreamDecoder` knows neither, for it
asks of each exception a cause in what was passed since the reset (`MayRaise`). Not
modelled: allocation failures, and two Python threads in one object.

### CompressFile

The caller's thread is the thread lz of `LzFindMt`, so a call of read() runs
through CodeOneBlock into MtSync_GetNextBlock. `gil` says who holds the
interpreter lock: the caller except between Py_BEGIN_ALLOW_THREADS and its end,
the hash thread from PyGILState_Ensure on, except while read() of the file waits.
Output is counted in units (header, one for each position, one for the end), so
that it can be in three places: the range encoder, the output buffer, returned.
The optimal parser's look-ahead is left out: CodeOneBlock takes one position after
the other. When the output buffer cannot grow, the units are lost; from then on
LzmaEnc_Finish may stop the threads with the lock held and wait for ever, so
`ReadReturns` is only stated as long as nothing was lost.

### Streams

One round of the loop that enlarges the buffer is a step; a realloc may fail, which
frees what is there. `avail` 0 is a lost buffer.

### ArchiveRead

A header is given as 7zFormat.txt says an archiver writes it, with a mark
behind it, so that a reader that stops early or late is seen. A byte has
`Width` bits, which makes every form of a first byte appear. Of the walk, a
round of the loop over the entries is a step and all its running indexes are
variables. In reads content is counted: a decompressor knows which byte
of the file it must get next, and is derailed by any other. Files may be read in any
order and repeatedly; with `mayRaise` a seek or read of the archive's file may
raise at any place. `BlocksFit` is a condition on archives: without it,
blocks beyond a folder reach its decompressor (see below).

### LzmaDec

A stream is a sequence of symbols, each of which takes some bytes; what the range
coder computes is reduced to which symbol comes next. A byte is its place in the
stream, so a byte used twice, or lost between input and tempBuf, is seen. A
symbol whose last byte is only needed by the normalisation of the next one is
`late`, which is what LzmaDec_TryDummy and the end of the input have to handle.
`out` is compared with `Ref`, a decoder of the whole stream in one step. A real
symbol takes up to 20 bytes and RC_INIT_SIZE is 5; here they are 3 and 2.

### Lzma2Format, Lzma2Dec

Header bytes have their real values; of the data of an LZMA chunk only `need`
is known, how many of its bytes the first n bytes of output take. `ControlByte` and
the other states of Lzma2Dec_UpdateState are shared, as in the code, by decoder,
parser and, through `StreamDecodes`, the check of the encoder. A sound
chunk's data gives at least the output that its header claims; the ones that do not
are among the bad chunks.

### Lzma2Blocks, MtDec, Lzma2DecMt

A byte is named by its place in the stream, and memory that was never written holds the
place 0, so output that is lost, repeated or left from a block before is seen. `Lzma2Blocks` is
what happens to one block (Parse, PreCode, Code, Write); `MtDec` has a step for each stretch
of MtDec_ThreadFunc2 between two events or critical sections; `Lzma2DecMt` is the caller, the
decoder without threads that goes on with what the threads have read, and Lzma2DecMt_Read.
A job says what a caller asks: stream, threads, sizes of buffers, outSize, finishMode and
how many calls (Read, Write, allocations, thread creation, progress) may fail. `SmallBlock`
is the 1 << 14 of Lzma2DecMt_MtCallback_Parse. Left out: LZMA2DECMT_STREAM_WRITE_STEP
and the steps of progress inside a block (each a loop with the same test), and fairness:
`BlocksAreDecoded` is about what a call that returns has done.

Seen in the model, and the same in the code: with threads, codeRes of a block that was
written is ignored, and so is a failed Write when the stream ends in the same turn, so
that the call may return SZ_OK although `Lzma2DecMt.h` lists SZ_ERROR_WRITE; bad or cut
streams may return SZ_OK too, with the output that was right until there. A thread
that is interrupted runs Code without PreCode, which does nothing; a cut stream costs one more turn with
nothing in it. `BlocksAreDecoded` asks for a prefix of the right output always, and for all
of it from an SZ_OK when the stream is whole and sound and no Write failed.

### Threads, SyncObject, MtCoder

`Threads` has a step for each lock, look at the value, sleep and broadcast, and
lets pthread_cond_wait return for no reason. `SyncObject` is the object a caller
believes in. `MtCoder` is every step of ThreadFunc2 and MtCoder_Code between two
operations on such objects or critical sections. A failing read, Code or Write
may come at any place. (After one block failed, blocks that are coded already may
still be written: `WrittenInOrder` allows the gap that this leaves.) A CMtCoder may be
called again; `PatientNext` is a caller who does so only when the threads of the last call rest
(`Rested`), `CoderNext` one who does not wait, see `coder_again` below.

### Lzma2Enc

A chunk that was tried is some number of bytes coded into some number of bytes, any
of a set, and never less than the five that the range coder writes when it is flushed.
It is flushed also by the call that finds the block used up: into a buffer with less room
than a header and the flush this call fails, though it has nothing to store
(`CodeNothing`). The state of the LZMA encoder is the sequence of chunks it coded since it
was reset. What is written is taken by `Lzma2Format`'s state machine and by a decoder
whose state must be the same sequence. Callbacks may fail at each chunk.

### EncProps

The Normalize functions as functions, -1 for "not set" as in the code. Sizes are
in units of 2^8 bytes since TLC has 31 bits, which makes 2^32 and the overflow of
the rounding in LzmaEnc_WriteProperties reachable. To normalise twice may change
numTotalThreads, which nobody reads then, and nothing else; with XZ and
blocks of automatic size the total is forgotten, so `TotalIsKept` is about LZMA2.
numThreads = 0, outside the documented values, divides by zero and is left out.

### RangeCoder

`low` has its 32 bits and the carry; the byte that may still change and the bytes 255
that wait are kept as in the code, and so are the buffer and a stream that takes only so many bytes.
A digit has base B, 256 in the code; the arithmetic on low, range and the reader's code is
that of the code with B for 2^8, B^3 for kTopValue and B^4 for 2^32, `Total` for 2^11 and `Step`
for 2^5. B = 4 and Total = 8 in the run make carries through several waiting bytes appear
within six bits; the proofs are for every B. `ShiftBy` is RangeEnc_ShiftLow, `Cut` the split
of an interval that both sides make. `ArithCoder` keeps a number of as many
digits as it takes.

### LzmaCoding, LzmaStates, LzmaCompat

A symbol is what it sends: a sequence of bits, each with the name of its probability. The two
sides name probabilities as their C code does, the encoder by structure and field, the
decoder by offset into one array, with the overlapping parts of kStartOffset; that the
same symbol uses one and the same probability on both sides, and no two different ones share
one, is `CodingAgrees`. Sizes are scaled in the same relations: `ByteBits` for 8, `LenHighBits`
for 8, `SlotBits` for 6, `AlignBits` for 4, `EndSlot` for 14, `LogBits` for 13.
`LzmaCompat` is the old decoder as a machine that may stop before each bit it has no byte for and before each
byte of output it has no room for; what survives is in the record as it is in lzma_stream.
Its probabilities are for lc + pb bits instead of lc + lp, so lp is at most pb here.

### Optimum

The symbols that the parser may choose, their states, and every comparison of GetOptimum and
GetOptimumFast are those of the code. Prices follow adaptive probabilities, so here they
are any: one of `Seeds` makes a price of whatever it may depend on. What is checked holds
whatever they are: each symbol stands for the bytes that come next, at a distance the
decoder has; the price that made a way the best is what its symbols then cost, state by
state; the finder is as far ahead as the coder believes; and no cell is empty or outside opt
(`ParserChooses`). `NumOpts`, `OptsEdge` and `FarBits` are
kNumOpts and the limits on distances, scaled.

### Ppmd7, PpmdCoding

A reference is an offset into the block, as in the code, and what stands there is a record.
The allocator (lists by size, gluing, splitting, the gap between text and units), the update
of contexts, rescaling, SEE and the restart are those of Ppmd7.c with its constants; `MemSizes` are so
small that memory runs out within a few hundred bytes. Of the range coder, the interval
that the encoder leaves is given to the decoder at both of its ends; the range has
`RangeBits` bits instead of 32, for TLC's integers.

### BranchFilters, Bcj2

Bytes are real bytes, addresses 32 bits. A filter is called with any pieces and leaves what is
not whole to the next call, with mask and address. The encoder and decoder of BCJ2 may stop at any byte of four streams;
the base of the range coder's digits is 128 so that numbers fit in TLC, and `RelatLimit` is the
default limit or what fits.

## Runs

| Run | Shows | Bounds |
|---|---|---|
| `sync` | types, exclusion, no lost post, no overwriting, stop handshakes | rings of 2 and 2, four blocks a session (each ring wraps twice), two sessions (the second starts with what the first left) |
| `window` | positions in order, truthful announcements, the contract of IMatchFinder2; the window is moved while lz lags as far as the rings allow: what is looked back at stays, pointers follow | streams of 0, 1, 2 and 6 bytes with 2-byte hashes (empty, all rest, one hash, several blocks), and of 24, just longer than the window, so that it is moved, with history, rings and alignment that make the offset non-trivial; every read may fail |
| `blocks` | under fair threads, getting a block, stopping and destroying return, also while the hash thread waits for the two critical sections of a move | the same short streams and one of 33 bytes, for which the window of 27 is moved several times; every read may fail; hash blocks of three positions, bt blocks of one |
| `compressfile` | read() loses and repeats nothing, returns, and ends with the stream or an error; deallocation after the end returns; buffers keep what they are given | inputs of 0, 1 and 9 bytes, read() and read(3), writes that fail; buffers of 2 that grow by up to 3, pieces of 0, 1, 2, 7 |
| `decompressobj` | input and output kept, flush drains, sound input accepted, StreamDecoder with the causes of exceptions; the caller neither begins with b'' nor flushes a decoder left by reset | 2 + 4 bytes, up to 2 bytes of output each, pieces of 0 to 6 bytes, output buffers of 1 and 3, BLOCK_SIZE 2 (several rounds of flush) |
| `archive` | header lists, layout, reads of solid and other folders; PPMd; filters; BCJ2 | 3-bit bytes, lists of up to 8 flags; up to 2 folders, 2 files each, 5 entries; packed lengths 1 to 5 with blocks of 3; PPMd in blocks of 2047, 2048 and 5000 bytes, orders 1, 2, 4, texts of 300 and more; all words of critical bytes, and noise, through each filter, in pieces of 1, 3, 6, 13 or all; four codes for BCJ2, in calls of 1 or 3 |
| `decoders` | LZMA and LZMA2 decoders and the parser for every cut of input and output; a caller that goes on gets everything | dictionary of 3, buffer 4 (LZMA) and 3 (LZMA2), processedPos below 5 so that it wraps, ten streams; up to 2 of 12 chunks, a bad one only at the end |
| `threads` | events and semaphores implement SyncObject; MtCoder; LZMA2 decoder with threads | three threads and one object of each kind; MtCoder with two threads over 0, 2 and 7 bytes in blocks of 2 with one failing call, three threads over 5 bytes in memory, two calls in turn; 18 jobs for the decoder, of 1 to 3 threads, 3 to 5 blocks, with one failing call |
| `encoders` | properties, LZMA2 chunks, range coder, symbols on three sides, matches of both finders, parser | sets of properties around the places where a Normalize decides; inputs to 18 bytes, chunks to 9, copies to 4, coded into 5 to 7 of which 7 is too many, outputs of 0 to 28 bytes and of enough, 14 and 15 on both sides of what one byte needs; 6 bits; every symbol twice, at first and after 24 bytes; all inputs to 7 bits and long ones that pass the end of dictionary, window and positions several times; five texts for the parser besides, two numFastBytes, three price functions |
| `dealloc_deadlock`, `archive_stale`, `coder_again` | one counterexample each, see below | |

Rings of two are the smallest in which a producer can be a block ahead; kMtHashNumBlocks
really is 2. Four blocks a session let each slot be reused. The block sizes are the
smallest in which a block can be partly used when the next one is requested.
In the runs of `LzFindMt` the length of the stream bounds the blocks, so
`MaxHashBlocks` and `MaxBtBlocks` are out of reach. In `blocks` a bt block has one
position, so that the graph with its moves is small enough for liveness: there bt asks for a
hash block at most once in a block, and a hash block spans three of its blocks; in `window`
(safety) bt blocks of two positions take from two hash blocks, and end anywhere.
`PayloadLen` and the sizes of pieces let the properties be split over pieces, the
tail be joined more than once, and the output end at the end of a buffer. In
`decoders` a match may be longer than the dictionary, reach its first byte and one
more, and stop in the middle at the end of the buffer or of the room. The streams of
`decoders` are chosen so that each error and each status occurs. PPMd's memory is exhausted
and restarted, its units are freed and reused; positions of the finders are 33, so that each
thread normalises several times.

A property that a run lists is often a conjunction of named parts (`LzmaDecodes`,
`ChunksDecode`), each with its own comment; the first part is the type invariant.

Deadlock is checked, with a step that stays in place where a behaviour may end,
except in `compressfile` and `dealloc_deadlock` (a caller may keep an object, or be done with
it).

Fairness:

- `FairSpec` (`blocks`), `FairCompress` (`compressfile`): each of the hash thread, the bt
  thread and lz inside a call runs when it can. That is what the scheduler of the
  operating system gives; a thread is never scheduled fairly *relative to a lock* (no strong
  fairness), and none is needed, for the two critical sections of a move neither: a reader
  that goes on asking needs a block, and the hash thread makes none before it has moved the window. What the caller calls next is not
  fair: it may stop using the object at any time.
- `FairStreams`, the reads of `archive`, `Chunks` in `encoders`: a call that runs goes on.
- The two parts of `decoders` in which a caller goes on: that is its assumption, and what a loop does.
- `FairThreads`: a thread inside an operation goes on, and a thread that asks for the
  mutex again and again gets it (strong fairness of Lock). POSIX does not promise it, but
  without it no operation on an object that others use all the time ever returns.
- `FairCoder`: each thread of MtCoder and its caller run when they can.

## What the code does differently

Three runs expect a violation. The first two were reproduced with the built module; nothing in
the module calls MtCoder.

1. `dealloc_deadlock`: pylzma_compfile_dealloc destroys the encoder with the GIL
   held. When the hash thread is inside PythonInStream_Read it needs the GIL, and
   MtSync_StopWriting waits for it: dropping an object in the middle of its input may never
   return. `CompressReturns` shows that it does after the end.
2. `archive_stale`: when the archive's file raises in the middle of a read of a
   solid folder, the cached decompressor has gone on and the cached output and
   position have not. Later reads of the folder raise or return other bytes.
3. `coder_again`: MtCoder_Code is called again, as Lzma2Enc.c is written to do, while a
   thread of the call before has counted itself finished and not yet compared the count with
   numStartedThreads (`MtCoder.c:351`). It compares it with the 1 of the new call, sets
   finishedEvent, and the new call returns SZ_OK with nothing written.

Met while modelling, and left out of the passing runs by the named condition:

4. `decompress(b'')` before any data stores an empty tail; the next call takes it
   for a tail with the data in it and moves bytes that are not there. A sound stream raises
   ValueError (`MayStartEmpty`). A second `decompress(b'')` raises MemoryError,
   since `realloc(p, 0)` frees.
5. `decompress(b'')` returns nothing ("no more bytes to decompress") although the decoder
   still holds the rest of a match; flush() returns it (`FlushDrains`).
6. decompress() does not look at max_length; without an end mark it can return more bytes
   than that (`Surpluses`), after which flush() raises SystemError.
7. With a max_length beyond the stream, flush() returns less instead of raising
   "not enough input data"; the test comes after the break.
8. flush() after reset(), before the properties of the next stream were passed, runs the
   decoder of the stream before, on freed tables (result "undefined" in `DecompressObj`), or raises
   its ValueError once more. The run and `ObjectIsStreamDecoder` leave such calls
   out by `MayFlushStale`; when they are let in, `ImplementsStreamDecoder` is violated in both ways.
9. compressfile takes an input that raises for one that has ended: read() returns the
   shorter stream and then b'', without an exception (`EmptyMeansOver` says "or an error").
10. pylzma_compfile_dealloc gives up the input file before it stops the thread that
   reads it; a destructor that releases the GIL lets the thread call a dying file.
11. A failed realloc of the output of compressfile makes LzmaEnc_Finish stop the threads
   with the GIL held, the same wait as in 1 (`ReadReturns`).
12. The result of LzmaEnc_Prepare is ignored in compressfile: after a failed allocation
   read() runs an encoder without a match finder.
13. py7zlib feeds whole blocks to a decompressor, beyond the end of a packed
   stream, before all output of the folder is made (`BlocksFit`).
14. py7zlib reads as many digests as there are streams when only some are defined, has no
   result for a number with eight further bytes, looks for files in folders without
   streams, and does not use packpos (`DigestsRead`, `NumbersRead`, `LayoutMatches`).
15. reset(maxlength) does not check its argument as the constructor does; USAGE.md says
   that multithreading exists only on Windows, while `setup.py` compiles it everywhere;
   its ranges for dictionary differ from the code's.
16. In the compatibility object `decompress(b'')` doubles a result of length 0 for ever, and with a
   bufsize of 0 it drops what was not consumed; its memory of probabilities is for lc + pb
   bits, so a stream with lp > pb is out of range (`CompatAssumption`).
17. MtDec forgets errors of data and of Write that come with the last block (see `MtDec` above).

## Proofs

The theorems hold for every value of the constants that satisfies the named assumptions
of the modules, which TLC evaluates on each run: rings of at least one block, sizes that are natural
numbers and fit each other as LzmaEnc_Alloc makes them (`NumBlocksAssumption`, `BoundsAssumption`, and the
`SizesAssumption` of `LzFindMt` and of `DecompressObj`), sizes and pieces of `CompressAssumption` and
`StreamsAssumption`, objects with a positive limit (`ThreadsAssumption`), setups with threads,
slots and blocks (`MtCoderAssumption`), for the LZMA decoder a dictionary that is not empty, an
allocated one that has room for it, streams of symbols that take at most the
`Required` ones of LZMA_REQUIRED_INPUT_MAX, and a width of processedPos beyond the dictionary
(`DecoderCallsAssumption`, `LzmaDecAssumption`), for the LZMA2 encoder sizes of copies within those of chunks, and of coded chunks that hold a flush (`Lzma2EncAssumption`), and for the range coder a base, precision and speed in
the relation that makes one shift enough (`CoderAssumption`; it also says that no context has the
name of the bits without one, "direct"). Bounds on blocks, sessions,
bits and calls are constants without a limit.

- `LzFindMtProofs`, about `MtSync`. The five properties of run `sync`, and two more: lock and unlock
  always match (`LocksAreDisciplined`), a producer ends only in the destruction
  (`ProducersExitLast`). None but the types is inductive;
  `Inv` has three more parts. `LockInv`: who is in which critical section follows from the labels.
  `LifeInv`: where lz is determines the stage of life of each
  producer (absent, waiting, starting, running, stopped, leaving), and with the
  hash thread the place of bt does; from it follow `StopStopsBoth` and
  `ProducersExitLast`. `CountInv`: the conservation of blocks, filled + taken =
  published and free + published + held = size + freed, from which follow `NoLostPost`
  (a post at the maximum would break the balance) and, with the lemma that
  fewer than n neighbours are in different slots of a ring of n, `NoOverwrite`.
- `LzFindMtProofs`, about `LzFindMt`. Every step of `LzFindMt` is a step of `MtSync` or leaves its
  variables alone (`ImplementsSync`), so the properties carry over
  (`FinderIsSafe`). On that rests an invariant about the flow of positions: the blocks of a ring
  follow each other without a gap, the first one a consumer has not taken begins where
  its cursor is (`Unread`), and k blocks behind what was made it is at most k full blocks
  behind in positions. `SpareInv` and `FreshInv` say what is in slots that are not in use, and what
  is left of a block in use. From these follow `DataIsInOrder` and, with the sizes of the
  window, that lz and bt are never farther behind the hash thread than keepSizeBefore
  minus the dictionary (`BtIsNear`, `LzIsNear`), and a move leaves room (`MoveFits`): `WindowIsEnough`.
  `PointersFollow` is the same for the pointers, which are corrected at each move. The last
  result is the refinement: every step is one of `MatchFinder` or a stutter (`FinderIsMatchFinder`).
- `CompressProofs`. compressfile uses the finder only as `LzFindMt` allows (`UsesFinder`), so
  that all of the above holds in it. `FileInv` adds to the types and `CallInv` (which call is where, with or
  without the GIL) that each unit of output is in one of three places in order
  (`OutputAccounted`), and what an empty result means at each place of read() (`EndInv`). For the growing
  buffers the invariant needs one more part: a lost buffer is empty and accepts nothing.
- `ThreadsProofs`, for any set of threads, limits and amounts. The
  inductive invariant is `ThreadsInv`: the types, that the thread in the middle of an
  operation is the holder of the mutex (`MutexIsHeld`), that a label fits the
  operation (`CallFits`), and `NoSleeperMissed`: a thread sleeps beside a value that
  would let it go only while the thread that raised it is about to broadcast.
  `ImplementsAtomicObject`: every step is one of `SyncObject` or leaves it as it is, since
  an operation has its effect in the one step in which it changes the value under the mutex.
- `MtCoderProofs`, for any number of threads, slots, blocks, calls and failures. The inductive
  invariant: each thread is at work in this call, about to end the last one, or asleep, and the
  counts of started and finished threads tell how many; one thread has the turn to read; the blocks between
  writeIndex and the next one to read are in different slots, as many as the semaphore has
  given out; a slot is in one thread's hand, or is ready, or free; buffers
  have one owner, and since there are as many as slots a free one is there when it is
  needed (a pigeonhole); the writer's window moves only over ready slots. Then errors: what was
  left unwritten had a cause, and the last block is written as the last. `CoderIsCorrect` is about the
  patient caller, `FirstCallIsCorrect` about any caller's first call; the second call of an impatient one is
  `coder_again`.
- `DecompressObjProofs`. The invariant says where each byte is that was given and not consumed (the
  tail, the piece of the running call), that unconsumed_length counts it, what the decoder has
  made of it, what max_length leaves, and that an exception has its cause in what was passed
  (`CauseInv`). `~MayStartEmpty` is a hypothesis of the three theorems, since the
  code is wrong without it (4 above), and `~MayFlushStale` one of `ObjectIsStreamDecoder` (8 above). That output grows with input is an
  induction over the bytes, by the well-foundedness of the naturals. The refinement of
  `StreamDecoder` then is step by step.
- `RangeCoderProofs`. `Keeps`: what was sent, cache and waiting bytes are one number `Value`, and the interval
  [Value, Value + range) at the place of low lies within the one of each earlier moment. `Proper`:
  it does not reach beyond 1, which is why a carry always has a byte to go to, that is not 255.
  `Reads`: every sequence of bytes whose number lies in that interval, not just the one that was
  written in the end, is decoded to the bits so far, with the same probabilities, and
  the decoder's code is its number less `Value`. `ShiftLow` multiplies `Value` by the
  base and changes nothing else; after the five of the flush low is 0, so what is sent
  is the number itself (`Ended`). `CutsAreLarge` and `ShiftMakesLarge`: neither part of a cut is
  empty, and one shift suffices. The refinement of `ArithCoder` is the same fact read as
  low' = Digits * W + low. (The arithmetic is on
  recursive functions over prefixes; induction over them is by the least counterexample, `EveryNumber`.)
- `LzmaDecProofs`, for any streams, sizes of dictionary, tempBuf and buffers, and calls. What `LzmaDecodes` says
  of the output is not inductive: a match copies from the circular dictionary, and part of it may be
  owed to the next call. `Core` compares the decoder between two symbols with the reference decoder of
  those symbols: the output so far, the repeated distances, the last bytes where
  the dictionary has them (`Holds`, `Place`), and that what remainLen still owes repeats them (`Repeats`). `Checks` ties
  checkDicSize and processedPos to the number of bytes written, so that a distance is
  refused exactly when it reaches before the first byte. `LevelInv` says what each value of remainLen means for
  the symbols so far; `InputInv`, that tempBuf and the input of the call lie behind each other in
  the stream at the first byte that no symbol has taken, of which no byte is lost or used twice when a
  symbol is split over calls; `LoopInv`, that in LZMA_DECODE_REAL there is room for a symbol and all its bytes;
  `CallInv`, `ReturnInv` and `LastInv`, what a round of LzmaDec_DecodeToBuf may still write and that each
  result and status has its cause. The proof follows the two sides through a symbol of each kind, and through
  LzmaDec_WriteRem, LzmaDec_TryDummy's outcomes and tempBuf.
- `Lzma2EncProofs`, for any sizes of input, blocks, chunks and buffers, whatever the LZMA encoder makes of the
  input and whichever callback fails. `EncInv` has four parts. `PlaceInv`: a block lies within the input, and
  what a stream has left says when it is the last one. `OutputInv`: what was written is a `Chain`
  of chunks behind each other for the first bytes of the input, the decoder has taken all of it, and no byte of input has
  cost more than four of output (a chunk is LZMA only when that is shorter than its copies). `SameState`: the two flags of the encoder
  agree with what the decoder waits for (`Level`), and when nothing has to be reset the LZMA states of the
  two are the same, which is what the restored state after copies is needed for. `EndInv`: what each
  result leaves behind; a buffer that was too small has less than four bytes for each of the input and 11 for
  the last header and flush. Copies are an induction over the pieces (`CopiesDecode`).

Only model-checked:

- liveness, which needs fairness and ENABLED, out of the provers' reach: `CallsReturn`,
  `CompressReturns`, `CallReturns`, `ReadEnds`, `ChunksEnd`, `GoingOnGetsAll`, and the fair part of `ImplementsObject`;
- what is computed with RECURSIVE operators, which the provers do not take: `LzmaCompat`, `Ppmd7`,
  `PpmdCoding`, `BranchFilters`, `Bcj2`, `Lzma2Blocks`, and `MtDec` and `Lzma2DecMt` on top of it;
- properties over a finite set that the run enumerates whole or whose point is the comparison of two
  computations (`PropsAreSound`, `CodingAgrees`, `MatchesFound`, `ParserChooses`);
- `Lzma2Decodes`, `ParseAgrees`, `HeaderLeadsToFiles`, `FilesAreRead`:
  within reach, and next in the plan.

## Not modelled

- One-shot compress and decompress: loops over what is modelled, on a buffer as in `Streams`.
  `pylzma_compressobj.c` is compiled out.
- compressfile without threads, with failing allocations in init, or with threads that cannot be
  created (12 above); two Python threads in one object; the loop around the old
  decoder (16).
- Of LzmaEnc, the price tables and SaveState/RestoreState (in `Lzma2Enc` as the chunks coded
  so far); of the finders, the vectorised normalisation.
- py7zlib: decryption, zip and bzip2 coders, the routing of BCJ2's streams, names and times, encoded headers.
- AES and hashes: arithmetic on blocks.
- Allocation failures, except where a module says so (Streams, MtDec).
- The SDK's XZ and 7z streams and command-line code: no part of pylzma calls it.
  MtCoder, Lzma2Enc, MtDec, Lzma2DecMt, the encoders of PPMd and BCJ2, and the XZ properties are modelled although
  only the SDK's own programs use them: they are the other side, or the threads, of what is
  used, and what is hard here.

## Plan

Next, in this order: proofs of `Lzma2Decodes` and `ParseAgrees` (with the invariant of `LzmaDecProofs` per chunk); the layout of archives; the compatibility object and one-shot
decompress over the decoders that are there.
