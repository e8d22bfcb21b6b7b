----------------------------- MODULE ArchiveRead -----------------------------
(***************************************************************************)
(* The files of an archive (py7zlib.py), in three parts.                   *)
(*                                                                         *)
(* The loop of Archive7z.__init__ finds out, for each entry of the header, *)
(* in which folder it is, at which byte of the folder's output it starts,  *)
(* where the folder's packed streams are and which digest belongs to it.   *)
(* One step is one round of the loop.                                      *)
(*                                                                         *)
(* ArchiveFile.read on an archive opened like this: the decompressor and   *)
(* its output are kept in the folder, so the files of a solid folder share *)
(* them, and the file is read in blocks that do not end where a folder     *)
(* ends.  Any call of the archive's file may raise.                        *)
(*                                                                         *)
(* The numbers, flags and digests that a header is made of come last.      *)
(*                                                                         *)
(* Content is counted: byte k of a folder's packed data stands at offset   *)
(* SourceOf + k of the file and determines the next Ratio bytes of output. *)
(* A decompressor that is fed anything else is derailed: it raises an      *)
(* error or returns bytes that are wrong.                                  *)
(***************************************************************************)
EXTENDS Integers, Sequences, SequencesExt

CONSTANTS Headers,      \* the headers that are looked at
          AfterHeader   \* length of the signature header

(* A header: its entries ("dir", "empty" or "stream"), its folders (number of    *)
(* substreams, number of packed streams, coder), the sizes of the packed streams *)
(* and, for each substream, its size and whether its digest is defined.          *)
Coders == {"lzma", "copy", "lzma+filter"}
HeaderType ==
  [entries : Seq({"dir", "empty", "stream"}),
   folders : Seq([num : Nat, packed : Nat \ {0}, coder : Coders]),
   packpos : Nat, packsizes : Seq(Nat), sizes : Seq(Nat), digests : Seq(BOOLEAN)]

ASSUME LayoutAssumption == Headers \subseteq HeaderType /\ AfterHeader \in Nat

VARIABLES header,
          walk,    \* the loop's variables
          files    \* self.files

layoutVars == <<header, walk, files>>

Sum(s) == FoldSeq(LAMBDA x, y : x + y, 0, s)
Smaller(a, b) == IF a < b THEN a ELSE b
NoFolder == 0

LayoutStart ==
  /\ walk = [entry |-> 1, fidx |-> 1, obidx |-> 1, streamidx |-> 0, src |-> AfterHeader, pos |-> 0,
             folder |-> AfterHeader, instream |-> 0, solid |-> FALSE, error |-> FALSE]
  /\ files = <<>>
LayoutInit == header \in Headers /\ LayoutStart

Walking == walk.entry <= Len(header.entries) /\ ~walk.error
Opened  == walk.entry > Len(header.entries)

SkipDirectory ==
  /\ Walking /\ header.entries[walk.entry] = "dir"
  /\ walk' = [walk EXCEPT !.entry = @ + 1]
  /\ UNCHANGED <<header, files>>

\* A file without a stream: src_pos advances by its compressed size, 0.
AddEmptyFile ==
  /\ Walking /\ header.entries[walk.entry] = "empty"
  /\ files' = Append(files, [folder |-> NoFolder, start |-> walk.pos, src |-> walk.src, size |-> 0,
                             packed |-> 0, digest |-> 0])
  /\ walk' = [walk EXCEPT !.entry = @ + 1]
  /\ UNCHANGED header

\* Mutant: the source position follows the first packed stream only.
FolderEnd_FirstStream(w) ==
  LET src == w.folder + header.packsizes[w.instream + 1] IN
  IF w.streamidx < header.folders[w.fidx].num THEN w
  ELSE [w EXCEPT !.pos = 0, !.folder = src, !.src = src, !.fidx = @ + 1, !.streamidx = 0,
                 !.instream = @ + header.folders[w.fidx].packed]

\* The last file of a folder: on to the packed streams of the next one.
FolderEnd(w) ==
  LET n   == header.folders[w.fidx].packed
      src == w.folder + Sum(SubSeq(header.packsizes, w.instream + 1, w.instream + n))
  IN  IF w.streamidx < header.folders[w.fidx].num THEN w
      ELSE [w EXCEPT !.pos = 0, !.folder = src, !.src = src, !.fidx = @ + 1, !.streamidx = 0,
                     !.instream = @ + n]

\* folders[fidx] raises when there are more streams than the folders hold.
AddFile ==
  /\ Walking /\ header.entries[walk.entry] = "stream"
  /\ IF walk.fidx > Len(header.folders) \/ walk.obidx > Len(header.sizes)
       THEN walk' = [walk EXCEPT !.error = TRUE] /\ UNCHANGED files
       ELSE LET size  == header.sizes[walk.obidx]
                solid == IF walk.streamidx = 0 THEN header.folders[walk.fidx].num > 1 ELSE walk.solid
            IN
            /\ files' = Append(files,
                 [folder |-> walk.fidx, start |-> walk.pos, src |-> walk.src, size |-> size,
                  packed |-> header.packsizes[walk.instream + 1],
                  digest |-> IF header.digests[walk.obidx] THEN walk.obidx ELSE 0])
            /\ walk' = FolderEnd([walk EXCEPT !.entry = @ + 1, !.obidx = @ + 1, !.streamidx = @ + 1,
                                              !.solid = solid, !.pos = IF solid THEN @ + size ELSE @])
  /\ UNCHANGED header

LayoutNext == SkipDirectory \/ AddEmptyFile \/ AddFile
LayoutSpec == LayoutInit /\ [][LayoutNext]_layoutVars
-----------------------------------------------------------------------------
(* Where the format says things are (7zFormat.txt). *)

Streams(h)      == {k \in DOMAIN h.entries : h.entries[k] = "stream"}
Before(h, f)    == Sum([g \in 1 .. f - 1 |-> h.folders[g].num])
FolderOf(h, j)  == CHOOSE f \in DOMAIN h.folders : Before(h, f) < j /\ j <= Before(h, f + 1)
StartOf(h, j)   == Sum(SubSeq(h.sizes, Before(h, FolderOf(h, j)) + 1, j - 1))
PacksBefore(h, f) == Sum([g \in 1 .. f - 1 |-> h.folders[g].packed])
SourceOf(h, f)  == AfterHeader + h.packpos + Sum(SubSeq(h.packsizes, 1, PacksBefore(h, f)))

Filled(h) == \A f \in DOMAIN h.folders : h.folders[f].num > 0

(* Every file with a stream is found in its folder, at the place in the folder's *)
(* output, with the packed streams and the digest that the header gives it,      *)
(* whatever empty files and directories come between.                            *)
FoundAt(j, file) ==
  LET f == FolderOf(header, j) IN
  /\ file.folder = f /\ file.size = header.sizes[j]
  /\ file.start = StartOf(header, j) /\ file.src = SourceOf(header, f)
  /\ file.packed = header.packsizes[PacksBefore(header, f) + 1]
  /\ file.digest = IF header.digests[j] THEN j ELSE 0

WithStream == SelectSeq(files, LAMBDA file : file.folder # NoFolder)

LayoutMatches ==
  Filled(header) /\ header.packpos = 0 /\ ~walk.error =>
    \A j \in DOMAIN WithStream : FoundAt(j, WithStream[j])

(* A header whose entries and substreams agree is opened, with all its files.    *)
SoundHeaderOpens ==
  /\ walk.error => Sum([f \in DOMAIN header.folders |-> header.folders[f].num]) < Len(SelectSeq(header.entries, LAMBDA e : e = "stream"))
  /\ Opened => Len(files) = Len(SelectSeq(header.entries, LAMBDA e : e # "dir"))

(* The walk over the entries opens a sound header and finds every file where   *)
(* the format says it is (Archive7z.__init__).                                 *)
FilesAreFound == LayoutMatches /\ SoundHeaderOpens
-----------------------------------------------------------------------------
(* ArchiveFile.read *)

CONSTANTS
  Ratio,          \* bytes of output for a packed byte
  ReadBlock,      \* READ_BLOCKSIZE
  OutBlock,       \* BLOCK_SIZE of decompressobj, the bytes a call returns by default
  HeaderLen       \* bytes of the archive after the packed streams

ASSUME ReadAssumption ==
  /\ Ratio \in Nat \ {0} /\ ReadBlock \in Nat \ {0} /\ OutBlock \in Nat \ {0}
  /\ HeaderLen \in Nat

VARIABLES
  dec,    \* the decompressors: the one of the running call and those of the folders
  cache,  \* _decompress_cache of each folder: output, file position
  rd,     \* the call of read()
  mayRaise  \* may seek() or read() of the archive's file raise?

readVars == <<dec, cache, rd, mayRaise>>
archiveVars == <<layoutVars, readVars>>

PackedLen(f) == header.packsizes[PacksBefore(header, f) + 1]
UnpackedLen(f) == Sum(SubSeq(header.sizes, Before(header, f) + 1, Before(header, f + 1)))
Source(f)    == SourceOf(header, f)
FileLen      == AfterHeader + header.packpos + Sum(header.packsizes) + HeaderLen
Solid(f)     == header.folders[f].num > 1

\* Where the next packed byte is expected, bytes held, bytes made, derailed.
NewDec(f) == [next |-> Source(f), tail |-> 0, made |-> 0, bad |-> FALSE]
NoCache   == [set |-> FALSE, good |-> 0, total |-> 0, pos |-> 0]
New       == 0
NoRead    == [at |-> "none", file |-> 0, own |-> New, good |-> 0, total |-> 0, pos |-> 0, result |-> "none"]

ReadStart ==
  /\ LayoutStart
  /\ dec = [f \in {New} |-> [next |-> 0, tail |-> 0, made |-> 0, bad |-> FALSE]]
  /\ cache = <<>>
  /\ rd = NoRead
  /\ mayRaise \in BOOLEAN
ReadInit == header \in Headers /\ ReadStart

File == files[rd.file]
-----------------------------------------------------------------------------
(* decompress(data, buf), data being the n bytes of the file from position at: *)
(* <<decompressor, right bytes, bytes, ok>>.                                   *)

Decompress(d, f, at, n, buf) ==
  LET held   == d.tail + n
      end    == Source(f) + PackedLen(f)
      known  == Smaller(end, d.next + held)
      reach  == Smaller(UnpackedLen(f), Ratio * (known - Source(f)))
      needed == Source(f) + (d.made + buf + Ratio - 1) \div Ratio
      next   == IF needed > d.next THEN needed ELSE d.next
      \* derailed after g bytes that were right
      wild(g) == {<<[d EXCEPT !.bad = TRUE, !.tail = 0], g, g + extra, TRUE>> : extra \in {0, buf - g}}
                 \cup {<<[d EXCEPT !.bad = TRUE, !.tail = 0], 0, 0, FALSE>>}
  IN  IF held = 0 THEN {<<d, 0, 0, TRUE>>}
      ELSE IF d.bad \/ (n > 0 /\ at # d.next + d.tail) THEN wild(0)
      ELSE IF reach >= d.made + buf
        THEN {<<[d EXCEPT !.next = next, !.tail = held - (next - d.next), !.made = @ + buf], buf, buf, TRUE>>}
      ELSE IF d.next + held > end THEN wild(reach - d.made)
      ELSE {<<[d EXCEPT !.next = @ + held, !.tail = 0, !.made = reach], reach - d.made, reach - d.made, TRUE>>}

Return(good, total) ==
  rd' = [NoRead EXCEPT !.file = rd.file,
                       !.result = IF File.start + File.size <= good THEN "content" ELSE "wrong"]
Raise == rd' = [NoRead EXCEPT !.file = rd.file, !.result = "raised"]

\* The archive's file is closed, or on a device that fails.
FileRaises ==
  /\ mayRaise /\ rd.at # "none"
  /\ Raise
  /\ UNCHANGED <<layoutVars, dec, cache, mayRaise>>
-----------------------------------------------------------------------------
(* read(), and _read_from_decompressor for a folder of one coder. *)

\* The decompressor and what it gave so far come from the folder, if it has them.
ReadBegins(i) ==
  /\ Opened /\ rd.at = "none" /\ files[i].size > 0
  /\ LET f == files[i].folder
         c == IF f \in DOMAIN cache THEN cache[f] ELSE NoCache
     IN  /\ header.folders[f].coder = "lzma"
         /\ rd' = [at |-> "loop", file |-> i, own |-> IF c.set THEN f ELSE New,
                   good |-> c.good, total |-> c.total,
                   pos |-> IF c.set THEN c.pos ELSE files[i].src, result |-> "none"]
         /\ dec' = IF c.set THEN dec ELSE [dec EXCEPT ![New] = NewDec(f)]
  /\ UNCHANGED <<layoutVars, cache, mayRaise>>

Remaining == File.start + File.size - rd.total
Wanted == File.start + File.size > rd.total

\* The bytes that a call of decompress may return.
Limit(n) == IF ~Solid(File.folder) \/ n < ReadBlock THEN Remaining ELSE OutBlock

\* Mutant: the end of the file does not end the loop.
ReadBlockStep_NoEnd ==
  /\ rd.at = "loop" /\ Wanted
  /\ LET n == Smaller(ReadBlock, IF FileLen > rd.pos THEN FileLen - rd.pos ELSE 0) IN
     \E r \in Decompress(dec[rd.own], File.folder, rd.pos, n, Limit(n)) :
       /\ dec' = [dec EXCEPT ![rd.own] = r[1]]
       /\ IF ~r[4] THEN Raise
          ELSE rd' = [rd EXCEPT !.good = IF @ = rd.total THEN @ + r[2] ELSE @,
                                !.total = @ + r[3], !.pos = @ + n]
  /\ UNCHANGED <<layoutVars, cache, mayRaise>>

ReadBlockStep ==
  /\ rd.at = "loop" /\ Wanted
  /\ LET n == Smaller(ReadBlock, IF FileLen > rd.pos THEN FileLen - rd.pos ELSE 0) IN
     \E r \in Decompress(dec[rd.own], File.folder, rd.pos, n, Limit(n)) :
       /\ dec' = [dec EXCEPT ![rd.own] = r[1]]
       /\ IF ~r[4] \/ (r[3] = 0 /\ n = 0) THEN Raise
          ELSE rd' = [rd EXCEPT !.good = IF @ = rd.total THEN @ + r[2] ELSE @,
                                !.total = @ + r[3], !.pos = @ + n]
  /\ UNCHANGED <<layoutVars, cache, mayRaise>>

\* "don't decompress start of solid archive for next file"
CacheWrite(f) == [g \in DOMAIN cache \cup {f} |->
                    IF g = f THEN [set |-> TRUE, good |-> rd.good, total |-> rd.total, pos |-> rd.pos]
                             ELSE cache[g]]

\* Mutant: the position of the file is not kept, the folder's start is.
ReadReturns_StartPos ==
  /\ rd.at = "loop" /\ ~Wanted
  /\ Return(rd.good, rd.total)
  /\ IF Solid(File.folder)
       THEN /\ cache' = [CacheWrite(File.folder) EXCEPT ![File.folder].pos = File.src]
            /\ dec' = [g \in DOMAIN dec \cup {File.folder} |-> IF g = File.folder THEN dec[rd.own] ELSE dec[g]]
       ELSE UNCHANGED <<cache, dec>>
  /\ UNCHANGED <<layoutVars, mayRaise>>

ReadReturns ==
  /\ rd.at = "loop" /\ ~Wanted
  /\ Return(rd.good, rd.total)
  /\ IF Solid(File.folder)
       THEN /\ cache' = CacheWrite(File.folder)
            /\ dec' = [g \in DOMAIN dec \cup {File.folder} |-> IF g = File.folder THEN dec[rd.own] ELSE dec[g]]
       ELSE UNCHANGED <<cache, dec>>
  /\ UNCHANGED <<layoutVars, mayRaise>>
-----------------------------------------------------------------------------
(* The other coders have no cache: one read of the file, one call. *)

\* LZMA and then a filter: all packed bytes, and output for this coder and the next.
ReadFiltered(i) ==
  LET f == files[i].folder
      got == Smaller(UnpackedLen(f), files[i].start + 2 * files[i].size) IN
  /\ Opened /\ rd.at = "none" /\ files[i].size > 0
  /\ header.folders[f].coder = "lzma+filter"
  /\ rd' = [NoRead EXCEPT !.file = i,
                          !.result = IF files[i].start + files[i].size <= got THEN "content" ELSE "wrong"]
  /\ UNCHANGED <<layoutVars, dec, cache, mayRaise>>

\* _read_copy: size bytes from the start of the folder, of which start are skipped.
ReadCopy(i) ==
  LET f == files[i].folder IN
  /\ Opened /\ rd.at = "none" /\ files[i].size > 0
  /\ header.folders[f].coder = "copy"
  /\ rd' = [NoRead EXCEPT !.file = i, !.result = IF files[i].start = 0 THEN "content" ELSE "wrong"]
  /\ UNCHANGED <<layoutVars, dec, cache, mayRaise>>

ReadEmpty(i) ==
  /\ Opened /\ rd.at = "none" /\ files[i].size = 0
  /\ rd' = [NoRead EXCEPT !.file = i, !.result = "content"]
  /\ UNCHANGED <<layoutVars, dec, cache, mayRaise>>

ReadNext ==
  \/ LayoutNext /\ UNCHANGED readVars
  \/ \E i \in DOMAIN files : ReadBegins(i) \/ ReadFiltered(i) \/ ReadCopy(i) \/ ReadEmpty(i)
  \/ ReadBlockStep \/ ReadReturns \/ FileRaises

ReadSpec == ReadInit /\ [][ReadNext]_archiveVars
FairReadSpec == ReadSpec /\ WF_archiveVars(LayoutNext /\ UNCHANGED readVars)
                         /\ WF_archiveVars(ReadBlockStep) /\ WF_archiveVars(ReadReturns)
-----------------------------------------------------------------------------
(* No block that is read whole goes beyond the end of a solid folder before all   *)
(* of the folder's output has been made.                                          *)
BlocksFit ==
  \A f \in {g \in DOMAIN header.folders : Solid(g)} :
    LET over == PackedLen(f) % ReadBlock IN
    \/ over = 0 /\ Ratio * ReadBlock <= OutBlock
    \/ Source(f) + PackedLen(f) + (ReadBlock - over) > FileLen

ReadTypeOK ==
  /\ rd.at \in {"none", "loop"} /\ rd.result \in {"none", "content", "wrong", "raised"}
  /\ rd.own \in DOMAIN dec /\ rd.good <= rd.total /\ rd.pos <= FileLen
  /\ DOMAIN cache \subseteq DOMAIN header.folders

(* What read() returns are the bytes of that file, in whatever order the files *)
(* are read and however often, also after a call that raised.                  *)
ReturnsContent == BlocksFit => rd.result # "wrong"

(* Reads of a folder of one file return its content, whatever went wrong       *)
(* before: such a folder has no cache.                                         *)
AloneUnaffected ==
  rd.file # 0 /\ files[rd.file].folder # NoFolder /\ rd.result = "wrong" => Solid(files[rd.file].folder)

(* Every read of a sound archive succeeds, in any order, as long as the blocks *)
(* that are read fit the folders.                                              *)
FittingFolderReads == BlocksFit /\ ~mayRaise => rd.result \notin {"raised", "wrong"}

(* The output in a folder's cache, its position in the file and the            *)
(* decompressor that goes with them stand at the same byte.  (Not after the    *)
(* archive's file raised in the middle of a read: the decompressor has gone on *)
(* and the cache has not.)                                                     *)
CacheInStep ==
  ~mayRaise => \A f \in DOMAIN cache :
    rd.own # f \/ rd.at = "none" =>
      dec[f].bad \/ (cache[f].total = dec[f].made /\ cache[f].pos = dec[f].next + dec[f].tail)

(* A read that has begun returns or raises.                                    *)
ReadEnds == rd.at = "loop" ~> rd.at = "none"

(* Files of solid and other folders are read right in every order, and what is *)
(* kept between two reads stands at one place (_read_from_decompressor).       *)
FilesAreRead == ReadTypeOK /\ FittingFolderReads /\ AloneUnaffected /\ CacheInStep
-----------------------------------------------------------------------------
(* The readers of Base, Digests and PackInfo (py7zlib.py): numbers of variable   *)
(* length, packed bits, and lists of checksums.  Each is given what an archiver  *)
(* writes according to sdk/DOC/7zFormat.txt, followed by a mark, so that a       *)
(* reader that stops early or late is noticed.                                   *)

CONSTANTS
  Width,     \* bits of a byte: 8 in the code; fewer let every first byte of a number occur
  MaxBits

ASSUME HeaderAssumption == Width \in Nat \ {0} /\ MaxBits \in Nat

VARIABLES given,  \* what was written
          file,   \* the bytes, and the position in them
          got     \* what the reader returned

headerVars == <<given, file, got>>

Byte == 0 .. 2 ^ Width - 1
Mark == 2 ^ Width              \* what follows in the header
Crc(k) == 2 ^ Width + k        \* the checksum of the k-th stream that has one
None == -1                     \* Python's None

Bit(b, i) == (b \div 2 ^ (Width - 1 - i)) % 2    \* i = 0 is the highest
Least(S) == CHOOSE x \in S : \A y \in S : x <= y

\* file.read(n): what there is, up to n.
Piece(s, n) == SubSeq(s, 1, Smaller(n, Len(s)))
Rest(s, n)  == SubSeq(s, Smaller(n, Len(s)) + 1, Len(s))
-----------------------------------------------------------------------------
(* The format. *)

LittleEndian(v, n) == [k \in 1 .. n |-> (v \div 2 ^ (Width * (k - 1))) % 2 ^ Width]

\* v with n extra bytes; n = Width is a first byte of ones only.
WriteNumber(v, n) ==
  LET lead == 2 ^ Width - 2 ^ (Width - n) IN
  <<lead + IF n >= Width THEN 0 ELSE v \div 2 ^ (Width * n)>> \o LittleEndian(v, n)

Fits(v, n) == n >= Width \/ v < 2 ^ (Width * n + (Width - 1 - n))

PadBits(bits) == bits \o [k \in 1 .. (Width - (Len(bits) % Width)) % Width |-> FALSE]
Value(bits) == FoldLeft(LAMBDA a, b : 2 * a + (IF b THEN 1 ELSE 0), 0, bits)
WriteBits(bits) ==
  LET p == PadBits(bits) IN
  [k \in 1 .. Len(p) \div Width |-> Value(SubSeq(p, Width * (k - 1) + 1, Width * k))]

AllTrue(bits) == \A k \in DOMAIN bits : bits[k]
WriteDigests(bits) ==
  (IF AllTrue(bits) THEN <<1>> ELSE <<0>> \o WriteBits(bits))
    \o [k \in 1 .. Len(SelectSeq(bits, LAMBDA b : b)) |-> Crc(k)]
-----------------------------------------------------------------------------
(* The code: what is returned and what is left of the file. *)

\* _read64Bit: the loop ends without a return when no bit is clear.
ReadNumber(s) ==
  LET zeros == {i \in 0 .. Width - 1 : Bit(s[1], i) = 0} IN
  IF zeros = {} THEN <<None, Rest(s, 1)>>
  ELSE LET n     == Least(zeros)
           value == FoldLeft(LAMBDA x, y : x * 2 ^ Width + y, 0, Reverse(SubSeq(s, 2, n + 1)))
           high  == s[1] % 2 ^ (Width - 1 - n)
       IN  <<value + high * 2 ^ (n * Width), Rest(s, n + 1)>>

\* _readBoolean without checkall.
ReadBits(s, count) ==
  <<[k \in 1 .. count |-> Bit(s[1 + (k - 1) \div Width], (k - 1) % Width) = 1],
    Rest(s, (count + Width - 1) \div Width)>>

\* _readBoolean with checkall.
ReadBoolean(s, count) ==
  IF s[1] # 0 THEN <<[k \in 1 .. count |-> TRUE], Rest(s, 1)>> ELSE ReadBits(Rest(s, 1), count)

\* Mutant: the list of flags is always there.
ReadDigests_NoShortForm(s, count) ==
  LET flags == ReadBits(Rest(s, 1), count) IN
  <<[defined |-> flags[1], crcs |-> Piece(flags[2], count)], Rest(flags[2], count)>>

\* Digests: 4 * count bytes.
ReadDigests(s, count) ==
  LET flags == ReadBoolean(s, count) IN
  <<[defined |-> flags[1], crcs |-> Piece(flags[2], count)], Rest(flags[2], count)>>
-----------------------------------------------------------------------------
NumberCases == {[kind |-> "number", v |-> v, n |-> n, bits |-> <<>>] : v \in 0 .. 2 ^ (Width * Width) - 1, n \in 0 .. Width}
BitVectors  == UNION {[1 .. n -> BOOLEAN] : n \in 1 .. MaxBits}

HeaderInit ==
  /\ given \in {c \in NumberCases : Fits(c.v, c.n)}
               \cup {[kind |-> "bits", v |-> 0, n |-> Len(bits), bits |-> bits] : bits \in BitVectors}
               \cup {[kind |-> "digests", v |-> 0, n |-> Len(bits), bits |-> bits] :
                       bits \in BitVectors}
  /\ file = Append(CASE given.kind = "number" -> WriteNumber(given.v, given.n)
                     [] given.kind = "bits"   -> WriteBits(given.bits)
                     [] OTHER                 -> WriteDigests(given.bits), Mark)
  /\ got = [kind |-> "nothing"]

HeaderReturn(r) == got' = [kind |-> given.kind, value |-> r[1]] /\ file' = r[2] /\ UNCHANGED given
Unread(kind) == given.kind = kind /\ got.kind = "nothing"

HeaderNext ==
  \/ Unread("number")  /\ HeaderReturn(ReadNumber(file))
  \/ Unread("bits")    /\ HeaderReturn(ReadBits(file, given.n))
  \/ Unread("digests") /\ HeaderReturn(ReadDigests(file, given.n))

HeaderSpec == HeaderInit /\ [][HeaderNext]_headerVars
-----------------------------------------------------------------------------
(* A number is read as it was written, in whatever length, and the next id     *)
(* follows.  (Not one with eight bytes after the first: for that, the loop     *)
(* ends without a result and the bytes are left for what follows.)             *)
NumbersRead == got.kind = "number" /\ given.n < Width => got.value = given.v /\ file = <<Mark>>

(* So are lists of flags that end within a byte, or with one.                  *)
BitsRead == got.kind = "bits" => got.value = given.bits /\ file = <<Mark>>

(* Which streams have a digest is always known; when all have one, each gets   *)
(* its own and the next id follows.  (When some have none, the code takes as   *)
(* many digests as there are streams, where the format has as many as are      *)
(* defined.)                                                                   *)
DigestsRead ==
  got.kind = "digests" =>
    /\ got.value.defined = given.bits
    /\ AllTrue(given.bits) => got.value.crcs = [k \in DOMAIN given.bits |-> Crc(k)] /\ file = <<Mark>>

(* What a header was written from is what is read from it: numbers, lists of   *)
(* flags and digests (ArchiveFile's readers in py7zlib).                       *)
HeaderIsRead == NumbersRead /\ BitsRead /\ DigestsRead
=============================================================================
