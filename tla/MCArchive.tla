------------------------------- MODULE MCArchive -------------------------------
(* Model checking of the archive reader: a behaviour is about one of its parts, *)
(* the lists and numbers of the header, the walk over its entries, the reads of *)
(* an archive that the walk has opened, a stream of PPMd, data of a filter, or   *)
(* the streams of BCJ2.                                                         *)
EXTENDS ArchiveRead, PpmdCoding, BranchFilters, Bcj2

CONSTANTS MaxFolders, MaxNum, MaxEntries

VARIABLE part
mcVars == <<part, headerVars, archiveVars, ppmdVars, filterVars, bcjVars>>
-----------------------------------------------------------------------------
(* The walk: every order of entries, folders of one to MaxNum files, one or two *)
(* packed streams; sizes that differ, so that a wrong index shows.              *)
Shapes == UNION {[1 .. n -> [num : 1 .. MaxNum, packed : {1, 2}, coder : {"copy"}]] : n \in 1 .. MaxFolders}

LayoutHeader(shape, entries) ==
  LET nums  == Sum([f \in DOMAIN shape |-> shape[f].num])
      packs == Sum([f \in DOMAIN shape |-> shape[f].packed])
  IN  [entries |-> entries, folders |-> shape, packpos |-> 0,
       packsizes |-> [k \in 1 .. packs |-> 2 ^ k], sizes |-> [j \in 1 .. nums |-> 3 ^ j],
       digests |-> [j \in 1 .. nums |-> j # 2]]

LayoutHeaders ==
  {LayoutHeader(shape, entries) :
     shape \in Shapes, entries \in UNION {[1 .. n -> {"dir", "empty", "stream"}] : n \in 0 .. MaxEntries}}
-----------------------------------------------------------------------------
(* The reads: one or two folders of LZMA data, all packed lengths up to 4.      *)
Folder(num, packed, coder) == [num |-> num, packed |-> packed, coder |-> coder]
Split(total) == {<<a, total - a>> : a \in 1 .. total - 1} \cup {<<0, total>>}

LzmaHeader(p, q, s, coder) ==
  [entries |-> <<"stream", "stream", "stream">>,
   folders |-> <<Folder(2, 1, coder), Folder(1, 1, coder)>>,
   packpos |-> 0, packsizes |-> <<p, q>>, sizes |-> s \o <<Ratio * q>>, digests |-> <<TRUE, TRUE, TRUE>>]

Headers2(coder) ==
  UNION {UNION {{LzmaHeader(p, q, s, coder) : s \in Split(Ratio * p) \cup Split(Ratio * p - 1)}
                : p \in 1 .. 4} : q \in 1 .. 3}

\* One solid folder, at the end of the archive.
SolidHeader(p, s) ==
  [entries |-> <<"stream", "stream">>, folders |-> <<Folder(2, 1, "lzma")>>,
   packpos |-> 0, packsizes |-> <<p>>, sizes |-> s, digests |-> <<TRUE, TRUE>>]
SolidHeaders == UNION {{SolidHeader(p, s) : s \in Split(Ratio * p) \cup Split(Ratio * p - 1)} : p \in 1 .. 5}

\* A stored file for each folder, with a file without data between them.
Stored(p, q) ==
  [entries |-> <<"stream", "empty", "stream">>, folders |-> <<Folder(1, 1, "copy"), Folder(1, 1, "copy")>>,
   packpos |-> 0, packsizes |-> <<p, q>>, sizes |-> <<p, q>>, digests |-> <<TRUE, TRUE>>]

ReadHeaders ==
  SolidHeaders \cup Headers2("lzma") \cup Headers2("lzma+filter") \cup {Stored(p, q) : p \in 1 .. 3, q \in 1 .. 3}
-----------------------------------------------------------------------------
(* Texts for PPMd.  After many ab and one other byte the contexts of ab know it *)
(* with frequencies that fade, so that it is removed and its room is given back; *)
(* a text of bytes in no order fills the memory, and the model is restarted.     *)
Rep(s, n) == [k \in 1 .. n * Len(s) |-> s[((k - 1) % Len(s)) + 1]]
Fade(xs, n) == FoldLeft(LAMBDA q, x : q \o <<97, 98, x>>, <<>>, xs) \o Rep(<<97, 98, 99>>, n)

NextRandom(x) == (x * 1103 + 12345) % 65536
Noise(n, x, alphabet) ==
  LET xs == FoldLeft(LAMBDA q, k : Append(q, NextRandom(Last(q))), <<x>>, [k \in 1 .. n |-> k])
  IN [k \in 1 .. n |-> alphabet[1 + ((xs[k + 1] \div 64) % Len(alphabet))]]

SomeTexts ==
  {Fade(<<100>>, 45) \o Fade(<<100, 101, 102>>, 45),
   Fade([k \in 1 .. 7 |-> 99 + k], 45),
   Fade([k \in 1 .. 12 |-> 99 + k], 45) \o Fade(<<100, 101, 102>>, 45),
   Noise(300, 7, <<60, 61, 62>>)}
-----------------------------------------------------------------------------
(* Data for the filters: for x86 all of eight bytes that are an opcode or a sign, *)
(* and noise; instructions at both ends of what is converted, and next to it.     *)
For(name, n, datas) == [filter : IF n = 0 THEN {<<name>>} ELSE {<<name, n>>}, data : datas]
Noises(count, n, alphabet) == {Noise(n, 7 * k, alphabet) : k \in 1 .. count}

X86Noise   == <<232, 0, 255, 233, 1, 254, 24, 232, 100, 0, 255>>
RiscvNoise == <<111, 239, 23, 151, 1, 2, 49, 3, 0, 255, 129, 179, 128, 64, 23, 56, 195, 3, 19, 255>>
ArmtNoise  == <<240, 248, 247, 255, 0, 1, 240, 248, 128, 244, 252>>
IA64Noise  == <<16, 18, 28, 255, 0, 80, 160, 64, 10, 20, 40, 5, 128, 1>>
Ends       == {0, 1, 63, 64, 191, 192, 255}
ArmWords   == {<<a, b, c, d>> : a \in {0, 1, 255}, b \in {0, 16, 255}, c \in Ends, d \in {235, 148, 151, 144, 176, 240, 145}}
PpcWords   == {<<d, c, b, a>> : a \in {0, 1, 254, 253}, b \in {0, 255}, c \in Ends, d \in {72, 75, 64, 127, 80}}

SomeOriginals ==
  For("x86", 0, [1 .. 8 -> {232, 0, 255}] \cup Noises(300, 16, X86Noise))
  \cup For("riscv", 0, Noises(600, 20, RiscvNoise)) \cup For("armt", 0, Noises(300, 10, ArmtNoise))
  \cup For("arm", 0, ArmWords) \cup For("arm64", 0, ArmWords) \cup For("ppc", 0, PpcWords) \cup For("sparc", 0, PpcWords)
  \cup For("ia64", 0, Noises(300, 33, IA64Noise))
  \cup UNION {For("delta", n, UNION {[1 .. k -> {0, 1, 200}] : k \in 0 .. 5}) : n \in 1 .. 3}
-----------------------------------------------------------------------------
(* Code for BCJ2: an opcode of two bytes and an address across the end of a block, *)
(* an address whose last byte begins an opcode, opcodes before too few bytes, and  *)
(* as many as make the range coder carry.                                          *)
CallTo(r) == <<232>> \o AddressBytes(r)
JumpTo(r) == <<233>> \o AddressBytes(r)
CondTo(r) == <<15, 132>> \o AddressBytes(r)

SomeCodes ==
  {<<CallTo(3) \o CondTo(4) \o <<144>> \o JumpTo(-6) \o <<15>>, <<130, 1, 0, 0, 0>> \o CallTo(1) \o <<5>>>>,
   <<<<15, 15>> \o CallTo(2) \o <<232, 1, 0>>>>,
   <<JumpTo(15 * 2 ^ 24) \o <<129, 1, 2, 3, 0>> \o CallTo(-1) \o <<233>>, <<232>>>>,
   <<FlattenSeq([i \in 1 .. 16 |-> CASE (i * i * 7) % 11 < 5 -> CallTo(5)
                                     [] (i * i * 7) % 11 >= 5 /\ i % 3 = 0 -> JumpTo(10 ^ 8)
                                     [] (i * i * 7) % 11 >= 5 /\ i % 3 # 0 -> CondTo(-6)])>>}
-----------------------------------------------------------------------------
NoEntries  == [entries |-> <<>>, folders |-> <<>>, packpos |-> 0, packsizes |-> <<>>, sizes |-> <<>>, digests |-> <<>>]
AllHeaders == {NoEntries} \cup LayoutHeaders \cup ReadHeaders

NotRead    == ReadStart /\ mayRaise = FALSE
NotParsed  == given = [kind |-> "none"] /\ file = <<>> /\ got = [kind |-> "nothing"]
NotCoded   == text = <<>> /\ PpmdStart
Unfiltered == FilterStart /\ NoCode

Init ==
  \/ part = "header" /\ header = NoEntries /\ HeaderInit /\ NotRead /\ NotCoded /\ Unfiltered
  \/ part = "layout" /\ header \in LayoutHeaders /\ NotRead /\ NotParsed /\ NotCoded /\ Unfiltered
  \/ part = "read"   /\ header \in ReadHeaders /\ ReadStart /\ NotParsed /\ NotCoded /\ Unfiltered
  \/ part = "ppmd"   /\ header = NoEntries /\ NotRead /\ NotParsed /\ text \in Texts /\ PpmdStart /\ Unfiltered
  \/ part = "filter" /\ header = NoEntries /\ NotRead /\ NotParsed /\ NotCoded /\ FilterInit /\ NoCode
  \/ part = "bcj2"   /\ header = NoEntries /\ NotRead /\ NotParsed /\ NotCoded /\ FilterStart /\ SomeCode

\* The header is read and its entries followed to every file (Archive7z.__init__).
HeaderLeadsToFiles == HeaderIsRead /\ FilesAreFound

\* Where a behaviour may stop: a list is read, an archive is open, a code is decoded.
Finished ==
  \/ part = "header" /\ got.kind # "nothing"
  \/ part = "layout" /\ ~Walking
  \/ part = "bcj2"   /\ bcjPhase = "over"

Next ==
  \/ part = "header" /\ HeaderNext /\ UNCHANGED <<part, archiveVars, ppmdVars, filterVars, bcjVars>>
  \/ part = "layout" /\ LayoutNext /\ UNCHANGED <<part, readVars, headerVars, ppmdVars, filterVars, bcjVars>>
  \/ part = "read"   /\ ReadNext /\ UNCHANGED <<part, headerVars, ppmdVars, filterVars, bcjVars>>
  \/ part = "ppmd"   /\ PpmdNext /\ UNCHANGED <<part, headerVars, archiveVars, filterVars, bcjVars>>
  \/ part = "filter" /\ FilterNext /\ UNCHANGED <<part, headerVars, archiveVars, ppmdVars, bcjVars>>
  \/ part = "bcj2"   /\ Bcj2Next /\ UNCHANGED <<part, headerVars, archiveVars, ppmdVars, filterVars>>
  \/ Finished /\ UNCHANGED mcVars

Spec ==
  /\ Init /\ [][Next]_mcVars
  /\ WF_mcVars(part = "read" /\ UNCHANGED <<part, headerVars, ppmdVars, filterVars, bcjVars>>
               /\ ((LayoutNext /\ UNCHANGED readVars) \/ ReadBlockStep \/ ReadReturns))
=============================================================================
