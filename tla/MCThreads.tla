------------------------------ MODULE MCThreads ------------------------------
(* Model checking of what the SDK's threads are built from and of what is     *)
(* built from threads: a behaviour is about one event or semaphore            *)
(* (Threads.c), about one coder of blocks (MtCoder.c), which takes such       *)
(* objects as atomic, or about one decoder of blocks (MtDec.c, Lzma2DecMt.c). *)
EXTENDS Threads, MtCoder, Lzma2DecMt

VARIABLE part
mcVars == <<part, threadsVars, coderVars, decMtVars>>

MCObjects ==
  {[kind |-> "auto", init |-> 0, maxCount |-> 1], [kind |-> "manual", init |-> 0, maxCount |-> 1],
   [kind |-> "semaphore", init |-> 0, maxCount |-> 2]}

\* Two threads and an input of no, one and several blocks, where a call may fail;
\* three threads and an input in memory, whose size is known; two calls in turn.
StreamSetups == [threads : {2}, extra : {0}, block : {2}, size : {0, 2, 7}, stream : {TRUE},
                 expected : {FALSE}, faults : {1}, calls : {1}]
MemorySetups == [threads : {3}, extra : {0}, block : {2}, size : {5}, stream : {FALSE},
                 expected : {TRUE}, faults : {0}, calls : {1}]
AgainSetups  == [threads : {2}, extra : {0}, block : {2}, size : {2}, stream : {TRUE},
                 expected : {FALSE}, faults : {0}, calls : {2}]
MCSetups == StreamSetups \cup MemorySetups \cup AgainSetups

\* Streams of blocks that are copied, of LZMA chunks in between, with a block that
\* is too large, with a bad control byte and with bad data.
Copied(n)      == [control |-> 1, unpack |-> n, first |-> 9]
Continued(n)   == [control |-> 2, unpack |-> n, first |-> 9]
Coded(c, need) == [control |-> c, unpack |-> Len(need), pack |-> need[Len(need)], prop |-> 0, first |-> 0,
                   need |-> need]
EndOfData      == [control |-> 0, unpack |-> 0]
ThreeBlocks    == <<Copied(3), Copied(4), Copied(3), EndOfData>>
FiveBlocks     == <<Copied(3), Copied(4), Copied(3), Copied(4), Copied(3), EndOfData>>
ManyChunks     == <<Copied(1), Copied(2), Coded(224, <<5, 6>>), Continued(1), Copied(1), Copied(2), EndOfData>>
LargeBlock     == <<Copied(3), Continued(6), Copied(3), EndOfData>>
BadControl     == <<Copied(3), [control |-> 5, unpack |-> 1, first |-> 9], Copied(3), EndOfData>>
BadData        == <<Copied(3), [Coded(224, <<5, 6>>) EXCEPT !.first = 3], Copied(3), Copied(3), EndOfData>>

SizeOf(s) ==
  FoldLeft(LAMBDA n, c : n + (IF c.control = 0 THEN 1 ELSE IF c.control < 128 THEN 3 + c.unpack
                              ELSE c.pack + IF c.control >= 192 THEN 6 ELSE 5), 0, s)

\* Two threads whose links hold seven bytes, an inStream that is read to its end.
PlainJob(s) ==
  [chunks |-> s, have |-> SizeOf(s), prop |-> 24, threads |-> 2, inBuf |-> 7, blockMax |-> 8, inST |-> 5,
   step |-> 4, dic |-> 6, outSize |-> -1, finish |-> FALSE, progress |-> FALSE, api |-> "decode", want |-> 3,
   calls |-> 1, faults |-> 0]
MCBlockJobs ==
  <<PlainJob(ThreeBlocks),
    [PlainJob(ThreeBlocks) EXCEPT !.threads = 3, !.faults = 1],
    [PlainJob(FiveBlocks) EXCEPT !.threads = 3, !.faults = 1],
    [PlainJob(ManyChunks) EXCEPT !.inBuf = 12, !.faults = 1],
    [PlainJob(LargeBlock) EXCEPT !.faults = 1],
    [PlainJob(ThreeBlocks) EXCEPT !.outSize = 5, !.faults = 1],
    [PlainJob(ThreeBlocks) EXCEPT !.outSize = 5, !.finish = TRUE],
    [PlainJob(ThreeBlocks) EXCEPT !.outSize = 10, !.finish = TRUE],
    [PlainJob(ThreeBlocks) EXCEPT !.outSize = 12, !.finish = TRUE],
    [PlainJob(ThreeBlocks) EXCEPT !.outSize = 12, !.finish = TRUE, !.threads = 1],
    [PlainJob(ThreeBlocks) EXCEPT !.have = 15, !.faults = 1],
    PlainJob(BadControl),
    [PlainJob(BadData) EXCEPT !.threads = 3],
    [PlainJob(ThreeBlocks) EXCEPT !.threads = 1, !.faults = 1],
    [PlainJob(ManyChunks) EXCEPT !.api = "read", !.faults = 1],
    [PlainJob(ThreeBlocks) EXCEPT !.prop = 41],
    [PlainJob(ThreeBlocks) EXCEPT !.progress = TRUE, !.faults = 1],
    [PlainJob(ThreeBlocks) EXCEPT !.calls = 2]>>

\* One that is not used.
NoObject  == object = CHOOSE o \in Objects : TRUE
NoCoder   == setup = CHOOSE s \in Setups : TRUE
NoDecoder == job = 1

Init ==
  \/ part = "object" /\ NoDecoder /\ ThreadsInit /\ CoderInit /\ NoCoder /\ DecMtInit
  \/ part = "coder" /\ NoDecoder /\ CoderInit /\ ThreadsInit /\ NoObject /\ DecMtInit
  \/ part = "decoder" /\ DecMtInit /\ ThreadsInit /\ NoObject /\ CoderInit /\ NoCoder

Next ==
  \/ part = "object" /\ ThreadsNext /\ UNCHANGED <<part, coderVars, decMtVars>>
  \/ part = "coder" /\ PatientNext /\ UNCHANGED <<part, threadsVars, decMtVars>>
  \/ part = "decoder" /\ DecMtNext /\ UNCHANGED <<part, threadsVars, coderVars>>

Spec == Init /\ [][Next]_mcVars /\ FairThreads /\ FairCoder

\* The coder with a caller who calls again as soon as a call has returned.
HurriedSpec ==
  /\ Init /\ part = "coder"
  /\ [][CoderNext /\ UNCHANGED <<part, threadsVars, decMtVars>>]_mcVars
=============================================================================
