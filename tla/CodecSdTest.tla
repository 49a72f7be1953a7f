---------------------------- MODULE CodecSdTest ----------------------------
(***************************************************************************)
(* The Opus round trip over the card (codec_sdtest/src/main.cpp,            *)
(* codec_test.cpp, codec.cpp): one task mounts, encodes frames into a new   *)
(* file, closes, reopens, compares and decodes it, unmounts and waits for   *)
(* the next 'r' of the console.                                             *)
(*                                                                          *)
(* One action is one call of SdCard with what the code does around it       *)
(* (codec_pc).  A record is its length and its packet, two pieces of the    *)
(* file; what Opus computes is left out, but not whose state it is in.      *)
(***************************************************************************)
EXTENDS SdCard

CONSTANTS
    Frames,         \* packets of one test
    TestMaxFiles,   \* TEST_MAX_FILES
    CodecFaults     \* calls of the codec that may fail

ASSUME CodecSdTestConstants ==
    /\ Frames \in Nat \ {0} /\ TestMaxFiles \in Nat \ {0}
    /\ CodecFaults \subseteq {"create", "prepare", "encode", "decode", "quality"}
    /\ {"p_file", "p_duplicate"} \subseteq Slots

VARIABLES
    codec_pc,
    codec,          \* p_codec: none, or an encoder or decoder
    index,          \* of the file name tried
    frame,          \* next frame to encode or decode
    b_passed,
    notified,       \* the task's notification: an 'r' was typed
    testPassed      \* history: the files of the tests that logged PASS

codecVars == <<codec_pc, codec, index, frame, b_passed, notified, testPassed>>

TestPath == <<"run", index>>
Header == <<"header", 0>>
Record(i) == <<<<"length", i>>, <<"packet", i>>>>
\* The independent copy in PSRAM, with the header before it.
Expected ==
    [n \in 1..(2 * Frames + 1) |-> IF n = 1 THEN Header ELSE Record(n \div 2)[1 + (n % 2)]]

CodecStarts ==
    /\ codec_pc = "mount" /\ codec = "none" /\ index = 0 /\ frame = 1
    /\ b_passed = FALSE /\ notified = FALSE
CodecInit == CodecStarts /\ testPassed = {}

CodecMay(fault) == fault \in CodecFaults
At(pc) == codec_pc = pc
Next1(pc) == codec_pc' = pc
Keep == UNCHANGED <<index, frame, b_passed, notified, testPassed>>

\* A stage of codec_test_run: on to the next, or to the common clean-up.
Stage(status, pc) == Next1(IF status = "ok" THEN pc ELSE "cleanup")

CodecMount ==
    /\ At("mount")
    /\ \E status \in Statuses : Mount(status) /\ Next1(IF status = "ok" THEN "prepare" ELSE "unmount")
    /\ index' = 0 /\ frame' = 1 /\ b_passed' = FALSE
    /\ UNCHANGED <<codec, notified, testPassed>>

\* codec_create refuses an occupied handle.
CodecCreate(kind, status) ==
    \/ status = "invalid_state" /\ codec # "none" /\ codec' = codec
    \/ status = "ok" /\ codec = "none" /\ codec' = kind
    \/ status = "no_memory" /\ codec = "none" /\ CodecMay("create") /\ codec' = codec

\* The encoder, its lookahead and the PSRAM buffers.  If one of the latter fails
\* the clean-up finds the encoder still there.
Prepare ==
    /\ At("prepare")
    /\ \/ \E status \in Statuses : CodecCreate("encoder", status) /\ Stage(status, "mkdir")
       \/ CodecMay("prepare") /\ CodecCreate("encoder", "ok") /\ Next1("cleanup")
    /\ Keep /\ UNCHANGED cardVars

TestMkdir ==
    /\ At("mkdir")
    /\ \E status \in Statuses : Mkdir(status) /\ Stage(status, "create")
    /\ Keep /\ UNCHANGED codec

\* The first name that is not in use.
TestOpenNew ==
    /\ At("create") /\ index < TestMaxFiles
    /\ \E status \in Statuses :
          /\ CreateNew("p_file", TestPath, status)
          /\ IF status = "exists" THEN index' = index + 1 /\ Next1("create")
             ELSE index' = index /\ Stage(status, "header")
    /\ UNCHANGED <<codec, frame, b_passed, notified, testPassed>>

AllOccupied ==
    /\ At("create") /\ index = TestMaxFiles
    /\ Next1("cleanup")
    /\ Keep /\ UNCHANGED <<codec, cardVars>>

WriteHeader ==
    /\ At("header")
    /\ \E status \in Statuses : Write("p_file", <<Header>>, status) /\ Stage(status, "duplicate")
    /\ Keep /\ UNCHANGED codec

\* test_api_contracts: what must be refused is tried.
TryDuplicate ==
    /\ At("duplicate")
    /\ \E status \in Statuses :
          /\ CreateNew("p_duplicate", TestPath, status)
          /\ Next1(IF status = "exists" THEN "refuse_unmount" ELSE "close_duplicate")
    /\ Keep /\ UNCHANGED codec

CloseDuplicate ==
    /\ At("close_duplicate")
    /\ \E status \in Statuses : Close("p_duplicate", status)
    /\ Next1("cleanup")
    /\ Keep /\ UNCHANGED codec

TryUnmount ==
    /\ At("refuse_unmount")
    /\ \E status \in Statuses :
          Unmount(status) /\ Next1(IF status = "invalid_state" THEN "refuse_read" ELSE "cleanup")
    /\ Keep /\ UNCHANGED codec

TryRead ==
    /\ At("refuse_read")
    /\ \E status \in Statuses :
          /\ Read("p_file", 1, <<>>, status)
          /\ Next1(IF status = "invalid_state" THEN "refuse_path" ELSE "close_duplicate")
    /\ Keep /\ UNCHANGED codec

TryEscape ==
    /\ At("refuse_path")
    /\ \E status \in Statuses :
          /\ OpenRead("p_duplicate", NoPath, status)
          /\ Next1(IF status = "invalid_argument" THEN "encode" ELSE "close_duplicate")
    /\ Keep /\ UNCHANGED codec

\* codec_encode and the record's write.
EncodeFrame ==
    /\ At("encode") /\ frame <= Frames
    /\ \/ /\ codec = "encoder"
          /\ \E status \in Statuses :
                /\ Write("p_file", Record(frame), status)
                /\ Stage(status, "encode")
          /\ frame' = frame + 1
       \/ /\ codec # "encoder" \/ CodecMay("encode")
          /\ Next1("cleanup") /\ frame' = frame /\ UNCHANGED cardVars
    /\ UNCHANGED <<codec, index, b_passed, notified, testPassed>>

EncodeEnds ==
    /\ At("encode") /\ frame > Frames
    /\ codec' = "none"
    /\ \E status \in Statuses : Close("p_file", status) /\ Stage(status, "reopen")
    /\ Keep

Reopen ==
    /\ At("reopen")
    /\ \E status \in Statuses : OpenRead("p_file", TestPath, status) /\ Stage(status, "size")
    /\ Keep /\ UNCHANGED codec

CheckSize ==
    /\ At("size")
    /\ \E status \in Statuses, size \in {0, Len(Contents("p_file"))} :
          /\ FileSize("p_file", size, status)
          /\ Next1(IF status = "ok" /\ size = Len(Expected) THEN "read_header" ELSE "cleanup")
    /\ Keep /\ UNCHANGED codec

\* Reads count pieces and goes on only if they are what was written.
ReadExpected(count, pc) ==
    LET at == handle["p_file"].at
        there == Slice(Contents("p_file"), at, count)
    IN \E status \in Statuses, pieces \in {<<>>, there} :
          /\ Read("p_file", count, pieces, status)
          /\ Next1(IF status = "ok" /\ pieces = Slice(Expected, at, count)
                   THEN pc ELSE "cleanup")

CheckHeader ==
    /\ At("read_header")
    /\ ReadExpected(1, "decoder")
    /\ UNCHANGED <<codec, index, frame, b_passed, notified, testPassed>>

CreateDecoder ==
    /\ At("decoder")
    /\ \E status \in Statuses : CodecCreate("decoder", status) /\ Stage(status, "read_length")
    /\ frame' = 1
    /\ UNCHANGED <<index, b_passed, notified, testPassed, cardVars>>

ReadLength ==
    /\ At("read_length") /\ frame <= Frames
    /\ ReadExpected(1, "read_packet")
    /\ Keep /\ UNCHANGED codec

ReadPacket ==
    /\ At("read_packet")
    /\ ReadExpected(1, "decode")
    /\ Keep /\ UNCHANGED codec

DecodeFrame ==
    /\ At("decode")
    /\ \/ codec = "decoder" /\ Next1("read_length") /\ frame' = frame + 1
       \/ (codec # "decoder" \/ CodecMay("decode")) /\ Next1("cleanup") /\ frame' = frame
    /\ UNCHANGED <<codec, index, b_passed, notified, testPassed, cardVars>>

\* The read close, then test_quality.
DecodeEnds ==
    /\ At("read_length") /\ frame > Frames
    /\ \E status \in Statuses :
          /\ Close("p_file", status)
          /\ b_passed' = (status = "ok") \/ (CodecMay("quality") /\ b_passed' = FALSE)
    /\ Next1("cleanup")
    /\ UNCHANGED <<codec, index, frame, notified, testPassed>>

\* The one clean-up path and the verdict.
CleanUp ==
    /\ At("cleanup")
    /\ \E status \in Statuses :
          /\ Close("p_file", status)
          /\ testPassed' = IF b_passed /\ status = "ok" THEN testPassed \cup {TestPath} ELSE testPassed
    /\ codec' = "none"
    /\ Next1("unmount")
    /\ UNCHANGED <<index, frame, b_passed, notified>>

TestUnmount ==
    /\ At("unmount")
    /\ \E status \in Statuses : Unmount(status)
    /\ Next1("prompt")
    /\ Keep /\ UNCHANGED codec

\* ulTaskNotifyTake: all the notifications given meanwhile are one.
Repeat ==
    /\ At("prompt") /\ notified
    /\ notified' = FALSE /\ Next1("mount")
    /\ UNCHANGED <<codec, index, frame, b_passed, testPassed, cardVars>>

Console ==
    /\ ~notified /\ notified' = TRUE
    /\ UNCHANGED <<codec_pc, codec, index, frame, b_passed, testPassed, cardVars>>

CodecReset ==
    /\ CardReset
    /\ codec_pc' = "mount" /\ codec' = "none" /\ index' = 0 /\ frame' = 1
    /\ b_passed' = FALSE /\ notified' = FALSE
    /\ UNCHANGED testPassed

Contracts == TryDuplicate \/ CloseDuplicate \/ TryUnmount \/ TryRead \/ TryEscape
EncodeStages ==
    Prepare \/ TestMkdir \/ TestOpenNew \/ AllOccupied \/ WriteHeader \/ Contracts
    \/ EncodeFrame \/ EncodeEnds
DecodeStages ==
    Reopen \/ CheckSize \/ CheckHeader \/ CreateDecoder \/ ReadLength \/ ReadPacket
    \/ DecodeFrame \/ DecodeEnds
TestTask == CodecMount \/ EncodeStages \/ DecodeStages \/ CleanUp \/ TestUnmount \/ Repeat
CodecNext == TestTask \/ Console

-----------------------------------------------------------------------------

CodecType ==
    /\ codec \in {"none", "encoder", "decoder"}
    /\ index \in 0..TestMaxFiles /\ frame \in 1..Frames + 1
    /\ {b_passed, notified} \subseteq BOOLEAN

\* The file of a test that logged PASS holds the header and every record.
TestFilesHold == \A p \in testPassed : p \in DOMAIN files /\ files[p] = Expected

\* While the task waits for the console nothing is left over of the last test.
PromptIsClean ==
    codec_pc \in {"unmount", "prompt"} => codec = "none" /\ g_open_files = 0
=============================================================================
