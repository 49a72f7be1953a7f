------------------------------ MODULE SdBench ------------------------------
(***************************************************************************)
(* The card library under both its callers: a board runs either the file    *)
(* test's receiver (with the other board as sender) or the codec round      *)
(* trip.  Which one is flashed is chosen at the start.                      *)
(***************************************************************************)
EXTENDS FileTest, CodecSdTest

CONSTANT MaxResets      \* bound: resets of the boards

ASSUME SdBenchConstants == MaxResets \in Nat

VARIABLES firmware, resets

vars == <<firmware, resets, cardVars, fileTestVars, codecVars>>

Init ==
    /\ CardInit /\ files = [p \in {} |-> <<>>]
    /\ firmware \in {"file_test", "codec_sdtest"}
    /\ FileTestInit /\ CodecInit
    /\ resets = 0

Reset ==
    /\ resets < MaxResets /\ resets' = resets + 1
    /\ \/ /\ firmware = "file_test" /\ (SenderReset \/ ReceiverReset)
          /\ UNCHANGED <<firmware, codecVars>>
       \/ /\ firmware = "codec_sdtest" /\ CodecReset
          /\ UNCHANGED <<firmware, fileTestVars>>

Next ==
    \/ /\ firmware = "file_test" /\ FileTestNext
       /\ UNCHANGED <<firmware, resets, codecVars>>
    \/ /\ firmware = "codec_sdtest" /\ CodecNext
       /\ UNCHANGED <<firmware, resets, fileTestVars>>
    \/ Reset

\* Both main loops and the codec task keep running.  Nothing is assumed of the
\* link, the card or the console.
Spec ==
    /\ Init /\ [][Next]_vars
    /\ WF_vars(SenderLoop /\ firmware = "file_test" /\ UNCHANGED <<firmware, resets, codecVars>>)
    /\ WF_vars(TestTask /\ firmware = "codec_sdtest" /\ UNCHANGED <<firmware, resets, fileTestVars>>)

-----------------------------------------------------------------------------

\* The type invariant of the card and of both firmwares.
TypeOK == CardType /\ FileTestType /\ CodecType /\ resets \in 0..MaxResets

\* PASS is true and stays true: whatever the card does to a write, a flush or a
\* read, and whoever is reset, TX PASS and RX PASS (file test) and PASS (round
\* trip) name a file that holds every byte; README.md of both tests promises
\* it (verify_received, test_read_packet).
PassIsTrue == PassedFilesHold /\ TestFilesHold

\* Every error path gives back its handle: the count is exact, never above
\* three, files are open only on a mounted card, and unmount is never refused
\* to the codec task (sd_card_open, sd_card_close, codec_test_run).  With the types.
CountIsExact == TypeOK /\ HandlesCounted /\ PromptIsClean

\* Earlier test files are preserved: no file is removed, and one that its creator
\* has closed, or lost in a reset, never changes again (SD_CARD_CREATE_NEW).
FilesPreserved == [][OnlyTheWriterWrites]_vars

\* Each test comes to its verdict: the sender to PASS or FAIL, the task to its
\* prompt, although every packet and every call may fail.
TestEnds ==
    /\ []<>(firmware = "file_test" => tx_done \/ tx_failed)
    /\ []<>(firmware = "codec_sdtest" => codec_pc = "prompt")
=============================================================================
