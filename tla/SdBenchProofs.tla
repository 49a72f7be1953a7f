---------------------------- MODULE SdBenchProofs ----------------------------
(***************************************************************************)
(* The card library and its two callers, for every number of handles,       *)
(* paths, frames, sessions, resets and every set of faults: the library     *)
(* counts its handles and never rewrites a file, and PASS names a file that *)
(* holds every byte.                                                        *)
(*                                                                          *)
(* The argument: a file that no handle writes is never written again        *)
(* (Kept), so what a reader has compared to the end, with no writer left,   *)
(* stays true; the receiver acknowledges a finish, and the sender reads the *)
(* answer, only of such a file.                                             *)
(***************************************************************************)
EXTENDS SdBench, TLAPS, SequenceTheorems, FiniteSetTheorems

\* The parts of the constants' assumptions the proofs use.
LEMMA CardConstants == IsFiniteSet(Slots) /\ MaxFiles \in Nat /\ NoPath \notin Paths
  BY SdCardConstants, PathsAreNames

LEMMA Constants ==
    /\ FileBytes \in Nat \ {0} /\ PayloadBytes \in Nat \ {0} /\ MaxAttempts \in Nat \ {0}
    /\ QueueCount \in Nat \ {0} /\ AirDepth \in Nat \ {0} /\ Copies \subseteq 0..2
    /\ MaxSessions \in Nat \ {0} /\ MaxResets \in Nat
    /\ Frames \in Nat \ {0} /\ TestMaxFiles \in Nat \ {0}
    /\ {"received_file", "input", "p_file", "p_duplicate"} \subseteq Slots
  BY FileTestConstants, CodecSdTestConstants, SdBenchConstants

-----------------------------------------------------------------------------
(* The invariant.                                                           *)

\* What a file may be made of.
Pieces ==
    {Stray, Header} \cup {<<"length", i>> : i \in 1..Frames} \cup {<<"packet", i>> : i \in 1..Frames}
    \cup {<<"byte", s, i>> : s \in 1..MaxSessions, i \in 0..FileBytes - 1}
Contented == Seq(Pieces)

CardOK ==
    /\ CardType /\ HandlesCounted
    /\ files \in [DOMAIN files -> Contented]

\* The file is there with these contents and nobody can write it any more.
Kept(p, contents) == p \in DOMAIN files /\ files[p] = contents /\ p \notin Written
Confirmed(s) == Kept(Path(s), Pattern(s))

OpenIn(slots) == \A slot \in Slots : IsOpen(slot) => slot \in slots

\* A slot reads this file and what it has read is the beginning of contents.
Reads(slot, path, at, contents) ==
    /\ IsOpen(slot) /\ ~handle[slot].writable
    /\ handle[slot].path = path /\ handle[slot].at = at
    /\ Len(Contents(slot)) = Len(contents)
    /\ \A i \in 1..at : Contents(slot)[i] = contents[i]

Packets ==
    [kind : {"none", "begin", "data", "finish"}, ack : BOOLEAN, session : 0..MaxSessions,
     offset : Nat, payload : Contented, checksum : Contented]
\* Only the packet of the start names no session.
Requests == {p \in Packets : p.kind # "none" => p.session # 0}
Answers == {p \in Requests : p.kind = "finish" => Confirmed(p.session)}

LinkInStep ==
    /\ air \in [Boards -> Seq(Requests)] /\ queue \in [Boards -> Seq(Requests)]
    /\ air["receiver"] \in Seq(Answers) /\ queue["sender"] \in Seq(Answers)
    /\ \A b \in Boards : Len(queue[b]) <= QueueCount /\ Len(air[b]) <= AirDepth

SenderInStep ==
    /\ pending \in Requests /\ pending.session = tx_session
    /\ tx_session \in 1..MaxSessions /\ tx_offset \in 0..FileBytes /\ attempts \in 0..MaxAttempts
    /\ tx_done \in BOOLEAN /\ tx_failed \in BOOLEAN
    /\ passed \subseteq 1..MaxSessions /\ \A s \in passed : Confirmed(s)

Verifying == {"reopen", "size", "read", "finished", "cleanup"}

ReceiverInStep ==
    /\ rx_pc \in RxSteps /\ request \in Requests /\ last_received \in Answers
    /\ rx_session \in 0..MaxSessions /\ rx_done \in BOOLEAN
    /\ rx_crc \in Contented /\ Len(rx_crc) <= FileBytes
    /\ rx_session = 0 => ~rx_done
    /\ rx_done => Confirmed(rx_session)
    /\ rx_pc = "create" => request.kind = "begin" /\ rx_session = 0
    /\ rx_pc = "write" => OwnData(request)
    /\ rx_pc \in {"sync", "reopen", "size", "read", "finished"} =>
            request.kind = "finish" /\ request.session = rx_session
    /\ rx_pc = "finished" => Confirmed(rx_session)

\* Only these two handles are used, and the second only to verify.
ReceiverCard ==
    /\ OpenIn({"received_file", "input"})
    /\ rx_pc \in Verifying => ~IsOpen("received_file")
    /\ IsOpen("input") => rx_pc \in {"size", "read", "cleanup"} /\ ~handle["input"].writable
    /\ rx_pc = "size" => /\ IsOpen("input") /\ handle["input"].path = Path(rx_session)
                         /\ handle["input"].at = 0
    /\ rx_pc = "read" => /\ handle["input"].at \in 0..FileBytes
                         /\ Reads("input", Path(rx_session), handle["input"].at, Pattern(rx_session))

FileTestOK == LinkInStep /\ SenderInStep /\ ReceiverInStep /\ ReceiverCard

CodecSteps ==
    {"mount", "prepare", "mkdir", "create", "header", "duplicate", "close_duplicate",
     "refuse_unmount", "refuse_read", "refuse_path", "encode", "reopen", "size", "read_header",
     "decoder", "read_length", "read_packet", "decode", "cleanup", "unmount", "prompt"}

\* How far into the file the task has read.
Position ==
    CASE codec_pc = "decoder" -> 1
      [] codec_pc = "read_length" -> 2 * frame - 1
      [] codec_pc = "read_packet" -> 2 * frame
      [] codec_pc = "decode" -> 2 * frame + 1
      [] OTHER -> 0

CodecInStep ==
    /\ CodecType /\ codec_pc \in CodecSteps
    /\ codec_pc \in {"mount", "prepare", "unmount", "prompt"} => codec = "none"
    /\ b_passed => codec_pc \in {"mount", "cleanup", "unmount", "prompt"}
    /\ b_passed /\ codec_pc = "cleanup" => Kept(TestPath, Expected)
    /\ codec_pc \in {"read_packet", "decode"} => frame <= Frames
    /\ \A p \in testPassed : Kept(p, Expected)

CodecCard ==
    /\ OpenIn({"p_file", "p_duplicate"})
    /\ IsOpen("p_duplicate") => codec_pc = "close_duplicate"
    /\ codec_pc \in {"mount", "prepare", "mkdir", "create", "reopen", "unmount", "prompt"} =>
            ~IsOpen("p_file")
    /\ b_passed /\ codec_pc = "cleanup" => ~IsOpen("p_file")
    /\ codec_pc = "size" => /\ IsOpen("p_file") /\ ~handle["p_file"].writable
                            /\ handle["p_file"].path = TestPath /\ handle["p_file"].at = 0
    /\ codec_pc \in {"read_header", "decoder", "read_length", "read_packet", "decode"} =>
            Reads("p_file", TestPath, Position, Expected)

CodecOK == CodecInStep /\ CodecCard

\* The firmware that is not flashed is as it started.
IInv ==
    /\ CardOK /\ resets \in 0..MaxResets
    /\ \/ firmware = "file_test" /\ FileTestOK /\ CodecInit
       \/ firmware = "codec_sdtest" /\ CodecOK /\ FileTestInit

-----------------------------------------------------------------------------
(* The card's operations.                                                   *)

LEMMA PieceTypes ==
    /\ Stray \in Pieces /\ Header \in Pieces
    /\ \A i \in 1..Frames : <<"length", i>> \in Pieces /\ <<"packet", i>> \in Pieces
    /\ \A s \in 1..MaxSessions, i \in 0..FileBytes - 1 : <<"byte", s, i>> \in Pieces
  BY DEF Pieces

LEMMA SubSeqIsContented ==
    ASSUME NEW file \in Contented, NEW m \in Nat \ {0}, NEW n \in Nat, n <= Len(file)
    PROVE  /\ SubSeq(file, m, n) \in Contented
           /\ Len(SubSeq(file, m, n)) = IF m <= n THEN n - m + 1 ELSE 0
           /\ \A i \in 1..n - m + 1 : SubSeq(file, m, n)[i] = file[m + i - 1]
  <1>1. file \in Seq(Pieces) /\ Len(file) \in Nat
    BY LenProperties DEF Contented
  <1>2. \A i \in m..n : file[i] \in Pieces
    BY <1>1, ElementOfSeq
  <1>3. m \in Int /\ n \in Int
    OBVIOUS
  <1>4. SubSeq(file, m, n) \in Seq(Pieces)
    BY <1>2, <1>3, SubSeqProperties
  <1>5. Len(SubSeq(file, m, n)) = IF m <= n THEN n - m + 1 ELSE 0
    BY <1>2, <1>3, SubSeqProperties
  <1>6. \A i \in 1..n - m + 1 : SubSeq(file, m, n)[i] = file[m + i - 1]
    BY <1>2, <1>3, SubSeqProperties
  <1> QED BY <1>4, <1>5, <1>6 DEF Contented

LEMMA PrefixIsContented ==
    ASSUME NEW file \in Contented, NEW kept \in Prefixes(file)
    PROVE  kept \in Contented
  <1>1. PICK n \in 0..Len(file) : kept = SubSeq(file, 1, n)
    BY DEF Prefixes
  <1>2. n \in Nat /\ n <= Len(file)
    BY <1>1, LenProperties DEF Contented
  <1> QED BY <1>1, <1>2, SubSeqIsContented

\* As much of count pieces after the first at as there is.
LEMMA SliceIs ==
    ASSUME NEW file \in Contented, NEW at \in Nat, NEW count \in Nat, at <= Len(file)
    PROVE  /\ Slice(file, at, count) \in Contented
           /\ Len(Slice(file, at, count)) =
                IF at + count > Len(file) THEN Len(file) - at ELSE count
           /\ \A i \in 1..Len(Slice(file, at, count)) : Slice(file, at, count)[i] = file[at + i]
  <1> DEFINE end == IF at + count > Len(file) THEN Len(file) ELSE at + count
  <1>1. Len(file) \in Nat
    BY LenProperties DEF Contented
  <1>2. end \in Nat /\ end <= Len(file) /\ at <= end /\ at + 1 \in Nat \ {0}
    BY <1>1
  <1>3. Slice(file, at, count) = SubSeq(file, at + 1, end)
    BY DEF Slice
  <1> HIDE DEF end
  <1>4. /\ SubSeq(file, at + 1, end) \in Contented
        /\ Len(SubSeq(file, at + 1, end)) = IF at + 1 <= end THEN end - (at + 1) + 1 ELSE 0
        /\ \A i \in 1..end - (at + 1) + 1 : SubSeq(file, at + 1, end)[i] = file[at + 1 + i - 1]
    BY <1>2, SubSeqIsContented
  <1>5. Len(SubSeq(file, at + 1, end)) = end - at
    BY <1>2, <1>4
  <1>6. \A i \in 1..end - at : at + 1 + i - 1 = at + i /\ i \in 1..end - (at + 1) + 1
    BY <1>2
  <1>7. end - at = IF at + count > Len(file) THEN Len(file) - at ELSE count
    BY <1>1 DEF end
  <1> QED BY <1>3, <1>4, <1>5, <1>6, <1>7

LEMMA HandleTypes ==
    ASSUME CardOK, NEW slot \in Slots
    PROVE  /\ handle[slot] \in [path : Paths \cup {NoPath}, writable : BOOLEAN, at : Nat]
           /\ IsOpen(slot) => /\ handle[slot].path \in DOMAIN files /\ Contents(slot) \in Contented
                              /\ handle[slot].path \in Paths /\ mounted
                              /\ handle[slot].path # NoPath
  BY CardConstants DEF CardOK, CardType, HandlesCounted, Contents

\* What a step of the card keeps.
CardStep == CardOK' /\ OnlyTheWriterWrites
Others(slot) == \A other \in Slots : other # slot => handle'[other] = handle[other]

LEMMA KeptStays ==
    ASSUME OnlyTheWriterWrites, NEW p, NEW contents, Kept(p, contents)
    PROVE  Kept(p, contents)'
  BY DEF OnlyTheWriterWrites, Kept

LEMMA CardUnchanged ==
    ASSUME CardOK, UNCHANGED cardVars
    PROVE  CardStep /\ \A slot \in Slots : Others(slot)
  <1>1. CardOK'
    BY DEF CardOK, CardType, HandlesCounted, cardVars, IsOpen
  <1>2. Written' = Written
    BY DEF cardVars, Written, IsOpen
  <1>3. OnlyTheWriterWrites
    BY <1>2 DEF OnlyTheWriterWrites, cardVars
  <1> QED BY <1>1, <1>3 DEF CardStep, Others, cardVars

LEMMA MountKeeps ==
    ASSUME CardOK, NEW status, Mount(status)
    PROVE  CardStep /\ handle' = handle
  <1>1. g_open_files' = g_open_files /\ files' = files /\ handle' = handle /\ mounted' \in BOOLEAN
        /\ (mounted => mounted')
    BY DEF Mount, CardOK, CardType
  <1>2. CardOK'
    BY <1>1 DEF CardOK, CardType, HandlesCounted, IsOpen
  <1>3. Written' = Written
    BY <1>1 DEF Written, IsOpen
  <1> QED BY <1>1, <1>2, <1>3 DEF CardStep, OnlyTheWriterWrites

LEMMA NoneOpen ==
    ASSUME CardOK
    PROVE  g_open_files = 0 <=> \A slot \in Slots : ~IsOpen(slot)
  <1> DEFINE Open == {slot \in Slots : IsOpen(slot)}
  <1>1. IsFiniteSet(Open)
    BY CardConstants, FS_Subset
  <1>2. Cardinality(Open) = 0 <=> Open = {}
    BY <1>1, FS_EmptySet
  <1> QED BY <1>2 DEF CardOK, HandlesCounted

LEMMA UnmountKeeps ==
    ASSUME CardOK, NEW status, Unmount(status)
    PROVE  CardStep /\ handle' = handle
  <1>1. g_open_files' = g_open_files /\ files' = files /\ handle' = handle /\ mounted' \in BOOLEAN
        /\ (mounted' = mounted \/ g_open_files = 0)
    BY DEF Unmount, CardOK, CardType
  <1>2. \A slot \in Slots : IsOpen(slot) => mounted'
    BY <1>1, NoneOpen DEF CardOK, HandlesCounted
  <1>3. CardOK'
    BY <1>1, <1>2 DEF CardOK, CardType, HandlesCounted, IsOpen
  <1>4. Written' = Written
    BY <1>1 DEF Written, IsOpen
  <1> QED BY <1>1, <1>3, <1>4 DEF CardStep, OnlyTheWriterWrites

LEMMA MkdirKeeps ==
    ASSUME CardOK, NEW status, Mkdir(status)
    PROVE  CardStep /\ handle' = handle
  BY CardUnchanged DEF Mkdir, cardVars

\* A handle given out is one more of the count.
LEMMA OpenedKeeps ==
    ASSUME CardOK, NEW slot \in Slots, NEW path \in Paths, NEW writable \in BOOLEAN,
           Openable(slot, path), Opened(slot, path, writable),
           DOMAIN files' = DOMAIN files \cup {path},
           files' \in [DOMAIN files' -> Contented]
    PROVE  CardOK'
  <1> DEFINE new == [path |-> path, writable |-> writable, at |-> 0]
             Open == {s \in Slots : IsOpen(s)}
  <1>1. new # Null /\ new \in [path : Paths \cup {NoPath}, writable : BOOLEAN, at : Nat]
    BY CardConstants DEF Null
  <1>2. /\ handle' = [handle EXCEPT ![slot] = new] /\ g_open_files' = g_open_files + 1
        /\ mounted' = mounted
    BY DEF Opened
  <1>3. handle \in [Slots -> [path : Paths \cup {NoPath}, writable : BOOLEAN, at : Nat]]
    BY DEF CardOK, CardType
  <1> HIDE DEF new
  <1>4. handle'[slot] = new /\ \A other \in Slots : other # slot => handle'[other] = handle[other]
    BY <1>2, <1>3
  <1>5. {s \in Slots : handle'[s] # Null} = Open \cup {slot}
    BY <1>1, <1>4 DEF IsOpen
  <1>6. IsFiniteSet(Open) /\ slot \notin Open
    BY CardConstants, FS_Subset DEF Openable
  <1>7. Cardinality(Open \cup {slot}) = Cardinality(Open) + 1
    BY <1>6, FS_AddElement
  <1>8. g_open_files' = Cardinality({s \in Slots : handle'[s] # Null}) /\ g_open_files' <= MaxFiles
    <2>1. g_open_files = Cardinality(Open) /\ g_open_files < MaxFiles
      BY DEF CardOK, HandlesCounted, Openable
    <2>2. Cardinality(Open) \in Nat
      BY <1>6, FS_CardinalityType
    <2> HIDE DEF Open
    <2> QED BY <1>2, <1>5, <1>7, <2>1, <2>2, CardConstants
  <1>9. CardType'
    <2>1. handle' \in [Slots -> [path : Paths \cup {NoPath}, writable : BOOLEAN, at : Nat]]
      BY <1>1, <1>2, <1>3
    <2> QED BY <1>2, <2>1 DEF CardOK, CardType
  <1>10. ASSUME NEW s \in Slots, handle'[s] # Null
         PROVE  mounted' /\ handle'[s].path \in DOMAIN files'
    <2>1. CASE s = slot
      BY <1>2, <1>4, <2>1 DEF new, Openable
    <2>2. CASE s # slot
      BY <1>2, <1>4, <1>10, <2>2 DEF CardOK, HandlesCounted, IsOpen
    <2> QED BY <2>1, <2>2
  <1>11. HandlesCounted'
    BY <1>8, <1>10 DEF HandlesCounted, IsOpen
  <1> QED BY <1>9, <1>11 DEF CardOK

LEMMA OpenedOthers ==
    ASSUME CardOK, NEW slot \in Slots, NEW path, NEW writable, Opened(slot, path, writable)
    PROVE  /\ Others(slot)
           /\ handle'[slot] = [path |-> path, writable |-> writable, at |-> 0]
  BY DEF CardOK, CardType, Opened, Others

\* An existing file is never opened for writing.
LEMMA CreateKeeps ==
    ASSUME CardOK, NEW slot \in Slots, NEW path, NEW status, CreateNew(slot, path, status)
    PROVE  /\ CardStep /\ Others(slot)
           /\ status = "ok" =>
                /\ path \notin DOMAIN files /\ ~IsOpen(slot)
                /\ handle'[slot] = [path |-> path, writable |-> TRUE, at |-> 0] /\ IsOpen(slot)'
           /\ status # "ok" => handle' = handle
           /\ status = "exists" => path \in DOMAIN files
  <1>1. CASE UNCHANGED cardVars /\ status # "ok"
    BY <1>1, CardUnchanged DEF CreateNew, OpenRefused, cardVars
  <1>2. CASE /\ status = "ok" /\ Openable(slot, path) /\ path \notin DOMAIN files
             /\ files' = [p \in DOMAIN files \cup {path} |-> IF p = path THEN <<>> ELSE files[p]]
             /\ Opened(slot, path, TRUE)
    <2>1. path \in Paths /\ ~IsOpen(slot) /\ path # NoPath
      BY <1>2, CardConstants DEF Openable
    <2>2. /\ Others(slot) /\ handle'[slot] = [path |-> path, writable |-> TRUE, at |-> 0]
      BY <1>2, OpenedOthers
    <2>3. <<>> \in Contented
      BY EmptySeq DEF Contented
    <2>4. files' \in [DOMAIN files' -> Contented]
      BY <1>2, <2>3 DEF CardOK
    <2>5. CardOK'
      BY <1>2, <2>1, <2>4, OpenedKeeps
    <2>6. \A p \in DOMAIN files : p \in DOMAIN files' /\ files'[p] = files[p] /\ p # path
      BY <1>2
    <2>7. \A p \in DOMAIN files : p \in Written' => p \in Written
      BY <2>2, <2>6 DEF Written, Others, IsOpen
    <2>8. OnlyTheWriterWrites
      BY <2>6, <2>7 DEF OnlyTheWriterWrites
    <2>9. handle'[slot] # Null
      BY <2>1, <2>2 DEF Null
    <2> QED BY <1>2, <2>1, <2>2, <2>5, <2>8, <2>9 DEF CardStep, IsOpen
  <1> QED BY <1>1, <1>2 DEF CreateNew, OpenRefused

LEMMA OpenReadKeeps ==
    ASSUME CardOK, NEW slot \in Slots, NEW path, NEW status, OpenRead(slot, path, status)
    PROVE  /\ CardStep /\ Others(slot) /\ files' = files
           /\ status = "ok" =>
                /\ path \in DOMAIN files /\ ~IsOpen(slot)
                /\ handle'[slot] = [path |-> path, writable |-> FALSE, at |-> 0] /\ IsOpen(slot)'
           /\ status # "ok" => handle' = handle
           /\ path \notin Paths => status # "ok"
  <1>1. CASE UNCHANGED cardVars /\ status # "ok"
    BY <1>1, CardUnchanged DEF cardVars
  <1>2. CASE /\ status = "ok" /\ Openable(slot, path) /\ path \in DOMAIN files
             /\ files' = files /\ Opened(slot, path, FALSE)
    <2>1. path \in Paths /\ ~IsOpen(slot) /\ path # NoPath
      BY <1>2, CardConstants DEF Openable
    <2>2. /\ Others(slot) /\ handle'[slot] = [path |-> path, writable |-> FALSE, at |-> 0]
      BY <1>2, OpenedOthers
    <2>3. DOMAIN files' = DOMAIN files \cup {path} /\ files' \in [DOMAIN files' -> Contented]
      BY <1>2 DEF CardOK
    <2>4. CardOK'
      BY <1>2, <2>1, <2>3, OpenedKeeps
    <2>5. \A p : p \in Written' => p \in Written
      BY <2>2 DEF Written, Others, IsOpen
    <2>6. OnlyTheWriterWrites
      BY <1>2, <2>5 DEF OnlyTheWriterWrites
    <2>7. handle'[slot] # Null
      BY <2>1, <2>2 DEF Null
    <2> QED BY <1>2, <2>1, <2>2, <2>4, <2>6, <2>7 DEF CardStep, IsOpen
  <1> QED BY <1>1, <1>2 DEF OpenRead, OpenRefused

LEMMA SameOpen ==
    ASSUME CardOK, \A slot \in Slots : IsOpen(slot) <=> handle'[slot] # Null
    PROVE  Cardinality({slot \in Slots : handle'[slot] # Null}) = g_open_files
  <1>1. {slot \in Slots : handle'[slot] # Null} = {slot \in Slots : IsOpen(slot)}
    OBVIOUS
  <1> QED BY <1>1 DEF CardOK, HandlesCounted

LEMMA ReadKeeps ==
    ASSUME CardOK, NEW slot \in Slots, NEW count \in Nat, NEW pieces, NEW status,
           Read(slot, count, pieces, status)
    PROVE  /\ CardStep /\ Others(slot) /\ files' = files
           /\ IsOpen(slot) => /\ IsOpen(slot)' /\ handle'[slot].path = handle[slot].path
                              /\ handle'[slot].writable = handle[slot].writable
           /\ ~IsOpen(slot) => handle' = handle
           /\ status = "ok" =>
                /\ IsOpen(slot) /\ ~handle[slot].writable
                /\ handle'[slot].at = handle[slot].at + count
                /\ pieces = Slice(Contents(slot), handle[slot].at, count) /\ Len(pieces) = count
           /\ IsOpen(slot) /\ handle[slot].writable => handle' = handle
  <1> DEFINE T == [path : Paths \cup {NoPath}, writable : BOOLEAN, at : Nat]
             there == Slice(Contents(slot), handle[slot].at, count)
  <1>1. handle \in [Slots -> T] /\ handle[slot] \in T
    BY DEF CardOK, CardType
  <1>2. CASE /\ status \in {"invalid_argument", "invalid_state"} /\ UNCHANGED cardVars
             /\ IsOpen(slot) => handle[slot].writable
    BY <1>2, CardUnchanged DEF cardVars, IsOpen
  <1>3. CASE /\ IsOpen(slot) /\ ~handle[slot].writable
             /\ UNCHANGED <<mounted, g_open_files, files>>
             /\ \E some \in Nat :
                   /\ handle' = [handle EXCEPT ![slot].at = handle[slot].at + some]
                   /\ status = "ok" => some = count /\ Len(there) = count /\ pieces = there
    <2>1. PICK some \in Nat :
            /\ handle' = [handle EXCEPT ![slot].at = handle[slot].at + some]
            /\ status = "ok" => some = count /\ Len(there) = count /\ pieces = there
      BY <1>3
    <2> HIDE DEF there
    <2>2. handle[slot].at + some \in Nat
      BY <1>1
    <2>3. /\ handle'[slot] = [handle[slot] EXCEPT !.at = handle[slot].at + some]
          /\ handle'[slot] \in T /\ Others(slot) /\ handle' \in [Slots -> T]
      BY <1>1, <2>1, <2>2 DEF Others
    <2>4. /\ handle'[slot].path = handle[slot].path /\ handle'[slot].path # NoPath
          /\ handle'[slot].writable = handle[slot].writable
          /\ handle'[slot].at = handle[slot].at + some
      BY <1>1, <1>3, <2>3, HandleTypes
    <2>5. handle'[slot] # Null
      BY <2>4 DEF Null
    <2>6. \A s \in Slots : IsOpen(s) <=> handle'[s] # Null
      BY <1>3, <2>3, <2>5 DEF Others, IsOpen
    <2>7. \A s \in Slots : handle'[s].path = handle[s].path /\ handle'[s].writable = handle[s].writable
      BY <2>3, <2>4 DEF Others
    <2>8. CardType'
      BY <1>3, <2>3 DEF CardType, CardOK
    <2>9. HandlesCounted'
      BY <1>3, <2>6, <2>7, SameOpen DEF CardOK, HandlesCounted, IsOpen
    <2>10. CardOK'
      BY <1>3, <2>8, <2>9 DEF CardOK
    <2>11. \A p : p \in Written' => p \in Written
      BY <2>6, <2>7 DEF Written, IsOpen
    <2>12. OnlyTheWriterWrites
      BY <1>3, <2>11 DEF OnlyTheWriterWrites
    <2> QED BY <1>3, <2>1, <2>3, <2>4, <2>5, <2>10, <2>12 DEF CardStep, IsOpen, there
  <1>4. Read(slot, count, pieces, status) =>
            \/ /\ status = "ok" /\ IsOpen(slot) /\ ~handle[slot].writable
               /\ Len(there) = count /\ pieces = there
               /\ handle' = [handle EXCEPT ![slot].at = handle[slot].at + count]
               /\ UNCHANGED <<mounted, g_open_files, files>>
            \/ /\ status = "io_error" /\ IsOpen(slot) /\ ~handle[slot].writable
               /\ \E some \in 0..Len(there) :
                     handle' = [handle EXCEPT ![slot].at = handle[slot].at + some]
               /\ UNCHANGED <<mounted, g_open_files, files>>
            \/ /\ status \in {"invalid_argument", "invalid_state"} /\ UNCHANGED cardVars
               /\ IsOpen(slot) => handle[slot].writable
    BY DEF Read
  <1> QED BY <1>2, <1>3, <1>4

\* Only the slot's file changes, and only if it is open for writing.
LEMMA ContentsKeep ==
    ASSUME CardOK, NEW path \in Written, NEW contents \in Contented,
           files' = [files EXCEPT ![path] = contents], UNCHANGED <<mounted, g_open_files, handle>>
    PROVE  CardStep
  <1>1. path \in DOMAIN files
    BY DEF Written, CardOK, HandlesCounted
  <1>2. /\ DOMAIN files' = DOMAIN files /\ files'[path] = contents
        /\ \A p \in DOMAIN files : p # path => files'[p] = files[p]
    BY <1>1
  <1>3. files' \in [DOMAIN files' -> Contented]
    BY <1>1 DEF CardOK
  <1>4. CardOK'
    BY <1>2, <1>3 DEF CardOK, CardType, HandlesCounted, IsOpen
  <1>5. Written' = Written
    BY DEF Written, IsOpen
  <1> QED BY <1>2, <1>4, <1>5 DEF CardStep, OnlyTheWriterWrites

LEMMA WriteKeeps ==
    ASSUME CardOK, NEW slot \in Slots, NEW data \in Contented, NEW status,
           Write(slot, data, status)
    PROVE  CardStep /\ handle' = handle
  <1>1. CASE UNCHANGED cardVars
    BY <1>1, CardUnchanged DEF cardVars
  <1>2. CASE /\ IsOpen(slot) /\ handle[slot].writable /\ UNCHANGED <<mounted, g_open_files, handle>>
             /\ \E kept \in Prefixes(data) \cup {[i \in DOMAIN data |-> Stray]} :
                   files' = [files EXCEPT ![handle[slot].path] = files[handle[slot].path] \o kept]
    <2>1. PICK kept \in Prefixes(data) \cup {[i \in DOMAIN data |-> Stray]} :
             files' = [files EXCEPT ![handle[slot].path] = files[handle[slot].path] \o kept]
      BY <1>2
    <2>2. [i \in DOMAIN data |-> Stray] \in Contented
      <3>1. DOMAIN data = 1..Len(data) /\ Len(data) \in Nat
        BY LenProperties DEF Contented
      <3>2. \A i \in 1..Len(data) : Stray \in Pieces
        BY PieceTypes
      <3> QED BY <3>1, <3>2, IsASeq DEF Contented
    <2>3. kept \in Contented
      BY <2>1, <2>2, PrefixIsContented
    <2>4. handle[slot].path \in Written /\ files[handle[slot].path] \in Contented
      BY <1>2, HandleTypes DEF Written, Contents
    <2>5. files[handle[slot].path] \o kept \in Contented
      BY <2>3, <2>4, ConcatProperties DEF Contented
    <2> QED BY <1>2, <2>1, <2>4, <2>5, ContentsKeep
  <1> QED BY <1>1, <1>2 DEF Write

\* The handle is given back whatever happens; only a file open for writing may
\* lose its end.
LEMMA CloseKeeps ==
    ASSUME CardOK, NEW slot \in Slots, NEW status, Close(slot, status)
    PROVE  /\ CardStep /\ Others(slot) /\ ~IsOpen(slot)' /\ handle'[slot] = Null
           /\ Written' \subseteq Written
           /\ ~IsOpen(slot) => handle' = handle /\ files' = files
           /\ ~handle[slot].writable => files' = files
  <1> DEFINE T == [path : Paths \cup {NoPath}, writable : BOOLEAN, at : Nat]
             Open == {s \in Slots : IsOpen(s)}
  <1>1. CASE ~IsOpen(slot) /\ UNCHANGED cardVars
    <2>1. Written' = Written
      BY <1>1 DEF Written, cardVars, IsOpen
    <2> QED BY <1>1, <2>1, CardUnchanged DEF cardVars, IsOpen
  <1>2. CASE /\ IsOpen(slot) /\ handle' = [handle EXCEPT ![slot] = Null]
             /\ g_open_files' = g_open_files - 1 /\ UNCHANGED mounted
             /\ \E kept \in Contented :
                   /\ files' = [files EXCEPT ![handle[slot].path] = kept]
                   /\ ~handle[slot].writable => kept = Contents(slot)
    <2>1. PICK kept \in Contented : /\ files' = [files EXCEPT ![handle[slot].path] = kept]
                                    /\ ~handle[slot].writable => kept = Contents(slot)
      BY <1>2
    <2>2. /\ handle[slot].path \in DOMAIN files
          /\ handle \in [Slots -> T] /\ Null \in T
      BY <1>2, HandleTypes DEF CardOK, CardType, Null
    <2>3. handle'[slot] = Null /\ Others(slot) /\ handle' \in [Slots -> T]
      BY <1>2, <2>2 DEF Others
    <2>4. /\ DOMAIN files' = DOMAIN files /\ files'[handle[slot].path] = kept
          /\ \A p \in DOMAIN files : p # handle[slot].path => files'[p] = files[p]
      BY <2>1, <2>2
    <2>5. /\ files' \in [DOMAIN files' -> Contented]
          /\ ~handle[slot].writable => files' = files
      BY <2>1, <2>2, <2>4 DEF Contents, CardOK
    <2>6. {s \in Slots : handle'[s] # Null} = Open \ {slot}
      BY <2>3 DEF IsOpen, Others
    <2>7. IsFiniteSet(Open) /\ slot \in Open
      BY <1>2, CardConstants, FS_Subset
    <2>8. Cardinality(Open \ {slot}) = Cardinality(Open) - 1 /\ Cardinality(Open) \in Nat
      BY <2>7, FS_RemoveElement, FS_CardinalityType
    <2>9. g_open_files = Cardinality(Open) /\ g_open_files <= MaxFiles
      BY DEF CardOK, HandlesCounted
    <2>10. g_open_files' = Cardinality({s \in Slots : handle'[s] # Null}) /\ g_open_files' <= MaxFiles
      <3>1. g_open_files' = g_open_files - 1
        BY <1>2
      <3> HIDE DEF Open
      <3>2. g_open_files - 1 = Cardinality(Open) - 1 /\ g_open_files - 1 <= MaxFiles
        BY <2>8, <2>9, CardConstants
      <3> QED BY <2>6, <2>8, <3>1, <3>2
    <2>11. \A s \in Slots : handle'[s] # Null => mounted' /\ handle'[s].path \in DOMAIN files'
      BY <1>2, <2>3, <2>4 DEF CardOK, HandlesCounted, IsOpen, Others
    <2>12. HandlesCounted'
      BY <2>10, <2>11 DEF HandlesCounted, IsOpen
    <2>13. CardOK'
      BY <1>2, <2>3, <2>4, <2>5, <2>12 DEF CardOK, CardType
    <2>14. \A p : p \in Written' => p \in Written
      BY <2>3 DEF Written, IsOpen, Others
    <2>15. \A p \in DOMAIN files : p \notin Written => files'[p] = files[p]
      <3>1. CASE handle[slot].writable
        BY <1>2, <2>4, <3>1 DEF Written
      <3> QED BY <2>5, <3>1
    <2>16. OnlyTheWriterWrites
      BY <2>4, <2>14, <2>15 DEF OnlyTheWriterWrites
    <2> QED BY <1>2, <2>3, <2>5, <2>13, <2>14, <2>16 DEF CardStep, IsOpen
  <1>3. IsOpen(slot) => Contents(slot) \in Contented /\ Prefixes(Contents(slot)) \subseteq Contented
    BY HandleTypes, PrefixIsContented
  <1>4. IsOpen(slot) => files = [files EXCEPT ![handle[slot].path] = Contents(slot)]
    BY HandleTypes DEF Contents, CardOK
  <1> QED BY <1>1, <1>2, <1>3, <1>4 DEF Close

LEMMA CardResetKeeps ==
    ASSUME CardOK, CardReset
    PROVE  CardStep /\ \A slot \in Slots : ~IsOpen(slot)'
  <1> DEFINE T == [path : Paths \cup {NoPath}, writable : BOOLEAN, at : Nat]
  <1>1. mounted' = FALSE /\ g_open_files' = 0 /\ handle' = [slot \in Slots |-> Null]
    BY DEF CardReset
  <1>2. /\ DOMAIN files' = DOMAIN files /\ files' \in [DOMAIN files -> Contented]
        /\ \A p \in DOMAIN files : p \notin Written => files'[p] = files[p]
    <2>1. CASE files' = files
      BY <2>1 DEF CardOK
    <2>2. CASE \E slot \in Slots : \E kept \in Prefixes(Contents(slot)) :
                  /\ IsOpen(slot) /\ handle[slot].writable
                  /\ files' = [files EXCEPT ![handle[slot].path] = kept]
      <3>1. PICK slot \in Slots : \E kept \in Prefixes(Contents(slot)) :
                  /\ IsOpen(slot) /\ handle[slot].writable
                  /\ files' = [files EXCEPT ![handle[slot].path] = kept]
        BY <2>2
      <3>0. PICK kept \in Prefixes(Contents(slot)) :
                  files' = [files EXCEPT ![handle[slot].path] = kept]
        BY <3>1
      <3>2. kept \in Contented /\ handle[slot].path \in Written
        BY <3>1, HandleTypes, PrefixIsContented DEF Written
      <3>3. /\ DOMAIN files' = DOMAIN files /\ files' \in [DOMAIN files -> Contented]
            /\ \A p \in DOMAIN files : files'[p] = IF p = handle[slot].path THEN kept ELSE files[p]
        BY <3>0, <3>2 DEF CardOK
      <3> QED BY <3>2, <3>3 DEF CardOK
    <2> QED BY <2>1, <2>2 DEF CardReset
  <1>3. \A slot \in Slots : handle'[slot] = Null
    BY <1>1
  <1>4. {slot \in Slots : handle'[slot] # Null} = {}
    BY <1>3
  <1>5. Cardinality({slot \in Slots : handle'[slot] # Null}) = 0
    BY <1>4, FS_EmptySet
  <1>6. CardType'
    BY <1>1, <1>2 DEF CardType, CardOK, Null
  <1>7. HandlesCounted'
    BY <1>1, <1>3, <1>5, CardConstants DEF HandlesCounted, IsOpen
  <1>8. \A p : p \notin Written'
    BY <1>3 DEF Written, IsOpen
  <1> QED BY <1>2, <1>3, <1>6, <1>7, <1>8 DEF CardStep, CardOK, OnlyTheWriterWrites, IsOpen

-----------------------------------------------------------------------------
(* The file test: packets and the link.                                     *)

LEMMA PatternIs ==
    ASSUME NEW s \in 1..MaxSessions
    PROVE  /\ Pattern(s) \in Contented /\ Len(Pattern(s)) = FileBytes
           /\ Path(s)[2] = s
  <1>1. \A i \in 1..FileBytes : <<"byte", s, i - 1>> \in Pieces
    BY PieceTypes, Constants
  <1>2. Pattern(s) \in Contented
    BY <1>1, IsASeq, Constants DEF Pattern, Contented
  <1>3. Len(Pattern(s)) = FileBytes
    BY Constants DEF Pattern
  <1> QED BY <1>2, <1>3 DEF Path

LEMMA EmptyIsContented == <<>> \in Contented /\ Len(<<>>) = 0 /\ Len(<<>>) <= FileBytes
  <1>1. Len(<<>>) = 0 /\ <<>> \in Contented
    BY EmptySeq DEF Contented
  <1>2. 0 <= FileBytes
    BY Constants
  <1> QED BY <1>1, <1>2

LEMMA TwoBoards ==
    /\ "sender" \in Boards /\ "receiver" \in Boards
    /\ \A b \in Boards : b = "sender" \/ b = "receiver"
    /\ Peer("sender") = "receiver" /\ Peer("receiver") = "sender"
    /\ \A b \in Boards : Peer(b) \in Boards /\ Peer(b) # b
  BY DEF Boards, Peer

LEMMA PacketIs ==
    ASSUME NEW kind \in {"begin", "data", "finish"}, NEW s \in 1..MaxSessions, NEW offset \in Nat,
           NEW payload \in Contented, NEW crc \in Contented
    PROVE  /\ Packet(kind, s, offset, payload, crc) \in Requests
           /\ Packet(kind, s, offset, payload, crc).kind = kind
           /\ Packet(kind, s, offset, payload, crc).session = s
  BY DEF Packet, Requests, Packets

LEMMA BeginIs ==
    ASSUME NEW s \in 1..MaxSessions
    PROVE  BeginPacket(s) \in Requests /\ BeginPacket(s).session = s
  BY PacketIs, EmptyIsContented, Constants DEF BeginPacket

LEMMA NoPacketIs == NoPacket \in Answers
  <1>1. NoPacket \in Packets /\ NoPacket.kind = "none"
    BY EmptyIsContented, Constants DEF NoPacket, Packet, Packets
  <1> QED BY <1>1 DEF Requests, Answers

LEMMA AckIs ==
    ASSUME NEW packet \in Requests
    PROVE  /\ [packet EXCEPT !.ack = TRUE] \in Requests
           /\ [packet EXCEPT !.ack = TRUE].kind = packet.kind
           /\ [packet EXCEPT !.ack = TRUE].session = packet.session
  BY DEF Requests, Packets

\* What is confirmed stays confirmed.
LEMMA AnswersGrow ==
    ASSUME OnlyTheWriterWrites
    PROVE  /\ Answers \subseteq Answers' /\ Requests' = Requests
           /\ \A q \in Seq(Answers) : q \in Seq(Answers')
           /\ \A s : Confirmed(s) => Confirmed(s)'
  <1>1. \A s : Confirmed(s) => Confirmed(s)'
    BY KeptStays DEF Confirmed
  <1>2. Answers \subseteq Answers' /\ Requests' = Requests
    BY <1>1 DEF Answers, Requests
  <1>3. \A q \in Seq(Answers) : q \in Seq(Answers')
    BY <1>2, SeqMonotonic
  <1> QED BY <1>1, <1>2, <1>3

LEMMA LinkStays ==
    ASSUME LinkInStep, OnlyTheWriterWrites, UNCHANGED linkVars
    PROVE  LinkInStep'
  BY AnswersGrow DEF LinkInStep, linkVars

LEMMA SendKeeps ==
    ASSUME LinkInStep, NEW b \in Boards, NEW packet \in Requests, NEW accepted,
           SendPacket(b, packet, accepted)
    PROVE  /\ air' \in [Boards -> Seq(Requests)]
           /\ \A S : air[b] \in Seq(S) /\ packet \in S => air'[b] \in Seq(S)
           /\ \A c \in Boards : (c # b => air'[c] = air[c]) /\ Len(air'[c]) <= AirDepth
  <1>1. air \in [Boards -> Seq(Requests)] /\ \A c \in Boards : Len(air[c]) <= AirDepth
    BY DEF LinkInStep
  <1>2. CASE accepted /\ Len(air[b]) < AirDepth
    <2>1. air' = [air EXCEPT ![b] = Append(air[b], packet)]
      BY <1>2 DEF SendPacket
    <2>2. air'[b] = Append(air[b], packet) /\ \A c \in Boards : c # b => air'[c] = air[c]
      BY <1>1, <2>1
    <2>3. \A S : air[b] \in Seq(S) /\ packet \in S => Append(air[b], packet) \in Seq(S)
      OBVIOUS
    <2>4. air[b] \in Seq(Requests) /\ Append(air[b], packet) \in Seq(Requests)
      BY <1>1, <2>3
    <2>5. air' \in [Boards -> Seq(Requests)]
      BY <1>1, <2>1, <2>4
    <2>6. Len(air'[b]) = Len(air[b]) + 1 /\ Len(air[b]) \in Nat
      BY <2>2, <2>4, AppendProperties, LenProperties
    <2>7. Len(air'[b]) <= AirDepth
      BY <1>2, <2>6, Constants
    <2> QED BY <1>1, <2>2, <2>3, <2>5, <2>7
  <1>3. CASE ~(accepted /\ Len(air[b]) < AirDepth)
    BY <1>1, <1>3 DEF SendPacket
  <1> QED BY <1>2, <1>3

LEMMA EnqueuedKeeps ==
    ASSUME NEW S, NEW q \in Seq(S), NEW packet \in S, Len(q) <= QueueCount
    PROVE  Enqueued(q, packet) \in Seq(S) /\ Len(Enqueued(q, packet)) <= QueueCount
  <1>1. Len(q) \in Nat /\ Append(q, packet) \in Seq(S) /\ Len(Append(q, packet)) = Len(q) + 1
    BY AppendProperties, LenProperties
  <1> QED BY <1>1, Constants DEF Enqueued

LEMMA TailKeeps ==
    ASSUME NEW S, NEW q \in Seq(S), q # <<>>
    PROVE  Head(q) \in S /\ Tail(q) \in Seq(S) /\ Len(Tail(q)) <= Len(q)
  <1>1. Head(q) \in S /\ Tail(q) \in Seq(S) /\ Len(Tail(q)) = Len(q) - 1 /\ Len(q) \in Nat
    BY HeadTailProperties, LenProperties
  <1> QED BY <1>1

\* The board takes the first packet of its queue.
LEMMA TakeKeeps ==
    ASSUME LinkInStep, NEW b \in Boards, queue[b] # <<>>,
           queue' = [queue EXCEPT ![b] = Tail(queue[b])]
    PROVE  /\ Head(queue[b]) \in Requests /\ queue' \in [Boards -> Seq(Requests)]
           /\ \A S : queue[b] \in Seq(S) => Head(queue[b]) \in S /\ queue'[b] \in Seq(S)
           /\ \A c \in Boards : (c # b => queue'[c] = queue[c]) /\ Len(queue'[c]) <= QueueCount
  <1>1. queue \in [Boards -> Seq(Requests)] /\ \A c \in Boards : Len(queue[c]) <= QueueCount
    BY DEF LinkInStep
  <1>2. queue'[b] = Tail(queue[b]) /\ \A c \in Boards : c # b => queue'[c] = queue[c]
    BY <1>1
  <1>3. queue[b] \in Seq(Requests) /\ Len(queue[b]) \in Nat
    BY <1>1, LenProperties
  <1>4. \A S : queue[b] \in Seq(S) => Head(queue[b]) \in S /\ Tail(queue[b]) \in Seq(S)
    BY TailKeeps
  <1>5. Head(queue[b]) \in Requests /\ Tail(queue[b]) \in Seq(Requests)
        /\ Len(Tail(queue[b])) <= Len(queue[b]) /\ Len(Tail(queue[b])) \in Nat
    BY <1>3, TailKeeps, LenProperties
  <1>6. queue' \in [Boards -> Seq(Requests)]
    BY <1>1, <1>5
  <1>7. Len(queue'[b]) <= QueueCount
    BY <1>1, <1>2, <1>3, <1>5, Constants
  <1> QED BY <1>1, <1>2, <1>4, <1>5, <1>6, <1>7

LEMMA OnReceiveKeeps ==
    ASSUME LinkInStep, NEW b \in Boards, NEW copies \in Copies, OnReceive(b, copies)
    PROVE  LinkInStep'
  <1> DEFINE packet == Head(air[Peer(b)])
             once == Enqueued(queue[b], packet)
             after == CASE copies = 0 -> queue[b]
                        [] copies = 1 -> once
                        [] copies = 2 -> Enqueued(once, packet)
  <1>0. Peer(b) \in Boards /\ Peer(b) # b
    BY TwoBoards
  <1>1. /\ air[Peer(b)] # <<>> /\ queue' = [queue EXCEPT ![b] = after]
        /\ air' = [air EXCEPT ![Peer(b)] = Tail(air[Peer(b)])] /\ UNCHANGED cardVars
    BY DEF OnReceive
  <1>2. copies = 0 \/ copies = 1 \/ copies = 2
    BY Constants
  <1>3. ASSUME NEW S, air[Peer(b)] \in Seq(S), queue[b] \in Seq(S), Len(queue[b]) <= QueueCount
        PROVE  /\ Tail(air[Peer(b)]) \in Seq(S) /\ Len(Tail(air[Peer(b)])) <= Len(air[Peer(b)])
               /\ after \in Seq(S) /\ Len(after) <= QueueCount
    <2>1. /\ packet \in S /\ Tail(air[Peer(b)]) \in Seq(S)
          /\ Len(Tail(air[Peer(b)])) <= Len(air[Peer(b)])
      BY <1>1, <1>3, TailKeeps
    <2>2. once \in Seq(S) /\ Len(once) <= QueueCount
      BY <2>1, <1>3, EnqueuedKeeps
    <2>3. Enqueued(once, packet) \in Seq(S) /\ Len(Enqueued(once, packet)) <= QueueCount
      BY <2>1, <2>2, EnqueuedKeeps
    <2> HIDE DEF packet, once
    <2> QED BY <1>2, <1>3, <2>1, <2>2, <2>3
  <1>4. /\ air \in [Boards -> Seq(Requests)] /\ queue \in [Boards -> Seq(Requests)]
        /\ \A c \in Boards : Len(queue[c]) <= QueueCount /\ Len(air[c]) <= AirDepth
    BY DEF LinkInStep
  <1>5. /\ Tail(air[Peer(b)]) \in Seq(Requests) /\ after \in Seq(Requests)
        /\ Len(Tail(air[Peer(b)])) <= Len(air[Peer(b)]) /\ Len(after) <= QueueCount
    BY <1>0, <1>3, <1>4
  <1> HIDE DEF after
  <1>6. /\ queue'[b] = after /\ air'[Peer(b)] = Tail(air[Peer(b)]) /\ air'[b] = air[b]
        /\ \A c \in Boards : c # b => queue'[c] = queue[c] /\ c = Peer(b)
    BY <1>0, <1>1, <1>4, TwoBoards
  <1>7. air' \in [Boards -> Seq(Requests)] /\ queue' \in [Boards -> Seq(Requests)]
    BY <1>0, <1>1, <1>4, <1>5
  <1>8. \A c \in Boards : Len(queue'[c]) <= QueueCount /\ Len(air'[c]) <= AirDepth
    <2>1. Len(Tail(air[Peer(b)])) \in Nat /\ Len(air[Peer(b)]) \in Nat
      BY <1>0, <1>4, <1>5, LenProperties
    <2>2. Len(air'[Peer(b)]) <= AirDepth
      BY <1>0, <1>4, <1>5, <1>6, <2>1, Constants
    <2> QED BY <1>0, <1>4, <1>5, <1>6, <2>2, TwoBoards
  <1>9. Answers' = Answers /\ Requests' = Requests
    BY <1>1 DEF Answers, Requests, Confirmed, Kept, Written, IsOpen, cardVars
  <1>10. air'["receiver"] \in Seq(Answers) /\ queue'["sender"] \in Seq(Answers)
    <2>0. air["receiver"] \in Seq(Answers) /\ queue["sender"] \in Seq(Answers)
      BY DEF LinkInStep
    <2>1. CASE b = "sender"
      BY <1>3, <1>4, <1>6, <2>0, <2>1, TwoBoards
    <2>2. CASE b = "receiver"
      BY <1>6, <2>0, <2>2, TwoBoards
    <2> QED BY <2>1, <2>2, TwoBoards
  <1> QED BY <1>7, <1>8, <1>9, <1>10 DEF LinkInStep

-----------------------------------------------------------------------------
(* The file test's sender.                                                  *)

LEMMA SenderStays ==
    ASSUME SenderInStep, OnlyTheWriterWrites, UNCHANGED txVars
    PROVE  SenderInStep'
  BY AnswersGrow DEF SenderInStep, txVars

LEMMA ReceiverStays ==
    ASSUME ReceiverInStep, ReceiverCard, UNCHANGED <<rxVars, cardVars>>
    PROVE  ReceiverInStep' /\ ReceiverCard'
  <1>1. \A s : Confirmed(s)' <=> Confirmed(s)
    BY DEF cardVars, Confirmed, Kept, Written, IsOpen
  <1>2. Answers' = Answers /\ Requests' = Requests
    BY <1>1 DEF Answers, Requests
  <1>3. OwnData(request)' <=> OwnData(request)
    BY DEF OwnData, rxVars, cardVars, IsOpen
  <1>4. ReceiverInStep'
    BY <1>1, <1>2, <1>3 DEF ReceiverInStep, rxVars
  <1>5. ReceiverCard'
    BY DEF ReceiverCard, OpenIn, Reads, Contents, IsOpen, rxVars, cardVars
  <1> QED BY <1>4, <1>5

\* What a step of the sender has to keep.
LEMMA SenderStep ==
    ASSUME CardOK, FileTestOK, SenderInStep', UNCHANGED <<rxVars, cardVars>>,
           \/ air' = air /\ queue["sender"] # <<>>
              /\ queue' = [queue EXCEPT !["sender"] = Tail(queue["sender"])]
           \/ /\ queue' = queue
              /\ \/ air' = air
                 \/ \E accepted : SendPacket("sender", pending, accepted)
    PROVE  CardStep /\ FileTestOK'
  <1>1. CardStep /\ OnlyTheWriterWrites
    BY CardUnchanged DEF CardStep
  <1>2. ReceiverInStep' /\ ReceiverCard'
    BY ReceiverStays DEF FileTestOK
  <1>3. LinkInStep /\ "sender" \in Boards /\ "receiver" \in Boards /\ "receiver" # "sender"
    BY TwoBoards DEF FileTestOK
  <1>4. LinkInStep'
    <2>1. CASE air' = air /\ queue["sender"] # <<>>
               /\ queue' = [queue EXCEPT !["sender"] = Tail(queue["sender"])]
      <3>1. /\ queue' \in [Boards -> Seq(Requests)] /\ queue'["sender"] \in Seq(Answers)
            /\ \A c \in Boards : Len(queue'[c]) <= QueueCount
        BY <1>3, <2>1, TakeKeeps DEF LinkInStep
      <3> QED BY <1>1, <1>3, <2>1, <3>1, AnswersGrow DEF LinkInStep
    <2>2. CASE UNCHANGED linkVars
      BY <1>1, <1>3, <2>2, LinkStays
    <2>3. ASSUME queue' = queue, NEW accepted, SendPacket("sender", pending, accepted)
          PROVE  LinkInStep'
      <3>1. pending \in Requests
        BY DEF FileTestOK, SenderInStep
      <3>2. /\ air' \in [Boards -> Seq(Requests)] /\ air'["receiver"] = air["receiver"]
            /\ \A c \in Boards : Len(air'[c]) <= AirDepth
        BY <1>3, <2>3, <3>1, SendKeeps
      <3> QED BY <1>1, <1>3, <2>3, <3>2, AnswersGrow DEF LinkInStep
    <2> QED BY <2>1, <2>2, <2>3 DEF linkVars
  <1> QED BY <1>1, <1>2, <1>4 DEF FileTestOK

LEMMA TxPassKeeps == CardOK /\ FileTestOK /\ TxPass => CardStep /\ FileTestOK'
  <1> SUFFICES ASSUME CardOK, FileTestOK, TxPass PROVE CardStep /\ FileTestOK'
    OBVIOUS
  <1>1. /\ queue["sender"] # <<>> /\ queue' = [queue EXCEPT !["sender"] = Tail(queue["sender"])]
        /\ Head(queue["sender"]) = [pending EXCEPT !.ack = TRUE] /\ pending.kind = "finish"
        /\ tx_done' = TRUE /\ passed' = passed \cup {tx_session}
        /\ UNCHANGED <<air, pending, tx_session, tx_offset, attempts, tx_failed, rxVars, cardVars>>
    BY DEF TxPass, TakeReply, Answered, SenderOnly
  <1>2. Head(queue["sender"]) \in Answers
    BY <1>1, TailKeeps DEF FileTestOK, LinkInStep
  <1>3. Head(queue["sender"]).kind = "finish" /\ Head(queue["sender"]).session = tx_session
    BY <1>1, AckIs DEF FileTestOK, SenderInStep
  <1>4. Confirmed(tx_session)
    BY <1>2, <1>3 DEF Answers
  <1>5. OnlyTheWriterWrites
    BY <1>1, CardUnchanged DEF CardStep
  <1>6. \A s \in passed' : Confirmed(s)'
    BY <1>1, <1>4, <1>5, AnswersGrow DEF FileTestOK, SenderInStep
  <1>7. SenderInStep'
    BY <1>1, <1>5, <1>6, AnswersGrow DEF FileTestOK, SenderInStep
  <1> QED BY <1>1, <1>7, SenderStep

LEMMA TxAdvanceKeeps == CardOK /\ FileTestOK /\ TxAdvance => CardStep /\ FileTestOK'
  <1> SUFFICES ASSUME CardOK, FileTestOK, TxAdvance PROVE CardStep /\ FileTestOK'
    OBVIOUS
  <1> DEFINE bytes == Slice(Pattern(tx_session), tx_offset, PayloadBytes)
  <1>1. /\ queue["sender"] # <<>> /\ queue' = [queue EXCEPT !["sender"] = Tail(queue["sender"])]
        /\ attempts' = 0
        /\ UNCHANGED <<air, tx_session, tx_done, tx_failed, passed, rxVars, cardVars>>
    BY DEF TxAdvance, TakeReply, SenderOnly
  <1>2. \/ /\ pending' = Packet("finish", tx_session, tx_offset, <<>>, Pattern(tx_session))
           /\ tx_offset' = tx_offset
        \/ /\ pending' = Packet("data", tx_session, tx_offset, bytes, bytes)
           /\ tx_offset' = tx_offset + Len(bytes)
    BY DEF TxAdvance
  <1>3. SenderInStep
    BY DEF FileTestOK
  <1>4. tx_session \in 1..MaxSessions /\ tx_offset \in 0..FileBytes
    BY <1>3 DEF SenderInStep
  <1>5. /\ Pattern(tx_session) \in Contented /\ Len(Pattern(tx_session)) = FileBytes
        /\ tx_offset \in Nat /\ PayloadBytes \in Nat /\ FileBytes \in Nat /\ tx_offset <= FileBytes
    BY <1>4, PatternIs, Constants
  <1>6. /\ bytes \in Contented
        /\ Len(bytes) = IF tx_offset + PayloadBytes > FileBytes THEN FileBytes - tx_offset
                        ELSE PayloadBytes
    BY <1>5, SliceIs
  <1> HIDE DEF bytes
  <1>7. tx_offset' \in 0..FileBytes
    BY <1>2, <1>4, <1>5, <1>6
  <1>8. pending' \in Requests /\ pending'.session = tx_session
    BY <1>2, <1>4, <1>5, <1>6, PacketIs, EmptyIsContented
  <1>9. OnlyTheWriterWrites
    BY <1>1, CardUnchanged DEF CardStep
  <1>10. attempts' \in 0..MaxAttempts
    BY <1>1, Constants
  <1>11. SenderInStep'
    BY <1>1, <1>3, <1>7, <1>8, <1>9, <1>10, AnswersGrow DEF SenderInStep
  <1> QED BY <1>1, <1>11, SenderStep

LEMMA TxIgnoreKeeps == CardOK /\ FileTestOK /\ TxIgnore => CardStep /\ FileTestOK'
  <1> SUFFICES ASSUME CardOK, FileTestOK, TxIgnore PROVE CardStep /\ FileTestOK'
    OBVIOUS
  <1>1. /\ queue["sender"] # <<>> /\ queue' = [queue EXCEPT !["sender"] = Tail(queue["sender"])]
        /\ UNCHANGED <<air, txVars, rxVars, cardVars>>
    BY DEF TxIgnore, TakeReply, SenderOnly
  <1>2. SenderInStep'
    BY <1>1, CardUnchanged, SenderStays DEF CardStep, FileTestOK
  <1> QED BY <1>1, <1>2, SenderStep

LEMMA TxSendKeeps ==
    CardOK /\ FileTestOK /\ (\E accepted \in BOOLEAN : TxSend(accepted)) => CardStep /\ FileTestOK'
  <1> SUFFICES ASSUME CardOK, FileTestOK, NEW accepted \in BOOLEAN, TxSend(accepted)
               PROVE  CardStep /\ FileTestOK'
    OBVIOUS
  <1>1. /\ attempts' = attempts + 1 /\ attempts < MaxAttempts
        /\ SendPacket("sender", pending, accepted)
        /\ UNCHANGED <<queue, pending, tx_session, tx_offset, tx_done, tx_failed, passed, rxVars,
                       cardVars>>
    BY DEF TxSend, SenderOnly
  <1>2. OnlyTheWriterWrites
    BY <1>1, CardUnchanged DEF CardStep
  <1>3. SenderInStep
    BY DEF FileTestOK
  <1>4. attempts' \in 0..MaxAttempts
    BY <1>1, <1>3, Constants DEF SenderInStep
  <1>5. SenderInStep'
    BY <1>1, <1>2, <1>3, <1>4, AnswersGrow DEF SenderInStep
  <1> QED BY <1>1, <1>5, SenderStep

LEMMA TxFailKeeps == CardOK /\ FileTestOK /\ TxFail => CardStep /\ FileTestOK'
  <1> SUFFICES ASSUME CardOK, FileTestOK, TxFail PROVE CardStep /\ FileTestOK'
    OBVIOUS
  <1>1. /\ tx_failed' = TRUE
        /\ UNCHANGED <<air, queue, pending, tx_session, tx_offset, attempts, tx_done, passed, rxVars,
                       cardVars>>
    BY DEF TxFail, SenderOnly, linkVars
  <1>2. OnlyTheWriterWrites
    BY <1>1, CardUnchanged DEF CardStep
  <1>3. SenderInStep'
    BY <1>1, <1>2, AnswersGrow DEF FileTestOK, SenderInStep
  <1> QED BY <1>1, <1>3, SenderStep

LEMMA SenderResetKeeps == CardOK /\ FileTestOK /\ SenderReset => CardStep /\ FileTestOK'
  <1> SUFFICES ASSUME CardOK, FileTestOK, SenderReset PROVE CardStep /\ FileTestOK'
    OBVIOUS
  <1>1. /\ tx_session < MaxSessions /\ tx_session' = tx_session + 1
        /\ pending' = BeginPacket(tx_session + 1)
        /\ tx_offset' = 0 /\ attempts' = 0 /\ tx_done' = FALSE /\ tx_failed' = FALSE
        /\ queue' = [queue EXCEPT !["sender"] = <<>>]
        /\ UNCHANGED <<air, passed, rxVars, cardVars>>
    BY DEF SenderReset
  <1>2. CardStep /\ OnlyTheWriterWrites
    BY <1>1, CardUnchanged DEF CardStep
  <1>3. SenderInStep /\ LinkInStep
    BY DEF FileTestOK
  <1>4. tx_session + 1 \in 1..MaxSessions
    BY <1>1, <1>3, Constants DEF SenderInStep
  <1>5. pending' \in Requests /\ pending'.session = tx_session'
    BY <1>1, <1>4, BeginIs
  <1>6. SenderInStep'
    <2>1. 0 \in 0..FileBytes /\ 0 \in 0..MaxAttempts
      BY Constants
    <2>2. /\ tx_offset' \in 0..FileBytes /\ attempts' \in 0..MaxAttempts
          /\ tx_done' \in BOOLEAN /\ tx_failed' \in BOOLEAN /\ tx_session' \in 1..MaxSessions
      BY <1>1, <1>4, <2>1
    <2>3. passed' \subseteq 1..MaxSessions /\ \A s \in passed' : Confirmed(s)'
      BY <1>1, <1>2, <1>3, AnswersGrow DEF SenderInStep
    <2> QED BY <1>2, <1>5, <2>2, <2>3, AnswersGrow DEF SenderInStep
  <1>7. LinkInStep'
    <2>1. <<>> \in Seq(Requests) /\ <<>> \in Seq(Answers') /\ Len(<<>>) = 0 /\ 0 <= QueueCount
      BY EmptySeq, Constants
    <2>2. queue \in [Boards -> Seq(Requests)] /\ "sender" \in Boards
      BY <1>3, TwoBoards DEF LinkInStep
    <2>3. queue'["sender"] = <<>> /\ \A c \in Boards : c # "sender" => queue'[c] = queue[c]
      BY <1>1, <2>2
    <2>4. queue' \in [Boards -> Seq(Requests)]
      BY <1>1, <2>1, <2>2
    <2> QED BY <1>1, <1>2, <1>3, <2>1, <2>3, <2>4, AnswersGrow DEF LinkInStep
  <1> QED BY <1>1, <1>2, <1>6, <1>7, ReceiverStays DEF FileTestOK

LEMMA LinkKeeps == CardOK /\ FileTestOK /\ Link => CardStep /\ FileTestOK'
  <1> SUFFICES ASSUME CardOK, FileTestOK, NEW b \in Boards, NEW copies \in Copies, OnReceive(b, copies)
               PROVE  CardStep /\ FileTestOK'
    BY DEF Link
  <1>1. UNCHANGED <<txVars, rxVars, cardVars>>
    BY DEF OnReceive
  <1>2. CardStep /\ OnlyTheWriterWrites
    BY <1>1, CardUnchanged DEF CardStep
  <1> QED BY <1>1, <1>2, OnReceiveKeeps, SenderStays, ReceiverStays DEF FileTestOK

-----------------------------------------------------------------------------
(* The file test's receiver.                                                *)

LEMMA ReceiverSlots == "received_file" \in Slots /\ "input" \in Slots
  BY Constants

\* While the second handle is closed.
LEMMA CardAfter ==
    ASSUME ReceiverCard, Others("received_file"), ~IsOpen("input"),
           rx_pc' \notin {"size", "read"},
           rx_pc' \in Verifying => ~IsOpen("received_file")'
    PROVE  ReceiverCard'
  <1>1. ~IsOpen("input")'
    BY ReceiverSlots DEF Others, IsOpen
  <1>2. OpenIn({"received_file", "input"})'
    BY DEF ReceiverCard, OpenIn, Others, IsOpen
  <1> QED BY <1>1, <1>2 DEF ReceiverCard

\* A step that neither takes a request nor answers one.
LEMMA SilentStep ==
    ASSUME FileTestOK, CardStep, ReceiverCard',
           UNCHANGED <<txVars, linkVars, request, last_received, rx_session, rx_crc, rx_done>>,
           rx_pc' \in RxSteps \ {"create", "write", "sync"},
           rx_pc' \in {"reopen", "size", "read", "finished"} =>
                rx_pc \in {"sync", "reopen", "size", "read"},
           rx_pc' = "finished" => Confirmed(rx_session)'
    PROVE  FileTestOK'
  <1>1. OnlyTheWriterWrites /\ LinkInStep' /\ SenderInStep'
    BY LinkStays, SenderStays DEF CardStep, FileTestOK
  <1>2. ReceiverInStep'
    BY <1>1, AnswersGrow DEF FileTestOK, ReceiverInStep
  <1> QED BY <1>1, <1>2 DEF FileTestOK

\* A step that remembers and acknowledges a packet.
LEMMA AcceptKeeps ==
    ASSUME LinkInStep, OnlyTheWriterWrites, NEW packet \in Requests, NEW accepted,
           packet.kind = "finish" => Confirmed(packet.session)',
           Accept(packet, accepted),
           queue' \in [Boards -> Seq(Requests)], queue'["sender"] = queue["sender"],
           \A b \in Boards : Len(queue'[b]) <= QueueCount
    PROVE  LinkInStep' /\ last_received' \in Answers'
  <1> DEFINE ack == [packet EXCEPT !.ack = TRUE]
  <1>1. last_received' = packet /\ SendPacket("receiver", ack, accepted)
    BY DEF Accept
  <1>2. packet \in Answers' /\ ack \in Requests /\ ack \in Answers'
    BY AckIs, AnswersGrow DEF Answers
  <1> HIDE DEF ack
  <1>3. "sender" \in Boards /\ "receiver" \in Boards
    BY TwoBoards
  <1>4. /\ air' \in [Boards -> Seq(Requests)] /\ \A c \in Boards : Len(air'[c]) <= AirDepth
        /\ \A S : air["receiver"] \in Seq(S) /\ ack \in S => air'["receiver"] \in Seq(S)
    BY <1>1, <1>2, <1>3, SendKeeps
  <1>5. air["receiver"] \in Seq(Answers') /\ queue["sender"] \in Seq(Answers')
    BY AnswersGrow DEF LinkInStep
  <1>6. air'["receiver"] \in Seq(Answers')
    BY <1>2, <1>4, <1>5
  <1>7. LinkInStep'
    BY <1>4, <1>5, <1>6, AnswersGrow DEF LinkInStep
  <1> QED BY <1>1, <1>2, <1>7

LEMMA RxMountKeeps == CardOK /\ FileTestOK /\ RxMount => CardStep /\ FileTestOK'
  <1> SUFFICES ASSUME CardOK, FileTestOK, RxMount PROVE CardStep /\ FileTestOK'
    OBVIOUS
  <1>1. PICK status \in Statuses : Mount(status) /\ Goto(IF status = "ok" THEN "mkdir" ELSE "stopped")
    BY DEF RxMount
  <1>2. CardStep /\ Others("received_file") /\ rx_pc' \in {"mkdir", "stopped"}
    BY <1>1, MountKeeps DEF Others, Goto
  <1>3. ReceiverCard'
    BY <1>2, CardAfter DEF FileTestOK, ReceiverCard, RxMount, Verifying
  <1> QED BY <1>2, <1>3, SilentStep
          DEF RxMount, KeepSession, Silently, ReceiverOnly, linkVars, RxSteps

LEMMA RxMkdirKeeps == CardOK /\ FileTestOK /\ RxMkdir => CardStep /\ FileTestOK'
  <1> SUFFICES ASSUME CardOK, FileTestOK, RxMkdir PROVE CardStep /\ FileTestOK'
    OBVIOUS
  <1>1. PICK status \in Statuses : Mkdir(status) /\ Goto(IF status = "ok" THEN "loop" ELSE "stopped")
    BY DEF RxMkdir
  <1>2. CardStep /\ Others("received_file") /\ rx_pc' \in {"loop", "stopped"}
    BY <1>1, MkdirKeeps DEF Others, Goto
  <1>3. ReceiverCard'
    BY <1>2, CardAfter DEF FileTestOK, ReceiverCard, RxMkdir, Verifying
  <1> QED BY <1>2, <1>3, SilentStep
          DEF RxMkdir, KeepSession, Silently, ReceiverOnly, linkVars, RxSteps

LEMMA RxAbandonKeeps == CardOK /\ FileTestOK /\ RxAbandon => CardStep /\ FileTestOK'
  <1> SUFFICES ASSUME CardOK, FileTestOK, RxAbandon PROVE CardStep /\ FileTestOK'
    OBVIOUS
  <1>1. PICK status \in Statuses : Close("received_file", status)
    BY DEF RxAbandon
  <1>2. CardStep /\ Others("received_file") /\ rx_pc' = "loop"
    BY <1>1, ReceiverSlots, CloseKeeps DEF RxAbandon, Goto
  <1>3. ReceiverCard'
    BY <1>2, CardAfter DEF FileTestOK, ReceiverCard, RxAbandon, Verifying
  <1> QED BY <1>2, <1>3, SilentStep
          DEF RxAbandon, KeepSession, Silently, ReceiverOnly, linkVars, RxSteps

LEMMA RxSyncKeeps == CardOK /\ FileTestOK /\ RxSync => CardStep /\ FileTestOK'
  <1> SUFFICES ASSUME CardOK, FileTestOK, RxSync PROVE CardStep /\ FileTestOK'
    OBVIOUS
  <1>1. PICK status \in Statuses :
           Close("received_file", status) /\ Goto(IF status = "ok" THEN "reopen" ELSE "loop")
    BY DEF RxSync
  <1>2. /\ CardStep /\ Others("received_file") /\ ~IsOpen("received_file")'
        /\ rx_pc' \in {"reopen", "loop"}
    BY <1>1, ReceiverSlots, CloseKeeps DEF Goto
  <1>3. ReceiverCard'
    BY <1>2, CardAfter DEF FileTestOK, ReceiverCard, RxSync
  <1> QED BY <1>2, <1>3, SilentStep
          DEF RxSync, KeepSession, Silently, ReceiverOnly, linkVars, RxSteps

LEMMA RxFinishKeeps ==
    CardOK /\ FileTestOK /\ (\E accepted \in BOOLEAN : RxFinish(accepted)) => CardStep /\ FileTestOK'
  <1> SUFFICES ASSUME CardOK, FileTestOK, NEW accepted \in BOOLEAN, RxFinish(accepted)
               PROVE  CardStep /\ FileTestOK'
    OBVIOUS
  <1>1. /\ rx_pc = "finished" /\ rx_pc' = "loop" /\ rx_done' = TRUE /\ Accept(request, accepted)
        /\ UNCHANGED <<queue, request, rx_session, rx_crc, cardVars, txVars>>
    BY DEF RxFinish, Goto, ReceiverOnly
  <1>2. CardStep /\ OnlyTheWriterWrites /\ Others("received_file")
    BY <1>1, ReceiverSlots, CardUnchanged DEF CardStep
  <1>3. /\ LinkInStep /\ SenderInStep /\ ReceiverInStep /\ ReceiverCard
        /\ request \in Requests /\ request.session = rx_session /\ request.kind = "finish"
        /\ Confirmed(rx_session)
    BY <1>1 DEF FileTestOK, ReceiverInStep
  <1>4. Confirmed(rx_session)' /\ Confirmed(request.session)' /\ rx_session # 0
    BY <1>1, <1>2, <1>3, AnswersGrow DEF Requests, Confirmed
  <1>5. LinkInStep' /\ last_received' \in Answers'
    BY <1>1, <1>2, <1>3, <1>4, AcceptKeeps DEF LinkInStep
  <1>6. ReceiverInStep'
    BY <1>1, <1>2, <1>3, <1>4, <1>5, AnswersGrow DEF ReceiverInStep, RxSteps
  <1>7. ReceiverCard'
    BY <1>1, <1>2, <1>3, CardAfter DEF ReceiverCard, Verifying
  <1> QED BY <1>1, <1>2, <1>3, <1>5, <1>6, <1>7, SenderStays DEF FileTestOK

LEMMA RxCreateKeeps ==
    CardOK /\ FileTestOK /\ (\E accepted \in BOOLEAN : RxCreate(accepted)) => CardStep /\ FileTestOK'
  <1> SUFFICES ASSUME CardOK, FileTestOK, NEW accepted \in BOOLEAN, RxCreate(accepted)
               PROVE  CardStep /\ FileTestOK'
    OBVIOUS
  <1>1. /\ rx_pc = "create" /\ rx_pc' = "loop"
        /\ UNCHANGED <<queue, request, rx_crc, rx_done, txVars>>
    BY DEF RxCreate, Goto, ReceiverOnly
  <1>2. PICK status \in Statuses :
          /\ CreateNew("received_file", Path(request.session), status)
          /\ IF status = "ok"
             THEN rx_session' = request.session /\ Accept(request, accepted)
             ELSE UNCHANGED <<rx_session, air, last_received>>
    BY DEF RxCreate
  <1>3. CardStep /\ OnlyTheWriterWrites /\ Others("received_file")
    BY <1>2, ReceiverSlots, CreateKeeps DEF CardStep
  <1>4. /\ LinkInStep /\ SenderInStep /\ ReceiverInStep /\ ReceiverCard
        /\ request \in Requests /\ request.kind = "begin" /\ rx_session = 0 /\ ~rx_done
        /\ last_received \in Answers
    BY <1>1 DEF FileTestOK, ReceiverInStep
  <1>5. LinkInStep' /\ last_received' \in Answers' /\ rx_session' \in 0..MaxSessions
    <2>1. CASE status = "ok"
      BY <1>1, <1>2, <1>3, <1>4, <2>1, AcceptKeeps DEF LinkInStep, Requests, Packets
    <2>2. CASE status # "ok"
      <3>1. UNCHANGED linkVars
        BY <1>1, <1>2, <2>2 DEF linkVars
      <3> QED BY <1>2, <1>3, <1>4, <2>2, <3>1, LinkStays, AnswersGrow DEF ReceiverInStep
    <2> QED BY <2>1, <2>2
  <1>6. ReceiverInStep'
    BY <1>1, <1>3, <1>4, <1>5, AnswersGrow DEF ReceiverInStep, RxSteps
  <1>7. ReceiverCard'
    BY <1>1, <1>3, <1>4, CardAfter DEF ReceiverCard, Verifying
  <1> QED BY <1>1, <1>3, <1>4, <1>5, <1>6, <1>7, SenderStays DEF FileTestOK

LEMMA RxWriteKeeps ==
    CardOK /\ FileTestOK /\ (\E accepted \in BOOLEAN : RxWrite(accepted)) => CardStep /\ FileTestOK'
  <1> SUFFICES ASSUME CardOK, FileTestOK, NEW accepted \in BOOLEAN, RxWrite(accepted)
               PROVE  CardStep /\ FileTestOK'
    OBVIOUS
  <1>1. /\ rx_pc = "write" /\ UNCHANGED <<queue, request, rx_session, rx_done, txVars>>
    BY DEF RxWrite, ReceiverOnly
  <1>2. PICK status \in Statuses :
          /\ Write("received_file", request.payload, status)
          /\ IF status = "ok"
             THEN rx_crc' = rx_crc \o request.payload /\ Accept(request, accepted) /\ Goto("loop")
             ELSE UNCHANGED <<rx_crc, air, last_received>> /\ Goto("abandon")
    BY DEF RxWrite
  <1>3. /\ LinkInStep /\ SenderInStep /\ ReceiverInStep /\ ReceiverCard
        /\ request \in Requests /\ request.payload \in Contented /\ OwnData(request)
        /\ last_received \in Answers /\ rx_crc \in Contented
    BY <1>1 DEF FileTestOK, ReceiverInStep, Requests, Packets
  <1>4. CardStep /\ OnlyTheWriterWrites /\ Others("received_file")
    BY <1>2, <1>3, ReceiverSlots, WriteKeeps DEF CardStep, Others
  <1>5. request.kind = "data" /\ ~rx_done /\ Len(request.payload) <= FileBytes - Len(rx_crc)
    BY <1>3 DEF OwnData
  <1>6. /\ LinkInStep' /\ last_received' \in Answers' /\ rx_pc' \in {"loop", "abandon"}
        /\ rx_crc' \in Contented /\ Len(rx_crc') <= FileBytes
    <2>1. CASE status = "ok"
      <3>1. /\ rx_crc \o request.payload \in Contented
            /\ Len(rx_crc \o request.payload) = Len(rx_crc) + Len(request.payload)
            /\ Len(rx_crc) \in Nat /\ Len(request.payload) \in Nat
        BY <1>3, ConcatProperties, LenProperties DEF Contented
      <3>2. Len(rx_crc \o request.payload) <= FileBytes
        BY <1>5, <3>1, Constants
      <3>3. LinkInStep' /\ last_received' \in Answers'
        BY <1>1, <1>2, <1>3, <1>4, <1>5, <2>1, AcceptKeeps DEF LinkInStep
      <3> QED BY <1>2, <2>1, <3>1, <3>2, <3>3 DEF Goto
    <2>2. CASE status # "ok"
      <3>1. UNCHANGED linkVars
        BY <1>1, <1>2, <2>2 DEF linkVars
      <3> QED BY <1>2, <1>3, <1>4, <2>2, <3>1, LinkStays, AnswersGrow DEF ReceiverInStep, Goto
    <2> QED BY <2>1, <2>2
  <1>7. ReceiverInStep'
    BY <1>1, <1>3, <1>4, <1>5, <1>6, AnswersGrow DEF ReceiverInStep, RxSteps
  <1>8. ReceiverCard'
    BY <1>1, <1>3, <1>4, <1>6, CardAfter DEF ReceiverCard, Verifying
  <1> QED BY <1>1, <1>3, <1>4, <1>6, <1>7, <1>8, SenderStays DEF FileTestOK

LEMMA RxTakeKeeps ==
    CardOK /\ FileTestOK /\ (\E accepted \in BOOLEAN : RxTake(accepted)) => CardStep /\ FileTestOK'
  <1> SUFFICES ASSUME CardOK, FileTestOK, NEW accepted \in BOOLEAN, RxTake(accepted)
               PROVE  CardStep /\ FileTestOK'
    OBVIOUS
  <1>1. /\ rx_pc = "loop" /\ queue["receiver"] # <<>>
        /\ queue' = [queue EXCEPT !["receiver"] = Tail(queue["receiver"])]
        /\ request' = Head(queue["receiver"])
        /\ UNCHANGED <<rx_session, rx_crc, rx_done, cardVars, txVars>>
    BY DEF RxTake, KeepSession, ReceiverOnly
  <1>2. /\ LinkInStep /\ SenderInStep /\ ReceiverInStep /\ ReceiverCard
        /\ "sender" \in Boards /\ "receiver" \in Boards /\ "sender" # "receiver"
    BY TwoBoards DEF FileTestOK
  <1>3. /\ Head(queue["receiver"]) \in Requests /\ queue' \in [Boards -> Seq(Requests)]
        /\ queue'["sender"] = queue["sender"] /\ \A c \in Boards : Len(queue'[c]) <= QueueCount
    BY <1>1, <1>2, TakeKeeps
  <1>. PICK packet \in Requests : packet = Head(queue["receiver"])
    BY <1>3
  <1>4. /\ request' = packet
        /\ \/ packet = last_received /\ Accept(packet, accepted) /\ rx_pc' = "loop"
           \/ /\ UNCHANGED <<air, last_received>>
              /\ \/ packet.kind = "begin" /\ rx_session = 0 /\ rx_pc' = "create"
                 \/ OwnData(packet) /\ rx_pc' = "write"
                 \/ OwnFinish(packet) /\ rx_pc' = "sync"
                 \/ rx_pc' = "loop"
    BY DEF RxTake, Goto
  <1>5. CardStep /\ OnlyTheWriterWrites /\ Others("received_file")
    BY <1>1, ReceiverSlots, CardUnchanged DEF CardStep
  <1>6. LinkInStep' /\ last_received' \in Answers'
    <2>1. CASE packet = last_received /\ Accept(packet, accepted)
      <3>1. packet.kind = "finish" => Confirmed(packet.session)'
        BY <1>2, <1>5, <2>1, AnswersGrow DEF ReceiverInStep, Answers
      <3> QED BY <1>2, <1>3, <1>5, <2>1, <3>1, AcceptKeeps
    <2>2. CASE UNCHANGED <<air, last_received>>
      BY <1>2, <1>3, <1>5, <2>2, AnswersGrow DEF LinkInStep, ReceiverInStep
    <2> QED BY <1>4, <2>1, <2>2
  <1>7. OwnData(packet) => OwnData(packet)'
    BY <1>1 DEF OwnData, IsOpen, cardVars
  <1>8. /\ rx_pc' \in {"loop", "create", "write", "sync"}
        /\ rx_pc' = "create" => packet.kind = "begin" /\ rx_session = 0
        /\ rx_pc' = "write" => OwnData(packet)'
        /\ rx_pc' = "sync" => packet.kind = "finish" /\ packet.session = rx_session
    BY <1>4, <1>7 DEF OwnFinish
  <1>9. ReceiverInStep'
    <2>1. OwnData(request)' <=> OwnData(packet)'
      BY <1>4 DEF OwnData, IsOpen
    <2> QED BY <1>1, <1>2, <1>4, <1>5, <1>6, <1>8, <2>1, AnswersGrow DEF ReceiverInStep, RxSteps
  <1>10. ReceiverCard'
    BY <1>1, <1>2, <1>5, <1>8, CardAfter DEF ReceiverCard, Verifying
  <1> QED BY <1>1, <1>2, <1>5, <1>6, <1>9, <1>10, SenderStays DEF FileTestOK

\* Nothing is being written while the receiver verifies.
LEMMA NoWriter ==
    ASSUME ReceiverCard, rx_pc \in Verifying
    PROVE  Written = {}
  BY DEF ReceiverCard, OpenIn, Written

\* The read handle after a step that used only it.
LEMMA InputAfter ==
    ASSUME ReceiverCard, Others("input"), rx_pc \in Verifying,
           ~IsOpen("input")' \/ (rx_pc' = "cleanup" /\ ~handle'["input"].writable),
           rx_pc' \notin {"size", "read"}
    PROVE  ReceiverCard'
  <1>1. "received_file" # "input"
    OBVIOUS
  <1>2. IsOpen("received_file")' <=> IsOpen("received_file")
    BY <1>1, ReceiverSlots DEF Others, IsOpen
  <1>3. OpenIn({"received_file", "input"})'
    BY DEF ReceiverCard, OpenIn, Others, IsOpen
  <1> QED BY <1>2, <1>3 DEF ReceiverCard, IsOpen

LEMMA RxReopenKeeps == CardOK /\ FileTestOK /\ RxReopen => CardStep /\ FileTestOK'
  <1> SUFFICES ASSUME CardOK, FileTestOK, RxReopen PROVE CardStep /\ FileTestOK'
    OBVIOUS
  <1>1. PICK status \in Statuses :
           /\ OpenRead("input", Path(rx_session), status)
           /\ Goto(IF status = "ok" THEN "size" ELSE "loop")
    BY DEF RxReopen
  <1>2. ReceiverCard /\ rx_pc = "reopen" /\ rx_pc \in Verifying /\ ~IsOpen("input")
    BY DEF RxReopen, FileTestOK, ReceiverCard, Verifying
  <1>3. /\ CardStep /\ Others("input") /\ rx_pc' \in {"size", "loop"}
        /\ status = "ok" => /\ handle'["input"] = [path |-> Path(rx_session), writable |-> FALSE, at |-> 0]
                            /\ IsOpen("input")'
        /\ status # "ok" => handle' = handle
    BY <1>1, ReceiverSlots, OpenReadKeeps DEF Goto
  <1>4. ReceiverCard'
    <2>1. CASE status = "ok"
      <3>1. rx_pc' = "size" /\ rx_session' = rx_session
        BY <1>1, <2>1 DEF Goto, RxReopen, KeepSession
      <3>2. /\ IsOpen("input")' /\ ~handle'["input"].writable /\ handle'["input"].at = 0
            /\ handle'["input"].path = Path(rx_session)
        BY <1>3, <2>1
      <3>3. OpenIn({"received_file", "input"})' /\ ~IsOpen("received_file")'
        BY <1>2, <1>3, ReceiverSlots DEF ReceiverCard, OpenIn, Others, IsOpen
      <3> QED BY <3>1, <3>2, <3>3 DEF ReceiverCard, Path
    <2>2. CASE status # "ok"
      <3>1. ~IsOpen("input")' /\ rx_pc' = "loop"
        BY <1>1, <1>2, <1>3, <2>2 DEF IsOpen, Goto
      <3> QED BY <1>2, <1>3, <3>1, InputAfter
    <2> QED BY <2>1, <2>2
  <1> QED BY <1>3, <1>4, SilentStep
          DEF RxReopen, KeepSession, Silently, ReceiverOnly, linkVars, RxSteps

LEMMA RxSizeKeeps == CardOK /\ FileTestOK /\ RxSize => CardStep /\ FileTestOK'
  <1> SUFFICES ASSUME CardOK, FileTestOK, RxSize PROVE CardStep /\ FileTestOK'
    OBVIOUS
  <1>1. PICK status \in Statuses, size \in {0, Len(Contents("input"))} :
          /\ FileSize("input", size, status)
          /\ Goto(IF status = "ok" /\ size = FileBytes THEN "read" ELSE "cleanup")
    BY DEF RxSize
  <1>2. /\ ReceiverCard /\ rx_pc = "size" /\ rx_pc \in Verifying /\ IsOpen("input")
        /\ ~handle["input"].writable
        /\ handle["input"].path = Path(rx_session) /\ handle["input"].at = 0
    BY DEF RxSize, FileTestOK, ReceiverCard, Verifying
  <1>3. CardStep /\ Others("input") /\ UNCHANGED cardVars /\ rx_session' = rx_session
    BY <1>1, ReceiverSlots, CardUnchanged DEF FileSize, RxSize, KeepSession
  <1>4. ReceiverCard' /\ rx_pc' \in {"read", "cleanup"}
    <2>1. CASE status = "ok" /\ size = FileBytes
      <3>1. rx_pc' = "read" /\ Len(Contents("input")) = FileBytes
        BY <1>1, <2>1 DEF Goto, FileSize
      <3>2. rx_session \in 1..MaxSessions
        BY <1>2 DEF FileTestOK, ReceiverInStep, Requests
      <3>3. Len(Pattern(rx_session)) = FileBytes /\ 0 \in 0..FileBytes
        BY <3>2, PatternIs, Constants
      <3>4. Reads("input", Path(rx_session), 0, Pattern(rx_session))
        BY <1>2, <3>1, <3>3 DEF Reads
      <3>5. Reads("input", Path(rx_session), handle["input"].at, Pattern(rx_session))'
        BY <1>2, <1>3, <3>4 DEF Reads, IsOpen, Contents, cardVars, Path, Pattern
      <3>6. OpenIn({"received_file", "input"})' /\ ~IsOpen("received_file")'
        BY <1>2, <1>3, ReceiverSlots DEF ReceiverCard, OpenIn, cardVars, IsOpen
      <3> QED BY <1>2, <1>3, <3>1, <3>3, <3>5, <3>6 DEF ReceiverCard, cardVars
    <2>2. CASE ~(status = "ok" /\ size = FileBytes)
      <3>1. rx_pc' = "cleanup" /\ ~handle'["input"].writable
        BY <1>1, <1>2, <1>3, <2>2 DEF Goto, cardVars
      <3> QED BY <1>2, <1>3, <3>1, InputAfter
    <2> QED BY <2>1, <2>2
  <1> QED BY <1>2, <1>3, <1>4, SilentStep
          DEF RxSize, KeepSession, Silently, ReceiverOnly, linkVars, RxSteps

\* One more block that compares equal.
LEMMA ComparedBlock ==
    ASSUME NEW file \in Contented, NEW contents \in Contented, Len(file) = Len(contents),
           NEW at \in Nat, NEW count \in Nat, at <= Len(file),
           \A i \in 1..at : file[i] = contents[i],
           Slice(file, at, count) = Slice(contents, at, count), at + count <= Len(file)
    PROVE  \A i \in 1..at + count : file[i] = contents[i]
  <1>1. Len(file) \in Nat
    BY LenProperties DEF Contented
  <1>2. Len(Slice(file, at, count)) = count
    BY <1>1, SliceIs
  <1>3. \A i \in 1..count : Slice(file, at, count)[i] = file[at + i]
    <2>1. \A i \in 1..Len(Slice(file, at, count)) : Slice(file, at, count)[i] = file[at + i]
      BY SliceIs
    <2> QED BY <1>2, <2>1
  <1>4. \A i \in 1..count : Slice(contents, at, count)[i] = contents[at + i]
    <2>1. \A i \in 1..Len(Slice(contents, at, count)) :
             Slice(contents, at, count)[i] = contents[at + i]
      BY SliceIs
    <2> QED BY <1>2, <2>1
  <1>5. ASSUME NEW i \in 1..at + count PROVE file[i] = contents[i]
    <2>1. CASE i <= at
      BY <2>1
    <2>2. CASE i > at
      <3>1. i - at \in 1..count /\ at + (i - at) = i
        BY <2>2
      <3> QED BY <1>3, <1>4, <3>1
    <2> QED BY <2>1, <2>2
  <1> QED BY <1>5

LEMMA RxReadKeeps == CardOK /\ FileTestOK /\ RxRead => CardStep /\ FileTestOK'
  <1> SUFFICES ASSUME CardOK, FileTestOK, RxRead PROVE CardStep /\ FileTestOK'
    OBVIOUS
  <1>0. PICK at, pattern, file, block :
           /\ at = handle["input"].at /\ pattern = Pattern(rx_session) /\ file = Contents("input")
           /\ block = Slice(pattern, at, PayloadBytes)
    OBVIOUS
  <1>1. PICK status \in Statuses : \E pieces \in {<<>>, Slice(Contents("input"), at, Len(block))} :
           /\ Read("input", Len(block), pieces, status)
           /\ Goto(IF status = "ok" /\ pieces = block THEN "read" ELSE "cleanup")
    BY <1>0 DEF RxRead
  <1>2. PICK pieces : /\ Read("input", Len(block), pieces, status)
                      /\ Goto(IF status = "ok" /\ pieces = block THEN "read" ELSE "cleanup")
    BY <1>1
  <1>3. /\ ReceiverCard /\ rx_pc = "read" /\ rx_pc \in Verifying /\ at \in 0..FileBytes /\ at < FileBytes
        /\ Reads("input", Path(rx_session), at, pattern)
    BY <1>0 DEF RxRead, FileTestOK, ReceiverCard, Verifying
  <1>4. rx_session \in 1..MaxSessions
    BY <1>3 DEF FileTestOK, ReceiverInStep, Requests
  <1>5. /\ pattern \in Contented /\ Len(pattern) = FileBytes
        /\ at \in Nat /\ FileBytes \in Nat /\ PayloadBytes \in Nat
    BY <1>0, <1>3, <1>4, PatternIs, Constants
  <1>6. /\ Len(block) = IF at + PayloadBytes > FileBytes THEN FileBytes - at ELSE PayloadBytes
        /\ Len(block) \in Nat /\ at + Len(block) <= FileBytes
    <2>1. at <= Len(pattern)
      BY <1>3, <1>5
    <2>2. Len(Slice(pattern, at, PayloadBytes)) =
             IF at + PayloadBytes > Len(pattern) THEN Len(pattern) - at ELSE PayloadBytes
      BY <1>5, <2>1, SliceIs
    <2> QED BY <1>0, <1>3, <1>5, <2>2
  <1>7. /\ IsOpen("input") /\ ~handle["input"].writable /\ handle["input"].path = Path(rx_session)
        /\ file \in Contented /\ Len(file) = FileBytes /\ \A i \in 1..at : file[i] = pattern[i]
    BY <1>0, <1>3, <1>5, ReceiverSlots, HandleTypes DEF Reads
  <1>8. /\ CardStep /\ Others("input") /\ files' = files
        /\ IsOpen("input")' /\ handle'["input"].path = Path(rx_session)
        /\ ~handle'["input"].writable
        /\ status = "ok" => /\ handle'["input"].at = at + Len(block)
                            /\ pieces = Slice(file, at, Len(block))
    BY <1>0, <1>2, <1>6, <1>7, ReceiverSlots, ReadKeeps
  <1>9. ReceiverCard' /\ rx_pc' \in {"read", "cleanup"}
    <2>1. CASE status = "ok" /\ pieces = block
      <3>1. block = Slice(pattern, at, Len(block))
        <4>1. at + PayloadBytes > Len(pattern) => at + Len(block) = Len(pattern)
          BY <1>5, <1>6
        <4>2. ~(at + Len(block) > Len(pattern))
          BY <1>5, <1>6
        <4> QED BY <1>0, <1>5, <1>6, <4>1, <4>2 DEF Slice
      <3>2. \A i \in 1..at + Len(block) : file[i] = pattern[i]
        <4>1. at <= Len(file) /\ at + Len(block) <= Len(file) /\ Len(file) = Len(pattern)
          BY <1>3, <1>5, <1>6, <1>7
        <4>2. Slice(file, at, Len(block)) = Slice(pattern, at, Len(block))
          BY <1>8, <2>1, <3>1
        <4> QED BY <1>5, <1>6, <1>7, <4>1, <4>2, ComparedBlock
      <3>3. /\ rx_pc' = "read" /\ rx_session' = rx_session
            /\ handle'["input"].at = at + Len(block) /\ at + Len(block) \in 0..FileBytes
        BY <1>2, <1>3, <1>5, <1>6, <1>8, <2>1 DEF Goto, RxRead, KeepSession
      <3>4. Contents("input")' = file
        BY <1>0, <1>7, <1>8 DEF Contents
      <3>5. Pattern(rx_session)' = pattern /\ Path(rx_session)' = Path(rx_session)
        BY <1>0, <3>3 DEF Pattern, Path
      <3>6. Reads("input", Path(rx_session), handle["input"].at, Pattern(rx_session))'
        BY <1>5, <1>7, <1>8, <3>2, <3>3, <3>4, <3>5 DEF Reads
      <3>7. OpenIn({"received_file", "input"})' /\ ~IsOpen("received_file")'
        BY <1>3, <1>8, ReceiverSlots DEF ReceiverCard, OpenIn, Others, IsOpen
      <3> QED BY <1>8, <3>3, <3>6, <3>7 DEF ReceiverCard
    <2>2. CASE ~(status = "ok" /\ pieces = block)
      <3>1. rx_pc' = "cleanup"
        BY <1>2, <2>2 DEF Goto
      <3> QED BY <1>3, <1>8, <3>1, InputAfter
    <2> QED BY <2>1, <2>2
  <1> QED BY <1>3, <1>8, <1>9, SilentStep
          DEF RxRead, KeepSession, Silently, ReceiverOnly, linkVars, RxSteps

LEMMA ComparedWhole ==
    ASSUME NEW file \in Contented, NEW contents \in Contented, Len(file) = Len(contents),
           \A i \in 1..Len(file) : file[i] = contents[i]
    PROVE  file = contents
  BY SeqEqual DEF Contented

LEMMA RxReadCloseKeeps == CardOK /\ FileTestOK /\ RxReadClose => CardStep /\ FileTestOK'
  <1> SUFFICES ASSUME CardOK, FileTestOK, RxReadClose PROVE CardStep /\ FileTestOK'
    OBVIOUS
  <1>1. PICK status \in Statuses :
           Close("input", status) /\ Goto(IF status = "ok" THEN "finished" ELSE "loop")
    BY DEF RxReadClose
  <1>2. /\ ReceiverCard /\ rx_pc = "read" /\ rx_pc \in Verifying /\ handle["input"].at = FileBytes
        /\ Reads("input", Path(rx_session), FileBytes, Pattern(rx_session))
        /\ rx_session' = rx_session
    BY DEF RxReadClose, FileTestOK, ReceiverCard, Verifying, KeepSession
  <1>3. rx_session \in 1..MaxSessions
    BY <1>2 DEF FileTestOK, ReceiverInStep, Requests
  <1>4. Pattern(rx_session) \in Contented /\ Len(Pattern(rx_session)) = FileBytes
    BY <1>3, PatternIs
  <1>5. /\ Contents("input") \in Contented /\ Path(rx_session) \in DOMAIN files
        /\ Contents("input") = files[Path(rx_session)] /\ ~handle["input"].writable
    BY <1>2, ReceiverSlots, HandleTypes DEF Reads, Contents
  <1>6. files[Path(rx_session)] = Pattern(rx_session)
    BY <1>2, <1>4, <1>5, ComparedWhole DEF Reads
  <1>7. Confirmed(rx_session)
    BY <1>2, <1>5, <1>6, NoWriter DEF Confirmed, Kept
  <1>8. /\ CardStep /\ OnlyTheWriterWrites /\ Others("input") /\ ~IsOpen("input")'
        /\ rx_pc' \in {"finished", "loop"}
    BY <1>1, ReceiverSlots, CloseKeeps DEF Goto, CardStep
  <1>9. Confirmed(rx_session)'
    BY <1>2, <1>7, <1>8, AnswersGrow DEF Confirmed
  <1>10. ReceiverCard'
    BY <1>2, <1>8, InputAfter
  <1> QED BY <1>2, <1>8, <1>9, <1>10, SilentStep
          DEF RxReadClose, KeepSession, Silently, ReceiverOnly, linkVars, RxSteps

LEMMA RxCleanupKeeps == CardOK /\ FileTestOK /\ RxCleanup => CardStep /\ FileTestOK'
  <1> SUFFICES ASSUME CardOK, FileTestOK, RxCleanup PROVE CardStep /\ FileTestOK'
    OBVIOUS
  <1>1. PICK status \in Statuses : Close("input", status)
    BY DEF RxCleanup
  <1>2. CardStep /\ Others("input") /\ ~IsOpen("input")' /\ rx_pc' = "loop"
    BY <1>1, ReceiverSlots, CloseKeeps DEF RxCleanup, Goto
  <1>3. ReceiverCard /\ rx_pc \in Verifying
    BY DEF RxCleanup, FileTestOK, Verifying
  <1>4. ReceiverCard'
    BY <1>2, <1>3, InputAfter
  <1> QED BY <1>2, <1>4, SilentStep
          DEF RxCleanup, KeepSession, Silently, ReceiverOnly, linkVars, RxSteps

LEMMA ReceiverResetKeeps == CardOK /\ FileTestOK /\ ReceiverReset => CardStep /\ FileTestOK'
  <1> SUFFICES ASSUME CardOK, FileTestOK, ReceiverReset PROVE CardStep /\ FileTestOK'
    OBVIOUS
  <1>1. /\ rx_pc' = "mount" /\ request' = NoPacket
        /\ rx_session' = 0 /\ rx_crc' = <<>> /\ rx_done' = FALSE /\ last_received' = NoPacket
        /\ queue' = [queue EXCEPT !["receiver"] = <<>>]
        /\ UNCHANGED <<air, txVars>>
    BY DEF ReceiverReset
  <1>2. CardStep /\ OnlyTheWriterWrites /\ \A slot \in Slots : ~IsOpen(slot)'
    BY CardResetKeeps DEF ReceiverReset, CardStep
  <1>3. SenderInStep' /\ LinkInStep
    BY <1>1, <1>2, SenderStays DEF FileTestOK
  <1>4. LinkInStep'
    <2>1. <<>> \in Seq(Requests) /\ Len(<<>>) = 0 /\ 0 <= QueueCount
      BY EmptySeq, Constants
    <2>2. queue \in [Boards -> Seq(Requests)] /\ "receiver" \in Boards /\ "sender" \in Boards
      BY <1>3, TwoBoards DEF LinkInStep
    <2>3. queue'["receiver"] = <<>> /\ \A c \in Boards : c # "receiver" => queue'[c] = queue[c]
      BY <1>1, <2>2
    <2>4. queue' \in [Boards -> Seq(Requests)]
      BY <1>1, <2>1, <2>2
    <2> QED BY <1>1, <1>2, <1>3, <2>1, <2>2, <2>3, <2>4, AnswersGrow DEF LinkInStep
  <1>5. ReceiverInStep'
    <2>1. NoPacket \in Answers' /\ NoPacket \in Requests' /\ 0 \in 0..MaxSessions
      BY <1>2, NoPacketIs, AnswersGrow, Constants DEF Answers
    <2>2. /\ rx_pc' \in RxSteps /\ rx_session' \in 0..MaxSessions /\ rx_done' \in BOOLEAN
          /\ rx_crc' \in Contented /\ Len(rx_crc') <= FileBytes
      BY <1>1, <2>1, EmptyIsContented DEF RxSteps
    <2>3. request' \in Requests' /\ last_received' \in Answers'
      BY <1>1, <2>1
    <2> QED BY <1>1, <2>2, <2>3 DEF ReceiverInStep
  <1>6. ReceiverCard'
    BY <1>1, <1>2, ReceiverSlots DEF ReceiverCard, OpenIn, IsOpen, Verifying
  <1> QED BY <1>2, <1>3, <1>4, <1>5, <1>6 DEF FileTestOK

LEMMA FileTestKeeps == CardOK /\ FileTestOK /\ FileTestNext => CardStep /\ FileTestOK'
  <1> SUFFICES ASSUME CardOK, FileTestOK, FileTestNext PROVE CardStep /\ FileTestOK'
    OBVIOUS
  <1>1. CASE Link
    BY <1>1, LinkKeeps
  <1>2. CASE SenderLoop
    BY <1>2, TxPassKeeps, TxAdvanceKeeps, TxIgnoreKeeps, TxFailKeeps, TxSendKeeps DEF SenderLoop
  <1>3. CASE ReceiverLoop
    BY <1>3, RxMountKeeps, RxMkdirKeeps, RxAbandonKeeps, RxSyncKeeps, RxReopenKeeps, RxSizeKeeps,
       RxReadKeeps, RxReadCloseKeeps, RxCleanupKeeps, RxTakeKeeps, RxCreateKeeps, RxWriteKeeps,
       RxFinishKeeps DEF ReceiverLoop, Verify
  <1> QED BY <1>1, <1>2, <1>3 DEF FileTestNext

LEMMA FileTestIdle == FileTestInit => LinkInStep /\ SenderInStep /\ ReceiverInStep
  <1> SUFFICES ASSUME FileTestInit PROVE LinkInStep /\ SenderInStep /\ ReceiverInStep
    OBVIOUS
  <1>1. /\ air = [b \in Boards |-> <<>>] /\ queue = [b \in Boards |-> <<>>]
        /\ tx_session = 1 /\ pending = BeginPacket(1) /\ tx_offset = 0 /\ attempts = 0
        /\ tx_done = FALSE /\ tx_failed = FALSE /\ passed = {}
    BY DEF FileTestInit, SenderStarts
  <1>2. LinkInStep
    <2>1. \A S : <<>> \in Seq(S)
      BY EmptySeq
    <2>2. Len(<<>>) = 0 /\ 0 <= QueueCount /\ 0 <= AirDepth
      BY EmptySeq, Constants
    <2> QED BY <1>1, <2>1, <2>2, TwoBoards DEF LinkInStep
  <1>3. SenderInStep
    <2>1. 1 \in 1..MaxSessions /\ 0 \in 0..FileBytes /\ 0 \in 0..MaxAttempts
      BY Constants
    <2> QED BY <1>1, <2>1, BeginIs DEF SenderInStep
  <1>4. ReceiverInStep
    <2>1. NoPacket \in Answers /\ NoPacket \in Requests /\ 0 \in 0..MaxSessions
      BY NoPacketIs, Constants DEF Answers
    <2>2. /\ rx_pc \in RxSteps /\ rx_session \in 0..MaxSessions /\ rx_done \in BOOLEAN
          /\ rx_crc \in Contented /\ Len(rx_crc) <= FileBytes
      BY <2>1, EmptyIsContented DEF RxSteps, FileTestInit, ReceiverStarts
    <2>3. request \in Requests /\ last_received \in Answers
      BY <2>1 DEF FileTestInit, ReceiverStarts
    <2> QED BY <2>2, <2>3 DEF ReceiverInStep, FileTestInit, ReceiverStarts
  <1> QED BY <1>2, <1>3, <1>4

LEMMA FileTestStarts == CardInit /\ FileTestInit => FileTestOK
  <1> SUFFICES ASSUME CardInit, FileTestInit PROVE FileTestOK
    OBVIOUS
  <1>1. ReceiverCard
    BY ReceiverSlots DEF ReceiverCard, OpenIn, IsOpen, CardInit, FileTestInit, ReceiverStarts, Verifying
  <1> QED BY <1>1, FileTestIdle DEF FileTestOK

-----------------------------------------------------------------------------
(* The codec task: what its steps have in common.                           *)

LEMMA CodecSlots == "p_file" \in Slots /\ "p_duplicate" \in Slots
  BY Constants

LEMMA RecordIs ==
    ASSUME NEW i \in 1..Frames
    PROVE  Record(i) \in Contented /\ Record(i)[1] \in Pieces /\ Record(i)[2] \in Pieces
  <1>1. <<"length", i>> \in Pieces /\ <<"packet", i>> \in Pieces
    BY PieceTypes
  <1> QED BY <1>1 DEF Record, Contented

LEMMA HeaderIs == <<Header>> \in Contented
  BY PieceTypes DEF Contented

LEMMA ExpectedIs == Expected \in Contented /\ Len(Expected) = 2 * Frames + 1
  <1> DEFINE e(n) == IF n = 1 THEN Header ELSE Record(n \div 2)[1 + (n % 2)]
  <1>1. 2 * Frames + 1 \in Nat
    BY Constants
  <1>2. ASSUME NEW n \in 1..(2 * Frames + 1) PROVE e(n) \in Pieces
    <2>1. CASE n = 1
      BY <2>1, PieceTypes
    <2>2. CASE n # 1
      <3>1. n \div 2 \in 1..Frames /\ 1 + (n % 2) \in {1, 2}
        BY <2>2, Constants
      <3> QED BY <2>2, <3>1, RecordIs
    <2> QED BY <2>1, <2>2
  <1>3. Expected = [n \in 1..(2 * Frames + 1) |-> e(n)]
    BY DEF Expected
  <1> HIDE DEF e
  <1>4. Expected \in Seq(Pieces)
    BY <1>1, <1>2, <1>3, IsASeq
  <1>5. Len(Expected) = 2 * Frames + 1
    <2>1. DOMAIN Expected = 1..(2 * Frames + 1) /\ DOMAIN Expected = 1..Len(Expected)
          /\ Len(Expected) \in Nat
      BY <1>3, <1>4, LenProperties
    <2> QED BY <1>1, <2>1
  <1> QED BY <1>4, <1>5 DEF Contented

\* A step of a stage, after which no test has passed yet.
LEMMA TestStep ==
    ASSUME CodecOK, CardStep, CodecCard', CodecType', b_passed' = FALSE, UNCHANGED testPassed,
           codec_pc' \in CodecSteps,
           codec_pc' \in {"mount", "prepare", "unmount", "prompt"} => codec' = "none",
           codec_pc' \in {"read_packet", "decode"} => frame' <= Frames
    PROVE  CodecOK'
  <1>1. \A p \in testPassed : Kept(p, Expected)'
    BY KeptStays DEF CodecOK, CodecInStep, CardStep, Expected, Kept
  <1>2. CodecInStep'
    BY <1>1 DEF CodecInStep
  <1> QED BY <1>2 DEF CodecOK

Reading == {"size", "read_header", "decoder", "read_length", "read_packet", "decode"}
Closed == {"mount", "prepare", "mkdir", "create", "reopen", "unmount", "prompt"}

\* A step that used p_file, and does not read after it.
LEMMA FileAfter ==
    ASSUME CodecCard, Others("p_file"), ~IsOpen("p_duplicate"),
           codec_pc' \in CodecSteps \ Reading,
           codec_pc' \in Closed \/ b_passed' => ~IsOpen("p_file")'
    PROVE  CodecCard'
  <1>1. ~IsOpen("p_duplicate")'
    BY CodecSlots DEF Others, IsOpen
  <1>2. OpenIn({"p_file", "p_duplicate"})'
    BY DEF CodecCard, OpenIn, Others, IsOpen
  <1> QED BY <1>1, <1>2 DEF CodecCard, Reading, Closed

\* A step that used p_duplicate.
LEMMA DuplicateAfter ==
    ASSUME CodecCard, Others("p_duplicate"), ~b_passed',
           codec_pc' \in {"refuse_unmount", "close_duplicate", "encode", "cleanup"},
           IsOpen("p_duplicate")' => codec_pc' = "close_duplicate"
    PROVE  CodecCard'
  <1>1. OpenIn({"p_file", "p_duplicate"})'
    BY DEF CodecCard, OpenIn, Others, IsOpen
  <1> QED BY <1>1 DEF CodecCard

\* In the stages p_duplicate is closed and no verdict is there yet.
LEMMA InStage ==
    ASSUME CodecOK, codec_pc \notin {"mount", "cleanup", "unmount", "prompt"}
    PROVE  /\ b_passed = FALSE /\ CodecCard /\ CodecInStep /\ CodecType
           /\ codec_pc # "close_duplicate" => ~IsOpen("p_duplicate")
  BY DEF CodecOK, CodecInStep, CodecCard, CodecType

LEMMA StageGoes ==
    ASSUME NEW status, NEW pc, Stage(status, pc)
    PROVE  codec_pc' = pc \/ codec_pc' = "cleanup"
  BY DEF Stage, Next1

\* A stage that uses only p_file and keeps the types.
LEMMA PlainStage ==
    ASSUME CodecOK, CardStep, Others("p_file"), CodecType',
           codec_pc \notin {"mount", "cleanup", "unmount", "prompt", "close_duplicate"},
           UNCHANGED <<b_passed, testPassed>>,
           codec_pc' \in CodecSteps \ (Reading \cup {"mount", "prepare", "unmount", "prompt"}),
           codec_pc' \in Closed => ~IsOpen("p_file")'
    PROVE  CodecOK'
  <1>1. b_passed = FALSE /\ CodecCard /\ ~IsOpen("p_duplicate")
    BY InStage
  <1>2. CodecCard'
    BY <1>1, FileAfter
  <1> QED BY <1>1, <1>2, TestStep DEF Reading

LEMMA SameTypes ==
    ASSUME CodecOK, UNCHANGED <<index, frame, b_passed, notified>>,
           codec' \in {"none", "encoder", "decoder"}
    PROVE  CodecType'
  BY DEF CodecOK, CodecInStep, CodecType

-----------------------------------------------------------------------------
(* The codec task: mount to encode.                                         *)

LEMMA CodecMountKeeps == CardOK /\ CodecOK /\ CodecMount => CardStep /\ CodecOK'
  <1> SUFFICES ASSUME CardOK, CodecOK, CodecMount PROVE CardStep /\ CodecOK'
    OBVIOUS
  <1>1. PICK status \in Statuses :
           Mount(status) /\ Next1(IF status = "ok" THEN "prepare" ELSE "unmount")
    BY DEF CodecMount
  <1>2. /\ codec_pc = "mount" /\ codec_pc' \in {"prepare", "unmount"}
        /\ index' = 0 /\ frame' = 1 /\ b_passed' = FALSE /\ UNCHANGED <<codec, notified, testPassed>>
    BY <1>1 DEF CodecMount, At, Next1
  <1>3. CardStep /\ handle' = handle
    BY <1>1, MountKeeps
  <1>4. codec = "none" /\ CodecCard /\ ~IsOpen("p_file") /\ ~IsOpen("p_duplicate") /\ CodecType
    BY <1>2 DEF CodecOK, CodecInStep, CodecCard
  <1>5. CodecType'
    <2>1. 0 \in 0..TestMaxFiles /\ 1 \in 1..Frames + 1
      BY Constants
    <2> QED BY <1>2, <1>4, <2>1 DEF CodecType
  <1>6. CodecCard'
    BY <1>2, <1>3, <1>4, FileAfter DEF Others, IsOpen, CodecSteps, Reading
  <1> QED BY <1>2, <1>3, <1>4, <1>5, <1>6, TestStep DEF CodecSteps

LEMMA PrepareKeeps == CardOK /\ CodecOK /\ Prepare => CardStep /\ CodecOK'
  <1> SUFFICES ASSUME CardOK, CodecOK, Prepare PROVE CardStep /\ CodecOK'
    OBVIOUS
  <1>1. /\ \E status \in Statuses \cup {"ok"} : CodecCreate("encoder", status)
        /\ codec_pc' \in {"mkdir", "cleanup"}
    BY StageGoes DEF Prepare, Next1
  <1>2. codec_pc = "prepare" /\ codec_pc' \in {"mkdir", "cleanup"} /\ UNCHANGED cardVars
        /\ UNCHANGED <<index, frame, b_passed, notified, testPassed>>
    BY <1>1 DEF Prepare, At, Keep
  <1>3. CardStep /\ Others("p_file") /\ handle' = handle
    BY <1>2, CodecSlots, CardUnchanged DEF cardVars
  <1>4. codec' \in {"none", "encoder", "decoder"}
    BY <1>1 DEF CodecCreate, CodecOK, CodecInStep, CodecType
  <1>5. ~IsOpen("p_file")'
    BY <1>2, <1>3 DEF CodecOK, CodecCard, IsOpen
  <1> QED BY <1>2, <1>3, <1>4, <1>5, SameTypes, PlainStage DEF CodecSteps, Reading

LEMMA TestMkdirKeeps == CardOK /\ CodecOK /\ TestMkdir => CardStep /\ CodecOK'
  <1> SUFFICES ASSUME CardOK, CodecOK, TestMkdir PROVE CardStep /\ CodecOK'
    OBVIOUS
  <1>1. PICK status \in Statuses : Mkdir(status) /\ Stage(status, "create")
    BY DEF TestMkdir
  <1>2. codec_pc = "mkdir" /\ codec_pc' \in {"create", "cleanup"}
        /\ UNCHANGED <<index, frame, b_passed, notified, testPassed, codec>>
    BY <1>1, StageGoes DEF TestMkdir, At, Keep
  <1>3. CardStep /\ Others("p_file") /\ handle' = handle
    BY <1>1, MkdirKeeps DEF Others
  <1>4. codec' \in {"none", "encoder", "decoder"}
    BY <1>2 DEF CodecOK, CodecInStep, CodecType
  <1>5. ~IsOpen("p_file")'
    BY <1>2, <1>3 DEF CodecOK, CodecCard, IsOpen
  <1> QED BY <1>2, <1>3, <1>4, <1>5, SameTypes, PlainStage DEF CodecSteps, Reading

LEMMA TestOpenNewKeeps == CardOK /\ CodecOK /\ TestOpenNew => CardStep /\ CodecOK'
  <1> SUFFICES ASSUME CardOK, CodecOK, TestOpenNew PROVE CardStep /\ CodecOK'
    OBVIOUS
  <1>1. PICK status \in Statuses :
          /\ CreateNew("p_file", TestPath, status)
          /\ IF status = "exists" THEN index' = index + 1 /\ Next1("create")
             ELSE index' = index /\ Stage(status, "header")
    BY DEF TestOpenNew
  <1>2. /\ codec_pc = "create" /\ index < TestMaxFiles /\ codec_pc' \in {"create", "header", "cleanup"}
        /\ UNCHANGED <<codec, frame, b_passed, notified, testPassed>>
        /\ codec_pc' = "create" => status # "ok"
    BY <1>1, StageGoes DEF TestOpenNew, At, Next1
  <1>3. CardStep /\ Others("p_file") /\ (status # "ok" => handle' = handle)
    BY <1>1, CodecSlots, CreateKeeps
  <1>4. CodecType'
    <2>1. CodecType
      BY DEF CodecOK, CodecInStep
    <2>2. index' \in 0..TestMaxFiles
      BY <1>1, <1>2, <2>1, Constants DEF CodecType
    <2> QED BY <1>2, <2>1, <2>2 DEF CodecType
  <1>5. codec_pc' = "create" => ~IsOpen("p_file")'
    BY <1>2, <1>3 DEF CodecOK, CodecCard, IsOpen
  <1> QED BY <1>2, <1>3, <1>4, <1>5, PlainStage DEF CodecSteps, Reading, Closed

LEMMA AllOccupiedKeeps == CardOK /\ CodecOK /\ AllOccupied => CardStep /\ CodecOK'
  <1> SUFFICES ASSUME CardOK, CodecOK, AllOccupied PROVE CardStep /\ CodecOK'
    OBVIOUS
  <1>1. codec_pc = "create" /\ codec_pc' = "cleanup" /\ UNCHANGED cardVars
        /\ UNCHANGED <<index, frame, b_passed, notified, testPassed, codec>>
    BY DEF AllOccupied, At, Next1, Keep
  <1>2. CardStep /\ Others("p_file")
    BY <1>1, CodecSlots, CardUnchanged
  <1>3. codec' \in {"none", "encoder", "decoder"}
    BY <1>1 DEF CodecOK, CodecInStep, CodecType
  <1> QED BY <1>1, <1>2, <1>3, SameTypes, PlainStage DEF CodecSteps, Reading, Closed

LEMMA WriteHeaderKeeps == CardOK /\ CodecOK /\ WriteHeader => CardStep /\ CodecOK'
  <1> SUFFICES ASSUME CardOK, CodecOK, WriteHeader PROVE CardStep /\ CodecOK'
    OBVIOUS
  <1>1. PICK status \in Statuses : Write("p_file", <<Header>>, status) /\ Stage(status, "duplicate")
    BY DEF WriteHeader
  <1>2. codec_pc = "header" /\ codec_pc' \in {"duplicate", "cleanup"}
        /\ UNCHANGED <<index, frame, b_passed, notified, testPassed, codec>>
    BY <1>1, StageGoes DEF WriteHeader, At, Keep
  <1>3. CardStep /\ Others("p_file")
    BY <1>1, CodecSlots, HeaderIs, WriteKeeps DEF Others
  <1>4. codec' \in {"none", "encoder", "decoder"}
    BY <1>2 DEF CodecOK, CodecInStep, CodecType
  <1> QED BY <1>2, <1>3, <1>4, SameTypes, PlainStage DEF CodecSteps, Reading, Closed

LEMMA TryDuplicateKeeps == CardOK /\ CodecOK /\ TryDuplicate => CardStep /\ CodecOK'
  <1> SUFFICES ASSUME CardOK, CodecOK, TryDuplicate PROVE CardStep /\ CodecOK'
    OBVIOUS
  <1>1. PICK status \in Statuses :
          /\ CreateNew("p_duplicate", TestPath, status)
          /\ Next1(IF status = "exists" THEN "refuse_unmount" ELSE "close_duplicate")
    BY DEF TryDuplicate
  <1>2. /\ codec_pc = "duplicate" /\ codec_pc' \in {"refuse_unmount", "close_duplicate"}
        /\ UNCHANGED <<index, frame, b_passed, notified, testPassed, codec>>
        /\ codec_pc' # "close_duplicate" => status = "exists"
    BY <1>1 DEF TryDuplicate, At, Keep, Next1
  <1>3. CardStep /\ Others("p_duplicate") /\ (status # "ok" => handle' = handle)
    BY <1>1, CodecSlots, CreateKeeps
  <1>4. b_passed = FALSE /\ CodecCard /\ ~IsOpen("p_duplicate") /\ CodecType
    BY <1>2, InStage
  <1>5. codec' \in {"none", "encoder", "decoder"}
    BY <1>2, <1>4 DEF CodecType
  <1>6. CodecCard'
    BY <1>2, <1>3, <1>4, DuplicateAfter DEF IsOpen
  <1> QED BY <1>2, <1>3, <1>4, <1>5, <1>6, SameTypes, TestStep DEF CodecSteps

LEMMA CloseDuplicateKeeps == CardOK /\ CodecOK /\ CloseDuplicate => CardStep /\ CodecOK'
  <1> SUFFICES ASSUME CardOK, CodecOK, CloseDuplicate PROVE CardStep /\ CodecOK'
    OBVIOUS
  <1>1. PICK status \in Statuses : Close("p_duplicate", status)
    BY DEF CloseDuplicate
  <1>2. codec_pc = "close_duplicate" /\ codec_pc' = "cleanup"
        /\ UNCHANGED <<index, frame, b_passed, notified, testPassed, codec>>
    BY DEF CloseDuplicate, At, Keep, Next1
  <1>3. CardStep /\ Others("p_duplicate") /\ ~IsOpen("p_duplicate")'
    BY <1>1, CodecSlots, CloseKeeps
  <1>4. b_passed = FALSE /\ CodecCard /\ CodecType
    BY <1>2, InStage
  <1>5. codec' \in {"none", "encoder", "decoder"}
    BY <1>2, <1>4 DEF CodecType
  <1>6. CodecCard'
    BY <1>2, <1>3, <1>4, DuplicateAfter
  <1> QED BY <1>2, <1>3, <1>4, <1>5, <1>6, SameTypes, TestStep DEF CodecSteps

LEMMA TryUnmountKeeps == CardOK /\ CodecOK /\ TryUnmount => CardStep /\ CodecOK'
  <1> SUFFICES ASSUME CardOK, CodecOK, TryUnmount PROVE CardStep /\ CodecOK'
    OBVIOUS
  <1>1. PICK status \in Statuses :
          Unmount(status) /\ Next1(IF status = "invalid_state" THEN "refuse_read" ELSE "cleanup")
    BY DEF TryUnmount
  <1>2. codec_pc = "refuse_unmount" /\ codec_pc' \in {"refuse_read", "cleanup"}
        /\ UNCHANGED <<index, frame, b_passed, notified, testPassed, codec>>
    BY <1>1 DEF TryUnmount, At, Keep, Next1
  <1>3. CardStep /\ Others("p_file")
    BY <1>1, UnmountKeeps DEF Others
  <1>4. codec' \in {"none", "encoder", "decoder"}
    BY <1>2 DEF CodecOK, CodecInStep, CodecType
  <1> QED BY <1>2, <1>3, <1>4, SameTypes, PlainStage DEF CodecSteps, Reading, Closed

LEMMA TryReadKeeps == CardOK /\ CodecOK /\ TryRead => CardStep /\ CodecOK'
  <1> SUFFICES ASSUME CardOK, CodecOK, TryRead PROVE CardStep /\ CodecOK'
    OBVIOUS
  <1>1. PICK status \in Statuses :
          /\ Read("p_file", 1, <<>>, status)
          /\ Next1(IF status = "invalid_state" THEN "refuse_path" ELSE "close_duplicate")
    BY DEF TryRead
  <1>2. codec_pc = "refuse_read" /\ codec_pc' \in {"refuse_path", "close_duplicate"}
        /\ UNCHANGED <<index, frame, b_passed, notified, testPassed, codec>>
    BY <1>1 DEF TryRead, At, Keep, Next1
  <1>3. CardStep /\ Others("p_file")
    BY <1>1, CodecSlots, ReadKeeps
  <1>4. codec' \in {"none", "encoder", "decoder"}
    BY <1>2 DEF CodecOK, CodecInStep, CodecType
  <1> QED BY <1>2, <1>3, <1>4, SameTypes, PlainStage DEF CodecSteps, Reading, Closed

LEMMA TryEscapeKeeps == CardOK /\ CodecOK /\ TryEscape => CardStep /\ CodecOK'
  <1> SUFFICES ASSUME CardOK, CodecOK, TryEscape PROVE CardStep /\ CodecOK'
    OBVIOUS
  <1>1. PICK status \in Statuses :
          /\ OpenRead("p_duplicate", NoPath, status)
          /\ Next1(IF status = "invalid_argument" THEN "encode" ELSE "close_duplicate")
    BY DEF TryEscape
  <1>2. codec_pc = "refuse_path" /\ codec_pc' \in {"encode", "close_duplicate"}
        /\ UNCHANGED <<index, frame, b_passed, notified, testPassed, codec>>
    BY <1>1 DEF TryEscape, At, Keep, Next1
  <1>3. CardStep /\ handle' = handle
    BY <1>1, CodecSlots, OpenReadKeeps, CardConstants
  <1>4. codec' \in {"none", "encoder", "decoder"}
    BY <1>2 DEF CodecOK, CodecInStep, CodecType
  <1> QED BY <1>2, <1>3, <1>4, SameTypes, PlainStage DEF CodecSteps, Reading, Closed, Others

LEMMA EncodeFrameKeeps == CardOK /\ CodecOK /\ EncodeFrame => CardStep /\ CodecOK'
  <1> SUFFICES ASSUME CardOK, CodecOK, EncodeFrame PROVE CardStep /\ CodecOK'
    OBVIOUS
  <1>1. /\ codec_pc = "encode" /\ frame <= Frames
        /\ UNCHANGED <<codec, index, b_passed, notified, testPassed>>
    BY DEF EncodeFrame, At
  <1>2. CodecType
    BY DEF CodecOK, CodecInStep
  <1>3. frame \in 1..Frames /\ frame + 1 \in 1..Frames + 1
    BY <1>1, <1>2, Constants DEF CodecType
  <1>4. /\ CardStep /\ Others("p_file") /\ codec_pc' \in {"encode", "cleanup"}
        /\ frame' \in {frame, frame + 1}
    <2>1. CASE frame' = frame + 1 /\ \E status \in Statuses :
                  Write("p_file", Record(frame), status) /\ Stage(status, "encode")
      <3>1. PICK status \in Statuses : Write("p_file", Record(frame), status) /\ Stage(status, "encode")
        BY <2>1
      <3>2. Record(frame) \in Contented
        BY <1>3, RecordIs
      <3> QED BY <2>1, <3>1, <3>2, CodecSlots, StageGoes, WriteKeeps DEF Others
    <2>2. CASE Next1("cleanup") /\ frame' = frame /\ UNCHANGED cardVars
      BY <2>2, CodecSlots, CardUnchanged DEF Next1
    <2> QED BY <2>1, <2>2 DEF EncodeFrame
  <1>5. CodecType'
    BY <1>1, <1>2, <1>3, <1>4 DEF CodecType
  <1> QED BY <1>1, <1>4, <1>5, PlainStage DEF CodecSteps, Reading, Closed

LEMMA EncodeEndsKeeps == CardOK /\ CodecOK /\ EncodeEnds => CardStep /\ CodecOK'
  <1> SUFFICES ASSUME CardOK, CodecOK, EncodeEnds PROVE CardStep /\ CodecOK'
    OBVIOUS
  <1>1. PICK status \in Statuses : Close("p_file", status) /\ Stage(status, "reopen")
    BY DEF EncodeEnds
  <1>2. codec_pc = "encode" /\ codec_pc' \in {"reopen", "cleanup"} /\ codec' = "none"
        /\ UNCHANGED <<index, frame, b_passed, notified, testPassed>>
    BY <1>1, StageGoes DEF EncodeEnds, At, Keep
  <1>3. CardStep /\ Others("p_file") /\ ~IsOpen("p_file")'
    BY <1>1, CodecSlots, CloseKeeps
  <1> QED BY <1>2, <1>3, SameTypes, PlainStage DEF CodecSteps, Reading

-----------------------------------------------------------------------------
(* The codec task: reading back.                                            *)

LEMMA ReopenKeeps == CardOK /\ CodecOK /\ Reopen => CardStep /\ CodecOK'
  <1> SUFFICES ASSUME CardOK, CodecOK, Reopen PROVE CardStep /\ CodecOK'
    OBVIOUS
  <1>1. PICK status \in Statuses : OpenRead("p_file", TestPath, status) /\ Stage(status, "size")
    BY DEF Reopen
  <1>2. /\ codec_pc = "reopen" /\ codec_pc' \in {"size", "cleanup"}
        /\ status # "ok" => codec_pc' = "cleanup"
        /\ UNCHANGED <<index, frame, b_passed, notified, testPassed, codec>>
    BY <1>1 DEF Reopen, At, Keep, Stage, Next1
  <1>3. /\ CardStep /\ Others("p_file")
        /\ status = "ok" => /\ handle'["p_file"] = [path |-> TestPath, writable |-> FALSE, at |-> 0]
                            /\ IsOpen("p_file")'
    BY <1>1, CodecSlots, OpenReadKeeps
  <1>4. b_passed = FALSE /\ CodecCard /\ ~IsOpen("p_duplicate") /\ CodecType
    BY <1>2, InStage
  <1>5. CodecType'
    BY <1>2, <1>4 DEF CodecType
  <1>6. CodecCard'
    <2>1. CASE codec_pc' = "size"
      <3>1. OpenIn({"p_file", "p_duplicate"})' /\ ~IsOpen("p_duplicate")'
        BY <1>3, <1>4, CodecSlots DEF CodecCard, OpenIn, Others, IsOpen
      <3>2. /\ IsOpen("p_file")' /\ ~handle'["p_file"].writable /\ handle'["p_file"].at = 0
            /\ handle'["p_file"].path = TestPath'
        BY <1>2, <1>3, <2>1 DEF TestPath
      <3> QED BY <2>1, <3>1, <3>2 DEF CodecCard
    <2>2. CASE codec_pc' = "cleanup"
      BY <1>2, <1>3, <1>4, <2>2, FileAfter DEF CodecSteps, Reading, Closed
    <2> QED BY <1>2, <2>1, <2>2
  <1> QED BY <1>2, <1>3, <1>4, <1>5, <1>6, TestStep DEF CodecSteps

\* The task reads on, at another step or place.
LEMMA ReadsOn ==
    ASSUME CodecCard, Others("p_file"), ~IsOpen("p_duplicate"), ~b_passed',
           codec_pc' \in Reading \ {"size"},
           Reads("p_file", TestPath, Position, Expected)'
    PROVE  CodecCard'
  <1>1. OpenIn({"p_file", "p_duplicate"})' /\ ~IsOpen("p_duplicate")'
    BY CodecSlots DEF CodecCard, OpenIn, Others, IsOpen
  <1> QED BY <1>1 DEF CodecCard, Reading

LEMMA CheckSizeKeeps == CardOK /\ CodecOK /\ CheckSize => CardStep /\ CodecOK'
  <1> SUFFICES ASSUME CardOK, CodecOK, CheckSize PROVE CardStep /\ CodecOK'
    OBVIOUS
  <1>1. PICK status \in Statuses, size \in {0, Len(Contents("p_file"))} :
          /\ FileSize("p_file", size, status)
          /\ Next1(IF status = "ok" /\ size = Len(Expected) THEN "read_header" ELSE "cleanup")
    BY DEF CheckSize
  <1>2. /\ codec_pc = "size" /\ codec_pc' \in {"read_header", "cleanup"} /\ UNCHANGED cardVars
        /\ UNCHANGED <<index, frame, b_passed, notified, testPassed, codec>>
    BY <1>1 DEF CheckSize, At, Keep, Next1, FileSize
  <1>3. CardStep /\ Others("p_file")
    BY <1>2, CodecSlots, CardUnchanged
  <1>4. b_passed = FALSE /\ CodecCard /\ ~IsOpen("p_duplicate") /\ CodecType
    BY <1>2, InStage
  <1>5. CodecType'
    BY <1>2, <1>4 DEF CodecType
  <1>6. CodecCard'
    <2>1. CASE codec_pc' = "read_header"
      <3>1. Len(Contents("p_file")) = Len(Expected)
        BY <1>1, <2>1 DEF Next1, FileSize
      <3>2. Reads("p_file", TestPath, 0, Expected)
        BY <1>2, <1>4, <3>1 DEF Reads, CodecCard
      <3>3. Reads("p_file", TestPath, Position, Expected)'
        BY <1>2, <2>1, <3>2 DEF Reads, Position, TestPath, Expected, Contents, IsOpen, cardVars
      <3> QED BY <1>2, <1>3, <1>4, <2>1, <3>3, ReadsOn DEF Reading
    <2>2. CASE codec_pc' = "cleanup"
      BY <1>2, <1>3, <1>4, <2>2, FileAfter DEF CodecSteps, Reading, Closed
    <2> QED BY <1>2, <2>1, <2>2
  <1> QED BY <1>2, <1>3, <1>4, <1>5, <1>6, TestStep DEF CodecSteps

\* One piece is read and is what was written, or the test goes to its clean-up.
LEMMA ReadExpectedKeeps ==
    ASSUME CardOK, NEW at \in Nat, at < Len(Expected), Reads("p_file", TestPath, at, Expected),
           NEW pc, ReadExpected(1, pc), UNCHANGED index
    PROVE  /\ CardStep /\ Others("p_file")
           /\ \/ codec_pc' = "cleanup"
              \/ codec_pc' = pc /\ Reads("p_file", TestPath, at + 1, Expected)'
  <1>0. PICK file : file = Contents("p_file")
    OBVIOUS
  <1>1. handle["p_file"].at = at
    BY DEF Reads
  <1>2. PICK status \in Statuses : \E pieces \in {<<>>, Slice(file, at, 1)} :
          /\ Read("p_file", 1, pieces, status)
          /\ Next1(IF status = "ok" /\ pieces = Slice(Expected, at, 1) THEN pc ELSE "cleanup")
    BY <1>0, <1>1 DEF ReadExpected
  <1>3. PICK pieces : /\ Read("p_file", 1, pieces, status)
                      /\ Next1(IF status = "ok" /\ pieces = Slice(Expected, at, 1)
                               THEN pc ELSE "cleanup")
    BY <1>2
  <1>4. /\ IsOpen("p_file") /\ ~handle["p_file"].writable /\ handle["p_file"].path = TestPath
        /\ file \in Contented /\ Len(file) = Len(Expected) /\ \A i \in 1..at : file[i] = Expected[i]
    BY <1>0, CodecSlots, HandleTypes DEF Reads
  <1>5. /\ CardStep /\ Others("p_file") /\ files' = files
        /\ IsOpen("p_file")' /\ handle'["p_file"].path = TestPath
        /\ ~handle'["p_file"].writable
        /\ status = "ok" => handle'["p_file"].at = at + 1 /\ pieces = Slice(file, at, 1)
    BY <1>0, <1>1, <1>3, <1>4, CodecSlots, ReadKeeps
  <1>6. CASE status = "ok" /\ pieces = Slice(Expected, at, 1)
    <2>1. at <= Len(file) /\ at + 1 <= Len(file) /\ Len(file) \in Nat
      BY <1>4, ExpectedIs, LenProperties DEF Contented
    <2>2. \A i \in 1..at + 1 : file[i] = Expected[i]
      BY <1>4, <1>5, <1>6, <2>1, ComparedBlock, ExpectedIs
    <2>3. Contents("p_file")' = file
      BY <1>0, <1>4, <1>5 DEF Contents
    <2>4. Expected' = Expected /\ TestPath' = TestPath
      BY DEF Expected, TestPath
    <2>5. Reads("p_file", TestPath, at + 1, Expected)'
      BY <1>4, <1>5, <1>6, <2>2, <2>3, <2>4 DEF Reads
    <2> QED BY <1>3, <1>5, <1>6, <2>5 DEF Next1
  <1>7. CASE ~(status = "ok" /\ pieces = Slice(Expected, at, 1))
    BY <1>3, <1>5, <1>7 DEF Next1
  <1> QED BY <1>6, <1>7

LEMMA PositionIs ==
    ASSUME CodecOK, codec_pc \in Reading \ {"size"}
    PROVE  /\ Position \in Nat /\ Reads("p_file", TestPath, Position, Expected)
           /\ Len(Expected) = 2 * Frames + 1 /\ Frames \in Nat \ {0} /\ frame \in 1..Frames + 1
           /\ b_passed = FALSE /\ CodecCard /\ CodecType /\ ~IsOpen("p_duplicate")
  <1>1. frame \in 1..Frames + 1 /\ Frames \in Nat \ {0}
    BY Constants DEF CodecOK, CodecInStep, CodecType
  <1>2. Position \in Nat
    BY <1>1 DEF Position
  <1> QED BY <1>1, <1>2, ExpectedIs, InStage DEF CodecCard, Reading

\* What follows a piece that was read.
LEMMA AfterRead ==
    ASSUME CodecOK, CardStep, Others("p_file"), codec_pc \in Reading \ {"size"},
           UNCHANGED <<codec, index, frame, b_passed, notified, testPassed>>,
           \/ codec_pc' = "cleanup"
           \/ /\ codec_pc' \in {"decoder", "read_packet", "decode"}
              /\ Reads("p_file", TestPath, Position, Expected)'
              /\ codec_pc' # "decoder" => frame <= Frames
    PROVE  CodecOK'
  <1>1. b_passed = FALSE /\ CodecCard /\ CodecType /\ ~IsOpen("p_duplicate")
    BY PositionIs
  <1>2. CodecType'
    BY <1>1 DEF CodecType
  <1>3. CodecCard'
    <2>1. CASE codec_pc' = "cleanup"
      BY <1>1, <2>1, FileAfter DEF CodecSteps, Reading, Closed
    <2>2. CASE codec_pc' # "cleanup"
      BY <1>1, <2>2, ReadsOn DEF Reading
    <2> QED BY <2>1, <2>2
  <1> QED BY <1>1, <1>2, <1>3, TestStep DEF CodecSteps

LEMMA CheckHeaderKeeps == CardOK /\ CodecOK /\ CheckHeader => CardStep /\ CodecOK'
  <1> SUFFICES ASSUME CardOK, CodecOK, CheckHeader PROVE CardStep /\ CodecOK'
    OBVIOUS
  <1>1. /\ codec_pc = "read_header" /\ ReadExpected(1, "decoder")
        /\ UNCHANGED <<codec, index, frame, b_passed, notified, testPassed>>
    BY DEF CheckHeader, At
  <1>2. Position = 0 /\ Reads("p_file", TestPath, 0, Expected) /\ 0 < Len(Expected)
    BY <1>1, PositionIs DEF Reading, Position
  <1>3. /\ CardStep /\ Others("p_file")
        /\ \/ codec_pc' = "cleanup"
           \/ codec_pc' = "decoder" /\ Reads("p_file", TestPath, 0 + 1, Expected)'
    BY <1>1, <1>2, ReadExpectedKeeps
  <1>4. codec_pc' = "decoder" => Position' = 0 + 1
    BY DEF Position
  <1>5. codec_pc' = "decoder" => Reads("p_file", TestPath, Position, Expected)'
    BY <1>3, <1>4 DEF Reads
  <1> QED BY <1>1, <1>3, <1>5, AfterRead DEF Reading

LEMMA ReadLengthKeeps == CardOK /\ CodecOK /\ ReadLength => CardStep /\ CodecOK'
  <1> SUFFICES ASSUME CardOK, CodecOK, ReadLength PROVE CardStep /\ CodecOK'
    OBVIOUS
  <1>1. /\ codec_pc = "read_length" /\ frame <= Frames /\ ReadExpected(1, "read_packet")
        /\ UNCHANGED <<codec, index, frame, b_passed, notified, testPassed>>
    BY DEF ReadLength, At, Keep
  <1>2. PICK f \in 1..Frames : f = frame
    BY <1>1, PositionIs DEF Reading
  <1>3. /\ 2 * f - 1 \in Nat /\ Reads("p_file", TestPath, 2 * f - 1, Expected)
        /\ 2 * f - 1 < Len(Expected)
    BY <1>1, <1>2, PositionIs DEF Reading, Position
  <1>4. /\ CardStep /\ Others("p_file")
        /\ \/ codec_pc' = "cleanup"
           \/ codec_pc' = "read_packet" /\ Reads("p_file", TestPath, 2 * f - 1 + 1, Expected)'
    BY <1>1, <1>3, ReadExpectedKeeps
  <1>5. codec_pc' = "read_packet" => Position' = 2 * f - 1 + 1
    BY <1>1, <1>2, PositionIs DEF Position
  <1>6. codec_pc' = "read_packet" => Reads("p_file", TestPath, Position, Expected)'
    BY <1>4, <1>5 DEF Reads
  <1> QED BY <1>1, <1>4, <1>6, AfterRead DEF Reading

LEMMA ReadPacketKeeps == CardOK /\ CodecOK /\ ReadPacket => CardStep /\ CodecOK'
  <1> SUFFICES ASSUME CardOK, CodecOK, ReadPacket PROVE CardStep /\ CodecOK'
    OBVIOUS
  <1>1. /\ codec_pc = "read_packet" /\ frame <= Frames /\ ReadExpected(1, "decode")
        /\ UNCHANGED <<codec, index, frame, b_passed, notified, testPassed>>
    BY DEF ReadPacket, At, Keep, CodecOK, CodecInStep
  <1>2. PICK f \in 1..Frames : f = frame
    BY <1>1, PositionIs DEF Reading
  <1>3. /\ 2 * f \in Nat /\ Reads("p_file", TestPath, 2 * f, Expected)
        /\ 2 * f < Len(Expected)
    BY <1>1, <1>2, PositionIs DEF Reading, Position
  <1>4. /\ CardStep /\ Others("p_file")
        /\ \/ codec_pc' = "cleanup"
           \/ codec_pc' = "decode" /\ Reads("p_file", TestPath, 2 * f + 1, Expected)'
    BY <1>1, <1>3, ReadExpectedKeeps
  <1>5. codec_pc' = "decode" => Position' = 2 * f + 1
    BY <1>1, <1>2, PositionIs DEF Position
  <1>6. codec_pc' = "decode" => Reads("p_file", TestPath, Position, Expected)'
    BY <1>4, <1>5 DEF Reads
  <1> QED BY <1>1, <1>4, <1>6, AfterRead DEF Reading

\* The task goes on without touching the card.
LEMMA SamePlace ==
    ASSUME CodecOK, codec_pc \in Reading \ {"size"}, UNCHANGED <<cardVars, index>>,
           Position' = Position
    PROVE  Reads("p_file", TestPath, Position, Expected)'
  <1>1. Reads("p_file", TestPath, Position, Expected)
    BY PositionIs
  <1>2. Expected' = Expected /\ TestPath' = TestPath
    BY DEF Expected, TestPath
  <1> QED BY <1>1, <1>2 DEF Reads, Contents, IsOpen, cardVars

LEMMA CreateDecoderKeeps == CardOK /\ CodecOK /\ CreateDecoder => CardStep /\ CodecOK'
  <1> SUFFICES ASSUME CardOK, CodecOK, CreateDecoder PROVE CardStep /\ CodecOK'
    OBVIOUS
  <1>1. PICK status \in Statuses : CodecCreate("decoder", status) /\ Stage(status, "read_length")
    BY DEF CreateDecoder
  <1>2. /\ codec_pc = "decoder" /\ codec_pc' \in {"read_length", "cleanup"} /\ frame' = 1
        /\ UNCHANGED <<index, b_passed, notified, testPassed, cardVars>>
    BY <1>1, StageGoes DEF CreateDecoder, At
  <1>3. CardStep /\ Others("p_file")
    BY <1>2, CodecSlots, CardUnchanged
  <1>4. b_passed = FALSE /\ CodecCard /\ CodecType /\ ~IsOpen("p_duplicate") /\ Frames \in Nat \ {0}
    BY <1>2, PositionIs DEF Reading
  <1>5. CodecType'
    <2>1. codec' \in {"none", "encoder", "decoder"}
      BY <1>1, <1>4 DEF CodecCreate, CodecType
    <2>2. 1 \in 1..Frames + 1
      BY <1>4
    <2> QED BY <1>2, <1>4, <2>1, <2>2 DEF CodecType
  <1>6. CodecCard'
    <2>1. CASE codec_pc' = "read_length"
      <3>1. Position' = 1 /\ Position = 1
        BY <1>2, <2>1 DEF Position
      <3> QED BY <1>2, <1>3, <1>4, <2>1, <3>1, SamePlace, ReadsOn DEF Reading
    <2>2. CASE codec_pc' = "cleanup"
      BY <1>2, <1>3, <1>4, <2>2, FileAfter DEF CodecSteps, Reading, Closed
    <2> QED BY <1>2, <2>1, <2>2
  <1> QED BY <1>2, <1>3, <1>4, <1>5, <1>6, TestStep DEF CodecSteps

LEMMA DecodeFrameKeeps == CardOK /\ CodecOK /\ DecodeFrame => CardStep /\ CodecOK'
  <1> SUFFICES ASSUME CardOK, CodecOK, DecodeFrame PROVE CardStep /\ CodecOK'
    OBVIOUS
  <1>1. /\ codec_pc = "decode"
        /\ \/ codec_pc' = "read_length" /\ frame' = frame + 1
           \/ codec_pc' = "cleanup" /\ frame' = frame
        /\ UNCHANGED <<codec, index, b_passed, notified, testPassed, cardVars>>
    BY DEF DecodeFrame, At, Next1
  <1>2. CardStep /\ Others("p_file")
    BY <1>1, CodecSlots, CardUnchanged
  <1>3. /\ b_passed = FALSE /\ CodecCard /\ CodecType /\ ~IsOpen("p_duplicate")
        /\ frame \in 1..Frames + 1 /\ Frames \in Nat /\ frame <= Frames
    BY <1>1, PositionIs DEF Reading, CodecOK, CodecInStep
  <1>4. CodecType'
    <2>1. frame' \in 1..Frames + 1
      BY <1>1, <1>3
    <2> QED BY <1>1, <1>3, <2>1 DEF CodecType
  <1>5. CodecCard'
    <2>1. CASE codec_pc' = "read_length" /\ frame' = frame + 1
      <3>1. Position' = 2 * (frame + 1) - 1 /\ Position = 2 * frame + 1
        BY <1>1, <2>1 DEF Position
      <3>2. 2 * (frame + 1) - 1 = 2 * frame + 1
        BY <1>3
      <3> QED BY <1>1, <1>2, <1>3, <2>1, <3>1, <3>2, SamePlace, ReadsOn DEF Reading
    <2>2. CASE codec_pc' = "cleanup"
      BY <1>1, <1>2, <1>3, <2>2, FileAfter DEF CodecSteps, Reading, Closed
    <2> QED BY <1>1, <2>1, <2>2
  <1> QED BY <1>1, <1>2, <1>3, <1>4, <1>5, TestStep DEF CodecSteps

\* The whole file has been compared, and nobody writes: the verdict stands.
LEMMA DecodeEndsKeeps == CardOK /\ CodecOK /\ DecodeEnds => CardStep /\ CodecOK'
  <1> SUFFICES ASSUME CardOK, CodecOK, DecodeEnds PROVE CardStep /\ CodecOK'
    OBVIOUS
  <1>1. PICK status \in Statuses :
          /\ Close("p_file", status)
          /\ b_passed' = (status = "ok") \/ (CodecMay("quality") /\ b_passed' = FALSE)
    BY DEF DecodeEnds
  <1>2. /\ codec_pc = "read_length" /\ frame > Frames /\ codec_pc' = "cleanup"
        /\ UNCHANGED <<codec, index, frame, notified, testPassed>>
    BY DEF DecodeEnds, At, Next1
  <1>3. CardStep /\ OnlyTheWriterWrites /\ Others("p_file") /\ ~IsOpen("p_file")'
    BY <1>1, CodecSlots, CloseKeeps DEF CardStep
  <1>4. /\ CodecCard /\ CodecType /\ ~IsOpen("p_duplicate")
        /\ frame \in 1..Frames + 1 /\ Frames \in Nat
        /\ Reads("p_file", TestPath, Position, Expected) /\ Len(Expected) = 2 * Frames + 1
    BY <1>2, PositionIs DEF Reading
  <1>5. Position = Len(Expected)
    BY <1>2, <1>4 DEF Position
  <1>6. /\ IsOpen("p_file") /\ ~handle["p_file"].writable /\ handle["p_file"].path = TestPath
        /\ Len(Contents("p_file")) = Len(Expected)
        /\ \A i \in 1..Len(Expected) : Contents("p_file")[i] = Expected[i]
    BY <1>4, <1>5 DEF Reads
  <1>7. /\ Contents("p_file") \in Contented /\ TestPath \in DOMAIN files
        /\ Contents("p_file") = files[TestPath]
    BY <1>6, CodecSlots, HandleTypes DEF Contents
  <1>8. files[TestPath] = Expected
    BY <1>6, <1>7, ExpectedIs, ComparedWhole
  <1>9. Written = {}
    BY <1>4, <1>6 DEF Written, CodecCard, OpenIn
  <1>10. Kept(TestPath, Expected)
    BY <1>7, <1>8, <1>9 DEF Kept
  <1>11. Kept(TestPath, Expected)' /\ \A p \in testPassed : Kept(p, Expected)'
    <2>1. Expected' = Expected /\ TestPath' = TestPath
      BY <1>2 DEF Expected, TestPath
    <2>2. \A p : Kept(p, Expected) => Kept(p, Expected)'
      BY <1>3, <2>1, KeptStays DEF Kept
    <2> QED BY <1>10, <2>1, <2>2 DEF CodecOK, CodecInStep, Kept
  <1>12. CodecType'
    BY <1>1, <1>2, <1>4 DEF CodecType
  <1>13. CodecCard'
    BY <1>2, <1>3, <1>4, FileAfter DEF CodecSteps, Reading
  <1>14. CodecInStep'
    BY <1>2, <1>11, <1>12 DEF CodecInStep, CodecSteps
  <1> QED BY <1>3, <1>13, <1>14 DEF CodecOK

LEMMA CleanUpKeeps == CardOK /\ CodecOK /\ CleanUp => CardStep /\ CodecOK'
  <1> SUFFICES ASSUME CardOK, CodecOK, CleanUp PROVE CardStep /\ CodecOK'
    OBVIOUS
  <1>1. PICK status \in Statuses :
          /\ Close("p_file", status)
          /\ testPassed' = IF b_passed /\ status = "ok" THEN testPassed \cup {TestPath} ELSE testPassed
    BY DEF CleanUp
  <1>2. /\ codec_pc = "cleanup" /\ codec_pc' = "unmount" /\ codec' = "none"
        /\ UNCHANGED <<index, frame, b_passed, notified>>
    BY DEF CleanUp, At, Next1
  <1>3. CardStep /\ OnlyTheWriterWrites /\ Others("p_file") /\ ~IsOpen("p_file")'
    BY <1>1, CodecSlots, CloseKeeps DEF CardStep
  <1>4. CodecCard /\ CodecInStep /\ ~IsOpen("p_duplicate")
    BY <1>2 DEF CodecOK, CodecCard
  <1>5. \A p \in testPassed' : Kept(p, Expected)'
    <2>1. Expected' = Expected
      BY DEF Expected
    <2>2. \A p : Kept(p, Expected) => Kept(p, Expected)'
      BY <1>3, <2>1, KeptStays DEF Kept
    <2>3. \A p \in testPassed' : Kept(p, Expected)
      BY <1>1, <1>2, <1>4 DEF CodecInStep
    <2> QED BY <2>2, <2>3
  <1>6. CodecType'
    BY <1>2, <1>4 DEF CodecType, CodecInStep
  <1>7. CodecCard'
    BY <1>2, <1>3, <1>4, FileAfter DEF CodecSteps, Reading
  <1>8. CodecInStep'
    BY <1>2, <1>5, <1>6 DEF CodecInStep, CodecSteps
  <1> QED BY <1>3, <1>7, <1>8 DEF CodecOK

\* Between two tests: what was tested stays.
LEMMA Between ==
    ASSUME CardOK, CodecOK, CardStep, handle' = handle, codec_pc \in {"unmount", "prompt"},
           codec_pc' \in {"mount", "prompt"}, notified' \in BOOLEAN,
           UNCHANGED <<codec, index, frame, b_passed, testPassed>>
    PROVE  CodecOK'
  <1>1. /\ CodecCard /\ CodecInStep /\ CodecType /\ ~IsOpen("p_file") /\ ~IsOpen("p_duplicate")
        /\ codec = "none"
    BY DEF CodecOK, CodecCard, CodecInStep
  <1>2. CodecCard'
    BY <1>1, FileAfter DEF Others, IsOpen, CodecSteps, Reading
  <1>3. \A p \in testPassed' : Kept(p, Expected)'
    <2>1. Expected' = Expected
      BY DEF Expected
    <2>2. \A p : Kept(p, Expected) => Kept(p, Expected)'
      BY <2>1, KeptStays DEF Kept, CardStep
    <2> QED BY <1>1, <2>2 DEF CodecInStep
  <1>4. CodecType'
    BY <1>1 DEF CodecType
  <1>5. CodecInStep'
    BY <1>1, <1>3, <1>4 DEF CodecInStep, CodecSteps
  <1> QED BY <1>2, <1>5 DEF CodecOK

LEMMA TestUnmountKeeps == CardOK /\ CodecOK /\ TestUnmount => CardStep /\ CodecOK'
  <1> SUFFICES ASSUME CardOK, CodecOK, TestUnmount PROVE CardStep /\ CodecOK'
    OBVIOUS
  <1>1. PICK status \in Statuses : Unmount(status)
    BY DEF TestUnmount
  <1>2. CardStep /\ handle' = handle
    BY <1>1, UnmountKeeps
  <1>3. notified' \in BOOLEAN
    BY DEF TestUnmount, Keep, CodecOK, CodecInStep, CodecType
  <1> QED BY <1>2, <1>3, Between DEF TestUnmount, Keep, At, Next1

LEMMA RepeatKeeps == CardOK /\ CodecOK /\ Repeat => CardStep /\ CodecOK'
  <1> SUFFICES ASSUME CardOK, CodecOK, Repeat PROVE CardStep /\ CodecOK'
    OBVIOUS
  <1>1. CardStep /\ handle' = handle
    BY CardUnchanged DEF Repeat, cardVars
  <1> QED BY <1>1, Between DEF Repeat, At, Next1

\* Only the notification may change.
LEMMA SameCodec ==
    ASSUME CodecOK, UNCHANGED <<codec_pc, codec, index, frame, b_passed, testPassed, cardVars>>,
           notified' \in BOOLEAN
    PROVE  CodecOK'
  <1>1. Expected' = Expected /\ TestPath' = TestPath
    BY DEF Expected, TestPath
  <1>2. \A p : Kept(p, Expected)' <=> Kept(p, Expected)
    BY <1>1 DEF Kept, Written, IsOpen, cardVars
  <1>3. Kept(TestPath, Expected)' <=> Kept(TestPath, Expected)
    BY <1>1 DEF Kept, Written, IsOpen, cardVars
  <1>4. CodecType'
    BY DEF CodecOK, CodecInStep, CodecType
  <1>5. CodecInStep'
    BY <1>2, <1>3, <1>4 DEF CodecOK, CodecInStep
  <1>6. Reads("p_file", TestPath, Position, Expected)' <=> Reads("p_file", TestPath, Position, Expected)
    BY <1>1 DEF Reads, Position, Contents, IsOpen, cardVars
  <1>7. CodecCard'
    BY <1>1, <1>6 DEF CodecOK, CodecCard, OpenIn, IsOpen, cardVars
  <1> QED BY <1>5, <1>7 DEF CodecOK

LEMMA ConsoleKeeps == CardOK /\ CodecOK /\ Console => CardStep /\ CodecOK'
  BY CardUnchanged, SameCodec DEF Console

LEMMA CodecResetKeeps == CardOK /\ CodecOK /\ CodecReset => CardStep /\ CodecOK'
  <1> SUFFICES ASSUME CardOK, CodecOK, CodecReset PROVE CardStep /\ CodecOK'
    OBVIOUS
  <1>1. /\ codec_pc' = "mount" /\ codec' = "none" /\ index' = 0 /\ frame' = 1
        /\ b_passed' = FALSE /\ notified' = FALSE /\ UNCHANGED testPassed
    BY DEF CodecReset
  <1>2. CardStep /\ \A slot \in Slots : ~IsOpen(slot)'
    BY CardResetKeeps DEF CodecReset
  <1>3. CodecType'
    <2>1. 0 \in 0..TestMaxFiles /\ 1 \in 1..Frames + 1
      BY Constants
    <2> QED BY <1>1, <2>1 DEF CodecType
  <1>4. CodecCard'
    BY <1>1, <1>2, CodecSlots DEF CodecCard, OpenIn, IsOpen
  <1> QED BY <1>1, <1>2, <1>3, <1>4, TestStep DEF CodecSteps

LEMMA CodecKeeps == CardOK /\ CodecOK /\ CodecNext => CardStep /\ CodecOK'
  BY CodecMountKeeps, PrepareKeeps, TestMkdirKeeps, TestOpenNewKeeps, AllOccupiedKeeps,
     WriteHeaderKeeps, TryDuplicateKeeps, CloseDuplicateKeeps, TryUnmountKeeps, TryReadKeeps,
     TryEscapeKeeps, EncodeFrameKeeps, EncodeEndsKeeps, ReopenKeeps, CheckSizeKeeps,
     CheckHeaderKeeps, CreateDecoderKeeps, ReadLengthKeeps, ReadPacketKeeps, DecodeFrameKeeps,
     DecodeEndsKeeps, CleanUpKeeps, TestUnmountKeeps, RepeatKeeps, ConsoleKeeps
  DEF CodecNext, TestTask, EncodeStages, Contracts, DecodeStages

LEMMA CodecIdle == CodecInit /\ CardOK /\ (\A slot \in Slots : ~IsOpen(slot)) => CodecOK
  <1> SUFFICES ASSUME CodecInit, CardOK, \A slot \in Slots : ~IsOpen(slot) PROVE CodecOK
    OBVIOUS
  <1>1. CodecType
    <2>1. 0 \in 0..TestMaxFiles /\ 1 \in 1..Frames + 1
      BY Constants
    <2> QED BY <2>1 DEF CodecType, CodecInit, CodecStarts
  <1>2. CodecInStep
    BY <1>1 DEF CodecInStep, CodecInit, CodecStarts, CodecSteps
  <1>3. CodecCard
    BY CodecSlots DEF CodecCard, OpenIn, CodecInit, CodecStarts
  <1> QED BY <1>2, <1>3 DEF CodecOK

-----------------------------------------------------------------------------
(* The theorems.                                                            *)

LEMMA InitIInv == Init => IInv
  <1> SUFFICES ASSUME Init PROVE IInv
    OBVIOUS
  <1>1. \A slot \in Slots : ~IsOpen(slot)
    BY DEF Init, CardInit, IsOpen
  <1>2. CardOK
    <2>1. {slot \in Slots : IsOpen(slot)} = {}
      BY <1>1
    <2>2. g_open_files = Cardinality({slot \in Slots : IsOpen(slot)}) /\ g_open_files <= MaxFiles
      <3>1. Cardinality({slot \in Slots : IsOpen(slot)}) = 0 /\ 0 <= MaxFiles
        BY <2>1, FS_EmptySet, CardConstants
      <3> QED BY <3>1 DEF Init, CardInit
    <2>3. HandlesCounted
      BY <1>1, <2>2 DEF HandlesCounted
    <2> QED BY <2>3 DEF CardOK, CardType, Init, CardInit, Null
  <1>3. FileTestOK
    BY FileTestStarts DEF Init
  <1>4. CodecOK
    BY <1>1, <1>2, CodecIdle DEF Init
  <1>5. resets \in 0..MaxResets
    BY Constants DEF Init
  <1> QED BY <1>2, <1>3, <1>4, <1>5 DEF IInv, Init

\* Of one step, whoever takes it.
LEMMA NextKeeps == IInv /\ [Next]_vars => IInv' /\ OnlyTheWriterWrites
  <1> SUFFICES ASSUME IInv, [Next]_vars PROVE IInv' /\ OnlyTheWriterWrites
    OBVIOUS
  <1>0. CardOK /\ resets \in 0..MaxResets /\ firmware \in {"file_test", "codec_sdtest"}
    BY DEF IInv
  <1>1. UNCHANGED codecVars /\ CodecInit => CodecInit'
    BY DEF codecVars, CodecInit, CodecStarts
  <1>2. UNCHANGED fileTestVars /\ FileTestInit => FileTestInit'
    BY DEF fileTestVars, linkVars, txVars, rxVars, FileTestInit, SenderStarts, ReceiverStarts
  <1>3. CASE firmware = "file_test" /\ FileTestNext /\ UNCHANGED <<firmware, resets, codecVars>>
    BY <1>0, <1>1, <1>3, FileTestKeeps DEF IInv, CardStep
  <1>4. CASE firmware = "codec_sdtest" /\ CodecNext /\ UNCHANGED <<firmware, resets, fileTestVars>>
    BY <1>0, <1>2, <1>4, CodecKeeps DEF IInv, CardStep
  <1>5. CASE Reset
    <2>1. resets' \in 0..MaxResets
      BY <1>0, <1>5, Constants DEF Reset
    <2>2. CASE firmware = "file_test" /\ (SenderReset \/ ReceiverReset)
               /\ UNCHANGED <<firmware, codecVars>>
      BY <1>0, <1>1, <2>1, <2>2, SenderResetKeeps, ReceiverResetKeeps DEF IInv, CardStep
    <2>3. CASE firmware = "codec_sdtest" /\ CodecReset /\ UNCHANGED <<firmware, fileTestVars>>
      BY <1>0, <1>2, <2>1, <2>3, CodecResetKeeps DEF IInv, CardStep
    <2> QED BY <1>5, <2>2, <2>3 DEF Reset
  <1>6. CASE UNCHANGED vars
    <2>1. CardStep /\ UNCHANGED <<firmware, resets, codecVars, fileTestVars, cardVars>>
      BY <1>0, <1>6, CardUnchanged DEF vars
    <2>2. CASE firmware = "file_test" /\ FileTestOK /\ CodecInit
      <3>1. FileTestOK'
        BY <1>0, <2>1, <2>2, LinkStays, SenderStays, ReceiverStays
           DEF FileTestOK, CardStep, fileTestVars
      <3> QED BY <1>0, <1>1, <2>1, <2>2, <3>1 DEF IInv, CardStep
    <2>3. CASE firmware = "codec_sdtest" /\ CodecOK /\ FileTestInit
      <3>1. CodecOK'
        <4>1. notified' \in BOOLEAN
          BY <2>1, <2>3 DEF CodecOK, CodecInStep, CodecType, codecVars
        <4> QED BY <2>1, <2>3, <4>1, SameCodec DEF codecVars
      <3> QED BY <1>0, <1>2, <2>1, <2>3, <3>1 DEF IInv, CardStep
    <2> QED BY <2>1, <2>2, <2>3 DEF IInv, CardStep
  <1> QED BY <1>3, <1>4, <1>5, <1>6 DEF Next

\* The inductive invariant: the card's handles are counted, what is kept stays,
\* and both firmwares are where their reads and their packets say.
THEOREM Invariant == Spec => []IInv
  <1>1. Init => IInv
    BY InitIInv
  <1>2. IInv /\ [Next]_vars => IInv'
    BY NextKeeps
  <1> QED BY <1>1, <1>2, PTL DEF Spec

\* Of either firmware, flashed or not.
LEMMA BothHold ==
    IInv => /\ LinkInStep /\ SenderInStep /\ ReceiverInStep /\ CodecType
            /\ \A p \in testPassed : Kept(p, Expected)
  <1> SUFFICES ASSUME IInv
               PROVE  /\ LinkInStep /\ SenderInStep /\ ReceiverInStep /\ CodecType
                      /\ \A p \in testPassed : Kept(p, Expected)
    OBVIOUS
  <1>1. CASE FileTestOK /\ CodecInit
    <2>1. 0 \in 0..TestMaxFiles /\ 1 \in 1..Frames + 1
      BY Constants
    <2> QED BY <1>1, <2>1 DEF CodecInit, CodecStarts, CodecType, FileTestOK
  <1>2. CASE CodecOK /\ FileTestInit
    BY <1>2, FileTestIdle DEF CodecOK, CodecInStep
  <1> QED BY <1>1, <1>2 DEF IInv

\* The variables keep their types: at most MaxFiles handles to paths, queues and
\* air within their depth, offsets and counts within a file, an attempt, a test.
THEOREM TypeCorrect == Spec => []TypeOK
  <1>1. IInv => TypeOK
    <2> SUFFICES ASSUME IInv PROVE TypeOK
      OBVIOUS
    <2>1. LinkInStep /\ SenderInStep /\ ReceiverInStep /\ CodecType
      BY BothHold
    <2>2. FileTestType
      BY <2>1 DEF FileTestType, LinkInStep, SenderInStep, ReceiverInStep
    <2> QED BY <2>1, <2>2 DEF TypeOK, IInv, CardOK
  <1> QED BY <1>1, Invariant, PTL

\* Every error path of the card and of both callers gives its handle back: the
\* count is the number of open handles and never above the limit, they are to
\* files of a mounted card, and none is left when the codec task unmounts.
THEOREM CountStaysExact == Spec => []CountIsExact
  <1>1. IInv => PromptIsClean
    <2> SUFFICES ASSUME IInv, codec_pc \in {"unmount", "prompt"}
                 PROVE  codec = "none" /\ g_open_files = 0
      BY DEF PromptIsClean
    <2>1. CodecOK /\ CardOK
      BY DEF IInv, CodecInit, CodecStarts
    <2>2. \A slot \in Slots : ~IsOpen(slot)
      BY <2>1 DEF CodecOK, CodecCard, OpenIn
    <2> QED BY <2>1, <2>2, NoneOpen DEF CodecOK, CodecInStep
  <1>2. IInv /\ TypeOK => CountIsExact
    BY <1>1 DEF CountIsExact, IInv, CardOK
  <1> QED BY <1>2, Invariant, TypeCorrect, PTL

\* TX PASS, RX PASS and the round trip's PASS name a file that holds every
\* byte, and goes on holding it, whatever the card, the link or a reset does.
THEOREM PassStaysTrue == Spec => []PassIsTrue
  <1>1. IInv => PassIsTrue
    <2> SUFFICES ASSUME IInv PROVE PassIsTrue
      OBVIOUS
    <2>1. SenderInStep /\ ReceiverInStep /\ \A p \in testPassed : Kept(p, Expected)
      BY BothHold
    <2>2. TestFilesHold
      BY <2>1 DEF TestFilesHold, Kept
    <2>3. ASSUME NEW p \in PassedFiles
          PROVE  p \in DOMAIN files /\ files[p] = Pattern(p[2])
      <3>1. PICK s \in 1..MaxSessions : p = Path(s) /\ Confirmed(s)
        BY <2>1, <2>3 DEF PassedFiles, SenderInStep, ReceiverInStep
      <3>2. Path(s)[2] = s
        BY DEF Path
      <3> QED BY <3>1, <3>2 DEF Confirmed, Kept
    <2>4. PassedFilesHold
      BY <2>3 DEF PassedFilesHold
    <2> QED BY <2>2, <2>4 DEF PassIsTrue
  <1> QED BY <1>1, Invariant, PTL

\* No step of either firmware, nor a reset, removes a file or changes one that
\* is not open for writing, nor opens an existing one for writing again.
THEOREM FilesStayPreserved == Spec => FilesPreserved
  <1>1. IInv /\ [Next]_vars => [OnlyTheWriterWrites]_vars
    BY NextKeeps
  <1> QED BY <1>1, Invariant, PTL DEF Spec, FilesPreserved
=============================================================================
