----------------------------- MODULE FilePlayer -----------------------------
(***************************************************************************)
(* The MP3 player of mictospeaker_test/sd_file_player: src/main.cpp on the  *)
(* board and scripts/send_mp3.py on the host, which talk in lines over a    *)
(* serial port.  The host may be stopped, and another one started, while    *)
(* the board is still busy with what the last one sent: what is written is  *)
(* then read as something else.                                             *)
(***************************************************************************)
EXTENDS Integers, Sequences

CONSTANTS
    Tracks,         \* MP3 files a host may send
    Chunks,         \* how many writes one takes
    MaxHosts,       \* bound: how often a host is started
    MaxMishaps      \* bound: resets of the board, bytes lost or changed, failures

ASSUME FilePlayerConstants ==
    /\ Chunks \in Nat \ {0} /\ MaxHosts \in Nat /\ MaxMishaps \in Nat
    /\ {"none", "stray", "status", "put", "play", "s"} \cap Tracks = {}

VARIABLES
    \* the board: what it is doing, the card's two files as sequences of chunks, and
    \* the track it receives
    fp_pc, track, part, arriving,
    \* the two directions of the serial port
    toBoard, toHost,
    \* the host: what it waits for, its track, and the bytes acknowledged
    host_pc, host_track, acked,
    hosts, mishaps,
    \* history: what was played since the last play command
    sounded

boardVars == <<fp_pc, track, part, arriving, sounded>>
hostVars == <<host_pc, host_track, acked, hosts>>
fileVars == <<boardVars, toBoard, toHost, hostVars, mishaps>>

Chunk(content, n) == <<content, n>>
Stray == Chunk("stray", 0)
Whole(content) == [n \in 1..Chunks |-> Chunk(content, n)]

\* Commands and lines are pairs, as chunks are.
Word(word) == <<word, 0>>

Says(line) == toHost' = Append(toHost, line)

\* Something fails, or goes as it should.
Mishap == mishaps < MaxMishaps /\ mishaps' = mishaps + 1
Smooth == mishaps' = mishaps

FileInit ==
    /\ fp_pc = "loop" /\ track = <<>> /\ part = <<>> /\ arriving = "none" /\ sounded = <<>>
    /\ toBoard = <<>> /\ toHost = <<>>
    /\ host_pc = "off" /\ host_track \in Tracks /\ acked = 0
    /\ hosts = 0 /\ mishaps = 0

\* setup mounts the card and says so, or not.  Of the staging file any prefix is left.
Boots(line) ==
    /\ fp_pc' = IF line = Word("SD READY") THEN "loop" ELSE "down"
    /\ arriving' = "none" /\ part' \in {SubSeq(part, 1, n) : n \in 0..Len(part)}
    /\ UNCHANGED <<track, sounded>>

Banners == {Word("SD READY"), Word("ERROR")}

\* A reset; what the board has not read is gone.
BoardReset ==
    /\ Mishap /\ \E line \in Banners : Boots(line) /\ Says(line)
    /\ toBoard' = <<>>
    /\ UNCHANGED hostVars

\* Bytes are lost or changed on the way.
Spoiled(port) == \E n \in 1..Len(port) : port' = [port EXCEPT ![n] = Stray]

PortSpoils ==
    /\ Mishap
    /\ \/ Spoiled(toBoard) /\ toHost' = toHost
       \/ Spoiled(toHost) /\ toBoard' = toBoard
    /\ UNCHANGED <<boardVars, hostVars>>

-----------------------------------------------------------------------------
(* loop and receiveFile.                                                    *)

Reads(pc) ==
    /\ fp_pc = pc /\ toBoard # <<>>
    /\ toBoard' = Tail(toBoard)
    /\ UNCHANGED hostVars

\* The card is not mounted.
CommandRefused ==
    /\ Reads("down") /\ Smooth /\ Says(Word("ERROR"))
    /\ UNCHANGED boardVars

Status ==
    /\ Reads("loop") /\ Smooth /\ Head(toBoard) = Word("status")
    /\ Says(Word("SD READY"))
    /\ UNCHANGED boardVars

\* A command of no meaning, or a put of no size or hash.
NoCommand ==
    /\ Reads("loop") /\ Smooth /\ Head(toBoard)[1] \in Tracks \cup {"stray", "s"}
    /\ \/ toHost' = toHost
       \/ Head(toBoard) = Stray /\ Says(Word("ERROR"))
    /\ UNCHANGED boardVars

Puts(content) == Reads("loop") /\ Head(toBoard) = <<"put", content>>

\* The card has a track: is it this one?
PutFound(content) ==
    /\ Puts(content) /\ Smooth /\ track # <<>>
    /\ fp_pc' = "check" /\ arriving' = content
    /\ UNCHANGED <<track, part, sounded, toHost>>

PutOpenFails(content) ==
    /\ Puts(content) /\ Mishap /\ track = <<>>
    /\ Says(Word("ERROR"))
    /\ UNCHANGED boardVars

PutOpens(content) ==
    /\ Puts(content) /\ Smooth /\ track = <<>>
    /\ fp_pc' = "receive" /\ part' = <<>> /\ arriving' = content
    /\ Says(Word("READY"))
    /\ UNCHANGED <<track, sounded>>

AsChunk(item) == IF item[1] \in Tracks THEN item ELSE Stray

\* What came is written, whatever it is, and acknowledged; the card may keep it wrong.
ChunkStored ==
    /\ Reads("receive")
    /\ \/ Smooth /\ part' = Append(part, AsChunk(Head(toBoard)))
       \/ Mishap /\ part' = Append(part, Stray)
    /\ fp_pc' = IF Len(part') = Chunks THEN "verify" ELSE "receive"
    /\ Says(<<"ACK", Len(part')>>)
    /\ UNCHANGED <<track, arriving, sounded>>

Fails ==
    /\ fp_pc' = "loop" /\ arriving' = "none"
    /\ Says(Word("ERROR"))
    /\ UNCHANGED <<track, part, sounded, hostVars>>

\* Nothing came for ten seconds, or less than a chunk.
ChunkMissing ==
    /\ fp_pc = "receive" /\ Smooth
    /\ \/ toBoard = <<>> /\ toBoard' = toBoard
       \/ toBoard # <<>> /\ Head(toBoard)[1] \notin Tracks /\ toBoard' = Tail(toBoard)
    /\ Fails

ChunkNotWritten ==
    /\ fp_pc = "receive" /\ Mishap
    /\ toBoard # <<>> /\ toBoard' = Tail(toBoard)
    /\ Fails

\* The digest of the track that is there takes seconds.
FoundEqual ==
    /\ fp_pc = "check" /\ Smooth /\ track = Whole(arriving)
    /\ fp_pc' = "loop" /\ arriving' = "none" /\ Says(Word("EXISTS"))
    /\ UNCHANGED <<track, part, sounded, toBoard, hostVars>>

FoundOther ==
    /\ fp_pc = "check" /\ toBoard' = toBoard
    /\ IF track = Whole(arriving) THEN Mishap ELSE Smooth
    /\ Fails

\* The digest is taken over the file on the card.
DigestAgrees ==
    /\ fp_pc = "verify" /\ part = Whole(arriving)
    /\ fp_pc' = "rename"
    /\ UNCHANGED <<track, part, arriving, sounded, toBoard, toHost, hostVars, mishaps>>

DigestDiffers ==
    /\ fp_pc = "verify" /\ toBoard' = toBoard
    /\ IF part = Whole(arriving) THEN Mishap ELSE Smooth
    /\ Fails

Renamed ==
    /\ fp_pc = "rename"
    /\ track' = part /\ part' = <<>> /\ fp_pc' = "loop" /\ arriving' = "none"
    /\ Says(<<"SAVED", arriving>>)
    /\ UNCHANGED <<sounded, toBoard, hostVars, mishaps>>

NotRenamed ==
    /\ fp_pc = "rename" /\ Mishap
    /\ toBoard' = toBoard
    /\ Fails

-----------------------------------------------------------------------------
(* play.                                                                    *)

TrackStarts ==
    /\ Reads("loop") /\ Head(toBoard) = Word("play")
    /\ Smooth /\ track # <<>> /\ fp_pc' = "play" /\ sounded' = <<>> /\ toHost' = toHost
    /\ UNCHANGED <<track, part, arriving>>

\* There is none, it does not open, or the decoder does not.
TrackRefused ==
    /\ Reads("loop") /\ Head(toBoard) = Word("play")
    /\ IF track = <<>> THEN Smooth ELSE Mishap
    /\ Says(Word("ERROR"))
    /\ UNCHANGED boardVars

\* A turn of play's loop takes what came over the port, a byte a turn: an s in it ends
\* the playback, and the rest is lost.
MayStop(item) == item[1] \in Tracks \cup {"stray", "s", "status"}
MustStop(item) == item[1] \in {"s", "status"}

Turns ==
    /\ fp_pc = "play"
    /\ \/ toBoard = <<>> /\ toBoard' = toBoard
       \/ toBoard # <<>> /\ ~MustStop(Head(toBoard)) /\ toBoard' = Tail(toBoard)
    /\ UNCHANGED <<track, part, arriving, hostVars>>

PlayEnds(line) == fp_pc' = "loop" /\ Says(line)

\* Without a frame nothing was played.
Ended(word) == Word(IF sounded = <<>> THEN "FAILED" ELSE word)

PlayStops ==
    /\ Reads("play") /\ Smooth /\ MayStop(Head(toBoard))
    /\ PlayEnds(Ended("STOPPED"))
    /\ UNCHANGED <<track, part, arriving, sounded>>

\* The first frame turns the sound on.
PlayChunk ==
    /\ Turns /\ Smooth /\ Len(sounded) < Len(track)
    /\ sounded' = Append(sounded, track[Len(sounded) + 1])
    /\ IF sounded = <<>> THEN Says(Word("AUDIO")) ELSE toHost' = toHost
    /\ fp_pc' = "play"

\* Reading, decoding, or the output fails, or the sound changes its rate.
PlayFails ==
    /\ Turns /\ Mishap
    /\ PlayEnds(Word("FAILED"))
    /\ sounded' = sounded

PlayDone ==
    /\ Turns /\ Smooth /\ Len(sounded) = Len(track)
    /\ PlayEnds(Ended("DONE"))
    /\ sounded' = sounded

-----------------------------------------------------------------------------
(* send_mp3.py.                                                             *)

Types(item) == toBoard' = Append(toBoard, item)

\* Nobody starts the script sooner than an idle board has read what the last one sent.
HostBegins(content, pc) ==
    /\ hosts < MaxHosts /\ hosts' = hosts + 1
    /\ fp_pc = "loop" => toBoard = <<>>
    /\ host_pc' = pc /\ host_track' = content /\ acked' = 0
    /\ Smooth

\* Mutant: the host does not wait for the answer to status.
HostStartsAtOnce(content) ==
    /\ HostBegins(content, "put")
    /\ toHost' = <<>> /\ Types(<<"put", content>>)
    /\ UNCHANGED boardVars

\* Opening the port drops what came before; the answer to status drops the rest.
HostStarts(content) ==
    /\ HostBegins(content, "status")
    /\ toHost' = <<>> /\ Types(Word("status"))
    /\ UNCHANGED boardVars

\* --reset: the board boots before it is asked.
HostResets(content) ==
    /\ HostBegins(content, "status")
    /\ \E line \in Banners : Boots(line) /\ toHost' = <<line>>
    /\ toBoard' = <<Word("status")>>

\* wait_for: the line with the prefix it waits for.
Awaits(pc, line) ==
    /\ host_pc = pc /\ toHost # <<>> /\ Head(toHost) = line
    /\ toHost' = Tail(toHost)
    /\ UNCHANGED <<boardVars, host_track, hosts, mishaps>>

Goes(pc) == host_pc' = pc /\ acked' = acked

HostPuts ==
    /\ Awaits("status", Word("SD READY"))
    /\ Goes("put") /\ Types(<<"put", host_track>>)

HostSendsFirst ==
    /\ Awaits("put", Word("READY"))
    /\ Goes("ack") /\ Types(Chunk(host_track, 1))

HostSendsNext ==
    /\ Awaits("ack", <<"ACK", acked + 1>>)
    /\ acked' = acked + 1
    /\ IF acked' < Chunks THEN host_pc' = "ack" /\ Types(Chunk(host_track, acked' + 1))
       ELSE host_pc' = "saved" /\ toBoard' = toBoard

HostPlays ==
    /\ Awaits("put", Word("EXISTS")) \/ Awaits("saved", <<"SAVED", host_track>>)
    /\ Goes("audio") /\ Types(Word("play"))

HostHears ==
    /\ Awaits("audio", Word("AUDIO"))
    /\ Goes("playing") /\ toBoard' = toBoard

HostDone ==
    /\ Awaits("playing", Word("DONE"))
    /\ Goes("done") /\ toBoard' = toBoard

\* The user types s in another terminal (a bound: when all is quiet).
TypesStop ==
    /\ host_pc = "playing" /\ toBoard = <<>> /\ toHost = <<>> /\ Types(Word("s"))
    /\ UNCHANGED <<boardVars, toHost, hostVars, mishaps>>

Prefixes ==
    CASE host_pc = "status" -> {"SD READY"}
      [] host_pc = "put" -> {"READY", "EXISTS"}
      [] host_pc = "ack" -> {"ACK"}
      [] host_pc = "saved" -> {"SAVED"}
      [] host_pc = "audio" -> {"AUDIO"}
      [] host_pc = "playing" -> {"DONE", "STOPPED"}

Waiting == host_pc \notin {"off", "done"}

\* A line of another prefix is printed.
HostSkips ==
    /\ Waiting /\ toHost # <<>>
    /\ Head(toHost)[1] \notin Prefixes \cup {"ERROR", "FAILED"}
    /\ toHost' = Tail(toHost)
    /\ UNCHANGED <<boardVars, toBoard, hostVars, mishaps>>

\* An error, a line that is not the one expected, patience, or the user ends it.
HostStops ==
    /\ Waiting /\ host_pc' = "off"
    /\ UNCHANGED <<boardVars, toBoard, toHost, host_track, acked, hosts, mishaps>>

-----------------------------------------------------------------------------

Board ==
    \/ CommandRefused \/ Status \/ NoCommand
    \/ \E content \in Tracks : PutFound(content) \/ PutOpens(content) \/ PutOpenFails(content)
    \/ FoundEqual \/ FoundOther
    \/ ChunkStored \/ ChunkMissing \/ ChunkNotWritten
    \/ DigestAgrees \/ DigestDiffers \/ Renamed \/ NotRenamed
    \/ TrackStarts \/ TrackRefused \/ PlayStops \/ PlayChunk \/ PlayFails \/ PlayDone

Host ==
    \/ \E content \in Tracks : HostStarts(content) \/ HostResets(content)
    \/ HostPuts \/ HostSendsFirst \/ HostSendsNext \/ HostPlays \/ HostHears \/ HostDone
    \/ HostSkips \/ HostStops \/ TypesStop

FileNext == Board \/ Host \/ BoardReset \/ PortSpoils

FileSpec == FileInit /\ [][FileNext]_fileVars

-----------------------------------------------------------------------------
(* Properties.                                                              *)

\* The type invariant.
FileTypeOK ==
    /\ fp_pc \in {"down", "loop", "check", "receive", "verify", "rename", "play"}
    /\ host_pc \in {"off", "status", "put", "ack", "saved", "audio", "playing", "done"}
    /\ host_track \in Tracks /\ arriving \in Tracks \cup {"none"}
    /\ {Len(part), Len(sounded), acked} \subseteq 0..Chunks
    /\ hosts \in 0..MaxHosts /\ mishaps \in 0..MaxMishaps

\* What the host reports is true of the board, although an earlier host's words and
\* the board's answers to them may still be on their way: the track it calls saved is
\* on the card, and the one it calls done was played from beginning to end.
HostIsRight ==
    /\ host_pc \in {"audio", "playing", "done"} => track = Whole(host_track)
    /\ host_pc = "done" => sounded = Whole(host_track)
=============================================================================
