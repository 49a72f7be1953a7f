----------------------------- MODULE MicCapture -----------------------------
(***************************************************************************)
(* The capture tool of mictospeaker_test/mic_capture: src/main.cpp on the   *)
(* board and scripts/record.py on the host.  The board fills a buffer from  *)
(* the microphone's DMA, offers it with a digest and sends it when asked;   *)
(* the script saves what it can verify.  The driver reports a block it had  *)
(* to drop in a queue of events, of which it keeps the newest.              *)
(***************************************************************************)
EXTENDS Integers, Sequences, FiniteSets

CONSTANTS
    Takes,          \* blocks in a capture
    Warmup,         \* blocks read before it
    DmaBlocks,      \* dma_buf_count: how many the driver holds
    EventDepth,     \* and the events it keeps
    Rates,          \* sample rates that may be asked for
    MaxScripts,     \* bound: how often the script is started
    MaxStalls,      \* bound: blocks that arrive when the DMA buffers are full
    MaxTroubles     \* bound: resets, bytes lost, failures

ASSUME MicCaptureConstants ==
    /\ {Takes, Warmup, DmaBlocks, EventDepth} \subseteq Nat \ {0} /\ EventDepth >= 3
    /\ {MaxScripts, MaxStalls, MaxTroubles} \subseteq Nat

VARIABLES
    \* the board: what it is doing, the rate, blocks discarded, those captured, and errors
    mic_pc, rate, discarded, captureBuffer, errors,
    \* the driver: blocks in its buffers, the number of the next, and its events
    dma_blocks, produced, dma_events,
    \* the two directions of the serial port
    toMic, toScript,
    \* the script: what it waits for, its rate, the digest promised, what came, what it saved
    script_pc, asked, digest, raw, saved, scripts,
    stalls, troubles

driverVars == <<dma_blocks, produced, dma_events>>
micVars == <<mic_pc, rate, discarded, captureBuffer, errors>>
scriptVars == <<script_pc, asked, digest, raw, saved, scripts>>
captureVars == <<micVars, driverVars, toMic, toScript, scriptVars, stalls, troubles>>

Trouble == troubles < MaxTroubles /\ troubles' = troubles + 1
NoTrouble == troubles' = troubles

\* What goes over the port is a pair; a digest is what it is taken of.
Plain(word) == <<word, <<>>>>
Noise == Plain("noise")
Prints(item) == toScript' = Append(toScript, item)

Uninstalled == dma_blocks' = <<>> /\ produced' = 0 /\ dma_events' = <<>>

CaptureInit ==
    /\ mic_pc = "loop" /\ rate \in Rates /\ discarded = 0 /\ captureBuffer = <<>> /\ errors = 0
    /\ dma_blocks = <<>> /\ produced = 0 /\ dma_events = <<>>
    /\ toMic = <<>> /\ toScript = <<>>
    /\ script_pc = "off" /\ asked \in Rates /\ digest = <<>> /\ raw = <<>> /\ saved = <<>>
    /\ scripts = 0 /\ stalls = 0 /\ troubles = 0

-----------------------------------------------------------------------------
(* The driver.                                                              *)

Newest(queue) ==
    SubSeq(queue, IF Len(queue) > EventDepth THEN Len(queue) - EventDepth + 1 ELSE 1, Len(queue))

\* With every buffer full the oldest block is lost.
BlockArrives ==
    /\ mic_pc \in {"warmup", "warmup drain", "capture", "capture drain"}
    /\ IF Len(dma_blocks) = DmaBlocks
       THEN /\ stalls < MaxStalls /\ stalls' = stalls + 1
            /\ dma_blocks' = Append(Tail(dma_blocks), produced)
            /\ dma_events' = Newest(dma_events \o <<"RX_Q_OVF", "RX_DONE">>)
       ELSE /\ stalls' = stalls
            /\ dma_blocks' = Append(dma_blocks, produced)
            /\ dma_events' = Newest(Append(dma_events, "RX_DONE"))
    /\ produced' = produced + 1
    /\ UNCHANGED <<micVars, toMic, toScript, scriptVars, troubles>>

-----------------------------------------------------------------------------
(* capture.                                                                 *)

MicReads(pc) ==
    /\ mic_pc = pc /\ toMic # <<>>
    /\ toMic' = Tail(toMic)
    /\ UNCHANGED <<scriptVars, stalls>>

MicStatus ==
    /\ MicReads("loop") /\ NoTrouble /\ Head(toMic) = Plain("status")
    /\ Prints(Plain("MIC_CAPTURE_READY"))
    /\ UNCHANGED <<micVars, driverVars>>

\* Another command, a rate of no meaning, no memory, or no driver.
MicRefuses ==
    /\ MicReads("loop")
    /\ \/ Head(toMic)[1] \in {"GET", "noise"} /\ NoTrouble
       \/ Head(toMic)[1] = "capture" /\ Trouble
    /\ Prints(Plain("ERROR"))
    /\ UNCHANGED <<micVars, driverVars>>

CaptureStarts ==
    /\ MicReads("loop") /\ NoTrouble /\ Head(toMic)[1] = "capture"
    /\ mic_pc' = "warmup" /\ rate' = Head(toMic)[2][1]
    /\ discarded' = 0 /\ captureBuffer' = <<>> /\ errors' = 0
    /\ Uninstalled /\ toScript' = toScript

Works(pc) == mic_pc = pc /\ UNCHANGED <<rate, toMic, scriptVars, stalls>>

I2sRead == dma_blocks # <<>> /\ dma_blocks' = Tail(dma_blocks) /\ UNCHANGED <<produced, dma_events>>

Overflows == Cardinality({n \in 1..Len(dma_events) : dma_events[n] = "RX_Q_OVF"})
Drained == dma_events' = <<>> /\ UNCHANGED <<dma_blocks, produced>>

WarmupRead ==
    /\ Works("warmup") /\ NoTrouble /\ I2sRead
    /\ mic_pc' = "warmup drain" /\ discarded' = discarded + 1
    /\ UNCHANGED <<captureBuffer, errors, toScript>>

\* What was lost so far does not matter.
WarmupDrained ==
    /\ Works("warmup drain") /\ NoTrouble /\ Drained
    /\ mic_pc' = IF discarded < Warmup THEN "warmup" ELSE "capture"
    /\ UNCHANGED <<discarded, captureBuffer, errors, toScript>>

CaptureRead ==
    /\ Works("capture") /\ NoTrouble /\ I2sRead
    /\ mic_pc' = "capture drain" /\ captureBuffer' = Append(captureBuffer, Head(dma_blocks))
    /\ UNCHANGED <<discarded, errors, toScript>>

\* Mutant: the last count replaces the others.
CaptureDrainedAnew ==
    /\ Works("capture drain") /\ NoTrouble /\ Drained
    /\ errors' = Overflows
    /\ mic_pc' = IF Len(captureBuffer) < Takes THEN "capture" ELSE "captured"
    /\ UNCHANGED <<discarded, captureBuffer, toScript>>

CaptureDrained ==
    /\ Works("capture drain") /\ NoTrouble /\ Drained
    /\ errors' = errors + Overflows
    /\ mic_pc' = IF Len(captureBuffer) < Takes THEN "capture" ELSE "captured"
    /\ UNCHANGED <<discarded, captureBuffer, toScript>>

\* A read fails or brings too little, or the pins cannot be set.
CaptureFails ==
    /\ mic_pc \in {"warmup", "capture"} /\ Works(mic_pc) /\ Trouble /\ Uninstalled
    /\ mic_pc' = "loop" /\ Prints(Plain("ERROR"))
    /\ UNCHANGED <<discarded, captureBuffer, errors>>

CaptureOffered ==
    /\ Works("captured") /\ NoTrouble /\ Uninstalled /\ errors = 0
    /\ mic_pc' = "offer" /\ Prints(<<"RAW", <<rate, captureBuffer>>>>)
    /\ UNCHANGED <<discarded, captureBuffer, errors>>

CaptureSpoiled ==
    /\ Works("captured") /\ NoTrouble /\ Uninstalled /\ errors # 0
    /\ mic_pc' = "loop" /\ Prints(Plain("ERROR"))
    /\ UNCHANGED <<discarded, captureBuffer, errors>>

OfferTaken ==
    /\ MicReads("offer") /\ NoTrouble /\ Head(toMic) = Plain("GET")
    /\ mic_pc' = "send" /\ discarded' = 0
    /\ UNCHANGED <<rate, captureBuffer, errors, driverVars, toScript>>

\* Another line, or none in ten seconds.
OfferDeclined ==
    /\ \/ MicReads("offer") /\ Head(toMic) # Plain("GET")
       \/ mic_pc = "offer" /\ toMic = <<>> /\ UNCHANGED <<toMic, scriptVars, stalls>>
    /\ NoTrouble
    /\ mic_pc' = "loop" /\ Prints(Plain("ERROR"))
    /\ UNCHANGED <<rate, discarded, captureBuffer, errors, driverVars>>

\* discarded counts what has been sent.
BlockSent ==
    /\ Works("send") /\ NoTrouble /\ discarded < Takes
    /\ discarded' = discarded + 1 /\ Prints(<<"block", <<rate, captureBuffer[discarded']>>>>)
    /\ UNCHANGED <<mic_pc, captureBuffer, errors, driverVars>>

SendEnds ==
    /\ Works("send") /\ mic_pc' = "loop"
    /\ \/ discarded = Takes /\ NoTrouble /\ Prints(Plain("END"))
       \/ Trouble /\ toScript' = toScript
    /\ UNCHANGED <<discarded, captureBuffer, errors, driverVars>>

-----------------------------------------------------------------------------
(* Resets and the port.                                                     *)

MicBoots ==
    /\ mic_pc' = "loop" /\ Uninstalled
    /\ UNCHANGED <<rate, discarded, captureBuffer, errors, stalls>>

MicReset ==
    /\ Trouble /\ MicBoots
    /\ toMic' = <<>> /\ Prints(Plain("MIC_CAPTURE_READY"))
    /\ UNCHANGED scriptVars

PortGarbles ==
    /\ Trouble
    /\ \/ \E n \in 1..Len(toMic) : toMic' = [toMic EXCEPT ![n] = Noise] /\ toScript' = toScript
       \/ \E n \in 1..Len(toScript) : toScript' = [toScript EXCEPT ![n] = Noise] /\ toMic' = toMic
    /\ UNCHANGED <<micVars, driverVars, scriptVars, stalls>>

-----------------------------------------------------------------------------
(* record.py.                                                               *)

Asks(item) == toMic' = Append(toMic, item)

\* Nobody starts the script sooner than an idle board has read what the last one sent.
ScriptBegins ==
    /\ scripts < MaxScripts /\ scripts' = scripts + 1
    /\ mic_pc = "loop" => toMic = <<>>
    /\ script_pc' = "ready" /\ asked' \in Rates /\ digest' = <<>> /\ raw' = <<>> /\ saved' = <<>>
    /\ NoTrouble

ScriptStarts ==
    /\ ScriptBegins
    /\ toScript' = <<>> /\ Asks(Plain("status"))
    /\ UNCHANGED <<micVars, driverVars, stalls>>

\* --reset.
ScriptResets ==
    /\ ScriptBegins /\ MicBoots
    /\ toScript' = <<Plain("MIC_CAPTURE_READY")>> /\ toMic' = <<Plain("status")>>

ScriptReads(pc, word) ==
    /\ script_pc = pc /\ toScript # <<>> /\ Head(toScript)[1] = word
    /\ toScript' = Tail(toScript)
    /\ UNCHANGED <<micVars, driverVars, asked, scripts, stalls, troubles>>

ScriptAsks ==
    /\ ScriptReads("ready", "MIC_CAPTURE_READY")
    /\ script_pc' = "raw" /\ Asks(<<"capture", <<asked>>>>)
    /\ UNCHANGED <<digest, raw, saved>>

\* The header's rate and length are checked.
ScriptGets ==
    /\ ScriptReads("raw", "RAW") /\ Head(toScript)[2][1] = asked
    /\ script_pc' = "bytes" /\ digest' = Head(toScript)[2][2] /\ Asks(Plain("GET"))
    /\ UNCHANGED <<raw, saved>>

\* Whatever comes is taken for the capture, until it is long enough; <<0, 0>> is no block.
ScriptTakes ==
    /\ \E word \in {"MIC_CAPTURE_READY", "ERROR", "RAW", "block", "END", "noise"} :
           ScriptReads("bytes", word)
    /\ raw' = Append(raw, IF Head(toScript)[1] = "block" THEN Head(toScript)[2] ELSE <<0, 0>>)
    /\ script_pc' = IF Len(raw') < Takes THEN "bytes" ELSE "end"
    /\ UNCHANGED <<toMic, digest, saved>>

ScriptSaves ==
    /\ ScriptReads("end", "END") /\ raw = [n \in 1..Takes |-> <<asked, digest[n]>>]
    /\ script_pc' = "off" /\ saved' = raw
    /\ UNCHANGED <<toMic, digest, raw>>

Wanted ==
    CASE script_pc = "ready" -> {"MIC_CAPTURE_READY"}
      [] script_pc = "raw" -> {"RAW"}
      [] script_pc = "end" -> {"END"}
      [] OTHER -> {}

ScriptSkips ==
    /\ script_pc \in {"ready", "raw", "end"}
    /\ \E word \in {"MIC_CAPTURE_READY", "RAW", "block", "END", "noise"} \ Wanted :
           ScriptReads(script_pc, word)
    /\ UNCHANGED <<script_pc, toMic, digest, raw, saved>>

\* An error, a header or a digest of another capture, patience, or the user ends it.
ScriptStops ==
    /\ script_pc # "off" /\ script_pc' = "off"
    /\ UNCHANGED <<micVars, driverVars, toMic, toScript, asked, digest, raw, saved, scripts,
                   stalls, troubles>>

-----------------------------------------------------------------------------

CaptureNext ==
    \/ BlockArrives
    \/ MicStatus \/ MicRefuses \/ CaptureStarts
    \/ WarmupRead \/ WarmupDrained \/ CaptureRead \/ CaptureDrained \/ CaptureFails
    \/ CaptureOffered \/ CaptureSpoiled \/ OfferTaken \/ OfferDeclined \/ BlockSent \/ SendEnds
    \/ MicReset \/ PortGarbles
    \/ ScriptStarts \/ ScriptResets \/ ScriptAsks \/ ScriptGets \/ ScriptTakes \/ ScriptSaves
    \/ ScriptSkips \/ ScriptStops

CaptureSpec == CaptureInit /\ [][CaptureNext]_captureVars

-----------------------------------------------------------------------------
(* Properties.                                                              *)

\* The type invariant.
CaptureTypeOK ==
    /\ mic_pc \in {"loop", "warmup", "warmup drain", "capture", "capture drain", "captured",
                   "offer", "send"}
    /\ script_pc \in {"off", "ready", "raw", "bytes", "end"}
    /\ {rate, asked} \subseteq Rates /\ {Len(captureBuffer), Len(raw)} \subseteq 0..Takes
    /\ Len(dma_blocks) \in 0..DmaBlocks /\ Len(dma_events) \in 0..EventDepth
    /\ errors \in Nat /\ stalls \in 0..MaxStalls /\ troubles \in 0..MaxTroubles

\* "reported DMA overflows/read errors invalidate a capture" (mic_capture/README.md:12),
\* and the transfer is verified: what is saved is one recording at the rate asked for,
\* without a gap, after the start-up samples, however the port and an earlier script's
\* leftovers disturb it and although reports of lost blocks may themselves be lost.
SavedIsOneRecording ==
    saved # <<>> => \A n \in 1..Takes : saved[n] = <<asked, saved[1][2] + n - 1>>
                                          /\ saved[n][2] >= Warmup
=============================================================================
