-------------------------------- MODULE Parts --------------------------------
(***************************************************************************)
(* The parts that are modelled on their own, side by side: the send window, *)
(* the button, the two players without a radio link of their own, the LoRa  *)
(* pair, the coder of the voice link, and the two bench tools with a script *)
(* on the host.  They share nothing, so a behavior is one of them, chosen   *)
(* at the start.  What is proved of a part is proved of its own             *)
(* specification.                                                           *)
(***************************************************************************)
EXTENDS SendWindow, Debounce, AvPlayer, LocalVideo, LoraTest, Adpcm, FilePlayer,
        MicCapture

VARIABLE program

partVars == <<window, buttonVars, avVars, localVars, loraVars, adpcmVars, fileVars, captureVars>>
vars == <<program, partVars>>

\* Of the parts that do not run, one initial state will do.
OnlyOne ==
    /\ program # "window" => window = NewWindow(1, 1)
    /\ program # "button" => now_ms = 0 /\ ~raw_pressed
    /\ program # "local player" => mounted
    /\ program # "lora" => a_pc = "idle" /\ b_pc = "idle"
                           /\ \A digits \in SessionDigits : session[2] <= digits
    /\ program # "file player" => host_track = CHOOSE content \in Tracks : TRUE
    /\ program # "capture" => \A r \in Rates : rate <= r /\ asked <= r

Init ==
    /\ program \in {"window", "button", "av player", "local player", "lora", "coder",
                    "file player", "capture"}
    /\ WindowInit /\ ButtonInit /\ AvInit /\ LocalInit /\ LoraInit
    /\ AdpcmInit /\ FileInit /\ CaptureInit
    /\ OnlyOne

InWindow ==
    /\ program = "window"
    /\ UNCHANGED <<program, buttonVars, avVars, localVars, loraVars, adpcmVars, fileVars,
                   captureVars>>

InButton ==
    /\ program = "button"
    /\ UNCHANGED <<program, window, avVars, localVars, loraVars, adpcmVars, fileVars,
                   captureVars>>

InAvPlayer ==
    /\ program = "av player"
    /\ UNCHANGED <<program, window, buttonVars, localVars, loraVars, adpcmVars, fileVars,
                   captureVars>>

InLocalPlayer ==
    /\ program = "local player"
    /\ UNCHANGED <<program, window, buttonVars, avVars, loraVars, adpcmVars, fileVars,
                   captureVars>>

InLora ==
    /\ program = "lora"
    /\ UNCHANGED <<program, window, buttonVars, avVars, localVars, adpcmVars, fileVars,
                   captureVars>>

InCoder ==
    /\ program = "coder"
    /\ UNCHANGED <<program, window, buttonVars, avVars, localVars, loraVars, fileVars,
                   captureVars>>

InFilePlayer ==
    /\ program = "file player"
    /\ UNCHANGED <<program, window, buttonVars, avVars, localVars, loraVars, adpcmVars,
                   captureVars>>

InCapture ==
    /\ program = "capture"
    /\ UNCHANGED <<program, window, buttonVars, avVars, localVars, loraVars, adpcmVars,
                   fileVars>>

Next ==
    \/ InWindow /\ WindowNext
    \/ InButton /\ ButtonNext
    \/ InAvPlayer /\ AvNext
    \/ InLocalPlayer /\ LocalNext
    \/ InLora /\ LoraNext
    \/ InCoder /\ AdpcmNext
    \/ InFilePlayer /\ FileNext
    \/ InCapture /\ CaptureNext

\* The fairness of AvSpec and of LoraSpec; the other parts assume none.
Fairly ==
    /\ WF_avVars(program = "av player" /\ AfterStop)
    /\ WF_avVars(program = "av player" /\ Worker)
    /\ WF_avVars(program = "av player" /\ Hear)
    /\ WF_loraVars(program = "lora" /\ ListenA)
    /\ WF_loraVars(program = "lora" /\ TimeOutA)
    /\ WF_loraVars(program = "lora" /\ Pong)
    /\ SF_loraVars(program = "lora" /\ a_pc = "idle" /\ ListenB)
    /\ SF_loraVars(program = "lora" /\ PingHeard)

Spec == Init /\ [][Next]_vars /\ Fairly

-----------------------------------------------------------------------------

\* The type invariants of the parts.
TypesOK ==
    /\ WindowTypeOK /\ ButtonTypeOK /\ AvTypeOK /\ LocalTypeOK /\ LoraTypeOK
    /\ AdpcmTypeOK /\ FileTypeOK /\ CaptureTypeOK

\* The pair's recovery, of which another part's behavior says nothing.
LoraRecovers == program = "lora" => Recovers
=============================================================================
