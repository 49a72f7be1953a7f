------------------------------ MODULE LoraTest ------------------------------
(***************************************************************************)
(* lora_test/src/main.cpp on two boards: A sends a numbered ping and waits  *)
(* for its pong, B answers every ping it hears.  A board hears only while   *)
(* it receives, and the chip takes no packet longer than its length field,  *)
(* which a transmission sets.                                               *)
(*                                                                          *)
(* A token is the boot it belongs to, the digits of its random session      *)
(* number (sessions of two boots are taken to differ) and the sequence.     *)
(***************************************************************************)
EXTENDS Integers

CONSTANTS
    SequenceWrap,               \* 2^32: where sequence and the counters start again
    Base,               \* 10: the first number with one more digit
    SessionDigits,      \* how long a session number, 32 bits in hexadecimal, may be
    MaxBoots,           \* bound: how often A is started
    MaxDisturbances     \* bound: losses, errors, foreign packets, late answers, failures

ASSUME LoraTestConstants ==
    /\ SequenceWrap \in Nat \ {0} /\ Base \in 1..SequenceWrap
    /\ SessionDigits \subseteq 1..8 /\ MaxBoots \in Nat \ {0} /\ MaxDisturbances \in Nat

\* An answer is not held up until the numbers come round.
ASSUME AnswersComeInTime == MaxDisturbances < SequenceWrap

VARIABLES
    \* A: where it is, and its numbers
    a_pc, session, sequence, sent, replies, timeouts, txErrors,
    \* B: where it is, and the token it is about to answer
    b_pc, packet,
    \* the length field of each chip
    limit,
    disturbances,
    \* history: B holds the answer to the ping A waits for; something else than the
    \* programs is to blame if there is none
    fresh, excused

numbers == <<session, sequence, sent, replies, timeouts, txErrors>>
varsB == <<b_pc, packet>>
loraVars == <<a_pc, numbers, varsB, limit, disturbances, fresh, excused>>

Longest == 255

Digits(number) == IF number < Base THEN 1 ELSE 2
Length(token) == token[2] + Digits(token[3])

Token == <<session[1], session[2], sequence>>
Foreign == <<0, 1, 0>>

Numbered(count) == (count + 1) % SequenceWrap

Disturbs == disturbances < MaxDisturbances /\ disturbances' = disturbances + 1

\* setup() ends with a session of A's own, or stops for good.
LoraInit ==
    /\ a_pc \in {"idle", "stopped"} /\ session \in {1} \X SessionDigits
    /\ sequence = 0 /\ sent = 0 /\ replies = 0 /\ timeouts = 0 /\ txErrors = 0
    /\ b_pc \in {"idle", "stopped"} /\ packet = Foreign
    /\ limit = [board \in {"A", "B"} |-> Longest]
    /\ disturbances = 0 /\ fresh = FALSE /\ excused = FALSE

\* A is reset, or switched off and on.
BootA ==
    /\ session[1] < MaxBoots
    /\ a_pc' \in {"idle", "stopped"} /\ session' \in {session[1] + 1} \X SessionDigits
    /\ sequence' = 0 /\ sent' = 0 /\ replies' = 0 /\ timeouts' = 0 /\ txErrors' = 0
    /\ limit' = [limit EXCEPT !["A"] = Longest]
    /\ fresh' = FALSE /\ excused' = FALSE
    /\ UNCHANGED <<varsB, disturbances>>

BootB ==
    /\ Disturbs
    /\ b_pc' \in {"idle", "stopped"} /\ packet' = Foreign
    /\ limit' = [limit EXCEPT !["B"] = Longest]
    /\ fresh' = FALSE /\ excused' = TRUE
    /\ UNCHANGED <<a_pc, numbers>>

-----------------------------------------------------------------------------
(* ping, as far as its transmission, and what B makes of it.                *)

PingFails ==
    /\ a_pc = "idle" /\ Disturbs
    /\ sequence' = Numbered(sequence) /\ txErrors' = Numbered(txErrors)
    /\ UNCHANGED <<a_pc, session, sent, replies, timeouts, varsB, limit, fresh, excused>>

PingSent ==
    /\ a_pc = "idle"
    /\ UNCHANGED <<session, replies, timeouts, txErrors>>
    /\ sequence' = Numbered(sequence) /\ sent' = Numbered(sent)
    /\ a_pc' = "wait"
    /\ limit' = [limit EXCEPT !["A"] = Length(Token')]

PingHeard ==
    /\ PingSent
    /\ b_pc = "listen" /\ Length(Token') <= limit["B"]
    /\ b_pc' = "delay" /\ packet' = Token'
    /\ fresh' = TRUE /\ excused' = FALSE
    /\ UNCHANGED disturbances

\* B is not receiving.
PingMissed ==
    /\ PingSent
    /\ b_pc # "listen"
    /\ fresh' = FALSE /\ excused' = TRUE
    /\ UNCHANGED <<varsB, disturbances>>

\* Lost or damaged on the air, or too long for B's length field.
PingSpoiled ==
    /\ PingSent
    /\ b_pc = "listen"
    /\ IF Length(Token') <= limit["B"] THEN Disturbs ELSE disturbances' = disturbances
    /\ b_pc' \in {"listen", "idle"} /\ packet' = packet
    /\ fresh' = FALSE /\ excused' = (Length(Token') <= limit["B"])

-----------------------------------------------------------------------------
(* receiveText, on either board.                                            *)

\* Mutant: the length field keeps what the last transmission made of it.
OpenedUnset(board) == limit' = limit

\* standby and explicitHeader, then receive.
Opened(board) == limit' = [limit EXCEPT ![board] = Longest]

ListenA ==
    /\ a_pc = "wait"
    /\ a_pc' = "listen" /\ Opened("A")
    /\ UNCHANGED <<numbers, varsB, disturbances, fresh, excused>>

ListenB ==
    /\ b_pc = "idle"
    /\ b_pc' = "listen" /\ Opened("B")
    /\ UNCHANGED <<a_pc, numbers, packet, disturbances, fresh, excused>>

\* receive's own time-out; B starts again.
SilenceB ==
    /\ b_pc = "listen"
    /\ b_pc' = "idle"
    /\ UNCHANGED <<a_pc, numbers, packet, limit, disturbances, fresh, excused>>

\* Mutant: the wait for a pong has no end.
TimeOutWaits ==
    /\ a_pc \in {"wait", "listen"}
    /\ IF b_pc = "delay" THEN Disturbs /\ excused' = TRUE ELSE UNCHANGED <<disturbances, excused>>
    /\ a_pc' = "wait" /\ timeouts' = Numbered(timeouts)
    /\ fresh' = FALSE
    /\ UNCHANGED <<session, sequence, sent, replies, txErrors, varsB, limit>>

\* Two seconds are over: B's hundred milliseconds are long over, or something held it up.
TimeOutA ==
    /\ a_pc \in {"wait", "listen"}
    /\ IF b_pc = "delay" THEN Disturbs /\ excused' = TRUE ELSE UNCHANGED <<disturbances, excused>>
    /\ a_pc' = "idle" /\ timeouts' = Numbered(timeouts)
    /\ fresh' = FALSE
    /\ UNCHANGED <<session, sequence, sent, replies, txErrors, varsB, limit>>

\* An error of receive, or a packet of someone else: A goes on waiting.
OtherHeardA ==
    /\ a_pc = "listen" /\ Disturbs
    /\ a_pc' = "wait"
    /\ UNCHANGED <<numbers, varsB, limit, fresh, excused>>

\* The same at B, and a ping of someone else, which it answers.
OtherHeardB ==
    /\ b_pc = "listen" /\ Disturbs
    /\ \/ b_pc' = "idle" /\ packet' = packet
       \/ b_pc' = "delay" /\ packet' = Foreign
    /\ UNCHANGED <<a_pc, numbers, limit, fresh, excused>>

-----------------------------------------------------------------------------
(* respond's answer, and what A makes of it.                                *)

\* After replyDelayMs, in which A has turned to reception.
PongSent ==
    /\ b_pc = "delay" /\ a_pc # "wait"
    /\ b_pc' = "idle" /\ packet' = packet
    /\ limit' = [limit EXCEPT !["B"] = Length(packet)]
    /\ fresh' = FALSE
    /\ UNCHANGED <<session, sequence, sent, timeouts, txErrors>>

\* Mutant: the session is not compared.
MatchesSequence == packet[3] = sequence

\* reply == expected.
Matches == packet = Token

PongHeard ==
    /\ PongSent
    /\ a_pc = "listen" /\ Length(packet) <= limit["A"]
    /\ IF Matches THEN a_pc' = "idle" /\ replies' = Numbered(replies)
       ELSE a_pc' = "wait" /\ replies' = replies
    /\ UNCHANGED <<disturbances, excused>>

PongMissed ==
    /\ PongSent
    /\ a_pc # "listen"
    /\ UNCHANGED <<a_pc, replies, disturbances, excused>>

PongSpoiled ==
    /\ PongSent
    /\ a_pc = "listen"
    /\ IF Length(packet) <= limit["A"] THEN Disturbs /\ excused' = TRUE
       ELSE UNCHANGED <<disturbances, excused>>
    /\ a_pc' \in {"listen", "wait"} /\ replies' = replies

PongFails ==
    /\ b_pc = "delay" /\ Disturbs
    /\ b_pc' = "idle" /\ packet' = packet
    /\ fresh' = FALSE /\ excused' = TRUE
    /\ UNCHANGED <<a_pc, numbers, limit>>

-----------------------------------------------------------------------------

Pong == PongHeard \/ PongMissed \/ PongSpoiled

LoraNext ==
    \/ PingHeard \/ PingMissed \/ PingSpoiled \/ PingFails
    \/ ListenA \/ TimeOutA \/ OtherHeardA \/ BootA
    \/ ListenB \/ SilenceB \/ OtherHeardB \/ Pong \/ PongFails \/ BootB

\* Both loops go round.  A is idle for seconds and B for a millisecond at a time, so B
\* comes to listen while A is idle, and some ping meets it listening.
LoraSpec ==
    /\ LoraInit /\ [][LoraNext]_loraVars
    /\ WF_loraVars(ListenA) /\ WF_loraVars(TimeOutA) /\ WF_loraVars(Pong)
    /\ SF_loraVars(ListenB /\ a_pc = "idle") /\ SF_loraVars(PingHeard)

-----------------------------------------------------------------------------
(* Properties.                                                              *)

\* The type invariant.
LoraTypeOK ==
    /\ a_pc \in {"stopped", "idle", "wait", "listen"}
    /\ b_pc \in {"stopped", "idle", "listen", "delay"}
    /\ session \in (1..MaxBoots) \X SessionDigits
    /\ {sequence, sent, replies, timeouts, txErrors} \subseteq 0..(SequenceWrap - 1)
    /\ packet \in (0..MaxBoots) \X (SessionDigits \cup {1}) \X (0..(SequenceWrap - 1))
    /\ \A board \in {"A", "B"} : limit[board] \in 1..Longest
    /\ disturbances \in 0..MaxDisturbances /\ {fresh, excused} \subseteq BOOLEAN

\* A round trip that is counted is one: B heard this very ping and answered it,
\* although pongs of an earlier boot or of another initiator may still come
\* ("prevents accepting a reply from an earlier session", main.cpp:73).
RoundTripsAreTrue == [][replies' # replies /\ session' = session => fresh]_loraVars

\* A ping that B heard and nothing disturbed never times out, also when the sequence
\* gets a digit more ("Verify replies continue across 9 to 10", README.md:184-185).
TimeoutsAreExcused == [][timeouts' # timeouts /\ session' = session => excused']_loraVars

\* "powering it back on should restore replies automatically" (README.md:151-152).
Recovers ==
    <>[](a_pc # "stopped" /\ b_pc # "stopped") => []<><<replies' # replies>>_loraVars
=============================================================================
